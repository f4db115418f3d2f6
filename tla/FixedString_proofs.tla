------------------------- MODULE FixedString_proofs -------------------------
(***************************************************************************)
(* Proofs about FixedString, for every capacity and every alphabet:        *)
(* strings stay NUL-terminated and within their capacity, small ones as    *)
(* long as no call fills them.                                             *)
(***************************************************************************)
EXTENDS FixedString, WellFoundedInduction, TLAPS

Cells == 0..(Radix - 1)

Memory == [buf : [0..N -> Cells], size : 0..N]

\* m is the memory of a string of n characters.
Sealed(m, n) ==
    /\ m \in Memory
    /\ n \in 0..N
    /\ m.buf[n] = NUL
    /\ storage = "sized" => m.size = n
    /\ storage = "small" => m.size = 0 /\ n < N /\ m.buf[N] = N + 1 - n

\* The inductive invariant: for a small string it says more than TypeOK and
\* Terminated, that the last character is the complement of the size.
IsString(m) == \E n \in 0..N : Sealed(m, n)

Inv == storage \in Storages /\ IsString(mem)

\* A call that asks for n characters does not fill a small string.
Allowed(n) == n > N \/ Room(n)

\* The strings of the theorems: no call fills a small one up.  A small string
\* needs one more value of its last character than the static_assert grants,
\* since the size 0 is kept as N + 1.
NotFilled == /\ FillSmall = FALSE
             /\ "small" \in Storages => N + 1 < Radix

\* With it, what the lemmas need of the constants.
Keeps == /\ NotFilled
         /\ Storages \subseteq {"small", "sized"}
         /\ N \in Nat \ {0} /\ Radix \in Nat /\ NUL \in Cells /\ Chars \subseteq Cells

LEMMA KeepsHolds == NotFilled => Keeps
BY CapacityAssumption, CharsAssumption, StoragesAssumption DEF Keeps, Cells, NUL

----------------------------------------------------------------------------
(* Lemmas about the storage. *)

\* size() reads what a sealed memory says.
LEMMA SealedSize ==
    ASSUME Keeps, storage \in Storages, NEW m, NEW n, Sealed(m, n)
    PROVE  Size(m) = n /\ n \in 0..N
BY DEF Keeps, NotFilled, Sealed, Memory, Size, Cells

\* set_size seals.
LEMMA SetSizeSeals ==
    ASSUME Keeps, storage \in Storages, NEW m \in Memory, NEW n \in 0..N,
           storage = "small" => n < N /\ m.size = 0
    PROVE  Sealed(SetSize(m, n), n)
<1>1. CASE storage = "sized"
  <2>1. SetSize(m, n) = [buf |-> [m.buf EXCEPT ![n] = NUL], size |-> n]
    BY <1>1 DEF SetSize
  <2> QED BY <1>1, <2>1 DEF Keeps, NotFilled, Sealed, Memory
<1>2. CASE storage = "small"
  <2>1. N + 1 - n \in Cells /\ (N + 1 - n) % Radix = N + 1 - n
    BY <1>2 DEF Keeps, NotFilled, Cells
  <2> DEFINE b == [m.buf EXCEPT ![N] = N + 1 - n, ![n] = NUL]
  <2>2. SetSize(m, n) = [m EXCEPT !.buf = b]
    BY <1>2, <2>1 DEF SetSize
  <2>3. b \in [0..N -> Cells] /\ b[n] = NUL /\ b[N] = N + 1 - n
    BY <1>2, <2>1 DEF Keeps, NotFilled, Memory
  <2>4. SetSize(m, n).buf = b /\ SetSize(m, n).size = m.size /\ SetSize(m, n) \in Memory
    BY <2>2, <2>3 DEF Memory
  <2> QED BY <1>2, <2>3, <2>4 DEF Sealed
<1> QED BY <1>1, <1>2 DEF Keeps, NotFilled

\* Copying a text below the end of a string leaves it sealed.
LEMMA WriteKeeps ==
    ASSUME Keeps, NEW m \in Memory, NEW at \in Nat, NEW s \in Seq(Cells),
           NEW n \in 0..N, at + Len(s) =< n
    PROVE  /\ Write(m, at, s) \in Memory
           /\ Write(m, at, s).size = m.size
           /\ \A j \in n..N : Write(m, at, s).buf[j] = m.buf[j]
<1> DEFINE b == [j \in 0..N |-> IF at =< j /\ j < at + Len(s) THEN s[j - at + 1] ELSE m.buf[j]]
<1>1. Write(m, at, s) = [m EXCEPT !.buf = b]
  BY DEF Write
<1>2. ASSUME NEW j \in 0..N PROVE b[j] \in Cells
  <2>1. CASE at =< j /\ j < at + Len(s)
    <3>1. j - at + 1 \in 1..Len(s)
      BY <2>1
    <3> QED BY <2>1, <3>1
  <2>2. CASE ~(at =< j /\ j < at + Len(s))
    BY <2>2 DEF Memory
  <2> QED BY <2>1, <2>2
<1>3. b \in [0..N -> Cells]
  BY <1>2
<1>4. \A j \in n..N : b[j] = m.buf[j]
  BY DEF Keeps, NotFilled
<1> QED BY <1>1, <1>3, <1>4 DEF Memory

\* So does moving characters within the buffer.
LEMMA MoveKeeps ==
    ASSUME Keeps, NEW m \in Memory, NEW first \in Nat, NEW last \in Nat, NEW dest \in Nat,
           NEW n \in 0..N, first =< last, last =< N, dest + (last - first) =< n
    PROVE  /\ Move(m, first, last, dest) \in Memory
           /\ Move(m, first, last, dest).size = m.size
           /\ \A j \in n..N : Move(m, first, last, dest).buf[j] = m.buf[j]
<1> DEFINE b == [j \in 0..N |-> IF dest =< j /\ j < dest + (last - first)
                                THEN m.buf[first + (j - dest)] ELSE m.buf[j]]
<1>1. Move(m, first, last, dest) = [m EXCEPT !.buf = b]
  BY DEF Move
<1>2. ASSUME NEW j \in 0..N PROVE b[j] \in Cells
  <2>1. CASE dest =< j /\ j < dest + (last - first)
    <3>1. first + (j - dest) \in 0..N
      BY <2>1 DEF Keeps, NotFilled
    <3> QED BY <2>1, <3>1 DEF Memory
  <2>2. CASE ~(dest =< j /\ j < dest + (last - first))
    BY <2>2 DEF Memory
  <2> QED BY <2>1, <2>2
<1>3. b \in [0..N -> Cells]
  BY <1>2
<1>4. \A j \in n..N : b[j] = m.buf[j]
  BY DEF Keeps, NotFilled
<1> QED BY <1>1, <1>3, <1>4 DEF Memory

\* A memory that agrees with a sealed one from its end on is sealed too.
LEMMA SealKept ==
    ASSUME Keeps, storage \in Storages, NEW m, NEW n, Sealed(m, n), NEW r \in Memory,
           r.size = m.size, \A j \in n..N : r.buf[j] = m.buf[j]
    PROVE  Sealed(r, n)
BY DEF Keeps, NotFilled, Sealed

LEMMA WriteSealed ==
    ASSUME Keeps, storage \in Storages, NEW m, NEW n, Sealed(m, n),
           NEW at \in Nat, NEW s \in Seq(Cells), at + Len(s) =< n
    PROVE  Sealed(Write(m, at, s), n)
<1>1. m \in Memory /\ n \in 0..N
  BY DEF Sealed
<1> QED BY <1>1, WriteKeeps, SealKept

LEMMA MoveSealed ==
    ASSUME Keeps, storage \in Storages, NEW m, NEW n, Sealed(m, n),
           NEW first \in Nat, NEW last \in Nat, NEW dest \in Nat,
           first =< last, last =< N, dest + (last - first) =< n
    PROVE  Sealed(Move(m, first, last, dest), n)
<1>1. m \in Memory /\ n \in 0..N
  BY DEF Sealed
<1> QED BY <1>1, MoveKeeps, SealKept

\* set_size on a string, whatever its size was.
LEMMA SetSizeSealed ==
    ASSUME Keeps, storage \in Storages, NEW m, IsString(m), NEW n \in 0..N, Allowed(n)
    PROVE  Sealed(SetSize(m, n), n)
<1>1. m \in Memory /\ (storage = "small" => m.size = 0)
  BY DEF IsString, Sealed
<1>2. storage = "small" => n < N
  BY DEF Allowed, Room, Keeps, NotFilled
<1> QED BY <1>1, <1>2, SetSizeSeals

LEMMA SizeIsSeal ==
    ASSUME Keeps, storage \in Storages, NEW m, IsString(m)
    PROVE  /\ N \in Nat /\ Size(m) \in Nat /\ Size(m) \in 0..N
           /\ Sealed(m, Size(m)) /\ m \in Memory
           /\ storage = "small" => Size(m) < N
<1>1. Size(m) \in 0..N /\ Sealed(m, Size(m))
  BY SealedSize DEF IsString
<1> QED BY <1>1 DEF Sealed, Keeps, NotFilled

----------------------------------------------------------------------------
(* The calls. *)

LEMMA AssignString ==
    ASSUME Keeps, storage \in Storages, NEW m, IsString(m), NEW t \in Seq(Cells), Allowed(Len(t))
    PROVE  IsString(assign(m, t))
<1>1. CASE Len(t) =< N
  <2> Len(t) \in 0..N
    BY <1>1 DEF Keeps, NotFilled
  <2>1. Sealed(SetSize(m, Len(t)), Len(t))
    BY SetSizeSealed
  <2>2. Sealed(Write(SetSize(m, Len(t)), 0, t), Len(t))
    BY <2>1, WriteSealed
  <2> QED BY <1>1, <2>2 DEF assign, Fits, IsString, Keeps, NotFilled
<1>2. CASE ~(Len(t) =< N)
  BY <1>2 DEF assign, Fits
<1> QED BY <1>1, <1>2

LEMMA AppendString ==
    ASSUME Keeps, storage \in Storages, NEW m, IsString(m), NEW t \in Seq(Cells),
           Allowed(Size(m) + Len(t))
    PROVE  IsString(append(m, t))
<1> DEFINE n == Size(m) + Len(t)
<1>1. Size(m) \in Nat /\ Size(m) \in 0..N /\ N \in Nat
  BY SizeIsSeal
<1>2. CASE n =< N
  <2>1. n \in 0..N
    BY <1>1, <1>2 DEF Keeps, NotFilled
  <2>2. Sealed(SetSize(m, n), n)
    BY <2>1, SetSizeSealed
  <2>3. Sealed(Write(SetSize(m, n), Size(m), t), n)
    BY <1>1, <2>1, <2>2, WriteSealed
  <2> QED BY <1>2, <2>1, <2>3 DEF append, Fits, IsString
<1>3. CASE ~(n =< N)
  BY <1>3 DEF append, Fits
<1> QED BY <1>2, <1>3

LEMMA PushBackString ==
    ASSUME Keeps, storage \in Storages, NEW m, IsString(m), NEW ch \in Cells, Allowed(Size(m) + 1)
    PROVE  IsString(push_back(m, ch))
<1> DEFINE w == Write(m, Size(m), <<ch>>)
           n == Size(m) + 1
<1>1. Size(m) \in Nat /\ Size(m) \in 0..N /\ N \in Nat /\ Sealed(m, Size(m)) /\ m \in Memory
  BY SizeIsSeal
<1>2. CASE n =< N
  <2>1. n \in 0..N /\ N \in n..N /\ Len(<<ch>>) = 1 /\ <<ch>> \in Seq(Cells)
    BY <1>1, <1>2 DEF Keeps, NotFilled
  <2>a. Size(m) + Len(<<ch>>) =< n
    BY <1>1, <2>1
  <2>b. w \in Memory /\ w.size = m.size /\ \A j \in n..N : w.buf[j] = m.buf[j]
    BY <1>1, <2>1, <2>a, WriteKeeps
  <2>2. w \in Memory /\ w.size = m.size /\ w.buf[N] = m.buf[N]
    BY <2>1, <2>b
  <2>3. Size(w) = Size(m)
    BY <2>2 DEF Size, Keeps, NotFilled
  <2>4. storage = "small" => n < N /\ w.size = 0
    BY <1>1, <1>2, <2>2 DEF Allowed, Room, Keeps, NotFilled, Sealed
  <2>5. Sealed(SetSize(w, n), n)
    BY <2>1, <2>2, <2>4, SetSizeSeals
  <2> QED BY <1>2, <2>1, <2>3, <2>5 DEF push_back, Fits, AdjustSize, IsString
<1>3. CASE ~(n =< N)
  BY <1>3 DEF push_back, Fits
<1> QED BY <1>2, <1>3

LEMMA ShorterAllowed ==
    ASSUME Keeps, storage \in Storages, NEW m, IsString(m), NEW n \in 0..Size(m)
    PROVE  Allowed(n) /\ n \in 0..N
<1>1. Size(m) \in Nat /\ Size(m) \in 0..N /\ N \in Nat /\ (storage = "small" => Size(m) < N)
  BY SizeIsSeal
<1> QED BY <1>1 DEF Allowed, Room

LEMMA PopBackString ==
    ASSUME Keeps, storage \in Storages, NEW m, IsString(m), Size(m) > 0
    PROVE  IsString(pop_back(m))
<1>1. Size(m) \in Nat
  BY SizeIsSeal
<1> Size(m) + (-1) \in 0..Size(m)
  BY <1>1
<1>2. Sealed(SetSize(m, Size(m) + (-1)), Size(m) + (-1)) /\ Size(m) + (-1) \in 0..N
  BY ShorterAllowed, SetSizeSealed
<1> QED BY <1>2 DEF pop_back, AdjustSize, IsString

LEMMA ClearString ==
    ASSUME Keeps, storage \in Storages, NEW m, IsString(m)
    PROVE  IsString(clear(m))
<1>1. Size(m) \in Nat /\ N \in Nat
  BY SizeIsSeal
<1> 0 \in 0..Size(m) /\ 0 \in 0..N
  BY <1>1
<1>2. Sealed(SetSize(m, 0), 0)
  BY <1>1, ShorterAllowed, SetSizeSealed
<1> QED BY <1>1, <1>2 DEF clear, IsString

LEMMA FillText ==
    ASSUME NEW n \in Nat, NEW ch \in Cells
    PROVE  Fill(n, ch) \in Seq(Cells) /\ Len(Fill(n, ch)) = n
BY DEF Fill

LEMMA ResizeString ==
    ASSUME Keeps, storage \in Storages, NEW m, IsString(m), NEW n \in Nat, NEW ch \in Cells, Allowed(n)
    PROVE  IsString(resize(m, n, ch))
<1> DEFINE r == SetSize(m, n)
           f == Fill(n - Size(m), ch)
<1>1. Size(m) \in Nat /\ Size(m) \in 0..N /\ N \in Nat
  BY SizeIsSeal
<1>2. CASE n =< N
  <2>1. n \in 0..N
    BY <1>2
  <2>2. Sealed(r, n) /\ Size(r) = n
    BY <2>1, SetSizeSealed, SealedSize
  <2>3. CASE Size(m) < n
    <3> n - Size(m) \in Nat
      BY <1>1, <2>3
    <3>1. f \in Seq(Cells) /\ Len(f) = n - Size(m)
      BY FillText
    <3>2. Sealed(Write(r, Size(m), f), n)
      BY <1>1, <2>1, <2>2, <2>3, <3>1, WriteSealed
    <3> QED BY <1>2, <2>1, <2>2, <2>3, <3>2 DEF resize, Fits, IsString
  <2>4. CASE ~(Size(m) < n)
    BY <1>2, <2>1, <2>2, <2>4 DEF resize, Fits, IsString
  <2> QED BY <2>3, <2>4
<1>3. CASE ~(n =< N)
  BY <1>3 DEF resize, Fits
<1> QED BY <1>2, <1>3

LEMMA InsertString ==
    ASSUME Keeps, storage \in Storages, NEW m, IsString(m), NEW index \in Nat,
           NEW t \in Seq(Cells), Allowed(Size(m) + Len(t))
    PROVE  IsString(insert(m, index, t))
<1> DEFINE n == Size(m) + Len(t)
           r == SetSize(m, n)
           v == Move(r, index, Size(m), Size(r) - (Size(m) - index))
<1>1. Size(m) \in Nat /\ Size(m) \in 0..N /\ N \in Nat
  BY SizeIsSeal
<1>2. CASE index =< Size(m) /\ n =< N
  <2>1. n \in 0..N
    BY <1>1, <1>2 DEF Keeps, NotFilled
  <2>2. Sealed(r, n) /\ Size(r) = n
    BY <2>1, SetSizeSealed, SealedSize
  <2>3. /\ Size(r) - (Size(m) - index) \in Nat
        /\ Size(r) - (Size(m) - index) + (Size(m) - index) =< n
        /\ index =< Size(m) /\ Size(m) =< N /\ index + Len(t) =< n
    BY <1>1, <1>2, <2>1, <2>2
  <2>4. Sealed(v, n)
    BY <1>1, <2>2, <2>3, MoveSealed
  <2>5. Sealed(Write(v, index, t), n)
    BY <2>3, <2>4, WriteSealed
  <2> QED BY <1>2, <2>1, <2>5 DEF insert, Fits, IsString
<1>3. CASE ~(index =< Size(m) /\ n =< N)
  BY <1>3 DEF insert, Fits
<1> QED BY <1>2, <1>3

LEMMA EraseString ==
    ASSUME Keeps, storage \in Storages, NEW m, IsString(m), NEW index \in Nat, NEW count \in Nat
    PROVE  IsString(erase(m, index, count))
<1> DEFINE k == Erased(m, index, count)
           v == Move(m, index + k, Size(m), index)
           n == Size(m) + (-k)
<1>1. Size(m) \in Nat /\ Size(m) \in 0..N /\ N \in Nat /\ Sealed(m, Size(m)) /\ m \in Memory
  BY SizeIsSeal
<1>2. CASE index =< Size(m)
  <2>1. k \in 0..(Size(m) - index)
    BY <1>1, <1>2 DEF Erased, Min, Keeps, NotFilled
  <2>2. /\ index + k \in Nat /\ Size(m) \in Nat /\ index + k =< Size(m) /\ Size(m) =< N
        /\ index + (Size(m) - (index + k)) =< Size(m)
        /\ n \in 0..Size(m) /\ N \in Size(m)..N
    BY <1>1, <1>2, <2>1 DEF Keeps, NotFilled
  <2>a. ASSUME NEW first \in Nat, NEW last \in Nat, NEW dest \in Nat, NEW end \in 0..N,
               first =< last, last =< N, dest + (last - first) =< end
        PROVE  /\ Move(m, first, last, dest) \in Memory
               /\ Move(m, first, last, dest).size = m.size
               /\ Move(m, first, last, dest).buf[N] = m.buf[N]
    <3>1. N \in end..N
      BY <1>1
    <3> HIDE DEF k, v, n
    <3> QED BY <1>1, <2>a, <3>1, MoveKeeps
  <2>3. v \in Memory /\ v.size = m.size /\ v.buf[N] = m.buf[N]
    BY <1>1, <2>2, <2>a
  <2>4. Size(v) = Size(m)
    BY <2>3 DEF Size, Keeps, NotFilled
  <2>5. Sealed(v, Size(m))
    BY <1>1, <2>2, MoveSealed
  <2>6. IsString(v)
    BY <1>1, <2>5 DEF IsString
  <2>7. Sealed(SetSize(v, n), n) /\ n \in 0..N
    BY <2>2, <2>4, <2>6, ShorterAllowed, SetSizeSealed
  <2> QED BY <1>2, <2>4, <2>7 DEF erase, AdjustSize, IsString
<1>3. CASE ~(index =< Size(m))
  BY <1>3 DEF erase
<1> QED BY <1>2, <1>3

LEMMA ReplaceString ==
    ASSUME Keeps, storage \in Storages, NEW m, IsString(m), NEW pos \in Nat, NEW count \in Nat,
           NEW t \in Seq(Cells), Allowed(Size(m) - Erased(m, pos, count) + Len(t))
    PROVE  IsString(replace(m, pos, count, t))
<1> DEFINE k == Erased(m, pos, count)
           n == Size(m) - k + Len(t)
<1>1. /\ Size(m) \in Nat /\ Size(m) \in 0..N /\ N \in Nat
      /\ Sealed(m, Size(m)) /\ m \in Memory
  BY SizeIsSeal
<1>2. CASE ~(pos =< Size(m) /\ n =< N)
  BY <1>1, <1>2 DEF replace, Fits
<1>3. CASE pos =< Size(m) /\ n =< N
  <2>1. k \in 0..(Size(m) - pos)
    BY <1>1, <1>3 DEF Erased, Min
  <2>2. /\ Len(t) \in Nat /\ n \in 0..N
        /\ pos + k \in Nat /\ pos + k =< Size(m) /\ Size(m) =< N /\ pos + Len(t) \in Nat
        /\ pos + Len(t) =< n
        /\ pos + Len(t) + (Size(m) - (pos + k)) =< n
    BY <1>1, <1>3, <2>1
  <2> HIDE DEF k, n
  <2>3. CASE k > Len(t)
    <3> DEFINE w == Write(m, pos, t)
               v == Move(w, pos + k, Size(m), pos + Len(t))
    <3>1. n \in 0..Size(m) /\ pos + Len(t) =< Size(m)
      BY <1>1, <2>1, <2>2, <2>3 DEF n
    <3>2. Sealed(w, Size(m))
      BY <1>1, <3>1, WriteSealed
    <3>3. pos + Len(t) + (Size(m) - (pos + k)) =< Size(m)
      BY <1>1, <2>1, <2>2, <2>3
    <3>4. Sealed(v, Size(m))
      BY <1>1, <2>2, <3>2, <3>3, MoveSealed
    <3>5. IsString(v) /\ Size(v) = Size(m)
      BY <1>1, <3>4, SealedSize DEF IsString
    <3>6. Sealed(SetSize(v, n), n)
      BY <3>1, <3>5, ShorterAllowed, SetSizeSealed
    <3> QED BY <1>1, <1>3, <2>2, <2>3, <3>6 DEF replace, Fits, IsString, k, n
  <2>4. CASE k < Len(t)
    <3> DEFINE v == Move(m, pos + k, Size(m), pos + Len(t))
               w == Write(v, pos, t)
    <3>1. v \in Memory /\ v.size = m.size
      BY <1>1, <2>2, MoveKeeps
    <3>2. w \in Memory /\ w.size = m.size
      BY <2>2, <3>1, WriteKeeps
    <3>3. storage = "small" => n < N /\ w.size = 0
      BY <1>1, <2>2, <3>2 DEF Allowed, Room, Keeps, NotFilled, Sealed, n, k
    <3>4. Sealed(SetSize(w, n), n)
      BY <2>2, <3>2, <3>3, SetSizeSeals
    <3> QED BY <1>1, <1>3, <2>1, <2>2, <2>4, <3>4 DEF replace, Fits, IsString, k, n
  <2>5. CASE k = Len(t)
    <3>1. pos + Len(t) =< Size(m)
      BY <2>2, <2>5
    <3>2. Sealed(Write(m, pos, t), Size(m))
      BY <1>1, <3>1, WriteSealed
    <3> QED BY <1>1, <1>3, <2>2, <2>5, <3>2 DEF replace, Fits, IsString, k, n
  <2> QED BY <1>1, <2>1, <2>2, <2>3, <2>4, <2>5
<1> QED BY <1>2, <1>3

LEMMA ConstructString ==
    ASSUME Keeps, storage \in Storages, NEW junk \in Junk
    PROVE  IsString(construct(junk))
<1> DEFINE buf == [j \in 0..N |-> IF storage = "small" /\ j \in 1..(N - 1) THEN junk[j] ELSE NUL]
           m == [buf |-> buf, size |-> 0]
<1>1. N \in Nat /\ 0 \in 0..N /\ 0 < N
  BY DEF Keeps, NotFilled
<1>2. buf \in [0..N -> Cells]
  BY DEF Keeps, NotFilled, Junk
<1>3. m \in Memory /\ m.size = 0
  BY <1>1, <1>2 DEF Memory
<1>4. Sealed(SetSize(m, 0), 0)
  BY <1>1, <1>3, SetSizeSeals
<1> QED BY <1>1, <1>4 DEF construct, IsString

\* The text that a string shows is a text.
LEMMA ViewText ==
    ASSUME Keeps, storage \in Storages, NEW m, IsString(m)
    PROVE  View(m) \in Seq(Cells) /\ Len(View(m)) = Size(m)
<1>1. Size(m) \in Nat /\ Size(m) \in 0..N /\ N \in Nat /\ m \in Memory
  BY SizeIsSeal
<1>2. \A i \in 1..Size(m) : m.buf[i - 1] \in Cells
  BY <1>1 DEF Memory
<1> QED BY <1>1, <1>2 DEF View

LEMMA ConcatString ==
    ASSUME Keeps, storage \in Storages, NEW junk \in Junk, NEW s \in Seq(Cells), NEW t \in Seq(Cells),
           Fits(Len(s) + Len(t)), Allowed(Len(s) + Len(t))
    PROVE  IsString(concat(junk, s, t))
<1> DEFINE a == assign(construct(junk), s)
<1>1. Len(s) \in Nat /\ Len(t) \in Nat /\ N \in Nat
  BY DEF Keeps, NotFilled
<1>2. Len(s) \in 0..N /\ Allowed(Len(s))
  BY <1>1 DEF Fits, Allowed, Room
<1>3. Sealed(SetSize(construct(junk), Len(s)), Len(s))
  BY <1>2, ConstructString, SetSizeSealed
<1>4. Sealed(a, Len(s))
  BY <1>1, <1>2, <1>3, WriteSealed DEF assign, Fits
<1>5. IsString(a) /\ Size(a) = Len(s)
  BY <1>2, <1>4, SealedSize DEF IsString
<1> QED BY <1>5, AppendString DEF concat

----------------------------------------------------------------------------
(* The texts of the actions. *)

LEMMA TextsAreTexts ==
    ASSUME Keeps, NEW t \in Texts
    PROVE  t \in Seq(Cells) /\ Len(t) \in Nat
BY DEF Texts, Keeps

LEMMA SliceText ==
    ASSUME Keeps, NEW t \in Seq(Cells), NEW pos \in Nat, NEW count \in Nat, pos =< Len(t)
    PROVE  Slice(t, pos, count) \in Seq(Cells)
<1>1. /\ pos + 1 \in 1..(Len(t) + 1)
      /\ pos + Min(count, Len(t) - pos) \in Nat /\ pos + Min(count, Len(t) - pos) =< Len(t)
  BY DEF Min
<1> QED BY <1>1 DEF Slice

\* A set of numbers has a least member.
LEMMA LeastExists ==
    ASSUME NEW S, S \subseteq Nat, S # {}
    PROVE  \E i \in S : \A j \in S : i =< j
<1>1. PICK i \in S : \A j \in S : <<j, i>> \notin OpToRel(<, Nat)
  BY NatLessThanWellFounded, WFMin
<1>2. \A j \in S : ~(j < i)
  BY <1>1 DEF OpToRel
<1> QED BY <1>2

LEMMA CStrText ==
    ASSUME NEW t \in Seq(Cells)
    PROVE  CStr(t) \in Seq(Cells)
<1> DEFINE IsFirst(i) == t[i] = NUL /\ \A j \in 1..(i - 1) : t[j] # NUL
           c == CHOOSE i \in 1..Len(t) : IsFirst(i)
<1>1. CASE ~\E i \in 1..Len(t) : t[i] = NUL
  BY <1>1 DEF CStr
<1>2. CASE \E i \in 1..Len(t) : t[i] = NUL
  <2>1. CASE \E i \in 1..Len(t) : IsFirst(i)
    <3>1. c \in 1..Len(t)
      BY <2>1
    <3>2. c - 1 \in Nat /\ c - 1 =< Len(t)
      BY <3>1
    <3>3. \A n \in Nat : n =< Len(t) => SubSeq(t, 1, n) \in Seq(Cells)
      OBVIOUS
    <3>4. SubSeq(t, 1, c - 1) \in Seq(Cells)
      BY <3>2, <3>3
    <3> QED BY <1>2, <3>4 DEF CStr
  <2>2. \E i \in 1..Len(t) : IsFirst(i)
    <3> DEFINE S == {i \in 1..Len(t) : t[i] = NUL}
    <3>1. S \subseteq Nat /\ S # {}
      BY <1>2
    <3>2. PICK i \in S : \A j \in S : i =< j
      BY <3>1, LeastExists
    <3> QED BY <3>2
  <2> QED BY <2>1, <2>2
<1> QED BY <1>1, <1>2

----------------------------------------------------------------------------
(* The theorem. *)

\* The invariant does not depend on the step, only on the memory it leaves.
LEMMA InvKept ==
    ASSUME Keeps, Inv, NEW n, NEW m, Becomes(n, m), Allowed(n) => IsString(m)
    PROVE  Inv'
<1>1. storage' = storage /\ mem' = m /\ IsString(m)
  BY DEF Becomes, Allowed
<1>2. PICK k \in 0..N : Sealed(m, k)
  BY <1>1 DEF IsString
<1>3. Sealed(mem, k)'
  BY <1>1, <1>2 DEF Sealed, Memory, Cells
<1> QED BY <1>1, <1>3 DEF Inv, IsString

LEMMA InitString == ASSUME NotFilled, Init PROVE Inv
<1>1. Keeps
  BY KeepsHolds
<1> QED BY <1>1, ConstructString DEF Init, Inv

LEMMA NextString ==
    ASSUME NotFilled, Inv, [Next]_vars
    PROVE  Inv'
<1> USE DEF Inv
<1>0. Keeps /\ N \in Nat /\ Places \subseteq Nat
  BY KeepsHolds DEF Keeps, Places
<1>a. Size(mem) \in Nat /\ Size(mem) \in 0..N
  BY <1>0, SizeIsSeal
<1>b. \A i \in 0..Size(mem) : i \in Nat
  BY <1>a
<1>1. CASE Assign
  BY <1>0, <1>1, TextsAreTexts, AssignString, InvKept DEF Assign
<1>2. CASE AssignPart
  <2>1. PICK t \in Texts, pos \in Places, count \in Places :
            Becomes(Len(Slice(t, pos, count)), assign_part(mem, t, pos, count))
    BY <1>2 DEF AssignPart
  <2>2. CASE pos =< Len(t)
    <3>1. Slice(t, pos, count) \in Seq(Cells)
      BY <1>0, <2>2, TextsAreTexts, SliceText
    <3> QED BY <1>0, <2>1, <2>2, <3>1, AssignString, InvKept DEF assign_part
  <2>3. CASE ~(pos =< Len(t))
    BY <1>0, <2>1, <2>3, InvKept DEF assign_part
  <2> QED BY <2>2, <2>3
<1>3. CASE AssignCString
  BY <1>0, <1>3, TextsAreTexts, CStrText, AssignString, InvKept DEF AssignCString
<1>4. CASE PushBack
  <2>1. PICK ch \in Cells : Becomes(Size(mem) + 1, push_back(mem, ch))
    BY <1>0, <1>4 DEF PushBack, Keeps
  <2> QED BY <1>0, <2>1, PushBackString, InvKept
<1>5. CASE PopBack
  BY <1>0, <1>5, PopBackString, InvKept DEF PopBack
<1>6. CASE Clear
  BY <1>0, <1>6, ClearString, InvKept DEF Clear
<1>7. CASE Resize
  <2>1. PICK count \in Nat, ch \in Cells : Becomes(count, resize(mem, count, ch))
    BY <1>0, <1>7 DEF Resize, Keeps
  <2> QED BY <1>0, <2>1, ResizeString, InvKept
<1>8. CASE SetElement
  <2>1. PICK i \in 0..(Size(mem) - 1), ch \in Cells : Becomes(Size(mem), Write(mem, i, <<ch>>))
    BY <1>0, <1>8 DEF SetElement, Keeps
  <2>2. i \in Nat /\ <<ch>> \in Seq(Cells) /\ i + Len(<<ch>>) =< Size(mem)
    BY <1>a
  <2>3. Sealed(Write(mem, i, <<ch>>), Size(mem))
    BY <1>0, <2>2, SizeIsSeal, WriteSealed
  <2> QED BY <1>0, <1>a, <2>1, <2>3, InvKept DEF IsString
<1>9. CASE Insert
  <2>1. PICK index \in Nat, t \in Seq(Cells) : Becomes(Size(mem) + Len(t), insert(mem, index, t))
    BY <1>0, <1>9, TextsAreTexts DEF Insert
  <2> QED BY <1>0, <2>1, InsertString, InvKept
<1>10. CASE InsertAt
  <2>1. PICK index \in Nat, t \in Seq(Cells) : Becomes(Size(mem) + Len(t), insert_at(mem, index, t))
    BY <1>0, <1>b, <1>10, TextsAreTexts DEF InsertAt
  <2> QED BY <1>0, <2>1, InsertString, InvKept DEF insert_at
<1>11. CASE Erase
  BY <1>0, <1>11, EraseString, InvKept DEF Erase
<1>12. CASE EraseAt
  <2>1. PICK first \in Nat, last \in Nat : first =< last /\ Becomes(0, erase_at(mem, first, last))
    BY <1>b, <1>12 DEF EraseAt
  <2>2. last - first \in Nat
    BY <2>1
  <2> QED BY <1>0, <2>1, <2>2, EraseString, InvKept DEF erase_at
<1>13. CASE AppendText
  BY <1>0, <1>13, TextsAreTexts, AppendString, InvKept DEF AppendText
<1>14. CASE Concatenate
  <2>1. PICK junk \in Junk, t \in Texts :
            /\ Fits(Len(t) + Size(mem))
            /\ Becomes(Len(t) + Size(mem), concat(junk, t, View(mem)))
    BY <1>14 DEF Concatenate
  <2>2. View(mem) \in Seq(Cells) /\ Len(View(mem)) = Size(mem) /\ t \in Seq(Cells)
    BY <1>0, ViewText, TextsAreTexts
  <2> QED BY <1>0, <2>1, <2>2, ConcatString, InvKept
<1>15. CASE Replace
  <2>1. PICK pos \in Nat, count \in Nat, t \in Seq(Cells) :
            Becomes(Size(mem) - Erased(mem, pos, count) + Len(t), replace(mem, pos, count, t))
    BY <1>0, <1>15, TextsAreTexts DEF Replace
  <2> QED BY <1>0, <2>1, ReplaceString, InvKept
<1>16. CASE ReplaceAt
  <2>1. PICK first \in 0..Size(mem), last \in 0..Size(mem), t \in Seq(Cells) :
            /\ first =< last
            /\ Becomes(Size(mem) - (last - first) + Len(t), replace_at(mem, first, last, t))
    BY <1>0, <1>16, TextsAreTexts DEF ReplaceAt
  <2>2. first \in Nat /\ last - first \in Nat /\ Erased(mem, first, last - first) = last - first
    BY <1>a, <2>1 DEF Erased, Min
  <2> QED BY <1>0, <2>1, <2>2, ReplaceString, InvKept DEF replace_at
<1>17. CASE AssignBeyond
  BY <1>0, <1>17, TextsAreTexts, AssignString, InvKept DEF AssignBeyond
<1>18. CASE UNCHANGED vars
  BY <1>18 DEF vars, IsString, Sealed, Memory, Cells
<1> QED BY <1>1, <1>2, <1>3, <1>4, <1>5, <1>6, <1>7, <1>8, <1>9, <1>10, <1>11, <1>12,
           <1>13, <1>14, <1>15, <1>16, <1>17, <1>18 DEF Next

LEMMA InvImplies == ASSUME NotFilled, Inv PROVE TypeOK /\ Terminated
<1>1. Keeps
  BY KeepsHolds
<1>2. Size(mem) \in 0..N /\ Sealed(mem, Size(mem)) /\ N \in Nat
  BY <1>1, SizeIsSeal DEF Inv
<1>3. storage # "sized" => mem.size = 0
  BY <1>1, <1>2 DEF Inv, Sealed, Keeps, NotFilled
<1> QED BY <1>2, <1>3 DEF Inv, Sealed, Memory, Cells, TypeOK, Terminated

\* Whatever calls come in whatever order, the memory keeps its type, the size
\* stays within the capacity and the text ends with a NUL: c_str() and the
\* conversions of ids to std::string never run past the end.
THEOREM StaysTerminated == ASSUME NotFilled PROVE Spec => [](TypeOK /\ Terminated)
<1>1. Init => Inv
  BY InitString
<1>2. Inv /\ [Next]_vars => Inv'
  BY NextString
<1>3. Inv => TypeOK /\ Terminated
  BY InvImplies
<1> QED BY <1>1, <1>2, <1>3, PTL DEF Spec

\* In particular the memory keeps its type, and with it the size its bound.
THEOREM TypeCorrect == ASSUME NotFilled PROVE Spec => []TypeOK
BY StaysTerminated, PTL
===========================================================================
