----------------------- MODULE FixedStringText_proofs -----------------------
(***************************************************************************)
(* Proofs that the calls of FixedString leave the texts that std::string   *)
(* would hold, for every capacity and alphabet, whatever earlier calls left*)
(* in the buffer after the end of the text.                                *)
(***************************************************************************)
EXTENDS FixedString_proofs

\* m is the memory of a string whose text is t.
Shows(m, t) == /\ t \in Seq(Cells)
               /\ Sealed(m, Len(t))
               /\ \A j \in 0..(Len(t) - 1) : m.buf[j] = t[j + 1]

----------------------------------------------------------------------------
(* What is in the buffer, character by character. *)

LEMMA ShownFacts ==
    ASSUME Keeps, storage \in Storages, NEW m, NEW t, Shows(m, t)
    PROVE  /\ View(m) = t /\ Size(m) = Len(t) /\ IsString(m)
           /\ m \in Memory /\ t \in Seq(Cells)
           /\ Len(t) \in Nat /\ Len(t) \in 0..N /\ N \in Nat
           /\ storage = "small" => Len(t) < N /\ m.size = 0
<1>1. Sealed(m, Len(t)) /\ t \in Seq(Cells) /\ Len(t) \in Nat /\ N \in Nat
  BY DEF Shows, Keeps
<1>2. Size(m) = Len(t) /\ Len(t) \in 0..N
  BY <1>1, SealedSize
<1>3. View(m) = [i \in 1..Len(t) |-> m.buf[i - 1]]
  BY <1>2 DEF View
<1>4. \A i \in 1..Len(t) : i - 1 \in 0..(Len(t) - 1) /\ (i - 1) + 1 = i
  BY <1>1
<1>5. \A i \in 1..Len(t) : m.buf[i - 1] = t[i]
  BY <1>4 DEF Shows
<1>6. t = [i \in 1..Len(t) |-> t[i]]
  BY <1>1
<1>7. View(m) = t
  BY <1>3, <1>5, <1>6
<1> QED BY <1>1, <1>2, <1>7 DEF IsString, Sealed

\* Each string shows its view.
LEMMA ViewShown ==
    ASSUME Keeps, storage \in Storages, NEW m, IsString(m)
    PROVE  Shows(m, View(m))
<1>1. Sealed(m, Size(m)) /\ Size(m) \in Nat
  BY SizeIsSeal
<1>2. View(m) \in Seq(Cells) /\ Len(View(m)) = Size(m)
  BY ViewText
<1>3. \A j \in 0..(Size(m) - 1) : j + 1 \in 1..Size(m) /\ (j + 1) - 1 = j
  BY <1>1
<1>4. \A j \in 0..(Size(m) - 1) : m.buf[j] = View(m)[j + 1]
  BY <1>3 DEF View
<1> QED BY <1>1, <1>2, <1>4 DEF Shows

LEMMA WriteChars ==
    ASSUME NEW m \in Memory, NEW at \in Nat, NEW s \in Seq(Cells), NEW j \in 0..N
    PROVE  /\ at =< j /\ j < at + Len(s) => Write(m, at, s).buf[j] = s[j - at + 1]
           /\ j < at \/ at + Len(s) =< j => Write(m, at, s).buf[j] = m.buf[j]
BY DEF Write, Memory

\* v is r after the characters of [first, last) were moved to dest.
Moved(v, r, first, last, dest) ==
    \A j \in 0..N : /\ dest =< j /\ j < dest + (last - first) => v.buf[j] = r.buf[first + (j - dest)]
                    /\ j < dest => v.buf[j] = r.buf[j]

LEMMA MoveChars ==
    ASSUME NEW m \in Memory, NEW first \in Nat, NEW last \in Nat, NEW dest \in Nat
    PROVE  Moved(Move(m, first, last, dest), m, first, last, dest)
BY DEF Moved, Move, Memory

\* set_size leaves what is before the new end.
LEMMA SetSizeChars ==
    ASSUME Keeps, storage \in Storages, NEW m \in Memory, NEW n \in 0..N, NEW j \in 0..(n - 1)
    PROVE  SetSize(m, n).buf[j] = m.buf[j]
<1>1. N \in Nat /\ j \in 0..N /\ j # N /\ j # n
  BY DEF Keeps
<1>2. CASE storage = "sized"
  BY <1>1, <1>2 DEF SetSize, Memory
<1>3. CASE storage = "small"
  <2> DEFINE b == [m.buf EXCEPT ![N] = (N + 1 - n) % Radix, ![n] = NUL]
  <2>1. SetSize(m, n) = [m EXCEPT !.buf = b]
    BY <1>3 DEF SetSize
  <2>2. SetSize(m, n).buf = b
    BY <2>1 DEF Memory
  <2> QED BY <1>1, <2>2 DEF Memory
<1> QED BY <1>2, <1>3 DEF Keeps, NotFilled

\* Growing a string to the size n keeps its text in place.
LEMMA GrowShows ==
    ASSUME Keeps, storage \in Storages, NEW m, NEW s, Shows(m, s),
           NEW n \in 0..N, Allowed(n), Len(s) =< n
    PROVE  /\ Sealed(SetSize(m, n), n) /\ SetSize(m, n) \in Memory
           /\ \A j \in 0..(Len(s) - 1) : SetSize(m, n).buf[j] = s[j + 1]
<1>1. IsString(m) /\ m \in Memory /\ Len(s) \in Nat /\ N \in Nat
  BY ShownFacts
<1>2. Sealed(SetSize(m, n), n)
  BY <1>1, SetSizeSealed
<1>3. \A j \in 0..(Len(s) - 1) : j \in 0..(n - 1)
  BY <1>1
<1>4. \A j \in 0..(Len(s) - 1) : SetSize(m, n).buf[j] = m.buf[j]
  BY <1>1, <1>3, SetSizeChars
<1> QED BY <1>2, <1>4 DEF Sealed, Shows

\* Writing t at the end of the text s that is in a string of the right size.
LEMMA WriteShows ==
    ASSUME Keeps, storage \in Storages, NEW s \in Seq(Cells), NEW t \in Seq(Cells),
           NEW r, Sealed(r, Len(s) + Len(t)), \A j \in 0..(Len(s) - 1) : r.buf[j] = s[j + 1]
    PROVE  Shows(Write(r, Len(s), t), s \o t)
<1> DEFINE n == Len(s) + Len(t)
           w == Write(r, Len(s), t)
<1>1. Len(s) \in Nat /\ Len(t) \in Nat /\ n \in 0..N /\ N \in Nat /\ r \in Memory
  BY DEF Sealed, Keeps
<1>2. s \o t \in Seq(Cells) /\ Len(s \o t) = n
  BY <1>1
<1>3. Sealed(w, n)
  BY <1>1, WriteSealed
<1>4. ASSUME NEW j \in 0..(n - 1) PROVE w.buf[j] = (s \o t)[j + 1]
  <2>1. j \in 0..N /\ j \in Nat
    BY <1>1
  <2>2. CASE j < Len(s)
    <3>1. w.buf[j] = r.buf[j]
      BY <1>1, <2>1, <2>2, WriteChars
    <3>2. (s \o t)[j + 1] = s[j + 1]
      BY <1>1, <2>1, <2>2
    <3> QED BY <2>1, <2>2, <3>1, <3>2
  <2>3. CASE Len(s) =< j
    <3>1. w.buf[j] = t[j - Len(s) + 1]
      BY <1>1, <2>1, <2>3, WriteChars
    <3>2. (s \o t)[j + 1] = t[j + 1 - Len(s)]
      BY <1>1, <2>1, <2>3
    <3>3. j - Len(s) + 1 = j + 1 - Len(s)
      BY <1>1, <2>1
    <3> QED BY <3>1, <3>2, <3>3
  <2> QED BY <1>1, <2>1, <2>2, <2>3
<1> QED BY <1>2, <1>3, <1>4 DEF Shows

----------------------------------------------------------------------------
(* The calls that add at the end. *)

LEMMA AssignShows ==
    ASSUME Keeps, storage \in Storages, NEW m, IsString(m),
           NEW t \in Seq(Cells), Len(t) =< N, Allowed(Len(t))
    PROVE  Shows(assign(m, t), t)
<1> DEFINE r == SetSize(m, Len(t))
<1>1. Len(t) \in Nat /\ Len(t) \in 0..N /\ N \in Nat
  BY DEF Keeps
<1>2. Sealed(r, Len(t)) /\ r \in Memory
  BY <1>1, SetSizeSealed DEF Sealed
<1>3. assign(m, t) = Write(r, 0, t)
  BY DEF assign, Fits
<1>4. Sealed(Write(r, 0, t), Len(t))
  BY <1>1, <1>2, WriteSealed
<1>5. ASSUME NEW j \in 0..(Len(t) - 1) PROVE Write(r, 0, t).buf[j] = t[j + 1]
  <2>1. j \in 0..N /\ 0 =< j /\ j < 0 + Len(t) /\ j - 0 + 1 = j + 1
    BY <1>1
  <2>2. Write(r, 0, t).buf[j] = t[j - 0 + 1]
    BY <1>2, <2>1, WriteChars
  <2> QED BY <2>1, <2>2
<1> QED BY <1>3, <1>4, <1>5 DEF Shows

LEMMA AppendShows ==
    ASSUME Keeps, storage \in Storages, NEW m, NEW s, Shows(m, s),
           NEW t \in Seq(Cells), Len(s) + Len(t) =< N, Allowed(Len(s) + Len(t))
    PROVE  Shows(append(m, t), s \o t)
<1> DEFINE n == Len(s) + Len(t)
<1>1. Size(m) = Len(s) /\ s \in Seq(Cells) /\ Len(s) \in Nat /\ Len(t) \in Nat /\ n \in 0..N /\ Len(s) =< n
  BY ShownFacts
<1>2. append(m, t) = Write(SetSize(m, n), Len(s), t)
  BY <1>1 DEF append, Fits
<1>3. Sealed(SetSize(m, n), n) /\ \A j \in 0..(Len(s) - 1) : SetSize(m, n).buf[j] = s[j + 1]
  BY <1>1, GrowShows
<1> QED BY <1>1, <1>2, <1>3, WriteShows

LEMMA ConcatShows ==
    ASSUME Keeps, storage \in Storages, NEW junk \in Junk, NEW s \in Seq(Cells), NEW t \in Seq(Cells),
           Len(s) + Len(t) =< N, Allowed(Len(s) + Len(t))
    PROVE  Shows(concat(junk, s, t), s \o t)
<1>1. Len(s) \in Nat /\ Len(t) \in Nat /\ N \in Nat
  BY DEF Keeps
<1>2. Len(s) =< N /\ Allowed(Len(s))
  BY <1>1 DEF Allowed, Room
<1>3. Shows(assign(construct(junk), s), s)
  BY <1>2, ConstructString, AssignShows
<1> QED BY <1>3, AppendShows DEF concat

LEMMA ResizeGrows ==
    ASSUME Keeps, storage \in Storages, NEW m, NEW s, Shows(m, s), NEW n \in 0..N, Allowed(n),
           Len(s) =< n, NEW ch \in Cells
    PROVE  Shows(resize(m, n, ch), s \o Fill(n - Len(s), ch))
<1> DEFINE f == Fill(n - Len(s), ch)
           r == SetSize(m, n)
<1>1. Size(m) = Len(s) /\ s \in Seq(Cells) /\ Len(s) \in Nat /\ N \in Nat /\ n \in Nat /\ n =< N
  BY ShownFacts
<1>2. f \in Seq(Cells) /\ Len(f) = n - Len(s) /\ Len(s) + Len(f) = n
  BY <1>1, FillText
<1>3. Sealed(r, n) /\ \A j \in 0..(Len(s) - 1) : r.buf[j] = s[j + 1]
  BY GrowShows
<1>4. Size(r) = n
  BY <1>3, SealedSize
<1>5. CASE Len(s) < n
  <2>1. resize(m, n, ch) = Write(r, Len(s), f)
    BY <1>1, <1>4, <1>5 DEF resize, Fits
  <2> QED BY <1>1, <1>2, <1>3, <2>1, WriteShows
<1>6. CASE Len(s) = n
  <2>1. resize(m, n, ch) = r
    BY <1>1, <1>4, <1>6 DEF resize, Fits
  <2>2. s \o f = s
    BY <1>1, <1>2, <1>6
  <2> QED BY <1>1, <1>3, <1>6, <2>1, <2>2 DEF Shows
<1> QED BY <1>1, <1>5, <1>6

LEMMA PushBackShows ==
    ASSUME Keeps, storage \in Storages, NEW m, NEW s, Shows(m, s), NEW ch \in Cells,
           Len(s) + 1 =< N, Allowed(Len(s) + 1)
    PROVE  Shows(push_back(m, ch), Append(s, ch))
<1> DEFINE c == <<ch>>
           w == Write(m, Len(s), c)
           n == Len(s) + 1
<1>0. /\ Size(m) = Len(s) /\ s \in Seq(Cells) /\ Len(s) \in Nat /\ N \in Nat /\ n \in 0..N /\ m \in Memory
      /\ storage = "small" => m.size = 0
  BY ShownFacts
<1>a. storage = "small" => n < N
  BY <1>0 DEF Allowed, Room, Keeps, NotFilled
<1>1. /\ Size(m) = Len(s) /\ s \in Seq(Cells) /\ Len(s) \in Nat /\ N \in Nat /\ n \in 0..N
      /\ m \in Memory /\ n \in Nat /\ N \in n..N /\ (storage = "small" => n < N /\ m.size = 0)
  BY <1>0, <1>a
<1>2. c \in Seq(Cells) /\ Len(c) = 1 /\ c[1] = ch /\ Len(s) + Len(c) = n /\ Len(s) + Len(c) =< n
  BY <1>1
<1> HIDE DEF c
<1>3. w \in Memory /\ w.size = m.size /\ \A j \in n..N : w.buf[j] = m.buf[j]
  BY <1>1, <1>2, WriteKeeps
<1>4. w.buf[N] = m.buf[N]
  BY <1>1, <1>3
<1>5. Size(w) = Len(s)
  BY <1>1, <1>3, <1>4 DEF Size, Keeps, NotFilled
<1>6. push_back(m, ch) = SetSize(w, n)
  BY <1>1, <1>5 DEF push_back, AdjustSize, Fits, c
<1>7. Sealed(SetSize(w, n), n)
  BY <1>1, <1>3, SetSizeSeals
<1>8. Append(s, ch) \in Seq(Cells) /\ Len(Append(s, ch)) = n
  BY <1>1
<1>9. ASSUME NEW j \in 0..(n - 1) PROVE SetSize(w, n).buf[j] = Append(s, ch)[j + 1]
  <2>1. SetSize(w, n).buf[j] = w.buf[j] /\ j \in 0..N
    BY <1>1, <1>3, SetSizeChars
  <2>2. CASE j = Len(s)
    <3>a. Len(s) =< j /\ j < Len(s) + Len(c) /\ j - Len(s) + 1 = 1
      BY <1>1, <1>2, <2>2
    <3>b. w.buf[j] = c[j - Len(s) + 1]
      BY <1>1, <1>2, <2>1, <3>a, WriteChars
    <3>1. w.buf[j] = c[1] /\ j + 1 = Len(Append(s, ch))
      BY <1>8, <2>2, <3>a, <3>b
    <3> QED BY <1>1, <1>2, <2>1, <2>2, <3>1
  <2>3. CASE j \in 0..(Len(s) - 1)
    <3>a. j < Len(s)
      BY <1>1, <2>3
    <3>1. w.buf[j] = m.buf[j]
      BY <1>1, <1>2, <2>1, <3>a, WriteChars
    <3>2. m.buf[j] = s[j + 1] /\ j + 1 \in 1..Len(s)
      BY <1>1, <2>3 DEF Shows
    <3> QED BY <1>1, <2>1, <3>1, <3>2
  <2> QED BY <1>1, <2>2, <2>3
<1> QED BY <1>6, <1>7, <1>8, <1>9 DEF Shows

----------------------------------------------------------------------------
(* The calls that shorten. *)

\* Cutting a string at n leaves the first n characters.
LEMMA CutShows ==
    ASSUME Keeps, storage \in Storages, NEW m, NEW s, Shows(m, s), NEW n \in 0..Len(s)
    PROVE  Shows(SetSize(m, n), SubSeq(s, 1, n))
<1>1. Size(m) = Len(s) /\ s \in Seq(Cells) /\ Len(s) \in Nat /\ N \in Nat /\ IsString(m) /\ m \in Memory
  BY ShownFacts
<1>2. n \in 0..N /\ Allowed(n) /\ n \in Nat /\ n =< Len(s)
  BY <1>1, ShorterAllowed
<1>3. Sealed(SetSize(m, n), n)
  BY <1>1, <1>2, SetSizeSealed
<1>4. SubSeq(s, 1, n) \in Seq(Cells) /\ Len(SubSeq(s, 1, n)) = n /\ \A i \in 1..n : SubSeq(s, 1, n)[i] = s[i]
  BY <1>1, <1>2
<1>5. ASSUME NEW j \in 0..(n - 1) PROVE SetSize(m, n).buf[j] = SubSeq(s, 1, n)[j + 1]
  <2>1. SetSize(m, n).buf[j] = m.buf[j] /\ j \in 0..(Len(s) - 1) /\ j + 1 \in 1..n
    BY <1>1, <1>2, SetSizeChars
  <2>2. m.buf[j] = s[j + 1]
    BY <2>1 DEF Shows
  <2> QED BY <1>4, <2>1, <2>2
<1> QED BY <1>3, <1>4, <1>5 DEF Shows

LEMMA PopBackShows ==
    ASSUME Keeps, storage \in Storages, NEW m, NEW s, Shows(m, s), Len(s) > 0
    PROVE  Shows(pop_back(m), SubSeq(s, 1, Len(s) - 1))
<1>1. Size(m) = Len(s) /\ Len(s) \in Nat
  BY ShownFacts
<1>2. Len(s) - 1 \in 0..Len(s) /\ Size(m) + (-1) = Len(s) - 1
  BY <1>1
<1>3. pop_back(m) = SetSize(m, Len(s) - 1)
  BY <1>2 DEF pop_back, AdjustSize
<1> QED BY <1>2, <1>3, CutShows

LEMMA ResizeCuts ==
    ASSUME Keeps, storage \in Storages, NEW m, NEW s, Shows(m, s), NEW n \in 0..Len(s), NEW ch
    PROVE  Shows(resize(m, n, ch), SubSeq(s, 1, n))
<1>1. Size(m) = Len(s) /\ Len(s) \in Nat /\ IsString(m) /\ N \in Nat
  BY ShownFacts
<1>2. n \in 0..N /\ n \in Nat /\ n =< N /\ ~(Len(s) < n)
  BY <1>1, ShorterAllowed
<1>3. Shows(SetSize(m, n), SubSeq(s, 1, n))
  BY CutShows
<1>4. Size(SetSize(m, n)) = n
  BY <1>1, <1>2, SetSizeSealed, SealedSize, ShorterAllowed
<1>5. resize(m, n, ch) = SetSize(m, n)
  BY <1>1, <1>2, <1>4 DEF resize, Fits
<1> QED BY <1>3, <1>5

----------------------------------------------------------------------------
(* The calls that edit in the middle. *)

LEMMA ConcatChars ==
    ASSUME NEW a \in Seq(Cells), NEW b \in Seq(Cells)
    PROVE  /\ a \o b \in Seq(Cells) /\ Len(a \o b) = Len(a) + Len(b)
           /\ \A i \in 1..Len(a) : (a \o b)[i] = a[i]
           /\ \A i \in 1..Len(b) : (a \o b)[Len(a) + i] = b[i]
OBVIOUS

\* What a splice is, character by character; k is how many it removes.
LEMMA SpliceChars ==
    ASSUME NEW s \in Seq(Cells), NEW t \in Seq(Cells), NEW pos \in 0..Len(s), NEW count \in Nat,
           NEW k \in Nat, k = Min(count, Len(s) - pos)
    PROVE  LET p == Std!Splice(s, pos, count, t)
           IN  /\ p \in Seq(Cells) /\ Len(p) = Len(s) - k + Len(t)
               /\ \A i \in 1..pos : p[i] = s[i]
               /\ \A i \in 1..Len(t) : p[pos + i] = t[i]
               /\ \A i \in 1..(Len(s) - pos - k) : p[pos + Len(t) + i] = s[pos + k + i]
<1> DEFINE a == SubSeq(s, 1, pos)
           b == SubSeq(s, pos + count + 1, Len(s))
           u == a \o t
           e == Len(s) - pos - k
           p == Std!Splice(s, pos, count, t)
<1>1. Len(s) \in Nat /\ Len(t) \in Nat /\ pos \in Nat /\ pos =< Len(s) /\ e \in Nat
  BY DEF Min
<1>2. a \in Seq(Cells) /\ Len(a) = pos /\ \A i \in 1..pos : a[i] = s[i]
  BY <1>1
<1>3. b \in Seq(Cells) /\ Len(b) = e /\ \A i \in 1..e : b[i] = s[pos + k + i]
  <2>1. CASE count =< Len(s) - pos
    <3>1. k = count /\ pos + count + 1 \in 1..(Len(s) + 1)
      BY <1>1, <2>1 DEF Min
    <3> QED BY <1>1, <3>1
  <2>2. CASE ~(count =< Len(s) - pos)
    <3>1. e = 0 /\ pos + count + 1 > Len(s)
      BY <1>1, <2>2 DEF Min
    <3>2. b = << >>
      BY <1>1, <3>1
    <3> QED BY <3>1, <3>2
  <2> QED BY <2>1, <2>2
<1>4. p = u \o b
  BY DEF Std!Splice
<1> HIDE DEF a, b, e, p
<1>5. /\ u \in Seq(Cells) /\ Len(u) = pos + Len(t)
      /\ \A i \in 1..pos : u[i] = a[i]
      /\ \A i \in 1..Len(t) : u[pos + i] = t[i]
  BY <1>1, <1>2, ConcatChars
<1> HIDE DEF u
<1>a. /\ p \in Seq(Cells) /\ Len(p) = Len(u) + Len(b)
      /\ \A i \in 1..Len(u) : p[i] = u[i]
      /\ \A i \in 1..Len(b) : p[Len(u) + i] = b[i]
  <2>1. u \in Seq(Cells) /\ b \in Seq(Cells)
    BY <1>3, <1>5
  <2> QED BY <1>4, <2>1, ConcatChars
<1>6. /\ p \in Seq(Cells) /\ Len(p) = pos + Len(t) + e
      /\ \A i \in 1..(pos + Len(t)) : p[i] = u[i]
      /\ \A i \in 1..e : p[pos + Len(t) + i] = b[i]
  BY <1>3, <1>5, <1>a
<1>8. ASSUME NEW i \in 1..e PROVE p[pos + Len(t) + i] = s[pos + k + i]
  BY <1>3, <1>6
<1>9. ASSUME NEW i \in 1..pos PROVE p[i] = s[i]
  <2>1. i \in 1..(pos + Len(t)) /\ u[i] = a[i]
    BY <1>1, <1>5
  <2> QED BY <1>2, <1>6, <2>1
<1>10. ASSUME NEW i \in 1..Len(t) PROVE p[pos + i] = t[i]
  <2>1. pos + i \in 1..(pos + Len(t)) /\ u[pos + i] = t[i]
    BY <1>1, <1>5
  <2> QED BY <1>6, <2>1
<1> QED BY <1>1, <1>6, <1>8, <1>9, <1>10 DEF p, e

\* A place after the text that a splice put in.
LEMMA TailPlace ==
    ASSUME NEW len \in Nat, NEW pos \in Nat, NEW k \in Nat, NEW l \in Nat,
           NEW j \in 0..(len - k + l - 1), pos + l =< j
    PROVE  /\ j - pos - l + 1 \in 1..(len - pos - k)
           /\ pos + l + (j - pos - l + 1) = j + 1
           /\ pos + k + (j - pos - l + 1) = j - l + k + 1
           /\ j \in (pos + l)..(len - k + l - 1)
OBVIOUS

LEMMA SpliceText ==
    ASSUME NEW s \in Seq(Cells), NEW t \in Seq(Cells), NEW pos \in 0..Len(s), NEW count \in Nat
    PROVE  /\ Std!Splice(s, pos, count, t) \in Seq(Cells)
           /\ Len(Std!Splice(s, pos, count, t)) = Len(s) - Min(count, Len(s) - pos) + Len(t)
<1> DEFINE k == Min(count, Len(s) - pos)
<1>1. k \in Nat /\ k = Min(count, Len(s) - pos)
  BY DEF Min
<1> HIDE DEF k
<1>2. Std!Splice(s, pos, count, t) \in Seq(Cells) /\ Len(Std!Splice(s, pos, count, t)) = Len(s) - k + Len(t)
  BY <1>1, SpliceChars
<1> QED BY <1>1, <1>2

\* The three parts of a splice are in place: t at pos, before it what was
\* before in s, after it what came after the k characters from pos on.
InPlace(r, s, pos, k, t) ==
    /\ \A j \in 0..(pos - 1) : r.buf[j] = s[j + 1]
    /\ \A j \in pos..(pos + Len(t) - 1) : r.buf[j] = t[j - pos + 1]
    /\ \A j \in (pos + Len(t))..(Len(s) - k + Len(t) - 1) : r.buf[j] = s[j - Len(t) + k + 1]

\* A memory with the three parts in place shows the splice.
LEMMA SpliceShows ==
    ASSUME Keeps, NEW s \in Seq(Cells), NEW t \in Seq(Cells), NEW pos \in 0..Len(s), NEW count \in Nat,
           NEW k \in Nat, k = Min(count, Len(s) - pos),
           NEW r, Sealed(r, Len(s) - k + Len(t)), InPlace(r, s, pos, k, t)
    PROVE  Shows(r, Std!Splice(s, pos, count, t))
<1> DEFINE p == Std!Splice(s, pos, count, t)
           n == Len(s) - k + Len(t)
<1>1. Len(s) \in Nat /\ Len(t) \in Nat /\ pos \in Nat /\ pos =< Len(s) /\ n \in Nat
  BY DEF Min
<1>2. /\ p \in Seq(Cells) /\ Len(p) = n
      /\ \A i \in 1..pos : p[i] = s[i]
      /\ \A i \in 1..Len(t) : p[pos + i] = t[i]
      /\ \A i \in 1..(Len(s) - pos - k) : p[pos + Len(t) + i] = s[pos + k + i]
  BY SpliceChars
<1> HIDE DEF p
<1>3. ASSUME NEW j \in 0..(n - 1) PROVE r.buf[j] = p[j + 1]
  <2>1. CASE j < pos
    <3>1. j \in 0..(pos - 1) /\ j + 1 \in 1..pos
      BY <1>1, <2>1
    <3> QED BY <1>2, <3>1 DEF InPlace
  <2>2. CASE pos =< j /\ j < pos + Len(t)
    <3>1. j \in pos..(pos + Len(t) - 1) /\ j - pos + 1 \in 1..Len(t) /\ pos + (j - pos + 1) = j + 1
      BY <1>1, <2>2
    <3>2. p[pos + (j - pos + 1)] = t[j - pos + 1]
      BY <1>2, <3>1
    <3> QED BY <3>1, <3>2 DEF InPlace
  <2>3. CASE pos + Len(t) =< j
    <3> DEFINE i == j - pos - Len(t) + 1
    <3>1. /\ i \in 1..(Len(s) - pos - k)
          /\ pos + Len(t) + i = j + 1 /\ pos + k + i = j - Len(t) + k + 1
          /\ j \in (pos + Len(t))..(Len(s) - k + Len(t) - 1)
      <4>1. Len(s) \in Nat /\ pos \in Nat /\ Len(t) \in Nat /\ j \in 0..(Len(s) - k + Len(t) - 1)
        BY <1>1
      <4> QED BY <2>3, <4>1, TailPlace
    <3> HIDE DEF i
    <3>2. p[pos + Len(t) + i] = s[pos + k + i]
      BY <1>2, <3>1
    <3> QED BY <3>1, <3>2 DEF InPlace
  <2> QED BY <1>1, <2>1, <2>2, <2>3
<1> QED BY <1>2, <1>3 DEF Shows, p

\* The tail is moved, then the text is written: right when it is not shorter.
LEMMA MoveThenWrite ==
    ASSUME N \in Nat, NEW s \in Seq(Cells), NEW t \in Seq(Cells), NEW pos \in Nat, NEW k \in Nat,
           pos + k =< Len(s), Len(s) =< N, Len(s) - k + Len(t) =< N,
           NEW r \in Memory, \A j \in 0..(Len(s) - 1) : r.buf[j] = s[j + 1],
           NEW l, l = Len(s), NEW d, d = pos + Len(t), NEW f, f = pos + k,
           NEW v \in Memory, Moved(v, r, f, l, d)
    PROVE  InPlace(Write(v, pos, t), s, pos, k, t)
<1> DEFINE w == Write(v, pos, t)
<1>1. /\ Len(s) \in Nat /\ Len(t) \in Nat /\ d \in Nat /\ f \in Nat /\ l \in Nat
      /\ d + (l - f) = Len(s) - k + Len(t)
  OBVIOUS
<1>a. ASSUME NEW j \in 0..N
      PROVE  /\ d =< j /\ j < d + (l - f) => v.buf[j] = r.buf[f + (j - d)]
             /\ j < d => v.buf[j] = r.buf[j]
  BY DEF Moved
<1>2. ASSUME NEW j \in 0..(pos - 1) PROVE w.buf[j] = s[j + 1]
  <2>1. j \in 0..N /\ j < pos /\ j < d /\ j \in 0..(Len(s) - 1)
    BY <1>1
  <2>2. w.buf[j] = v.buf[j]
    BY <2>1, WriteChars
  <2>3. v.buf[j] = r.buf[j]
    BY <1>a, <2>1
  <2> QED BY <2>1, <2>2, <2>3
<1>3. ASSUME NEW j \in pos..(pos + Len(t) - 1) PROVE w.buf[j] = t[j - pos + 1]
  <2>1. j \in 0..N /\ pos =< j /\ j < pos + Len(t)
    BY <1>1
  <2> QED BY <2>1, WriteChars
<1>4. ASSUME NEW j \in (pos + Len(t))..(Len(s) - k + Len(t) - 1) PROVE w.buf[j] = s[j - Len(t) + k + 1]
  <2>1. j \in 0..N /\ pos + Len(t) =< j /\ d =< j /\ j < d + (l - f)
    BY <1>1
  <2>2. w.buf[j] = v.buf[j]
    BY <2>1, WriteChars
  <2>3. v.buf[j] = r.buf[f + (j - d)]
    BY <1>a, <2>1
  <2>a. f + (j - d) = j - Len(t) + k
    BY <1>1
  <2>4. f + (j - d) \in 0..(Len(s) - 1) /\ f + (j - d) + 1 = j - Len(t) + k + 1
    BY <1>1, <2>a
  <2> QED BY <2>2, <2>3, <2>4
<1> QED BY <1>2, <1>3, <1>4 DEF InPlace

\* The text is written, then the tail is moved: right when it is not longer.
LEMMA WriteThenMove ==
    ASSUME N \in Nat, NEW s \in Seq(Cells), NEW t \in Seq(Cells), NEW pos \in Nat, NEW k \in Nat,
           pos + k =< Len(s), Len(s) =< N, Len(t) =< k,
           NEW r \in Memory, \A j \in 0..(Len(s) - 1) : r.buf[j] = s[j + 1],
           NEW w, w = Write(r, pos, t), w \in Memory,
           NEW l, l = Len(s), NEW d, d = pos + Len(t), NEW f, f = pos + k,
           NEW v, Moved(v, w, f, l, d)
    PROVE  InPlace(v, s, pos, k, t)
<1>1. /\ Len(s) \in Nat /\ Len(t) \in Nat /\ d \in Nat /\ f \in Nat /\ l \in Nat
      /\ d + (l - f) = Len(s) - k + Len(t)
  OBVIOUS
<1>a. ASSUME NEW j \in 0..N
      PROVE  /\ d =< j /\ j < d + (l - f) => v.buf[j] = w.buf[f + (j - d)]
             /\ j < d => v.buf[j] = w.buf[j]
  BY DEF Moved
<1>2. ASSUME NEW j \in 0..(pos - 1) PROVE v.buf[j] = s[j + 1]
  <2>1. j \in 0..N /\ j < pos /\ j < d /\ j \in 0..(Len(s) - 1)
    BY <1>1
  <2>2. w.buf[j] = r.buf[j]
    BY <2>1, WriteChars
  <2>3. v.buf[j] = w.buf[j]
    BY <1>a, <2>1
  <2> QED BY <2>1, <2>2, <2>3
<1>3. ASSUME NEW j \in pos..(pos + Len(t) - 1) PROVE v.buf[j] = t[j - pos + 1]
  <2>1. j \in 0..N /\ pos =< j /\ j < pos + Len(t) /\ j < d
    BY <1>1
  <2>2. w.buf[j] = t[j - pos + 1]
    BY <2>1, WriteChars
  <2>3. v.buf[j] = w.buf[j]
    BY <1>a, <2>1
  <2> QED BY <2>2, <2>3
<1>4. ASSUME NEW j \in (pos + Len(t))..(Len(s) - k + Len(t) - 1) PROVE v.buf[j] = s[j - Len(t) + k + 1]
  <2>1. j \in 0..N /\ d =< j /\ j < d + (l - f)
    BY <1>1
  <2>2. v.buf[j] = w.buf[f + (j - d)]
    BY <1>a, <2>1
  <2>3. /\ f + (j - d) \in 0..(Len(s) - 1) /\ f + (j - d) \in 0..N
        /\ pos + Len(t) =< f + (j - d)
        /\ f + (j - d) + 1 = j - Len(t) + k + 1
    BY <1>1
  <2>4. w.buf[f + (j - d)] = r.buf[f + (j - d)]
    BY <2>3, WriteChars
  <2> QED BY <2>2, <2>3, <2>4
<1> QED BY <1>2, <1>3, <1>4 DEF InPlace

\* A text of the length of what it replaces.
LEMMA WriteInPlace ==
    ASSUME N \in Nat, NEW s \in Seq(Cells), NEW t \in Seq(Cells), NEW pos \in Nat,
           pos + Len(t) =< Len(s), Len(s) =< N,
           NEW r \in Memory, \A j \in 0..(Len(s) - 1) : r.buf[j] = s[j + 1]
    PROVE  InPlace(Write(r, pos, t), s, pos, Len(t), t)
<1> DEFINE w == Write(r, pos, t)
<1>1. Len(s) \in Nat /\ Len(t) \in Nat
  OBVIOUS
<1>2. ASSUME NEW j \in 0..(pos - 1) PROVE w.buf[j] = s[j + 1]
  <2>1. j \in 0..N /\ j < pos /\ j \in 0..(Len(s) - 1)
    BY <1>1
  <2> QED BY <2>1, WriteChars
<1>3. ASSUME NEW j \in pos..(pos + Len(t) - 1) PROVE w.buf[j] = t[j - pos + 1]
  <2>1. j \in 0..N /\ pos =< j /\ j < pos + Len(t)
    BY <1>1
  <2> QED BY <2>1, WriteChars
<1>4. ASSUME NEW j \in (pos + Len(t))..(Len(s) - Len(t) + Len(t) - 1)
      PROVE  w.buf[j] = s[j - Len(t) + Len(t) + 1]
  <2>1. /\ j \in 0..N /\ pos + Len(t) =< j /\ j \in 0..(Len(s) - 1)
        /\ j - Len(t) + Len(t) + 1 = j + 1
    BY <1>1
  <2> QED BY <2>1, WriteChars
<1> QED BY <1>2, <1>3, <1>4 DEF InPlace

\* Setting the size at the end of the splice does not disturb it.
LEMMA CutInPlace ==
    ASSUME Keeps, storage \in Storages, NEW s \in Seq(Cells), NEW t \in Seq(Cells),
           NEW pos \in Nat, NEW k \in Nat, pos + k =< Len(s),
           NEW r \in Memory, NEW n \in 0..N, n = Len(s) - k + Len(t), InPlace(r, s, pos, k, t)
    PROVE  InPlace(SetSize(r, n), s, pos, k, t)
<1> DEFINE c == SetSize(r, n)
<1>1. Len(s) \in Nat /\ Len(t) \in Nat /\ n \in Nat /\ pos + Len(t) =< n
  BY DEF Keeps
<1>2. \A j \in 0..(n - 1) : c.buf[j] = r.buf[j]
  BY SetSizeChars
<1>3. /\ \A j \in 0..(pos - 1) : j \in 0..(n - 1)
      /\ \A j \in pos..(pos + Len(t) - 1) : j \in 0..(n - 1)
      /\ \A j \in (pos + Len(t))..(Len(s) - k + Len(t) - 1) : j \in 0..(n - 1)
  BY <1>1
<1> HIDE DEF c
<1> QED BY <1>2, <1>3 DEF InPlace, c

LEMMA InsertShows ==
    ASSUME Keeps, storage \in Storages, NEW m, NEW s, Shows(m, s), NEW pos \in 0..Len(s),
           NEW t \in Seq(Cells), Len(s) + Len(t) =< N, Allowed(Len(s) + Len(t))
    PROVE  Shows(insert(m, pos, t), Std!Splice(s, pos, 0, t))
<1> DEFINE n == Len(s) + Len(t)
           r == SetSize(m, n)
           v == Move(r, pos, Len(s), pos + Len(t))
<1>1. /\ Size(m) = Len(s) /\ s \in Seq(Cells) /\ Len(s) \in Nat /\ Len(t) \in Nat /\ N \in Nat
      /\ n \in 0..N /\ Len(s) =< n /\ Len(s) =< N /\ pos \in Nat /\ pos =< Len(s)
  BY ShownFacts
<1>2. Sealed(r, n) /\ r \in Memory /\ \A j \in 0..(Len(s) - 1) : r.buf[j] = s[j + 1]
  BY <1>1, GrowShows
<1>3. Size(r) = n /\ n - (Len(s) - pos) = pos + Len(t)
  BY <1>1, <1>2, SealedSize
<1>4. insert(m, pos, t) = Write(v, pos, t)
  BY <1>1, <1>3 DEF insert, Fits
<1>5. pos + Len(t) \in Nat /\ pos + Len(t) + (Len(s) - pos) =< n /\ pos + Len(t) =< n
  BY <1>1
<1>6. Sealed(v, n) /\ v \in Memory
  <2> DEFINE d == pos + Len(t)
  <2>1. d \in Nat /\ d + (Len(s) - pos) =< n
    BY <1>5
  <2> HIDE DEF d, n, r
  <2>2. Sealed(Move(r, pos, Len(s), d), n)
    BY <1>1, <1>2, <2>1, MoveSealed
  <2> QED BY <2>2 DEF Sealed, d
<1>7. Sealed(Write(v, pos, t), n)
  BY <1>1, <1>5, <1>6, WriteSealed
<1>8. Moved(v, r, pos, Len(s), pos + Len(t))
  BY <1>1, <1>2, <1>5, MoveChars
<1> HIDE DEF r, v
<1>9. pos + 0 = pos /\ Len(s) - 0 + Len(t) = n /\ 0 = Min(0, Len(s) - pos)
  BY <1>1 DEF Min
<1>10. InPlace(Write(v, pos, t), s, pos, 0, t)
  BY <1>1, <1>2, <1>6, <1>8, <1>9, MoveThenWrite
<1> QED BY <1>1, <1>4, <1>7, <1>9, <1>10, SpliceShows

LEMMA EraseShows ==
    ASSUME Keeps, storage \in Storages, NEW m, NEW s, Shows(m, s), NEW pos \in 0..Len(s), NEW count \in Nat
    PROVE  Shows(erase(m, pos, count), Std!Splice(s, pos, count, << >>))
<1> DEFINE k == Min(count, Len(s) - pos)
           n == Len(s) - k
           v == Move(m, pos + k, Len(s), pos)
           e == << >>
<1>1. /\ Size(m) = Len(s) /\ s \in Seq(Cells) /\ Len(s) \in Nat /\ N \in Nat /\ m \in Memory
      /\ Len(s) =< N /\ pos \in Nat /\ pos =< Len(s) /\ Len(s) \in 0..N
  BY ShownFacts
<1>2. k \in Nat /\ k =< Len(s) - pos
  BY <1>1 DEF Min
<1> HIDE DEF k
<1>3. /\ pos + k \in Nat /\ pos + k =< Len(s) /\ pos + (Len(s) - (pos + k)) =< Len(s)
      /\ Len(s) + (-k) = n /\ n \in 0..Len(s) /\ n \in 0..N
  BY <1>1, <1>2
<1>4. Sealed(m, Len(s)) /\ \A j \in 0..(Len(s) - 1) : m.buf[j] = s[j + 1]
  BY DEF Shows
<1>5. Sealed(v, Len(s)) /\ v \in Memory
  BY <1>1, <1>3, <1>4, MoveSealed DEF Sealed
<1>6. IsString(v) /\ Size(v) = Len(s)
  BY <1>1, <1>5, SealedSize DEF IsString
<1>7. Sealed(SetSize(v, n), n)
  BY <1>3, <1>6, ShorterAllowed, SetSizeSealed
<1>8. erase(m, pos, count) = SetSize(v, n)
  BY <1>1, <1>3, <1>6 DEF erase, Erased, AdjustSize, k
<1>9. Moved(v, m, pos + k, Len(s), pos)
  BY <1>1, <1>3, MoveChars
<1>10. e \in Seq(Cells) /\ Len(e) = 0 /\ Len(e) =< k /\ pos + Len(e) = pos /\ n = Len(s) - k + Len(e)
  BY <1>1, <1>2
<1>11. m = Write(m, pos, e)
  <2>1. [j \in 0..N |-> IF pos =< j /\ j < pos + Len(e) THEN e[j - pos + 1] ELSE m.buf[j]] = m.buf
    BY <1>1, <1>10 DEF Memory
  <2> QED BY <1>1, <2>1 DEF Write, Memory
<1> HIDE DEF v, e
<1>12. InPlace(v, s, pos, k, e)
  BY <1>1, <1>2, <1>3, <1>4, <1>9, <1>10, <1>11, WriteThenMove
<1>13. InPlace(SetSize(v, n), s, pos, k, e)
  BY <1>1, <1>2, <1>3, <1>5, <1>10, <1>12, CutInPlace
<1>14. Shows(SetSize(v, n), Std!Splice(s, pos, count, e))
  BY <1>1, <1>2, <1>7, <1>10, <1>13, SpliceShows DEF k
<1> QED BY <1>8, <1>14 DEF e

LEMMA SplicePlaces ==
    ASSUME NEW len \in Nat, NEW pos \in Nat, NEW k \in Nat, NEW l \in Nat, k =< len - pos, pos =< len
    PROVE  /\ pos + k \in Nat /\ pos + k =< len /\ pos + l \in Nat
           /\ len - k + l \in Nat /\ pos + l =< len - k + l
           /\ (pos + l) + (len - (pos + k)) = len - k + l
           /\ l < k => /\ pos + l =< len /\ l =< k
                       /\ (pos + l) + (len - (pos + k)) =< len
OBVIOUS

LEMMA ReplaceShows ==
    ASSUME Keeps, storage \in Storages, NEW m, NEW s, Shows(m, s), NEW pos \in 0..Len(s), NEW count \in Nat,
           NEW t \in Seq(Cells), NEW k, k = Min(count, Len(s) - pos),
           Len(s) - k + Len(t) =< N, Allowed(Len(s) - k + Len(t))
    PROVE  Shows(replace(m, pos, count, t), Std!Splice(s, pos, count, t))
<1> DEFINE n == Len(s) - k + Len(t)
           f == pos + k
           d == pos + Len(t)
           l == Len(s)
<1>1. /\ Size(m) = Len(s) /\ s \in Seq(Cells) /\ Len(s) \in Nat /\ Len(t) \in Nat /\ N \in Nat
      /\ m \in Memory /\ Len(s) =< N /\ pos \in Nat /\ pos =< Len(s) /\ Len(s) \in 0..N
      /\ storage = "small" => m.size = 0
  BY ShownFacts
<1>2. k \in Nat /\ k =< Len(s) - pos /\ Erased(m, pos, count) = k
  BY <1>1 DEF Min, Erased
<1>3. /\ f \in Nat /\ f =< l /\ d \in Nat /\ l \in Nat /\ l =< N /\ n \in 0..N
      /\ pos + k =< Len(s) /\ d =< n /\ d + (l - f) = n
  BY <1>1, <1>2, SplicePlaces
<1>4. Sealed(m, Len(s)) /\ \A j \in 0..(Len(s) - 1) : m.buf[j] = s[j + 1]
  BY DEF Shows
<1>5. storage = "small" => n < N
  BY <1>3 DEF Allowed, Room, Keeps, NotFilled
\* What is left to show in each case: the parts are in place when the size is set.
<1>6. ASSUME NEW r \in Memory, InPlace(r, s, pos, k, t), storage = "small" => r.size = 0
      PROVE  Shows(SetSize(r, n), Std!Splice(s, pos, count, t))
  <2>1. Sealed(SetSize(r, n), n)
    BY <1>3, <1>5, <1>6, SetSizeSeals
  <2>2. InPlace(SetSize(r, n), s, pos, k, t)
    BY <1>1, <1>2, <1>3, <1>6, CutInPlace
  <2> QED BY <1>1, <1>2, <2>1, <2>2, SpliceShows
<1>7. CASE k > Len(t)
  <2> DEFINE w == Write(m, pos, t)
             v == Move(w, f, l, d)
  <2>1. pos + Len(t) =< l /\ d + (l - f) =< l /\ Len(t) =< k
    BY <1>1, <1>2, <1>7, SplicePlaces
  <2>2. Sealed(w, l) /\ w \in Memory
    BY <1>1, <1>3, <1>4, <2>1, WriteSealed DEF Sealed
  <2>3. Sealed(v, l) /\ v \in Memory /\ (storage = "small" => v.size = 0)
    <3> HIDE DEF w, f, d, l
    <3>1. Sealed(v, l)
      BY <1>1, <1>3, <2>1, <2>2, MoveSealed
    <3> QED BY <3>1 DEF Sealed
  <2>4. Moved(v, w, f, l, d)
    BY <1>3, <2>2, MoveChars
  <2>5. replace(m, pos, count, t) = SetSize(v, n)
    BY <1>1, <1>2, <1>3, <1>7 DEF replace, Fits
  <2> HIDE DEF v
  <2>6. InPlace(v, s, pos, k, t)
    BY <1>1, <1>2, <1>3, <1>4, <2>1, <2>2, <2>4, WriteThenMove
  <2> QED BY <1>6, <2>3, <2>5, <2>6
<1>8. CASE k < Len(t)
  <2> DEFINE v == Move(m, f, l, d)
             w == Write(v, pos, t)
  <2>1. v \in Memory /\ v.size = m.size
    <3> HIDE DEF f, d, l, n
    <3>1. d + (l - f) =< n
      BY <1>3
    <3> QED BY <1>1, <1>3, <3>1, MoveKeeps
  <2>2. Moved(v, m, f, l, d)
    BY <1>1, <1>3, MoveChars
  <2>3. w \in Memory /\ w.size = m.size
    BY <1>1, <1>3, <2>1, WriteKeeps
  <2>4. replace(m, pos, count, t) = SetSize(w, n)
    BY <1>1, <1>2, <1>3, <1>8 DEF replace, Fits
  <2> HIDE DEF v
  <2>5. InPlace(w, s, pos, k, t)
    BY <1>1, <1>2, <1>3, <1>4, <2>1, <2>2, MoveThenWrite
  <2> QED BY <1>1, <1>6, <2>3, <2>4, <2>5
<1>9. CASE k = Len(t)
  <2>1. pos + Len(t) =< Len(s) /\ n = Len(s)
    BY <1>1, <1>3, <1>9
  <2>2. replace(m, pos, count, t) = Write(m, pos, t)
    BY <1>1, <1>2, <1>3, <1>9 DEF replace, Fits
  <2>3. Sealed(Write(m, pos, t), Len(s))
    BY <1>1, <1>4, <2>1, WriteSealed
  <2>4. InPlace(Write(m, pos, t), s, pos, k, t)
    BY <1>1, <1>4, <1>9, <2>1, WriteInPlace
  <2> QED BY <1>1, <1>2, <2>1, <2>2, <2>3, <2>4, SpliceShows
<1> QED BY <1>1, <1>2, <1>7, <1>8, <1>9

----------------------------------------------------------------------------
(* Edits do what they do to a std::string. *)

LEMMA AgreesWhen ==
    ASSUME Keeps, storage \in Storages, NEW m, NEW text \in Seq(Cells),
           Len(text) > N => m = mem,
           Len(text) =< N /\ Allowed(Len(text)) => Shows(m, text)
    PROVE  Agrees(m, text)
<1>1. Len(text) \in Nat /\ N \in Nat
  BY DEF Keeps
<1>2. CASE Len(text) > N
  <2>1. ~(Len(text) =< N) /\ m = mem
    BY <1>1, <1>2
  <2> QED BY <1>2, <2>1 DEF Agrees
<1>3. CASE Len(text) =< N
  <2>1. Room(Len(text)) => View(m) = text
    BY <1>3, ShownFacts DEF Allowed
  <2> QED BY <1>1, <1>3, <2>1 DEF Agrees
<1> QED BY <1>1, <1>2, <1>3

\* The string before a call: its text and size.
LEMMA TextBefore ==
    ASSUME Keeps, Inv
    PROVE  /\ storage \in Storages /\ IsString(mem) /\ Shows(mem, View(mem))
           /\ View(mem) \in Seq(Cells) /\ Size(mem) = Len(View(mem))
           /\ Size(mem) \in Nat /\ Size(mem) \in 0..N /\ N \in Nat
           /\ Places \subseteq Nat /\ Chars \subseteq Cells
<1>1. storage \in Storages /\ IsString(mem) /\ Shows(mem, View(mem))
  BY ViewShown DEF Inv
<1>2. View(mem) \in Seq(Cells) /\ Size(mem) = Len(View(mem)) /\ Size(mem) \in Nat /\ Size(mem) \in 0..N
  BY <1>1, ShownFacts
<1> QED BY <1>1, <1>2 DEF Places, Keeps

LEMMA AssignAgrees ==
    ASSUME Keeps, Inv, NEW t \in Seq(Cells)
    PROVE  Agrees(assign(mem, t), t)
<1>1. storage \in Storages /\ IsString(mem) /\ N \in Nat
  BY TextBefore
<1>2. Len(t) > N => assign(mem, t) = mem
  BY <1>1 DEF assign, Fits
<1>3. Len(t) =< N /\ Allowed(Len(t)) => Shows(assign(mem, t), t)
  BY <1>1, AssignShows
<1> QED BY <1>1, <1>2, <1>3, AgreesWhen

\* What c_str() tells of a text is its longest beginning without NUL.
LEMMA CStrIsBeginning ==
    ASSUME NEW t \in Seq(Cells)
    PROVE  CStr(t) = Std!CString(t, NUL)
<1> DEFINE H == {i \in 1..Len(t) : t[i] = NUL}
           IsFirst(i) == t[i] = NUL /\ \A j \in 1..(i - 1) : t[j] # NUL
           c == CHOOSE i \in 1..Len(t) : IsFirst(i)
           Clean(n) == (\A i \in 1..n : t[i] # NUL) /\ (n = Len(t) \/ t[n + 1] = NUL)
           d == CHOOSE n \in 0..Len(t) : Clean(n)
<1>1. Std!CString(t, NUL) = SubSeq(t, 1, d)
  BY DEF Std!CString
<1>2. ASSUME NEW n \in 0..Len(t), Clean(n) PROVE d = n
  <2>1. d \in 0..Len(t) /\ Clean(d)
    BY <1>2
  <2> HIDE DEF d
  <2>2. d < n => d + 1 \in 1..n /\ d # Len(t)
    BY <2>1
  <2>3. n < d => n + 1 \in 1..d /\ n # Len(t)
    BY <2>1
  <2> QED BY <1>2, <2>1, <2>2, <2>3
<1> HIDE DEF d
<1>3. CASE H = {}
  <2>1. CStr(t) = t /\ Len(t) \in 0..Len(t) /\ Clean(Len(t))
    BY <1>3 DEF CStr
  <2>2. d = Len(t)
    BY <1>2, <2>1
  <2> QED BY <1>1, <2>1, <2>2
<1>4. CASE H # {}
  <2>1. H \subseteq Nat
    OBVIOUS
  <2>2. PICK f \in H : \A j \in H : f =< j
    BY <1>4, <2>1, LeastExists
  <2>3. f \in 1..Len(t) /\ IsFirst(f)
    <3>1. \A j \in 1..(f - 1) : j \in 1..Len(t) /\ ~(f =< j)
      BY <2>1
    <3> QED BY <2>2, <3>1
  <2>4. c \in 1..Len(t) /\ IsFirst(c)
    BY <2>3
  <2>5. CStr(t) = SubSeq(t, 1, c - 1)
    BY <1>4 DEF CStr
  <2> HIDE DEF c
  <2>6. c - 1 \in 0..Len(t) /\ (c - 1) + 1 = c /\ Clean(c - 1)
    BY <2>4
  <2>7. d = c - 1
    BY <1>2, <2>6
  <2> QED BY <1>1, <2>5, <2>7
<1> QED BY <1>3, <1>4

LEMMA SliceIsSubstr ==
    ASSUME NEW t \in Seq(Cells), NEW pos \in Nat, NEW count \in Nat, pos =< Len(t)
    PROVE  Slice(t, pos, count) = Std!Substr(t, pos, count)
<1>1. pos + Min(count, Len(t) - pos) = IF pos + count < Len(t) THEN pos + count ELSE Len(t)
  BY DEF Min
<1> QED BY <1>1 DEF Slice, Std!Substr

LEMMA TextsCorrect ==
    ASSUME Keeps, Inv
    PROVE  TextsLikeStd
<1> DEFINE s == View(mem)
           n == Size(mem)
<1>1. storage \in Storages /\ IsString(mem) /\ Shows(mem, s) /\ Places \subseteq Nat
  BY TextBefore
<1>2. s \in Seq(Cells) /\ n = Len(s) /\ Len(s) \in Nat /\ N \in Nat
  BY TextBefore
<1> HIDE DEF s, n
<1> SUFFICES ASSUME NEW t \in Texts
             PROVE  /\ Agrees(assign(mem, t), t)
                    /\ Agrees(assign(mem, CStr(t)), Std!CString(t, NUL))
                    /\ \A pos \in 0..Len(t), count \in Places :
                           Agrees(assign_part(mem, t, pos, count), Std!Substr(t, pos, count))
                    /\ \A junk \in Junk : Fits(Len(t) + Len(s)) => Agrees(concat(junk, t, s), t \o s)
                    /\ Agrees(append(mem, t), s \o t)
  BY DEF TextsLikeStd, s
<1>3. t \in Seq(Cells) /\ Len(t) \in Nat
  BY TextsAreTexts
<1>4. Agrees(assign(mem, t), t)
  BY <1>3, AssignAgrees
<1>5. Agrees(assign(mem, CStr(t)), Std!CString(t, NUL))
  <2>1. CStr(t) \in Seq(Cells) /\ CStr(t) = Std!CString(t, NUL)
    BY <1>3, CStrText, CStrIsBeginning
  <2>2. Agrees(assign(mem, CStr(t)), CStr(t))
    BY <2>1, AssignAgrees
  <2> QED BY <2>1, <2>2
<1>6. ASSUME NEW pos \in 0..Len(t), NEW count \in Places
      PROVE  Agrees(assign_part(mem, t, pos, count), Std!Substr(t, pos, count))
  <2>1. pos \in Nat /\ count \in Nat /\ pos =< Len(t)
    BY <1>1, <1>3
  <2> DEFINE part == Slice(t, pos, count)
  <2>2. part \in Seq(Cells) /\ part = Std!Substr(t, pos, count)
    BY <1>3, <2>1, SliceText, SliceIsSubstr
  <2>3. assign_part(mem, t, pos, count) = assign(mem, part)
    BY <2>1 DEF assign_part
  <2> HIDE DEF part
  <2>4. Agrees(assign(mem, part), part)
    BY <2>2, AssignAgrees
  <2> QED BY <2>2, <2>3, <2>4
<1>7. ASSUME NEW junk \in Junk, Fits(Len(t) + Len(s)) PROVE Agrees(concat(junk, t, s), t \o s)
  <2>1. t \o s \in Seq(Cells) /\ Len(t \o s) = Len(t) + Len(s) /\ Len(t) + Len(s) =< N
    BY <1>2, <1>3, <1>7, ConcatChars DEF Fits
  <2>2. Allowed(Len(t) + Len(s)) => Shows(concat(junk, t, s), t \o s)
    BY <1>1, <1>2, <1>3, <2>1, ConcatShows
  <2>3. ~(Len(t) + Len(s) > N)
    BY <1>2, <1>3, <2>1
  <2> QED BY <1>1, <2>1, <2>2, <2>3, AgreesWhen
<1>8. Agrees(append(mem, t), s \o t)
  <2>1. s \o t \in Seq(Cells) /\ Len(s \o t) = Len(s) + Len(t)
    BY <1>2, <1>3, ConcatChars
  <2>2. Len(s) + Len(t) > N => append(mem, t) = mem
    BY <1>2, <1>3 DEF append, Fits, n
  <2>3. Len(s) + Len(t) =< N /\ Allowed(Len(s) + Len(t)) => Shows(append(mem, t), s \o t)
    BY <1>1, <1>3, AppendShows
  <2> QED BY <1>1, <2>1, <2>2, <2>3, AgreesWhen
<1> QED BY <1>4, <1>5, <1>6, <1>7, <1>8

LEMMA EndsCorrect ==
    ASSUME Keeps, Inv
    PROVE  EndsLikeStd
<1> DEFINE s == View(mem)
           n == Size(mem)
<1>1. storage \in Storages /\ IsString(mem) /\ Shows(mem, s) /\ Chars \subseteq Cells
  BY TextBefore
<1>2. s \in Seq(Cells) /\ n = Len(s) /\ Len(s) \in Nat /\ Len(s) \in 0..N /\ N \in Nat
  BY TextBefore
<1> HIDE DEF s, n
<1>3. ASSUME NEW ch \in Chars PROVE Agrees(push_back(mem, ch), Append(s, ch))
  <2>1. ch \in Cells /\ Append(s, ch) \in Seq(Cells) /\ Len(Append(s, ch)) = Len(s) + 1
    BY <1>1, <1>2
  <2>2. Len(s) + 1 > N => push_back(mem, ch) = mem
    BY <1>2 DEF push_back, Fits, n
  <2>3. Len(s) + 1 =< N /\ Allowed(Len(s) + 1) => Shows(push_back(mem, ch), Append(s, ch))
    BY <1>1, <2>1, PushBackShows
  <2> QED BY <1>1, <2>1, <2>2, <2>3, AgreesWhen
<1>4. ASSUME n > 0 PROVE Agrees(pop_back(mem), SubSeq(s, 1, n - 1))
  <2>1. n - 1 \in Nat /\ n - 1 =< Len(s) /\ ~(n - 1 > N)
    BY <1>2, <1>4
  <2>2. SubSeq(s, 1, n - 1) \in Seq(Cells) /\ Len(SubSeq(s, 1, n - 1)) = n - 1
    BY <1>2, <2>1
  <2>3. Shows(pop_back(mem), SubSeq(s, 1, n - 1))
    BY <1>1, <1>2, <1>4, PopBackShows
  <2> QED BY <1>1, <2>1, <2>2, <2>3, AgreesWhen
<1>5. Agrees(clear(mem), << >>)
  <2> DEFINE e == << >>
  <2>1. e \in Seq(Cells) /\ Len(e) = 0 /\ ~(0 > N) /\ 0 \in 0..Len(s) /\ SubSeq(s, 1, 0) = e
    BY <1>2
  <2>2. Shows(SetSize(mem, 0), SubSeq(s, 1, 0))
    BY <1>1, <2>1, CutShows
  <2>3. Shows(clear(mem), e)
    BY <2>1, <2>2 DEF clear
  <2> HIDE DEF e
  <2>4. Agrees(clear(mem), e)
    BY <1>1, <2>1, <2>3, AgreesWhen
  <2> QED BY <2>4 DEF e
<1>6. ResizeFills
  <2> SUFFICES ASSUME NEW count \in n..N, NEW ch \in Chars \ {NUL}
               PROVE  Agrees(resize(mem, count, ch), s \o Fill(count - n, ch))
    BY DEF ResizeFills, s, n
  <2>1. count \in 0..N /\ Len(s) =< count /\ ch \in Cells /\ count - Len(s) \in Nat /\ count \in Nat
    BY <1>1, <1>2
  <2>2. Fill(count - Len(s), ch) \in Seq(Cells) /\ Len(Fill(count - Len(s), ch)) = count - Len(s)
    BY <2>1, FillText
  <2>3. s \o Fill(count - Len(s), ch) \in Seq(Cells) /\ Len(s \o Fill(count - Len(s), ch)) = count
    BY <1>2, <2>1, <2>2, ConcatChars
  <2>4. Allowed(count) => Shows(resize(mem, count, ch), s \o Fill(count - Len(s), ch))
    BY <1>1, <2>1, ResizeGrows
  <2>5. ~(count > N)
    BY <1>2, <2>1
  <2> QED BY <1>1, <1>2, <2>3, <2>4, <2>5, AgreesWhen
<1>7. ASSUME NEW count \in 0..n, NEW ch \in Chars
      PROVE  Agrees(resize(mem, count, ch), SubSeq(s, 1, count))
  <2>1. count \in Nat /\ count \in 0..Len(s) /\ ~(count > N)
    BY <1>2
  <2>2. SubSeq(s, 1, count) \in Seq(Cells) /\ Len(SubSeq(s, 1, count)) = count
    BY <1>2, <2>1
  <2>3. Shows(resize(mem, count, ch), SubSeq(s, 1, count))
    BY <1>1, <2>1, ResizeCuts
  <2> QED BY <1>1, <2>1, <2>2, <2>3, AgreesWhen
<1>8. ASSUME NEW i \in 0..(n - 1), NEW ch \in Chars
      PROVE  Agrees(Write(mem, i, <<ch>>), Std!Splice(s, i, 1, <<ch>>))
  <2> DEFINE c == <<ch>>
  <2>1. c \in Seq(Cells) /\ Len(c) = 1
    BY <1>1
  <2>2. i \in Nat /\ i \in 0..Len(s) /\ i + Len(c) =< Len(s) /\ Len(s) =< N /\ 1 = Min(1, Len(s) - i)
    BY <1>2, <2>1 DEF Min
  <2> HIDE DEF c
  <2>3. Sealed(mem, Len(s)) /\ mem \in Memory /\ \A j \in 0..(Len(s) - 1) : mem.buf[j] = s[j + 1]
    BY <1>1 DEF Shows, Sealed
  <2>4. Sealed(Write(mem, i, c), Len(s) - 1 + Len(c))
    <3>1. Sealed(Write(mem, i, c), Len(s))
      BY <1>1, <2>1, <2>2, <2>3, WriteSealed
    <3> QED BY <1>2, <2>1, <3>1
  <2>5. InPlace(Write(mem, i, c), s, i, 1, c)
    <3>1. InPlace(Write(mem, i, c), s, i, Len(c), c)
      BY <1>2, <2>1, <2>2, <2>3, WriteInPlace
    <3> QED BY <2>1, <3>1
  <2>6. Shows(Write(mem, i, c), Std!Splice(s, i, 1, c))
    BY <1>2, <2>1, <2>2, <2>4, <2>5, SpliceShows
  <2>7. Std!Splice(s, i, 1, c) \in Seq(Cells) /\ Len(Std!Splice(s, i, 1, c)) = Len(s) - 1 + Len(c)
    <3>1. ASSUME NEW count \in Nat, count = 1
          PROVE  /\ Std!Splice(s, i, count, c) \in Seq(Cells)
                 /\ Len(Std!Splice(s, i, count, c)) = Len(s) - Min(count, Len(s) - i) + Len(c)
      BY <1>2, <2>1, <2>2, SpliceText
    <3> QED BY <2>2, <3>1
  <2>8. ~(Len(Std!Splice(s, i, 1, c)) > N)
    BY <1>2, <2>1, <2>7
  <2>9. Agrees(Write(mem, i, c), Std!Splice(s, i, 1, c))
    BY <1>1, <2>6, <2>7, <2>8, AgreesWhen
  <2> QED BY <2>9 DEF c
<1> QED BY <1>3, <1>4, <1>5, <1>6, <1>7, <1>8 DEF EndsLikeStd, s, n

LEMMA InsertAgrees ==
    ASSUME Keeps, Inv, NEW pos \in 0..Size(mem), NEW t \in Seq(Cells)
    PROVE  Agrees(insert(mem, pos, t), Std!Splice(View(mem), pos, 0, t))
<1> DEFINE s == View(mem)
<1>1. storage \in Storages /\ Shows(mem, s)
  BY TextBefore
<1>2. s \in Seq(Cells) /\ Size(mem) = Len(s) /\ Len(s) \in Nat /\ N \in Nat
  BY TextBefore
<1> HIDE DEF s
<1>3. Len(t) \in Nat /\ pos \in 0..Len(s) /\ pos \in Nat /\ 0 = Min(0, Len(s) - pos)
  BY <1>2 DEF Min
<1>4. Std!Splice(s, pos, 0, t) \in Seq(Cells) /\ Len(Std!Splice(s, pos, 0, t)) = Len(s) - 0 + Len(t)
  BY <1>2, <1>3, SpliceChars
<1>5. Len(s) + Len(t) > N => insert(mem, pos, t) = mem
  BY <1>2, <1>3 DEF insert, Fits
<1>6. Len(s) + Len(t) =< N /\ Allowed(Len(s) + Len(t)) => Shows(insert(mem, pos, t), Std!Splice(s, pos, 0, t))
  BY <1>1, <1>3, InsertShows
<1>7. Len(Std!Splice(s, pos, 0, t)) = Len(s) + Len(t)
  BY <1>2, <1>3, <1>4
<1>8. Agrees(insert(mem, pos, t), Std!Splice(s, pos, 0, t))
  BY <1>1, <1>4, <1>5, <1>6, <1>7, AgreesWhen
<1> QED BY <1>8 DEF s

LEMMA EraseAgrees ==
    ASSUME Keeps, Inv, NEW pos \in 0..Size(mem), NEW count \in Nat
    PROVE  Agrees(erase(mem, pos, count), Std!Splice(View(mem), pos, count, << >>))
<1> DEFINE s == View(mem)
           k == Min(count, Len(s) - pos)
           e == << >>
<1>1. storage \in Storages /\ Shows(mem, s)
  BY TextBefore
<1>2. s \in Seq(Cells) /\ Size(mem) = Len(s) /\ Len(s) \in Nat /\ Len(s) \in 0..N /\ N \in Nat
  BY TextBefore
<1> HIDE DEF s
<1>3. pos \in 0..Len(s) /\ k \in Nat /\ k =< Len(s) /\ e \in Seq(Cells) /\ Len(e) = 0
  BY <1>2 DEF Min
<1>4. Shows(erase(mem, pos, count), Std!Splice(s, pos, count, e))
  BY <1>1, <1>3, EraseShows
<1> HIDE DEF k, e
<1>5. Std!Splice(s, pos, count, e) \in Seq(Cells) /\ Len(Std!Splice(s, pos, count, e)) = Len(s) - k + Len(e)
  BY <1>2, <1>3, SpliceText DEF k
<1>6. ~(Len(s) - k + Len(e) > N)
  BY <1>2, <1>3
<1>7. Agrees(erase(mem, pos, count), Std!Splice(s, pos, count, e))
  BY <1>1, <1>4, <1>5, <1>6, AgreesWhen
<1> QED BY <1>7 DEF s, e

LEMMA ReplaceAgrees ==
    ASSUME Keeps, Inv, NEW pos \in 0..Size(mem), NEW count \in Nat, NEW t \in Seq(Cells)
    PROVE  Agrees(replace(mem, pos, count, t), Std!Splice(View(mem), pos, count, t))
<1> DEFINE s == View(mem)
           k == Min(count, Len(s) - pos)
<1>1. storage \in Storages /\ Shows(mem, s)
  BY TextBefore
<1>2. s \in Seq(Cells) /\ Size(mem) = Len(s) /\ Len(s) \in Nat /\ N \in Nat
  BY TextBefore
<1> HIDE DEF s
<1>3. pos \in 0..Len(s) /\ pos \in Nat /\ Len(t) \in Nat /\ k \in Nat /\ Erased(mem, pos, count) = k
  BY <1>2 DEF Min, Erased
<1> HIDE DEF k
<1>4. Std!Splice(s, pos, count, t) \in Seq(Cells) /\ Len(Std!Splice(s, pos, count, t)) = Len(s) - k + Len(t)
  BY <1>2, <1>3, SpliceText DEF k
<1>5. Len(s) - k + Len(t) > N => replace(mem, pos, count, t) = mem
  BY <1>2, <1>3 DEF replace, Fits
<1>6. Len(s) - k + Len(t) =< N /\ Allowed(Len(s) - k + Len(t)) =>
          Shows(replace(mem, pos, count, t), Std!Splice(s, pos, count, t))
  BY <1>1, <1>3, ReplaceShows DEF k
<1>7. Agrees(replace(mem, pos, count, t), Std!Splice(s, pos, count, t))
  BY <1>1, <1>4, <1>5, <1>6, AgreesWhen
<1> QED BY <1>7 DEF s

LEMMA PlacesCorrect ==
    ASSUME Keeps, Inv
    PROVE  PlacesLikeStd
<1>1. Places \subseteq Nat
  BY TextBefore
<1>2. \A t \in Texts : t \in Seq(Cells)
  BY TextsAreTexts
<1> QED BY <1>1, <1>2, InsertAgrees, EraseAgrees, ReplaceAgrees DEF PlacesLikeStd

\* The range that an iterator at the end begins is empty.
LEMMA EraseNothing ==
    ASSUME Keeps, Inv
    PROVE  Agrees(mem, Std!Splice(View(mem), Size(mem), 0, << >>))
<1> DEFINE s == View(mem)
           n == Size(mem)
<1>1. storage \in Storages /\ Shows(mem, s)
  BY TextBefore
<1>2. s \in Seq(Cells) /\ n = Len(s) /\ n \in Nat /\ n \in 0..N /\ N \in Nat
  BY TextBefore
<1> HIDE DEF s, n
<1>3. SubSeq(s, 1, n) = s /\ SubSeq(s, n + 0 + 1, Len(s)) = << >>
  BY <1>2
<1>4. Std!Splice(s, n, 0, << >>) = (s \o << >>) \o << >>
  BY <1>3 DEF Std!Splice
<1>5. Std!Splice(s, n, 0, << >>) = s
  BY <1>2, <1>4
<1>6. ~(Len(s) > N)
  BY <1>2
<1>7. Agrees(mem, s)
  BY <1>1, <1>2, <1>6, AgreesWhen
<1> QED BY <1>5, <1>7 DEF s, n

LEMMA IteratorsCorrect ==
    ASSUME Keeps, Inv
    PROVE  IteratorsLikeStd
<1> DEFINE s == View(mem)
           n == Size(mem)
<1>1. n \in Nat
  BY TextBefore
<1> HIDE DEF s, n
<1>2. \A t \in Texts : t \in Seq(Cells)
  BY TextsAreTexts
<1>3. \A t \in Texts : insert_at(mem, n, t) = mem
  BY <1>1 DEF insert_at, n
<1>4. ASSUME NEW first \in 0..(n - 1), NEW t \in Texts
      PROVE  Agrees(insert_at(mem, first, t), Std!Splice(s, first, 0, t))
  <2>1. first \in 0..n /\ first < n
    BY <1>1
  <2>2. insert_at(mem, first, t) = insert(mem, first, t)
    BY <2>1 DEF insert_at, n
  <2> QED BY <1>2, <2>1, <2>2, InsertAgrees DEF s, n
<1>5. ASSUME NEW first \in 0..n, NEW t \in Texts PROVE replace_at(mem, first, first, t) = mem
  BY <1>1 DEF replace_at
<1>6. ASSUME NEW first \in 0..n, NEW last \in 0..n, first < last, NEW t \in Texts
      PROVE  Agrees(replace_at(mem, first, last, t), Std!Splice(s, first, last - first, t))
  <2>1. last - first \in Nat /\ last =< n
    BY <1>1, <1>6
  <2>2. replace_at(mem, first, last, t) = replace(mem, first, last - first, t)
    BY <1>6, <2>1 DEF replace_at, n
  <2> QED BY <1>2, <2>1, <2>2, ReplaceAgrees DEF s, n
<1>7. ASSUME NEW first \in 0..n, NEW last \in 0..n, first =< last
      PROVE  Agrees(erase_at(mem, first, last), Std!Splice(s, first, last - first, << >>))
  <2>1. last - first \in Nat
    BY <1>1, <1>7
  <2>2. CASE first < n
    <3>1. erase_at(mem, first, last) = erase(mem, first, last - first)
      BY <2>2 DEF erase_at, n
    <3> QED BY <2>1, <3>1, EraseAgrees DEF s, n
  <2>3. CASE ~(first < n)
    <3>1. first = n /\ last - first = 0
      BY <1>1, <1>7, <2>3
    <3>2. erase_at(mem, first, last) = mem
      BY <2>3 DEF erase_at, n
    <3> QED BY <3>1, <3>2, EraseNothing DEF s, n
  <2> QED BY <2>2, <2>3
<1> QED BY <1>3, <1>4, <1>5, <1>6, <1>7 DEF IteratorsLikeStd, s, n

LEMMA RefusedCorrect ==
    ASSUME Keeps, Inv
    PROVE  RefusedWhole
<1>1. Size(mem) \in Nat /\ N \in Nat /\ Places \subseteq Nat
  BY TextBefore
<1>2. \A t \in Texts : Len(t) \in Nat
  BY TextsAreTexts
<1> SUFFICES ASSUME NEW pos \in Nat, NEW count \in Nat, NEW t \in Texts
             PROVE  /\ pos > Size(mem) => /\ insert(mem, pos, t) = mem
                                           /\ erase(mem, pos, count) = mem
                                           /\ replace(mem, pos, count, t) = mem
                    /\ pos > Len(t) => assign_part(mem, t, pos, count) = mem
                    /\ count > N => \A ch \in Chars : resize(mem, count, ch) = mem
  BY <1>1 DEF RefusedWhole
<1>3. pos > Size(mem) => ~(pos =< Size(mem))
  BY <1>1
<1>4. pos > Len(t) => ~(pos =< Len(t))
  BY <1>2
<1>5. count > N => ~Fits(count)
  BY <1>1 DEF Fits
<1> QED BY <1>3, <1>4, <1>5 DEF insert, erase, replace, assign_part, resize

LEMMA EditsCorrect ==
    ASSUME Keeps, Inv
    PROVE  EditsLikeStd
BY TextsCorrect, EndsCorrect, PlacesCorrect, IteratorsCorrect, RefusedCorrect DEF EditsLikeStd

\* Whatever earlier edits left in the buffer, each call that edits a string,
\* given a text, at a position, an iterator or its end, leaves what the same
\* call leaves in a std::string; what does not fit or begins beyond the end is
\* refused as a whole.  Where the code differs, it does what EditsLikeStd says
\* of it: a std::string is cut at its first NUL, insertions at end() and
\* replacements of empty ranges of iterators are ignored.  assign from beyond
\* the end of a std::string, which the code leaves undefined, is excluded.
THEOREM EditsAreStd == ASSUME NotFilled PROVE Spec => []EditsLikeStd
<1>1. Init => Inv
  BY InitString
<1>2. Inv /\ [Next]_vars => Inv'
  BY NextString
<1>3. Inv => EditsLikeStd
  BY KeepsHolds, EditsCorrect
<1> QED BY <1>1, <1>2, <1>3, PTL DEF Spec
=============================================================================
