---------------------------- MODULE FixedString ----------------------------
(***************************************************************************)
(* xbasic_fixed_string<CT, N>: a string in a buffer of N + 1 characters    *)
(* inside the object, with the interface of std::string.  xguid, the type  *)
(* of comm ids, is one.  Where the size is kept depends on the storage:    *)
(*                                                                         *)
(*   small   in the last character of the buffer (one-byte characters and  *)
(*           N < 256, and so xguid)                                        *)
(*   sized   in a member of its own                                        *)
(*                                                                         *)
(* Strings that keep no size, and ask strlen for it, are not modelled.     *)
(* The state is the memory of one string, an action is a call that edits   *)
(* it.  The arguments of a call are texts that do not overlap the string.  *)
(* A call that throws leaves the string as it is: all checks come first.   *)
(* Under the policy silent_error nothing is checked and what does not fit  *)
(* is undefined, so that its calls are those that do not throw here.       *)
(***************************************************************************)
EXTENDS Integers, Sequences

CONSTANTS
    N,         \* capacity in characters
    Radix,     \* number of values of the unsigned type of a character
    Chars,     \* characters of the texts, NUL may be one
    Storages,  \* kinds of storage under study
    FillSmall  \* TRUE: strings in small storage are filled up to N characters

NUL == 0

ASSUME CapacityAssumption == N \in Nat \ {0}
ASSUME CharsAssumption == Radix \in Nat \ {0} /\ Chars \subseteq 0..(Radix - 1)
ASSUME StoragesAssumption == Storages \subseteq {"small", "sized"}
ASSUME FillSmallAssumption == FillSmall \in BOOLEAN

\* static_assert "small string" of the small storage
ASSUME SmallAssumption == "small" \in Storages => N + 1 =< Radix

VARIABLES
    mem,     \* m_storage: buf is m_buffer and size is m_size, 0 if there is none
    storage  \* the kind of storage, a property of the type

vars == <<mem, storage>>

\* npos, larger than any size
npos == N + 2

Min(a, b) == IF a < b THEN a ELSE b

----------------------------------------------------------------------------
(* The two storages. *)

Size(m) == IF storage = "small" THEN N + 1 - m.buf[N] ELSE m.size

\* The small storage keeps N + 1 - n in one character, then writes the NUL.
SetSize(m, n) ==
    IF storage = "small"
    THEN [m EXCEPT !.buf = [@ EXCEPT ![N] = (N + 1 - n) % Radix, ![n] = NUL]]
    ELSE [buf |-> [m.buf EXCEPT ![n] = NUL], size |-> n]

\* Mutant: the size changes and the NUL stays where it was.
AdjustSizeOnly(m, val) ==
    IF storage = "small" THEN [m EXCEPT !.buf[N] = @ - val] ELSE [m EXCEPT !.size = @ + val]

AdjustSize(m, val) == SetSize(m, Size(m) + val)

\* Mutant: the place of the NUL is counted as room.
FitsWithNul(n) == n =< N + 1

\* The policy throwing_error: a length_error is thrown for what does not fit.
Fits(n) == n =< N

\* Copies s to position at.
Write(m, at, s) ==
    [m EXCEPT !.buf = [j \in 0..N |-> IF at =< j /\ j < at + Len(s) THEN s[j - at + 1] ELSE @[j]]]

\* std::copy and std::copy_backward of [first, last) to dest, within the buffer.
Move(m, first, last, dest) ==
    [m EXCEPT !.buf = [j \in 0..N |->
        IF dest =< j /\ j < dest + (last - first) THEN @[first + (j - dest)] ELSE @[j]]]

Fill(n, ch) == [i \in 1..n |-> ch]

\* What is visible through size() and operator[].
View(m) == [i \in 1..Size(m) |-> m.buf[i - 1]]

\* The characters from pos on, at most count.
Slice(t, pos, count) == SubSeq(t, pos + 1, pos + Min(count, Len(t) - pos))

\* The text up to its first NUL: what c_str() tells a const_pointer overload.
CStr(t) == IF \E i \in 1..Len(t) : t[i] = NUL
           THEN SubSeq(t, 1, (CHOOSE i \in 1..Len(t) : /\ t[i] = NUL
                                                       /\ \A j \in 1..(i - 1) : t[j] # NUL) - 1)
           ELSE t

----------------------------------------------------------------------------
(* The calls, each from the memory before to the memory after. *)

\* Mutant: a shorter text keeps the old size.
AssignGrowing(m, t) ==
    IF Fits(Len(t)) THEN Write(IF Len(t) > Size(m) THEN SetSize(m, Len(t)) ELSE m, 0, t) ELSE m

\* Default construction: the small storage leaves its other characters as it
\* finds them (junk), the sized one is value-initialised.
construct(junk) ==
    LET buf == [j \in 0..N |-> IF storage = "small" /\ j \in 1..(N - 1) THEN junk[j] ELSE NUL]
    IN  SetSize([buf |-> buf, size |-> 0], 0)

assign(m, t) == IF Fits(Len(t)) THEN Write(SetSize(m, Len(t)), 0, t) ELSE m

\* Only the overload for another fixed string checks pos (AssignBeyond).
assign_part(m, t, pos, count) == IF pos =< Len(t) THEN assign(m, Slice(t, pos, count)) ELSE m

push_back(m, ch) ==
    IF Fits(Size(m) + 1) THEN AdjustSize(Write(m, Size(m), <<ch>>), 1) ELSE m

pop_back(m) == AdjustSize(m, -1)

clear(m) == SetSize(m, 0)

resize(m, count, ch) ==
    LET r == SetSize(m, count)
    IN  IF ~Fits(count) THEN m
        ELSE IF Size(m) < Size(r) THEN Write(r, Size(m), Fill(Size(r) - Size(m), ch))
        ELSE r

insert(m, index, t) ==
    LET r == SetSize(m, Size(m) + Len(t))
    IN  IF index =< Size(m) /\ Fits(Size(m) + Len(t))
        THEN Write(Move(r, index, Size(m), Size(r) - (Size(m) - index)), index, t)
        ELSE m

\* The overloads that take an iterator ignore end().
insert_at(m, index, t) == IF index < Size(m) THEN insert(m, index, t) ELSE m

\* erase_count: how many characters there are from pos on, at most count.
Erased(m, pos, count) == Min(count, Size(m) - pos)

erase(m, index, count) ==
    LET erased == Erased(m, index, count)
    IN  IF index =< Size(m)
        THEN AdjustSize(Move(m, index + erased, Size(m), index), -erased)
        ELSE m

erase_at(m, first, last) == IF first < Size(m) THEN erase(m, first, last - first) ELSE m

append(m, t) ==
    IF Fits(Size(m) + Len(t)) THEN Write(SetSize(m, Size(m) + Len(t)), Size(m), t) ELSE m

\* Mutant: the text is written over the tail before the tail has moved.
ReplaceTextFirst(m, pos, count, t) ==
    LET erased   == Erased(m, pos, count)
        new_size == Size(m) - erased + Len(t)
    IN  IF pos > Size(m) \/ ~Fits(new_size) THEN m
        ELSE SetSize(Move(Write(m, pos, t), pos + erased, Size(m), pos + Len(t)), new_size)

replace(m, pos, count, t) ==
    LET erased   == Erased(m, pos, count)
        new_size == Size(m) - erased + Len(t)
    IN  IF pos > Size(m) \/ ~Fits(new_size) THEN m
        ELSE IF erased > Len(t)
             THEN SetSize(Move(Write(m, pos, t), pos + erased, Size(m), pos + Len(t)), new_size)
        ELSE IF erased < Len(t)
             THEN SetSize(Write(Move(m, pos + erased, Size(m), pos + Len(t)), pos, t), new_size)
        ELSE Write(m, pos, t)

\* s + t: a string is made of s, and t is appended to it.
concat(junk, s, t) == append(assign(construct(junk), s), t)

\* The overloads that take iterators ignore an empty range.
replace_at(m, first, last, t) ==
    IF first < last /\ last =< Size(m) THEN replace(m, first, last - first, t) ELSE m

----------------------------------------------------------------------------
(* The calls that only read. *)

\* Mutant: only the common length is compared.
ComparePrefix(s, t) ==
    LET rlen == Min(Len(s), Len(t))
        from[i \in 1..(rlen + 1)] ==
            IF i > rlen THEN 0 ELSE IF s[i] = t[i] THEN from[i + 1] ELSE s[i] - t[i]
    IN  from[1]

\* compare_impl, and the comparison operators built on it.
compare(s, t) ==
    LET rlen == Min(Len(s), Len(t))
        from[i \in 1..(rlen + 1)] ==
            IF i > rlen THEN Len(s) - Len(t)
            ELSE IF s[i] = t[i] THEN from[i + 1] ELSE s[i] - t[i]
    IN  from[1]

\* Loops of the searches: up from first to before last, down from first to 0.
ScanUp(first, last, Hit(_)) ==
    LET scan[u \in first..last] ==
            IF u = last THEN npos ELSE IF Hit(u) THEN u ELSE scan[u + 1]
    IN  scan[first]

ScanDown(first, Hit(_)) ==
    LET scan[u \in 0..first] ==
            IF Hit(u) THEN u ELSE IF u = 0 THEN npos ELSE scan[u - 1]
    IN  scan[first]

Matches(m, u, s) == \A i \in 1..Len(s) : m.buf[u + i - 1] = s[i]

OneOf(m, u, s) == \E i \in 1..Len(s) : m.buf[u] = s[i]

\* Mutant: the last place where the text fits is not tried.
FindShort(m, s, pos) ==
    CASE Len(s) = 0 /\ pos =< Size(m) -> pos
      [] Len(s) > 0 /\ pos < Size(m) /\ Len(s) =< Size(m) - pos ->
            ScanUp(pos, Size(m) - Len(s), LAMBDA u : Matches(m, u, s))
      [] OTHER -> npos

find(m, s, pos) ==
    CASE Len(s) = 0 /\ pos =< Size(m) -> pos
      [] Len(s) > 0 /\ pos < Size(m) /\ Len(s) =< Size(m) - pos ->
            ScanUp(pos, Size(m) - Len(s) + 1, LAMBDA u : Matches(m, u, s))
      [] OTHER -> npos

rfind(m, s, pos) ==
    CASE Len(s) = 0 -> Min(pos, Size(m))
      [] Len(s) > 0 /\ Len(s) =< Size(m) ->
            ScanDown(Min(pos, Size(m) - Len(s)), LAMBDA u : Matches(m, u, s))
      [] OTHER -> npos

find_first_of(m, s, pos) ==
    IF Len(s) > 0 /\ pos < Size(m) THEN ScanUp(pos, Size(m), LAMBDA u : OneOf(m, u, s)) ELSE npos

find_first_not_of(m, s, pos) ==
    IF pos < Size(m) THEN ScanUp(pos, Size(m), LAMBDA u : ~OneOf(m, u, s)) ELSE npos

find_last_of(m, s, pos) ==
    IF Len(s) > 0 /\ Size(m) > 0
    THEN ScanDown(Min(pos, Size(m) - 1), LAMBDA u : OneOf(m, u, s))
    ELSE npos

find_last_not_of(m, s, pos) ==
    IF Size(m) > 0 THEN ScanDown(Min(pos, Size(m) - 1), LAMBDA u : ~OneOf(m, u, s)) ELSE npos

\* The comparison operators.  With a const_pointer or a std::string, t is what
\* c_str() tells of it; with the sides exchanged, they exchange < and >.
equals(m, t) == compare(View(m), t) = 0
less(m, t) == compare(View(m), t) < 0
greater(m, t) == compare(View(m), t) > 0

\* Conversion to std::string, operator<<.
ToString(m) == CStr([i \in 1..(N + 1) |-> m.buf[i - 1]])

----------------------------------------------------------------------------
(* The calls as actions.  Texts, counts and positions go up to one more    *)
(* than the capacity, so that each error of range and length is met.       *)
(* Copying and swapping strings exchange memories that these calls reach.  *)

Texts == UNION {[1..n -> Chars] : n \in 0..(N + 1)}

Places == 0..(N + 1)

\* Unless FillSmall, the calls that fill a string in small storage are left out.
Room(n) == n =< N /\ (storage = "small" /\ ~FillSmall => n < N)

\* The string becomes m, by a call that asks for n characters.
Becomes(n, m) ==
    /\ n > N \/ Room(n)
    /\ mem' = m
    /\ UNCHANGED storage

Junk == [1..(N - 1) -> Chars]

Init == storage \in Storages /\ \E junk \in Junk : mem = construct(junk)

Assign == \E t \in Texts : Becomes(Len(t), assign(mem, t))
AssignPart == \E t \in Texts, pos, count \in Places :
                 Becomes(Len(Slice(t, pos, count)), assign_part(mem, t, pos, count))
\* assign(const string_type&, pos, count) does not check pos: up to the end of
\* its text it is AssignPart, from beyond it takes characters of whatever memory
\* follows, as many as it asks for, unless they do not fit.
AssignBeyond == \E part \in Texts : Becomes(Len(part), assign(mem, part))
AssignCString == \E t \in Texts : Becomes(Len(CStr(t)), assign(mem, CStr(t)))
PushBack == \E ch \in Chars : Becomes(Size(mem) + 1, push_back(mem, ch))
PopBack == Size(mem) > 0 /\ Becomes(Size(mem) - 1, pop_back(mem))
Clear == Becomes(0, clear(mem))
Resize == \E count \in Places, ch \in Chars : Becomes(count, resize(mem, count, ch))
Insert == \E index \in Places, t \in Texts : Becomes(Size(mem) + Len(t), insert(mem, index, t))
InsertAt == \E index \in 0..Size(mem), t \in Texts :
               Becomes(Size(mem) + Len(t), insert_at(mem, index, t))
Erase == \E index, count \in Places : Becomes(0, erase(mem, index, count))
EraseAt == \E first, last \in 0..Size(mem) : first =< last /\ Becomes(0, erase_at(mem, first, last))
AppendText == \E t \in Texts : Becomes(Size(mem) + Len(t), append(mem, t))
Replace == \E pos, count \in Places, t \in Texts :
              Becomes(Size(mem) - Erased(mem, pos, count) + Len(t), replace(mem, pos, count, t))
ReplaceAt == \E first, last \in 0..Size(mem), t \in Texts :
                /\ first =< last
                /\ Becomes(Size(mem) - (last - first) + Len(t), replace_at(mem, first, last, t))
\* x = y + x, when it does not throw; x = x + y is like AppendText.
Concatenate == \E junk \in Junk, t \in Texts :
                  /\ Fits(Len(t) + Size(mem))
                  /\ Becomes(Len(t) + Size(mem), concat(junk, t, View(mem)))
\* Through operator[], at, front, back and the iterators.
SetElement == \E i \in 0..(Size(mem) - 1), ch \in Chars : Becomes(Size(mem), Write(mem, i, <<ch>>))

Next ==
    \/ Assign \/ AssignPart \/ AssignBeyond \/ AssignCString
    \/ PushBack \/ PopBack \/ Clear \/ Resize \/ SetElement
    \/ Insert \/ InsertAt \/ Erase \/ EraseAt
    \/ AppendText \/ Concatenate \/ Replace \/ ReplaceAt

Spec == Init /\ [][Next]_vars

----------------------------------------------------------------------------
Std == INSTANCE StdString

\* The types, and with them that the size stays within the capacity.
TypeOK ==
    /\ storage \in Storages
    /\ mem \in [buf : [0..N -> 0..(Radix - 1)], size : 0..N]
    /\ storage = "small" => mem.size = 0

\* xguid.hpp:28 promises room for N characters: no string is longer.
SizeFits == Size(mem) =< N

\* Whatever calls came before, the text ends with a NUL: c_str(), the
\* conversion to std::string and the output operator, through which ids reach
\* messages, do not run past it.
Terminated == Size(mem) =< N /\ mem.buf[Size(mem)] = NUL

\* What a call leaves is the text that std::string would hold; one that does
\* not fit is refused as a whole.
Agrees(m, text) ==
    CASE Len(text) > N -> m = mem
      [] Len(text) =< N -> Room(Len(text)) => View(m) = text

\* Growing a string fills it with the given character (the comment of resize:
\* "need to initialize with some value != \0").
ResizeFills ==
    \A count \in Size(mem)..N, ch \in Chars \ {NUL} :
        Agrees(resize(mem, count, ch), View(mem) \o Fill(count - Size(mem), ch))

\* The calls that take a text.  The overloads for a const_pointer, and
\* operator= and assign for a whole std::string, see it up to its first NUL,
\* which std::string does only for the former.
TextsLikeStd ==
    LET s == View(mem)
    IN  \A t \in Texts :
            /\ Agrees(assign(mem, t), t)
            /\ Agrees(assign(mem, CStr(t)), Std!CString(t, NUL))
            /\ \A pos \in 0..Len(t), count \in Places :
                   Agrees(assign_part(mem, t, pos, count), Std!Substr(t, pos, count))
            /\ \A junk \in Junk : Fits(Len(t) + Len(s)) => Agrees(concat(junk, t, s), t \o s)
            /\ Agrees(append(mem, t), s \o t)

\* The calls on one character or on the end.
EndsLikeStd ==
    LET s == View(mem)
        n == Size(mem)
    IN  /\ \A ch \in Chars : Agrees(push_back(mem, ch), Append(s, ch))
        /\ n > 0 => Agrees(pop_back(mem), SubSeq(s, 1, n - 1))
        /\ Agrees(clear(mem), << >>)
        /\ ResizeFills
        /\ \A count \in 0..n, ch \in Chars : Agrees(resize(mem, count, ch), SubSeq(s, 1, count))
        /\ \A i \in 0..(n - 1), ch \in Chars :
              Agrees(Write(mem, i, <<ch>>), Std!Splice(s, i, 1, <<ch>>))

\* The calls at a position.
PlacesLikeStd ==
    LET s == View(mem)
    IN  \A pos \in 0..Size(mem), t \in Texts, count \in Places :
            /\ Agrees(insert(mem, pos, t), Std!Splice(s, pos, 0, t))
            /\ Agrees(erase(mem, pos, count), Std!Splice(s, pos, count, << >>))
            /\ Agrees(replace(mem, pos, count, t), Std!Splice(s, pos, count, t))

\* The calls at iterators.  std::string inserts at end() and where a range to
\* replace is empty; a fixed string ignores both without an error.
IteratorsLikeStd ==
    LET s == View(mem)
        n == Size(mem)
    IN  /\ \A t \in Texts : insert_at(mem, n, t) = mem
        /\ \A first \in 0..(n - 1), t \in Texts :
              Agrees(insert_at(mem, first, t), Std!Splice(s, first, 0, t))
        /\ \A first \in 0..n, t \in Texts : replace_at(mem, first, first, t) = mem
        /\ \A first, last \in 0..n : first < last =>
              \A t \in Texts : Agrees(replace_at(mem, first, last, t), Std!Splice(s, first, last - first, t))
        /\ \A first, last \in 0..n : first =< last =>
              Agrees(erase_at(mem, first, last), Std!Splice(s, first, last - first, << >>))

\* A position beyond the end, or a size beyond the capacity, changes nothing.
RefusedWhole ==
    \A pos, count \in Places, t \in Texts :
        /\ pos > Size(mem) => /\ insert(mem, pos, t) = mem
                               /\ erase(mem, pos, count) = mem
                               /\ replace(mem, pos, count, t) = mem
        /\ pos > Len(t) => assign_part(mem, t, pos, count) = mem
        /\ count > N => \A ch \in Chars : resize(mem, count, ch) = mem

\* In any state that earlier edits left in the buffer, a call that edits a
\* string leaves what the same call leaves in a std::string, and what does not
\* fit or begins beyond the end is refused as a whole.  The calls that the code
\* makes differ are part of it, with what they do: std::strings are cut at NUL,
\* insertions at end() and replacements of empty ranges of iterators are
\* ignored.  AssignBeyond, undefined for lack of a check, is not part of it.
EditsLikeStd ==
    TextsLikeStd /\ EndsLikeStd /\ PlacesLikeStd /\ IteratorsLikeStd /\ RefusedWhole

\* Each search returns the position that std::string defines, from every
\* start, the ones after the end and npos included.
SearchesLikeStd ==
    LET s == View(mem)
        From(S, pos) == Std!FirstOf({u \in S : u >= pos}, npos)
        UpTo(S, pos) == Std!LastOf({u \in S : u =< pos}, npos)
    IN  \A t \in Texts, pos \in 0..npos :
            /\ find(mem, t, pos) = From(Std!Occurrences(s, t), pos)
            /\ rfind(mem, t, pos) = UpTo(Std!Occurrences(s, t), pos)
            /\ find_first_of(mem, t, pos) = From(Std!Members(s, t), pos)
            /\ find_first_not_of(mem, t, pos) = From(Std!Others(s, t), pos)
            /\ find_last_of(mem, t, pos) = UpTo(Std!Members(s, t), pos)
            /\ find_last_not_of(mem, t, pos) = UpTo(Std!Others(s, t), pos)

\* The table of comms is a std::map whose keys are fixed strings: compare must
\* be the lexicographic order, and equality that of the texts, whatever is in
\* the buffer after the end.
ComparesLikeStd ==
    LET s == View(mem)
    IN  \A t \in Texts : /\ less(mem, t) = Std!Precedes(s, t)
                         /\ greater(mem, t) = Std!Precedes(t, s)
                         /\ equals(mem, t) = (s = t)

\* An id that comes in a message as a std::string is found again: what is
\* assigned from it equals it, and converts back to it.
IdsRoundTrip ==
    \A t \in Texts :
        LET id == CStr(t)
            m  == assign(mem, id)
        IN  Room(Len(id)) => ToString(m) = id /\ equals(m, id)
===========================================================================
