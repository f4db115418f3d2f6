----------------------- MODULE FixedStringReads_proofs -----------------------
(***************************************************************************)
(* Proofs that the calls of FixedString that only read, the comparisons,   *)
(* the conversions and the searches, tell of a string what std::string     *)
(* would.  Their loops are recursive functions: each is shown to exist and *)
(* to be the only one that satisfies its equation.                         *)
(***************************************************************************)
EXTENDS FixedStringText_proofs

----------------------------------------------------------------------------
(* Extremes of sets of numbers. *)

LEMMA GreatestExists ==
    ASSUME NEW S, NEW n \in Nat, S \subseteq 0..n, S # {}
    PROVE  \E i \in S : \A j \in S : j =< i
<1> DEFINE T == {n - i : i \in S}
<1>a. \A i \in S : n - i \in Nat
  OBVIOUS
<1>1. T \subseteq Nat /\ T # {}
  BY <1>a
<1>2. PICK k \in T : \A l \in T : k =< l
  BY <1>1, LeastExists
<1>3. PICK i \in S : k = n - i
  OBVIOUS
<1>4. ASSUME NEW j \in S PROVE j =< i
  <2>1. n - j \in T
    OBVIOUS
  <2>2. n - i =< n - j
    BY <1>2, <1>3, <2>1
  <2> QED BY <2>2
<1> QED BY <1>4

\* The first member of H from u on, the last one up to u.
FirstIn(H, u) == CHOOSE j \in H : u =< j /\ \A k \in H : u =< k => j =< k
LastIn(H, u) == CHOOSE j \in H : j =< u /\ \A k \in H : k =< u => k =< j

LEMMA FirstInFacts ==
    ASSUME NEW H \in SUBSET Nat, NEW u \in Nat, \E j \in H : u =< j
    PROVE  FirstIn(H, u) \in H /\ u =< FirstIn(H, u) /\ \A k \in H : u =< k => FirstIn(H, u) =< k
<1> DEFINE S == {j \in H : u =< j}
<1>1. PICK i \in S : \A j \in S : i =< j
  <2>1. S \subseteq Nat /\ S # {}
    OBVIOUS
  <2> QED BY <2>1, LeastExists
<1>2. i \in H /\ u =< i /\ \A k \in H : u =< k => i =< k
  BY <1>1
<1> QED BY <1>2 DEF FirstIn

LEMMA LastInFacts ==
    ASSUME NEW H \in SUBSET Nat, NEW u \in Nat, \E j \in H : j =< u
    PROVE  LastIn(H, u) \in H /\ LastIn(H, u) =< u /\ \A k \in H : k =< u => k =< LastIn(H, u)
<1> DEFINE S == {j \in H : j =< u}
<1>1. PICK i \in S : \A j \in S : j =< i
  <2>a. ASSUME NEW j \in H, j =< u PROVE j \in 0..u
    BY <2>a
  <2>1. S \subseteq 0..u /\ S # {}
    BY <2>a
  <2> QED BY <2>1, GreatestExists
<1>2. i \in H /\ i =< u /\ \A k \in H : k =< u => k =< i
  BY <1>1
<1> QED BY <1>2 DEF LastIn

----------------------------------------------------------------------------
(* Loops. *)

\* A loop up from first: what it returns from u on is V[u] at a hit, and c
\* when it reaches last.
Up(first, last, H, c, V, f) ==
    [u \in first..last |-> IF u = last THEN c ELSE IF u \in H THEN V[u] ELSE f[u + 1]]

UpResult(u, H, c, V) == IF \E j \in H : u =< j THEN V[FirstIn(H, u)] ELSE c

LEMMA UpExists ==
    ASSUME NEW first \in Nat, NEW last \in Nat, NEW H \in SUBSET (first..(last - 1)), NEW c, NEW V
    PROVE  \E f : f = Up(first, last, H, c, V, f)
<1> DEFINE g == [u \in first..last |-> UpResult(u, H, c, V)]
<1>1. H \in SUBSET Nat
  OBVIOUS
<1>2. ASSUME NEW u \in first..last
      PROVE  UpResult(u, H, c, V) = IF u = last THEN c ELSE IF u \in H THEN V[u] ELSE g[u + 1]
  <2>1. u \in Nat /\ u + 1 \in Nat
    OBVIOUS
  <2>2. CASE u = last
    <3>1. ~\E j \in H : u =< j
      BY <2>2
    <3> QED BY <2>2, <3>1 DEF UpResult
  <2>3. CASE u # last /\ u \in H
    <3>1. FirstIn(H, u) = u
      <4>1. FirstIn(H, u) \in Nat /\ u =< FirstIn(H, u) /\ FirstIn(H, u) =< u
        <5>1. u =< u /\ \E j \in H : u =< j
          BY <2>1, <2>3
        <5>2. FirstIn(H, u) \in H /\ u =< FirstIn(H, u) /\ \A k \in H : u =< k => FirstIn(H, u) =< k
          BY <1>1, <2>1, <5>1, FirstInFacts
        <5> QED BY <1>1, <2>3, <5>1, <5>2
      <4> QED BY <2>1, <4>1
    <3>2. \E j \in H : u =< j
      BY <2>1, <2>3
    <3> QED BY <2>3, <3>1, <3>2 DEF UpResult
  <2>4. CASE u # last /\ u \notin H
    <3>1. u + 1 \in first..last
      BY <2>4
    <3>2. g[u + 1] = UpResult(u + 1, H, c, V)
      BY <3>1
    <3>3. \A j \in H : u =< j <=> u + 1 =< j
      BY <1>1, <2>1, <2>4
    <3>4. CASE \E j \in H : u =< j
      <4>1. \E j \in H : u + 1 =< j
        BY <3>3, <3>4
      <4>2. /\ FirstIn(H, u) \in H /\ u =< FirstIn(H, u) /\ \A k \in H : u =< k => FirstIn(H, u) =< k
            /\ FirstIn(H, u + 1) \in H /\ u + 1 =< FirstIn(H, u + 1)
            /\ \A k \in H : u + 1 =< k => FirstIn(H, u + 1) =< k
        BY <1>1, <2>1, <3>4, <4>1, FirstInFacts
      <4>3. FirstIn(H, u) =< FirstIn(H, u + 1) /\ FirstIn(H, u + 1) =< FirstIn(H, u)
        BY <3>3, <4>2
      <4>4. FirstIn(H, u) \in Nat /\ FirstIn(H, u + 1) \in Nat
        BY <1>1, <4>2
      <4>5. FirstIn(H, u) = FirstIn(H, u + 1)
        BY <4>3, <4>4
      <4> HIDE DEF g
      <4> QED BY <2>4, <3>2, <3>4, <4>1, <4>5 DEF UpResult
    <3>5. CASE ~\E j \in H : u =< j
      <4>1. ~\E j \in H : u + 1 =< j
        BY <3>3, <3>5
      <4> HIDE DEF g
      <4> QED BY <2>4, <3>2, <3>5, <4>1 DEF UpResult
    <3> QED BY <3>4, <3>5
  <2> QED BY <2>2, <2>3, <2>4
<1>3. g = Up(first, last, H, c, V, g)
  BY <1>2 DEF Up
<1> QED BY <1>3

LEMMA UpUnique ==
    ASSUME NEW first \in Nat, NEW last \in Nat, first =< last, NEW H \in SUBSET (first..(last - 1)),
           NEW c, NEW V, NEW f, f = Up(first, last, H, c, V, f)
    PROVE  f[first] = UpResult(first, H, c, V)
<1>1. H \in SUBSET Nat
  OBVIOUS
<1>2. ASSUME NEW u \in first..last
      PROVE  f[u] = IF u = last THEN c ELSE IF u \in H THEN V[u] ELSE f[u + 1]
  BY DEF Up
\* Up to its first stop the loop only passes on.
<1>3. ASSUME NEW stop \in first..last, \A u \in H : stop =< u PROVE f[stop] = f[first]
  <2> DEFINE Bad == {u \in first..stop : f[u] # f[first]}
  <2> SUFFICES ASSUME Bad # {} PROVE FALSE
    OBVIOUS
  <2>1. Bad \subseteq Nat
    OBVIOUS
  <2>2. PICK u \in Bad : \A v \in Bad : u =< v
    BY <2>1, LeastExists
  <2>3. u \in Nat /\ u # first /\ first =< u /\ u =< stop /\ stop =< last
    BY <2>1
  <2>4. u - 1 \in first..last /\ u - 1 # last /\ u - 1 \in first..stop /\ u - 1 \notin H /\ (u - 1) + 1 = u
    BY <1>1, <1>3, <2>3
  <2>5. u - 1 \notin Bad
    BY <2>2, <2>3
  <2>6. f[u - 1] = f[(u - 1) + 1]
    BY <1>2, <2>4
  <2> QED BY <2>4, <2>5, <2>6
<1>4. CASE \E j \in H : first =< j
  <2> DEFINE j == FirstIn(H, first)
  <2>1. j \in H /\ first =< j /\ \A k \in H : first =< k => j =< k
    BY <1>1, <1>4, FirstInFacts
  <2> HIDE DEF j
  <2>2. j \in first..last /\ j # last /\ \A k \in H : j =< k
    BY <2>1
  <2>3. f[j] = f[first] /\ f[j] = V[j]
    BY <1>2, <1>3, <2>1, <2>2
  <2> QED BY <1>4, <2>3 DEF UpResult, j
<1>5. CASE ~\E j \in H : first =< j
  <2>1. H = {}
    BY <1>5
  <2>2. f[last] = f[first] /\ f[last] = c
    BY <1>2, <1>3, <2>1
  <2> QED BY <1>5, <2>2 DEF UpResult
<1> QED BY <1>4, <1>5

\* A loop down from first to 0.
Down(first, H, c, f) ==
    [u \in 0..first |-> IF u \in H THEN u ELSE IF u = 0 THEN c ELSE f[u - 1]]

DownResult(u, H, c) == IF \E j \in H : j =< u THEN LastIn(H, u) ELSE c

\* What a loop that goes down returns from u on.
LEMMA DownEquation ==
    ASSUME NEW u \in Nat, NEW H \in SUBSET Nat, NEW c
    PROVE  /\ u \in H => DownResult(u, H, c) = u
           /\ u \notin H /\ u = 0 => DownResult(u, H, c) = c
           /\ u \notin H /\ u # 0 => DownResult(u, H, c) = DownResult(u - 1, H, c)
<1>1. CASE u \in H
  <2>1. u =< u /\ \E j \in H : j =< u
    BY <1>1
  <2>2. LastIn(H, u) \in H /\ LastIn(H, u) =< u /\ \A k \in H : k =< u => k =< LastIn(H, u)
    BY <2>1, LastInFacts
  <2>3. LastIn(H, u) \in Nat /\ u =< LastIn(H, u)
    BY <1>1, <2>1, <2>2
  <2>4. LastIn(H, u) = u
    BY <2>2, <2>3
  <2> QED BY <1>1, <2>1, <2>4 DEF DownResult
<1>2. CASE u \notin H /\ u = 0
  <2>1. ~\E j \in H : j =< u
    BY <1>2
  <2> QED BY <1>2, <2>1 DEF DownResult
<1>3. CASE u \notin H /\ u # 0
  <2>1. u - 1 \in Nat
    BY <1>3
  <2>2. \A j \in H : j =< u <=> j =< u - 1
    BY <1>3
  <2>3. CASE \E j \in H : j =< u
    <3>1. \E j \in H : j =< u - 1
      BY <2>2, <2>3
    <3>2. /\ LastIn(H, u) \in H /\ LastIn(H, u) =< u /\ \A k \in H : k =< u => k =< LastIn(H, u)
          /\ LastIn(H, u - 1) \in H /\ LastIn(H, u - 1) =< u - 1
          /\ \A k \in H : k =< u - 1 => k =< LastIn(H, u - 1)
      BY <2>1, <2>3, <3>1, LastInFacts
    <3>3. LastIn(H, u - 1) =< LastIn(H, u) /\ LastIn(H, u) =< LastIn(H, u - 1)
      BY <2>2, <3>2
    <3>4. LastIn(H, u) \in Nat /\ LastIn(H, u - 1) \in Nat
      BY <3>2
    <3>5. LastIn(H, u) = LastIn(H, u - 1)
      BY <3>3, <3>4
    <3> QED BY <1>3, <2>3, <3>1, <3>5 DEF DownResult
  <2>4. CASE ~\E j \in H : j =< u
    <3>1. ~\E j \in H : j =< u - 1
      BY <2>2, <2>4
    <3> QED BY <1>3, <2>4, <3>1 DEF DownResult
  <2> QED BY <2>3, <2>4
<1> QED BY <1>1, <1>2, <1>3

LEMMA DownExists ==
    ASSUME NEW first \in Nat, NEW H \in SUBSET Nat, NEW c
    PROVE  \E f : f = Down(first, H, c, f)
<1> DEFINE g == [u \in 0..first |-> DownResult(u, H, c)]
<1>1. ASSUME NEW u \in 0..first
      PROVE  DownResult(u, H, c) = IF u \in H THEN u ELSE IF u = 0 THEN c ELSE g[u - 1]
  <2>1. /\ u \in H => DownResult(u, H, c) = u
        /\ u \notin H /\ u = 0 => DownResult(u, H, c) = c
        /\ u \notin H /\ u # 0 => DownResult(u, H, c) = DownResult(u - 1, H, c)
    <3>1. u \in Nat
      OBVIOUS
    <3> QED BY <3>1, DownEquation
  <2>2. CASE u = 0
    BY <2>1, <2>2
  <2>3. CASE u # 0
    <3>1. u - 1 \in 0..first
      BY <2>3
    <3> QED BY <2>1, <3>1
  <2> QED BY <2>2, <2>3
<1>2. g = Down(first, H, c, g)
  BY <1>1 DEF Down
<1> QED BY <1>2

LEMMA DownUnique ==
    ASSUME NEW first \in Nat, NEW H \in SUBSET Nat, NEW c, NEW f, f = Down(first, H, c, f)
    PROVE  f[first] = DownResult(first, H, c)
<1>1. ASSUME NEW u \in 0..first
      PROVE  f[u] = IF u \in H THEN u ELSE IF u = 0 THEN c ELSE f[u - 1]
  BY DEF Down
<1> DEFINE Bad == {u \in 0..first : f[u] # DownResult(u, H, c)}
<1>2. ASSUME Bad # {} PROVE FALSE
  <2>1. Bad \subseteq Nat
    OBVIOUS
  <2>2. PICK u \in Bad : \A v \in Bad : u =< v
    BY <1>2, <2>1, LeastExists
  <2>3. u \in 0..first /\ u \in Nat /\ f[u] # DownResult(u, H, c)
    OBVIOUS
  <2>4. /\ u \in H => DownResult(u, H, c) = u
        /\ u \notin H /\ u = 0 => DownResult(u, H, c) = c
        /\ u \notin H /\ u # 0 => DownResult(u, H, c) = DownResult(u - 1, H, c)
    BY <2>3, DownEquation
  <2>5. u # 0
    BY <1>1, <2>3, <2>4
  <2>6. u - 1 \in 0..first /\ ~(u =< u - 1)
    BY <2>3, <2>5
  <2>7. f[u - 1] = DownResult(u - 1, H, c)
    BY <2>2, <2>6
  <2> QED BY <1>1, <2>3, <2>4, <2>7
<1> QED BY <1>2

----------------------------------------------------------------------------
(* Comparisons. *)

\* s and t agree before i and differ there.
DifferAt(s, t, i) ==
    /\ i \in 1..Len(s) /\ i \in 1..Len(t)
    /\ \A j \in 1..(i - 1) : s[j] = t[j]
    /\ s[i] # t[i]

\* One is a prefix of the other.
Overlap(s, t) == \A j \in 1..Len(s) : j \in 1..Len(t) => s[j] = t[j]

\* compare returns the difference of the first characters that differ, and
\* that of the lengths when none do.
LEMMA CompareResult ==
    ASSUME NEW s \in Seq(Cells), NEW t \in Seq(Cells)
    PROVE  \/ Overlap(s, t) /\ compare(s, t) = Len(s) - Len(t)
           \/ \E i \in Nat : DifferAt(s, t, i) /\ compare(s, t) = s[i] - t[i]
<1> DEFINE r == Min(Len(s), Len(t))
           c == Len(s) - Len(t)
           H == {i \in 1..r : s[i] # t[i]}
           V == [i \in 1..r |-> s[i] - t[i]]
           Body(f) == [i \in 1..(r + 1) |-> IF i > r THEN c
                                           ELSE IF s[i] = t[i] THEN f[i + 1] ELSE s[i] - t[i]]
           from == CHOOSE f : f = Body(f)
<1>1. Len(s) \in Nat /\ Len(t) \in Nat /\ r \in Nat /\ r =< Len(s) /\ r =< Len(t) /\ (r = Len(s) \/ r = Len(t))
  BY DEF Min
<1>2. compare(s, t) = from[1]
  BY DEF compare
<1> HIDE DEF r, c
<1>3. ASSUME NEW f PROVE Body(f) = Up(1, r + 1, H, c, V, f)
  <2>1. ASSUME NEW i \in 1..(r + 1)
        PROVE  (IF i > r THEN c ELSE IF s[i] = t[i] THEN f[i + 1] ELSE s[i] - t[i])
                 = (IF i = r + 1 THEN c ELSE IF i \in H THEN V[i] ELSE f[i + 1])
    BY <1>1
  <2> QED BY <2>1 DEF Up
<1>4. H \in SUBSET (1..((r + 1) - 1)) /\ 1 \in Nat /\ r + 1 \in Nat /\ 1 =< r + 1 /\ H \in SUBSET Nat
  BY <1>1
<1> HIDE DEF H, V
<1>5. \E f : f = Body(f)
  <2>1. PICK f : f = Up(1, r + 1, H, c, V, f)
    BY <1>4, UpExists
  <2> QED BY <1>3, <2>1
<1>6. from = Body(from)
  <2> HIDE DEF Body
  <2> QED BY <1>5
<1>7. from = Up(1, r + 1, H, c, V, from)
  BY <1>3, <1>6
<1> HIDE DEF from
<1>8. from[1] = UpResult(1, H, c, V)
  <2> DEFINE last == r + 1
  <2>1. 1 \in Nat /\ last \in Nat /\ 1 =< last /\ H \in SUBSET (1..(last - 1)) /\ from = Up(1, last, H, c, V, from)
    BY <1>4, <1>7
  <2> HIDE DEF last
  <2> QED BY <2>1, UpUnique
<1>9. CASE \E j \in H : 1 =< j
  <2> DEFINE i == FirstIn(H, 1)
  <2>1. i \in H /\ \A k \in H : 1 =< k => i =< k
    BY <1>4, <1>9, FirstInFacts
  <2>2. from[1] = V[i]
    BY <1>8, <1>9 DEF UpResult
  <2> HIDE DEF i
  <2>3. i \in 1..r /\ s[i] # t[i] /\ V[i] = s[i] - t[i] /\ i \in Nat
    BY <1>1, <2>1 DEF H, V
  <2>4. ASSUME NEW j \in 1..(i - 1) PROVE s[j] = t[j]
    <3>1. j \in 1..r /\ 1 =< j /\ ~(i =< j)
      BY <1>1, <2>3
    <3>2. j \notin H
      BY <2>1, <3>1
    <3> QED BY <3>1, <3>2 DEF H
  <2>5. i \in 1..Len(s) /\ i \in 1..Len(t)
    BY <1>1, <2>3
  <2>6. DifferAt(s, t, i)
    BY <2>3, <2>4, <2>5 DEF DifferAt
  <2> QED BY <1>2, <2>2, <2>3, <2>6
<1>10. CASE ~\E j \in H : 1 =< j
  <2>1. \A j \in 1..r : s[j] = t[j]
    BY <1>1, <1>10 DEF H
  <2>2. \A j \in 1..Len(s) : j \in 1..Len(t) => j \in 1..r
    BY <1>1
  <2>3. Overlap(s, t)
    BY <2>1, <2>2 DEF Overlap
  <2>4. from[1] = c
    BY <1>8, <1>10 DEF UpResult
  <2> QED BY <1>2, <2>3, <2>4 DEF c
<1> QED BY <1>9, <1>10

\* The lexicographic order, in the two cases of CompareResult.
LEMMA PrefixOrder ==
    ASSUME NEW s \in Seq(Cells), NEW t \in Seq(Cells), Overlap(s, t)
    PROVE  /\ Std!Precedes(s, t) <=> Len(s) < Len(t)
           /\ s = t <=> Len(s) = Len(t)
<1>1. Len(s) \in Nat /\ Len(t) \in Nat
  OBVIOUS
<1>2. ASSUME Len(s) < Len(t) PROVE s = SubSeq(t, 1, Len(s))
  <2>1. \A j \in 1..Len(s) : s[j] = t[j]
    BY <1>1, <1>2 DEF Overlap
  <2>2. /\ SubSeq(t, 1, Len(s)) \in Seq(Cells) /\ Len(SubSeq(t, 1, Len(s))) = Len(s)
        /\ \A j \in 1..Len(s) : SubSeq(t, 1, Len(s))[j] = t[j]
    BY <1>1, <1>2
  <2> QED BY <2>1, <2>2
<1>3. ASSUME NEW i \in 1..Len(s), i =< Len(t) PROVE ~(s[i] < t[i])
  <2>1. i \in 1..Len(t)
    BY <1>1, <1>3
  <2>2. s[i] = t[i] /\ s[i] \in Cells
    BY <2>1 DEF Overlap
  <2> QED BY <2>2, CharsAssumption DEF Cells
<1>4. ASSUME Len(s) = Len(t) PROVE s = t
  <2>1. \A j \in 1..Len(s) : s[j] = t[j]
    BY <1>4 DEF Overlap
  <2> QED BY <1>4, <2>1
<1> QED BY <1>2, <1>3, <1>4 DEF Std!Precedes

LEMMA DifferOrder ==
    ASSUME NEW s \in Seq(Cells), NEW t \in Seq(Cells), NEW i \in Nat, DifferAt(s, t, i)
    PROVE  /\ Std!Precedes(s, t) <=> s[i] < t[i]
           /\ s # t
<1>1. Len(s) \in Nat /\ Len(t) \in Nat /\ i \in 1..Len(s) /\ i \in 1..Len(t) /\ s[i] # t[i]
  BY DEF DifferAt
<1>2. ASSUME Len(s) < Len(t), s = SubSeq(t, 1, Len(s)) PROVE FALSE
  <2>1. SubSeq(t, 1, Len(s))[i] = t[i]
    BY <1>1, <1>2
  <2> QED BY <1>1, <1>2, <2>1
<1>3. ASSUME NEW k \in 1..Len(s), k =< Len(t), SubSeq(s, 1, k - 1) = SubSeq(t, 1, k - 1), s[k] < t[k]
      PROVE  s[i] < t[i]
  <2>0. k \in 1..Len(t) /\ s[k] \in Cells /\ t[k] \in Cells
    BY <1>1, <1>3
  <2>1. CASE k < i
    <3>1. k \in 1..(i - 1)
      BY <2>1
    <3>2. s[k] = t[k]
      BY <3>1 DEF DifferAt
    <3> QED BY <1>3, <2>0, <3>2, CharsAssumption DEF Cells
  <2>2. CASE k > i
    <3>1. i \in 1..(k - 1)
      BY <1>1, <2>2
    <3>2. SubSeq(s, 1, k - 1)[i] = s[i] /\ SubSeq(t, 1, k - 1)[i] = t[i]
      BY <1>1, <2>0, <3>1
    <3> QED BY <1>1, <1>3, <3>2
  <2>3. CASE k = i
    BY <1>3, <2>3
  <2> QED BY <1>1, <2>1, <2>2, <2>3
<1>4. ASSUME s[i] < t[i] PROVE Std!Precedes(s, t)
  <2>1. i \in 1..Len(s) /\ i =< Len(t) /\ i - 1 \in Nat /\ i - 1 =< Len(s) /\ i - 1 =< Len(t)
    BY <1>1
  <2>2. /\ SubSeq(s, 1, i - 1) \in Seq(Cells) /\ Len(SubSeq(s, 1, i - 1)) = i - 1
        /\ \A j \in 1..(i - 1) : SubSeq(s, 1, i - 1)[j] = s[j]
    BY <1>1, <2>1
  <2>3. /\ SubSeq(t, 1, i - 1) \in Seq(Cells) /\ Len(SubSeq(t, 1, i - 1)) = i - 1
        /\ \A j \in 1..(i - 1) : SubSeq(t, 1, i - 1)[j] = t[j]
    BY <1>1, <2>1
  <2>4. \A j \in 1..(i - 1) : s[j] = t[j]
    BY DEF DifferAt
  <2>5. SubSeq(s, 1, i - 1) = SubSeq(t, 1, i - 1)
    BY <2>2, <2>3, <2>4
  <2> QED BY <1>4, <2>1, <2>5 DEF Std!Precedes
<1>5. s # t
  BY <1>1
<1> QED BY <1>2, <1>3, <1>4, <1>5 DEF Std!Precedes

LEMMA CompareIsOrder ==
    ASSUME NEW s \in Seq(Cells), NEW t \in Seq(Cells)
    PROVE  /\ compare(s, t) < 0 <=> Std!Precedes(s, t)
           /\ compare(s, t) > 0 <=> Std!Precedes(t, s)
           /\ compare(s, t) = 0 <=> s = t
<1>1. CASE Overlap(s, t) /\ compare(s, t) = Len(s) - Len(t)
  <2>1. Overlap(t, s)
    BY <1>1 DEF Overlap
  <2>2. /\ Std!Precedes(s, t) <=> Len(s) < Len(t)
        /\ Std!Precedes(t, s) <=> Len(t) < Len(s)
        /\ s = t <=> Len(s) = Len(t)
    BY <1>1, <2>1, PrefixOrder
  <2>3. Len(s) \in Nat /\ Len(t) \in Nat
    OBVIOUS
  <2> QED BY <1>1, <2>2, <2>3
<1>2. ASSUME NEW i \in Nat, DifferAt(s, t, i), compare(s, t) = s[i] - t[i]
      PROVE  /\ compare(s, t) < 0 <=> Std!Precedes(s, t)
             /\ compare(s, t) > 0 <=> Std!Precedes(t, s)
             /\ compare(s, t) = 0 <=> s = t
  <2>1. DifferAt(t, s, i)
    BY <1>2 DEF DifferAt
  <2>2. /\ Std!Precedes(s, t) <=> s[i] < t[i]
        /\ Std!Precedes(t, s) <=> t[i] < s[i]
        /\ s # t
    BY <1>2, <2>1, DifferOrder
  <2>3. i \in 1..Len(s) /\ i \in 1..Len(t) /\ s[i] # t[i]
    BY <1>2 DEF DifferAt
  <2>4. s[i] \in Cells /\ t[i] \in Cells
    BY <2>3
  <2>5. s[i] \in Int /\ t[i] \in Int
    BY <2>4, CharsAssumption DEF Cells
  <2> QED BY <1>2, <2>2, <2>3, <2>5
<1> QED BY <1>1, <1>2, CompareResult

LEMMA ComparesCorrect ==
    ASSUME Keeps, Inv
    PROVE  ComparesLikeStd
<1>1. View(mem) \in Seq(Cells)
  BY ViewText DEF Inv
<1>2. SUFFICES ASSUME NEW t \in Texts
               PROVE  /\ less(mem, t) = Std!Precedes(View(mem), t)
                      /\ greater(mem, t) = Std!Precedes(t, View(mem))
                      /\ equals(mem, t) = (View(mem) = t)
  BY DEF ComparesLikeStd
<1>3. t \in Seq(Cells)
  BY TextsAreTexts
<1>4. /\ compare(View(mem), t) < 0 <=> Std!Precedes(View(mem), t)
      /\ compare(View(mem), t) > 0 <=> Std!Precedes(t, View(mem))
      /\ compare(View(mem), t) = 0 <=> View(mem) = t
  BY <1>1, <1>3, CompareIsOrder
<1>5. /\ Std!Precedes(View(mem), t) \in BOOLEAN
      /\ Std!Precedes(t, View(mem)) \in BOOLEAN
  BY DEF Std!Precedes
<1>6. /\ less(mem, t) <=> Std!Precedes(View(mem), t)
      /\ greater(mem, t) <=> Std!Precedes(t, View(mem))
      /\ equals(mem, t) <=> View(mem) = t
  BY <1>4 DEF less, greater, equals
<1>7. /\ less(mem, t) \in BOOLEAN /\ greater(mem, t) \in BOOLEAN /\ equals(mem, t) \in BOOLEAN
  BY DEF less, greater, equals
<1> QED BY <1>5, <1>6, <1>7

\* The order of strings, and with it their equality, is that of std::string,
\* whatever is in the buffer after the end of the text.
THEOREM ComparesAreStd == ASSUME NotFilled PROVE Spec => []ComparesLikeStd
<1>1. Init => Inv
  BY InitString
<1>2. Inv /\ [Next]_vars => Inv'
  BY NextString
<1>3. Inv => ComparesLikeStd
  BY KeepsHolds, ComparesCorrect
<1> QED BY <1>1, <1>2, <1>3, PTL DEF Spec

----------------------------------------------------------------------------
(* Ids. *)

\* Reading up to the first NUL finds a text without NUL that one follows.
LEMMA CStrFinds ==
    ASSUME NEW w \in Seq(Cells), NEW t \in Seq(Cells), Len(t) < Len(w), w[Len(t) + 1] = NUL,
           \A i \in 1..Len(t) : w[i] = t[i] /\ t[i] # NUL
    PROVE  CStr(w) = t
<1> DEFINE IsFirst(i) == w[i] = NUL /\ \A j \in 1..(i - 1) : w[j] # NUL
           c == CHOOSE i \in 1..Len(w) : IsFirst(i)
           n == Len(t) + 1
<1>1. Len(t) \in Nat /\ Len(w) \in Nat /\ n \in 1..Len(w) /\ w[n] = NUL /\ n - 1 = Len(t)
  OBVIOUS
<1>2. IsFirst(n)
  BY <1>1
<1>3. c \in 1..Len(w) /\ IsFirst(c)
  BY <1>1, <1>2
<1> HIDE DEF c
<1>4. ~(c < n)
  <2>1. c < n => c \in 1..Len(t)
    BY <1>1, <1>3
  <2> QED BY <1>3, <2>1
<1>5. ~(n < c)
  <2>1. n < c => n \in 1..(c - 1)
    BY <1>1, <1>3
  <2> QED BY <1>1, <1>3, <2>1
<1>6. c = n
  BY <1>1, <1>3, <1>4, <1>5
<1>7. CStr(w) = SubSeq(w, 1, c - 1)
  BY <1>1 DEF CStr, c
<1>8. CStr(w) = SubSeq(w, 1, Len(t))
  BY <1>1, <1>6, <1>7
<1>9. /\ SubSeq(w, 1, Len(t)) \in Seq(Cells) /\ Len(SubSeq(w, 1, Len(t))) = Len(t)
      /\ \A i \in 1..Len(t) : SubSeq(w, 1, Len(t))[i] = w[i]
  BY <1>1
<1> QED BY <1>8, <1>9

\* What c_str() tells of a text has no NUL.
LEMMA CStrClean ==
    ASSUME NEW t \in Seq(Cells)
    PROVE  \A i \in 1..Len(CStr(t)) : CStr(t)[i] # NUL
<1> DEFINE H == {i \in 1..Len(t) : t[i] = NUL}
           IsFirst(i) == t[i] = NUL /\ \A j \in 1..(i - 1) : t[j] # NUL
           c == CHOOSE i \in 1..Len(t) : IsFirst(i)
<1>1. CASE H = {}
  <2>1. CStr(t) = t
    BY <1>1 DEF CStr
  <2> QED BY <1>1, <2>1
<1>2. CASE H # {}
  <2>1. H \subseteq Nat
    OBVIOUS
  <2>2. PICK f \in H : \A j \in H : f =< j
    BY <1>2, <2>1, LeastExists
  <2>3. f \in 1..Len(t) /\ IsFirst(f)
    <3>1. \A j \in 1..(f - 1) : j \in 1..Len(t) /\ ~(f =< j)
      BY <2>1
    <3> QED BY <2>2, <3>1
  <2>4. c \in 1..Len(t) /\ IsFirst(c)
    BY <2>3
  <2>5. CStr(t) = SubSeq(t, 1, c - 1)
    BY <1>2 DEF CStr
  <2> HIDE DEF c
  <2>6. c - 1 \in Nat /\ c - 1 =< Len(t)
    BY <2>4
  <2>7. /\ Len(SubSeq(t, 1, c - 1)) = c - 1
        /\ \A i \in 1..(c - 1) : SubSeq(t, 1, c - 1)[i] = t[i]
    BY <2>6
  <2> QED BY <2>4, <2>5, <2>7
<1> QED BY <1>1, <1>2

\* The conversion to std::string returns the text of a string without NUL.
LEMMA ToStringShown ==
    ASSUME Keeps, storage \in Storages, NEW m, NEW t, Shows(m, t), \A i \in 1..Len(t) : t[i] # NUL
    PROVE  ToString(m) = t
<1> DEFINE w == [i \in 1..(N + 1) |-> m.buf[i - 1]]
<1>1. m \in Memory /\ t \in Seq(Cells) /\ Len(t) \in Nat /\ Len(t) \in 0..N /\ N \in Nat
  BY ShownFacts
<1>2. m.buf[Len(t)] = NUL /\ \A j \in 0..(Len(t) - 1) : m.buf[j] = t[j + 1]
  BY DEF Shows, Sealed
<1>3. w \in Seq(Cells) /\ Len(w) = N + 1
  <2>1. ASSUME NEW i \in 1..(N + 1) PROVE m.buf[i - 1] \in Cells
    <3>1. m.buf \in [0..N -> Cells]
      BY <1>1 DEF Memory
    <3>2. i - 1 \in 0..N
      BY <1>1
    <3> QED BY <3>1, <3>2
  <2>2. w \in [1..(N + 1) -> Cells]
    BY <2>1
  <2>3. N + 1 \in Nat
    BY <1>1
  <2> HIDE DEF w
  <2> QED BY <2>2, <2>3
<1>4. \A i \in 1..(N + 1) : w[i] = m.buf[i - 1]
  OBVIOUS
<1> HIDE DEF w
<1>5. Len(t) < Len(w) /\ w[Len(t) + 1] = NUL
  <2>1. Len(t) + 1 \in 1..(N + 1) /\ (Len(t) + 1) - 1 = Len(t)
    BY <1>1
  <2> QED BY <1>1, <1>2, <1>3, <1>4, <2>1
<1>6. ASSUME NEW i \in 1..Len(t) PROVE w[i] = t[i]
  <2>1. i \in 1..(N + 1) /\ i - 1 \in 0..(Len(t) - 1) /\ (i - 1) + 1 = i
    BY <1>1
  <2> QED BY <1>2, <1>4, <2>1
<1>7. CStr(w) = t
  BY <1>1, <1>3, <1>5, <1>6, CStrFinds
<1> QED BY <1>7 DEF ToString, w

LEMMA IdsCorrect ==
    ASSUME Keeps, Inv
    PROVE  IdsRoundTrip
<1> SUFFICES ASSUME NEW t \in Texts, Room(Len(CStr(t)))
             PROVE  ToString(assign(mem, CStr(t))) = CStr(t) /\ equals(assign(mem, CStr(t)), CStr(t))
  BY DEF IdsRoundTrip
<1> DEFINE id == CStr(t)
           m == assign(mem, id)
<1>1. id \in Seq(Cells) /\ \A i \in 1..Len(id) : id[i] # NUL
  BY TextsAreTexts, CStrText, CStrClean
<1>2. Len(id) =< N /\ Allowed(Len(id))
  BY DEF Room, Allowed
<1> HIDE DEF id
<1>3. Shows(m, id) /\ storage \in Storages
  BY <1>1, <1>2, AssignShows DEF Inv
<1> HIDE DEF m
<1>4. ToString(m) = id
  BY <1>1, <1>3, ToStringShown
<1>5. View(m) = id
  BY <1>3, ShownFacts
<1>6. compare(id, id) = 0
  BY <1>1, CompareIsOrder
<1>7. equals(m, id)
  BY <1>5, <1>6 DEF equals
<1> QED BY <1>4, <1>7 DEF m, id

\* An id that comes as a std::string is found again: what is assigned from it
\* equals it, and converts back to it.
THEOREM IdsSurvive == ASSUME NotFilled PROVE Spec => []IdsRoundTrip
<1>1. Init => Inv
  BY InitString
<1>2. Inv /\ [Next]_vars => Inv'
  BY NextString
<1>3. Inv => IdsRoundTrip
  BY KeepsHolds, IdsCorrect
<1> QED BY <1>1, <1>2, <1>3, PTL DEF Spec

----------------------------------------------------------------------------
(* Searches. *)

LEMMA FirstOfIs ==
    ASSUME NEW S \in SUBSET Nat, NEW x \in S, \A v \in S : x =< v, NEW none
    PROVE  Std!FirstOf(S, none) = x
<1> DEFINE c == CHOOSE u \in S : \A v \in S : u =< v
<1>1. c \in S /\ \A v \in S : c =< v
  OBVIOUS
<1>2. Std!FirstOf(S, none) = c
  BY DEF Std!FirstOf
<1> HIDE DEF c
<1>3. c =< x /\ x =< c /\ c \in Nat /\ x \in Nat
  BY <1>1
<1> QED BY <1>2, <1>3

LEMMA LastOfIs ==
    ASSUME NEW S \in SUBSET Nat, NEW x \in S, \A v \in S : v =< x, NEW none
    PROVE  Std!LastOf(S, none) = x
<1> DEFINE c == CHOOSE u \in S : \A v \in S : v =< u
<1>1. c \in S /\ \A v \in S : v =< c
  OBVIOUS
<1>2. Std!LastOf(S, none) = c
  BY DEF Std!LastOf
<1> HIDE DEF c
<1>3. c =< x /\ x =< c /\ c \in Nat /\ x \in Nat
  BY <1>1
<1> QED BY <1>2, <1>3

LEMMA NoneFound ==
    ASSUME NEW none
    PROVE  Std!FirstOf({}, none) = none /\ Std!LastOf({}, none) = none
BY DEF Std!FirstOf, Std!LastOf

\* A loop up returns the first hit, a loop down the last.
LEMMA UpFindsFirst ==
    ASSUME NEW first \in Nat, NEW last \in Nat, first =< last,
           NEW H \in SUBSET (first..(last - 1)), NEW none, NEW V, V = [u \in first..last |-> u],
           NEW f, f = Up(first, last, H, none, V, f)
    PROVE  f[first] = Std!FirstOf(H, none)
<1>1. H \in SUBSET Nat /\ \A j \in H : first =< j /\ V[j] = j
  OBVIOUS
<1>2. f[first] = UpResult(first, H, none, V)
  BY UpUnique
<1>3. CASE H = {}
  BY <1>2, <1>3, NoneFound DEF UpResult
<1>4. CASE H # {}
  <2> DEFINE j == FirstIn(H, first)
  <2>1. \E k \in H : first =< k
    BY <1>1, <1>4
  <2>2. j \in H /\ \A k \in H : first =< k => j =< k
    BY <1>1, <2>1, FirstInFacts
  <2>3. f[first] = V[j]
    BY <1>2, <2>1 DEF UpResult
  <2> HIDE DEF j
  <2>4. \A k \in H : j =< k
    BY <1>1, <2>2
  <2>5. Std!FirstOf(H, none) = j
    BY <1>1, <2>2, <2>4, FirstOfIs
  <2> QED BY <1>1, <2>2, <2>3, <2>5
<1> QED BY <1>3, <1>4

LEMMA DownFindsLast ==
    ASSUME NEW first \in Nat, NEW H \in SUBSET (0..first), NEW none,
           NEW f, f = Down(first, H, none, f)
    PROVE  f[first] = Std!LastOf(H, none)
<1>1. H \in SUBSET Nat /\ \A j \in H : j =< first
  OBVIOUS
<1>2. f[first] = DownResult(first, H, none)
  BY <1>1, DownUnique
<1>3. CASE H = {}
  BY <1>2, <1>3, NoneFound DEF DownResult
<1>4. CASE H # {}
  <2> DEFINE j == LastIn(H, first)
  <2>1. \E k \in H : k =< first
    BY <1>1, <1>4
  <2>2. j \in H /\ \A k \in H : k =< first => k =< j
    BY <1>1, <2>1, LastInFacts
  <2>3. f[first] = j
    BY <1>2, <2>1 DEF DownResult
  <2> HIDE DEF j
  <2>4. \A k \in H : k =< j
    BY <1>1, <2>2
  <2>5. Std!LastOf(H, none) = j
    BY <1>1, <2>2, <2>4, LastOfIs
  <2> QED BY <2>3, <2>5
<1> QED BY <1>3, <1>4

\* The loops of the searches over a set of hits.
UpOver(first, last, H) ==
    LET scan[u \in first..last] == IF u = last THEN npos ELSE IF u \in H THEN u ELSE scan[u + 1]
    IN  scan[first]

DownOver(first, H) ==
    LET scan[u \in 0..first] == IF u \in H THEN u ELSE IF u = 0 THEN npos ELSE scan[u - 1]
    IN  scan[first]

LEMMA UpOverFinds ==
    ASSUME NEW first \in Nat, NEW last \in Nat, first =< last, NEW H \in SUBSET (first..(last - 1))
    PROVE  UpOver(first, last, H) = Std!FirstOf(H, npos)
<1> DEFINE V == [u \in first..last |-> u]
           Body(f) == [u \in first..last |-> IF u = last THEN npos ELSE IF u \in H THEN u ELSE f[u + 1]]
           scan == CHOOSE f : f = Body(f)
<1>1. UpOver(first, last, H) = scan[first]
  BY DEF UpOver
<1>2. ASSUME NEW f PROVE Body(f) = Up(first, last, H, npos, V, f)
  <2>1. ASSUME NEW u \in first..last
        PROVE  (IF u = last THEN npos ELSE IF u \in H THEN u ELSE f[u + 1])
                 = (IF u = last THEN npos ELSE IF u \in H THEN V[u] ELSE f[u + 1])
    OBVIOUS
  <2> QED BY <2>1 DEF Up
<1>3. V = [u \in first..last |-> u]
  OBVIOUS
<1> HIDE DEF V
<1>4. \E f : f = Body(f)
  <2>1. PICK f : f = Up(first, last, H, npos, V, f)
    BY UpExists
  <2> QED BY <1>2, <2>1
<1>5. scan = Body(scan)
  <2> HIDE DEF Body
  <2> QED BY <1>4
<1>6. scan = Up(first, last, H, npos, V, scan)
  BY <1>2, <1>5
<1> HIDE DEF scan
<1>7. scan[first] = Std!FirstOf(H, npos)
  BY <1>3, <1>6, UpFindsFirst
<1> QED BY <1>1, <1>7

LEMMA DownOverFinds ==
    ASSUME NEW first \in Nat, NEW H \in SUBSET (0..first)
    PROVE  DownOver(first, H) = Std!LastOf(H, npos)
<1> DEFINE scan == CHOOSE f : f = Down(first, H, npos, f)
<1>1. DownOver(first, H) = scan[first]
  BY DEF DownOver, Down
<1>2. H \in SUBSET Nat
  OBVIOUS
<1>3. \E f : f = Down(first, H, npos, f)
  BY <1>2, DownExists
<1>4. scan = Down(first, H, npos, scan)
  BY <1>3
<1> HIDE DEF scan
<1>5. scan[first] = Std!LastOf(H, npos)
  BY <1>4, DownFindsLast
<1> QED BY <1>1, <1>5

\* A loop that tests each place is one over the set of the places that pass.
LEMMA UpMatches ==
    ASSUME NEW first \in Nat, NEW last \in Nat, NEW m, NEW t, NEW f, NEW H, H = {u \in first..(last - 1) : Matches(m, u, t)}
    PROVE  [u \in first..last |-> IF u = last THEN npos ELSE IF Matches(m, u, t) THEN u ELSE f[u + 1]]
             = [u \in first..last |-> IF u = last THEN npos ELSE IF u \in H THEN u ELSE f[u + 1]]
<1>1. ASSUME NEW u \in first..last
      PROVE  (IF u = last THEN npos ELSE IF Matches(m, u, t) THEN u ELSE f[u + 1])
               = (IF u = last THEN npos ELSE IF u \in H THEN u ELSE f[u + 1])
  OBVIOUS
<1> QED BY <1>1

LEMMA UpOf ==
    ASSUME NEW first \in Nat, NEW last \in Nat, NEW m, NEW t, NEW f, NEW H, H = {u \in first..(last - 1) : OneOf(m, u, t)}
    PROVE  [u \in first..last |-> IF u = last THEN npos ELSE IF OneOf(m, u, t) THEN u ELSE f[u + 1]]
             = [u \in first..last |-> IF u = last THEN npos ELSE IF u \in H THEN u ELSE f[u + 1]]
<1>1. ASSUME NEW u \in first..last
      PROVE  (IF u = last THEN npos ELSE IF OneOf(m, u, t) THEN u ELSE f[u + 1])
               = (IF u = last THEN npos ELSE IF u \in H THEN u ELSE f[u + 1])
  OBVIOUS
<1> QED BY <1>1

LEMMA UpNotOf ==
    ASSUME NEW first \in Nat, NEW last \in Nat, NEW m, NEW t, NEW f, NEW H, H = {u \in first..(last - 1) : ~OneOf(m, u, t)}
    PROVE  [u \in first..last |-> IF u = last THEN npos ELSE IF ~OneOf(m, u, t) THEN u ELSE f[u + 1]]
             = [u \in first..last |-> IF u = last THEN npos ELSE IF u \in H THEN u ELSE f[u + 1]]
<1>1. ASSUME NEW u \in first..last
      PROVE  (IF u = last THEN npos ELSE IF ~OneOf(m, u, t) THEN u ELSE f[u + 1])
               = (IF u = last THEN npos ELSE IF u \in H THEN u ELSE f[u + 1])
  OBVIOUS
<1> QED BY <1>1

LEMMA DownMatches ==
    ASSUME NEW first \in Nat, NEW m, NEW t, NEW f, NEW H, H = {u \in 0..first : Matches(m, u, t)}
    PROVE  [u \in 0..first |-> IF Matches(m, u, t) THEN u ELSE IF u = 0 THEN npos ELSE f[u - 1]]
             = [u \in 0..first |-> IF u \in H THEN u ELSE IF u = 0 THEN npos ELSE f[u - 1]]
<1>1. ASSUME NEW u \in 0..first
      PROVE  (IF Matches(m, u, t) THEN u ELSE IF u = 0 THEN npos ELSE f[u - 1])
               = (IF u \in H THEN u ELSE IF u = 0 THEN npos ELSE f[u - 1])
  OBVIOUS
<1> QED BY <1>1

LEMMA DownOf ==
    ASSUME NEW first \in Nat, NEW m, NEW t, NEW f, NEW H, H = {u \in 0..first : OneOf(m, u, t)}
    PROVE  [u \in 0..first |-> IF OneOf(m, u, t) THEN u ELSE IF u = 0 THEN npos ELSE f[u - 1]]
             = [u \in 0..first |-> IF u \in H THEN u ELSE IF u = 0 THEN npos ELSE f[u - 1]]
<1>1. ASSUME NEW u \in 0..first
      PROVE  (IF OneOf(m, u, t) THEN u ELSE IF u = 0 THEN npos ELSE f[u - 1])
               = (IF u \in H THEN u ELSE IF u = 0 THEN npos ELSE f[u - 1])
  OBVIOUS
<1> QED BY <1>1

LEMMA DownNotOf ==
    ASSUME NEW first \in Nat, NEW m, NEW t, NEW f, NEW H, H = {u \in 0..first : ~OneOf(m, u, t)}
    PROVE  [u \in 0..first |-> IF ~OneOf(m, u, t) THEN u ELSE IF u = 0 THEN npos ELSE f[u - 1]]
             = [u \in 0..first |-> IF u \in H THEN u ELSE IF u = 0 THEN npos ELSE f[u - 1]]
<1>1. ASSUME NEW u \in 0..first
      PROVE  (IF ~OneOf(m, u, t) THEN u ELSE IF u = 0 THEN npos ELSE f[u - 1])
               = (IF u \in H THEN u ELSE IF u = 0 THEN npos ELSE f[u - 1])
  OBVIOUS
<1> QED BY <1>1

\* What is at a place of the buffer is what is there in the text.
LEMMA MatchesText ==
    ASSUME Keeps, storage \in Storages, NEW m, NEW s, Shows(m, s), NEW t \in Seq(Cells),
           NEW u \in Nat, u + Len(t) =< Len(s)
    PROVE  Matches(m, u, t) <=> SubSeq(s, u + 1, u + Len(t)) = t
<1> DEFINE p == SubSeq(s, u + 1, u + Len(t))
<1>1. s \in Seq(Cells) /\ Len(s) \in Nat /\ Len(t) \in Nat
  BY ShownFacts
<1>2. p \in Seq(Cells) /\ Len(p) = Len(t) /\ \A i \in 1..Len(t) : p[i] = s[u + i]
  <2>1. u + 1 \in 1..(Len(s) + 1) /\ u + Len(t) \in (u + 1 - 1)..Len(s)
    BY <1>1
  <2> QED BY <1>1, <2>1
<1>3. \A i \in 1..Len(t) : u + i - 1 \in 0..(Len(s) - 1) /\ (u + i - 1) + 1 = u + i
  BY <1>1
<1>4. \A i \in 1..Len(t) : m.buf[u + i - 1] = s[u + i]
  BY <1>3 DEF Shows
<1>5. Matches(m, u, t) <=> \A i \in 1..Len(t) : p[i] = t[i]
  BY <1>2, <1>4 DEF Matches
<1> HIDE DEF p
<1>6. (\A i \in 1..Len(t) : p[i] = t[i]) <=> p = t
  BY <1>1, <1>2
<1> QED BY <1>5, <1>6 DEF p

LEMMA OneOfText ==
    ASSUME Keeps, storage \in Storages, NEW m, NEW s, Shows(m, s), NEW t \in Seq(Cells),
           NEW u \in 0..(Len(s) - 1)
    PROVE  OneOf(m, u, t) <=> u \in Std!Members(s, t)
<1>1. m.buf[u] = s[u + 1]
  BY DEF Shows
<1> QED BY <1>1 DEF OneOf, Std!Members

LEMMA FindIsStd ==
    ASSUME Keeps, storage \in Storages, NEW m, NEW s, Shows(m, s), NEW t \in Seq(Cells), NEW pos \in Nat
    PROVE  find(m, t, pos) = Std!FirstOf({u \in Std!Occurrences(s, t) : u >= pos}, npos)
<1> DEFINE S == {u \in Std!Occurrences(s, t) : u >= pos}
<1>1. Size(m) = Len(s) /\ s \in Seq(Cells) /\ Len(s) \in Nat /\ Len(t) \in Nat
  BY ShownFacts
<1>2. CASE Len(t) = 0 /\ pos =< Len(s)
  <2>1. \A u \in 0..Len(s) : u + Len(t) =< Len(s) /\ SubSeq(s, u + 1, u + Len(t)) = t
    BY <1>1, <1>2
  <2>2. S \in SUBSET Nat /\ pos \in S /\ \A v \in S : pos =< v
    BY <1>1, <1>2, <2>1 DEF Std!Occurrences
  <2> HIDE DEF S
  <2>3. Std!FirstOf(S, npos) = pos
    BY <2>2, FirstOfIs
  <2>4. find(m, t, pos) = pos
    BY <1>1, <1>2 DEF find
  <2> QED BY <2>3, <2>4 DEF S
<1>3. CASE Len(t) > 0 /\ pos < Len(s) /\ Len(t) =< Len(s) - pos
  <2> DEFINE last == Size(m) - Len(t) + 1
             H == {u \in pos..(last - 1) : Matches(m, u, t)}
  <2>1. pos \in Nat /\ last \in Nat /\ pos =< last
    BY <1>1, <1>3
  <2>2. H = S
    <3>1. \A u : u \in pos..(last - 1) <=> u \in 0..Len(s) /\ u + Len(t) =< Len(s) /\ u >= pos
      BY <1>1, <1>3
    <3>2. \A u \in pos..(last - 1) : Matches(m, u, t) <=> SubSeq(s, u + 1, u + Len(t)) = t
      <4>1. \A u \in pos..(last - 1) : u \in Nat /\ u + Len(t) =< Len(s)
        BY <1>1, <1>3
      <4> QED BY <4>1, MatchesText
    <3> HIDE DEF last
    <3> QED BY <3>1, <3>2 DEF Std!Occurrences
  <2> DEFINE Tests(f) == [u \in pos..last |-> IF u = last THEN npos
                                             ELSE IF Matches(m, u, t) THEN u ELSE f[u + 1]]
             Looks(f) == [u \in pos..last |-> IF u = last THEN npos ELSE IF u \in H THEN u ELSE f[u + 1]]
  <2>3. ASSUME NEW f PROVE Tests(f) = Looks(f)
    <3>1. H = {u \in pos..(last - 1) : Matches(m, u, t)}
      OBVIOUS
    <3> HIDE DEF last, H
    <3> QED BY <2>1, <3>1, UpMatches
  <2>4. H \in SUBSET (pos..(last - 1))
    OBVIOUS
  <2>5. find(m, t, pos) = (CHOOSE f : f = Tests(f))[pos]
    <3>1. ~(Len(t) = 0 /\ pos =< Size(m)) /\ (Len(t) > 0 /\ pos < Size(m) /\ Len(t) =< Size(m) - pos)
      BY <1>1, <1>3
    <3> QED BY <3>1 DEF find, ScanUp
  <2> HIDE DEF H
  <2>6. UpOver(pos, last, H) = (CHOOSE f : f = Looks(f))[pos]
    BY DEF UpOver
  <2> HIDE DEF Tests, Looks
  <2>7. find(m, t, pos) = UpOver(pos, last, H)
    BY <2>3, <2>5, <2>6
  <2> HIDE DEF last
  <2> QED BY <2>1, <2>2, <2>4, <2>7, UpOverFinds
<1>4. CASE /\ ~(Len(t) = 0 /\ pos =< Len(s))
           /\ ~(Len(t) > 0 /\ pos < Len(s) /\ Len(t) =< Len(s) - pos)
  <2>1. S = {}
    BY <1>1, <1>4 DEF Std!Occurrences
  <2>2. find(m, t, pos) = npos
    BY <1>1, <1>4 DEF find
  <2> QED BY <2>1, <2>2, NoneFound
<1> QED BY <1>2, <1>3, <1>4

LEMMA RfindIsStd ==
    ASSUME Keeps, storage \in Storages, NEW m, NEW s, Shows(m, s), NEW t \in Seq(Cells), NEW pos \in Nat
    PROVE  rfind(m, t, pos) = Std!LastOf({u \in Std!Occurrences(s, t) : u =< pos}, npos)
<1> DEFINE S == {u \in Std!Occurrences(s, t) : u =< pos}
<1>1. Size(m) = Len(s) /\ s \in Seq(Cells) /\ Len(s) \in Nat /\ Len(t) \in Nat
  BY ShownFacts
<1>2. CASE Len(t) = 0
  <2> DEFINE last == Min(pos, Len(s))
  <2>1. \A u \in 0..Len(s) : u + Len(t) =< Len(s) /\ SubSeq(s, u + 1, u + Len(t)) = t
    BY <1>1, <1>2
  <2>2. last \in 0..Len(s) /\ last =< pos /\ \A v \in 0..Len(s) : v =< pos => v =< last
    BY <1>1 DEF Min
  <2>3. rfind(m, t, pos) = last
    BY <1>1, <1>2 DEF rfind
  <2> HIDE DEF last
  <2>4. S \in SUBSET Nat /\ last \in S /\ \A v \in S : v =< last
    BY <1>1, <2>1, <2>2 DEF Std!Occurrences
  <2> HIDE DEF S
  <2>5. Std!LastOf(S, npos) = last
    BY <2>4, LastOfIs
  <2> QED BY <2>3, <2>5 DEF S
<1>3. CASE Len(t) > 0 /\ Len(t) =< Len(s)
  <2> DEFINE first == Min(pos, Size(m) - Len(t))
             H == {u \in 0..first : Matches(m, u, t)}
             Tests(f) == [u \in 0..first |-> IF Matches(m, u, t) THEN u ELSE IF u = 0 THEN npos ELSE f[u - 1]]
             Looks(f) == [u \in 0..first |-> IF u \in H THEN u ELSE IF u = 0 THEN npos ELSE f[u - 1]]
  <2>1. first \in Nat /\ first + Len(t) =< Len(s) /\ first =< pos
        /\ \A v \in Nat : v =< pos /\ v + Len(t) =< Len(s) => v =< first
    BY <1>1, <1>3 DEF Min
  <2>2. H = S
    <3> HIDE DEF first
    <3>1. \A u : u \in 0..first <=> u \in 0..Len(s) /\ u + Len(t) =< Len(s) /\ u =< pos
      BY <1>1, <2>1
    <3>2. \A u \in 0..first : Matches(m, u, t) <=> SubSeq(s, u + 1, u + Len(t)) = t
      <4>1. \A u \in 0..first : u \in Nat /\ u + Len(t) =< Len(s)
        BY <1>1, <2>1
      <4> QED BY <4>1, MatchesText
    <3> QED BY <3>1, <3>2 DEF Std!Occurrences
  <2>3. ASSUME NEW f PROVE Tests(f) = Looks(f)
    <3>1. H = {u \in 0..first : Matches(m, u, t)}
      OBVIOUS
    <3> HIDE DEF first, H
    <3> QED BY <2>1, <3>1, DownMatches
  <2>4. H \in SUBSET (0..first)
    OBVIOUS
  <2>5. rfind(m, t, pos) = (CHOOSE f : f = Tests(f))[first]
    <3>1. ~(Len(t) = 0) /\ (Len(t) > 0 /\ Len(t) =< Size(m))
      BY <1>1, <1>3
    <3> QED BY <3>1 DEF rfind, ScanDown
  <2> HIDE DEF H
  <2>6. DownOver(first, H) = (CHOOSE f : f = Looks(f))[first]
    BY DEF DownOver
  <2> HIDE DEF Tests, Looks
  <2>7. rfind(m, t, pos) = DownOver(first, H)
    BY <2>3, <2>5, <2>6
  <2> HIDE DEF first
  <2> QED BY <2>1, <2>2, <2>4, <2>7, DownOverFinds
<1>4. CASE Len(t) > Len(s)
  <2>1. S = {}
    BY <1>1, <1>4 DEF Std!Occurrences
  <2>2. rfind(m, t, pos) = npos
    BY <1>1, <1>4 DEF rfind
  <2> QED BY <2>1, <2>2, NoneFound
<1> QED BY <1>1, <1>2, <1>3, <1>4

LEMMA FindFirstOfIsStd ==
    ASSUME Keeps, storage \in Storages, NEW m, NEW s, Shows(m, s), NEW t \in Seq(Cells), NEW pos \in Nat
    PROVE  find_first_of(m, t, pos) = Std!FirstOf({u \in Std!Members(s, t) : u >= pos}, npos)
<1> DEFINE S == {u \in Std!Members(s, t) : u >= pos}
<1>1. Size(m) = Len(s) /\ s \in Seq(Cells) /\ Len(s) \in Nat /\ Len(t) \in Nat
  BY ShownFacts
<1>2. CASE Len(t) > 0 /\ pos < Len(s)
  <2> DEFINE last == Size(m)
             H == {u \in pos..(last - 1) : OneOf(m, u, t)}
             Tests(f) == [u \in pos..last |-> IF u = last THEN npos ELSE IF OneOf(m, u, t) THEN u ELSE f[u + 1]]
             Looks(f) == [u \in pos..last |-> IF u = last THEN npos ELSE IF u \in H THEN u ELSE f[u + 1]]
  <2>1. pos \in Nat /\ last \in Nat /\ pos =< last
    BY <1>1, <1>2
  <2>2. H = S
    <3>1. \A u : u \in pos..(last - 1) <=> u \in 0..(Len(s) - 1) /\ u >= pos
      BY <1>1
    <3>2. \A u \in 0..(Len(s) - 1) : OneOf(m, u, t) <=> u \in Std!Members(s, t)
      BY OneOfText
    <3> HIDE DEF last
    <3> QED BY <3>1, <3>2 DEF Std!Members, Std!Others
  <2>3. ASSUME NEW f PROVE Tests(f) = Looks(f)
    <3>1. H = {u \in pos..(last - 1) : OneOf(m, u, t)}
      OBVIOUS
    <3> HIDE DEF last, H
    <3> QED BY <2>1, <3>1, UpOf
  <2>4. H \in SUBSET (pos..(last - 1))
    OBVIOUS
  <2>5. find_first_of(m, t, pos) = (CHOOSE f : f = Tests(f))[pos]
    <3>1. Len(t) > 0 /\ pos < Size(m)
      BY <1>1, <1>2
    <3> QED BY <3>1 DEF find_first_of, ScanUp
  <2> HIDE DEF H
  <2>6. UpOver(pos, last, H) = (CHOOSE f : f = Looks(f))[pos]
    BY DEF UpOver
  <2> HIDE DEF Tests, Looks
  <2>7. find_first_of(m, t, pos) = UpOver(pos, last, H)
    BY <2>3, <2>5, <2>6
  <2> HIDE DEF last
  <2> QED BY <2>1, <2>2, <2>4, <2>7, UpOverFinds
<1>3. CASE ~(Len(t) > 0 /\ pos < Len(s))
  <2>1. S = {}
    BY <1>1, <1>3 DEF Std!Members, Std!Others
  <2>2. find_first_of(m, t, pos) = npos
    BY <1>1, <1>3 DEF find_first_of
  <2> QED BY <2>1, <2>2, NoneFound
<1> QED BY <1>2, <1>3

LEMMA FindFirstNotOfIsStd ==
    ASSUME Keeps, storage \in Storages, NEW m, NEW s, Shows(m, s), NEW t \in Seq(Cells), NEW pos \in Nat
    PROVE  find_first_not_of(m, t, pos) = Std!FirstOf({u \in Std!Others(s, t) : u >= pos}, npos)
<1> DEFINE S == {u \in Std!Others(s, t) : u >= pos}
<1>1. Size(m) = Len(s) /\ s \in Seq(Cells) /\ Len(s) \in Nat /\ Len(t) \in Nat
  BY ShownFacts
<1>2. CASE pos < Len(s)
  <2> DEFINE last == Size(m)
             H == {u \in pos..(last - 1) : ~OneOf(m, u, t)}
             Tests(f) == [u \in pos..last |-> IF u = last THEN npos ELSE IF ~OneOf(m, u, t) THEN u ELSE f[u + 1]]
             Looks(f) == [u \in pos..last |-> IF u = last THEN npos ELSE IF u \in H THEN u ELSE f[u + 1]]
  <2>1. pos \in Nat /\ last \in Nat /\ pos =< last
    BY <1>1, <1>2
  <2>2. H = S
    <3>1. \A u : u \in pos..(last - 1) <=> u \in 0..(Len(s) - 1) /\ u >= pos
      BY <1>1
    <3>2. \A u \in 0..(Len(s) - 1) : OneOf(m, u, t) <=> u \in Std!Members(s, t)
      BY OneOfText
    <3> HIDE DEF last
    <3> QED BY <3>1, <3>2 DEF Std!Members, Std!Others
  <2>3. ASSUME NEW f PROVE Tests(f) = Looks(f)
    <3>1. H = {u \in pos..(last - 1) : ~OneOf(m, u, t)}
      OBVIOUS
    <3> HIDE DEF last, H
    <3> QED BY <2>1, <3>1, UpNotOf
  <2>4. H \in SUBSET (pos..(last - 1))
    OBVIOUS
  <2>5. find_first_not_of(m, t, pos) = (CHOOSE f : f = Tests(f))[pos]
    <3>1. pos < Size(m)
      BY <1>1, <1>2
    <3> QED BY <3>1 DEF find_first_not_of, ScanUp
  <2> HIDE DEF H
  <2>6. UpOver(pos, last, H) = (CHOOSE f : f = Looks(f))[pos]
    BY DEF UpOver
  <2> HIDE DEF Tests, Looks
  <2>7. find_first_not_of(m, t, pos) = UpOver(pos, last, H)
    BY <2>3, <2>5, <2>6
  <2> HIDE DEF last
  <2> QED BY <2>1, <2>2, <2>4, <2>7, UpOverFinds
<1>3. CASE ~(pos < Len(s))
  <2>1. S = {}
    BY <1>1, <1>3 DEF Std!Members, Std!Others
  <2>2. find_first_not_of(m, t, pos) = npos
    BY <1>1, <1>3 DEF find_first_not_of
  <2> QED BY <2>1, <2>2, NoneFound
<1> QED BY <1>2, <1>3

LEMMA FindLastOfIsStd ==
    ASSUME Keeps, storage \in Storages, NEW m, NEW s, Shows(m, s), NEW t \in Seq(Cells), NEW pos \in Nat
    PROVE  find_last_of(m, t, pos) = Std!LastOf({u \in Std!Members(s, t) : u =< pos}, npos)
<1> DEFINE S == {u \in Std!Members(s, t) : u =< pos}
<1>1. Size(m) = Len(s) /\ s \in Seq(Cells) /\ Len(s) \in Nat /\ Len(t) \in Nat
  BY ShownFacts
<1>2. CASE Len(t) > 0 /\ Len(s) > 0
  <2> DEFINE first == Min(pos, Size(m) - 1)
             H == {u \in 0..first : OneOf(m, u, t)}
             Tests(f) == [u \in 0..first |-> IF OneOf(m, u, t) THEN u ELSE IF u = 0 THEN npos ELSE f[u - 1]]
             Looks(f) == [u \in 0..first |-> IF u \in H THEN u ELSE IF u = 0 THEN npos ELSE f[u - 1]]
  <2>1. first \in Nat /\ first < Len(s) /\ first =< pos
        /\ \A v \in Nat : v =< pos /\ v < Len(s) => v =< first
    BY <1>1, <1>2 DEF Min
  <2>2. H = S
    <3> HIDE DEF first
    <3>1. \A u : u \in 0..first <=> u \in 0..(Len(s) - 1) /\ u =< pos
      BY <1>1, <2>1
    <3>2. \A u \in 0..(Len(s) - 1) : OneOf(m, u, t) <=> u \in Std!Members(s, t)
      BY OneOfText
    <3> QED BY <3>1, <3>2 DEF Std!Members, Std!Others
  <2>3. ASSUME NEW f PROVE Tests(f) = Looks(f)
    <3>1. H = {u \in 0..first : OneOf(m, u, t)}
      OBVIOUS
    <3> HIDE DEF first, H
    <3> QED BY <2>1, <3>1, DownOf
  <2>4. H \in SUBSET (0..first)
    OBVIOUS
  <2>5. find_last_of(m, t, pos) = (CHOOSE f : f = Tests(f))[first]
    <3>1. Len(t) > 0 /\ Size(m) > 0
      BY <1>1, <1>2
    <3> QED BY <3>1 DEF find_last_of, ScanDown
  <2> HIDE DEF H
  <2>6. DownOver(first, H) = (CHOOSE f : f = Looks(f))[first]
    BY DEF DownOver
  <2> HIDE DEF Tests, Looks
  <2>7. find_last_of(m, t, pos) = DownOver(first, H)
    BY <2>3, <2>5, <2>6
  <2> HIDE DEF first
  <2> QED BY <2>1, <2>2, <2>4, <2>7, DownOverFinds
<1>3. CASE ~(Len(t) > 0 /\ Len(s) > 0)
  <2>1. S = {}
    BY <1>1, <1>3 DEF Std!Members, Std!Others
  <2>2. find_last_of(m, t, pos) = npos
    BY <1>1, <1>3 DEF find_last_of
  <2> QED BY <2>1, <2>2, NoneFound
<1> QED BY <1>2, <1>3

LEMMA FindLastNotOfIsStd ==
    ASSUME Keeps, storage \in Storages, NEW m, NEW s, Shows(m, s), NEW t \in Seq(Cells), NEW pos \in Nat
    PROVE  find_last_not_of(m, t, pos) = Std!LastOf({u \in Std!Others(s, t) : u =< pos}, npos)
<1> DEFINE S == {u \in Std!Others(s, t) : u =< pos}
<1>1. Size(m) = Len(s) /\ s \in Seq(Cells) /\ Len(s) \in Nat /\ Len(t) \in Nat
  BY ShownFacts
<1>2. CASE Len(s) > 0
  <2> DEFINE first == Min(pos, Size(m) - 1)
             H == {u \in 0..first : ~OneOf(m, u, t)}
             Tests(f) == [u \in 0..first |-> IF ~OneOf(m, u, t) THEN u ELSE IF u = 0 THEN npos ELSE f[u - 1]]
             Looks(f) == [u \in 0..first |-> IF u \in H THEN u ELSE IF u = 0 THEN npos ELSE f[u - 1]]
  <2>1. first \in Nat /\ first < Len(s) /\ first =< pos
        /\ \A v \in Nat : v =< pos /\ v < Len(s) => v =< first
    BY <1>1, <1>2 DEF Min
  <2>2. H = S
    <3> HIDE DEF first
    <3>1. \A u : u \in 0..first <=> u \in 0..(Len(s) - 1) /\ u =< pos
      BY <1>1, <2>1
    <3>2. \A u \in 0..(Len(s) - 1) : OneOf(m, u, t) <=> u \in Std!Members(s, t)
      BY OneOfText
    <3> QED BY <3>1, <3>2 DEF Std!Members, Std!Others
  <2>3. ASSUME NEW f PROVE Tests(f) = Looks(f)
    <3>1. H = {u \in 0..first : ~OneOf(m, u, t)}
      OBVIOUS
    <3> HIDE DEF first, H
    <3> QED BY <2>1, <3>1, DownNotOf
  <2>4. H \in SUBSET (0..first)
    OBVIOUS
  <2>5. find_last_not_of(m, t, pos) = (CHOOSE f : f = Tests(f))[first]
    <3>1. Size(m) > 0
      BY <1>1, <1>2
    <3> QED BY <3>1 DEF find_last_not_of, ScanDown
  <2> HIDE DEF H
  <2>6. DownOver(first, H) = (CHOOSE f : f = Looks(f))[first]
    BY DEF DownOver
  <2> HIDE DEF Tests, Looks
  <2>7. find_last_not_of(m, t, pos) = DownOver(first, H)
    BY <2>3, <2>5, <2>6
  <2> HIDE DEF first
  <2> QED BY <2>1, <2>2, <2>4, <2>7, DownOverFinds
<1>3. CASE ~(Len(s) > 0)
  <2>1. S = {}
    BY <1>1, <1>3 DEF Std!Members, Std!Others
  <2>2. find_last_not_of(m, t, pos) = npos
    BY <1>1, <1>3 DEF find_last_not_of
  <2> QED BY <2>1, <2>2, NoneFound
<1> QED BY <1>2, <1>3

LEMMA SearchesCorrect ==
    ASSUME Keeps, Inv
    PROVE  SearchesLikeStd
<1>1. storage \in Storages /\ Shows(mem, View(mem)) /\ npos \in Nat
  BY ViewShown DEF Inv, Keeps, npos
<1>2. \A t \in Texts : t \in Seq(Cells)
  BY TextsAreTexts
<1>3. \A pos \in 0..npos : pos \in Nat
  BY <1>1
<1> QED BY <1>1, <1>2, <1>3, FindIsStd, RfindIsStd, FindFirstOfIsStd, FindFirstNotOfIsStd,
           FindLastOfIsStd, FindLastNotOfIsStd DEF SearchesLikeStd

\* Each search returns the position that std::string defines, from every start.
THEOREM SearchesAreStd == ASSUME NotFilled PROVE Spec => []SearchesLikeStd
<1>1. Init => Inv
  BY InitString
<1>2. Inv /\ [Next]_vars => Inv'
  BY NextString
<1>3. Inv => SearchesLikeStd
  BY KeepsHolds, SearchesCorrect
<1> QED BY <1>1, <1>2, <1>3, PTL DEF Spec
=============================================================================
