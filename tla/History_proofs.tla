--------------------------- MODULE History_proofs ---------------------------
(***************************************************************************)
(* Theorems about History, for any sets of line numbers, inputs and        *)
(* outputs and any bound on the length.                                    *)
(***************************************************************************)
EXTENDS History, FiniteSetTheorems, TLAPS

LEMMA NextAppends == Next => \E e \in Entries : history' = Append(history, e)
BY DEF Next, store_inputs, Entries

----------------------------------------------------------------------------
(* What the iterators copy is an interval of positions. *)

LEMMA CopyLists ==
    ASSUME TypeOK, NEW start \in Nat, NEW count \in Nat, start + count =< Size, NEW output
    PROVE  Lists(Ok(Copy(start, count, output)), {i \in 1..Size : start < i /\ i =< start + count}, output)
<1> DEFINE S == {i \in 1..Size : start < i /\ i =< start + count}
           reply == Ok(Copy(start, count, output))
<1>0. Size \in Nat
  BY DEF TypeOK, Size
<1>1. S = (start + 1)..(start + count)
  BY <1>0
<1>2. Cardinality(S) = count
  <2>1. Cardinality((start + 1)..(start + count)) =
            IF start + 1 > start + count THEN 0 ELSE (start + count) - (start + 1) + 1
    BY FS_Interval
  <2>2. Cardinality((start + 1)..(start + count)) = count
    BY <2>1
  <2> QED BY <1>1, <2>2
<1>3. reply.status = "ok" /\ reply.history = Copy(start, count, output)
  BY DEF Ok
<1>4. Len(reply.history) = count
  BY <1>3 DEF Copy
<1>5. ASSUME NEW i \in S
      PROVE  reply.history[Cardinality({j \in S : j =< i})] = View(history[i], output)
  <2>1. i \in Int /\ i - start \in 1..count
    BY <1>1
  <2>2. {j \in S : j =< i} = (start + 1)..i
    BY <1>1, <2>1
  <2>3. Cardinality((start + 1)..i) = i - start
    <3>1. Cardinality((start + 1)..i) = IF start + 1 > i THEN 0 ELSE i - (start + 1) + 1
      BY <2>1, FS_Interval
    <3> QED BY <2>1, <3>1
  <2>4. Copy(start, count, output)[i - start] = View(history[start + (i - start)], output)
    BY <2>1 DEF Copy
  <2>5. start + (i - start) = i
    BY <2>1
  <2> QED BY <1>3, <2>2, <2>3, <2>4, <2>5
<1> QED BY <1>2, <1>3, <1>4, <1>5 DEF Lists

----------------------------------------------------------------------------
(* The contents of messages. *)

LEMMA OptionalKey ==
    ASSUME NEW contents, NEW key, NEW values, NEW content \in Optional(contents, key, values)
    PROVE  \/ content \in contents
           \/ \E v \in values, base \in contents :
                content = [k \in DOMAIN base \cup {key} |-> IF k = key THEN v ELSE base[k]]
<1> DEFINE With(v, base) == [k \in DOMAIN base \cup {key} |-> IF k = key THEN v ELSE base[k]]
<1>1. Optional(contents, key, values) = contents \cup {With(v, base) : v \in values, base \in contents}
  BY DEF Optional
<1>2. content \in contents \/ \E v \in values, base \in contents : content = With(v, base)
  <2> HIDE DEF With
  <2> QED BY <1>1
<1> QED BY <1>2

LEMMA OptionalValue ==
    ASSUME NEW contents, NEW key, NEW values, NEW content \in Optional(contents, key, values)
    PROVE  \E base \in contents :
              /\ \A k, d : k # key => Value(content, k, d) = Value(base, k, d)
              /\ \A d : Value(content, key, d) \in values \cup {Value(base, key, d)}
<1>1. CASE content \in contents
  BY <1>1
<1>2. CASE ~(content \in contents)
  <2>1. PICK v \in values, base \in contents :
            content = [k \in DOMAIN base \cup {key} |-> IF k = key THEN v ELSE base[k]]
    BY <1>2, OptionalKey
  <2>2. DOMAIN content = DOMAIN base \cup {key} /\ content[key] = v
    BY <2>1
  <2>3. \A k \in DOMAIN base : k # key => content[k] = base[k]
    BY <2>1
  <2>4. \A k, d : k # key => Value(content, k, d) = Value(base, k, d)
    BY <2>2, <2>3 DEF Value
  <2>5. \A d : Value(content, key, d) = v
    BY <2>2 DEF Value
  <2> QED BY <2>4, <2>5
<1> QED BY <1>1, <1>2

LEMMA TailContent ==
    ASSUME NEW content \in TailContents
    PROVE  /\ Value(content, "hist_access_type", "tail") = "tail"
           /\ Value(content, "n", 10) \in Nat
<1>1. PICK c1 \in Optional({Nothing, [hist_access_type |-> "tail"]}, "n", Counts) :
          \A k, d : k # "output" => Value(content, k, d) = Value(c1, k, d)
  BY OptionalValue DEF TailContents
<1>2. PICK c0 \in {Nothing, [hist_access_type |-> "tail"]} :
          /\ \A k, d : k # "n" => Value(c1, k, d) = Value(c0, k, d)
          /\ \A d : Value(c1, "n", d) \in Counts \cup {Value(c0, "n", d)}
  BY OptionalValue
<1>3. Value(c0, "hist_access_type", "tail") = "tail" /\ Value(c0, "n", 10) = 10
  BY DEF Value, Nothing
<1>4. Counts \subseteq Nat
  BY MaxLenAssumption DEF Counts
<1>5. Value(content, "hist_access_type", "tail") = Value(c0, "hist_access_type", "tail")
  BY <1>1, <1>2
<1>6. Value(content, "n", 10) \in Counts \cup {10}
  BY <1>1, <1>2, <1>3
<1>7. Counts \cup {10} \subseteq Nat
  BY <1>4
<1>8. Value(content, "n", 10) \in Nat
  BY <1>6, <1>7
<1>9. Value(content, "hist_access_type", "tail") = "tail"
  BY <1>3, <1>5
<1> QED BY <1>8, <1>9

LEMMA RangeContent ==
    ASSUME NEW content \in RangeContents
    PROVE  /\ Value(content, "hist_access_type", "tail") = "range"
           /\ Value(content, "start", 1) \in Nat
           /\ Value(content, "stop", 10) \in Nat
<1> DEFINE C0 == {[hist_access_type |-> "range"]}
           C1 == Optional(C0, "start", Counts)
           C2 == Optional(C1, "stop", Counts)
<1>1. PICK c2 \in C2 : \A k, d : k # "output" => Value(content, k, d) = Value(c2, k, d)
  BY OptionalValue DEF RangeContents
<1>2. PICK c1 \in C1 : /\ \A k, d : k # "stop" => Value(c2, k, d) = Value(c1, k, d)
                       /\ \A d : Value(c2, "stop", d) \in Counts \cup {Value(c1, "stop", d)}
  BY OptionalValue
<1>3. PICK c0 \in C0 : /\ \A k, d : k # "start" => Value(c1, k, d) = Value(c0, k, d)
                       /\ \A d : Value(c1, "start", d) \in Counts \cup {Value(c0, "start", d)}
  BY OptionalValue
<1>4. /\ Value(c0, "hist_access_type", "tail") = "range"
      /\ Value(c0, "start", 1) = 1
      /\ Value(c0, "stop", 10) = 10
  BY DEF Value
<1>5. Counts \subseteq Nat
  BY MaxLenAssumption DEF Counts
<1>6. Value(content, "hist_access_type", "tail") = Value(c0, "hist_access_type", "tail")
  BY <1>1, <1>2, <1>3
<1>7. Value(content, "start", 1) \in Counts \cup {1}
  BY <1>1, <1>2, <1>3, <1>4
<1>8. Value(content, "stop", 10) \in Counts \cup {10}
  BY <1>1, <1>2, <1>3, <1>4
<1>9. Counts \cup {1} \subseteq Nat /\ Counts \cup {10} \subseteq Nat
  BY <1>5
<1>10. Value(content, "start", 1) \in Nat
  BY <1>7, <1>9
<1>11. Value(content, "stop", 10) \in Nat
  BY <1>8, <1>9
<1>12. Value(content, "hist_access_type", "tail") = "range"
  BY <1>4, <1>6
<1> QED BY <1>10, <1>11, <1>12

----------------------------------------------------------------------------
\* The history only ever holds entries.
THEOREM TypeCorrect == Spec => []TypeOK
<1>1. Init => TypeOK
  BY DEF Init, TypeOK
<1>2. TypeOK /\ [Next]_history => TypeOK'
  BY NextAppends DEF TypeOK
<1> QED BY <1>1, <1>2, PTL DEF Spec

\* A range that was complete has the same answer for ever.
THEOREM RangesStay == Spec => RangesStable
<1> DEFINE Stable == \A start, stop \in Counts, output \in BOOLEAN :
          stop =< Size => get_range(start, stop, output)' = get_range(start, stop, output)
<1>1. ASSUME TypeOK, [Next]_history PROVE [Stable]_history
  <2> SUFFICES ASSUME Next PROVE Stable
    BY <1>1
  <2>1. PICK e \in Entries : history' = Append(history, e)
    BY NextAppends
  <2>2. Size \in Nat /\ Size' = Size + 1 /\ \A i \in 1..Size : history'[i] = history[i]
    BY <1>1, <2>1 DEF TypeOK, Size
  <2> SUFFICES ASSUME NEW start \in Counts, NEW stop \in Counts, NEW output \in BOOLEAN, stop =< Size
               PROVE  get_range(start, stop, output)' = get_range(start, stop, output)
    BY DEF Stable
  <2>3. start \in Nat /\ stop \in Nat
    BY MaxLenAssumption DEF Counts
  <2>4. Least(stop, Size) = stop /\ Least(stop, Size') = stop
    BY <2>2, <2>3 DEF Least
  <2>5. start =< stop => Copy(start, stop - start, output)' = Copy(start, stop - start, output)
    BY <2>2, <2>3 DEF Copy
  <2>6. start =< stop => ~(start > Size) /\ ~(start > Size')
    BY <2>2, <2>3
  <2> QED BY <2>3, <2>4, <2>5, <2>6 DEF get_range
<1>2. TypeOK /\ [Next]_history => [Stable]_history
  BY <1>1
<1> QED BY <1>2, TypeCorrect, PTL DEF Spec, RangesStable, Stable

LEMMA TailLists ==
    ASSUME TypeOK, NEW n \in Nat, NEW output
    PROVE  Lists(get_tail(n, output), {i \in 1..Size : Size - i < n}, output)
<1> DEFINE count == Least(n, Size)
<1>1. Size \in Nat
  BY DEF TypeOK, Size
<1>2. count \in Nat /\ Size - count \in Nat /\ (Size - count) + count = Size
  BY <1>1 DEF Least
<1>3. {i \in 1..Size : Size - i < n} =
          {i \in 1..Size : Size - count < i /\ i =< (Size - count) + count}
  BY <1>1 DEF Least
<1>4. get_tail(n, output) = Ok(Copy(Size - count, count, output))
  BY <1>2 DEF get_tail
<1>5. Lists(Ok(Copy(Size - count, count, output)),
            {i \in 1..Size : Size - count < i /\ i =< (Size - count) + count}, output)
  <2> HIDE DEF count
  <2> QED BY <1>1, <1>2, CopyLists
<1> QED BY <1>3, <1>4, <1>5

LEMMA RangeLists ==
    ASSUME TypeOK, NEW start \in Nat, NEW stop \in Nat, NEW output, start =< stop, start =< Size
    PROVE  Lists(get_range(start, stop, output), {i \in 1..Size : start < i /\ i =< stop}, output)
<1> DEFINE count == Least(stop, Size) - start
<1>1. Size \in Nat
  BY DEF TypeOK, Size
<1>2. count \in Nat /\ start + count =< Size
  BY <1>1 DEF Least
<1>3. {i \in 1..Size : start < i /\ i =< stop} = {i \in 1..Size : start < i /\ i =< start + count}
  BY <1>1 DEF Least
<1>4. get_range(start, stop, output) = Ok(Copy(start, count, output))
  BY <1>1, <1>2 DEF get_range
<1>5. Lists(Ok(Copy(start, count, output)),
            {i \in 1..Size : start < i /\ i =< start + count}, output)
  <2> HIDE DEF count
  <2> QED BY <1>2, CopyLists
<1> QED BY <1>3, <1>4, <1>5

\* Requests for the tail answer with the last n lines in order, for histories of
\* any length and for every combination of absent keys.
THEOREM TailCorrect == Spec => []TailAnswers
<1>1. ASSUME TypeOK PROVE TailAnswers
  <2> SUFFICES ASSUME NEW content \in TailContents
               PROVE  Lists(process_request(content),
                            {i \in 1..Size : Size - i < Value(content, "n", 10)},
                            Value(content, "output", FALSE))
    BY DEF TailAnswers
  <2>1. process_request(content) = get_tail(Value(content, "n", 10), Value(content, "output", FALSE))
    BY TailContent DEF process_request
  <2> QED BY <1>1, <2>1, TailContent, TailLists
<1>2. TypeOK => TailAnswers
  BY <1>1
<1> QED BY <1>2, TypeCorrect, PTL

\* Requests for a range answer with the lines of the range that exist, or with
\* the error, and no iterator leaves the list.
THEOREM RangeCorrect == Spec => []RangeAnswers
<1>1. ASSUME TypeOK PROVE RangeAnswers
  <2> SUFFICES ASSUME NEW content \in RangeContents
               PROVE  LET start == Value(content, "start", 1)
                          stop  == Value(content, "stop", 10)
                      IN  IF start =< stop /\ start =< Size
                          THEN Lists(process_request(content),
                                     {i \in 1..Size : start < i /\ i =< stop},
                                     Value(content, "output", FALSE))
                          ELSE process_request(content) = Error
    BY DEF RangeAnswers
  <2> DEFINE start == Value(content, "start", 1)
             stop == Value(content, "stop", 10)
             output == Value(content, "output", FALSE)
  <2>1. process_request(content) = get_range(start, stop, output)
    BY RangeContent DEF process_request
  <2>2. start \in Nat /\ stop \in Nat /\ Size \in Nat
    BY <1>1, RangeContent DEF TypeOK, Size
  <2> HIDE DEF start, stop, output
  <2>3. ASSUME start =< stop, start =< Size
        PROVE  Lists(process_request(content), {i \in 1..Size : start < i /\ i =< stop}, output)
    BY <1>1, <2>1, <2>2, <2>3, RangeLists
  <2>4. ASSUME ~(start =< stop /\ start =< Size)
        PROVE  process_request(content) = Error
    BY <2>1, <2>2, <2>4 DEF get_range
  <2> QED BY <2>3, <2>4 DEF start, stop, output
<1>2. TypeOK => RangeAnswers
  BY <1>1
<1> QED BY <1>2, TypeCorrect, PTL

----------------------------------------------------------------------------
(* The place that a position has in a set of positions. *)

Rank(S, i) == Cardinality({j \in S : j =< i})

LEMMA SubsetsAreFinite ==
    ASSUME NEW m \in Nat, NEW S \in SUBSET (1..m)
    PROVE  IsFiniteSet(S) /\ Cardinality(S) \in Nat /\ \A T \in SUBSET S : IsFiniteSet(T) /\ Cardinality(T) \in Nat
<1>1. IsFiniteSet(1..m)
  BY FS_Interval
<1>2. ASSUME NEW T \in SUBSET S PROVE IsFiniteSet(T) /\ Cardinality(T) \in Nat
  <2>1. T \in SUBSET (1..m)
    OBVIOUS
  <2>2. IsFiniteSet(T)
    BY <1>1, <2>1, FS_Subset
  <2> QED BY <2>2, FS_CardinalityType
<1>3. S \in SUBSET S
  OBVIOUS
<1> QED BY <1>2, <1>3

LEMMA RankRises ==
    ASSUME NEW m \in Nat, NEW S \in SUBSET (1..m)
    PROVE  /\ \A i \in S : Rank(S, i) \in 1..Cardinality(S)
           /\ \A i, j \in S : i < j => Rank(S, i) < Rank(S, j)
<1>1. IsFiniteSet(S) /\ Cardinality(S) \in Nat
  BY SubsetsAreFinite
<1>2. ASSUME NEW i \in S PROVE Rank(S, i) \in 1..Cardinality(S)
  <2> DEFINE T == {j \in S : j =< i}
  <2>1. IsFiniteSet(T) /\ Cardinality(T) \in Nat /\ T \in SUBSET S
    BY SubsetsAreFinite
  <2>2. Cardinality(T) =< Cardinality(S)
    BY <1>1, <2>1, FS_Subset
  <2>3. i \in T
    OBVIOUS
  <2>4. Cardinality(T) # 0
    BY <2>1, <2>3, FS_EmptySet
  <2> HIDE DEF T
  <2>5. Cardinality(T) \in 1..Cardinality(S)
    BY <1>1, <2>1, <2>2, <2>4
  <2> QED BY <2>5 DEF Rank, T
<1>3. ASSUME NEW i \in S, NEW j \in S, i < j PROVE Rank(S, i) < Rank(S, j)
  <2> DEFINE T == {k \in S : k =< i}
             U == {k \in S : k =< j}
  <2>1. /\ IsFiniteSet(T) /\ Cardinality(T) \in Nat
        /\ IsFiniteSet(U) /\ Cardinality(U) \in Nat
    BY SubsetsAreFinite
  <2>a. i \in Nat /\ j \in Nat
    OBVIOUS
  <2>b. \A k \in S : k \in Nat
    OBVIOUS
  <2>2. T \in SUBSET U /\ j \in U /\ j \notin T
    <3>1. \A k \in S : k =< i => k =< j
      BY <1>3, <2>a, <2>b
    <3>2. j =< j /\ ~(j =< i)
      BY <1>3, <2>a
    <3> QED BY <3>1, <3>2
  <2> HIDE DEF T, U
  <2>3. T # U
    BY <2>2
  <2>4. Cardinality(T) =< Cardinality(U) /\ Cardinality(U) # Cardinality(T)
    BY <2>1, <2>2, <2>3, FS_Subset
  <2>5. Cardinality(T) < Cardinality(U)
    BY <2>1, <2>4
  <2> QED BY <2>5 DEF Rank, T, U
<1> QED BY <1>2, <1>3

LEMMA RankOrders ==
    ASSUME NEW m \in Nat, NEW S \in SUBSET (1..m), NEW i \in S, NEW j \in S
    PROVE  /\ i =< j <=> Rank(S, i) =< Rank(S, j)
           /\ i < j <=> Rank(S, i) < Rank(S, j)
           /\ i = j <=> Rank(S, i) = Rank(S, j)
<1>1. Rank(S, i) \in Nat /\ Rank(S, j) \in Nat
  <2>1. Cardinality(S) \in Nat /\ Rank(S, i) \in 1..Cardinality(S) /\ Rank(S, j) \in 1..Cardinality(S)
    BY RankRises, SubsetsAreFinite
  <2> QED BY <2>1
<1>2. i < j => Rank(S, i) < Rank(S, j)
  BY RankRises
<1>3. j < i => Rank(S, j) < Rank(S, i)
  BY RankRises
<1>4. i \in Nat /\ j \in Nat
  OBVIOUS
<1> QED BY <1>1, <1>2, <1>3, <1>4

LEMMA RankReaches ==
    ASSUME NEW m \in Nat, NEW S \in SUBSET (1..m), NEW k \in 1..Cardinality(S)
    PROVE  \E i \in S : Rank(S, i) = k
<1> DEFINE c == Cardinality(S)
           f == [i \in S |-> Rank(S, i)]
<1>1. IsFiniteSet(S) /\ c \in Nat
  BY SubsetsAreFinite
<1>2. f \in [S -> 1..c]
  BY RankRises
<1>3. f \in Injection(S, 1..c)
  <2>1. \A i, j \in S : f[i] = f[j] => i = j
    BY RankOrders
  <2> HIDE DEF f
  <2> QED BY <1>2, <2>1 DEF Injection, IsInjective
<1>4. IsFiniteSet(1..c) /\ Cardinality(1..c) = c
  BY <1>1, FS_Interval
<1>5. f \in Surjection(S, 1..c)
  <2> HIDE DEF f
  <2> QED BY <1>3, <1>4, FS_Injection
<1>6. \E i \in S : f[i] = k
  <2> HIDE DEF f
  <2> QED BY <1>5 DEF Surjection
<1> QED BY <1>6

LEMMA LeastOf ==
    ASSUME NEW m \in Nat, NEW S \in SUBSET (1..m), S # {}
    PROVE  \E i \in S : \A j \in S : i =< j
<1>1. Cardinality(S) \in Nat /\ Cardinality(S) # 0
  BY SubsetsAreFinite, FS_EmptySet
<1>2. PICK i \in S : Rank(S, i) = 1
  <2>1. 1 \in 1..Cardinality(S)
    BY <1>1
  <2> QED BY <2>1, RankReaches
<1>3. ASSUME NEW j \in S PROVE i =< j
  <2>1. Rank(S, j) \in 1..Cardinality(S)
    BY RankRises
  <2>2. Rank(S, i) =< Rank(S, j)
    BY <1>1, <1>2, <2>1
  <2> QED BY <2>2, RankOrders
<1> QED BY <1>3

LEMMA MaxOf ==
    ASSUME NEW m \in Nat, NEW S \in SUBSET (1..m), S # {}
    PROVE  /\ Max(S) \in S
           /\ \A j \in S : j =< Max(S)
           /\ Rank(S, Max(S)) = Cardinality(S)
<1>1. Cardinality(S) \in Nat /\ Cardinality(S) # 0
  BY SubsetsAreFinite, FS_EmptySet
<1>2. PICK i \in S : Rank(S, i) = Cardinality(S)
  <2>1. Cardinality(S) \in 1..Cardinality(S)
    BY <1>1
  <2> QED BY <2>1, RankReaches
<1>3. ASSUME NEW j \in S PROVE j =< i
  <2>1. Rank(S, j) \in 1..Cardinality(S)
    BY RankRises
  <2>2. Rank(S, j) =< Rank(S, i)
    BY <1>1, <1>2, <2>1
  <2> QED BY <2>2, RankOrders
<1>4. Max(S) \in S /\ \A j \in S : Max(S) >= j
  <2>1. \E x \in S : \A y \in S : x >= y
    BY <1>3
  <2> QED BY <2>1 DEF Max
<1>5. i = Max(S)
  <2> DEFINE x == Max(S)
  <2>a. x \in S /\ x >= i /\ x =< i
    BY <1>3, <1>4
  <2> HIDE DEF x
  <2>1. i \in Nat /\ x \in Nat
    BY <2>a
  <2>2. i = x
    BY <2>a, <2>1
  <2> QED BY <2>2 DEF x
<1> QED BY <1>2, <1>3, <1>5

----------------------------------------------------------------------------
(* The values at a set of positions, in the order of the positions. *)

Line(V, S) == [k \in 1..Cardinality(S) |-> V[CHOOSE i \in S : Rank(S, i) = k]]

Values(V, S) == {V[i] : i \in S}

LEMMA LineAt ==
    ASSUME NEW m \in Nat, NEW S \in SUBSET (1..m), NEW V, NEW i \in S
    PROVE  Rank(S, i) \in 1..Cardinality(S) /\ Line(V, S)[Rank(S, i)] = V[i]
<1>1. Rank(S, i) \in 1..Cardinality(S)
  BY RankRises
<1>2. (CHOOSE j \in S : Rank(S, j) = Rank(S, i)) = i
  <2>1. \A j \in S : Rank(S, j) = Rank(S, i) => j = i
    BY RankOrders
  <2> QED BY <2>1
<1> QED BY <1>1, <1>2 DEF Line

LEMMA LineType ==
    ASSUME NEW m \in Nat, NEW S \in SUBSET (1..m), NEW V
    PROVE  /\ Line(V, S) \in Seq(Values(V, S))
           /\ Len(Line(V, S)) = Cardinality(S)
           /\ DOMAIN Line(V, S) = 1..Cardinality(S)
<1> DEFINE X == Values(V, S)
<1>1. Cardinality(S) \in Nat
  BY SubsetsAreFinite
<1>2. ASSUME NEW k \in 1..Cardinality(S) PROVE V[CHOOSE i \in S : Rank(S, i) = k] \in X
  <2>1. \E i \in S : Rank(S, i) = k
    BY RankReaches
  <2>2. (CHOOSE i \in S : Rank(S, i) = k) \in S
    BY <2>1
  <2> QED BY <2>2 DEF Values
<1> HIDE DEF X
<1>3. Line(V, S) \in [1..Cardinality(S) -> X]
  BY <1>2 DEF Line
<1>4. Line(V, S) \in Seq(X) /\ Len(Line(V, S)) = Cardinality(S)
  BY <1>1, <1>3
<1> QED BY <1>3, <1>4 DEF X

LEMMA LineEmpty ==
    ASSUME NEW V
    PROVE  Line(V, {}) = <<>>
<1>1. {} \in SUBSET (1..0)
  OBVIOUS
<1>2. Line(V, {}) \in Seq(Values(V, {})) /\ Len(Line(V, {})) = 0
  BY <1>1, LineType, FS_EmptySet
<1>3. \A X : \A s \in Seq(X) : Len(s) = 0 => s = <<>>
  OBVIOUS
<1> QED BY <1>2, <1>3

LEMMA Appended ==
    ASSUME NEW X, NEW s \in Seq(X), NEW Y, NEW t \in Seq(Y), NEW v,
           Len(s) = Len(t) + 1, \A k \in 1..Len(t) : s[k] = t[k], s[Len(t) + 1] = v
    PROVE  s = Append(t, v)
<1> DEFINE Z == X \cup Y \cup {v}
<1>1. s \in Seq(Z) /\ t \in Seq(Z) /\ v \in Z
  OBVIOUS
<1> HIDE DEF Z
<1>2. Append(t, v) \in Seq(Z) /\ Len(Append(t, v)) = Len(t) + 1
  BY <1>1
<1>3. Len(t) \in Nat
  OBVIOUS
<1>4. ASSUME NEW k \in 1..Len(s) PROVE s[k] = Append(t, v)[k]
  <2>1. CASE k \in 1..Len(t)
    BY <1>1, <2>1
  <2>2. CASE k = Len(t) + 1
    BY <1>1, <2>2
  <2> QED BY <1>3, <2>1, <2>2
<1> QED BY <1>1, <1>2, <1>4

\* A position above those of a set is the last of the line.
LEMMA LineGrows ==
    ASSUME NEW m \in Nat, NEW S \in SUBSET (1..m), NEW V, NEW x \in S, \A j \in S : j =< x
    PROVE  Line(V, S) = Append(Line(V, S \ {x}), V[x])
<1> DEFINE T == S \ {x}
           c == Cardinality(T)
<1>1. T \in SUBSET (1..m) /\ T \in SUBSET S
  OBVIOUS
<1>2. IsFiniteSet(S) /\ c \in Nat /\ Cardinality(S) \in Nat
  BY <1>1, SubsetsAreFinite
<1>3. Cardinality(S) = c + 1
  BY <1>2, FS_RemoveElement
<1>4. ASSUME NEW i \in T PROVE Rank(S, i) = Rank(T, i)
  <2>1. i \in Nat /\ x \in Nat /\ i # x /\ i =< x
    BY <1>1
  <2>2. ~(x =< i)
    BY <2>1
  <2>3. {j \in S : j =< i} = {j \in T : j =< i}
    BY <2>2
  <2> QED BY <2>3 DEF Rank
<1>5. Rank(S, x) = c + 1
  <2>1. {j \in S : j =< x} = S
    OBVIOUS
  <2> QED BY <1>3, <2>1 DEF Rank
<1>6. ASSUME NEW k \in 1..c PROVE Line(V, S)[k] = Line(V, T)[k]
  <2>1. PICK i \in T : Rank(T, i) = k
    BY <1>1, RankReaches
  <2>2. Line(V, T)[k] = V[i]
    BY <1>1, <2>1, LineAt
  <2>3. i \in S /\ Rank(S, i) = k
    BY <1>4, <2>1
  <2>4. Line(V, S)[k] = V[i]
    BY <2>3, LineAt
  <2> QED BY <2>2, <2>4
<1>7. Line(V, S)[c + 1] = V[x]
  <2>1. Line(V, S)[Rank(S, x)] = V[x]
    BY LineAt
  <2> HIDE DEF c
  <2> QED BY <1>5, <2>1
<1>8. Line(V, S) \in Seq(Values(V, S)) /\ Len(Line(V, S)) = Cardinality(S)
  BY LineType
<1>9. Line(V, T) \in Seq(Values(V, T)) /\ Len(Line(V, T)) = c
  <2> HIDE DEF T
  <2> QED BY <1>1, LineType
<1> HIDE DEF T, c
<1>10. Line(V, S) = Append(Line(V, T), V[x])
  BY <1>3, <1>6, <1>7, <1>8, <1>9, Appended
<1> QED BY <1>10 DEF T

LEMMA LastOfLine ==
    ASSUME NEW m \in Nat, NEW S \in SUBSET (1..m), NEW V, S # {}
    PROVE  Line(V, S) # <<>> /\ Last(Line(V, S)) = V[Max(S)]
<1>1. Max(S) \in S /\ Rank(S, Max(S)) = Cardinality(S)
  BY MaxOf
<1>2. Len(Line(V, S)) = Cardinality(S)
  BY LineType
<1>3. Line(V, S)[Len(Line(V, S))] = V[Max(S)]
  BY <1>1, <1>2, LineAt
<1>4. Cardinality(S) # 0
  BY SubsetsAreFinite, FS_EmptySet
<1>5. Len(<<>>) = 0
  OBVIOUS
<1>6. Line(V, S) # <<>>
  BY <1>2, <1>4, <1>5
<1> QED BY <1>3, <1>6 DEF Last

\* The members of A, by their places in S, are those of B.
Corresponds(S, A, B) == \A i \in S : i \in A <=> Rank(S, i) \in B

LEMMA SameCount ==
    ASSUME NEW m \in Nat, NEW S \in SUBSET (1..m), NEW A \in SUBSET S,
           NEW B \in SUBSET (1..Cardinality(S)),
           Corresponds(S, A, B)
    PROVE  Cardinality(A) = Cardinality(B)
<1> DEFINE f == [i \in A |-> Rank(S, i)]
<1>1. IsFiniteSet(A)
  BY SubsetsAreFinite
<1>2. f \in [A -> B]
  BY DEF Corresponds
<1>3. \A i, j \in A : f[i] = f[j] => i = j
  BY RankOrders
<1>4. \A k \in B : \E i \in A : f[i] = k
  <2> SUFFICES ASSUME NEW k \in B PROVE \E i \in A : f[i] = k
    OBVIOUS
  <2>1. PICK i \in S : Rank(S, i) = k
    BY RankReaches
  <2> QED BY <2>1 DEF Corresponds
<1> HIDE DEF f
<1>5. f \in Bijection(A, B)
  BY <1>2, <1>3, <1>4 DEF Bijection, Injection, Surjection, IsInjective
<1>6. ExistsBijection(A, B)
  BY <1>5 DEF ExistsBijection
<1> QED BY <1>1, <1>6, FS_Bijection

\* A line of a line is a line.
LEMMA LineOfLine ==
    ASSUME NEW m \in Nat, NEW S \in SUBSET (1..m), NEW V, NEW A \in SUBSET S,
           NEW B \in SUBSET (1..Cardinality(S)),
           Corresponds(S, A, B)
    PROVE  Line(Line(V, S), B) = Line(V, A)
<1>0. Cardinality(S) \in Nat /\ A \in SUBSET (1..m)
  BY SubsetsAreFinite
<1>1. Cardinality(A) = Cardinality(B)
  BY SameCount
<1>2. ASSUME NEW k \in 1..Cardinality(B) PROVE Line(Line(V, S), B)[k] = Line(V, A)[k]
  <2>1. PICK q \in B : Rank(B, q) = k
    BY <1>0, RankReaches
  <2>2. Line(Line(V, S), B)[k] = Line(V, S)[q]
    BY <1>0, <2>1, LineAt
  <2>3. PICK i \in S : Rank(S, i) = q
    BY RankReaches
  <2>4. Line(V, S)[q] = V[i]
    BY <2>3, LineAt
  <2>5. i \in A
    BY <2>3 DEF Corresponds
  <2>6. Rank(A, i) = k
    <3> DEFINE A1 == {j \in A : j =< i}
               B1 == {p \in B : p =< q}
    <3>1. A1 \in SUBSET S /\ B1 \in SUBSET (1..Cardinality(S))
      OBVIOUS
    <3>2. Corresponds(S, A1, B1)
      <4> SUFFICES ASSUME NEW j \in S PROVE j \in A1 <=> Rank(S, j) \in B1
        BY DEF Corresponds
      <4>1. j =< i <=> Rank(S, j) =< q
        BY <2>3, RankOrders
      <4> QED BY <4>1 DEF Corresponds
    <3>3. Cardinality(A1) = Cardinality(B1)
      <4> HIDE DEF A1, B1
      <4> QED BY <3>1, <3>2, SameCount
    <3> QED BY <2>1, <3>3 DEF Rank
  <2>7. Line(V, A)[k] = V[i]
    BY <1>0, <2>5, <2>6, LineAt
  <2> QED BY <2>2, <2>4, <2>7
<1>3. Line(Line(V, S), B) = [k \in 1..Cardinality(B) |-> Line(Line(V, S), B)[k]]
  BY DEF Line
<1>4. Line(V, A) = [k \in 1..Cardinality(A) |-> Line(V, A)[k]]
  BY DEF Line
<1> QED BY <1>1, <1>2, <1>3, <1>4

----------------------------------------------------------------------------
(* The two loops of search, as the folds that they are. *)

\* Two results that agree after each step agree in the end.
LEMMA SameResult ==
    ASSUME NEW m \in Nat, NEW f, NEW g, f[{}] = g[{}],
           \A k \in 1..m : f[1..(k - 1)] = g[1..(k - 1)] => f[1..k] = g[1..k]
    PROVE  f[1..m] = g[1..m]
<1> DEFINE Bad == {k \in 1..m : f[1..k] # g[1..k]}
<1> SUFFICES ASSUME f[1..m] # g[1..m] PROVE FALSE
  OBVIOUS
<1>1. 1..0 = {}
  OBVIOUS
<1>2. m # 0
  BY <1>1
<1>3. m \in Bad /\ Bad \in SUBSET (1..m) /\ Bad # {}
  BY <1>2
<1>4. PICK k \in Bad : \A j \in Bad : k =< j
  BY <1>3, LeastOf
<1>5. k \in 1..m /\ f[1..k] # g[1..k]
  BY <1>3
<1>6. f[1..(k - 1)] # g[1..(k - 1)]
  BY <1>5
<1>7. k # 1
  BY <1>1, <1>6
<1>8. k - 1 \in 1..m
  BY <1>5, <1>7
<1>9. k - 1 \in Bad
  BY <1>6, <1>8
<1>10. k \in Nat /\ k =< k - 1
  BY <1>4, <1>5, <1>9
<1> QED BY <1>10

LEMMA Interval ==
    ASSUME NEW m \in Nat, NEW k \in 1..m
    PROVE  /\ 1..k \in SUBSET (1..m) /\ 1..k # {}
           /\ Max(1..k) = k
           /\ (1..k) \ {k} = 1..(k - 1)
<1>1. 1..k \in SUBSET (1..m) /\ k \in 1..k /\ 1..k # {}
  OBVIOUS
<1>2. Max(1..k) \in 1..k /\ k =< Max(1..k)
  BY <1>1, MaxOf
<1>3. Max(1..k) = k
  <2> DEFINE x == Max(1..k)
  <2>1. x \in 1..k /\ k =< x
    BY <1>2
  <2> HIDE DEF x
  <2>2. x = k
    BY <2>1
  <2> QED BY <2>2 DEF x
<1> QED BY <1>1, <1>3

\* The fold that keeps the positions of W.
KeepStep(W, V, S, found) == IF Max(S) \in W THEN Append(found, V[Max(S)]) ELSE found
Keep(m, W, V, f) ==
    [S \in SUBSET (1..m) |-> IF S = {} THEN <<>> ELSE KeepStep(W, V, S, f[S \ {Max(S)}])]

LEMMA KeepResult ==
    ASSUME NEW m \in Nat, NEW W \in SUBSET (1..m), NEW V
    PROVE  (CHOOSE f : f = Keep(m, W, V, f))[1..m] = Line(V, W)
<1> DEFINE g == [S \in SUBSET (1..m) |-> Line(V, S \cap W)]
<1>1. g = Keep(m, W, V, g)
  <2>1. ASSUME NEW S \in SUBSET (1..m)
        PROVE  Line(V, S \cap W) = IF S = {} THEN <<>> ELSE KeepStep(W, V, S, g[S \ {Max(S)}])
    <3>1. CASE S = {}
      <4>1. S \cap W = {}
        BY <3>1
      <4> QED BY <3>1, <4>1, LineEmpty
    <3>2. CASE S # {}
      <4>1. Max(S) \in S /\ \A j \in S : j =< Max(S)
        BY <3>2, MaxOf
      <4> DEFINE x == Max(S)
                 T == S \ {x}
      <4>2. g[T] = Line(V, T \cap W)
        OBVIOUS
      <4>3. CASE x \in W
        <5>1. S \cap W \in SUBSET (1..m) /\ x \in S \cap W /\ \A j \in S \cap W : j =< x
          BY <4>1, <4>3
        <5>2. (S \cap W) \ {x} = T \cap W
          OBVIOUS
        <5> HIDE DEF x, T, g
        <5>3. Line(V, S \cap W) = Append(Line(V, (S \cap W) \ {x}), V[x])
          BY <5>1, LineGrows
        <5>4. Line(V, S \cap W) = Append(g[T], V[x])
          BY <4>2, <5>2, <5>3
        <5> QED BY <3>2, <4>3, <5>4 DEF KeepStep, x, T
      <4>4. CASE x \notin W
        <5>1. S \cap W = T \cap W
          BY <4>4
        <5> HIDE DEF x, T, g
        <5>2. Line(V, S \cap W) = g[T]
          BY <4>2, <5>1
        <5> QED BY <3>2, <4>4, <5>2 DEF KeepStep, x, T
      <4> QED BY <4>3, <4>4
    <3> QED BY <3>1, <3>2
  <2> QED BY <2>1 DEF Keep
<1>2. g[1..m] = Line(V, W)
  <2>1. (1..m) \cap W = W
    OBVIOUS
  <2> QED BY <2>1
<1> DEFINE h == CHOOSE f : f = Keep(m, W, V, f)
<1>3. h = Keep(m, W, V, h)
  <2> HIDE DEF g
  <2> QED BY <1>1
<1> HIDE DEF g, h
<1>4. \A f : f = Keep(m, W, V, f) =>
         /\ f[{}] = <<>>
         /\ \A k \in 1..m : f[1..k] = KeepStep(W, V, 1..k, f[1..(k - 1)])
  <2> SUFFICES ASSUME NEW f, f = Keep(m, W, V, f)
               PROVE  /\ f[{}] = <<>>
                      /\ \A k \in 1..m : f[1..k] = KeepStep(W, V, 1..k, f[1..(k - 1)])
    OBVIOUS
  <2>1. \A S \in SUBSET (1..m) : f[S] = IF S = {} THEN <<>> ELSE KeepStep(W, V, S, f[S \ {Max(S)}])
    BY DEF Keep
  <2>2. f[{}] = <<>>
    BY <2>1
  <2>3. ASSUME NEW k \in 1..m PROVE f[1..k] = KeepStep(W, V, 1..k, f[1..(k - 1)])
    <3>1. 1..k \in SUBSET (1..m) /\ 1..k # {} /\ (1..k) \ {Max(1..k)} = 1..(k - 1)
      BY Interval
    <3> QED BY <2>1, <3>1
  <2> QED BY <2>2, <2>3
<1>5. h[{}] = g[{}] /\ \A k \in 1..m : h[1..(k - 1)] = g[1..(k - 1)] => h[1..k] = g[1..k]
  BY <1>1, <1>3, <1>4
<1>6. h[1..m] = g[1..m]
  BY <1>5, SameResult
<1> QED BY <1>2, <1>6 DEF h

----------------------------------------------------------------------------
\* The positions of S whose value is not that of the one before them in S.
Follows(S, i, j) == i < j /\ \A k \in S : k =< i \/ j =< k
Repeated(V, S, j) == \E i \in S : Follows(S, i, j) /\ V[i] = V[j]
Firsts(V, S) == {j \in S : ~Repeated(V, S, j)}

\* The last value of a set is that of the last of its firsts.
LEMMA LastFirst ==
    ASSUME NEW m \in Nat, NEW S \in SUBSET (1..m), S # {}, NEW V
    PROVE  Firsts(V, S) # {} /\ V[Max(Firsts(V, S))] = V[Max(S)]
<1> DEFINE W == Firsts(V, S)
           y == Max(W)
           Bad == {j \in S : y =< j /\ V[j] # V[y]}
<1>1. PICK i \in S : \A j \in S : i =< j
  BY LeastOf
<1>2. i \in W
  <2> SUFFICES ASSUME NEW h \in S, h < i PROVE FALSE
    BY DEF Firsts, Repeated, Follows
  <2>1. i =< h /\ i \in Nat /\ h \in Nat
    BY <1>1
  <2> QED BY <2>1
<1>3. W \in SUBSET (1..m) /\ W \in SUBSET S /\ W # {}
  BY <1>2 DEF Firsts
<1>4. y \in W /\ \A j \in W : j =< y
  <2> HIDE DEF W
  <2> QED BY <1>3, MaxOf
<1> HIDE DEF y
<1>5. Bad = {}
  <2> SUFFICES ASSUME Bad # {} PROVE FALSE
    OBVIOUS
  <2>1. Bad \in SUBSET (1..m)
    OBVIOUS
  <2>2. PICK j \in Bad : \A k \in Bad : j =< k
    <3> HIDE DEF Bad
    <3> QED BY <2>1, LeastOf
  <2>3. j \in S /\ y =< j /\ V[j] # V[y] /\ j \in Nat
    OBVIOUS
  <2>4. y \in S /\ y \in Nat /\ j # y
    BY <1>3, <1>4, <2>3
  <2>5. j \notin W
    <3>1. ~(j =< y)
      BY <2>3, <2>4
    <3> QED BY <1>4, <3>1
  <2>6. PICK k \in S : Follows(S, k, j) /\ V[k] = V[j]
    BY <2>3, <2>5 DEF Firsts, Repeated
  <2>7. k < j /\ k \in Nat /\ (y =< k \/ j =< y)
    BY <2>4, <2>6 DEF Follows
  <2>8. y =< k
    BY <2>3, <2>4, <2>7
  <2>9. k \in Bad
    BY <2>3, <2>6, <2>8
  <2>10. j =< k
    BY <2>2, <2>9
  <2> QED BY <2>3, <2>7, <2>10
<1>6. Max(S) \in S /\ \A j \in S : j =< Max(S)
  BY MaxOf
<1>7. y =< Max(S)
  BY <1>3, <1>4, <1>6
<1>8. V[Max(S)] = V[y]
  BY <1>5, <1>6, <1>7
<1> QED BY <1>3, <1>8 DEF y

\* Whether a position is a first depends on those below it only.
LEMMA FirstsBelow ==
    ASSUME NEW m \in Nat, NEW S \in SUBSET (1..m), NEW V, NEW x \in S, \A j \in S : j =< x
    PROVE  Firsts(V, S) \ {x} = Firsts(V, S \ {x})
<1> DEFINE T == S \ {x}
<1>0. \A i, j \in S : i \in Nat /\ j \in Nat
  OBVIOUS
<1>1. ASSUME NEW j \in T PROVE Repeated(V, S, j) <=> Repeated(V, T, j)
  <2>1. \A i \in S : i < j => i # x
    BY <1>0
  <2>2. \A i \in S : Follows(S, i, j) <=> Follows(T, i, j)
    <3>1. j =< x
      OBVIOUS
    <3> QED BY <3>1 DEF Follows
  <2>3. \A i \in S : Follows(S, i, j) => i \in T
    BY <2>1 DEF Follows
  <2> QED BY <2>2, <2>3 DEF Repeated
<1>2. Firsts(V, S) \ {x} = {j \in T : ~Repeated(V, S, j)}
  BY DEF Firsts
<1> QED BY <1>1, <1>2 DEF Firsts

\* A position is a repetition if its value is that of the one below it.
LEMMA FirstOnTop ==
    ASSUME NEW m \in Nat, NEW S \in SUBSET (1..m), NEW V, NEW x \in S, \A j \in S : j =< x
    PROVE  x \in Firsts(V, S) <=> ~(S \ {x} # {} /\ V[Max(S \ {x})] = V[x])
<1> DEFINE T == S \ {x}
<1>0. T \in SUBSET (1..m)
  OBVIOUS
<1>1. CASE T = {}
  <2>1. \A i \in S : ~(i < x)
    BY <1>1
  <2> QED BY <1>1, <2>1 DEF Firsts, Repeated, Follows
<1>2. CASE T # {}
  <2> DEFINE t == Max(T)
  <2>1. t \in T /\ \A j \in T : j =< t
    <3> HIDE DEF T
    <3> QED BY <1>0, <1>2, MaxOf
  <2> HIDE DEF t
  <2>2. \A i \in S : i \in Nat
    OBVIOUS
  <2>3. t \in S /\ t # x /\ t =< x /\ t < x
    BY <2>1, <2>2
  <2>4. Follows(S, t, x)
    <3>1. \A k \in S : k =< t \/ x =< k
      BY <2>1, <2>2
    <3> QED BY <2>3, <3>1 DEF Follows
  <2>5. ASSUME NEW i \in S, Follows(S, i, x) PROVE i = t
    <3>1. i < x /\ (t =< i \/ x =< t)
      BY <2>3, <2>5 DEF Follows
    <3>2. i \in T
      BY <2>2, <3>1
    <3>3. i =< t
      BY <2>1, <3>2
    <3> QED BY <2>2, <2>3, <3>1, <3>3
  <2>6. Repeated(V, S, x) <=> V[t] = V[x]
    BY <2>3, <2>4, <2>5 DEF Repeated
  <2> QED BY <1>2, <2>6 DEF Firsts, t
<1> QED BY <1>1, <1>2

\* The fold of Unique.
UniqueStep(V, S, kept) ==
    IF kept # <<>> /\ Last(kept) = V[Max(S)] THEN kept ELSE Append(kept, V[Max(S)])
UniqueLoop(m, V, f) ==
    [S \in SUBSET (1..m) |-> IF S = {} THEN <<>> ELSE UniqueStep(V, S, f[S \ {Max(S)}])]

LEMMA UniqueResult ==
    ASSUME NEW m \in Nat, NEW V
    PROVE  (CHOOSE f : f = UniqueLoop(m, V, f))[1..m] = Line(V, Firsts(V, 1..m))
<1> DEFINE g == [S \in SUBSET (1..m) |-> Line(V, Firsts(V, S))]
<1>1. g = UniqueLoop(m, V, g)
  <2>1. ASSUME NEW S \in SUBSET (1..m)
        PROVE  Line(V, Firsts(V, S)) = IF S = {} THEN <<>> ELSE UniqueStep(V, S, g[S \ {Max(S)}])
    <3>1. CASE S = {}
      <4>1. Firsts(V, S) = {}
        BY <3>1 DEF Firsts
      <4> QED BY <3>1, <4>1, LineEmpty
    <3>2. CASE S # {}
      <4> DEFINE x == Max(S)
                 T == S \ {x}
                 W == Firsts(V, S)
                 U == Firsts(V, T)
      <4>1. x \in S /\ \A j \in S : j =< x
        BY <3>2, MaxOf
      <4>2. g[T] = Line(V, U)
        OBVIOUS
      <4>3. T \in SUBSET (1..m) /\ W \in SUBSET (1..m) /\ U \in SUBSET (1..m)
        BY DEF Firsts
      <4> HIDE DEF x, g
      <4>4. W \ {x} = U
        BY <4>1, FirstsBelow
      <4>5. x \in W <=> ~(T # {} /\ V[Max(T)] = V[x])
        BY <4>1, FirstOnTop
      <4> HIDE DEF T, W, U
      <4>6. T # {} => Line(V, U) # <<>> /\ Last(Line(V, U)) = V[Max(T)]
        <5> SUFFICES ASSUME T # {} PROVE Line(V, U) # <<>> /\ Last(Line(V, U)) = V[Max(T)]
          OBVIOUS
        <5>1. U # {} /\ V[Max(U)] = V[Max(T)]
          BY <4>3, LastFirst DEF U
        <5>2. Line(V, U) # <<>> /\ Last(Line(V, U)) = V[Max(U)]
          BY <4>3, <5>1, LastOfLine
        <5> QED BY <5>1, <5>2
      <4>7. T = {} => Line(V, U) = <<>>
        <5>1. T = {} => U = {}
          BY DEF U, Firsts
        <5> QED BY <5>1, LineEmpty
      <4>8. CASE x \in W
        <5>1. \A j \in W : j =< x
          BY <4>1 DEF W, Firsts
        <5>2. Line(V, W) = Append(Line(V, U), V[x])
          BY <4>3, <4>4, <4>8, <5>1, LineGrows
        <5>3. ~(Line(V, U) # <<>> /\ Last(Line(V, U)) = V[x])
          BY <4>5, <4>6, <4>7, <4>8
        <5>4. Line(V, W) = UniqueStep(V, S, g[T])
          BY <4>2, <5>2, <5>3 DEF UniqueStep, x
        <5> QED BY <3>2, <5>4 DEF T, W, x
      <4>9. CASE x \notin W
        <5>1. W = U
          BY <4>4, <4>9
        <5>2. Line(V, U) # <<>> /\ Last(Line(V, U)) = V[x]
          BY <4>5, <4>6, <4>9
        <5>3. Line(V, W) = UniqueStep(V, S, g[T])
          BY <4>2, <5>1, <5>2 DEF UniqueStep, x
        <5> QED BY <3>2, <5>3 DEF T, W, x
      <4> QED BY <4>8, <4>9
    <3> QED BY <3>1, <3>2
  <2> QED BY <2>1 DEF UniqueLoop
<1>2. g[1..m] = Line(V, Firsts(V, 1..m))
  OBVIOUS
<1> DEFINE h == CHOOSE f : f = UniqueLoop(m, V, f)
<1>3. h = UniqueLoop(m, V, h)
  <2> HIDE DEF g
  <2> QED BY <1>1
<1> HIDE DEF g, h
<1>4. \A f : f = UniqueLoop(m, V, f) =>
         /\ f[{}] = <<>>
         /\ \A k \in 1..m : f[1..k] = UniqueStep(V, 1..k, f[1..(k - 1)])
  <2> SUFFICES ASSUME NEW f, f = UniqueLoop(m, V, f)
               PROVE  /\ f[{}] = <<>>
                      /\ \A k \in 1..m : f[1..k] = UniqueStep(V, 1..k, f[1..(k - 1)])
    OBVIOUS
  <2>1. \A S \in SUBSET (1..m) : f[S] = IF S = {} THEN <<>> ELSE UniqueStep(V, S, f[S \ {Max(S)}])
    BY DEF UniqueLoop
  <2>2. f[{}] = <<>>
    BY <2>1
  <2>3. ASSUME NEW k \in 1..m PROVE f[1..k] = UniqueStep(V, 1..k, f[1..(k - 1)])
    <3>1. 1..k \in SUBSET (1..m) /\ 1..k # {} /\ (1..k) \ {Max(1..k)} = 1..(k - 1)
      BY Interval
    <3> QED BY <2>1, <3>1
  <2> QED BY <2>2, <2>3
<1>5. h[{}] = g[{}] /\ \A k \in 1..m : h[1..(k - 1)] = g[1..(k - 1)] => h[1..k] = g[1..k]
  BY <1>1, <1>3, <1>4
<1>6. h[1..m] = g[1..m]
  BY <1>5, SameResult
<1> QED BY <1>2, <1>6 DEF h

\* The firsts of a line are those of the set that it shows.
LEMMA FirstsOfLine ==
    ASSUME NEW m \in Nat, NEW S \in SUBSET (1..m), NEW V
    PROVE  Corresponds(S, Firsts(V, S), Firsts(Line(V, S), 1..Cardinality(S)))
<1> DEFINE c == Cardinality(S)
           L == Line(V, S)
<1>1. ASSUME NEW i \in S PROVE Repeated(V, S, i) <=> Repeated(L, 1..c, Rank(S, i))
  <2> DEFINE r == Rank(S, i)
  <2>0. L[r] = V[i] /\ r \in 1..c
    BY LineAt
  <2>1. ASSUME NEW h \in S PROVE Follows(S, h, i) <=> Follows(1..c, Rank(S, h), r)
    <3>1. h < i <=> Rank(S, h) < r
      BY RankOrders
    <3>2. \A k \in S : k =< h \/ i =< k <=> Rank(S, k) =< Rank(S, h) \/ r =< Rank(S, k)
      BY RankOrders
    <3>3. \A k \in S : Rank(S, k) \in 1..c
      BY RankRises
    <3>4. \A p \in 1..c : \E k \in S : Rank(S, k) = p
      BY RankReaches
    <3> HIDE DEF c, r
    <3>5. (\A k \in S : k =< h \/ i =< k) <=> (\A p \in 1..c : p =< Rank(S, h) \/ r =< p)
      BY <3>2, <3>3, <3>4
    <3> QED BY <3>1, <3>5 DEF Follows
  <2>2. ASSUME NEW h \in S PROVE L[Rank(S, h)] = V[h] /\ Rank(S, h) \in 1..c
    BY LineAt
  <2>3. \A p \in 1..c : \E h \in S : Rank(S, h) = p
    BY RankReaches
  <2> HIDE DEF c, L, r
  <2>4. Repeated(V, S, i) => Repeated(L, 1..c, r)
    BY <2>0, <2>1, <2>2 DEF Repeated
  <2>5. Repeated(L, 1..c, r) => Repeated(V, S, i)
    BY <2>0, <2>1, <2>2, <2>3 DEF Repeated
  <2> QED BY <2>4, <2>5 DEF r
<1>2. ASSUME NEW i \in S PROVE Rank(S, i) \in 1..c
  BY RankRises
<1> HIDE DEF c, L
<1>3. Corresponds(S, Firsts(V, S), Firsts(L, 1..c))
  BY <1>1, <1>2 DEF Corresponds, Firsts
<1> QED BY <1>3 DEF c, L

\* The last n of a line.
LastOnes(S, n) == {i \in S : Cardinality({j \in S : i < j}) < n}

LEMMA LastOnesByRank ==
    ASSUME NEW m \in Nat, NEW S \in SUBSET (1..m), NEW n \in Nat
    PROVE  LastOnes(S, n) = {i \in S : Rank(S, i) > Cardinality(S) - n}
<1>1. ASSUME NEW i \in S PROVE Cardinality({j \in S : i < j}) = Cardinality(S) - Rank(S, i)
  <2> DEFINE T == {j \in S : j =< i}
  <2>1. {j \in S : i < j} = S \ T
    <3>1. \A j \in S : i < j <=> ~(j =< i)
      OBVIOUS
    <3> QED BY <3>1
  <2>2. S \cap T = T
    OBVIOUS
  <2>3. IsFiniteSet(S)
    BY SubsetsAreFinite
  <2> HIDE DEF T
  <2>4. Cardinality(S \ T) = Cardinality(S) - Cardinality(T)
    BY <2>2, <2>3, FS_Difference
  <2> QED BY <2>1, <2>4 DEF T, Rank
<1>2. ASSUME NEW i \in S PROVE Cardinality({j \in S : i < j}) < n <=> Rank(S, i) > Cardinality(S) - n
  <2>1. Cardinality(S) \in Nat /\ Rank(S, i) \in 1..Cardinality(S)
    BY SubsetsAreFinite, RankRises
  <2>2. \A a, b \in Nat : a - b < n <=> b > a - n
    OBVIOUS
  <2> QED BY <1>1, <2>1, <2>2
<1> QED BY <1>2 DEF LastOnes

LEMMA TailOfSequence ==
    ASSUME NEW X, NEW s \in Seq(X), NEW a \in Nat, NEW n \in Nat, Len(s) = a + n
    PROVE  SubSeq(s, a + 1, Len(s)) = [k \in 1..n |-> s[a + k]]
<1> DEFINE t == SubSeq(s, a + 1, Len(s))
<1>1. t \in Seq(X) /\ Len(t) = n
  BY SMT
<1>2. ASSUME NEW k \in 1..n PROVE t[k] = s[a + k]
  <2>1. k \in 1..(Len(s) - (a + 1) + 1)
    OBVIOUS
  <2>2. t[k] = s[(a + 1) + k - 1]
    BY <2>1, SMT
  <2>3. (a + 1) + k - 1 = a + k
    OBVIOUS
  <2> QED BY <2>2, <2>3
<1> HIDE DEF t
<1>3. t = [k \in 1..n |-> t[k]]
  BY <1>1
<1> QED BY <1>2, <1>3 DEF t

LEMMA LineTail ==
    ASSUME NEW m \in Nat, NEW S \in SUBSET (1..m), NEW V, NEW n \in Nat, n < Cardinality(S)
    PROVE  SubSeq(Line(V, S), Cardinality(S) - n + 1, Cardinality(S)) = Line(V, LastOnes(S, n))
<1> DEFINE c == Cardinality(S)
           a == c - n
           B == (a + 1)..c
           L == Line(V, S)
<1>1. c \in Nat /\ a \in Nat /\ a + n = c /\ a # 0
  <2>1. c \in Nat
    BY SubsetsAreFinite
  <2> QED BY <2>1
<1>2. L \in Seq(Values(V, S)) /\ Len(L) = c
  BY LineType
<1> HIDE DEF L, c
<1>3. B \in SUBSET (1..c) /\ Cardinality(B) = n
  <2>1. Cardinality(B) = IF a + 1 > c THEN 0 ELSE c - (a + 1) + 1
    BY <1>1, FS_Interval
  <2> QED BY <1>1, <2>1
<1>4. Line(L, B) = Line(V, LastOnes(S, n))
  <2>1. LastOnes(S, n) = {i \in S : Rank(S, i) > a}
    BY LastOnesByRank DEF c
  <2>2. \A i \in S : Rank(S, i) \in 1..c
    BY RankRises DEF c
  <2>3. Corresponds(S, LastOnes(S, n), B)
    BY <1>1, <2>1, <2>2 DEF Corresponds
  <2>4. LastOnes(S, n) \in SUBSET S
    BY DEF LastOnes
  <2> HIDE DEF B
  <2> QED BY <1>3, <2>3, <2>4, LineOfLine DEF L, c
<1>5. ASSUME NEW k \in 1..n PROVE Line(L, B)[k] = L[a + k]
  <2>1. a + k \in B
    BY <1>1
  <2>2. Rank(B, a + k) = k
    <3>1. {j \in B : j =< a + k} = (a + 1)..(a + k)
      BY <1>1
    <3>2. Cardinality((a + 1)..(a + k)) = IF a + 1 > a + k THEN 0 ELSE (a + k) - (a + 1) + 1
      BY <1>1, FS_Interval
    <3>3. Cardinality((a + 1)..(a + k)) = k
      BY <1>1, <3>2
    <3> QED BY <3>1, <3>3 DEF Rank
  <2> DEFINE p == a + k
  <2>3. p \in B /\ Rank(B, p) = k
    BY <2>1, <2>2
  <2> HIDE DEF B, a, p
  <2>4. Line(L, B)[Rank(B, p)] = L[p]
    BY <1>1, <1>3, <2>3, LineAt
  <2> QED BY <2>3, <2>4 DEF p
<1>6. Line(L, B) = [k \in 1..n |-> Line(L, B)[k]]
  <2> HIDE DEF B
  <2> QED BY <1>3 DEF Line
<1>7. SubSeq(L, a + 1, c) = [k \in 1..n |-> L[a + k]]
  <2> HIDE DEF a
  <2> QED BY <1>1, <1>2, TailOfSequence
<1>8. SubSeq(L, a + 1, c) = Line(L, B)
  <2> HIDE DEF a, B
  <2> QED BY <1>5, <1>6, <1>7
<1> QED BY <1>4, <1>8 DEF L, c

----------------------------------------------------------------------------
(* search *)

Views(output) == [i \in 1..Size |-> View(history[i], output)]
Matching(pattern) == {i \in 1..Size : history[i].input \in pattern}

LEMMA MatchesLine ==
    ASSUME TypeOK, NEW pattern, NEW output
    PROVE  Matches(pattern, output) = Line(Views(output), Matching(pattern))
<1> DEFINE W == Matching(pattern)
           V == Views(output)
           Loop(f) ==
               [S \in SUBSET DOMAIN history |->
                   IF S = {} THEN <<>>
                   ELSE IF history[Max(S)].input \in pattern
                        THEN Append(f[S \ {Max(S)}], View(history[Max(S)], output))
                        ELSE f[S \ {Max(S)}]]
<1>1. Matches(pattern, output) = (CHOOSE f : f = Loop(f))[DOMAIN history]
  BY DEF Matches, FoldLeft, MapThenFoldSet
<1>2. Size \in Nat /\ DOMAIN history = 1..Size
  BY DEF TypeOK, Size
<1>3. W \in SUBSET (1..Size)
  BY DEF Matching
<1>4. ASSUME NEW f PROVE Loop(f) = Keep(Size, W, V, f)
  <2>1. ASSUME NEW S \in SUBSET (1..Size), S # {}
        PROVE  (IF history[Max(S)].input \in pattern
                THEN Append(f[S \ {Max(S)}], View(history[Max(S)], output))
                ELSE f[S \ {Max(S)}]) = KeepStep(W, V, S, f[S \ {Max(S)}])
    <3>1. Max(S) \in 1..Size
      BY <1>2, <2>1, MaxOf
    <3>2. V[Max(S)] = View(history[Max(S)], output)
      BY <3>1 DEF Views
    <3>3. Max(S) \in W <=> history[Max(S)].input \in pattern
      BY <3>1 DEF Matching
    <3> HIDE DEF V, W
    <3> QED BY <3>2, <3>3 DEF KeepStep
  <2> HIDE DEF V, W
  <2> QED BY <1>2, <2>1 DEF Keep
<1>5. (CHOOSE f : f = Loop(f)) = (CHOOSE f : f = Keep(Size, W, V, f))
  <2> HIDE DEF Loop, V, W
  <2> QED BY <1>4
<1>6. (CHOOSE f : f = Keep(Size, W, V, f))[1..Size] = Line(V, W)
  <2> HIDE DEF V, W
  <2> QED BY <1>2, <1>3, KeepResult
<1> QED BY <1>1, <1>2, <1>5, <1>6

LEMMA UniqueLine ==
    ASSUME NEW m \in Nat, NEW lines, DOMAIN lines = 1..m
    PROVE  Unique(lines) = Line(lines, Firsts(lines, 1..m))
<1> DEFINE Loop(f) ==
               [S \in SUBSET DOMAIN lines |->
                   IF S = {} THEN <<>>
                   ELSE IF f[S \ {Max(S)}] # <<>> /\ Last(f[S \ {Max(S)}]) = lines[Max(S)]
                        THEN f[S \ {Max(S)}]
                        ELSE Append(f[S \ {Max(S)}], lines[Max(S)])]
<1>1. Unique(lines) = (CHOOSE f : f = Loop(f))[DOMAIN lines]
  BY DEF Unique, FoldLeft, MapThenFoldSet
<1>2. ASSUME NEW f PROVE Loop(f) = UniqueLoop(m, lines, f)
  BY DEF UniqueLoop, UniqueStep
<1>3. (CHOOSE f : f = Loop(f)) = (CHOOSE f : f = UniqueLoop(m, lines, f))
  <2> HIDE DEF Loop
  <2> QED BY <1>2
<1> QED BY <1>1, <1>3, UniqueResult

LEMMA UniqueOfLine ==
    ASSUME NEW m \in Nat, NEW S \in SUBSET (1..m), NEW V
    PROVE  Unique(Line(V, S)) = Line(V, Firsts(V, S))
<1> DEFINE c == Cardinality(S)
           L == Line(V, S)
<1>1. c \in Nat /\ DOMAIN L = 1..c
  BY SubsetsAreFinite, LineType
<1>2. Corresponds(S, Firsts(V, S), Firsts(L, 1..c))
  BY FirstsOfLine
<1>3. Firsts(V, S) \in SUBSET S /\ Firsts(L, 1..c) \in SUBSET (1..c)
  BY DEF Firsts
<1>4. Line(L, Firsts(L, 1..c)) = Line(V, Firsts(V, S))
  <2> DEFINE A == Firsts(V, S)
             B == Firsts(L, 1..c)
  <2>1. A \in SUBSET S /\ B \in SUBSET (1..Cardinality(S)) /\ Corresponds(S, A, B)
    BY <1>2, <1>3
  <2> HIDE DEF A, B
  <2>2. Line(Line(V, S), B) = Line(V, A)
    BY <2>1, LineOfLine
  <2> QED BY <2>2 DEF A, B
<1> HIDE DEF c, L
<1>5. Unique(L) = Line(L, Firsts(L, 1..c))
  BY <1>1, UniqueLine
<1> QED BY <1>4, <1>5 DEF L

\* The positions that unique leaves.
Remaining(V, S, unique) == IF unique THEN Firsts(V, S) ELSE S

\* What clean_history leaves of a line.
LEMMA CleanLine ==
    ASSUME NEW m \in Nat, NEW S \in SUBSET (1..m), NEW V, NEW n \in Nat, NEW unique
    PROVE  clean_history(Line(V, S), n, unique) =
               Ok(Line(V, LastOnes(Remaining(V, S, unique), n)))
<1> DEFINE W == Remaining(V, S, unique)
           kept == IF unique THEN Unique(Line(V, S)) ELSE Line(V, S)
           c == Cardinality(W)
<1>1. W \in SUBSET (1..m)
  BY DEF Firsts, Remaining
<1>2. kept = Line(V, W)
  BY UniqueOfLine DEF Remaining
<1> HIDE DEF W
<1>3. c \in Nat /\ Len(kept) = c
  BY <1>1, <1>2, SubsetsAreFinite, LineType
<1>4. clean_history(Line(V, S), n, unique) =
          IF c - n > c THEN Undefined
          ELSE IF c - n > 0 THEN Ok(SubSeq(kept, c - n + 1, c)) ELSE Ok(kept)
  <2> HIDE DEF c
  <2> QED BY <1>3 DEF clean_history
<1>5. CASE n < c
  <2>1. SubSeq(kept, c - n + 1, c) = Line(V, LastOnes(W, n))
    BY <1>1, <1>2, <1>5, LineTail
  <2> HIDE DEF c, kept
  <2>2. c - n > 0 /\ ~(c - n > c)
    BY <1>3, <1>5
  <2> QED BY <1>4, <2>1, <2>2 DEF W
<1>6. CASE ~(n < c)
  <2>1. \A i \in W : Rank(W, i) \in 1..c
    BY <1>1, RankRises
  <2>2. LastOnes(W, n) = {i \in W : Rank(W, i) > c - n}
    BY <1>1, LastOnesByRank
  <2> HIDE DEF c, kept
  <2>3. LastOnes(W, n) = W
    BY <1>3, <1>6, <2>1, <2>2
  <2>4. ~(c - n > 0) /\ ~(c - n > c)
    BY <1>3, <1>6
  <2> QED BY <1>2, <1>4, <2>3, <2>4 DEF W
<1> QED BY <1>5, <1>6

LEMMA LineLists ==
    ASSUME TypeOK, NEW S \in SUBSET (1..Size), NEW output
    PROVE  Lists(Ok(Line(Views(output), S)), S, output)
<1>1. Size \in Nat
  BY DEF TypeOK, Size
<1>2. Len(Line(Views(output), S)) = Cardinality(S)
  BY <1>1, LineType
<1>3. ASSUME NEW i \in S
      PROVE  Line(Views(output), S)[Cardinality({j \in S : j =< i})] = View(history[i], output)
  <2>1. Line(Views(output), S)[Rank(S, i)] = Views(output)[i]
    BY <1>1, LineAt
  <2> QED BY <2>1 DEF Rank, Views
<1> QED BY <1>2, <1>3 DEF Lists, Ok

LEMMA SearchContent ==
    ASSUME NEW content \in SearchContents
    PROVE  /\ Value(content, "hist_access_type", "tail") = "search"
           /\ Value(content, "n", 10) \in Nat
<1> DEFINE C0 == {[hist_access_type |-> "search"]}
           C1 == Optional(C0, "n", Counts)
           C2 == Optional(C1, "pattern", SUBSET Inputs)
           C3 == Optional(C2, "output", BOOLEAN)
<1>1. PICK c3 \in C3 : \A k, d : k # "unique" => Value(content, k, d) = Value(c3, k, d)
  BY OptionalValue DEF SearchContents
<1>2. PICK c2 \in C2 : \A k, d : k # "output" => Value(c3, k, d) = Value(c2, k, d)
  BY OptionalValue
<1>3. PICK c1 \in C1 : \A k, d : k # "pattern" => Value(c2, k, d) = Value(c1, k, d)
  BY OptionalValue
<1>4. PICK c0 \in C0 : /\ \A k, d : k # "n" => Value(c1, k, d) = Value(c0, k, d)
                       /\ \A d : Value(c1, "n", d) \in Counts \cup {Value(c0, "n", d)}
  BY OptionalValue
<1>5. Value(c0, "hist_access_type", "tail") = "search" /\ Value(c0, "n", 10) = 10
  BY DEF Value
<1>6. Counts \cup {10} \subseteq Nat
  BY MaxLenAssumption DEF Counts
<1>7. Value(content, "hist_access_type", "tail") = Value(c0, "hist_access_type", "tail")
  BY <1>1, <1>2, <1>3, <1>4
<1>8. Value(content, "n", 10) \in Counts \cup {10}
  BY <1>1, <1>2, <1>3, <1>4, <1>5
<1>9. Value(content, "n", 10) \in Nat
  BY <1>6, <1>8
<1>10. Value(content, "hist_access_type", "tail") = "search"
  BY <1>5, <1>7
<1> QED BY <1>9, <1>10

\* Requests that search answer with the last n of the lines that match, in
\* their order and without those that repeat the match before them if unique is
\* asked for, for histories of any length and for every combination of absent keys.
THEOREM SearchCorrect == Spec => []SearchAnswers
<1>1. ASSUME TypeOK PROVE SearchAnswers
  <2> DEFINE Answer(content) ==
          LET output  == Value(content, "output", FALSE)
              n       == Value(content, "n", 10)
              Found   == {i \in 1..Size : history[i].input \in Value(content, "pattern", Inputs)}
              Before(i, j) == i < j /\ \A k \in Found : k =< i \/ j =< k
              Repeats(j) == \E i \in Found : Before(i, j) /\ View(history[i], output) = View(history[j], output)
              Wanted  == IF Value(content, "unique", FALSE) THEN {j \in Found : ~Repeats(j)} ELSE Found
          IN  Lists(process_request(content),
                    {i \in Wanted : Cardinality({j \in Wanted : i < j}) < n},
                    output)
  <2> SUFFICES ASSUME NEW content \in SearchContents PROVE Answer(content)
    BY DEF SearchAnswers
  <2> DEFINE output == Value(content, "output", FALSE)
             n == Value(content, "n", 10)
             unique == Value(content, "unique", FALSE)
             Found == Matching(Value(content, "pattern", Inputs))
             V == Views(output)
             Wanted == Remaining(V, Found, unique)
  <2>1. n \in Nat /\ Size \in Nat /\ Found \in SUBSET (1..Size)
    BY <1>1, SearchContent DEF TypeOK, Size, Matching
  <2>2. process_request(content) = search(Value(content, "pattern", Inputs), output, n, unique)
    BY SearchContent DEF process_request
  <2>3. process_request(content) = clean_history(Line(V, Found), n, unique)
    BY <1>1, <2>2, MatchesLine DEF search
  <2>4. LastOnes(Wanted, n) \in SUBSET (1..Size)
    BY <2>1 DEF LastOnes, Firsts, Remaining
  <2>5. Lists(process_request(content), LastOnes(Wanted, n), output)
    <3> HIDE DEF n, output, unique, Found
    <3>1. clean_history(Line(V, Found), n, unique) = Ok(Line(V, LastOnes(Wanted, n)))
      BY <2>1, CleanLine
    <3> HIDE DEF Wanted
    <3> QED BY <1>1, <2>3, <2>4, <3>1, LineLists
  <2>6. Firsts(V, Found) =
            {j \in Found : ~\E i \in Found : /\ i < j /\ \A k \in Found : k =< i \/ j =< k
                                             /\ View(history[i], output) = View(history[j], output)}
    <3>1. \A i \in Found : V[i] = View(history[i], output)
      BY <2>1 DEF Views
    <3> DEFINE Near(i, j) == i < j /\ \A k \in Found : k =< i \/ j =< k
               Again(i, j) == View(history[i], output) = View(history[j], output)
    <3>2. \A i, j \in Found : V[i] = V[j] <=> Again(i, j)
      BY <3>1
    <3>a. \A i, j : Follows(Found, i, j) <=> Near(i, j)
      BY DEF Follows
    <3> HIDE DEF Found, V, output, Again, Near
    <3>3. \A j \in Found : Repeated(V, Found, j) <=>
              \E i \in Found : Near(i, j) /\ Again(i, j)
      BY <3>2, <3>a DEF Repeated
    <3>4. Firsts(V, Found) = {j \in Found : ~\E i \in Found : Near(i, j) /\ Again(i, j)}
      BY <3>3 DEF Firsts
    <3> QED BY <3>4 DEF Again, Near
  <2> QED BY <2>5, <2>6 DEF LastOnes, Matching, Remaining
<1>2. TypeOK => SearchAnswers
  BY <1>1
<1> QED BY <1>2, TypeCorrect, PTL
=============================================================================
