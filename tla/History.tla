------------------------------ MODULE History ------------------------------
(***************************************************************************)
(* The history that xeus keeps in memory.  The core stores the input of    *)
(* each execution (KernelCore says which and in what order), and           *)
(* history_request asks for its tail, a range of it, or the lines that     *)
(* match a pattern.  The requests change nothing: they are operators of    *)
(* the state, and the properties make every request in every state.        *)
(*                                                                         *)
(* Sessions are left out, the core has one and no query looks at it.  A    *)
(* pattern is the set of the inputs that it matches.                       *)
(***************************************************************************)
EXTENDS Integers, FiniteSets, SequencesExt

CONSTANTS
    LineNumbers, Inputs, Outputs,
    MaxLen  \* bound on the lines stored

ASSUME MaxLenAssumption == MaxLen \in Nat

VARIABLE history  \* m_history

Entries == [line : LineNumbers, input : Inputs, output : Outputs]

----------------------------------------------------------------------------
(* Replies.  "undefined" is what happens when iterators leave the list. *)

Ok(lines) == [status |-> "ok", history |-> lines]
Error == [status |-> "error", history |-> <<>>]
Undefined == [status |-> "undefined", history |-> <<>>]
Null == [status |-> "null", history |-> <<>>]

Size == Len(history)

Least(a, b) == IF a < b THEN a ELSE b

\* A line as a reply shows it: the short entries have no output.
View(e, output) == IF output THEN e ELSE [line |-> e.line, input |-> e.input]

\* count lines after the first start ones.
Copy(start, count, output) == [i \in 1..count |-> View(history[start + i], output)]

\* Mutant: the lines are taken from the front.
TailFromFront(n, output) ==
    LET count == Least(n, Size)
    IN  IF count < 0 THEN Undefined ELSE Ok(Copy(0, count, output))

get_tail(n, output) ==
    LET count == Least(n, Size)
    IN  IF count < 0 THEN Undefined ELSE Ok(Copy(Size - count, count, output))

\* Mutant: the test that the first position exists is missing.
RangeUnchecked(start, stop, output) ==
    LET count == Least(stop, Size) - start
    IN  IF start > stop THEN Error
        ELSE IF start < 0 \/ count < 0 THEN Undefined
        ELSE Ok(Copy(start, count, output))

\* Positions count from zero, whatever numbers the lines have.
get_range(start, stop, output) ==
    LET count == Least(stop, Size) - start
    IN  IF start > stop \/ start > Size THEN Error
        ELSE IF start < 0 \/ count < 0 THEN Undefined
        ELSE Ok(Copy(start, count, output))

\* std::unique drops a line that equals the one kept before it.
Unique(lines) ==
    FoldLeft(LAMBDA kept, e : IF kept # <<>> /\ Last(kept) = e THEN kept ELSE Append(kept, e),
             <<>>, lines)

\* Mutant: the lines are counted before the repeated ones are dropped.
CleanThenUnique(lines, n, unique) ==
    LET nb_erase == Len(lines) - n
        kept     == IF nb_erase > 0 THEN SubSeq(lines, nb_erase + 1, Len(lines)) ELSE lines
    IN  IF nb_erase > Len(lines) THEN Undefined
        ELSE Ok(IF unique THEN Unique(kept) ELSE kept)

clean_history(lines, n, unique) ==
    LET kept     == IF unique THEN Unique(lines) ELSE lines
        nb_erase == Len(kept) - n
    IN  IF nb_erase > Len(kept) THEN Undefined
        ELSE IF nb_erase > 0 THEN Ok(SubSeq(kept, nb_erase + 1, Len(kept)))
        ELSE Ok(kept)

\* The lines that match, in order: copy_if for long entries, transform_if for
\* short ones.
Matches(pattern, output) ==
    FoldLeft(LAMBDA found, e :
                 IF e.input \in pattern THEN Append(found, View(e, output)) ELSE found,
             <<>>, history)

search(pattern, output, n, unique) == clean_history(Matches(pattern, output), n, unique)

----------------------------------------------------------------------------
(* history_request.  The content of a message is a function from the keys  *)
(* that it has; "*" matches everything.                                    *)

Value(content, key, default) == IF key \in DOMAIN content THEN content[key] ELSE default

process_request(content) ==
    LET access == Value(content, "hist_access_type", "tail")
        n      == Value(content, "n", 10)
        output == Value(content, "output", FALSE)
    IN  CASE access = "tail" -> get_tail(n, output)
          [] access = "search" -> search(Value(content, "pattern", Inputs), output, n,
                                         Value(content, "unique", FALSE))
          [] access = "range" -> get_range(Value(content, "start", 1), Value(content, "stop", 10), output)
          [] OTHER -> Null

----------------------------------------------------------------------------
Init == history = <<>>

\* Mutant: the new line goes to the other end.
StoreInFront(line, input, output) ==
    /\ Len(history) < MaxLen
    /\ history' = <<[line |-> line, input |-> input, output |-> output]>> \o history

\* Mutant: the output is not kept.
StoreShort(line, input, output) ==
    /\ Len(history) < MaxLen
    /\ history' = Append(history, [line |-> line, input |-> input])

store_inputs(line, input, output) ==
    /\ Len(history) < MaxLen
    /\ history' = Append(history, [line |-> line, input |-> input, output |-> output])

Next == \E line \in LineNumbers, input \in Inputs, output \in Outputs :
           store_inputs(line, input, output)

Spec == Init /\ [][Next]_history

----------------------------------------------------------------------------
(* Contents of messages, with every choice of the keys that may be absent. *)

Optional(contents, key, values) ==
    contents \cup {[k \in DOMAIN content \cup {key} |-> IF k = key THEN v ELSE content[k]] :
                        v \in values, content \in contents}

Nothing == [key \in {} |-> {}]

Counts == 0..(MaxLen + 1)

TailContents ==
    Optional(Optional({Nothing, [hist_access_type |-> "tail"]}, "n", Counts), "output", BOOLEAN)

RangeContents ==
    Optional(Optional(Optional({[hist_access_type |-> "range"]}, "start", Counts), "stop", Counts),
             "output", BOOLEAN)

SearchContents ==
    Optional(Optional(Optional(Optional({[hist_access_type |-> "search"]}, "n", Counts),
        "pattern", SUBSET Inputs), "output", BOOLEAN), "unique", BOOLEAN)

----------------------------------------------------------------------------
\* The types.
TypeOK == history \in Seq(Entries)

\* The reply has the lines at the positions of S, in the order of the history:
\* the line of i comes at the place that i has in S.
Lists(reply, S, output) ==
    /\ reply.status = "ok"
    /\ Len(reply.history) = Cardinality(S)
    /\ \A i \in S : reply.history[Cardinality({j \in S : j =< i})] = View(history[i], output)

\* get_tail with any n from zero on, also above the size: the lines that have
\* fewer than n lines behind them, in their order although the code collects
\* them from the back.
TailAnswers ==
    \A content \in TailContents :
        Lists(process_request(content),
              {i \in 1..Size : Size - i < Value(content, "n", 10)},
              Value(content, "output", FALSE))

\* get_range with any bounds from zero on: the lines of [start, stop) that
\* exist, an error if the range is reversed or begins behind the end, and no
\* iterator outside of the list.
RangeAnswers ==
    \A content \in RangeContents :
        LET start == Value(content, "start", 1)
            stop  == Value(content, "stop", 10)
        IN  IF start =< stop /\ start =< Size
            THEN Lists(process_request(content), {i \in 1..Size : start < i /\ i =< stop},
                       Value(content, "output", FALSE))
            ELSE process_request(content) = Error

\* search: among the lines that match, without those that repeat the match
\* before them if unique is asked for, the last n.
SearchAnswers ==
    \A content \in SearchContents :
        LET output  == Value(content, "output", FALSE)
            n       == Value(content, "n", 10)
            Found   == {i \in 1..Size : history[i].input \in Value(content, "pattern", Inputs)}
            Before(i, j) == i < j /\ \A k \in Found : k =< i \/ j =< k
            Repeats(j) == \E i \in Found : Before(i, j) /\ View(history[i], output) = View(history[j], output)
            Wanted  == IF Value(content, "unique", FALSE) THEN {j \in Found : ~Repeats(j)} ELSE Found
        IN  Lists(process_request(content),
                  {i \in Wanted : Cardinality({j \in Wanted : i < j}) < n},
                  output)

\* A client may page through the history while cells run: a range that was
\* complete never has another answer later.
RangesStable ==
    [][\A start, stop \in Counts, output \in BOOLEAN :
          stop =< Size => get_range(start, stop, output)' = get_range(start, stop, output)]_history
===========================================================================
