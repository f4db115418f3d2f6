----------------------------- MODULE StdString -----------------------------
(***************************************************************************)
(* What std::string promises for the calls that xbasic_fixed_string also   *)
(* has: an edit is a splice, a search returns an extreme of a set of       *)
(* positions, and strings are ordered lexicographically.                   *)
(***************************************************************************)
EXTENDS Integers, Sequences

\* s with the count characters from position pos on replaced by t.
Splice(s, pos, count, t) == SubSeq(s, 1, pos) \o t \o SubSeq(s, pos + count + 1, Len(s))

\* The characters of s in positions pos to pos + count that exist.
Substr(s, pos, count) == SubSeq(s, pos + 1, IF pos + count < Len(s) THEN pos + count ELSE Len(s))

\* The longest beginning of s without the character nul.
CString(s, nul) ==
    SubSeq(s, 1, CHOOSE n \in 0..Len(s) : /\ \A i \in 1..n : s[i] # nul
                                          /\ n = Len(s) \/ s[n + 1] = nul)

\* The first or last position of S that satisfies a search, or none.
FirstOf(S, none) == IF S = {} THEN none ELSE CHOOSE u \in S : \A v \in S : u =< v
LastOf(S, none) == IF S = {} THEN none ELSE CHOOSE u \in S : \A v \in S : v =< u

\* The positions where t occurs in s, and those of characters of t.
Occurrences(s, t) == {u \in 0..Len(s) : /\ u + Len(t) =< Len(s)
                                        /\ SubSeq(s, u + 1, u + Len(t)) = t}
Members(s, t) == {u \in 0..(Len(s) - 1) : \E i \in 1..Len(t) : s[u + 1] = t[i]}
Others(s, t) == (0..(Len(s) - 1)) \ Members(s, t)

Precedes(s, t) ==
    \/ Len(s) < Len(t) /\ s = SubSeq(t, 1, Len(s))
    \/ \E i \in 1..Len(s) : /\ i =< Len(t)
                            /\ SubSeq(s, 1, i - 1) = SubSeq(t, 1, i - 1)
                            /\ s[i] < t[i]
===========================================================================
