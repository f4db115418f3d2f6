----------------------- MODULE KernelCoreInvariant ------------------------
(***************************************************************************)
(* The inductive invariant of KernelCore: where a request is, what was     *)
(* sent for it there, and which numbers its execution has.                 *)
(***************************************************************************)
EXTENDS KernelCore

\* A queued request was sent on that channel, once, and nothing was done for it.
QueueOK(c) ==
    /\ \A i \in 1..Len(queue[c]) :
          /\ request[queue[c][i]] # None
          /\ request[queue[c][i]].channel = c
          /\ status[queue[c][i]] = <<>>
          /\ replies[queue[c][i]] = <<>>
    /\ \A i, j \in 1..Len(queue[c]) : queue[c][i] = queue[c][j] => i = j
QueueInv == \A c \in Channels : QueueOK(c)

UnsentInv ==
    \A r \in Requests : request[r] = None => status[r] = <<>> /\ replies[r] = <<>>

\* What the program counter of a thread says of the request it works on.
ThreadOK(c) ==
    current[c] # None =>
        LET r == current[c] IN
        /\ request[r] # None
        /\ request[r].channel = c
        /\ status[r] = <<"busy">>
        /\ pc[c] \in {"execute", "replied", "abort", "complete"} => c = "shell" /\ IsExecute(r)
        /\ pc[c] = "close" => ~IsExecute(r)
        /\ pc[c] \in {"handle", "execute"} => replies[r] = <<>>
        /\ pc[c] \in {"replied", "abort", "complete"} => Len(replies[r]) = 1
ThreadInv == \A c \in Channels : ThreadOK(c)

\* An execution whose callback the interpreter keeps.
DeferredOK(r) ==
    /\ IsExecute(r)
    /\ status[r] = <<"busy">>
    /\ replies[r] = <<>>
    /\ \A c \in Channels : current[c] # r
DeferredInv == \A r \in deferred : DeferredOK(r)

StatusInv ==
    \A r \in Requests :
        /\ status[r] \in {<<>>, <<"busy">>, <<"busy", "idle">>}
        /\ Len(replies[r]) <= 1

PlaceInv == QueueInv /\ UnsentInv /\ ThreadInv /\ DeferredInv /\ StatusInv

\* The message execute_input that announces the number of an execution.
IsInput(o) == o.type = "execute_input"
Announced(r) == \E o \in outputs : IsInput(o) /\ o.by = r

\* The number that an execution announced is the one its callback captured, a
\* number of its own, and ExecuteRequest will not run for it again.
InputInv ==
    /\ \A o \in outputs : IsInput(o) =>
          /\ IsExecute(o.by)
          /\ status[o.by] # <<>>
          /\ o.count = captured[o.by]
          /\ 1 <= o.count /\ o.count <= executionCount
          /\ \A c \in Channels : pc[c] = "handle" => current[c] # o.by
    /\ \A o, p \in outputs :
          IsInput(o) /\ IsInput(p) /\ o.count = p.count => o.by = p.by

\* An execution that is not silent announced its number when it began.
AnnouncedInv ==
    /\ \A r \in deferred : ~request[r].silent => Announced(r)
    /\ pc["shell"] \in {"execute", "replied", "abort", "complete"} =>
          (~request[current["shell"]].silent => Announced(current["shell"]))

\* The reply to an execution that began has the number that was captured.
ReplyInv ==
    \A r \in Requests : IsExecute(r) /\ status[r] # <<>> =>
        \A i \in 1..Len(replies[r]) : replies[r][i].count = captured[r]

\* A line belongs to one execution that replied, and that one only.
HistoryInv ==
    /\ \A i \in 1..Len(history) :
          /\ Announced(history[i].request)
          /\ replies[history[i].request] # <<>>
          /\ history[i].count = captured[history[i].request]
          /\ pc["shell"] = "replied" => history[i].request # current["shell"]
    /\ \A i, j \in 1..Len(history) : history[i].request = history[j].request => i = j

CountInv == InputInv /\ AnnouncedInv /\ ReplyInv /\ HistoryInv

\* The execution that the shell thread drains the queue for.
Cause(e) ==
    /\ IsExecute(e) /\ request[e].stop /\ ~request[e].silent
    /\ \E i \in DOMAIN replies[e] : replies[e][i].status = "error"
AbortInv ==
    /\ pc["shell"] = "abort" => Cause(current["shell"])
    /\ AbortedForCause

\* An execution that is declared idle is in the history if it must be, and a
\* history request that started and has its reply lists what it must list.
InHistory(e) == \E i \in 1..Len(history) : history[i].request = e
StoredInv ==
    /\ \A e \in Requests : IsExecute(e) /\ IsIdle(e) /\ Stores(e) => InHistory(e)
    /\ pc["shell"] \in {"abort", "complete"} =>
          (Stores(current["shell"]) => InHistory(current["shell"]))
    /\ \A r \in Requests : \A e \in seen[r] : IsExecute(e) /\ IsIdle(e)
    /\ \A r \in Requests :
          status[r] # <<>> /\ request[r].kind = "history_request" =>
              \A i \in 1..Len(replies[r]) : \A e \in seen[r] :
                  Stores(e) => e \in replies[r][i].lines

\* Every request is where its messages say it is, every number is the one
\* that its execution announced, and the history is no later than "idle".
IInv == TypeOK /\ PlaceInv /\ CountInv /\ AbortInv /\ StoredInv

---------------------------------------------------------------------------
(* What needs a restriction on the messages or on the interpreter *)

\* A doomed request was aborted, or is still in the queue that the callback
\* of the failed execution drains.
Draining ==
    \/ pc["shell"] = "abort"
    \/ /\ pc["shell"] = "replied"
       /\ StopsOnError(current["shell"], replies[current["shell"]][1].status)
DoomedInv ==
    \A r \in doomed :
        /\ status[r] = <<>>
        /\ replies[r] = <<>> => Draining /\ r \in Range(queue["shell"])

\* Without deferred callbacks, the execution that the shell thread is in owns
\* the context slot and, until its line is stored, the last number.
SyncInv ==
    /\ deferred = {}
    /\ pc["shell"] = "execute" => requestContext = current["shell"]
    /\ \A i \in 1..Len(history) : history[i].count <= executionCount
    /\ pc["shell"] \in {"execute", "replied"} /\ ~request[current["shell"]].silent =>
          /\ captured[current["shell"]] = executionCount
          /\ \A i \in 1..Len(history) : history[i].count < executionCount
    /\ HistoryInOrder
    /\ OutputsAttributed
===========================================================================
