------------------------- MODULE KernelCore_proofs ------------------------
(***************************************************************************)
(* Proofs about KernelCore: every state it reaches satisfies the inductive *)
(* invariant of KernelCoreInvariant, and with it the properties that TLC   *)
(* checks on small instances.                                              *)
(***************************************************************************)
EXTENDS KernelCoreInvariant, SequenceTheorems, TLAPS

ReplyMessage == [status : {"ok", "error"}, count : Nat, lines : SUBSET Requests]
OutputMessage == [type : {"execute_input", "stream", "interrupt", "shutdown"},
                  by : Requests, parent : Requests \cup {None}, count : Nat]

\* What every step of a blocking handler has in common.
HandlerStep(c) ==
    /\ pc[c] = "handle" /\ current[c] \in Requests
    /\ ~IsExecute(current[c])
    /\ pc' = [pc EXCEPT ![c] = "close"]
    /\ \/ replies' = replies
       \/ \E reply \in ReplyMessage : SendReply(current[c], reply)
    /\ \/ outputs' = outputs
       \/ \E type \in {"interrupt", "shutdown"} : Publish(Output(type, current[c], current[c], 0))
    /\ stopped' \in BOOLEAN
    /\ UNCHANGED <<request, queue, current, interpreterVars, history, status, ghosts>>

HandlerOf(c) ==
    \/ CompleteRequest(c) \/ HistoryRequest(c) \/ CommMessage(c) \/ InterruptRequest(c)
    \/ ShutdownRequest(c) \/ DebugRequest(c) \/ UnknownMessage(c) \/ HandlerThrows(c)

---------------------------------------------------------------------------
(* Types *)

\* Facts about the constants and the messages that requests carry.
LEMMA MessageFacts ==
    /\ None \notin Requests /\ None \notin Messages
    /\ Channels = {"shell", "control"}
    /\ \A m \in Messages : /\ m.channel \in Channels
                           /\ m.silent \in BOOLEAN /\ m.store \in BOOLEAN /\ m.stop \in BOOLEAN
                           /\ m.kind = "execute_request" => m.channel = "shell"
<1>1. Channels = {"shell", "control"}
  BY DEF Channels
<1>2. \A m \in Messages : /\ m.channel \in Channels
                          /\ m.silent \in BOOLEAN /\ m.store \in BOOLEAN /\ m.stop \in BOOLEAN
  BY MessagesAssumption DEF Message
<1> QED
  BY <1>1, <1>2, NoneAssumption, MessagesAssumption

LEMMA HandlerSteps ==
    ASSUME TypeOK, NEW c \in Channels, HandlerOf(c)
    PROVE  HandlerStep(c)
<1> USE MessageFacts DEF Handling, HandlerFrame, TypeOK
<1> DEFINE r == current[c]
<1>1. pc[c] = "handle" /\ r \in Requests
  BY DEF HandlerOf, CompleteRequest, HistoryRequest, CommMessage, InterruptRequest,
    ShutdownRequest, DebugRequest, UnknownMessage, HandlerThrows
<1>2. request[r].kind # "execute_request"
  BY DEF HandlerOf, CompleteRequest, HistoryRequest, CommMessage, InterruptRequest,
    ShutdownRequest, DebugRequest, UnknownMessage, HandlerThrows, Handled, Kinds, Blocking
<1>3. CASE HistoryRequest(c)
  <2>1. \A i \in DOMAIN history : history[i] \in HistoryLine
    OBVIOUS
  <2>2. \A i \in DOMAIN history : history[i].request \in Requests
    BY <2>1 DEF HistoryLine
  <2>3. Reply("ok", 0, {line.request : line \in Range(history)}) \in ReplyMessage
    BY <2>2 DEF Reply, ReplyMessage, Range
  <2> QED
    BY <1>1, <1>2, <1>3, <2>3 DEF HistoryRequest, Return, Blocking, Goto, HandlerStep, IsExecute
<1>4. \A st \in {"ok", "error"} : Reply(st, 0, {}) \in ReplyMessage
  BY DEF Reply, ReplyMessage
<1>5. CASE CompleteRequest(c)
  BY <1>1, <1>2, <1>4, <1>5 DEF CompleteRequest, Return, Blocking, Goto, HandlerStep, IsExecute
<1>6. CASE CommMessage(c)
  BY <1>1, <1>2, <1>6 DEF CommMessage, Return, Blocking, Goto, HandlerStep, IsExecute
<1>7. CASE InterruptRequest(c)
  BY <1>1, <1>2, <1>4, <1>7 DEF InterruptRequest, Return, Blocking, Goto, HandlerStep, IsExecute
<1>8. CASE ShutdownRequest(c)
  BY <1>1, <1>2, <1>4, <1>8 DEF ShutdownRequest, Return, Blocking, Goto, HandlerStep, IsExecute
<1>9. CASE DebugRequest(c)
  BY <1>1, <1>2, <1>4, <1>9 DEF DebugRequest, Return, Blocking, Goto, HandlerStep, IsExecute
<1>10. CASE UnknownMessage(c)
  BY <1>1, <1>2, <1>10 DEF UnknownMessage, Return, Blocking, Goto, HandlerStep, IsExecute
<1>11. CASE HandlerThrows(c)
  BY <1>1, <1>2, <1>11 DEF HandlerThrows, Return, Blocking, Goto, HandlerStep, IsExecute
<1> QED
  BY <1>3, <1>5, <1>6, <1>7, <1>8, <1>9, <1>10, <1>11 DEF HandlerOf

LEMMA SendReplyType ==
    ASSUME TypeOK, NEW r \in Requests, NEW reply \in ReplyMessage, SendReply(r, reply)
    PROVE  replies' \in [Requests -> Seq(ReplyMessage)]
<1>1. replies \in [Requests -> Seq(ReplyMessage)]
  BY DEF TypeOK, ReplyMessage
<1>2. Append(replies[r], reply) \in Seq(ReplyMessage)
  BY <1>1
<1> QED
  BY <1>1, <1>2 DEF SendReply

LEMMA TypeInit == Init => TypeOK
<1> SUFFICES ASSUME Init PROVE TypeOK
  OBVIOUS
<1> USE MessageFacts DEF Init
<1>1. queue \in [Channels -> Seq(Requests)]
  OBVIOUS
<1>2. history \in Seq(HistoryLine)
  OBVIOUS
<1>3. status \in [Requests -> Seq({"busy", "idle"})]
  OBVIOUS
<1>4. replies \in [Requests -> Seq(ReplyMessage)]
  OBVIOUS
<1> QED
  BY <1>1, <1>2, <1>3, <1>4 DEF TypeOK, ReplyMessage

LEMMA TypeStep ==
    ASSUME TypeOK, [Next]_vars
    PROVE  TypeOK'
<1> USE MessageFacts
<1> DEFINE Labels == {"listen", "handle", "execute", "replied", "abort",
                      "complete", "close", "exited"}
<1>1. ASSUME NEW r \in Requests, NEW m \in Messages, Send(r, m) PROVE TypeOK'
  <2>1. queue' \in [Channels -> Seq(Requests)]
    <3>1. Append(queue[m.channel], r) \in Seq(Requests)
      BY DEF TypeOK
    <3> QED
      BY <1>1, <3>1 DEF Send, TypeOK
  <2>2. seen' \in [Requests -> SUBSET Requests]
    BY <1>1 DEF Send, TypeOK
  <2> QED
    BY <1>1, <2>1, <2>2 DEF Send, TypeOK, interpreterVars, clientVars
<1>2. ASSUME NEW c \in Channels, Dispatch(c) PROVE TypeOK'
  <2>1. Head(queue[c]) \in Requests /\ Tail(queue[c]) \in Seq(Requests)
    BY <1>2 DEF Dispatch, TypeOK
  <2>2. queue' \in [Channels -> Seq(Requests)]
    BY <1>2, <2>1 DEF Dispatch, TypeOK
  <2>3. status' \in [Requests -> Seq({"busy", "idle"})]
    BY <1>2, <2>1 DEF Dispatch, PublishStatus, TypeOK
  <2>4. pc' \in [Channels -> Labels] /\ current' \in [Channels -> Requests \cup {None}]
    BY <1>2, <2>1 DEF Dispatch, Goto, TypeOK
  <2>5. \A d \in Channels : current'[d] = None <=> pc'[d] \in {"listen", "exited"}
    BY <1>2, <2>1 DEF Dispatch, Goto, TypeOK
  <2> QED
    BY <1>2, <2>2, <2>3, <2>4, <2>5 DEF Dispatch, TypeOK, interpreterVars, ghosts
<1>3. ASSUME NEW c \in Channels, HandlerStep(c) PROVE TypeOK'
  <2>1. replies' \in [Requests -> Seq(ReplyMessage)]
    BY <1>3, SendReplyType DEF HandlerStep, TypeOK, ReplyMessage
  <2>2. outputs' \subseteq OutputMessage
    BY <1>3 DEF HandlerStep, Publish, Output, TypeOK, OutputMessage
  <2>3. pc' \in [Channels -> Labels]
    BY <1>3 DEF HandlerStep, TypeOK
  <2>4. \A d \in Channels : current'[d] = None <=> pc'[d] \in {"listen", "exited"}
    BY <1>3 DEF HandlerStep, TypeOK
  <2> QED
    BY <1>3, <2>1, <2>2, <2>3, <2>4
    DEF HandlerStep, TypeOK, ReplyMessage, OutputMessage, interpreterVars, ghosts
\* The transitions that end a dispatch: where a thread goes, and for which request.
<1>4. ASSUME NEW c \in Channels, pc[c] \notin {"listen", "exited"}, Return(c)
      PROVE  /\ pc' \in [Channels -> Labels] /\ current' \in [Channels -> Requests \cup {None}]
             /\ \A d \in Channels : current'[d] = None <=> pc'[d] \in {"listen", "exited"}
  BY <1>4 DEF Return, Finish, Goto, TypeOK
<1>5. ASSUME NEW c \in Channels, CloseDispatch(c) PROVE TypeOK'
  <2>1. status' \in [Requests -> Seq({"busy", "idle"})]
    BY <1>5 DEF CloseDispatch, PublishStatus, TypeOK
  <2>2. pc' \in [Channels -> Labels] /\ current' \in [Channels -> Requests \cup {None}]
    BY <1>5 DEF CloseDispatch, Finish, Goto, TypeOK
  <2>3. \A d \in Channels : current'[d] = None <=> pc'[d] \in {"listen", "exited"}
    BY <1>5 DEF CloseDispatch, Finish, Goto, TypeOK
  <2> QED
    BY <1>5, <2>1, <2>2, <2>3 DEF CloseDispatch, TypeOK, interpreterVars, ghosts
<1>6. ASSUME ExecuteRequest PROVE TypeOK'
  <2> DEFINE r == current["shell"]
  <2>1. r \in Requests /\ pc["shell"] = "handle"
    BY <1>6 DEF ExecuteRequest, Handling, TypeOK
  <2>2. executionCount' \in Nat /\ captured' \in [Requests -> Nat]
    BY <1>6, <2>1 DEF ExecuteRequest, TypeOK
  <2>3. outputs' \subseteq OutputMessage
    BY <1>6, <2>1, <2>2
    DEF ExecuteRequest, Publish, Output, InputContext, TypeOK, OutputMessage
  <2>4. pc' \in [Channels -> Labels]
    BY <1>6 DEF ExecuteRequest, Goto, TypeOK
  <2>5. \A d \in Channels : current'[d] = None <=> pc'[d] \in {"listen", "exited"}
    BY <1>6, <2>1 DEF ExecuteRequest, Goto, TypeOK
  <2> QED
    BY <1>6, <2>1, <2>2, <2>3, <2>4, <2>5 DEF ExecuteRequest, TypeOK, OutputMessage, ghosts
<1>7. ASSUME NEW r \in Requests, InterpreterPublishes(r) PROVE TypeOK'
  <2>1. outputs' \subseteq OutputMessage
    BY <1>7 DEF InterpreterPublishes, Publish, Output, TypeOK, OutputMessage
  <2> QED
    BY <1>7, <2>1 DEF InterpreterPublishes, TypeOK, OutputMessage, serverVars, interpreterVars,
      ghosts
<1>8. ASSUME InterpreterThrows PROVE TypeOK'
  BY <1>8, <1>4 DEF InterpreterThrows, TypeOK, interpreterVars, clientVars, ghosts
<1>9. ASSUME InterpreterDefers PROVE TypeOK'
  <2>1. deferred' \subseteq Requests
    BY <1>9 DEF InterpreterDefers, TypeOK
  <2> QED
    BY <1>9, <1>4, <2>1 DEF InterpreterDefers, TypeOK, clientVars, ghosts
<1>10. ASSUME NEW r \in Requests, NEW st \in {"ok", "error"}, ReplyCallback(r, st) PROVE TypeOK'
  <2>1. Reply(st, CapturedCount(r), {}) \in ReplyMessage
    BY DEF Reply, CapturedCount, ReplyMessage, TypeOK
  <2>2. replies' \in [Requests -> Seq(ReplyMessage)]
    BY <1>10, <2>1, SendReplyType DEF ReplyCallback
  <2>3. pc' \in [Channels -> Labels] /\ current' \in [Channels -> Requests \cup {None}]
    BY <1>10 DEF ReplyCallback, Goto, TypeOK
  <2>4. \A d \in Channels : current'[d] = None <=> pc'[d] \in {"listen", "exited"}
    BY <1>10 DEF ReplyCallback, Goto, TypeOK
  <2>5. Range(queue["shell"]) \subseteq Requests
    BY DEF Range, TypeOK
  <2>6. doomed' \subseteq Requests /\ deferred' \subseteq Requests
    BY <1>10, <2>5 DEF ReplyCallback, TypeOK
  <2> QED
    BY <1>10, <2>2, <2>3, <2>4, <2>6 DEF ReplyCallback, TypeOK, ReplyMessage
<1>11. ASSUME StoreInputs PROVE TypeOK'
  <2> DEFINE r == current["shell"]
             line == [count |-> CapturedCount(r), request |-> r]
  <2>1. r \in Requests
    BY <1>11 DEF StoreInputs, TypeOK
  <2>2. line \in HistoryLine
    BY <2>1 DEF HistoryLine, CapturedCount, TypeOK
  <2>3. history' \in Seq(HistoryLine)
    BY <1>11, <2>2 DEF StoreInputs, StoreLine, TypeOK
  <2>4. pc' \in [Channels -> Labels]
    BY <1>11 DEF StoreInputs, Goto, TypeOK
  <2>5. \A d \in Channels : current'[d] = None <=> pc'[d] \in {"listen", "exited"}
    BY <1>11 DEF StoreInputs, Goto, TypeOK
  <2> QED
    BY <1>11, <2>3, <2>4, <2>5 DEF StoreInputs, TypeOK, interpreterVars, clientVars, ghosts
\* abort_queue takes the head of the shell queue.
<1>12. ASSUME queue["shell"] # <<>>, queue' = [queue EXCEPT !["shell"] = Tail(@)]
       PROVE  Head(queue["shell"]) \in Requests /\ queue' \in [Channels -> Seq(Requests)]
  <2>1. Head(queue["shell"]) \in Requests /\ Tail(queue["shell"]) \in Seq(Requests)
    BY <1>12 DEF TypeOK
  <2> QED
    BY <1>12, <2>1 DEF TypeOK
<1>13. ASSUME AbortRequest PROVE TypeOK'
  <2>1. Reply("error", 0, {}) \in ReplyMessage
    BY DEF Reply, ReplyMessage
  <2>2. Head(queue["shell"]) \in Requests /\ queue' \in [Channels -> Seq(Requests)]
    BY <1>12, <1>13 DEF AbortRequest
  <2>3. replies' \in [Requests -> Seq(ReplyMessage)]
    BY <1>13, <2>1, <2>2, SendReplyType DEF AbortRequest
  <2> QED
    BY <1>13, <2>2, <2>3 DEF AbortRequest, TypeOK, ReplyMessage, interpreterVars, ghosts
<1>14. ASSUME AbortThrows PROVE TypeOK'
  <2>1. queue' \in [Channels -> Seq(Requests)]
    BY <1>12, <1>14 DEF AbortThrows
  <2> QED
    BY <1>14, <1>4, <2>1 DEF AbortThrows, TypeOK, interpreterVars, clientVars, ghosts
<1>15. ASSUME AbortEnds PROVE TypeOK'
  <2>1. pc' \in [Channels -> Labels]
    BY <1>15 DEF AbortEnds, Goto, TypeOK
  <2>2. \A d \in Channels : current'[d] = None <=> pc'[d] \in {"listen", "exited"}
    BY <1>15 DEF AbortEnds, Goto, TypeOK
  <2> QED
    BY <1>15, <2>1, <2>2 DEF AbortEnds, TypeOK, interpreterVars, clientVars, ghosts
<1>16. ASSUME CompleteExecution PROVE TypeOK'
  <2>1. status' \in [Requests -> Seq({"busy", "idle"})]
    BY <1>16 DEF CompleteExecution, PublishStatus, TypeOK
  <2> QED
    BY <1>16, <1>4, <2>1 DEF CompleteExecution, TypeOK, interpreterVars, ghosts
<1>17. ASSUME NEW c \in Channels, ServerExits(c) PROVE TypeOK'
  <2>1. pc' \in [Channels -> Labels]
    BY <1>17 DEF ServerExits, Goto, TypeOK
  <2>2. \A d \in Channels : current'[d] = None <=> pc'[d] \in {"listen", "exited"}
    BY <1>17 DEF ServerExits, Goto, TypeOK
  <2> QED
    BY <1>17, <2>1, <2>2 DEF ServerExits, TypeOK, interpreterVars, clientVars, ghosts
<1>18. CASE UNCHANGED vars
  BY <1>18 DEF vars, serverVars, interpreterVars, clientVars, ghosts, TypeOK
<1> QED
  BY <1>1, <1>2, <1>3, <1>5, <1>6, <1>7, <1>8, <1>9, <1>10, <1>11, <1>13, <1>14, <1>15,
    <1>16, <1>17, <1>18, HandlerSteps
  DEF Next, DispatchStep, CallbackStep, HandlerOf, Quiescent
---------------------------------------------------------------------------
(* Places *)

LEMMA StatusValues ==
    /\ <<>> # <<"busy">> /\ <<>> # <<"busy", "idle">> /\ <<"busy">> # <<"busy", "idle">>
    /\ Append(<<>>, "busy") = <<"busy">>
    /\ Append(<<"busy">>, "idle") = <<"busy", "idle">>
<1> DEFINE s == Append(<<"busy">>, "idle")
           t == <<"busy", "idle">>
           S == {"busy", "idle"}
<1>1. s \in Seq(S) /\ t \in Seq(S)
  OBVIOUS
<1>2. Len(s) = 2 /\ Len(t) = 2
  OBVIOUS
<1>3. s[1] = "busy" /\ s[2] = "idle" /\ t[1] = "busy" /\ t[2] = "idle"
  OBVIOUS
<1>4. Len(s) = Len(t) /\ \A i \in 1..Len(s) : s[i] = t[i]
  BY <1>2, <1>3
<1>5. s = t
  <2> HIDE DEF s, t, S
  <2> QED
    BY <1>1, <1>4, SeqEqual
<1> QED
  BY <1>5

LEMMA NonEmpty ==
    ASSUME NEW S, NEW s \in Seq(S)
    PROVE  /\ s # <<>> => Len(s) \in Nat \ {0}
           /\ Len(s) # 0 => s # <<>>
<1>1. s # <<>> => Len(s) \in Nat \ {0}
  BY EmptySeq
<1> QED
  BY <1>1

\* The first reply to a request, and what it leaves alone.
LEMMA FirstReply ==
    ASSUME TypeOK, NEW r \in Requests, replies[r] = <<>>,
           NEW reply \in ReplyMessage, SendReply(r, reply)
    PROVE  /\ Len(replies'[r]) = 1 /\ replies'[r] # <<>> /\ replies'[r][1] = reply
           /\ \A s \in Requests \ {r} : replies'[s] = replies[s]
<1>1. replies'[r] = Append(<<>>, reply) /\ \A s \in Requests \ {r} : replies'[s] = replies[s]
  BY DEF SendReply, TypeOK
<1>2. Len(Append(<<>>, reply)) = 1 /\ Append(<<>>, reply)[1] = reply
  OBVIOUS
<1>3. Append(<<>>, reply) \in Seq(ReplyMessage)
  OBVIOUS
<1> QED
  BY <1>1, <1>2, <1>3, NonEmpty

\* "idle" after "busy", and what it leaves alone.
LEMMA IdleAfterBusy ==
    ASSUME TypeOK, NEW r \in Requests, status[r] = <<"busy">>, PublishStatus(r, "idle")
    PROVE  /\ status'[r] = <<"busy", "idle">>
           /\ \A s \in Requests \ {r} : status'[s] = status[s]
BY StatusValues DEF PublishStatus, TypeOK

\* What is known of the request that a thread works on.
LEMMA CurrentFacts ==
    ASSUME TypeOK, PlaceInv, NEW c \in Channels, current[c] # None
    PROVE  LET r == current[c] IN
           /\ r \in Requests /\ r # None /\ request[r] # None /\ request[r].channel = c
           /\ status[r] = <<"busy">> /\ r \notin deferred
           /\ \A d \in Channels \ {c} : current[d] # r
           /\ pc[c] \in {"execute", "replied", "abort", "complete"} => c = "shell" /\ IsExecute(r)
           /\ pc[c] = "close" => ~IsExecute(r)
           /\ pc[c] \in {"handle", "execute"} => replies[r] = <<>>
           /\ pc[c] \in {"replied", "abort", "complete"} => Len(replies[r]) = 1
<1> DEFINE r == current[c]
<1>1. r \in Requests /\ r # None
  BY MessageFacts DEF TypeOK
<1>2. r \notin deferred
  BY DEF PlaceInv, DeferredInv, DeferredOK
<1>3. ThreadOK(c)
  BY DEF PlaceInv, ThreadInv
<1>4. ASSUME NEW d \in Channels \ {c}, current[d] = r PROVE FALSE
  <2>1. ThreadOK(d)
    BY DEF PlaceInv, ThreadInv
  <2> QED
    BY <1>1, <1>3, <1>4, <2>1 DEF ThreadOK
<1> QED
  BY <1>1, <1>2, <1>3, <1>4 DEF ThreadOK

LEMMA HeadFacts ==
    ASSUME TypeOK, PlaceInv, NEW c \in Channels, queue[c] # <<>>
    PROVE  LET h == Head(queue[c]) IN
           /\ h \in Requests /\ request[h] # None /\ request[h].channel = c
           /\ status[h] = <<>> /\ replies[h] = <<>>
           /\ h \notin deferred /\ \A d \in Channels : current[d] # h
<1> DEFINE h == Head(queue[c])
<1>1. queue[c] \in Seq(Requests)
  BY DEF TypeOK
<1>2. Len(queue[c]) >= 1 /\ h = queue[c][1] /\ h \in Requests
  BY <1>1
<1>3. request[h] # None /\ request[h].channel = c /\ status[h] = <<>> /\ replies[h] = <<>>
  BY <1>1, <1>2 DEF PlaceInv, QueueInv, QueueOK
<1>4. h \notin deferred
  BY <1>3, StatusValues DEF PlaceInv, DeferredInv, DeferredOK
<1>5. h # None
  BY <1>2, MessageFacts
<1>6. ASSUME NEW d \in Channels, current[d] = h PROVE FALSE
  BY <1>3, <1>5, <1>6, CurrentFacts, StatusValues
<1> QED
  BY <1>2, <1>3, <1>4, <1>6

\* Reading the head of a queue, whatever is done for the request read.
LEMMA QueueRead ==
    ASSUME TypeOK, QueueInv, NEW c \in Channels, queue[c] # <<>>,
           queue' = [queue EXCEPT ![c] = Tail(@)], request' = request,
           \A r \in Requests \ {Head(queue[c])} :
              status'[r] = status[r] /\ replies'[r] = replies[r]
    PROVE  QueueInv'
<1>1. \A d \in Channels : queue[d] \in Seq(Requests)
  BY DEF TypeOK
<1>2. /\ queue'[c] = Tail(queue[c]) /\ Len(queue'[c]) = Len(queue[c]) - 1
      /\ \A i \in 1..Len(queue'[c]) : queue'[c][i] = queue[c][i + 1]
  BY <1>1 DEF TypeOK
<1>3. Len(queue[c]) \in Nat /\ Len(queue[c]) >= 1 /\ Head(queue[c]) = queue[c][1]
  BY <1>1
<1>4. ASSUME NEW i \in 1..Len(queue'[c])
      PROVE  /\ queue'[c][i] \in Requests \ {Head(queue[c])}
             /\ request[queue'[c][i]] # None /\ request[queue'[c][i]].channel = c
             /\ status[queue'[c][i]] = <<>> /\ replies[queue'[c][i]] = <<>>
  <2>1. i + 1 \in 1..Len(queue[c]) /\ 1 \in 1..Len(queue[c]) /\ i + 1 # 1
    BY <1>2, <1>3
  <2>2. queue'[c][i] = queue[c][i + 1] /\ queue[c][i + 1] \in Requests
    BY <2>1, <1>1, <1>2
  <2>3. queue[c][i + 1] # queue[c][1]
    BY <2>1 DEF QueueInv, QueueOK
  <2>4. /\ request[queue[c][i + 1]] # None /\ request[queue[c][i + 1]].channel = c
        /\ status[queue[c][i + 1]] = <<>> /\ replies[queue[c][i + 1]] = <<>>
    BY <2>1 DEF QueueInv, QueueOK
  <2> QED
    BY <2>2, <2>3, <2>4, <1>3
<1>5. ASSUME NEW i \in 1..Len(queue'[c]), NEW j \in 1..Len(queue'[c]), queue'[c][i] = queue'[c][j]
      PROVE  i = j
  <2>1. i + 1 \in 1..Len(queue[c]) /\ j + 1 \in 1..Len(queue[c])
    BY <1>2, <1>3
  <2>2. i + 1 = j + 1
    BY <2>1, <1>2, <1>5 DEF QueueInv, QueueOK
  <2> QED
    BY <2>2
<1>6. ASSUME NEW d \in Channels \ {c}
      PROVE  QueueOK(d)'
  <2>1. queue'[d] = queue[d] /\ QueueOK(d)
    BY DEF TypeOK, QueueInv
  <2>2. request[Head(queue[c])].channel = c
    BY <1>3 DEF QueueInv, QueueOK
  <2>3. \A i \in 1..Len(queue[d]) : queue[d][i] \in Requests \ {Head(queue[c])}
    BY <1>1, <2>1, <2>2 DEF QueueOK
  <2> QED
    BY <2>1, <2>3 DEF QueueOK
<1>7. QueueOK(c)'
  BY <1>4, <1>5 DEF QueueOK
<1> QED
  BY <1>6, <1>7 DEF QueueInv

\* A step that leaves the queues alone works on requests already started.
LEMMA QueueKept ==
    ASSUME TypeOK, QueueInv, queue' = queue, request' = request,
           \A r \in Requests :
              status[r] = <<>> => status'[r] = status[r] /\ replies'[r] = replies[r]
    PROVE  QueueInv'
<1>1. \A c \in Channels : \A i \in 1..Len(queue[c]) : queue[c][i] \in Requests
  BY DEF TypeOK
<1> QED
  BY <1>1 DEF QueueInv, QueueOK

LEMMA PlaceInit == Init => PlaceInv
<1> SUFFICES ASSUME Init PROVE PlaceInv
  OBVIOUS
<1> USE MessageFacts DEF Init
<1>1. QueueInv
  BY DEF QueueInv, QueueOK
<1>2. UnsentInv
  BY DEF UnsentInv
<1>3. ThreadInv
  BY DEF ThreadInv, ThreadOK
<1>4. DeferredInv
  BY DEF DeferredInv
<1>5. StatusInv
  BY DEF StatusInv
<1> QED
  BY <1>1, <1>2, <1>3, <1>4, <1>5 DEF PlaceInv

\* A step that sends at most one reply, to a request that had none.
LEMMA StatusKept ==
    ASSUME StatusInv, status' = status, NEW r \in Requests,
           \A s \in Requests \ {r} : replies'[s] = replies[s],
           replies'[r] = replies[r] \/ Len(replies'[r]) = 1
    PROVE  StatusInv'
<1>1. \A s \in Requests : Len(replies'[s]) = 1 \/ Len(replies'[s]) = Len(replies[s])
  OBVIOUS
<1>2. \A s \in Requests : Len(replies[s]) <= 1
  BY DEF StatusInv
<1>3. ASSUME NEW s \in Requests PROVE Len(replies'[s]) <= 1
  <2>1. CASE Len(replies'[s]) = 1
    BY <2>1
  <2>2. CASE Len(replies'[s]) = Len(replies[s])
    BY <2>2, <1>2
  <2> QED
    BY <1>1, <2>1, <2>2
<1> QED
  BY <1>3 DEF StatusInv

\* A thread, and a deferred execution, that a step does not touch.
LEMMA ThreadKept ==
    ASSUME TypeOK, PlaceInv, NEW c \in Channels,
           pc'[c] = pc[c], current'[c] = current[c],
           \A r \in Requests : r = current[c] =>
              request'[r] = request[r] /\ status'[r] = status[r] /\ replies'[r] = replies[r]
    PROVE  ThreadOK(c)'
<1>1. ThreadOK(c) /\ current[c] \in Requests \cup {None}
  BY DEF PlaceInv, ThreadInv, TypeOK
<1> QED
  BY <1>1 DEF ThreadOK, IsExecute

LEMMA DeferredKept ==
    ASSUME TypeOK, PlaceInv, NEW r \in deferred,
           request'[r] = request[r], status'[r] = status[r], replies'[r] = replies[r],
           \A c \in Channels : current'[c] \in {current[c], None} \/ current'[c] # r
    PROVE  DeferredOK(r)'
<1>1. DeferredOK(r) /\ r # None
  BY MessageFacts DEF PlaceInv, DeferredInv, TypeOK
<1> QED
  BY <1>1 DEF DeferredOK, IsExecute

LEMMA StateFacts ==
    ASSUME TypeOK
    PROVE  /\ pc \in [Channels -> {"listen", "handle", "execute", "replied", "abort",
                                   "complete", "close", "exited"}]
           /\ current \in [Channels -> Requests \cup {None}]
           /\ deferred \subseteq Requests
BY DEF TypeOK

\* What each action that changes a request, its statuses or its replies does.
LEMMA HandlerEffect ==
    ASSUME TypeOK, PlaceInv, NEW c \in Channels, HandlerStep(c)
    PROVE  LET r == current[c] IN
           /\ r \in Requests /\ r # None /\ request[r] # None /\ request[r].channel = c
           /\ status[r] = <<"busy">> /\ r \notin deferred /\ ~IsExecute(r)
           /\ \A d \in Channels \ {c} : current[d] # r
           /\ queue' = queue /\ request' = request /\ status' = status
           /\ current' = current /\ deferred' = deferred
           /\ \A s \in Requests \ {r} : replies'[s] = replies[s]
           /\ replies'[r] = replies[r] \/ Len(replies'[r]) = 1
           /\ pc' = [pc EXCEPT ![c] = "close"]
<1> DEFINE r == current[c]
<1>1. r # None
  BY MessageFacts DEF HandlerStep
<1>2. /\ r \in Requests /\ request[r] # None /\ request[r].channel = c
      /\ status[r] = <<"busy">> /\ r \notin deferred /\ replies[r] = <<>>
      /\ \A d \in Channels \ {c} : current[d] # r
  BY <1>1, CurrentFacts DEF HandlerStep
<1>3. /\ \A s \in Requests \ {r} : replies'[s] = replies[s]
      /\ replies'[r] = replies[r] \/ Len(replies'[r]) = 1
  BY <1>2, FirstReply DEF HandlerStep
<1> QED
  BY <1>1, <1>2, <1>3 DEF HandlerStep, interpreterVars

LEMMA CloseEffect ==
    ASSUME TypeOK, PlaceInv, NEW c \in Channels, CloseDispatch(c)
    PROVE  LET r == current[c] IN
           /\ r \in Requests /\ r # None /\ request[r] # None /\ r \notin deferred
           /\ status[r] = <<"busy">> /\ status'[r] = <<"busy", "idle">>
           /\ \A s \in Requests \ {r} : status'[s] = status[s]
           /\ \A d \in Channels \ {c} : current[d] # r
           /\ queue' = queue /\ request' = request /\ replies' = replies /\ deferred' = deferred
           /\ pc' = [pc EXCEPT ![c] = "listen"] /\ current' = [current EXCEPT ![c] = None]
<1> DEFINE r == current[c]
<1>1. r # None
  BY DEF CloseDispatch, TypeOK
<1>2. r \in Requests /\ status[r] = <<"busy">> /\ (pc[c] = "complete" => IsExecute(r))
  BY <1>1, CurrentFacts DEF CloseDispatch
<1> QED
  BY <1>1, <1>2, CurrentFacts, IdleAfterBusy
  DEF CloseDispatch, Finish, Goto, interpreterVars

LEMMA CompleteEffect ==
    ASSUME TypeOK, PlaceInv, CompleteExecution
    PROVE  LET r == current["shell"] IN
           /\ r \in Requests /\ r # None /\ request[r] # None /\ r \notin deferred
           /\ status[r] = <<"busy">> /\ status'[r] = <<"busy", "idle">>
           /\ \A s \in Requests \ {r} : status'[s] = status[s]
           /\ \A d \in Channels \ {"shell"} : current[d] # r
           /\ queue' = queue /\ request' = request /\ replies' = replies /\ deferred' = deferred
           /\ pc' = [pc EXCEPT !["shell"] = "listen"] /\ current' = [current EXCEPT !["shell"] = None]
<1> USE MessageFacts
<1> DEFINE r == current["shell"]
<1>1. r # None
  BY DEF CompleteExecution, TypeOK
<1>2. r \in Requests /\ status[r] = <<"busy">> /\ (pc["shell"] = "complete" => IsExecute(r))
  BY <1>1, CurrentFacts DEF CompleteExecution
<1> QED
  BY <1>1, <1>2, CurrentFacts, IdleAfterBusy
  DEF CompleteExecution, Return, Blocking, IsExecute, Finish, Goto, interpreterVars

LEMMA SendEffect ==
    ASSUME TypeOK, PlaceInv, NEW r \in Requests, NEW m \in Messages, Send(r, m)
    PROVE  /\ m.channel \in Channels /\ m # None /\ r # None
           /\ request[r] = None /\ request'[r] = m /\ status[r] = <<>> /\ replies[r] = <<>>
           /\ \A s \in Requests \ {r} : request'[s] = request[s]
           /\ status' = status /\ replies' = replies /\ deferred' = deferred
           /\ current' = current /\ pc' = pc
BY MessageFacts DEF Send, TypeOK, clientVars, interpreterVars, PlaceInv, UnsentInv

LEMMA DispatchEffect ==
    ASSUME TypeOK, PlaceInv, NEW c \in Channels, Dispatch(c)
    PROVE  LET h == Head(queue[c]) IN
           /\ h \in Requests /\ h # None /\ request[h] # None /\ request[h].channel = c
           /\ status[h] = <<>> /\ replies[h] = <<>>
           /\ h \notin deferred /\ \A d \in Channels : current[d] # h
           /\ status'[h] = <<"busy">> /\ \A s \in Requests \ {h} : status'[s] = status[s]
           /\ request' = request /\ replies' = replies /\ deferred' = deferred
           /\ pc' = [pc EXCEPT ![c] = "handle"] /\ current' = [current EXCEPT ![c] = h]
<1> DEFINE h == Head(queue[c])
<1>1. /\ h \in Requests /\ h # None /\ request[h] # None /\ request[h].channel = c
      /\ status[h] = <<>> /\ replies[h] = <<>>
      /\ h \notin deferred /\ \A d \in Channels : current[d] # h
  BY HeadFacts, MessageFacts DEF Dispatch
<1> QED
  BY <1>1, StatusValues DEF Dispatch, PublishStatus, Goto, TypeOK, interpreterVars

LEMMA CallbackEffect ==
    ASSUME TypeOK, PlaceInv, NEW r \in Requests, NEW st \in {"ok", "error"}, ReplyCallback(r, st)
    PROVE  /\ r # None /\ request[r] # None /\ request[r].channel = "shell"
           /\ status[r] = <<"busy">> /\ IsExecute(r) /\ replies[r] = <<>>
           /\ \A d \in Channels \ {"shell"} : current[d] # r
           /\ queue' = queue /\ request' = request /\ status' = status
           /\ deferred' = deferred \ {r}
           /\ pc' = [pc EXCEPT !["shell"] = "replied"]
           /\ current' = [current EXCEPT !["shell"] = r]
           /\ Len(replies'[r]) = 1 /\ replies'[r][1] = Reply(st, CapturedCount(r), {})
           /\ \A s \in Requests \ {r} : replies'[s] = replies[s]
<1> USE MessageFacts
<1>1. /\ r # None /\ request[r] # None /\ request[r].channel = "shell"
      /\ status[r] = <<"busy">> /\ IsExecute(r) /\ replies[r] = <<>>
      /\ \A d \in Channels \ {"shell"} : current[d] # r
  <2>1. CASE r \in deferred
    <3>1. DeferredOK(r)
      BY <2>1 DEF PlaceInv, DeferredInv
    <3>2. request[r] \in Messages
      BY <3>1 DEF DeferredOK, IsExecute, TypeOK
    <3> QED
      BY <3>1, <3>2 DEF DeferredOK, IsExecute
  <2>2. CASE pc["shell"] = "execute" /\ r = current["shell"]
    BY <2>2, CurrentFacts
  <2> QED
    BY <2>1, <2>2 DEF ReplyCallback, Running
<1>2. Reply(st, CapturedCount(r), {}) \in ReplyMessage
  BY DEF Reply, CapturedCount, ReplyMessage, TypeOK
<1> QED
  BY <1>1, <1>2, FirstReply DEF ReplyCallback, Goto

LEMMA AbortEffect ==
    ASSUME TypeOK, PlaceInv, AbortRequest
    PROVE  LET h == Head(queue["shell"]) IN
           /\ h \in Requests /\ h # None /\ request[h] # None /\ request[h].channel = "shell"
           /\ status[h] = <<>> /\ replies[h] = <<>>
           /\ h \notin deferred /\ \A d \in Channels : current[d] # h
           /\ Len(replies'[h]) = 1 /\ replies'[h][1] = Reply("error", 0, {})
           /\ \A s \in Requests \ {h} : replies'[s] = replies[s]
           /\ request' = request /\ status' = status /\ deferred' = deferred
           /\ pc' = pc /\ current' = current
<1> USE MessageFacts
<1> DEFINE h == Head(queue["shell"])
<1>1. /\ h \in Requests /\ h # None /\ request[h] # None /\ request[h].channel = "shell"
      /\ status[h] = <<>> /\ replies[h] = <<>>
      /\ h \notin deferred /\ \A d \in Channels : current[d] # h
  BY HeadFacts DEF AbortRequest
<1>2. Reply("error", 0, {}) \in ReplyMessage
  BY DEF Reply, ReplyMessage
<1> QED
  BY <1>1, <1>2, FirstReply DEF AbortRequest, interpreterVars

LEMMA PlaceStep ==
    ASSUME TypeOK, TypeOK', PlaceInv, [Next]_vars
    PROVE  PlaceInv'
<1> USE MessageFacts
<1>1. ASSUME NEW c \in Channels, HandlerStep(c) PROVE PlaceInv'
  <2> DEFINE r == current[c]
  <2>1. /\ r \in Requests /\ r # None /\ request[r] # None /\ request[r].channel = c
        /\ status[r] = <<"busy">> /\ r \notin deferred /\ ~IsExecute(r)
        /\ \A d \in Channels \ {c} : current[d] # r
        /\ queue' = queue /\ request' = request /\ status' = status
        /\ current' = current /\ deferred' = deferred
        /\ \A s \in Requests \ {r} : replies'[s] = replies[s]
        /\ replies'[r] = replies[r] \/ Len(replies'[r]) = 1
        /\ pc' = [pc EXCEPT ![c] = "close"]
    BY <1>1, HandlerEffect
  <2>2. QueueInv'
    BY <2>1, QueueKept, StatusValues DEF PlaceInv
  <2>3. UnsentInv'
    BY <2>1 DEF PlaceInv, UnsentInv
  <2>4. ThreadInv'
    <3>1. ThreadOK(c)'
      BY <2>1, StateFacts DEF ThreadOK, IsExecute
    <3>2. \A d \in Channels \ {c} : ThreadOK(d)'
      BY <2>1, StateFacts, ThreadKept
    <3> QED
      BY <3>1, <3>2 DEF ThreadInv
  <2>5. DeferredInv'
    BY <2>1, StateFacts, DeferredKept DEF DeferredInv
  <2>6. StatusInv'
    BY <2>1, StatusKept DEF PlaceInv
  <2> QED
    BY <2>2, <2>3, <2>4, <2>5, <2>6 DEF PlaceInv
<1>2. ASSUME NEW c \in Channels, CloseDispatch(c) PROVE PlaceInv'
  <2> DEFINE r == current[c]
  <2>1. /\ r \in Requests /\ r # None /\ request[r] # None /\ r \notin deferred
        /\ status[r] = <<"busy">> /\ status'[r] = <<"busy", "idle">>
        /\ \A s \in Requests \ {r} : status'[s] = status[s]
        /\ \A d \in Channels \ {c} : current[d] # r
        /\ queue' = queue /\ request' = request /\ replies' = replies /\ deferred' = deferred
        /\ pc' = [pc EXCEPT ![c] = "listen"] /\ current' = [current EXCEPT ![c] = None]
    BY <1>2, CloseEffect
  <2>2. QueueInv'
    BY <2>1, QueueKept, StatusValues DEF PlaceInv
  <2>3. UnsentInv'
    BY <2>1 DEF PlaceInv, UnsentInv
  <2>4. ThreadInv'
    <3>1. ThreadOK(c)'
      BY <2>1, StateFacts DEF ThreadOK, IsExecute
    <3>2. \A d \in Channels \ {c} : ThreadOK(d)'
      BY <2>1, StateFacts, ThreadKept
    <3> QED
      BY <3>1, <3>2 DEF ThreadInv
  <2>5. DeferredInv'
    BY <2>1, StateFacts, DeferredKept DEF DeferredInv
  <2>6. StatusInv'
    BY <2>1 DEF PlaceInv, StatusInv
  <2> QED
    BY <2>2, <2>3, <2>4, <2>5, <2>6 DEF PlaceInv
<1>3. ASSUME CompleteExecution PROVE PlaceInv'
  <2> DEFINE r == current["shell"]
  <2>1. /\ r \in Requests /\ r # None /\ request[r] # None /\ r \notin deferred
        /\ status[r] = <<"busy">> /\ status'[r] = <<"busy", "idle">>
        /\ \A s \in Requests \ {r} : status'[s] = status[s]
        /\ \A d \in Channels \ {"shell"} : current[d] # r
        /\ queue' = queue /\ request' = request /\ replies' = replies /\ deferred' = deferred
        /\ pc' = [pc EXCEPT !["shell"] = "listen"] /\ current' = [current EXCEPT !["shell"] = None]
    BY <1>3, CompleteEffect
  <2>2. QueueInv'
    BY <2>1, QueueKept, StatusValues DEF PlaceInv
  <2>3. UnsentInv'
    BY <2>1 DEF PlaceInv, UnsentInv
  <2>4. ThreadInv'
    <3>1. ThreadOK("shell")'
      BY <2>1, StateFacts DEF ThreadOK, IsExecute
    <3>2. \A d \in Channels \ {"shell"} : ThreadOK(d)'
      BY <2>1, StateFacts, ThreadKept
    <3> QED
      BY <3>1, <3>2 DEF ThreadInv
  <2>5. DeferredInv'
    BY <2>1, StateFacts, DeferredKept DEF DeferredInv
  <2>6. StatusInv'
    BY <2>1 DEF PlaceInv, StatusInv
  <2> QED
    BY <2>2, <2>3, <2>4, <2>5, <2>6 DEF PlaceInv
<1>4. ASSUME ExecuteRequest PROVE PlaceInv'
  <2> DEFINE r == current["shell"]
  <2>1. /\ r \in Requests /\ r # None /\ request[r] # None /\ request[r].channel = "shell"
        /\ status[r] = <<"busy">> /\ r \notin deferred /\ IsExecute(r)
        /\ \A d \in Channels \ {"shell"} : current[d] # r
        /\ replies[r] = <<>>
        /\ queue' = queue /\ request' = request /\ status' = status /\ replies' = replies
        /\ pc' = [pc EXCEPT !["shell"] = "execute"] /\ current' = current /\ deferred' = deferred
    <3>1. r # None
      BY <1>4 DEF ExecuteRequest, Handling, TypeOK
    <3>2. r \in Requests /\ IsExecute(r)
      BY <1>4, <3>1, CurrentFacts DEF ExecuteRequest, Handling, IsExecute
    <3> QED
      BY <1>4, <3>1, <3>2, CurrentFacts DEF ExecuteRequest, Handling, Goto
  <2>2. QueueInv'
    BY <2>1, QueueKept, StatusValues DEF PlaceInv
  <2>3. UnsentInv'
    BY <2>1 DEF PlaceInv, UnsentInv
  <2>4. ThreadInv'
    <3>1. ThreadOK("shell")'
      BY <2>1, StateFacts DEF ThreadOK, IsExecute
    <3>2. \A d \in Channels \ {"shell"} : ThreadOK(d)'
      BY <2>1, StateFacts, ThreadKept
    <3> QED
      BY <3>1, <3>2 DEF ThreadInv
  <2>5. DeferredInv'
    BY <2>1, StateFacts, DeferredKept DEF DeferredInv
  <2>6. StatusInv'
    BY <2>1 DEF PlaceInv, StatusInv
  <2> QED
    BY <2>2, <2>3, <2>4, <2>5, <2>6 DEF PlaceInv
<1>5. ASSUME InterpreterThrows PROVE PlaceInv'
  <2> DEFINE r == current["shell"]
  <2>1. /\ r \in Requests /\ r # None /\ request[r] # None /\ request[r].channel = "shell"
        /\ status[r] = <<"busy">> /\ r \notin deferred /\ IsExecute(r)
        /\ \A d \in Channels \ {"shell"} : current[d] # r
        /\ replies[r] = <<>>
        /\ queue' = queue /\ request' = request /\ status' = status /\ replies' = replies
        /\ pc' = [pc EXCEPT !["shell"] = "listen"] /\ current' = [current EXCEPT !["shell"] = None]
        /\ deferred' = deferred
    <3>1. r # None
      BY <1>5 DEF InterpreterThrows, TypeOK
    <3>2. r \in Requests /\ IsExecute(r)
      BY <1>5, <3>1, CurrentFacts DEF InterpreterThrows, IsExecute
    <3> QED
      BY <1>5, <3>1, <3>2, CurrentFacts DEF InterpreterThrows, Return, Blocking, IsExecute, Finish, interpreterVars, clientVars, Goto
  <2>2. QueueInv'
    BY <2>1, QueueKept, StatusValues DEF PlaceInv
  <2>3. UnsentInv'
    BY <2>1 DEF PlaceInv, UnsentInv
  <2>4. ThreadInv'
    <3>1. ThreadOK("shell")'
      BY <2>1, StateFacts DEF ThreadOK, IsExecute
    <3>2. \A d \in Channels \ {"shell"} : ThreadOK(d)'
      BY <2>1, StateFacts, ThreadKept
    <3> QED
      BY <3>1, <3>2 DEF ThreadInv
  <2>5. DeferredInv'
    BY <2>1, StateFacts, DeferredKept DEF DeferredInv
  <2>6. StatusInv'
    BY <2>1 DEF PlaceInv, StatusInv
  <2> QED
    BY <2>2, <2>3, <2>4, <2>5, <2>6 DEF PlaceInv
<1>6. ASSUME InterpreterDefers PROVE PlaceInv'
  <2> DEFINE r == current["shell"]
  <2>1. /\ r \in Requests /\ r # None /\ request[r] # None /\ request[r].channel = "shell"
        /\ status[r] = <<"busy">> /\ r \notin deferred /\ IsExecute(r)
        /\ \A d \in Channels \ {"shell"} : current[d] # r
        /\ replies[r] = <<>>
        /\ queue' = queue /\ request' = request /\ status' = status /\ replies' = replies
        /\ pc' = [pc EXCEPT !["shell"] = "listen"] /\ current' = [current EXCEPT !["shell"] = None]
        /\ deferred' = deferred \cup {r}
    <3>1. r # None
      BY <1>6 DEF InterpreterDefers, TypeOK
    <3>2. r \in Requests /\ IsExecute(r)
      BY <1>6, <3>1, CurrentFacts DEF InterpreterDefers, IsExecute
    <3> QED
      BY <1>6, <3>1, <3>2, CurrentFacts DEF InterpreterDefers, Return, Blocking, IsExecute, Finish, clientVars, Goto
  <2>2. QueueInv'
    BY <2>1, QueueKept, StatusValues DEF PlaceInv
  <2>3. UnsentInv'
    BY <2>1 DEF PlaceInv, UnsentInv
  <2>4. ThreadInv'
    <3>1. ThreadOK("shell")'
      BY <2>1, StateFacts DEF ThreadOK, IsExecute
    <3>2. \A d \in Channels \ {"shell"} : ThreadOK(d)'
      BY <2>1, StateFacts, ThreadKept
    <3> QED
      BY <3>1, <3>2 DEF ThreadInv
  <2>5. DeferredInv'
    <3>1. ASSUME NEW s \in Requests, s = current["shell"] PROVE DeferredOK(s)'
      BY <3>1, <2>1, StateFacts DEF DeferredOK, IsExecute
    <3>2. \A s \in deferred : DeferredOK(s)'
      BY <2>1, StateFacts, DeferredKept
    <3> QED
      BY <2>1, <3>1, <3>2 DEF DeferredInv
  <2>6. StatusInv'
    BY <2>1 DEF PlaceInv, StatusInv
  <2> QED
    BY <2>2, <2>3, <2>4, <2>5, <2>6 DEF PlaceInv
<1>7. ASSUME StoreInputs PROVE PlaceInv'
  <2> DEFINE r == current["shell"]
  <2>1. /\ r \in Requests /\ r # None /\ request[r] # None /\ request[r].channel = "shell"
        /\ status[r] = <<"busy">> /\ r \notin deferred /\ IsExecute(r)
        /\ \A d \in Channels \ {"shell"} : current[d] # r
        /\ Len(replies[r]) = 1
        /\ queue' = queue /\ request' = request /\ status' = status /\ replies' = replies
        /\ \E l \in {"abort", "complete"} : pc' = [pc EXCEPT !["shell"] = l]
        /\ current' = current /\ deferred' = deferred
    <3>1. r # None
      BY <1>7 DEF StoreInputs, TypeOK
    <3>2. r \in Requests /\ IsExecute(r)
      BY <1>7, <3>1, CurrentFacts DEF StoreInputs, IsExecute
    <3> QED
      BY <1>7, <3>1, <3>2, CurrentFacts DEF StoreInputs, interpreterVars, clientVars, Goto
  <2>2. QueueInv'
    BY <2>1, QueueKept, StatusValues DEF PlaceInv
  <2>3. UnsentInv'
    BY <2>1 DEF PlaceInv, UnsentInv
  <2>4. ThreadInv'
    <3>1. ThreadOK("shell")'
      BY <2>1, StateFacts DEF ThreadOK, IsExecute
    <3>2. \A d \in Channels \ {"shell"} : ThreadOK(d)'
      BY <2>1, StateFacts, ThreadKept
    <3> QED
      BY <3>1, <3>2 DEF ThreadInv
  <2>5. DeferredInv'
    BY <2>1, StateFacts, DeferredKept DEF DeferredInv
  <2>6. StatusInv'
    BY <2>1 DEF PlaceInv, StatusInv
  <2> QED
    BY <2>2, <2>3, <2>4, <2>5, <2>6 DEF PlaceInv
<1>8. ASSUME AbortEnds PROVE PlaceInv'
  <2> DEFINE r == current["shell"]
  <2>1. /\ r \in Requests /\ r # None /\ request[r] # None /\ request[r].channel = "shell"
        /\ status[r] = <<"busy">> /\ r \notin deferred /\ IsExecute(r)
        /\ \A d \in Channels \ {"shell"} : current[d] # r
        /\ Len(replies[r]) = 1
        /\ queue' = queue /\ request' = request /\ status' = status /\ replies' = replies
        /\ pc' = [pc EXCEPT !["shell"] = "complete"] /\ current' = current /\ deferred' = deferred
    <3>1. r # None
      BY <1>8 DEF AbortEnds, TypeOK
    <3>2. r \in Requests /\ IsExecute(r)
      BY <1>8, <3>1, CurrentFacts DEF AbortEnds, IsExecute
    <3> QED
      BY <1>8, <3>1, <3>2, CurrentFacts DEF AbortEnds, interpreterVars, clientVars, Goto
  <2>2. QueueInv'
    BY <2>1, QueueKept, StatusValues DEF PlaceInv
  <2>3. UnsentInv'
    BY <2>1 DEF PlaceInv, UnsentInv
  <2>4. ThreadInv'
    <3>1. ThreadOK("shell")'
      BY <2>1, StateFacts DEF ThreadOK, IsExecute
    <3>2. \A d \in Channels \ {"shell"} : ThreadOK(d)'
      BY <2>1, StateFacts, ThreadKept
    <3> QED
      BY <3>1, <3>2 DEF ThreadInv
  <2>5. DeferredInv'
    BY <2>1, StateFacts, DeferredKept DEF DeferredInv
  <2>6. StatusInv'
    BY <2>1 DEF PlaceInv, StatusInv
  <2> QED
    BY <2>2, <2>3, <2>4, <2>5, <2>6 DEF PlaceInv
<1>9. ASSUME NEW r \in Requests, NEW st \in {"ok", "error"}, ReplyCallback(r, st)
      PROVE  PlaceInv'
  <2>1. /\ r # None /\ request[r] # None /\ request[r].channel = "shell"
        /\ status[r] = <<"busy">> /\ IsExecute(r) /\ replies[r] = <<>>
        /\ \A d \in Channels \ {"shell"} : current[d] # r
        /\ queue' = queue /\ request' = request /\ status' = status
        /\ deferred' = deferred \ {r}
        /\ pc' = [pc EXCEPT !["shell"] = "replied"] /\ current' = [current EXCEPT !["shell"] = r]
        /\ Len(replies'[r]) = 1 /\ \A s \in Requests \ {r} : replies'[s] = replies[s]
    BY <1>9, CallbackEffect
  <2>7. QueueInv'
    BY <2>1, QueueKept, StatusValues DEF PlaceInv
  <2>3. UnsentInv'
    BY <2>1 DEF PlaceInv, UnsentInv
  <2>4. ThreadInv'
    <3>1. ThreadOK("shell")'
      BY <2>1, StateFacts DEF ThreadOK, IsExecute
    <3>2. \A d \in Channels \ {"shell"} : ThreadOK(d)'
      BY <2>1, StateFacts, ThreadKept
    <3> QED
      BY <3>1, <3>2 DEF ThreadInv
  <2>5. DeferredInv'
    BY <2>1, StateFacts, DeferredKept DEF DeferredInv
  <2>6. StatusInv'
    BY <2>1, StatusKept DEF PlaceInv
  <2> QED
    BY <2>7, <2>3, <2>4, <2>5, <2>6 DEF PlaceInv
<1>10. ASSUME NEW r \in Requests, InterpreterPublishes(r) PROVE PlaceInv'
  <2>1. /\ queue' = queue /\ request' = request /\ status' = status /\ replies' = replies
        /\ pc' = pc /\ current' = current /\ deferred' = deferred
    BY <1>10 DEF InterpreterPublishes, serverVars, interpreterVars
  <2>2. QueueInv'
    BY <2>1, QueueKept, StatusValues DEF PlaceInv
  <2>3. UnsentInv'
    BY <2>1 DEF PlaceInv, UnsentInv
  <2>4. ThreadInv'
    BY <2>1, ThreadKept DEF ThreadInv
  <2>5. DeferredInv'
    BY <2>1, StateFacts, DeferredKept DEF DeferredInv
  <2>6. StatusInv'
    BY <2>1 DEF PlaceInv, StatusInv
  <2> QED
    BY <2>2, <2>3, <2>4, <2>5, <2>6 DEF PlaceInv
<1>11. ASSUME UNCHANGED vars PROVE PlaceInv'
  <2>1. /\ queue' = queue /\ request' = request /\ status' = status /\ replies' = replies
        /\ pc' = pc /\ current' = current /\ deferred' = deferred
    BY <1>11 DEF vars, serverVars, interpreterVars, clientVars
  <2>2. QueueInv'
    BY <2>1, QueueKept, StatusValues DEF PlaceInv
  <2>3. UnsentInv'
    BY <2>1 DEF PlaceInv, UnsentInv
  <2>4. ThreadInv'
    BY <2>1, ThreadKept DEF ThreadInv
  <2>5. DeferredInv'
    BY <2>1, StateFacts, DeferredKept DEF DeferredInv
  <2>6. StatusInv'
    BY <2>1 DEF PlaceInv, StatusInv
  <2> QED
    BY <2>2, <2>3, <2>4, <2>5, <2>6 DEF PlaceInv
<1>12. ASSUME NEW c \in Channels, ServerExits(c) PROVE PlaceInv'
  <2>1. /\ queue' = queue /\ request' = request /\ status' = status /\ replies' = replies
        /\ current[c] = None /\ current' = current /\ deferred' = deferred
        /\ pc' = [pc EXCEPT ![c] = "exited"]
    BY <1>12 DEF ServerExits, Goto, TypeOK, interpreterVars, clientVars
  <2>2. QueueInv'
    BY <2>1, QueueKept, StatusValues DEF PlaceInv
  <2>3. UnsentInv'
    BY <2>1 DEF PlaceInv, UnsentInv
  <2>4. ThreadInv'
    <3>1. ThreadOK(c)'
      BY <2>1, StateFacts DEF ThreadOK, IsExecute
    <3>2. \A d \in Channels \ {c} : ThreadOK(d)'
      BY <2>1, StateFacts, ThreadKept
    <3> QED
      BY <3>1, <3>2 DEF ThreadInv
  <2>5. DeferredInv'
    BY <2>1, StateFacts, DeferredKept DEF DeferredInv
  <2>6. StatusInv'
    BY <2>1 DEF PlaceInv, StatusInv
  <2> QED
    BY <2>2, <2>3, <2>4, <2>5, <2>6 DEF PlaceInv
<1>13. ASSUME NEW r \in Requests, NEW m \in Messages, Send(r, m) PROVE PlaceInv'
  <2> DEFINE c == m.channel
  <2>1. /\ c \in Channels /\ m # None /\ r # None
        /\ request[r] = None /\ request'[r] = m /\ status[r] = <<>> /\ replies[r] = <<>>
        /\ \A s \in Requests \ {r} : request'[s] = request[s]
        /\ status' = status /\ replies' = replies /\ deferred' = deferred
        /\ current' = current /\ pc' = pc
    BY <1>13, SendEffect
  <2>2. /\ r \notin deferred /\ \A d \in Channels : current[d] # r
        /\ \A d \in Channels : \A i \in 1..Len(queue[d]) : queue[d][i] \in Requests \ {r}
    <3>1. r \notin deferred
      BY <2>1, StatusValues DEF PlaceInv, DeferredInv, DeferredOK
    <3>2. \A d \in Channels : current[d] # r
      BY <2>1, CurrentFacts
    <3>3. \A d \in Channels : queue[d] \in Seq(Requests)
      BY DEF TypeOK
    <3>4. \A d \in Channels : \A i \in 1..Len(queue[d]) : queue[d][i] \in Requests
      BY <3>3
    <3>5. \A d \in Channels : \A i \in 1..Len(queue[d]) : queue[d][i] # r
      BY <2>1 DEF PlaceInv, QueueInv, QueueOK
    <3> QED
      BY <3>1, <3>2, <3>4, <3>5
  <2>3. /\ Len(queue[c]) \in Nat /\ Len(queue'[c]) = Len(queue[c]) + 1
        /\ queue'[c][Len(queue[c]) + 1] = r
        /\ \A i \in 1..Len(queue[c]) : queue'[c][i] = queue[c][i]
        /\ \A d \in Channels \ {c} : queue'[d] = queue[d]
    <3>1. queue[c] \in Seq(Requests)
      BY <2>1 DEF TypeOK
    <3>2. queue'[c] = Append(queue[c], r) /\ \A d \in Channels \ {c} : queue'[d] = queue[d]
      BY <1>13, <2>1 DEF Send, TypeOK
    <3> QED
      BY <3>1, <3>2
  <2>4. QueueInv'
    <3>1. ASSUME NEW d \in Channels \ {c} PROVE QueueOK(d)'
      BY <2>1, <2>2, <2>3 DEF PlaceInv, QueueInv, QueueOK
    <3>2. ASSUME NEW i \in 1..Len(queue'[c])
          PROVE  /\ request'[queue'[c][i]] # None /\ request'[queue'[c][i]].channel = c
                 /\ status'[queue'[c][i]] = <<>> /\ replies'[queue'[c][i]] = <<>>
      <4>1. i \in 1..Len(queue[c]) \/ i = Len(queue[c]) + 1
        BY <2>3
      <4>2. CASE i \in 1..Len(queue[c])
        <5>1. queue'[c][i] = queue[c][i] /\ queue[c][i] \in Requests \ {r}
          BY <4>2, <2>1, <2>2, <2>3
        <5>2. /\ request[queue[c][i]] # None /\ request[queue[c][i]].channel = c
              /\ status[queue[c][i]] = <<>> /\ replies[queue[c][i]] = <<>>
          BY <4>2, <2>1 DEF PlaceInv, QueueInv, QueueOK
        <5> QED
          BY <5>1, <5>2, <2>1
      <4>3. CASE i = Len(queue[c]) + 1
        BY <4>3, <2>1, <2>3
      <4> QED
        BY <4>1, <4>2, <4>3
    <3>3. ASSUME NEW i \in 1..Len(queue'[c]), NEW j \in 1..Len(queue'[c]),
                 queue'[c][i] = queue'[c][j]
          PROVE  i = j
      <4>1. /\ i \in 1..Len(queue[c]) \/ i = Len(queue[c]) + 1
            /\ j \in 1..Len(queue[c]) \/ j = Len(queue[c]) + 1
        BY <2>3
      <4>2. CASE i \in 1..Len(queue[c]) /\ j \in 1..Len(queue[c])
        <5>1. queue[c][i] = queue[c][j]
          BY <3>3, <4>2, <2>3
        <5> QED
          BY <4>2, <5>1, <2>1 DEF PlaceInv, QueueInv, QueueOK
      <4>3. CASE i = Len(queue[c]) + 1 /\ j \in 1..Len(queue[c])
        BY <3>3, <4>3, <2>1, <2>2, <2>3
      <4>4. CASE i \in 1..Len(queue[c]) /\ j = Len(queue[c]) + 1
        BY <3>3, <4>4, <2>1, <2>2, <2>3
      <4> QED
        BY <4>1, <4>2, <4>3, <4>4
    <3>4. QueueOK(c)'
      BY <3>2, <3>3 DEF QueueOK
    <3> QED
      BY <3>1, <3>4 DEF QueueInv
  <2>5. UnsentInv'
    BY <2>1, <2>2 DEF PlaceInv, UnsentInv
  <2>6. ThreadInv'
    BY <2>1, <2>2, ThreadKept DEF ThreadInv
  <2>7. DeferredInv'
    BY <2>1, <2>2, StateFacts, DeferredKept DEF DeferredInv
  <2>8. StatusInv'
    BY <2>1, <2>2 DEF PlaceInv, StatusInv
  <2> QED
    BY <2>4, <2>5, <2>6, <2>7, <2>8 DEF PlaceInv
<1>14. ASSUME NEW c \in Channels, Dispatch(c) PROVE PlaceInv'
  <2> DEFINE h == Head(queue[c])
  <2>1. /\ h \in Requests /\ h # None /\ request[h] # None /\ request[h].channel = c
        /\ status[h] = <<>> /\ replies[h] = <<>>
        /\ h \notin deferred /\ \A d \in Channels : current[d] # h
        /\ status'[h] = <<"busy">> /\ \A s \in Requests \ {h} : status'[s] = status[s]
        /\ request' = request /\ replies' = replies /\ deferred' = deferred
        /\ pc' = [pc EXCEPT ![c] = "handle"] /\ current' = [current EXCEPT ![c] = h]
    BY <1>14, DispatchEffect
  <2>2. QueueInv'
    BY <1>14, <2>1, QueueRead DEF Dispatch, PlaceInv
  <2>3. UnsentInv'
    BY <2>1 DEF PlaceInv, UnsentInv
  <2>4. ThreadInv'
    <3>1. ThreadOK(c)'
      BY <2>1, StateFacts DEF ThreadOK, IsExecute
    <3>2. \A d \in Channels \ {c} : ThreadOK(d)'
      BY <2>1, StateFacts, ThreadKept
    <3> QED
      BY <3>1, <3>2 DEF ThreadInv
  <2>5. DeferredInv'
    BY <2>1, StateFacts, DeferredKept DEF DeferredInv
  <2>6. StatusInv'
    BY <2>1 DEF PlaceInv, StatusInv
  <2> QED
    BY <2>2, <2>3, <2>4, <2>5, <2>6 DEF PlaceInv
<1>15. ASSUME AbortRequest PROVE PlaceInv'
  <2> DEFINE h == Head(queue["shell"])
  <2>1. /\ h \in Requests /\ h # None /\ request[h] # None /\ request[h].channel = "shell"
        /\ status[h] = <<>> /\ replies[h] = <<>>
        /\ h \notin deferred /\ \A d \in Channels : current[d] # h
        /\ Len(replies'[h]) = 1 /\ \A s \in Requests \ {h} : replies'[s] = replies[s]
        /\ request' = request /\ status' = status /\ deferred' = deferred
        /\ pc' = pc /\ current' = current
    BY <1>15, AbortEffect
  <2>2. QueueInv'
    BY <1>15, <2>1, QueueRead DEF AbortRequest, PlaceInv
  <2>3. UnsentInv'
    BY <2>1 DEF PlaceInv, UnsentInv
  <2>4. ThreadInv'
    BY <2>1, ThreadKept DEF ThreadInv
  <2>5. DeferredInv'
    BY <2>1, StateFacts, DeferredKept DEF DeferredInv
  <2>6. StatusInv'
    BY <2>1, StatusKept DEF PlaceInv
  <2> QED
    BY <2>2, <2>3, <2>4, <2>5, <2>6 DEF PlaceInv
<1>16. ASSUME AbortThrows PROVE PlaceInv'
  <2> DEFINE h == Head(queue["shell"])
  <2>1. /\ h \in Requests /\ h # None /\ request[h] # None /\ request[h].channel = "shell"
        /\ status[h] = <<>> /\ replies[h] = <<>>
        /\ h \notin deferred /\ \A d \in Channels : current[d] # h
    BY <1>16, HeadFacts DEF AbortThrows
  <2>9. /\ request' = request /\ replies' = replies /\ deferred' = deferred /\ status' = status
        /\ pc' = [pc EXCEPT !["shell"] = "listen"]
        /\ current' = [current EXCEPT !["shell"] = None]
    <3>1. current["shell"] # None
      BY <1>16 DEF AbortThrows, TypeOK
    <3>2. request[current["shell"]].kind = "execute_request"
      BY <1>16, <3>1, CurrentFacts DEF AbortThrows, IsExecute
    <3> QED
      BY <1>16, <3>2 DEF AbortThrows, Return, Blocking, Finish, Goto, interpreterVars, clientVars
  <2>2. QueueInv'
    BY <1>16, <2>9, QueueRead DEF AbortThrows, PlaceInv
  <2>3. UnsentInv'
    BY <2>1, <2>9 DEF PlaceInv, UnsentInv
  <2>4. ThreadInv'
    <3>1. ThreadOK("shell")'
      BY <2>1, <2>9, StateFacts DEF ThreadOK, IsExecute
    <3>2. \A d \in Channels \ {"shell"} : ThreadOK(d)'
      BY <2>1, <2>9, StateFacts, ThreadKept
    <3> QED
      BY <3>1, <3>2 DEF ThreadInv
  <2>5. DeferredInv'
    BY <2>1, <2>9, StateFacts, DeferredKept DEF DeferredInv
  <2>6. StatusInv'
    BY <2>1, <2>9 DEF PlaceInv, StatusInv
  <2> QED
    BY <2>2, <2>3, <2>4, <2>5, <2>6 DEF PlaceInv
<1> QED
  BY <1>1, <1>2, <1>3, <1>4, <1>5, <1>6, <1>7, <1>8, <1>9, <1>10, <1>11, <1>12, <1>13, <1>14,
    <1>15, <1>16, HandlerSteps
  DEF Next, DispatchStep, CallbackStep, HandlerOf, Quiescent

\* The steps that change no request, no status and no reply.
QuietStep ==
    \/ ExecuteRequest \/ (\E r \in Requests : InterpreterPublishes(r))
    \/ InterpreterThrows \/ InterpreterDefers \/ StoreInputs \/ AbortThrows \/ AbortEnds
    \/ (\E c \in Channels : ServerExits(c)) \/ UNCHANGED vars

LEMMA QuietEffect ==
    ASSUME QuietStep
    PROVE  request' = request /\ status' = status /\ replies' = replies
BY DEF QuietStep, ExecuteRequest, InterpreterPublishes, InterpreterThrows, InterpreterDefers,
  StoreInputs, AbortThrows, AbortEnds, ServerExits, vars, clientVars

\* The steps of KernelCore, as the proofs below split them.
LEMMA StepKinds ==
    ASSUME TypeOK, [Next]_vars
    PROVE  \/ QuietStep
           \/ \E r \in Requests, m \in Messages : Send(r, m)
           \/ \E c \in Channels : Dispatch(c) \/ HandlerStep(c) \/ CloseDispatch(c)
           \/ \E r \in Requests, st \in {"ok", "error"} : ReplyCallback(r, st)
           \/ AbortRequest
           \/ CompleteExecution
BY HandlerSteps DEF Next, DispatchStep, CallbackStep, HandlerOf, Quiescent, QuietStep

---------------------------------------------------------------------------
(* Invariance *)

\* KernelCore keeps its types: in particular a thread has a request exactly
\* when it is neither listening nor gone.
THEOREM TypeCorrect == Spec => []TypeOK
<1>1. TypeOK /\ [Next]_vars => TypeOK'
  BY TypeStep
<1> QED
  BY TypeInit, <1>1, PTL DEF Spec

\* Every request is where its statuses and its replies say it is.
THEOREM PlaceCorrect == Spec => [](TypeOK /\ PlaceInv)
<1>1. Init => TypeOK /\ PlaceInv
  BY TypeInit, PlaceInit
<1>2. TypeOK /\ PlaceInv /\ [Next]_vars => (TypeOK /\ PlaceInv)'
  BY TypeStep, PlaceStep
<1> QED
  BY <1>1, <1>2, PTL DEF Spec

LEMMA BusyStep ==
    ASSUME ~MayThrow, \A m \in Messages : m.kind # "garbled",
           TypeOK, PlaceInv, BusyGetsIdle, [Next]_vars
    PROVE  BusyGetsIdle'
<1> USE MessageFacts
<1>1. SUFFICES ASSUME NEW r \in Requests, status'[r] = <<"busy">>, r \notin deferred'
               PROVE  current'[request'[r].channel] = r
  BY DEF BusyGetsIdle
<1>2. ASSUME status[r] = <<"busy">>, r \notin deferred
      PROVE  /\ request[r] \in Messages /\ request[r].channel \in Channels
             /\ current[request[r].channel] = r
  <2>1. request[r] # None
    BY <1>2, StatusValues DEF PlaceInv, UnsentInv
  <2> QED
    BY <1>2, <2>1 DEF BusyGetsIdle, TypeOK
<1>3. CASE QuietStep
  <2>1. status[r] = <<"busy">> /\ request' = request
    BY <1>1, <1>3, QuietEffect
  <2>2. CASE ExecuteRequest
    BY <1>1, <1>2, <2>1, <2>2 DEF ExecuteRequest
  <2>3. CASE \E s \in Requests : InterpreterPublishes(s)
    BY <1>1, <1>2, <2>1, <2>3 DEF InterpreterPublishes, serverVars, interpreterVars
  <2>4. ~InterpreterThrows
    BY DEF InterpreterThrows
  <2>5. CASE InterpreterDefers
    <3>1. r # current["shell"] /\ r \notin deferred
      BY <1>1, <2>5 DEF InterpreterDefers
    <3>2. \A c \in Channels : current'[c] = current[c] \/ (c = "shell" /\ current'[c] = None)
      BY <2>5 DEF InterpreterDefers, Return, Finish, Goto, TypeOK
    <3> QED
      BY <1>2, <2>1, <3>1, <3>2 DEF TypeOK
  <2>6. CASE StoreInputs
    BY <1>1, <1>2, <2>1, <2>6 DEF StoreInputs, interpreterVars
  <2>7. ~AbortThrows
    <3>1. SUFFICES ASSUME AbortThrows PROVE FALSE
      OBVIOUS
    <3>2. LET h == Head(queue["shell"]) IN h \in Requests /\ request[h] # None
      BY <3>1, HeadFacts DEF AbortThrows
    <3> QED
      BY <3>1, <3>2 DEF AbortThrows, TypeOK
  <2>8. CASE AbortEnds
    BY <1>1, <1>2, <2>1, <2>8 DEF AbortEnds, interpreterVars
  <2>9. CASE \E c \in Channels : ServerExits(c)
    BY <1>1, <1>2, <2>1, <2>9 DEF ServerExits, interpreterVars
  <2>10. CASE UNCHANGED vars
    BY <1>1, <1>2, <2>1, <2>10 DEF vars, serverVars, interpreterVars
  <2> QED
    BY <1>3, <2>2, <2>3, <2>4, <2>5, <2>6, <2>7, <2>8, <2>9, <2>10 DEF QuietStep
<1>4. ASSUME NEW s \in Requests, NEW m \in Messages, Send(s, m)
      PROVE  current'[request'[r].channel] = r
  <2>1. r # s
    BY <1>1, <1>4, SendEffect, StatusValues
  <2> QED
    BY <1>1, <1>2, <1>4, <2>1, SendEffect
<1>5. ASSUME NEW c \in Channels, Dispatch(c)
      PROVE  current'[request'[r].channel] = r
  <2>1. current[c] = None /\ request' = request /\ deferred' = deferred
        /\ current' = [current EXCEPT ![c] = Head(queue[c])]
    BY <1>5, DispatchEffect DEF Dispatch, TypeOK
  <2>2. CASE r = Head(queue[c])
    <3>1. request[r].channel = c
      BY <1>5, <2>2, DispatchEffect
    <3> QED
      BY <2>1, <2>2, <3>1, StateFacts
  <2>3. CASE r # Head(queue[c])
    <3>1. status[r] = <<"busy">> /\ r \notin deferred
      BY <1>1, <1>5, <2>1, <2>3, DispatchEffect
    <3>2. current[request[r].channel] = r /\ request[r].channel # c
      BY <1>2, <2>1, <3>1
    <3> QED
      BY <1>2, <2>1, <3>1, <3>2, StateFacts
  <2> QED
    BY <2>2, <2>3
<1>6. ASSUME NEW c \in Channels, HandlerStep(c)
      PROVE  current'[request'[r].channel] = r
  BY <1>1, <1>2, <1>6, HandlerEffect
<1>7. ASSUME NEW c \in Channels, CloseDispatch(c)
      PROVE  current'[request'[r].channel] = r
  <2>1. r # current[c]
    BY <1>1, <1>7, CloseEffect, StatusValues
  <2> QED
    <3>1. status[r] = <<"busy">> /\ r \notin deferred
      BY <1>1, <1>7, <2>1, CloseEffect
    <3>2. current[request[r].channel] = r /\ request[r].channel # c
      BY <1>2, <2>1, <3>1
    <3>3. request' = request /\ current' = [current EXCEPT ![c] = None]
      BY <1>7, CloseEffect
    <3> QED
      BY <1>2, <3>1, <3>2, <3>3, StateFacts
<1>8. ASSUME NEW s \in Requests, NEW st \in {"ok", "error"}, ReplyCallback(s, st)
      PROVE  current'[request'[r].channel] = r
  <2>1. CASE r = s
    <3>1. /\ request[r].channel = "shell" /\ request' = request
          /\ current' = [current EXCEPT !["shell"] = r]
      BY <1>8, <2>1, CallbackEffect
    <3> QED
      BY <3>1, StateFacts
  <2>2. CASE r # s
    <3>1. status[r] = <<"busy">> /\ r \notin deferred
      BY <1>1, <1>8, <2>2, CallbackEffect
    <3>2. pc["shell"] = "listen" \/ current["shell"] = s
      BY <1>8 DEF ReplyCallback, Running
    <3>3. current["shell"] \in {None, s}
      BY <3>2 DEF TypeOK
    <3> QED
      <4>1. current[request[r].channel] = r /\ request[r].channel # "shell"
        BY <1>2, <2>2, <3>1, <3>3
      <4>2. request' = request /\ current' = [current EXCEPT !["shell"] = s]
        BY <1>8, CallbackEffect
      <4> QED
        BY <1>2, <3>1, <4>1, <4>2, StateFacts
  <2> QED
    BY <2>1, <2>2
<1>9. CASE AbortRequest
  BY <1>1, <1>2, <1>9, AbortEffect
<1>10. CASE CompleteExecution
  <2>1. r # current["shell"]
    BY <1>1, <1>10, CompleteEffect, StatusValues
  <2> QED
    <3>1. status[r] = <<"busy">> /\ r \notin deferred
      BY <1>1, <1>10, <2>1, CompleteEffect
    <3>2. current[request[r].channel] = r /\ request[r].channel # "shell"
      BY <1>2, <2>1, <3>1
    <3>3. request' = request /\ current' = [current EXCEPT !["shell"] = None]
      BY <1>10, CompleteEffect
    <3> QED
      BY <1>2, <3>1, <3>2, <3>3, StateFacts
<1> QED
  BY StepKinds, <1>3, <1>4, <1>5, <1>6, <1>7, <1>8, <1>9, <1>10

\* When the interpreter does not throw out of execute_request and the shell
\* queue holds no message whose type has no underscore, every request that was
\* declared busy is declared idle, whoever its thread works for next.
THEOREM BusyRequestsGetIdle ==
    ASSUME ~MayThrow, \A m \in Messages : m.kind # "garbled"
    PROVE  Spec => []BusyGetsIdle
<1> USE MessageFacts
<1>1. Init => BusyGetsIdle
  BY StatusValues DEF Init, BusyGetsIdle
<1>2. TypeOK /\ PlaceInv /\ BusyGetsIdle /\ [Next]_vars => BusyGetsIdle'
  BY BusyStep
<1> QED
  BY <1>1, <1>2, PlaceCorrect, PTL DEF Spec

---------------------------------------------------------------------------
(* Refinement *)

\* How the phase of a request follows from what was sent for it.
PhaseTable ==
    \A r \in Requests :
       /\ request[r] = None => PhaseOf(r) = "unsent"
       /\ request[r] # None /\ status[r] = <<>> /\ replies[r] = <<>> => PhaseOf(r) = "pending"
       /\ request[r] # None /\ status[r] = <<>> /\ Len(replies[r]) = 1 => PhaseOf(r) = "aborted"
       /\ request[r] # None /\ status[r] = <<"busy">> /\ replies[r] = <<>> => PhaseOf(r) = "busy"
       /\ request[r] # None /\ status[r] = <<"busy">> /\ Len(replies[r]) = 1
             => PhaseOf(r) = "replied"
       /\ request[r] # None /\ status[r] = <<"busy", "idle">> /\ Len(replies[r]) <= 1
             => PhaseOf(r) = "idle"

LEMMA PhaseValues == PhaseTable
<1> SUFFICES ASSUME NEW r \in Requests
             PROVE  /\ request[r] = None => PhaseOf(r) = "unsent"
                    /\ request[r] # None /\ status[r] = <<>> /\ replies[r] = <<>>
                          => PhaseOf(r) = "pending"
                    /\ request[r] # None /\ status[r] = <<>> /\ Len(replies[r]) = 1
                          => PhaseOf(r) = "aborted"
                    /\ request[r] # None /\ status[r] = <<"busy">> /\ replies[r] = <<>>
                          => PhaseOf(r) = "busy"
                    /\ request[r] # None /\ status[r] = <<"busy">> /\ Len(replies[r]) = 1
                          => PhaseOf(r) = "replied"
                    /\ request[r] # None /\ status[r] = <<"busy", "idle">> /\ Len(replies[r]) <= 1
                          => PhaseOf(r) = "idle"
  BY DEF PhaseTable
<1>1. replies[r] = <<>> => Len(replies[r]) # 1
  OBVIOUS
<1>2. request[r] = None => PhaseOf(r) = "unsent"
  BY DEF PhaseOf
<1>3. ASSUME request[r] # None, status[r] = <<>>, replies[r] = <<>> PROVE PhaseOf(r) = "pending"
  BY <1>1, <1>3, StatusValues DEF PhaseOf
<1>4. ASSUME request[r] # None, status[r] = <<>>, Len(replies[r]) = 1 PROVE PhaseOf(r) = "aborted"
  BY <1>1, <1>4, StatusValues DEF PhaseOf
<1>5. ASSUME request[r] # None, status[r] = <<"busy">>, replies[r] = <<>> PROVE PhaseOf(r) = "busy"
  BY <1>1, <1>5, StatusValues DEF PhaseOf
<1>6. ASSUME request[r] # None, status[r] = <<"busy">>, Len(replies[r]) = 1
      PROVE  PhaseOf(r) = "replied"
  BY <1>1, <1>6, StatusValues DEF PhaseOf
<1>7. ASSUME request[r] # None, status[r] = <<"busy", "idle">>, Len(replies[r]) <= 1
      PROVE  PhaseOf(r) = "idle"
  BY <1>1, <1>7, StatusValues DEF PhaseOf
<1> QED
  BY <1>2, <1>3, <1>4, <1>5, <1>6, <1>7

LEMMA PhaseValuesNext == PhaseTable'
BY PhaseValues, PTL

\* The phase of a request whose variables do not change does not change.
LEMMA PhaseKept ==
    ASSUME NEW r \in Requests,
           request'[r] = request[r], status'[r] = status[r], replies'[r] = replies[r]
    PROVE  PhaseOf(r)' = PhaseOf(r)
BY DEF PhaseOf

LEMMA PhaseStep ==
    ASSUME NEW r \in Requests, NEW from, NEW to,
           PhaseOf(r) \in from, PhaseOf(r)' = to,
           \A s \in Requests \ {r} : PhaseOf(s)' = PhaseOf(s)
    PROVE  Lifecycle!Step(r, from, to)
BY DEF Lifecycle!Step

LEMMA LifecycleStep ==
    ASSUME TypeOK, PlaceInv, [Next]_vars
    PROVE  Lifecycle!Next \/ UNCHANGED [r \in Requests |-> PhaseOf(r)]
<1> USE MessageFacts
<1>1. CASE QuietStep
  <2>1. \A r \in Requests : PhaseOf(r)' = PhaseOf(r)
    BY <1>1, QuietEffect, PhaseKept
  <2> QED
    BY <2>1
<1>2. ASSUME NEW r \in Requests, NEW m \in Messages, Send(r, m)
      PROVE  Lifecycle!Next
  <2>1. /\ request[r] = None /\ request'[r] # None /\ status'[r] = <<>> /\ replies'[r] = <<>>
        /\ \A s \in Requests \ {r} : /\ request'[s] = request[s] /\ status'[s] = status[s]
                                     /\ replies'[s] = replies[s]
    BY <1>2, SendEffect
  <2>2. PhaseOf(r) = "unsent" /\ PhaseOf(r)' = "pending"
    BY <2>1, PhaseValues, PhaseValuesNext DEF PhaseTable
  <2>3. \A s \in Requests \ {r} : PhaseOf(s)' = PhaseOf(s)
    BY <2>1, PhaseKept
  <2> QED
    BY <2>2, <2>3, PhaseStep DEF Lifecycle!Next, Lifecycle!Send
<1>3. ASSUME NEW c \in Channels, Dispatch(c)
      PROVE  Lifecycle!Next
  <2>0. PICK r \in Requests : r = Head(queue[c])
    BY <1>3, DispatchEffect
  <2>1. /\ r \in Requests /\ request[r] # None /\ request'[r] # None
        /\ status[r] = <<>> /\ replies[r] = <<>>
        /\ status'[r] = <<"busy">> /\ replies'[r] = <<>>
        /\ \A s \in Requests \ {r} : /\ request'[s] = request[s] /\ status'[s] = status[s]
                                     /\ replies'[s] = replies[s]
    BY <2>0, <1>3, DispatchEffect
  <2>2. PhaseOf(r) = "pending" /\ PhaseOf(r)' = "busy"
    BY <2>1, PhaseValues, PhaseValuesNext DEF PhaseTable
  <2>3. \A s \in Requests \ {r} : PhaseOf(s)' = PhaseOf(s)
    BY <2>1, PhaseKept
  <2> QED
    BY <2>1, <2>2, <2>3, PhaseStep DEF Lifecycle!Next, Lifecycle!Start
<1>4. ASSUME NEW c \in Channels, HandlerStep(c)
      PROVE  Lifecycle!Next \/ \A r \in Requests : PhaseOf(r)' = PhaseOf(r)
  <2>0. PICK r \in Requests : r = current[c]
    BY <1>4, HandlerEffect
  <2>1. /\ r \in Requests /\ request[r] # None /\ request'[r] # None
        /\ status[r] = <<"busy">> /\ replies[r] = <<>> /\ status'[r] = <<"busy">>
        /\ replies'[r] = replies[r] \/ Len(replies'[r]) = 1
        /\ \A s \in Requests \ {r} : /\ request'[s] = request[s] /\ status'[s] = status[s]
                                     /\ replies'[s] = replies[s]
    <3>1. replies[r] = <<>>
      BY <2>0, <1>4, HandlerEffect, CurrentFacts DEF HandlerStep
    <3> QED
      BY <2>0, <1>4, <3>1, HandlerEffect
  <2>2. \A s \in Requests \ {r} : PhaseOf(s)' = PhaseOf(s)
    BY <2>1, PhaseKept
  <2>3. CASE replies'[r] = replies[r]
    <3>1. PhaseOf(r)' = PhaseOf(r)
      BY <2>1, <2>3, PhaseValues, PhaseValuesNext DEF PhaseTable
    <3> QED
      BY <2>2, <3>1
  <2>4. CASE Len(replies'[r]) = 1
    <3>1. PhaseOf(r) = "busy" /\ PhaseOf(r)' = "replied"
      BY <2>1, <2>4, PhaseValues, PhaseValuesNext DEF PhaseTable
    <3> QED
      BY <2>1, <2>2, <3>1, PhaseStep DEF Lifecycle!Next, Lifecycle!Answer
  <2> QED
    BY <2>1, <2>3, <2>4
<1>5. ASSUME NEW r \in Requests, request[r] # None, request'[r] # None,
             status[r] = <<"busy">>, status'[r] = <<"busy", "idle">>, replies' = replies,
             \A s \in Requests \ {r} : request'[s] = request[s] /\ status'[s] = status[s]
      PROVE  Lifecycle!Next
  <2>1. replies[r] = <<>> \/ Len(replies[r]) = 1
    <3>1. Len(replies[r]) <= 1 /\ replies[r] \in Seq(ReplyMessage)
      BY DEF PlaceInv, StatusInv, TypeOK, ReplyMessage
    <3>2. CASE replies[r] # <<>>
      <4>1. ASSUME NEW n \in Nat \ {0}, n <= 1 PROVE n = 1
        BY <4>1
      <4>2. Len(replies[r]) \in Nat \ {0}
        BY <3>1, <3>2, NonEmpty
      <4> QED
        BY <3>1, <4>1, <4>2
    <3> QED
      BY <3>2
  <2>2. Len(replies'[r]) <= 1
    BY <1>5 DEF PlaceInv, StatusInv
  <2>3. PhaseOf(r) \in {"busy", "replied"}
    BY <1>5, <2>1, PhaseValues DEF PhaseTable
  <2>4. PhaseOf(r)' = "idle"
    BY <1>5, <2>2, PhaseValuesNext DEF PhaseTable
  <2>5. \A s \in Requests \ {r} : PhaseOf(s)' = PhaseOf(s)
    BY <1>5, PhaseKept
  <2> QED
    BY <2>3, <2>4, <2>5, PhaseStep DEF Lifecycle!Next, Lifecycle!Finish
<1>6. ASSUME NEW c \in Channels, CloseDispatch(c)
      PROVE  Lifecycle!Next
  BY <1>5, <1>6, CloseEffect
<1>7. ASSUME CompleteExecution
      PROVE  Lifecycle!Next
  BY <1>5, <1>7, CompleteEffect
<1>8. ASSUME NEW r \in Requests, NEW st \in {"ok", "error"}, ReplyCallback(r, st)
      PROVE  Lifecycle!Next
  <2>1. /\ request[r] # None /\ request'[r] # None
        /\ status[r] = <<"busy">> /\ replies[r] = <<>>
        /\ status'[r] = <<"busy">> /\ Len(replies'[r]) = 1
        /\ \A s \in Requests \ {r} : /\ request'[s] = request[s] /\ status'[s] = status[s]
                                     /\ replies'[s] = replies[s]
    BY <1>8, CallbackEffect
  <2>2. PhaseOf(r) = "busy" /\ PhaseOf(r)' = "replied"
    BY <2>1, PhaseValues, PhaseValuesNext DEF PhaseTable
  <2>3. \A s \in Requests \ {r} : PhaseOf(s)' = PhaseOf(s)
    BY <2>1, PhaseKept
  <2> QED
    BY <2>2, <2>3, PhaseStep DEF Lifecycle!Next, Lifecycle!Answer
<1>9. ASSUME AbortRequest
      PROVE  Lifecycle!Next
  <2>0. PICK r \in Requests : r = Head(queue["shell"])
    BY <1>9, AbortEffect
  <2>1. /\ r \in Requests /\ request[r] # None /\ request'[r] # None
        /\ status[r] = <<>> /\ replies[r] = <<>> /\ status'[r] = <<>> /\ Len(replies'[r]) = 1
        /\ \A s \in Requests \ {r} : /\ request'[s] = request[s] /\ status'[s] = status[s]
                                     /\ replies'[s] = replies[s]
    BY <2>0, <1>9, AbortEffect
  <2>2. PhaseOf(r) = "pending" /\ PhaseOf(r)' = "aborted"
    BY <2>1, PhaseValues, PhaseValuesNext DEF PhaseTable
  <2>3. \A s \in Requests \ {r} : PhaseOf(s)' = PhaseOf(s)
    BY <2>1, PhaseKept
  <2> QED
    BY <2>1, <2>2, <2>3, PhaseStep DEF Lifecycle!Next, Lifecycle!Abort
<1> QED
  BY StepKinds, <1>1, <1>2, <1>3, <1>4, <1>6, <1>7, <1>8, <1>9

\* Each request of the kernel lives the life of RequestLifecycle: whatever
\* overlaps with it, busy once, at most one reply, and idle once after it.
THEOREM KernelRefinesLifecycle == Spec => LifecycleSpec
<1>1. Init => Lifecycle!Init
  <2>1. ASSUME Init, NEW r \in Requests PROVE PhaseOf(r) = "unsent"
    BY <2>1, PhaseValues DEF Init, PhaseTable
  <2> QED
    BY <2>1 DEF Lifecycle!Init
<1>2. TypeOK /\ PlaceInv /\ [Next]_vars => [Lifecycle!Next]_([r \in Requests |-> PhaseOf(r)])
  BY LifecycleStep
<1> QED
  BY <1>1, <1>2, PlaceCorrect, PTL DEF Spec, LifecycleSpec, Lifecycle!Spec
===========================================================================
