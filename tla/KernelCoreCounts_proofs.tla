---------------------- MODULE KernelCoreCounts_proofs ----------------------
(***************************************************************************)
(* Proofs about the numbers, the history and the aborted requests of       *)
(* KernelCore: the conjuncts of IInv that KernelCore_proofs leaves, and    *)
(* what needs a restriction on the messages or on the interpreter.         *)
(***************************************************************************)
EXTENDS KernelCore_proofs

ExecutingLabels == {"execute", "replied", "abort", "complete"}

---------------------------------------------------------------------------
(* What a step may do to each of the variables *)

\* A request keeps its message and its first reply, and stays started.
LEMMA RequestsKept ==
    ASSUME TypeOK, PlaceInv, [Next]_vars, NEW r \in Requests
    PROVE  /\ request[r] # None => request'[r] = request[r]
           /\ status[r] # <<>> => status'[r] # <<>>
           /\ replies[r] # <<>> => replies'[r] = replies[r]
<1> USE StatusValues
<1>1. CASE QuietStep
  BY <1>1, QuietEffect
<1>2. ASSUME NEW s \in Requests, NEW m \in Messages, Send(s, m)
      PROVE  /\ request[r] # None => request'[r] = request[r]
             /\ status' = status /\ replies' = replies
  BY <1>2, SendEffect
<1>3. ASSUME NEW c \in Channels, Dispatch(c)
      PROVE  /\ request' = request /\ replies' = replies
             /\ status[r] # <<>> => status'[r] # <<>>
  BY <1>3, DispatchEffect
<1>4. ASSUME NEW c \in Channels, HandlerStep(c)
      PROVE  /\ request' = request /\ status' = status
             /\ replies[r] # <<>> => replies'[r] = replies[r]
  <2>1. current[c] # None /\ replies[current[c]] = <<>>
    BY <1>4, MessageFacts, CurrentFacts DEF HandlerStep
  <2> QED
    BY <1>4, <2>1, HandlerEffect
<1>5. ASSUME NEW c \in Channels, CloseDispatch(c)
      PROVE  /\ request' = request /\ replies' = replies
             /\ status[r] # <<>> => status'[r] # <<>>
  BY <1>5, CloseEffect
<1>6. ASSUME NEW s \in Requests, NEW st \in {"ok", "error"}, ReplyCallback(s, st)
      PROVE  /\ request' = request /\ status' = status
             /\ replies[r] # <<>> => replies'[r] = replies[r]
  BY <1>6, CallbackEffect
<1>7. CASE AbortRequest
  BY <1>7, AbortEffect
<1>8. CASE CompleteExecution
  BY <1>8, CompleteEffect
<1> QED
  BY StepKinds, <1>1, <1>2, <1>3, <1>4, <1>5, <1>6, <1>7, <1>8

LEMMA ExecutionsKept ==
    ASSUME TypeOK, PlaceInv, [Next]_vars, NEW r \in Requests, IsExecute(r)
    PROVE  IsExecute(r)'
BY RequestsKept DEF IsExecute

\* execute_request is the only step that gives a number, and the only one
\* that changes the context slot.
LEMMA NumbersKept ==
    ASSUME TypeOK, [Next]_vars, ~ExecuteRequest
    PROVE  /\ captured' = captured /\ executionCount' = executionCount
           /\ requestContext' = requestContext
           /\ \A o : IsInput(o) => (o \in outputs' <=> o \in outputs)
<1>1. ASSUME NEW c \in Channels, HandlerStep(c)
      PROVE  /\ UNCHANGED interpreterVars
             /\ \A o : IsInput(o) => (o \in outputs' <=> o \in outputs)
  BY <1>1 DEF HandlerStep, Publish, Output, IsInput
<1>2. ASSUME NEW r \in Requests, InterpreterPublishes(r)
      PROVE  /\ UNCHANGED interpreterVars
             /\ \A o : IsInput(o) => (o \in outputs' <=> o \in outputs)
  BY <1>2 DEF InterpreterPublishes, Publish, Output, IsInput
<1>3. CASE QuietStep
  BY <1>2, <1>3 DEF QuietStep, InterpreterThrows, InterpreterDefers, StoreInputs, AbortThrows,
    AbortEnds, ServerExits, vars, clientVars, interpreterVars
<1>4. ASSUME NEW r \in Requests, NEW m \in Messages, Send(r, m)
      PROVE  UNCHANGED interpreterVars /\ outputs' = outputs
  BY <1>4 DEF Send, clientVars
<1>5. ASSUME NEW c \in Channels, Dispatch(c) \/ CloseDispatch(c)
      PROVE  UNCHANGED interpreterVars /\ outputs' = outputs
  BY <1>5 DEF Dispatch, CloseDispatch
<1>6. ASSUME NEW r \in Requests, NEW st \in {"ok", "error"}, ReplyCallback(r, st)
      PROVE  UNCHANGED <<captured, executionCount, requestContext, outputs>>
  BY <1>6 DEF ReplyCallback
<1>7. CASE AbortRequest \/ CompleteExecution
  BY <1>7 DEF AbortRequest, CompleteExecution, interpreterVars
<1> QED
  BY StepKinds, <1>1, <1>3, <1>4, <1>5, <1>6, <1>7 DEF interpreterVars

\* What execute_request does: it gives the number after the last one, unless
\* the request is silent.
LEMMA ExecuteEffect ==
    ASSUME TypeOK, PlaceInv, ExecuteRequest
    PROVE  LET r == current["shell"]
               o == Output("execute_input", r, r, executionCount + 1) IN
           /\ r \in Requests /\ r # None /\ request[r] # None /\ IsExecute(r)
           /\ status[r] = <<"busy">> /\ replies[r] = <<>>
           /\ current["control"] # r
           /\ pc["shell"] = "handle" /\ pc' = [pc EXCEPT !["shell"] = "execute"]
           /\ current' = current /\ request' = request /\ status' = status
           /\ replies' = replies /\ history' = history /\ queue' = queue
           /\ deferred' = deferred /\ requestContext' = r
           /\ captured' = [captured EXCEPT ![r] = executionCount']
           /\ request[r].silent => executionCount' = executionCount /\ outputs' = outputs
           /\ ~request[r].silent => /\ executionCount' = executionCount + 1
                                    /\ outputs' = outputs \cup {o}
<1> DEFINE r == current["shell"]
<1>1. r # None
  BY MessageFacts DEF ExecuteRequest, Handling, TypeOK
<1>2. r \in Requests /\ request[r] # None /\ IsExecute(r)
  BY <1>1, CurrentFacts, MessageFacts DEF ExecuteRequest, Handling, IsExecute
<1>3. /\ status[r] = <<"busy">> /\ replies[r] = <<>> /\ current["control"] # r
      /\ pc["shell"] = "handle"
  BY <1>1, CurrentFacts, MessageFacts DEF ExecuteRequest, Handling
<1>4. /\ requestContext' = r
      /\ request[r].silent => executionCount' = executionCount /\ outputs' = outputs
      /\ ~request[r].silent => executionCount' = executionCount + 1
  BY DEF ExecuteRequest
<1>5. ~request[r].silent => outputs' = outputs \cup {Output("execute_input", r, r, executionCount + 1)}
  BY <1>4 DEF ExecuteRequest, Publish, InputContext
<1> QED
  BY <1>1, <1>2, <1>3, <1>4, <1>5 DEF ExecuteRequest, Goto

\* Only the callback stores a line, and it does so once it has replied.
LEMMA HistoryKept ==
    ASSUME TypeOK, [Next]_vars, ~StoreInputs
    PROVE  history' = history
<1>1. \A c \in Channels : HandlerStep(c) => history' = history
  BY DEF HandlerStep
<1>2. CASE QuietStep
  BY <1>2 DEF QuietStep, ExecuteRequest, InterpreterPublishes, InterpreterThrows, InterpreterDefers,
    AbortThrows, AbortEnds, ServerExits, vars
<1> QED
  BY StepKinds, <1>1, <1>2 DEF Send, Dispatch, CloseDispatch, ReplyCallback, AbortRequest,
    CompleteExecution

LEMMA StoreEffect ==
    ASSUME TypeOK, PlaceInv, StoreInputs
    PROVE  LET r == current["shell"]
               line == [count |-> captured[r], request |-> r] IN
           /\ r \in Requests /\ r # None /\ IsExecute(r) /\ request[r] \in Message
           /\ replies[r] # <<>> /\ pc["shell"] = "replied"
           /\ pc' = [pc EXCEPT !["shell"] = IF StopsOnError(r, replies[r][1].status)
                                            THEN "abort" ELSE "complete"]
           /\ UNCHANGED <<request, queue, current, stopped, interpreterVars, clientVars, ghosts>>
           /\ ~Stores(r) => history' = history
           /\ Stores(r) => /\ history' = Append(history, line)
                           /\ Len(history') = Len(history) + 1
                           /\ Len(history) \in Nat
                           /\ history'[Len(history) + 1] = line
                           /\ \A i \in 1..Len(history) : history'[i] = history[i]
<1> DEFINE r == current["shell"]
           line == [count |-> captured[r], request |-> r]
<1>1. r # None /\ pc["shell"] = "replied"
  BY MessageFacts DEF StoreInputs, TypeOK
<1>2. r \in Requests /\ request[r] # None /\ IsExecute(r) /\ Len(replies[r]) = 1
  BY <1>1, CurrentFacts, MessageFacts
<1>3. replies[r] # <<>>
  BY <1>2
<1>4. request[r] \in Message
  BY <1>2, MessagesAssumption DEF TypeOK
<1>5. history \in Seq(HistoryLine) /\ line \in HistoryLine
  BY <1>2 DEF TypeOK, HistoryLine
<1>6. Stores(r) => history' = Append(history, line)
  BY DEF StoreInputs, StoreLine, CapturedCount
<1> HIDE DEF r, line
<1>7. Stores(r) => /\ Len(history') = Len(history) + 1 /\ Len(history) \in Nat
                   /\ history'[Len(history) + 1] = line
                   /\ \A i \in 1..Len(history) : history'[i] = history[i]
  BY <1>5, <1>6
<1> QED
  BY <1>1, <1>2, <1>3, <1>4, <1>6, <1>7 DEF StoreInputs, Goto, r, line

LEMMA HistoryTypes ==
    ASSUME TypeOK
    PROVE  /\ Len(history) \in Nat
           /\ \A i \in 1..Len(history) : /\ history[i] \in HistoryLine
                                         /\ history[i].request \in Requests
                                         /\ history[i].count \in Nat
<1>1. \A i \in 1..Len(history) : history[i] \in HistoryLine
  BY DEF TypeOK
<1> QED
  BY <1>1 DEF TypeOK, HistoryLine

\* How a thread comes to a handler, and how the shell thread comes to each
\* stage of an execution.
LEMMA HandlingBegins ==
    ASSUME TypeOK, PlaceInv, [Next]_vars, NEW c \in Channels, pc'[c] = "handle"
    PROVE  \/ pc[c] = "handle" /\ current'[c] = current[c]
           \/ current'[c] \in Requests /\ status[current'[c]] = <<>> /\ replies[current'[c]] = <<>>
<1> USE MessageFacts, StateFacts
<1>1. ASSUME NEW d \in Channels, Dispatch(d)
      PROVE  \/ pc[c] = "handle" /\ current'[c] = current[c]
             \/ /\ current'[c] \in Requests /\ status[current'[c]] = <<>>
                /\ replies[current'[c]] = <<>>
  <2>1. LET h == Head(queue[d]) IN
        /\ h \in Requests /\ status[h] = <<>> /\ replies[h] = <<>>
        /\ pc' = [pc EXCEPT ![d] = "handle"] /\ current' = [current EXCEPT ![d] = h]
    BY <1>1, DispatchEffect
  <2> QED
    BY <2>1
<1>2. ASSUME NEW d \in Channels, HandlerStep(d) \/ CloseDispatch(d)
      PROVE  pc[c] = "handle" /\ current'[c] = current[c]
  BY <1>2, HandlerEffect, CloseEffect
<1>3. CASE CompleteExecution
  BY <1>3, CompleteEffect
<1>4. ASSUME NEW r \in Requests, NEW st \in {"ok", "error"}, ReplyCallback(r, st)
      PROVE  pc[c] = "handle" /\ current'[c] = current[c]
  BY <1>4, CallbackEffect
<1>5. CASE QuietStep
  BY <1>5 DEF QuietStep, ExecuteRequest, InterpreterPublishes, InterpreterThrows,
    InterpreterDefers, StoreInputs, AbortThrows, AbortEnds, ServerExits, Return, Finish, Goto,
    vars, serverVars
<1>6. ASSUME NEW r \in Requests, NEW m \in Messages, Send(r, m)
      PROVE  pc[c] = "handle" /\ current'[c] = current[c]
  BY <1>6, SendEffect
<1>7. CASE AbortRequest
  BY <1>7, AbortEffect
<1> QED
  BY StepKinds, <1>1, <1>2, <1>3, <1>4, <1>5, <1>6, <1>7

LEMMA ExecutionMoves ==
    ASSUME TypeOK, PlaceInv, [Next]_vars, pc'["shell"] \in ExecutingLabels
    PROVE  \/ ExecuteRequest
           \/ \E r \in Requests, st \in {"ok", "error"} : ReplyCallback(r, st)
           \/ StoreInputs
           \/ AbortEnds
           \/ pc'["shell"] = pc["shell"] /\ current'["shell"] = current["shell"]
<1> USE MessageFacts, StateFacts DEF ExecutingLabels
<1>1. ASSUME NEW c \in Channels, Dispatch(c) \/ HandlerStep(c) \/ CloseDispatch(c)
      PROVE  pc'["shell"] = pc["shell"] /\ current'["shell"] = current["shell"]
  BY <1>1, DispatchEffect, HandlerEffect, CloseEffect
<1>2. ~CompleteExecution
  BY CompleteEffect
<1>3. ~InterpreterThrows /\ ~InterpreterDefers /\ ~AbortThrows
  BY DEF InterpreterThrows, InterpreterDefers, AbortThrows, Return, Finish, Goto
<1>4. CASE QuietStep
  BY <1>3, <1>4 DEF QuietStep, InterpreterPublishes, ServerExits, Goto, vars, serverVars
<1>5. ASSUME NEW r \in Requests, NEW m \in Messages, Send(r, m)
      PROVE  pc'["shell"] = pc["shell"] /\ current'["shell"] = current["shell"]
  BY <1>5, SendEffect
<1>6. CASE AbortRequest
  BY <1>6, AbortEffect
<1> QED
  BY StepKinds, <1>1, <1>2, <1>4, <1>5, <1>6

\* Only execute_request and a callback go to "execute" and "replied".
LEMMA RepliedBegins ==
    ASSUME TypeOK, PlaceInv, [Next]_vars, pc'["shell"] = "replied"
    PROVE  \/ \E r \in Requests, st \in {"ok", "error"} : ReplyCallback(r, st)
           \/ pc["shell"] = "replied" /\ current'["shell"] = current["shell"]
<1> USE MessageFacts, StateFacts
<1>1. ~ExecuteRequest /\ ~StoreInputs /\ ~AbortEnds
  BY DEF ExecuteRequest, StoreInputs, AbortEnds, Goto
<1> QED
  BY <1>1, ExecutionMoves DEF ExecutingLabels

LEMMA DeferredGrows ==
    ASSUME TypeOK, PlaceInv, [Next]_vars, NEW r \in deferred'
    PROVE  \/ r \in deferred
           \/ Async /\ pc["shell"] = "execute" /\ r = current["shell"]
<1>1. CASE QuietStep
  BY <1>1 DEF QuietStep, ExecuteRequest, InterpreterPublishes, InterpreterThrows,
    InterpreterDefers, StoreInputs, AbortThrows, AbortEnds, ServerExits,
    vars, interpreterVars
<1>2. ASSUME NEW c \in Channels, Dispatch(c) \/ HandlerStep(c) \/ CloseDispatch(c)
      PROVE  deferred' = deferred
  BY <1>2, DispatchEffect, HandlerEffect, CloseEffect
<1>3. ASSUME NEW s \in Requests, NEW m \in Messages, Send(s, m)
      PROVE  deferred' = deferred
  BY <1>3, SendEffect
<1>4. ASSUME NEW s \in Requests, NEW st \in {"ok", "error"}, ReplyCallback(s, st)
      PROVE  deferred' \subseteq deferred
  BY <1>4, CallbackEffect
<1>5. CASE AbortRequest \/ CompleteExecution
  BY <1>5, AbortEffect, CompleteEffect
<1> QED
  BY StepKinds, <1>1, <1>2, <1>3, <1>4, <1>5

LEMMA AnnouncementsKept ==
    ASSUME TypeOK, PlaceInv, [Next]_vars, NEW r \in Requests, Announced(r)
    PROVE  Announced(r)'
<1>1. CASE ExecuteRequest
  <2>1. outputs \subseteq outputs'
    BY <1>1, ExecuteEffect, MessageFacts, MessagesAssumption DEF TypeOK, Message
  <2> QED
    BY <2>1 DEF Announced
<1>2. CASE ~ExecuteRequest
  BY <1>2, NumbersKept DEF Announced
<1> QED
  BY <1>1, <1>2
---------------------------------------------------------------------------
(* Numbers *)

LEMMA CountInit == Init => CountInv /\ AbortInv /\ StoredInv
<1> SUFFICES ASSUME Init PROVE CountInv /\ AbortInv /\ StoredInv
  OBVIOUS
<1> USE MessageFacts DEF Init
<1>1. InputInv /\ AnnouncedInv
  BY DEF InputInv, AnnouncedInv
<1>2. ReplyInv /\ HistoryInv
  BY DEF ReplyInv, HistoryInv
<1>3. AbortInv
  BY DEF AbortInv, AbortedForCause, Aborted, Replied
<1>4. StoredInv
  BY DEF StoredInv, IsExecute
<1> QED
  BY <1>1, <1>2, <1>3, <1>4 DEF CountInv

\* What the types say of an announcement.
LEMMA InputTypes ==
    ASSUME TypeOK, NEW o \in outputs
    PROVE  o.by \in Requests /\ o.count \in Nat
BY DEF TypeOK

LEMMA InputStep ==
    ASSUME TypeOK, TypeOK', PlaceInv, InputInv, [Next]_vars
    PROVE  InputInv'
<1> USE MessageFacts
<1> DEFINE Fits(o) ==
        /\ IsExecute(o.by)
        /\ status[o.by] # <<>>
        /\ o.count = captured[o.by]
        /\ 1 <= o.count /\ o.count <= executionCount
        /\ \A c \in Channels : pc[c] = "handle" => current[c] # o.by
\* An announcement stays true while no number is given to its execution.
<1>1. ASSUME NEW o \in outputs, IsInput(o), captured'[o.by] = captured[o.by],
             executionCount' >= executionCount
      PROVE  Fits(o)'
  <2>1. o.by \in Requests /\ o.count \in Nat /\ Fits(o)
    BY <1>1, InputTypes DEF InputInv
  <2>2. IsExecute(o.by)' /\ status'[o.by] # <<>>
    BY <2>1, RequestsKept, ExecutionsKept
  <2>3. ASSUME NEW c \in Channels, pc'[c] = "handle" PROVE current'[c] # o.by
    BY <2>1, <2>3, HandlingBegins
  <2>4. 1 <= o.count /\ o.count <= executionCount'
    BY <1>1, <2>1 DEF TypeOK
  <2> QED
    BY <1>1, <2>1, <2>2, <2>3, <2>4
<1>2. CASE ~ExecuteRequest
  <2>1. ASSUME NEW o \in outputs', IsInput(o) PROVE o \in outputs /\ Fits(o)'
    <3>1. o \in outputs /\ captured' = captured /\ executionCount' = executionCount
      BY <1>2, <2>1, NumbersKept
    <3>2. executionCount' >= executionCount
      BY <3>1 DEF TypeOK
    <3> QED
      BY <1>1, <2>1, <3>1, <3>2
  <2> QED
    BY <2>1 DEF InputInv
<1>3. CASE ExecuteRequest
  <2> DEFINE r == current["shell"]
             new == Output("execute_input", r, r, executionCount + 1)
  <2>1. /\ r \in Requests /\ IsExecute(r) /\ status[r] = <<"busy">>
        /\ current["control"] # r /\ pc["shell"] = "handle"
        /\ pc' = [pc EXCEPT !["shell"] = "execute"]
        /\ current' = current /\ request' = request /\ status' = status
        /\ captured' = [captured EXCEPT ![r] = executionCount']
        /\ request[r].silent => executionCount' = executionCount /\ outputs' = outputs
        /\ ~request[r].silent => executionCount' = executionCount + 1 /\ outputs' = outputs \cup {new}
    BY <1>3, ExecuteEffect
  <2>2. executionCount \in Nat /\ executionCount' \in Nat /\ executionCount' >= executionCount
    <3>1. request[r].silent \/ ~request[r].silent
      OBVIOUS
    <3> QED
      BY <2>1, <3>1 DEF TypeOK
  <2>3. ASSUME NEW o \in outputs, IsInput(o)
        PROVE  Fits(o)' /\ o.by # r /\ o.by \in Requests /\ o.count <= executionCount
    <3>1. o.by # r /\ o.by \in Requests /\ o.count <= executionCount
      BY <2>1, <2>3, InputTypes DEF InputInv
    <3>2. captured'[o.by] = captured[o.by]
      BY <2>1, <3>1 DEF TypeOK
    <3> QED
      BY <1>1, <2>2, <2>3, <3>1, <3>2
  <2>4. CASE request[r].silent
    BY <2>1, <2>3, <2>4 DEF InputInv
  <2>5. CASE ~request[r].silent
    <3>1. new.by = r /\ new.count = executionCount + 1 /\ IsInput(new)
      BY DEF Output, IsInput
    <3>2. executionCount' = executionCount + 1 /\ outputs' = outputs \cup {new}
      BY <2>1, <2>5
    <3>3. captured'[r] = executionCount + 1
      BY <2>1, <3>2 DEF TypeOK
    <3>4. request'[r] # None /\ request'[r].kind = "execute_request" /\ status'[r] # <<>>
      BY <2>1, StatusValues DEF IsExecute
    <3>5. ASSUME NEW c \in Channels, pc'[c] = "handle" PROVE current'[c] # r
      BY <2>1, <3>5, StateFacts
    <3>6. ASSUME NEW o, o = new PROVE Fits(o)'
      <4>1. o.by = r /\ o.count = executionCount + 1
        BY <3>1, <3>6
      <4> HIDE DEF r, new
      <4> QED
        BY <2>2, <3>2, <3>3, <3>4, <3>5, <4>1 DEF IsExecute
    <3>7. ASSUME NEW o \in outputs', IsInput(o) PROVE Fits(o)'
      <4>1. o \in outputs \/ o = new
        BY <3>2, <3>7
      <4> QED
        BY <2>3, <3>6, <3>7, <4>1
    <3>8. ASSUME NEW o \in outputs', NEW p \in outputs', IsInput(o), IsInput(p), o.count = p.count
          PROVE  o.by = p.by
      <4>1. \A q \in outputs : IsInput(q) => q.count # executionCount + 1
        BY <2>2, <2>3, InputTypes
      <4>2. CASE o \in outputs /\ p \in outputs
        BY <3>8, <4>2 DEF InputInv
      <4> QED
        BY <3>1, <3>2, <3>8, <4>1, <4>2
    <3> QED
      BY <3>7, <3>8 DEF InputInv
  <2> QED
    BY <2>4, <2>5
<1> QED
  BY <1>2, <1>3

LEMMA AnnouncedStep ==
    ASSUME TypeOK, TypeOK', PlaceInv, AnnouncedInv, [Next]_vars
    PROVE  AnnouncedInv'
<1> USE MessageFacts
\* An execution that was running or deferred stays announced.
<1>1. ASSUME NEW r \in Requests, IsExecute(r),
             r \in deferred \/ (pc["shell"] \in ExecutingLabels /\ r = current["shell"])
      PROVE  request'[r] = request[r] /\ (~request[r].silent => Announced(r)')
  <2>1. request[r] # None
    BY <1>1 DEF IsExecute
  <2>2. ~request[r].silent => Announced(r)
    BY <1>1 DEF AnnouncedInv, ExecutingLabels
  <2> QED
    BY <2>1, <2>2, RequestsKept, AnnouncementsKept
<1>2. ASSUME pc["shell"] \in ExecutingLabels
      PROVE  current["shell"] \in Requests /\ IsExecute(current["shell"])
  <2>1. current["shell"] # None
    BY <1>2 DEF TypeOK, ExecutingLabels
  <2> QED
    BY <1>2, <2>1, CurrentFacts DEF ExecutingLabels
<1>3. ASSUME NEW r \in deferred' PROVE ~request'[r].silent => Announced(r)'
  <2>1. r \in deferred \/ (pc["shell"] \in ExecutingLabels /\ r = current["shell"])
    BY DeferredGrows DEF ExecutingLabels
  <2>2. r \in Requests /\ IsExecute(r)
    BY <1>2, <2>1 DEF TypeOK, PlaceInv, DeferredInv, DeferredOK
  <2> QED
    BY <1>1, <2>1, <2>2
<1>4. ASSUME pc'["shell"] \in ExecutingLabels
      PROVE  ~request'[current'["shell"]].silent => Announced(current["shell"])'
  <2>1. CASE ExecuteRequest
    <3> DEFINE r == current["shell"]
    <3>1. /\ current' = current /\ request' = request
          /\ ~request[r].silent => outputs' = outputs \cup {Output("execute_input", r, r, executionCount + 1)}
      BY <2>1, ExecuteEffect
    <3>2. LET o == Output("execute_input", r, r, executionCount + 1) IN
          /\ ~request[r].silent => o \in outputs'
          /\ IsInput(o) /\ o.by = r
      BY <3>1 DEF Output, IsInput
    <3> QED
      BY <3>1, <3>2 DEF Announced, IsInput
  <2>2. ASSUME NEW r \in Requests, NEW st \in {"ok", "error"}, ReplyCallback(r, st)
        PROVE  ~request'[current'["shell"]].silent => Announced(current["shell"])'
    <3>1. current'["shell"] = r /\ IsExecute(r)
      BY <2>2, CallbackEffect, StateFacts
    <3>2. r \in deferred \/ (pc["shell"] \in ExecutingLabels /\ r = current["shell"])
      BY <2>2 DEF ReplyCallback, Running, ExecutingLabels
    <3>3. request'[r] = request[r] /\ (~request[r].silent => Announced(r)')
      BY <1>1, <3>1, <3>2
    <3> QED
      BY <3>1, <3>3 DEF Announced
  <2>3. CASE StoreInputs \/ AbortEnds
    <3>1. pc["shell"] \in ExecutingLabels /\ current' = current
      BY <2>3 DEF StoreInputs, AbortEnds, ExecutingLabels
    <3> QED
      BY <1>1, <1>2, <3>1 DEF Announced
  <2>4. CASE pc'["shell"] = pc["shell"] /\ current'["shell"] = current["shell"]
    BY <1>1, <1>2, <1>4, <2>4 DEF Announced
  <2> QED
    BY <1>4, <2>1, <2>2, <2>3, <2>4, ExecutionMoves
<1> QED
  BY <1>3, <1>4 DEF AnnouncedInv, ExecutingLabels

\* Where the first reply to a request comes from.
LEMMA ReplyBegins ==
    ASSUME TypeOK, PlaceInv, [Next]_vars, NEW r \in Requests, replies'[r] # replies[r]
    PROVE  /\ replies[r] = <<>> /\ Len(replies'[r]) = 1
           /\ \/ \E c \in Channels : HandlerStep(c) /\ r = current[c]
              \/ \E st \in {"ok", "error"} : /\ ReplyCallback(r, st)
                                             /\ replies'[r][1] = Reply(st, captured[r], {})
              \/ /\ AbortRequest /\ r = Head(queue["shell"]) /\ status[r] = <<>>
                 /\ replies'[r][1] = Reply("error", 0, {})
<1> DEFINE Claim ==
        /\ replies[r] = <<>> /\ Len(replies'[r]) = 1
        /\ \/ \E c \in Channels : HandlerStep(c) /\ r = current[c]
           \/ \E st \in {"ok", "error"} : /\ ReplyCallback(r, st)
                                          /\ replies'[r][1] = Reply(st, captured[r], {})
           \/ /\ AbortRequest /\ r = Head(queue["shell"]) /\ status[r] = <<>>
              /\ replies'[r][1] = Reply("error", 0, {})
<1>1. ASSUME NEW c \in Channels, HandlerStep(c) PROVE Claim
  <2>1. current[c] # None /\ replies[current[c]] = <<>>
    BY <1>1, MessageFacts, CurrentFacts DEF HandlerStep
  <2>2. r = current[c] /\ Len(replies'[r]) = 1
    BY <1>1, HandlerEffect
  <2> QED
    BY <1>1, <2>1, <2>2
<1>2. ASSUME NEW s \in Requests, NEW st \in {"ok", "error"}, ReplyCallback(s, st) PROVE Claim
  <2>1. /\ replies[s] = <<>> /\ Len(replies'[s]) = 1 /\ replies'[s][1] = Reply(st, captured[s], {})
        /\ r = s
    BY <1>2, CallbackEffect DEF CapturedCount
  <2> QED
    BY <1>2, <2>1
<1>3. CASE AbortRequest
  BY <1>3, AbortEffect
<1>4. ~QuietStep /\ ~(\E s \in Requests, m \in Messages : Send(s, m))
  BY QuietEffect, SendEffect
<1>5. \A c \in Channels : ~Dispatch(c) /\ ~CloseDispatch(c)
  BY DispatchEffect, CloseEffect
<1>6. ~CompleteExecution
  BY CompleteEffect
<1> QED
  BY StepKinds, <1>1, <1>2, <1>3, <1>4, <1>5, <1>6

\* Where the first status of a request comes from.
LEMMA StatusBegins ==
    ASSUME TypeOK, PlaceInv, [Next]_vars, NEW r \in Requests, status[r] = <<>>, status'[r] # <<>>
    PROVE  /\ status'[r] = <<"busy">> /\ request'[r] = request[r]
           /\ replies[r] = <<>> /\ replies'[r] = <<>>
           /\ \E c \in Channels : Dispatch(c) /\ r = Head(queue[c])
<1> USE StatusValues
<1>1. ASSUME NEW c \in Channels, Dispatch(c)
      PROVE  /\ status'[r] = <<"busy">> /\ request' = request /\ replies[r] = <<>>
             /\ replies' = replies /\ r = Head(queue[c])
  BY <1>1, DispatchEffect
<1>2. \A c \in Channels : ~CloseDispatch(c) /\ ~HandlerStep(c)
  BY CloseEffect, HandlerEffect
<1>3. ~QuietStep /\ ~(\E s \in Requests, m \in Messages : Send(s, m))
  BY QuietEffect, SendEffect
<1>4. ~(\E s \in Requests, st \in {"ok", "error"} : ReplyCallback(s, st))
  BY CallbackEffect
<1>5. ~AbortRequest /\ ~CompleteExecution
  BY AbortEffect, CompleteEffect
<1> QED
  BY StepKinds, <1>1, <1>2, <1>3, <1>4, <1>5

LEMMA ReplyStep ==
    ASSUME TypeOK, TypeOK', PlaceInv, ReplyInv, [Next]_vars
    PROVE  ReplyInv'
<1> USE MessageFacts, StatusValues
<1> SUFFICES ASSUME NEW r \in Requests, IsExecute(r)', status'[r] # <<>>, NEW i \in 1..Len(replies'[r])
             PROVE  replies'[r][i].count = captured'[r]
  BY DEF ReplyInv
<1>1. replies'[r] # <<>>
  OBVIOUS
<1>2. status[r] # <<>>
  BY <1>1, StatusBegins
<1>3. request[r] # None /\ IsExecute(r)
  <2>1. request[r] # None
    BY <1>2 DEF PlaceInv, UnsentInv
  <2> QED
    BY <2>1, RequestsKept DEF IsExecute
<1>4. CASE replies'[r] = replies[r]
  <2>1. captured'[r] = captured[r]
    BY <1>1, <1>4, NumbersKept, ExecuteEffect DEF TypeOK
  <2> QED
    BY <1>2, <1>3, <1>4, <2>1 DEF ReplyInv
<1>5. CASE replies'[r] # replies[r]
  <2>1. Len(replies'[r]) = 1
    BY <1>5, ReplyBegins
  <2>4. i = 1
    BY <2>1
  <2>2. ASSUME NEW c \in Channels, HandlerStep(c), r = current[c] PROVE FALSE
    BY <1>3, <2>2 DEF HandlerStep
  <2>3. ASSUME NEW st \in {"ok", "error"}, ReplyCallback(r, st),
               replies'[r][1] = Reply(st, captured[r], {})
        PROVE  replies'[r][1].count = captured'[r]
    BY <2>3 DEF Reply, ReplyCallback
  <2> QED
    BY <1>2, <1>5, <2>2, <2>3, <2>4, ReplyBegins
<1> QED
  BY <1>4, <1>5

LEMMA HistoryStep ==
    ASSUME TypeOK, TypeOK', PlaceInv, CountInv, [Next]_vars
    PROVE  HistoryInv'
<1> USE MessageFacts, HistoryTypes
<1> DEFINE Line(i) == /\ Announced(history[i].request)
                      /\ replies[history[i].request] # <<>>
                      /\ history[i].count = captured[history[i].request]
                      /\ pc["shell"] = "replied" => history[i].request # current["shell"]
\* What a line says stays true, and its execution does not reply again.
<1>1. ASSUME NEW i \in 1..Len(history), NEW r \in Requests, r = history[i].request
      PROVE  /\ Announced(r)' /\ replies'[r] # <<>> /\ history[i].count = captured'[r]
             /\ pc'["shell"] = "replied" => r # current'["shell"]
  <2>1. r \in Requests /\ Announced(r) /\ replies[r] # <<>> /\ history[i].count = captured[r]
        /\ (pc["shell"] = "replied" => r # current["shell"])
    BY <1>1 DEF CountInv, HistoryInv
  <2>2. Announced(r)' /\ replies'[r] # <<>>
    BY <2>1, RequestsKept, AnnouncementsKept
  <2>3. captured'[r] = captured[r]
    BY <2>1, NumbersKept, ExecuteEffect DEF TypeOK
  <2>4. ASSUME NEW s \in Requests, NEW st \in {"ok", "error"}, ReplyCallback(s, st)
        PROVE  r # current'["shell"]
    BY <2>1, <2>4, CallbackEffect, StateFacts
  <2>5. pc'["shell"] = "replied" => r # current'["shell"]
    BY <2>1, <2>4, RepliedBegins
  <2> QED
    BY <2>1, <2>2, <2>3, <2>5
<1>2. CASE history' = history
  BY <1>1, <1>2 DEF CountInv, HistoryInv, Announced
<1>3. CASE StoreInputs /\ history' # history
  <2> DEFINE r == current["shell"]
             n == Len(history) + 1
  <2>1. /\ r \in Requests /\ replies[r] # <<>> /\ pc["shell"] = "replied" /\ Stores(r)
        /\ pc'["shell"] # "replied" /\ captured' = captured /\ replies' = replies
        /\ outputs' = outputs /\ current' = current
        /\ Len(history') = n /\ n \in Nat
        /\ history'[n] = [count |-> captured[r], request |-> r]
        /\ \A i \in 1..Len(history) : history'[i] = history[i]
    <3>1. pc'["shell"] # "replied"
      BY <1>3 DEF StoreInputs, Goto, TypeOK
    <3> QED
      BY <1>3, <3>1, StoreEffect DEF interpreterVars, clientVars
  <2>2. Announced(r)
    BY <2>1 DEF CountInv, AnnouncedInv, Stores
  <2>3. ASSUME NEW i \in 1..Len(history') PROVE i = n \/ i \in 1..Len(history)
    BY <2>1
  <2> HIDE DEF n, r
  <2>4. ASSUME NEW i \in 1..Len(history')
        PROVE  /\ Announced(history[i].request)'
               /\ replies'[history'[i].request] # <<>>
               /\ history'[i].count = captured'[history'[i].request]
    <3>1. CASE i = n
      BY <2>1, <2>2, <3>1 DEF Announced
    <3>2. CASE i \in 1..Len(history)
      <4>1. history'[i] = history[i]
        BY <2>1, <3>2
      <4> QED
        BY <1>1, <3>2, <4>1 DEF Announced
    <3> QED
      BY <2>3, <3>1, <3>2
  <2>5. \A i \in 1..Len(history) : history[i].request # r
    BY <2>1 DEF CountInv, HistoryInv, r
  <2>6. ASSUME NEW i \in 1..Len(history'), NEW j \in 1..Len(history'),
               history'[i].request = history'[j].request
        PROVE  i = j
    <3>1. CASE i \in 1..Len(history) /\ j \in 1..Len(history)
      BY <2>1, <2>6, <3>1 DEF CountInv, HistoryInv
    <3> QED
      BY <2>1, <2>3, <2>5, <2>6, <3>1
  <2> QED
    BY <2>1, <2>4, <2>6 DEF HistoryInv
<1> QED
  BY <1>2, <1>3, HistoryKept
---------------------------------------------------------------------------
(* Aborted requests *)

LEMMA CauseKept ==
    ASSUME TypeOK, PlaceInv, [Next]_vars, NEW e \in Requests, Cause(e)
    PROVE  Cause(e)'
<1>1. request[e] # None /\ replies[e] # <<>>
  BY DEF Cause, IsExecute
<1>2. request'[e] = request[e] /\ replies'[e] = replies[e]
  BY <1>1, RequestsKept
<1> QED
  BY <1>2 DEF Cause, IsExecute

LEMMA AbortStep ==
    ASSUME TypeOK, TypeOK', PlaceInv, AbortInv, [Next]_vars
    PROVE  AbortInv'
<1> USE MessageFacts, StatusValues
<1>1. ASSUME pc["shell"] = "abort" PROVE current["shell"] \in Requests
  BY <1>1 DEF TypeOK
<1>2. ASSUME pc'["shell"] = "abort" PROVE Cause(current["shell"])'
  <2>1. CASE StoreInputs
    <3> DEFINE r == current["shell"]
    <3>1. /\ r \in Requests /\ IsExecute(r) /\ request[r] \in Message /\ replies[r] # <<>>
          /\ pc' = [pc EXCEPT !["shell"] = IF StopsOnError(r, replies[r][1].status)
                                           THEN "abort" ELSE "complete"]
          /\ request' = request /\ current' = current /\ replies' = replies
      BY <2>1, StoreEffect DEF clientVars
    <3>2. StopsOnError(r, replies[r][1].status)
      BY <1>2, <3>1, StateFacts
    <3>3. 1 \in DOMAIN replies[r]
      BY <3>1, NonEmpty DEF TypeOK
    <3> QED
      BY <3>1, <3>2, <3>3 DEF StopsOnError, Cause, IsExecute
  <2>2. CASE pc'["shell"] = pc["shell"] /\ current'["shell"] = current["shell"]
    <3>1. ASSUME NEW e \in Requests, e = current["shell"] PROVE Cause(e)'
      BY <1>2, <2>2, <3>1, CauseKept DEF AbortInv
    <3> QED
      BY <1>1, <1>2, <2>2, <3>1 DEF Cause, IsExecute
  <2>3. ~ExecuteRequest /\ ~AbortEnds
    BY <1>2, StateFacts DEF ExecuteRequest, AbortEnds, Goto
  <2>4. ~(\E r \in Requests, st \in {"ok", "error"} : ReplyCallback(r, st))
    BY <1>2, StateFacts DEF ReplyCallback, Goto
  <2> QED
    BY <1>2, <2>1, <2>2, <2>3, <2>4, ExecutionMoves DEF ExecutingLabels
<1>3. ASSUME NEW r \in Requests, status'[r] = <<>>, replies'[r] # <<>>
      PROVE  \E e \in Requests : Cause(e)'
  <2>1. status[r] = <<>>
    BY <1>3, RequestsKept
  <2>2. CASE replies'[r] = replies[r]
    <3>1. PICK e \in Requests : Cause(e)
      BY <1>3, <2>1, <2>2 DEF AbortInv, AbortedForCause, Aborted, Replied, Cause
    <3> QED
      BY <3>1, CauseKept
  <2>3. CASE replies'[r] # replies[r]
    <3>1. \A c \in Channels : HandlerStep(c) => r # current[c]
      BY <2>1, HandlerEffect
    <3>2. \A st \in {"ok", "error"} : ~ReplyCallback(r, st)
      BY <2>1, CallbackEffect
    <3>3. AbortRequest
      BY <2>3, <3>1, <3>2, ReplyBegins
    <3>4. current["shell"] \in Requests /\ Cause(current["shell"])
      BY <1>1, <3>3 DEF AbortRequest, AbortInv
    <3>5. PICK e \in Requests : Cause(e)
      BY <3>4
    <3> QED
      BY <3>5, CauseKept
  <2> QED
    BY <2>2, <2>3
<1>4. AbortedForCause'
  BY <1>3 DEF AbortedForCause, Aborted, Replied, Cause
<1> QED
  BY <1>2, <1>4 DEF AbortInv

---------------------------------------------------------------------------
(* The history *)

LEMMA IdleShape ==
    ASSUME PlaceInv, NEW r \in Requests
    PROVE  IsIdle(r) <=> status[r] = <<"busy", "idle">>
<1>1. status[r] \in {<<>>, <<"busy">>, <<"busy", "idle">>}
  BY DEF PlaceInv, StatusInv
<1> QED
  BY <1>1, StatusValues DEF IsIdle, Range

\* "idle" is the last status, and where it comes from.
LEMMA IdleBegins ==
    ASSUME TypeOK, PlaceInv, PlaceInv', [Next]_vars, NEW r \in Requests
    PROVE  /\ IsIdle(r) => IsIdle(r)'
           /\ IsIdle(r)' => \/ IsIdle(r)
                            \/ \E c \in Channels : CloseDispatch(c) /\ r = current[c]
                            \/ CompleteExecution /\ r = current["shell"]
<1> USE StatusValues
<1> DEFINE Claim ==
        /\ status[r] = <<"busy", "idle">> => status'[r] = <<"busy", "idle">>
        /\ status'[r] = <<"busy", "idle">> =>
              \/ status[r] = <<"busy", "idle">>
              \/ \E c \in Channels : CloseDispatch(c) /\ r = current[c]
              \/ CompleteExecution /\ r = current["shell"]
<1>1. \A c \in Channels : Dispatch(c) => Claim
  BY DispatchEffect
<1>2. \A c \in Channels : HandlerStep(c) => Claim
  BY HandlerEffect
<1>3. \A c \in Channels : CloseDispatch(c) => Claim
  BY CloseEffect
<1>4. CompleteExecution => Claim
  BY CompleteEffect
<1>5. QuietStep \/ (\E s \in Requests, m \in Messages : Send(s, m)) => Claim
  BY QuietEffect, SendEffect
<1>6. (\E s \in Requests, st \in {"ok", "error"} : ReplyCallback(s, st)) => Claim
  BY CallbackEffect
<1>7. AbortRequest => Claim
  BY AbortEffect
<1>8. Claim
  BY StepKinds, <1>1, <1>2, <1>3, <1>4, <1>5, <1>6, <1>7
<1>9. IsIdle(r)' <=> status'[r] = <<"busy", "idle">>
  <2>1. status'[r] \in {<<>>, <<"busy">>, <<"busy", "idle">>}
    BY DEF PlaceInv, StatusInv
  <2> QED
    BY <2>1 DEF IsIdle, Range
<1> QED
  BY <1>8, <1>9, IdleShape

LEMMA LinesKept ==
    ASSUME TypeOK, PlaceInv, [Next]_vars, NEW e \in Requests, InHistory(e)
    PROVE  InHistory(e)'
<1>1. CASE StoreInputs /\ Stores(current["shell"])
  BY <1>1, StoreEffect DEF InHistory
<1>2. CASE history' = history
  BY <1>2 DEF InHistory
<1> QED
  BY <1>1, <1>2, HistoryKept, StoreEffect

\* What a history request must list is fixed when it is sent.
LEMMA SeenBegins ==
    ASSUME TypeOK, PlaceInv, [Next]_vars, NEW r \in Requests
    PROVE  \/ seen'[r] = seen[r]
           \/ /\ status[r] = <<>> /\ status'[r] = <<>>
              /\ \A e \in seen'[r] : e \in Requests /\ IsExecute(e) /\ IsIdle(e)
<1>1. ASSUME NEW s \in Requests, NEW m \in Messages, Send(s, m)
      PROVE  \/ seen'[r] = seen[r]
             \/ /\ status[r] = <<>> /\ status'[r] = <<>>
                /\ \A e \in seen'[r] : e \in Requests /\ IsExecute(e) /\ IsIdle(e)
  <2>1. r # s => seen'[r] = seen[r]
    BY <1>1 DEF Send, TypeOK
  <2>2. seen'[s] \subseteq {e \in Requests : IsExecute(e) /\ IsIdle(e)}
    BY <1>1 DEF Send, TypeOK
  <2> QED
    BY <1>1, <2>1, <2>2, SendEffect
<1>2. \A c \in Channels : HandlerStep(c) => seen' = seen
  BY DEF HandlerStep, ghosts
<1>3. QuietStep => seen' = seen
  BY DEF QuietStep, ExecuteRequest, InterpreterPublishes, InterpreterThrows, InterpreterDefers,
    StoreInputs, AbortThrows, AbortEnds, ServerExits, vars, ghosts
<1> QED
  BY StepKinds, <1>1, <1>2, <1>3
  DEF Dispatch, CloseDispatch, ReplyCallback, AbortRequest, CompleteExecution, ghosts

\* A history request that started is answered with the lines of that moment.
LEMMA HistoryReplies ==
    ASSUME TypeOK, PlaceInv, [Next]_vars, NEW r \in Requests, status[r] # <<>>,
           request[r].kind = "history_request", replies'[r] # replies[r]
    PROVE  /\ Len(replies'[r]) = 1
           /\ replies'[r][1].lines = {line.request : line \in Range(history)}
           /\ history' = history
<1> USE MessageFacts
<1>1. request[r] # None
  BY DEF PlaceInv, UnsentInv
<1>2. ~IsExecute(r)
  BY DEF IsExecute
<1>3. \A st \in {"ok", "error"} : ~ReplyCallback(r, st)
  BY <1>2, CallbackEffect
<1>4. PICK c \in Channels : HandlerStep(c) /\ r = current[c]
  BY <1>3, ReplyBegins
<1>5. \E d \in Channels : HandlerOf(d)
  <2>1. pc[c] = "handle" /\ pc'[c] = "close" /\ current'[c] = r /\ r # None
    BY <1>4, StateFacts DEF HandlerStep
  <2>2. replies' # replies /\ request' = request /\ status' = status /\ queue' = queue
    BY <1>4, HandlerEffect
  <2>3. ~(\E s \in Requests, m \in Messages : Send(s, m)) /\ ~QuietStep
    BY <2>2, QuietEffect, SendEffect
  <2>4. \A d \in Channels : ~Dispatch(d) /\ ~CloseDispatch(d)
    BY <2>2, DispatchEffect, CloseEffect
  <2>5. ~AbortRequest /\ ~CompleteExecution
    <3>1. pc'["shell"] # pc["shell"] \/ pc'["control"] # pc["control"]
      BY <2>1
    <3>2. ~AbortRequest
      BY <3>1, AbortEffect
    <3> QED
      BY <2>2, <3>2, CompleteEffect
  <2>6. \A s \in Requests, st \in {"ok", "error"} : ~ReplyCallback(s, st)
    BY <1>3, CallbackEffect
  <2> QED
    BY <2>2, <2>3, <2>4, <2>5, <2>6
    DEF Next, DispatchStep, CallbackStep, HandlerOf, Quiescent, QuietStep
<1>6. PICK d \in Channels : HandlerOf(d)
  BY <1>5
<1>7. d = c
  <2>1. HandlerStep(d)
    BY <1>6, HandlerSteps
  <2> QED
    BY <1>4, <2>1, HandlerEffect
<1>8. HistoryRequest(c)
  BY <1>4, <1>6, <1>7 DEF HandlerOf, CompleteRequest, CommMessage, InterruptRequest,
    ShutdownRequest, DebugRequest, UnknownMessage, HandlerThrows, Handling, Handled
<1> DEFINE reply == Reply("ok", 0, {line.request : line \in Range(history)})
<1>9. replies' = [replies EXCEPT ![r] = Append(@, reply)] /\ history' = history
  BY <1>4, <1>8 DEF HistoryRequest, SendReply, HandlerFrame
<1>10. replies[r] = <<>>
  BY ReplyBegins
<1>11. replies'[r] = Append(<<>>, reply)
  BY <1>9, <1>10 DEF TypeOK
<1>12. Len(replies'[r]) = 1 /\ replies'[r][1] = reply
  BY <1>11
<1> QED
  BY <1>9, <1>12 DEF Reply

LEMMA StoredStep ==
    ASSUME TypeOK, TypeOK', PlaceInv, PlaceInv', StoredInv, [Next]_vars
    PROVE  StoredInv'
<1> USE MessageFacts, StatusValues
<1>1. ASSUME NEW e \in Requests, IsExecute(e)', IsIdle(e)', Stores(e)'
      PROVE  InHistory(e)'
  <2>1. status[e] # <<>> /\ request'[e] = request[e] /\ request[e] # None
    <3>1. status'[e] = <<"busy", "idle">>
      <4>1. status'[e] \in {<<>>, <<"busy">>, <<"busy", "idle">>}
        BY DEF PlaceInv, StatusInv
      <4> QED
        BY <1>1, <4>1 DEF IsIdle, Range
    <3>2. status[e] # <<>>
      BY <3>1, StatusBegins
    <3>3. request[e] # None
      BY <3>2 DEF PlaceInv, UnsentInv
    <3> QED
      BY <3>2, <3>3, RequestsKept
  <2>2. IsExecute(e) /\ Stores(e)
    BY <1>1, <2>1 DEF IsExecute, Stores
  <2>3. CASE IsIdle(e)
    BY <2>2, <2>3, LinesKept DEF StoredInv
  <2>4. ASSUME NEW c \in Channels, CloseDispatch(c), e = current[c] PROVE FALSE
    BY <2>2, <2>4, CurrentFacts, CloseEffect DEF CloseDispatch
  <2>5. CASE CompleteExecution /\ e = current["shell"]
    BY <2>2, <2>5, LinesKept DEF CompleteExecution, StoredInv
  <2> QED
    BY <1>1, <2>3, <2>4, <2>5, IdleBegins
<1>2. ASSUME pc'["shell"] \in {"abort", "complete"}, Stores(current["shell"])'
      PROVE  InHistory(current["shell"])'
  <2>1. current'["shell"] \in Requests
    BY <1>2 DEF TypeOK
  <2>2. CASE StoreInputs
    <3> DEFINE r == current["shell"]
               n == Len(history) + 1
    <3>1. request' = request /\ current' = current
      BY <2>2, StoreEffect
    <3>2. Stores(r)
      BY <1>2, <3>1 DEF Stores
    <3>3. n \in 1..Len(history') /\ history'[n].request = r
      BY <2>2, <3>2, StoreEffect
    <3> QED
      BY <3>1, <3>3 DEF InHistory
  <2>3. CASE /\ pc["shell"] \in {"abort", "complete"}
             /\ current'["shell"] = current["shell"]
    <3>1. current["shell"] # None /\ current["shell"] \in Requests
      BY <2>1, <2>3
    <3>2. request'[current["shell"]] = request[current["shell"]]
      BY <2>3, <3>1, CurrentFacts, RequestsKept
    <3>3. Stores(current["shell"])
      BY <1>2, <2>3, <3>2 DEF Stores
    <3>4. InHistory(current["shell"])
      BY <2>3, <3>3 DEF StoredInv
    <3>5. ASSUME NEW e \in Requests, e = current["shell"] PROVE InHistory(e)'
      BY <3>4, <3>5, LinesKept
    <3> QED
      BY <2>3, <3>1, <3>5 DEF InHistory
  <2>4. AbortEnds => pc["shell"] = "abort" /\ current'["shell"] = current["shell"]
    BY DEF AbortEnds
  <2>5. ~ExecuteRequest
    BY <1>2, StateFacts DEF ExecuteRequest, Goto
  <2>6. ~(\E r \in Requests, st \in {"ok", "error"} : ReplyCallback(r, st))
    BY <1>2, StateFacts DEF ReplyCallback, Goto
  <2> QED
    BY <1>2, <2>2, <2>3, <2>4, <2>5, <2>6, ExecutionMoves DEF ExecutingLabels
<1>3. ASSUME NEW r \in Requests, NEW e \in seen'[r]
      PROVE  IsExecute(e)' /\ IsIdle(e)'
  <2>1. e \in Requests /\ IsExecute(e) /\ IsIdle(e)
    <3>1. CASE seen'[r] = seen[r]
      BY <1>3, <3>1 DEF StoredInv, TypeOK
    <3> QED
      BY <1>3, <3>1, SeenBegins
  <2> QED
    BY <2>1, ExecutionsKept, IdleBegins
<1>4. ASSUME NEW r \in Requests, status'[r] # <<>>, request'[r].kind = "history_request",
             NEW i \in 1..Len(replies'[r]), NEW e \in seen'[r], Stores(e)'
      PROVE  e \in replies'[r][i].lines
  <2>1. replies'[r] # <<>>
    OBVIOUS
  <2>2. status[r] # <<>>
    BY <1>4, <2>1, StatusBegins
  <2>3. seen'[r] = seen[r]
    BY <2>2, SeenBegins
  <2>4. request'[r] = request[r]
    <3>1. request[r] # None
      BY <2>2 DEF PlaceInv, UnsentInv
    <3> QED
      BY <3>1, RequestsKept
  <2>5. e \in Requests /\ IsExecute(e) /\ IsIdle(e)
    BY <1>4, <2>3 DEF StoredInv, TypeOK
  <2>6. Stores(e)
    BY <1>4, <2>5, RequestsKept DEF IsExecute, Stores
  <2>7. CASE replies'[r] = replies[r]
    BY <1>4, <2>2, <2>3, <2>4, <2>6, <2>7 DEF StoredInv
  <2>8. CASE replies'[r] # replies[r]
    <3>1. Len(replies'[r]) = 1 /\ replies'[r][1].lines = {line.request : line \in Range(history)}
      BY <1>4, <2>2, <2>4, <2>8, HistoryReplies
    <3>2. i = 1
      BY <3>1
    <3>3. PICK k \in 1..Len(history) : history[k].request = e
      BY <2>5, <2>6 DEF StoredInv, InHistory
    <3>4. history[k] \in Range(history)
      <4>1. history \in Seq(HistoryLine)
        BY DEF TypeOK
      <4>2. DOMAIN history = 1..Len(history)
        BY <4>1
      <4> QED
        BY <4>2 DEF Range
    <3> QED
      BY <3>1, <3>2, <3>3, <3>4
  <2> QED
    BY <2>7, <2>8
<1> QED
  BY <1>1, <1>2, <1>3, <1>4 DEF StoredInv
---------------------------------------------------------------------------
(* The inductive invariant, and the properties that it implies *)

LEMMA InvariantStep ==
    ASSUME IInv, [Next]_vars
    PROVE  IInv'
<1> USE DEF IInv
<1>1. TypeOK' /\ PlaceInv'
  BY TypeStep, PlaceStep
<1>2. CountInv'
  BY <1>1, InputStep, AnnouncedStep, ReplyStep, HistoryStep DEF CountInv
<1>3. AbortInv'
  BY <1>1, AbortStep
<1>4. StoredInv'
  BY <1>1, StoredStep
<1> QED
  BY <1>1, <1>2, <1>3, <1>4

\* The inductive invariant of the dispatcher: whoever answers, in which order,
\* and whatever throws.
THEOREM InvariantCorrect == Spec => []IInv
<1>1. Init => IInv
  BY TypeInit, PlaceInit, CountInit DEF IInv
<1>2. IInv /\ [Next]_vars => IInv'
  BY InvariantStep
<1> QED
  BY <1>1, <1>2, PTL DEF Spec

\* The execution_count of a reply is the one of the execute_input message of
\* its execution: the callback captured it by copy, so an execution that
\* begins before this one ends does not change it.
THEOREM CountsAgree == Spec => []CountsMatch
<1>1. ASSUME IInv PROVE CountsMatch
  <2> SUFFICES ASSUME NEW o \in outputs, NEW i \in DOMAIN replies[o.by], IsInput(o)
               PROVE  replies[o.by][i].count = o.count
    BY DEF CountsMatch, IsInput
  <2>1. o.by \in Requests /\ IsExecute(o.by) /\ status[o.by] # <<>> /\ o.count = captured[o.by]
    BY <1>1, InputTypes DEF IInv, CountInv, InputInv
  <2>2. DOMAIN replies[o.by] = 1..Len(replies[o.by])
    BY <1>1, <2>1 DEF IInv, TypeOK
  <2> QED
    BY <1>1, <2>1, <2>2 DEF IInv, CountInv, ReplyInv
<1> QED
  BY InvariantCorrect, <1>1, PTL

\* The number of a history line is a key, and it is the number of the reply.
THEOREM HistoryIsKeyed == Spec => []HistoryLinesDistinct
<1>1. ASSUME IInv PROVE HistoryLinesDistinct
  <2> USE HistoryTypes DEF IInv, CountInv
  <2>1. DOMAIN history = 1..Len(history)
    BY <1>1 DEF TypeOK
  \* What a line says of its execution.
  <2>2. ASSUME NEW i \in 1..Len(history)
        PROVE  /\ history[i].request \in Requests
               /\ \E o \in outputs : /\ IsInput(o) /\ o.by = history[i].request
                                     /\ o.count = history[i].count
               /\ \A k \in DOMAIN replies[history[i].request] :
                     replies[history[i].request][k].count = history[i].count
    <3> DEFINE r == history[i].request
    <3>1. r \in Requests /\ Announced(r) /\ history[i].count = captured[r]
      BY <1>1, <2>2 DEF HistoryInv
    <3>2. PICK o \in outputs : IsInput(o) /\ o.by = r
      BY <3>1 DEF Announced
    <3>3. IsExecute(r) /\ status[r] # <<>> /\ o.count = captured[r]
      BY <1>1, <3>2 DEF InputInv
    <3>4. DOMAIN replies[r] = 1..Len(replies[r])
      BY <1>1, <3>1 DEF TypeOK
    <3>5. \A k \in DOMAIN replies[r] : replies[r][k].count = captured[r]
      BY <1>1, <3>1, <3>3, <3>4 DEF ReplyInv
    <3> QED
      BY <3>1, <3>2, <3>3, <3>5
  <2>3. ASSUME NEW i \in 1..Len(history), NEW j \in 1..Len(history),
               history[i].count = history[j].count
        PROVE  i = j
    <3>1. history[i].request = history[j].request
      <4>1. PICK o \in outputs : /\ IsInput(o) /\ o.by = history[i].request
                                 /\ o.count = history[i].count
        BY <2>2
      <4>2. PICK p \in outputs : /\ IsInput(p) /\ p.by = history[j].request
                                 /\ p.count = history[j].count
        BY <2>2
      <4> QED
        BY <1>1, <2>3, <4>1, <4>2 DEF InputInv
    <3> QED
      BY <1>1, <3>1 DEF HistoryInv
  <2>4. ASSUME NEW line \in Range(history), NEW k \in DOMAIN replies[line.request]
        PROVE  replies[line.request][k].count = line.count
    <3>1. PICK i \in 1..Len(history) : line = history[i]
      BY <2>1 DEF Range
    <3> QED
      BY <2>2, <2>4, <3>1
  <2> QED
    BY <2>1, <2>3, <2>4 DEF HistoryLinesDistinct
<1> QED
  BY InvariantCorrect, <1>1, PTL

\* abort_queue runs for an execution that failed and whose client asked for it,
\* and for no other reason is a request answered without being run.
THEOREM AbortsHaveACause == Spec => []AbortedForCause
<1>1. IInv => AbortedForCause
  BY DEF IInv, AbortInv
<1> QED
  BY InvariantCorrect, <1>1, PTL

\* "idle" is published after the input is stored: whatever the interpreter
\* defers or throws, a history request that a client sends on either channel
\* once it saw "idle" is answered with that execution.
THEOREM IdleIsStored == Spec => []IdleIsInHistory
<1>1. ASSUME IInv PROVE IdleIsInHistory
  <2> USE DEF IInv
  <2> SUFFICES ASSUME NEW r \in Requests, NEW i \in DOMAIN replies[r], IsIdle(r),
                      request[r].kind = "history_request", NEW e \in seen[r],
                      request[e].store, ~request[e].silent
               PROVE  e \in replies[r][i].lines
    BY DEF IdleIsInHistory
  <2>1. status[r] # <<>>
    BY <1>1, IdleShape, StatusValues
  <2>2. DOMAIN replies[r] = 1..Len(replies[r])
    BY <1>1 DEF TypeOK
  <2>3. Stores(e)
    BY DEF Stores
  <2> QED
    BY <1>1, <2>1, <2>2, <2>3 DEF StoredInv
<1> QED
  BY InvariantCorrect, <1>1, PTL
---------------------------------------------------------------------------
(* Doomed requests *)

LEMMA QueueMembers ==
    ASSUME NEW S, NEW s \in Seq(S)
    PROVE  /\ \A x : x \in Range(s) <=> \E i \in 1..Len(s) : s[i] = x
           /\ \A x \in Range(s) : s # <<>> /\ (x = Head(s) \/ x \in Range(Tail(s)))
           /\ \A x \in Range(s), y \in S : x \in Range(Append(s, y))
<1>1. ASSUME NEW t \in Seq(S), NEW x PROVE x \in Range(t) <=> \E i \in 1..Len(t) : t[i] = x
  BY DEF Range
<1>2. ASSUME NEW x \in Range(s) PROVE s # <<>> /\ (x = Head(s) \/ x \in Range(Tail(s)))
  <2>1. PICK i \in 1..Len(s) : s[i] = x
    BY <1>1
  <2>2. Len(s) \in Nat /\ Len(s) # 0
    BY <2>1
  <2>3. s # <<>>
    BY <2>2, NonEmpty
  <2>4. CASE i = 1
    BY <2>1, <2>3, <2>4
  <2>5. CASE i # 1
    <3>1. /\ Tail(s) \in Seq(S) /\ Len(Tail(s)) = Len(s) - 1
          /\ \A j \in 1..Len(Tail(s)) : Tail(s)[j] = s[j + 1]
      BY <2>3
    <3>2. i - 1 \in 1..Len(Tail(s)) /\ Tail(s)[i - 1] = x
      BY <2>1, <2>2, <2>5, <3>1
    <3> QED
      BY <1>1, <2>3, <3>1, <3>2
  <2> QED
    BY <2>4, <2>5
<1>3. ASSUME NEW x \in Range(s), NEW y \in S PROVE x \in Range(Append(s, y))
  <2>1. PICK i \in 1..Len(s) : s[i] = x
    BY <1>1
  <2>2. /\ Append(s, y) \in Seq(S) /\ i \in 1..Len(Append(s, y)) /\ Append(s, y)[i] = x
    BY <2>1
  <2> QED
    BY <1>1, <2>2
<1> QED
  BY <1>1, <1>2, <1>3

\* The requests of the shell queue, until dispatch or abort_queue reads them.
LEMMA QueueKeeps ==
    ASSUME TypeOK, PlaceInv, [Next]_vars, NEW r \in Range(queue["shell"])
    PROVE  \/ r \in Range(queue'["shell"])
           \/ (Dispatch("shell") \/ AbortRequest \/ AbortThrows) /\ r = Head(queue["shell"])
<1> USE MessageFacts
<1>1. \A c \in Channels : queue[c] \in Seq(Requests)
  BY DEF TypeOK
<1>2. ASSUME NEW s \in Requests, NEW m \in Messages, Send(s, m)
      PROVE  r \in Range(queue'["shell"])
  <2>1. queue'["shell"] = queue["shell"] \/ queue'["shell"] = Append(queue["shell"], s)
    BY <1>2 DEF Send, TypeOK
  <2>2. queue["shell"] \in Seq(Requests)
    BY <1>1
  <2>3. \A x \in Range(queue["shell"]), y \in Requests : x \in Range(Append(queue["shell"], y))
    BY <2>2, QueueMembers
  <2> QED
    BY <2>1, <2>3
<1>3. ASSUME NEW c \in Channels, Dispatch(c)
      PROVE  \/ r \in Range(queue'["shell"])
             \/ c = "shell" /\ r = Head(queue["shell"])
  <2>1. /\ c = "shell" => queue'["shell"] = Tail(queue["shell"])
        /\ c # "shell" => queue'["shell"] = queue["shell"]
    BY <1>3 DEF Dispatch, TypeOK
  <2> QED
    BY <1>1, <2>1, QueueMembers
<1>4. ASSUME AbortRequest \/ AbortThrows
      PROVE  r \in Range(queue'["shell"]) \/ r = Head(queue["shell"])
  <2>1. queue'["shell"] = Tail(queue["shell"])
    BY <1>4 DEF AbortRequest, AbortThrows, TypeOK
  <2> QED
    BY <1>1, <2>1, QueueMembers
<1>5. CASE QuietStep /\ ~AbortThrows
  BY <1>5 DEF QuietStep, ExecuteRequest, InterpreterPublishes, InterpreterThrows,
    InterpreterDefers, StoreInputs, AbortEnds, ServerExits, vars, serverVars
<1>6. ASSUME NEW c \in Channels, HandlerStep(c) \/ CloseDispatch(c) PROVE queue' = queue
  BY <1>6, HandlerEffect, CloseEffect
<1>7. ASSUME NEW s \in Requests, NEW st \in {"ok", "error"}, ReplyCallback(s, st)
      PROVE  queue' = queue
  BY <1>7, CallbackEffect
<1>8. CASE CompleteExecution
  BY <1>8, CompleteEffect
<1> QED
  BY StepKinds, <1>2, <1>3, <1>4, <1>5, <1>6, <1>7, <1>8

\* What the shell thread can do between the reply and the end of abort_queue.
LEMMA DrainingMoves ==
    ASSUME TypeOK, PlaceInv, [Next]_vars, pc["shell"] \in {"replied", "abort"}
    PROVE  \/ StoreInputs \/ AbortEnds \/ AbortThrows
           \/ pc'["shell"] = pc["shell"] /\ current'["shell"] = current["shell"]
<1> USE MessageFacts, StateFacts
<1>1. ASSUME NEW c \in Channels, Dispatch(c)
      PROVE  pc'["shell"] = pc["shell"] /\ current'["shell"] = current["shell"]
  BY <1>1, DispatchEffect DEF Dispatch
<1>2. ASSUME NEW c \in Channels, HandlerStep(c)
      PROVE  pc'["shell"] = pc["shell"] /\ current'["shell"] = current["shell"]
  BY <1>2, HandlerEffect DEF HandlerStep
<1>3. ASSUME NEW c \in Channels, CloseDispatch(c)
      PROVE  pc'["shell"] = pc["shell"] /\ current'["shell"] = current["shell"]
  BY <1>3, CloseEffect DEF CloseDispatch
<1>4. ~CompleteExecution
  BY DEF CompleteExecution
<1>5. ~(\E s \in Requests, st \in {"ok", "error"} : ReplyCallback(s, st))
  BY DEF ReplyCallback, Running
<1>6. ASSUME NEW s \in Requests, NEW m \in Messages, Send(s, m)
      PROVE  pc'["shell"] = pc["shell"] /\ current'["shell"] = current["shell"]
  BY <1>6, SendEffect
<1>7. AbortRequest => pc'["shell"] = pc["shell"] /\ current'["shell"] = current["shell"]
  BY AbortEffect
<1>8. QuietStep => \/ StoreInputs \/ AbortEnds \/ AbortThrows
                   \/ pc'["shell"] = pc["shell"] /\ current'["shell"] = current["shell"]
  BY DEF QuietStep, ExecuteRequest, Handling, InterpreterPublishes, InterpreterThrows,
    InterpreterDefers, ServerExits, Goto, vars, serverVars
<1> QED
  BY StepKinds, <1>1, <1>2, <1>3, <1>4, <1>5, <1>6, <1>7, <1>8

LEMMA DoomedBegins ==
    ASSUME TypeOK, [Next]_vars
    PROVE  \/ doomed' = doomed
           \/ \E r \in Requests, st \in {"ok", "error"} :
                 /\ ReplyCallback(r, st) /\ StopsOnError(r, st)
                 /\ doomed' = doomed \cup Range(queue["shell"])
<1>1. \A c \in Channels : HandlerStep(c) => doomed' = doomed
  BY DEF HandlerStep, ghosts
<1>2. QuietStep => doomed' = doomed
  BY DEF QuietStep, ExecuteRequest, InterpreterPublishes, InterpreterThrows, InterpreterDefers,
    StoreInputs, AbortThrows, AbortEnds, ServerExits, vars, ghosts
<1>3. \A r \in Requests, st \in {"ok", "error"} :
        ReplyCallback(r, st) =>
           \/ doomed' = doomed
           \/ StopsOnError(r, st) /\ doomed' = doomed \cup Range(queue["shell"])
  BY DEF ReplyCallback
<1> QED
  BY StepKinds, <1>1, <1>2, <1>3
  DEF Send, Dispatch, CloseDispatch, AbortRequest, CompleteExecution, ghosts

LEMMA DoomedStep ==
    ASSUME \A m \in Messages : m.kind # "garbled",
           TypeOK, TypeOK', PlaceInv, DoomedInv, [Next]_vars
    PROVE  DoomedInv'
<1> USE MessageFacts, StatusValues
<1>1. \A r \in Range(queue["shell"]) :
         /\ r \in Requests /\ request[r] # None /\ request[r].channel = "shell"
         /\ status[r] = <<>> /\ replies[r] = <<>>
  <2>1. queue["shell"] \in Seq(Requests)
    BY DEF TypeOK
  <2>2. QueueOK("shell")
    BY DEF PlaceInv, QueueInv
  <2>3. ASSUME NEW r \in Range(queue["shell"])
        PROVE  \E i \in 1..Len(queue["shell"]) : queue["shell"][i] = r
    BY <2>1, <2>3, QueueMembers
  <2>4. \A i \in 1..Len(queue["shell"]) : queue["shell"][i] \in Requests
    BY <2>1
  <2> QED
    BY <2>2, <2>3, <2>4 DEF QueueOK
<1>2. ~AbortThrows
  <2>1. SUFFICES ASSUME AbortThrows PROVE FALSE
    OBVIOUS
  <2>2. LET h == Head(queue["shell"]) IN h \in Requests /\ request[h] # None
    BY <2>1, HeadFacts DEF AbortThrows
  <2> QED
    BY <2>1, <2>2 DEF AbortThrows, TypeOK
\* The requests that were doomed already.
<1>3. ASSUME NEW r \in doomed
      PROVE  /\ status'[r] = <<>>
             /\ replies'[r] = <<>> => Draining' /\ r \in Range(queue'["shell"])
  <2>1. /\ r \in Requests /\ status[r] = <<>>
        /\ replies[r] = <<>> => Draining /\ r \in Range(queue["shell"])
    BY DEF DoomedInv, TypeOK
  <2>2. ASSUME NEW c \in Channels, Dispatch(c), r = Head(queue[c]) PROVE FALSE
    <3>1. replies[r] = <<>> /\ request[r].channel = c
      BY <2>2, DispatchEffect
    <3>2. c = "shell" /\ Draining
      BY <1>1, <2>1, <3>1
    <3> QED
      BY <2>2, <3>2 DEF Draining, Dispatch
  <2>3. status'[r] = <<>>
    BY <2>1, <2>2, StatusBegins
  <2>4. ASSUME replies'[r] = <<>> PROVE Draining' /\ r \in Range(queue'["shell"])
    <3>1. replies[r] = <<>>
      BY <2>1, <2>4, RequestsKept
    <3>2. Draining /\ r \in Range(queue["shell"])
      BY <2>1, <3>1
    <3>3. ~(AbortRequest /\ r = Head(queue["shell"]))
      <4>1. AbortRequest => Len(replies'[Head(queue["shell"])]) = 1
        BY AbortEffect
      <4> QED
        BY <2>4, <4>1
    <3>4. r \in Range(queue'["shell"])
      BY <1>2, <2>2, <3>2, <3>3, QueueKeeps
    <3>5. ~AbortEnds
      <4>1. queue["shell"] # <<>>
        BY <3>2, QueueMembers DEF TypeOK
      <4> QED
        BY <4>1 DEF AbortEnds
    <3>6. Draining'
      <4> DEFINE e == current["shell"]
      <4>1. pc["shell"] \in {"replied", "abort"} /\ e \in Requests
        BY <3>2 DEF Draining, TypeOK
      <4>2. CASE StoreInputs
        <5>1. pc["shell"] = "replied" /\ StopsOnError(e, replies[e][1].status)
          BY <3>2, <4>2 DEF StoreInputs, Draining
        <5> QED
          BY <4>2, <5>1, StoreEffect, StateFacts DEF Draining
      <4>3. CASE pc'["shell"] = pc["shell"] /\ current'["shell"] = current["shell"]
        <5>1. e # None /\ request[e] # None
          BY <4>1, CurrentFacts
        <5>2. pc["shell"] = "replied" => replies[e] # <<>>
          BY <5>1, CurrentFacts
        <5>3. request'[e] = request[e] /\ (replies[e] # <<>> => replies'[e] = replies[e])
          BY <4>1, <5>1, RequestsKept
        <5> QED
          BY <3>2, <4>3, <5>2, <5>3 DEF Draining, StopsOnError
      <4> QED
        BY <1>2, <3>5, <4>1, <4>2, <4>3, DrainingMoves
    <3> QED
      BY <3>4, <3>6
  <2> QED
    BY <2>3, <2>4
\* The requests that a failure dooms.
<1>4. ASSUME NEW s \in Requests, NEW st \in {"ok", "error"}, ReplyCallback(s, st),
             StopsOnError(s, st), NEW r \in Range(queue["shell"])
      PROVE  status'[r] = <<>> /\ Draining' /\ r \in Range(queue'["shell"])
  <2>1. /\ pc'["shell"] = "replied" /\ current'["shell"] = s /\ request' = request
        /\ replies'[s][1] = Reply(st, CapturedCount(s), {})
        /\ status' = status /\ queue' = queue
    BY <1>4, CallbackEffect, StateFacts
  <2>2. replies'[s][1].status = st
    BY <2>1 DEF Reply
  <2> QED
    BY <1>1, <1>4, <2>1, <2>2 DEF Draining, StopsOnError
<1> QED
  BY <1>3, <1>4, DoomedBegins DEF DoomedInv

\* A request that was queued behind a failed stop-on-error execution is aborted,
\* or still in the queue that abort_queue is draining: abort_queue cannot leave
\* one behind.  A message type without underscore is the exception that the
\* code has.
THEOREM DoomedAreDrained ==
    ASSUME \A m \in Messages : m.kind # "garbled"
    PROVE  Spec => []DoomedInv
<1>1. Init => DoomedInv
  BY DEF Init, DoomedInv
<1>2. TypeOK /\ PlaceInv /\ DoomedInv /\ [Next]_vars => DoomedInv'
  BY TypeStep, DoomedStep
<1> QED
  BY <1>1, <1>2, PlaceCorrect, PTL DEF Spec

\* stop_on_error: so what was in the shell queue when an execution failed is
\* answered without being run.
THEOREM DoomedAreNotRun ==
    ASSUME \A m \in Messages : m.kind # "garbled"
    PROVE  Spec => []DoomedNeverRun
<1>1. DoomedInv => DoomedNeverRun
  BY DEF DoomedInv, DoomedNeverRun
<1> QED
  BY DoomedAreDrained, <1>1, PTL
---------------------------------------------------------------------------
(* Executions that do not overlap *)

LEMMA SyncStep ==
    ASSUME ~Async, TypeOK, TypeOK', PlaceInv, SyncInv, [Next]_vars
    PROVE  SyncInv'
<1> USE MessageFacts, StateFacts, HistoryTypes
<1>1. deferred' = {}
  BY DeferredGrows DEF SyncInv
<1>2. executionCount \in Nat /\ executionCount' \in Nat
  BY DEF TypeOK
\* Only the execution that the shell thread is in replies.
<1>3. ASSUME NEW r \in Requests, NEW st \in {"ok", "error"}, ReplyCallback(r, st)
      PROVE  pc["shell"] = "execute" /\ current["shell"] = r
  BY <1>3 DEF ReplyCallback, Running, SyncInv
<1>4. CASE ExecuteRequest
  <2> DEFINE r == current["shell"]
             o == Output("execute_input", r, r, executionCount + 1)
  <2>1. /\ r \in Requests /\ pc' = [pc EXCEPT !["shell"] = "execute"]
        /\ current' = current /\ request' = request /\ history' = history
        /\ requestContext' = r /\ captured' = [captured EXCEPT ![r] = executionCount']
        /\ request[r].silent => executionCount' = executionCount /\ outputs' = outputs
        /\ ~request[r].silent => executionCount' = executionCount + 1 /\ outputs' = outputs \cup {o}
    BY <1>4, ExecuteEffect
  <2>2. pc'["shell"] = "execute" /\ captured'[r] = executionCount'
    BY <2>1 DEF TypeOK
  <2>3. \A i \in 1..Len(history) : history[i].count <= executionCount /\ history[i].count \in Nat
    BY DEF SyncInv
  <2>4. CASE request[r].silent
    BY <1>1, <2>1, <2>2, <2>3, <2>4 DEF SyncInv, HistoryInOrder, OutputsAttributed
  <2>5. CASE ~request[r].silent
    <3>1. /\ \A i \in 1..Len(history) : history[i].count <= executionCount'
          /\ \A i \in 1..Len(history) : history[i].count < executionCount'
      BY <1>2, <2>1, <2>3, <2>5
    <3>2. OutputsAttributed'
      <4>1. o.parent = o.by
        BY DEF Output
      <4> QED
        BY <2>1, <2>5, <4>1 DEF SyncInv, OutputsAttributed
    <3> QED
      BY <1>1, <2>1, <2>2, <3>1, <3>2 DEF SyncInv, HistoryInOrder
  <2> QED
    BY <2>4, <2>5
<1>5. CASE ~ExecuteRequest
  <2>1. captured' = captured /\ executionCount' = executionCount /\ requestContext' = requestContext
    BY <1>5, NumbersKept
  \* The execution that the shell thread is in keeps the number and the context.
  <2>2. ASSUME pc'["shell"] \in {"execute", "replied"}
        PROVE  /\ pc["shell"] \in {"execute", "replied"}
               /\ pc'["shell"] = "execute" => pc["shell"] = "execute"
               /\ current'["shell"] = current["shell"]
               /\ request'[current["shell"]] = request[current["shell"]]
               /\ history' = history
    <3>1. ~StoreInputs /\ ~AbortEnds
      BY <2>2 DEF StoreInputs, AbortEnds, Goto
    <3>2. \/ \E r \in Requests, st \in {"ok", "error"} : ReplyCallback(r, st)
          \/ pc'["shell"] = pc["shell"] /\ current'["shell"] = current["shell"]
      BY <1>5, <2>2, <3>1, ExecutionMoves DEF ExecutingLabels
    <3>3. \A r \in Requests, st \in {"ok", "error"} :
             ReplyCallback(r, st) => pc'["shell"] = "replied" /\ current'["shell"] = r
      BY CallbackEffect
    <3>4. /\ pc["shell"] \in {"execute", "replied"}
          /\ pc'["shell"] = "execute" => pc["shell"] = "execute"
          /\ current'["shell"] = current["shell"]
      BY <1>3, <2>2, <3>2, <3>3
    <3>5. current["shell"] # None /\ current["shell"] \in Requests
      BY <3>4 DEF TypeOK
    <3>6. request[current["shell"]] # None
      BY <3>5, CurrentFacts
    <3> QED
      BY <3>1, <3>4, <3>5, <3>6, RequestsKept, HistoryKept
  <2>3. ASSUME pc'["shell"] = "execute" PROVE requestContext' = current'["shell"]
    BY <2>1, <2>2, <2>3 DEF SyncInv
  <2>4. ASSUME pc'["shell"] \in {"execute", "replied"}, ~request'[current'["shell"]].silent
        PROVE  /\ captured'[current'["shell"]] = executionCount'
               /\ \A i \in 1..Len(history') : history'[i].count < executionCount'
    BY <2>1, <2>2, <2>4 DEF SyncInv
  <2>5. /\ \A i \in 1..Len(history') : history'[i].count <= executionCount'
        /\ HistoryInOrder'
    <3>1. CASE history' = history
      BY <2>1, <3>1 DEF SyncInv, HistoryInOrder
    <3>2. CASE StoreInputs /\ Stores(current["shell"])
      <4> DEFINE r == current["shell"]
                 n == Len(history) + 1
      <4>1. /\ pc["shell"] = "replied" /\ ~request[r].silent
            /\ Len(history') = n /\ n \in Nat /\ history'[n].count = captured[r]
            /\ \A i \in 1..Len(history) : history'[i] = history[i]
        BY <3>2, StoreEffect DEF Stores
      <4>2. /\ captured[r] = executionCount
            /\ \A i \in 1..Len(history) : history[i].count < executionCount
        BY <4>1 DEF SyncInv
      <4>3. DOMAIN history = 1..Len(history) /\ DOMAIN history' = 1..Len(history')
        BY DEF TypeOK
      <4>4. \A i \in 1..n : i = n \/ i \in 1..Len(history)
        BY <4>1
      <4> HIDE DEF n, r
      <4>5. \A i \in 1..Len(history') : history'[i].count <= executionCount
        BY <1>2, <4>1, <4>2, <4>4
      <4>6. ASSUME NEW i \in 1..Len(history'), NEW j \in 1..Len(history'), i < j
            PROVE  history'[i].count < history'[j].count
        <5>1. i \in 1..Len(history)
          BY <4>1, <4>6 DEF n
        <5>2. CASE j = n
          BY <4>1, <4>2, <5>1, <5>2
        <5>3. CASE j \in 1..Len(history)
          BY <4>1, <4>3, <4>6, <5>1, <5>3 DEF SyncInv, HistoryInOrder
        <5> QED
          BY <4>1, <4>4, <5>2, <5>3
      <4> QED
        BY <2>1, <4>3, <4>5, <4>6 DEF HistoryInOrder
    <3> QED
      BY <3>1, <3>2, HistoryKept, StoreEffect
  <2>6. OutputsAttributed'
    <3>1. ASSUME NEW o \in outputs', o \notin outputs PROVE o.parent = o.by
      <4>1. ASSUME NEW r \in Requests, InterpreterPublishes(r) PROVE o.parent = o.by
        <5>1. requestContext = r
          BY <4>1 DEF InterpreterPublishes, Running, SyncInv
        <5> QED
          BY <3>1, <4>1, <5>1 DEF InterpreterPublishes, Publish, Output
      <4>2. ASSUME NEW c \in Channels, HandlerStep(c) PROVE o.parent = o.by
        BY <3>1, <4>2 DEF HandlerStep, Publish, Output
      <4>3. CASE QuietStep /\ ~(\E r \in Requests : InterpreterPublishes(r))
        BY <1>5, <3>1, <4>3 DEF QuietStep, InterpreterThrows, InterpreterDefers, StoreInputs,
          AbortThrows, AbortEnds, ServerExits, vars, clientVars
      <4> QED
        BY <3>1, <4>1, <4>2, <4>3, StepKinds
        DEF Send, Dispatch, CloseDispatch, ReplyCallback, AbortRequest, CompleteExecution,
          clientVars, QuietStep
    <3> QED
      BY <3>1 DEF SyncInv, OutputsAttributed
  <2> QED
    BY <1>1, <2>3, <2>4, <2>5, <2>6 DEF SyncInv
<1> QED
  BY <1>4, <1>5

\* An interpreter that answers before it returns: the shell thread works on one
\* execution at a time, from its number to its line.
THEOREM SyncCorrect == ~Async => (Spec => []SyncInv)
<1> SUFFICES ASSUME ~Async PROVE Spec => []SyncInv
  OBVIOUS
<1>1. Init => SyncInv
  BY MessageFacts DEF Init, SyncInv, HistoryInOrder, OutputsAttributed
<1>2. TypeOK /\ PlaceInv /\ SyncInv /\ [Next]_vars => SyncInv'
  BY TypeStep, SyncStep
<1> QED
  BY <1>1, <1>2, PlaceCorrect, PTL DEF Spec

\* Then the history is in the order of its numbers...
THEOREM HistoryIsOrdered == ~Async => (Spec => []HistoryInOrder)
<1>1. SyncInv => HistoryInOrder
  BY DEF SyncInv
<1> QED
  BY SyncCorrect, <1>1, PTL

\* ... and the interpreter's only context slot is enough: what an execution
\* publishes has the header of its own request, and the other thread's
\* interrupts and shutdowns do not disturb it.
THEOREM OutputsAreAttributed == ~Async => (Spec => []OutputsAttributed)
<1>1. SyncInv => OutputsAttributed
  BY DEF SyncInv
<1> QED
  BY SyncCorrect, <1>1, PTL
===========================================================================
