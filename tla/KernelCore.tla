---------------------------- MODULE KernelCore ----------------------------
(***************************************************************************)
(* xkernel_core: the dispatcher of a Jupyter kernel, with the base class   *)
(* of the interpreter it drives (xinterpreter) and the two server threads  *)
(* that call it.                                                           *)
(*                                                                         *)
(* A client puts requests on the shell and control channels.  The thread   *)
(* of a channel takes one message at a time and calls dispatch, which      *)
(* publishes "busy", calls the handler of the message type and, when that  *)
(* handler is a blocking one, publishes "idle".  execute_request is the    *)
(* one non-blocking handler: the callback that it hands to the interpreter *)
(* replies, stores the input in the history, drains the shell queue if the *)
(* client asked for that on errors, and publishes "idle" itself.  The      *)
(* interpreter calls it before it returns, or later from the event loop of *)
(* the shell thread (constant Async).                                      *)
(***************************************************************************)
EXTENDS Integers, Sequences, FiniteSets, Functions

CONSTANTS
    Requests,    \* identities of the requests that clients may send
    Messages,    \* the request messages that clients may put in them
    Async,       \* TRUE: the interpreter may call the reply callback later
    MayThrow,    \* TRUE: the interpreter's virtual methods may throw
    HasDebugger, \* TRUE: the kernel was built with a debugger
    None         \* no request

Channels == {"shell", "control"}

\* The message types, the ones whose handlers differ only in the interpreter
\* method they call standing for each other: complete_request also stands for
\* inspect, is_complete, comm_info and kernel_info requests, and comm_msg for
\* comm_open and comm_close.  The last two have no handler, and the name of
\* the last has no underscore either.
Handled == {"execute_request", "complete_request", "history_request", "comm_msg",
            "shutdown_request", "interrupt_request", "debug_request"}
Kinds == Handled \cup {"unknown_request", "garbled"}

Message == [kind: Kinds, channel: Channels, silent: BOOLEAN, store: BOOLEAN, stop: BOOLEAN]

ASSUME NoneAssumption == None \notin Requests /\ None \notin Message

\* "xeus assumes execute_request will be executed on SHELL only".
ASSUME MessagesAssumption ==
    /\ Messages \subseteq Message
    /\ \A m \in Messages : m.kind = "execute_request" => m.channel = "shell"

ASSUME FlagsAssumption == {Async, MayThrow, HasDebugger} \subseteq BOOLEAN

VARIABLES
    request,        \* the message each request carries, None before it is sent
    queue,          \* per channel, the requests received and not read yet
    pc,             \* per channel, where its thread is
    current,        \* per channel, the request its thread works on
    deferred,       \* executions whose callback the interpreter keeps for later
    requestContext, \* m_request_context, the interpreter's only context slot
    executionCount, \* m_execution_count
    captured,       \* the execution_count that each callback captured
    history,        \* the lines of the history manager
    status,         \* per request, the statuses published with its header
    replies,        \* per request, the replies sent to it
    outputs,        \* other IOPub messages, with who caused them
    stopped,        \* p_server->stop() was called
    seen,           \* ghost: executions known idle when a request was sent
    doomed          \* ghost: requests queued behind a stop-on-error failure

serverVars == <<queue, pc, current, stopped>>
interpreterVars == <<deferred, requestContext, executionCount, captured>>
clientVars == <<status, replies, outputs>>
ghosts == <<seen, doomed>>
vars == <<request, serverVars, interpreterVars, history, clientVars, ghosts>>

---------------------------------------------------------------------------
IsExecute(r) == request[r] # None /\ request[r].kind = "execute_request"
IsIdle(r)    == "idle" \in Range(status[r])
Replied(r)   == replies[r] # <<>>

\* The `blocking` member of handler_type, TRUE when there is no handler.
BlockingExceptDebug(kind) == kind \notin {"execute_request", "debug_request"}  \* mutant
AlwaysBlocking(kind) == kind \in Kinds                                        \* mutant
Blocking(kind) == kind # "execute_request"

\* store_history = store_history && !silent
StoresSuccesses(r) == ~request[r].silent /\ replies[r][1].status = "ok"        \* mutant
StoresWhenSilent(r) == request[r].store                                       \* mutant
Stores(r) == request[r].store /\ ~request[r].silent

\* The condition under which the callback of r calls abort_queue, once it has
\* replied with status st.
StopsOnAnyStatus(r, st) == ~request[r].silent /\ request[r].stop              \* mutant
StopsOnError(r, st) == ~request[r].silent /\ st = "error" /\ request[r].stop

\* What the callback of r reads in the count that it captured by copy.
CurrentCount(r) == executionCount + 0 * captured[r]                           \* mutant
CapturedCount(r) == captured[r]

\* The history with one more line.
PushFront(line) == <<line>> \o history                                        \* mutant
StoreLine(line) == Append(history, line)

Reply(st, n, lines) == [status |-> st, count |-> n, lines |-> lines]
SendReply(r, reply) == replies' = [replies EXCEPT ![r] = Append(@, reply)]
Output(type, r, parent, n) == [type |-> type, by |-> r, parent |-> parent, count |-> n]
Publish(output)        == outputs' = outputs \cup {output}
PublishStatus(r, s)    == status' = [status EXCEPT ![r] = Append(@, s)]

Goto(c, label)     == pc' = [pc EXCEPT ![c] = label]
FinishKeepingCurrent(c) == Goto(c, "listen") /\ UNCHANGED current              \* mutant
Finish(c)          == Goto(c, "listen") /\ current' = [current EXCEPT ![c] = None]

\* Where dispatch goes when its handler returns or throws.
Return(c) == IF Blocking(request[current[c]].kind)
             THEN Goto(c, "close") /\ UNCHANGED current
             ELSE Finish(c)

Init ==
    /\ request = [r \in Requests |-> None]
    /\ queue = [c \in Channels |-> <<>>]
    /\ pc = [c \in Channels |-> "listen"]
    /\ current = [c \in Channels |-> None]
    /\ deferred = {}
    /\ requestContext = None
    /\ executionCount = 0
    /\ captured = [r \in Requests |-> 0]
    /\ history = <<>>
    /\ status = [r \in Requests |-> <<>>]
    /\ replies = [r \in Requests |-> <<>>]
    /\ outputs = {}
    /\ stopped = FALSE
    /\ seen = [r \in Requests |-> {}]
    /\ doomed = {}

---------------------------------------------------------------------------
(* Clients *)

\* A client sends r.  What it knows of earlier executions when it does is
\* kept for the requests that ask for the history.
Send(r, m) ==
    /\ request[r] = None
    /\ request' = [request EXCEPT ![r] = m]
    /\ queue' = [queue EXCEPT ![m.channel] = Append(@, r)]
    /\ seen' = [seen EXCEPT ![r] = IF m.kind = "history_request"
                                   THEN {e \in Requests : IsExecute(e) /\ IsIdle(e)} ELSE {}]
    /\ UNCHANGED <<pc, current, stopped, interpreterVars, history, clientVars, doomed>>

---------------------------------------------------------------------------
(* dispatch, on the thread of channel c *)

Dispatch(c) ==
    /\ pc[c] = "listen" /\ queue[c] # <<>>
    /\ queue' = [queue EXCEPT ![c] = Tail(@)]
    /\ current' = [current EXCEPT ![c] = Head(queue[c])]
    /\ PublishStatus(Head(queue[c]), "busy")
    /\ Goto(c, "handle")
    /\ UNCHANGED <<request, stopped, interpreterVars, history, replies, outputs, ghosts>>

Handling(c, kinds) == pc[c] = "handle" /\ request[current[c]].kind \in kinds

\* What every blocking handler leaves alone.
HandlerFrame == UNCHANGED <<request, queue, interpreterVars, history, status, ghosts>>

CompleteRequest(c) ==
    /\ Handling(c, {"complete_request"})
    /\ SendReply(current[c], Reply("ok", 0, {}))
    /\ Return(c)
    /\ UNCHANGED <<outputs, stopped>> /\ HandlerFrame

HistoryRequest(c) ==
    /\ Handling(c, {"history_request"})
    /\ SendReply(current[c], Reply("ok", 0, {line.request : line \in Range(history)}))
    /\ Return(c)
    /\ UNCHANGED <<outputs, stopped>> /\ HandlerFrame

\* comm_open, comm_close and comm_msg: no reply, whether they succeed or throw.
CommMessage(c) ==
    /\ Handling(c, {"comm_msg"})
    /\ Return(c)
    /\ UNCHANGED <<replies, outputs, stopped>> /\ HandlerFrame

InterruptRequest(c) ==
    /\ Handling(c, {"interrupt_request"})
    /\ Publish(Output("interrupt", current[c], current[c], 0))
    /\ SendReply(current[c], Reply("ok", 0, {}))
    /\ Return(c)
    /\ UNCHANGED stopped /\ HandlerFrame

ShutdownRequest(c) ==
    /\ Handling(c, {"shutdown_request"})
    /\ Publish(Output("shutdown", current[c], current[c], 0))
    /\ \E st \in {"ok", "error"} :
          /\ SendReply(current[c], Reply(st, 0, {}))
          /\ stopped' = (stopped \/ st = "ok")
    /\ Return(c)
    /\ HandlerFrame

DebugRequest(c) ==
    /\ Handling(c, {"debug_request"})
    /\ IF HasDebugger THEN SendReply(current[c], Reply("ok", 0, {})) ELSE UNCHANGED replies
    /\ Return(c)
    /\ UNCHANGED <<outputs, stopped>> /\ HandlerFrame

UnknownMessage(c) ==
    /\ Handling(c, Kinds \ Handled)
    /\ Return(c)
    /\ UNCHANGED <<replies, outputs, stopped>> /\ HandlerFrame

\* dispatch catches what a blocking handler throws before it replies.
HandlerThrows(c) ==
    /\ MayThrow
    /\ Handling(c, {k \in Handled : Blocking(k)})
    /\ Return(c)
    /\ UNCHANGED <<replies, outputs, stopped>> /\ HandlerFrame

\* The end of dispatch for a blocking handler.
CloseDispatch(c) ==
    /\ pc[c] = "close"
    /\ PublishStatus(current[c], "idle")
    /\ Finish(c)
    /\ UNCHANGED <<request, queue, stopped, interpreterVars, history, replies, outputs, ghosts>>

---------------------------------------------------------------------------
(* execute_request, on the shell thread *)

\* The context that publish_execution_input reads.
StaleContext == requestContext                                                \* mutant
InputContext == requestContext'

\* The context slot takes the request, the count moves unless the request is
\* silent, and the callback captures the count before the interpreter runs.
ExecuteRequest ==
    LET r == current["shell"] IN
    /\ Handling("shell", {"execute_request"})
    /\ requestContext' = r
    /\ IF request[r].silent
       THEN UNCHANGED <<executionCount, outputs>>
       ELSE /\ executionCount' = executionCount + 1
            /\ Publish(Output("execute_input", r, InputContext, executionCount'))
    /\ captured' = [captured EXCEPT ![r] = executionCount']
    /\ Goto("shell", "execute")
    /\ UNCHANGED <<request, queue, current, stopped, deferred, history, status, replies, ghosts>>

\* The executions that can run interpreter code now: the one that the shell
\* thread is in, or, between two messages, any that was deferred.
Running(r) ==
    \/ pc["shell"] = "execute" /\ r = current["shell"]
    \/ pc["shell"] = "listen" /\ r \in deferred

\* publish_stream, display_data, publish_execution_result, clear_output...
InterpreterPublishes(r) ==
    /\ Running(r)
    /\ Publish(Output("stream", r, requestContext, 0))
    /\ UNCHANGED <<request, serverVars, interpreterVars, history, status, replies, ghosts>>

\* execute_request catches what the interpreter throws and only logs it.
InterpreterThrows ==
    /\ MayThrow
    /\ pc["shell"] = "execute"
    /\ Return("shell")
    /\ UNCHANGED <<request, queue, stopped, interpreterVars, history, clientVars, ghosts>>

\* The interpreter returns and keeps the callback.
InterpreterDefers ==
    /\ Async
    /\ pc["shell"] = "execute"
    /\ deferred' = deferred \cup {current["shell"]}
    /\ Return("shell")
    /\ UNCHANGED <<request, queue, stopped, requestContext, executionCount, captured,
                   history, clientVars, ghosts>>

\* The interpreter calls the callback, whose first effect is the reply.
ReplyCallback(r, st) ==
    /\ Running(r)
    /\ deferred' = deferred \ {r}
    /\ current' = [current EXCEPT !["shell"] = r]
    /\ SendReply(r, Reply(st, CapturedCount(r), {}))
    /\ doomed' = IF StopsOnError(r, st)
                 THEN doomed \cup Range(queue["shell"]) ELSE doomed
    /\ Goto("shell", "replied")
    /\ UNCHANGED <<request, queue, stopped, requestContext, executionCount, captured,
                   history, status, outputs, seen>>

StoreInputs ==
    LET r == current["shell"] IN
    /\ pc["shell"] = "replied"
    /\ history' = IF Stores(r)
                  THEN StoreLine([count |-> CapturedCount(r), request |-> r]) ELSE history
    /\ Goto("shell", IF StopsOnError(r, replies[r][1].status) THEN "abort" ELSE "complete")
    /\ UNCHANGED <<request, queue, current, stopped, interpreterVars, clientVars, ghosts>>

\* abort_queue reads the shell queue and calls abort_request on each message:
\* an error reply whose type is the stem of the message type with "_reply".
AbortRequest ==
    /\ pc["shell"] = "abort" /\ queue["shell"] # <<>>
    /\ request[Head(queue["shell"])].kind # "garbled"
    /\ queue' = [queue EXCEPT !["shell"] = Tail(@)]
    /\ SendReply(Head(queue["shell"]), Reply("error", 0, {}))
    /\ UNCHANGED <<request, pc, current, stopped, interpreterVars, history,
                   status, outputs, ghosts>>

\* A message type without underscore: find_last_of returns npos, replace
\* throws out of the callback, and execute_request only logs that.
AbortThrows ==
    /\ pc["shell"] = "abort" /\ queue["shell"] # <<>>
    /\ request[Head(queue["shell"])].kind = "garbled"
    /\ queue' = [queue EXCEPT !["shell"] = Tail(@)]
    /\ Return("shell")
    /\ UNCHANGED <<request, stopped, interpreterVars, history, clientVars, ghosts>>

AbortEndsEarly ==                                                             \* mutant
    /\ pc["shell"] = "abort"
    /\ Goto("shell", "complete")
    /\ UNCHANGED <<request, queue, current, stopped, interpreterVars, history,
                   clientVars, ghosts>>

AbortEndsDispatch ==                                                          \* mutant
    /\ pc["shell"] = "abort" /\ queue["shell"] = <<>>
    /\ Finish("shell")
    /\ UNCHANGED <<request, queue, stopped, interpreterVars, history, clientVars, ghosts>>

AbortEnds ==
    /\ pc["shell"] = "abort" /\ queue["shell"] = <<>>
    /\ Goto("shell", "complete")
    /\ UNCHANGED <<request, queue, current, stopped, interpreterVars, history,
                   clientVars, ghosts>>

\* The last line of the callback.
CompleteExecution ==
    /\ pc["shell"] = "complete"
    /\ PublishStatus(current["shell"], "idle")
    /\ Return("shell")
    /\ UNCHANGED <<request, queue, stopped, interpreterVars, history, replies, outputs, ghosts>>

---------------------------------------------------------------------------
(* The server *)

\* After stop() the thread of a channel leaves its loop between two messages.
ServerExits(c) ==
    /\ stopped /\ pc[c] = "listen"
    /\ Goto(c, "exited")
    /\ UNCHANGED <<request, queue, current, stopped, interpreterVars, history,
                   clientVars, ghosts>>

\* Nothing left to do: clients have nothing to send, and each thread waits on
\* an empty channel with no callback to run, or has left its loop.
Quiescent ==
    /\ \A r \in Requests : request[r] # None
    /\ \A c \in Channels : \/ pc[c] = "exited"
                           \/ ~stopped /\ pc[c] = "listen" /\ queue[c] = <<>> /\ deferred = {}
    /\ UNCHANGED vars

DispatchStep(c) ==
    \/ Dispatch(c) \/ CompleteRequest(c) \/ HistoryRequest(c) \/ CommMessage(c)
    \/ InterruptRequest(c) \/ ShutdownRequest(c) \/ DebugRequest(c)
    \/ UnknownMessage(c) \/ HandlerThrows(c) \/ CloseDispatch(c)

\* The steps of the shell thread once a callback runs.
CallbackStep == StoreInputs \/ AbortRequest \/ AbortThrows \/ AbortEnds \/ CompleteExecution

Next ==
    \/ \E r \in Requests, m \in Messages : Send(r, m)
    \/ \E c \in Channels : DispatchStep(c)
    \/ ExecuteRequest
    \/ \E r \in Requests : InterpreterPublishes(r)
    \/ InterpreterThrows
    \/ InterpreterDefers
    \/ \E r \in Requests, st \in {"ok", "error"} : ReplyCallback(r, st)
    \/ CallbackStep
    \/ \E c \in Channels : ServerExits(c)
    \/ Quiescent

\* Each server thread keeps running, and the interpreter answers every
\* execution it accepted: without a throw, a callback is called in the end.
Fairness ==
    /\ \A c \in Channels : WF_vars(DispatchStep(c))
    /\ WF_vars(ExecuteRequest)
    /\ WF_vars(CallbackStep)
    /\ \A r \in Requests : SF_vars(\E st \in {"ok", "error"} : ReplyCallback(r, st))

Spec == Init /\ [][Next]_vars
FairSpec == Spec /\ Fairness
---------------------------------------------------------------------------
(* Properties *)

HistoryLine == [count : Nat, request : Requests]

\* The type of every variable, and the two facts that the program counter and
\* the request of a thread state about each other.
TypeOK ==
    /\ request \in [Requests -> Messages \cup {None}]
    /\ queue \in [Channels -> Seq(Requests)]
    /\ pc \in [Channels -> {"listen", "handle", "execute", "replied", "abort",
                            "complete", "close", "exited"}]
    /\ current \in [Channels -> Requests \cup {None}]
    /\ \A c \in Channels : current[c] = None <=> pc[c] \in {"listen", "exited"}
    /\ deferred \subseteq Requests
    /\ requestContext \in Requests \cup {None}
    /\ executionCount \in Nat
    /\ captured \in [Requests -> Nat]
    /\ history \in Seq(HistoryLine)
    /\ status \in [Requests -> Seq({"busy", "idle"})]
    /\ replies \in [Requests -> Seq([status : {"ok", "error"}, count : Nat,
                                     lines : SUBSET Requests])]
    /\ outputs \subseteq [type : {"execute_input", "stream", "interrupt", "shutdown"},
                          by : Requests, parent : Requests \cup {None}, count : Nat]
    /\ stopped \in BOOLEAN
    /\ seen \in [Requests -> SUBSET Requests]
    /\ doomed \subseteq Requests

\* A client that shows a cell as running sees it end: once the thread of its
\* channel is back to listening, a request that was declared busy was also
\* declared idle, unless the interpreter still keeps its callback.
BusyGetsIdle ==
    \A r \in Requests : status[r] = <<"busy">> /\ r \notin deferred =>
        current[request[r].channel] = r

\* A client that pairs an execution's input prompt with its reply by number
\* sees the same number in both, however executions overlap.
CountsMatch ==
    \A o \in outputs : \A i \in DOMAIN replies[o.by] :
        o.type = "execute_input" => replies[o.by][i].count = o.count

\* No two history lines have the same number, and a line has the number of the
\* reply of its execution: a client may use the number as a key.
HistoryLinesDistinct ==
    /\ \A i, j \in DOMAIN history : history[i].count = history[j].count => i = j
    /\ \A line \in Range(history) :
          \A i \in DOMAIN replies[line.request] :
              replies[line.request][i].count = line.count

\* When executions do not overlap, the history is in the order of its numbers.
HistoryInOrder ==
    \A i, j \in DOMAIN history : i < j => history[i].count < history[j].count

\* "idle" is a promise: a history request that a client sends, on either
\* channel, after an execution was declared idle lists that execution.
IdleIsInHistory ==
    \A r \in Requests : \A i \in DOMAIN replies[r] :
        IsIdle(r) /\ request[r].kind = "history_request" =>
            \A e \in seen[r] :
                request[e].store /\ ~request[e].silent => e \in replies[r][i].lines

\* stop_on_error: what was queued behind an execution that failed is not run.
DoomedNeverRun == \A r \in doomed : status[r] = <<>>

\* Nobody's request is aborted but for the failure of an execution whose
\* client asked for it.
Aborted(r) == status[r] = <<>> /\ Replied(r)
AbortedForCause ==
    \A r \in Requests : Aborted(r) =>
        \E e \in Requests :
            /\ IsExecute(e) /\ request[e].stop /\ ~request[e].silent
            /\ \E i \in DOMAIN replies[e] : replies[e][i].status = "error"

\* When executions do not overlap, the single context slot is enough: every
\* message that the interpreter publishes has the header of its execution.
OutputsAttributed == \A o \in outputs : o.parent = o.by

\* Each request follows the life that RequestLifecycle allows.
PhaseOf(r) ==
    CASE request[r] = None -> "unsent"
      [] request[r] # None /\ status[r] = <<>> /\ replies[r] = <<>> -> "pending"
      [] request[r] # None /\ status[r] = <<>> /\ Len(replies[r]) = 1 -> "aborted"
      [] request[r] # None /\ status[r] = <<"busy">> /\ replies[r] = <<>> -> "busy"
      [] request[r] # None /\ status[r] = <<"busy">> /\ Len(replies[r]) = 1 -> "replied"
      [] request[r] # None /\ status[r] = <<"busy", "idle">> /\ Len(replies[r]) <= 1 -> "idle"
      [] OTHER -> "broken"
Lifecycle == INSTANCE RequestLifecycle WITH phase <- [r \in Requests |-> PhaseOf(r)]
LifecycleSpec == Lifecycle!Spec

\* Every request is declared idle or aborted in the end, or the kernel stops.
EveryRequestEnds ==
    \A r \in Requests : request[r] # None ~> IsIdle(r) \/ Aborted(r) \/ stopped
===========================================================================
