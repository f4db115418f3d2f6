------------------------------ MODULE Session ------------------------------
(***************************************************************************)
(* The life of a kernel: xkernel builds its parts and introduces them to   *)
(* each other, the two threads of the server call into them, and the parts *)
(* are destroyed in the reverse order of their declaration.  While the     *)
(* threads run, interpreter code on the shell thread asks the client for   *)
(* input (blocking_input_request), code on the control thread has the      *)
(* shell thread do something for it (xcontrol_messenger::send_to_shell),   *)
(* and clients or the owner of the kernel shut it down.                    *)
(*                                                                         *)
(* What dispatch does with the requests is in KernelCore; here a request   *)
(* is a stay in code that may follow every reference between the parts.    *)
(* The server and the author's classes are external: send_stdin blocks     *)
(* until the server has handed one message to the stdin listener, or       *)
(* throws; send_to_shell blocks until the shell thread, between two        *)
(* messages, has called the internal listener; start returns when both     *)
(* threads have left their loops.                                          *)
(***************************************************************************)
EXTENDS Integers, Sequences

CONSTANTS
    MaxPrompts,  \* bound on the prompts of a session
    MayThrow     \* TRUE: builders, configure, prompts and shutdown may throw

ASSUME SessionAssumption == MaxPrompts \in Nat /\ MayThrow \in BOOLEAN

Prompts == 1..MaxPrompts
Channels == {"shell", "control"}
Nobody == 0      \* an input handler slot that holds nothing

VARIABLES
    stage,       \* how far the constructor of xkernel is, then what the owner does
    alive,       \* the members of xkernel that exist
    refs,        \* the references <<from, to>> that were stored; none is reset
    registered,  \* the author registered the interpreter (register_interpreter)
    pc,          \* per channel, where its thread is
    serving,     \* the shell thread runs an internal request
    stopped,     \* p_server->stop() was called
    asked,       \* the number of prompts so far, the last one being the current
    call,        \* per prompt, the function that the author called
    end,         \* per prompt, how that call ended
    answer,      \* per prompt, what the client did with it
    wire,        \* the stdin messages that wait in the server
    slot,        \* m_input_reply_handler: whose local `value` it captures
    value        \* per prompt, the answer in its local `value`, 0 for ""

kernelVars == <<stage, alive, refs, registered>>
promptVars == <<asked, call, end, answer, wire, slot, value>>
vars == <<kernelVars, pc, serving, stopped, promptVars>>

---------------------------------------------------------------------------
(* The parts of a kernel *)

\* The members of xkernel in the order of their declaration.
ContextLast ==                                                                \* mutant
    [interpreter |-> 1, history |-> 2, logger |-> 3, server |-> 4, debugger |-> 5,
     core |-> 6, context |-> 7]
Declared ==
    [context |-> 1, interpreter |-> 2, history |-> 3, logger |-> 4, server |-> 5,
     debugger |-> 6, core |-> 7]
Parts == DOMAIN Declared
Given == {"context", "interpreter", "history", "logger"}
References == (Parts \cup {"kernel"}) \X Parts

\* What each constructor or registration stores.
CoreReferences == {"core"} \X {"server", "interpreter", "history", "logger", "debugger"}
Listeners  == {<<"server", "core">>}
Publishers == {<<"interpreter", "core">>}
Introductions ==
    {<<"debugger", "server">>, <<"interpreter", "server">>, <<"interpreter", "history">>}
Middleware == {<<"server", "context">>, <<"debugger", "context">>}

\* The ones of rs whose ends exist: a kernel may have no debugger.
Existing(rs) == {e \in rs : e[1] \in alive' \cup {"kernel"} /\ e[2] \in alive'}
Store(rs) == refs' = refs \cup Existing(rs)

Init ==
    /\ stage = "server"
    /\ alive = Given
    /\ refs = {"kernel"} \X Given
    /\ registered \in BOOLEAN
    /\ pc = [c \in Channels |-> "off"]
    /\ serving = FALSE /\ stopped = FALSE
    /\ asked = 0
    /\ call = [p \in Prompts |-> "none"]
    /\ end = [p \in Prompts |-> "open"]
    /\ answer = [p \in Prompts |-> "unseen"]
    /\ wire = <<>> /\ slot = Nobody
    /\ value = [p \in Prompts |-> 0]

\* The order of the steps of the constructor, after the members it is given.
Follows ==
    [server |-> "debugger", debugger |-> "core", core |-> "messenger",
     messenger |-> "configure", configure |-> "built"]

BuildStep(s) ==
    /\ stage = s /\ stage' = Follows[s]
    /\ UNCHANGED <<registered, pc, serving, stopped, promptVars>>

BuildServer ==
    /\ BuildStep("server")
    /\ alive' = alive \cup {"server"}
    /\ Store({<<"kernel", "server">>, <<"server", "context">>})

\* The builder may return no debugger, make_null_debugger does.
BuildDebugger ==
    /\ BuildStep("debugger")
    /\ alive' \in {alive, alive \cup {"debugger"}}
    /\ Store({<<"kernel", "debugger">>, <<"debugger", "context">>})

BuildCore ==
    /\ BuildStep("core")
    /\ alive' = alive \cup {"core"}
    /\ Store({<<"kernel", "core">>} \cup CoreReferences \cup Listeners \cup Publishers)

RegisterMessenger ==
    /\ BuildStep("messenger")
    /\ UNCHANGED alive
    /\ Store(Introductions)

Configure ==
    /\ BuildStep("configure")
    /\ UNCHANGED <<alive, refs>>

\* A builder or configure_impl throws: the members that exist are destroyed.
BuildThrows ==
    /\ MayThrow
    /\ stage \in {"server", "debugger", "configure"}
    /\ stage' = "unwind"
    /\ UNCHANGED <<alive, refs, registered, pc, serving, stopped, promptVars>>

Start ==
    /\ stage = "built" /\ stage' = "running"
    /\ pc' = [c \in Channels |-> "listen"]
    /\ UNCHANGED <<alive, refs, registered, serving, stopped, promptVars>>

\* start returns, and the owner of the kernel destroys it.
StartReturns ==
    /\ stage = "running" /\ \A c \in Channels : pc[c] = "exited"
    /\ stage' = "unwind"
    /\ UNCHANGED <<alive, refs, registered, pc, serving, stopped, promptVars>>

\* The member that is destroyed next.
Newest(p) == p \in alive /\ \A q \in alive : Declared[q] <= Declared[p]

Destroy(p) ==
    /\ stage = "unwind" /\ Newest(p)
    /\ alive' = alive \ {p}
    /\ stage' = IF alive' = {} THEN "gone" ELSE stage
    /\ UNCHANGED <<refs, registered, pc, serving, stopped, promptVars>>

---------------------------------------------------------------------------
(* The threads of the server *)

Goto(c, label) == pc' = [pc EXCEPT ![c] = label]

\* A message arrives: dispatch calls a handler, which runs the author's code.
Dispatch(c) ==
    /\ pc[c] = "listen"
    /\ Goto(c, "run")
    /\ UNCHANGED <<kernelVars, serving, stopped, promptVars>>

\* What the end of a stay in the author's code means for the control thread
\* when it was an internal request: send_to_shell returns the reply.
ReplyLost(c) == Goto(c, "listen")                                             \* mutant
ReplyInternal(c) ==
    IF c = "shell" /\ serving
    THEN pc' = [pc EXCEPT ![c] = "listen", !["control"] = "run"]
    ELSE Goto(c, "listen")

StillServing(c) == serving                                                    \* mutant
Serves(c) == serving /\ c # "shell"

Return(c) ==
    /\ pc[c] = "run"
    /\ ReplyInternal(c)
    /\ serving' = Serves(c)
    /\ UNCHANGED <<kernelVars, stopped, promptVars>>

\* shutdown_request: when the interpreter does not agree or throws, or its reply
\* has no status, nothing is stopped.
Shutdown(c) ==
    /\ pc[c] = "run" /\ ~(c = "shell" /\ serving)
    /\ \E agreed \in BOOLEAN : stopped' = (stopped \/ agreed)
    /\ Goto(c, "close")
    /\ UNCHANGED <<kernelVars, serving, promptVars>>

\* The end of dispatch after a shutdown, which publishes the idle status.
CloseJoins(c) ==                                                              \* mutant
    /\ pc[c] = "close"
    /\ stopped => \A d \in Channels \ {c} : pc[d] = "exited"
    /\ Goto(c, "listen")
    /\ UNCHANGED <<kernelVars, serving, stopped, promptVars>>
Close(c) ==
    /\ pc[c] = "close"
    /\ Goto(c, "listen")
    /\ UNCHANGED <<kernelVars, serving, stopped, promptVars>>

\* xkernel::stop, called by the owner from a thread of his own: whatever the
\* interpreter answers, the server is stopped.
StopKernel ==
    /\ stage = "running" /\ ~stopped
    /\ stopped' = TRUE
    /\ UNCHANGED <<kernelVars, pc, serving, promptVars>>

\* A thread of a stopped server leaves its loop between two messages.
Exit(c) ==
    /\ stopped /\ pc[c] = "listen"
    /\ Goto(c, "exited")
    /\ UNCHANGED <<kernelVars, serving, stopped, promptVars>>

\* The debugger, or the interpreter in a request on the control channel.
SendToShell ==
    /\ pc["control"] = "run"
    /\ Goto("control", "internal")
    /\ UNCHANGED <<kernelVars, serving, stopped, promptVars>>

\* The shell thread finds the internal request and calls dispatch_internal.
ServeInternal ==
    /\ pc["shell"] = "listen" /\ pc["control"] = "internal"
    /\ Goto("shell", "run")
    /\ serving' = TRUE
    /\ UNCHANGED <<kernelVars, stopped, promptVars>>

---------------------------------------------------------------------------
(* Prompts, by interpreter code on the shell thread *)

\* The slot after register_input_handler, and what a prompt shows the client.
KeepHandler(p) == IF slot = Nobody THEN p ELSE slot                       \* mutant
NoHandler(p) == slot                                                    \* mutant
RegisterHandler(p) == p
ShowNothing(p) == "unseen"                                                \* mutant
ShowPrompt(p) == "shown"

\* A new prompt begins.  blocking_input_request installs its handler before it
\* asks, code that calls input_request itself has none.
Begin(f) ==
    /\ pc["shell"] = "run" /\ asked < MaxPrompts
    /\ asked' = asked + 1
    /\ call' = [call EXCEPT ![asked'] = f]
    /\ slot' = IF f = "blocking" /\ registered THEN RegisterHandler(asked') ELSE slot

\* The stdin sender reaches the core and the server, which shows the prompt and
\* waits.
Ask(f) ==
    /\ Begin(f)
    /\ f = "blocking" => registered
    /\ answer' = [answer EXCEPT ![asked'] = ShowPrompt(asked')]
    /\ Goto("shell", "waiting")
    /\ UNCHANGED <<kernelVars, serving, stopped, end, wire, value>>

\* get_interpreter returns the mock when none is registered.  The mock has no
\* stdin sender, so that blocking_input_request returns "" at once.
AskMock ==
    /\ Begin("blocking") /\ ~registered
    /\ end' = [end EXCEPT ![asked'] = "returned"]
    /\ UNCHANGED <<kernelVars, pc, serving, stopped, answer, wire, value>>

\* The sender throws before the client sees the prompt; the handler stays.
SendThrows(f) ==
    /\ MayThrow
    /\ Begin(f)
    /\ f = "blocking" => registered
    /\ end' = [end EXCEPT ![asked'] = "threw"]
    /\ UNCHANGED <<kernelVars, pc, serving, stopped, answer, wire, value>>

\* The server throws while it waits, an interrupt for example; the handler stays.
WaitThrows ==
    /\ MayThrow
    /\ pc["shell"] = "waiting"
    /\ end' = [end EXCEPT ![asked] = "threw"]
    /\ Goto("shell", "run")
    /\ UNCHANGED <<kernelVars, serving, stopped, asked, call, answer, wire, slot, value>>

\* The client answers a prompt it was shown, at any time, once.  A bad answer is
\* one for which dispatch_stdin throws and catches, or finds no value.
Answer(p, a) ==
    /\ answer[p] = "shown"
    /\ answer' = [answer EXCEPT ![p] = a]
    /\ wire' = Append(wire, p)
    /\ UNCHANGED <<kernelVars, pc, serving, stopped, asked, call, end, slot, value>>

\* input_reply: the value goes where the handler points, if there is one.
InputReply(p) ==
    IF slot # Nobody /\ answer[p] = "good" THEN value' = [value EXCEPT ![slot] = p]
                                          ELSE UNCHANGED value

\* The server reads one message, whatever prompt it answers, calls
\* dispatch_stdin, and send_stdin returns.
Deliver ==
    /\ pc["shell"] = "waiting" /\ wire # <<>>
    /\ InputReply(Head(wire))
    /\ wire' = Tail(wire)
    /\ Goto("shell", "answered")
    /\ UNCHANGED <<kernelVars, serving, stopped, asked, call, end, answer, slot>>

\* The end of blocking_input_request removes the handler.
RemoveHandler == IF call[asked] = "blocking" THEN Nobody ELSE slot

EndPrompt ==
    /\ pc["shell"] = "answered"
    /\ end' = [end EXCEPT ![asked] = "returned"]
    /\ slot' = RemoveHandler
    /\ Goto("shell", "run")
    /\ UNCHANGED <<kernelVars, serving, stopped, asked, call, answer, wire, value>>

---------------------------------------------------------------------------
\* The control thread waits for a shell thread that has left its loop.
Orphaned == pc["control"] = "internal" /\ pc["shell"] = "exited"

\* The two places where a session may stop for good.
Ended == (stage = "gone" \/ Orphaned) /\ UNCHANGED vars

Construct == BuildServer \/ BuildDebugger \/ BuildCore \/ RegisterMessenger \/ Configure
PromptStep == Deliver \/ EndPrompt

Next ==
    \/ Construct \/ BuildThrows
    \/ Start \/ StartReturns
    \/ \E p \in Parts : Destroy(p)
    \/ \E c \in Channels : Dispatch(c) \/ Return(c) \/ Shutdown(c) \/ Close(c) \/ Exit(c)
    \/ StopKernel
    \/ SendToShell \/ ServeInternal
    \/ \E f \in {"blocking", "direct"} : Ask(f) \/ SendThrows(f)
    \/ AskMock \/ WaitThrows
    \/ \E p \in Prompts, a \in {"good", "bad"} : Answer(p, a)
    \/ PromptStep
    \/ Ended

\* Each thread goes on, the author's code returns although it may prompt or
\* call the shell thread many times before, a thread that keeps coming back to
\* its loop looks at internal requests and at the stop flag, the owner destroys
\* a kernel whose start returned, and the client answers what it is asked.
Fairness ==
    /\ WF_vars(PromptStep)
    /\ \A c \in Channels : SF_vars(Return(c)) /\ WF_vars(Close(c)) /\ SF_vars(Exit(c))
    /\ SF_vars(ServeInternal)
    /\ WF_vars(StartReturns)
    /\ \A p \in Parts : WF_vars(Destroy(p))
    /\ \A p \in Prompts : WF_vars(\E a \in {"good", "bad"} : Answer(p, a))

Spec == Init /\ [][Next]_vars
FairSpec == Spec /\ Fairness
---------------------------------------------------------------------------
(* Properties *)

\* The types, that threads are in the kernel only between start and its return,
\* and that an internal request is served while the control thread waits for it.
TypeOK ==
    /\ stage \in {"built", "running", "unwind", "gone"} \cup DOMAIN Follows
    /\ alive \subseteq Parts
    /\ refs \subseteq References
    /\ {registered, serving, stopped} \subseteq BOOLEAN
    /\ pc \in [Channels -> {"off", "listen", "run", "waiting", "answered", "internal",
                            "close", "exited"}]
    /\ stage # "running" => \A c \in Channels : pc[c] \in {"off", "exited"}
    /\ serving => pc["shell"] \in {"run", "waiting", "answered"} /\ pc["control"] = "internal"
    /\ asked \in 0..MaxPrompts
    /\ call \in [Prompts -> {"none", "blocking", "direct"}]
    /\ end \in [Prompts -> {"open", "returned", "threw"}]
    /\ answer \in [Prompts -> {"unseen", "shown", "good", "bad"}]
    /\ wire \in Seq(Prompts)
    /\ slot \in Prompts \cup {Nobody}
    /\ value \in [Prompts -> Prompts \cup {0}]

\* The references that code may follow now: the builders get the context, the
\* core the server and the interpreter, handlers and configure_impl may follow
\* all there are between the parts, the owner calls start and stop, and a server
\* or a debugger closes what it opened with the context when it is destroyed.
HasDebugger == <<"kernel", "debugger">> \in refs
Wiring ==
    {e \in CoreReferences \cup Listeners \cup Publishers \cup Introductions \cup Middleware :
        "debugger" \in {e[1], e[2]} => HasDebugger}
BuildUses ==
    CASE stage \in {"server", "debugger"} -> {<<"kernel", "context">>}
      [] stage = "core"      -> {"kernel"} \X {"server", "interpreter", "history", "logger"}
      [] stage = "messenger" -> {"kernel"} \X {"server", "interpreter", "history"}
      [] stage = "configure" -> {<<"kernel", "interpreter">>} \cup Wiring
      [] stage = "built"     -> {"kernel"} \X {"core", "server"}
      [] stage = "running"   -> {"kernel"} \X {"interpreter", "server"}
      [] stage = "unwind"    -> {<<p, "context">> : p \in {q \in {"server", "debugger"} : Newest(q)}}
      [] OTHER -> {}
ThreadUses(c) ==
    CASE pc[c] \in {"off", "exited"} -> {}
      [] pc[c] = "listen" -> {<<"server", "context">>}
      [] OTHER -> Wiring

\* Nothing is called through a pointer that was not set yet or whose target was
\* destroyed: not by the author's configure_impl, not by a thread that is still
\* in a handler when the kernel stops, not by destructors, and not after a
\* constructor that threw half way.
CallsAreSound ==
    \A e \in BuildUses \cup UNION {ThreadUses(c) : c \in Channels} :
        e \in refs /\ e[2] \in alive

\* A stdin message is written to the local variable of the
\* blocking_input_request that is on the stack now, and never to that of an
\* earlier one.  The code keeps this promise to those who prompt through it
\* even after a prompt threw; who calls input_request without a handler of his
\* own writes into the frame of the last prompt that threw.
Waiting(p) == pc["shell"] = "waiting" /\ asked = p
HandlersAlive ==
    [][\A p \in Prompts : value'[p] # value[p] =>
          Waiting(p) \/ (call[asked] = "direct" /\ end[p] = "threw")]_vars

\* blocking_input_request returns the answer to its own prompt, or "" when that
\* answer was bad or no interpreter is registered, as long as no earlier prompt
\* was shown to the client and then abandoned by an exception: nothing relates
\* a stdin message to its prompt but the order.
Abandoned(p) == end[p] = "threw" /\ answer[p] # "unseen"
Clean(p) == \A q \in Prompts : q < p => ~Abandoned(q)
OwnAnswer ==
    \A p \in Prompts : call[p] = "blocking" /\ end[p] = "returned" /\ Clean(p) =>
        value[p] = IF answer[p] = "good" THEN p ELSE 0

\* No prompt waits for ever: neither one that was answered badly, nor one that
\* has no handler, nor one behind others that were abandoned.
PromptsEnd == \A p \in Prompts : Waiting(p) ~> end[p] # "open"

\* The control thread does not wait for ever for the shell thread, whatever
\* that one runs or asks, unless the shell thread left its loop for a shutdown.
InternalAnswered ==
    pc["control"] = "internal" ~> pc["control"] # "internal" \/ pc["shell"] = "exited"

\* A kernel that was stopped, by a request on either channel or by its owner,
\* while it was prompting, serving or being shut down a second time, ends: start
\* returns and all parts are destroyed.  The exception is the control thread that
\* waits for a shell thread that has left.
KernelEnds == stopped ~> stage = "gone" \/ Orphaned
===========================================================================
