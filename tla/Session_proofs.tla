--------------------------- MODULE Session_proofs ---------------------------
(***************************************************************************)
(* Proofs about Session, for sessions with any number of prompts: nothing  *)
(* is called through a pointer that is not there yet or not there any      *)
(* more, a stdin message never reaches the frame of a prompt that is over, *)
(* and a prompt gets the answer to it and no other.                        *)
(***************************************************************************)
EXTENDS Session, TLAPS

---------------------------------------------------------------------------
(* Types *)

KernelTypes ==
    /\ stage \in {"built", "running", "unwind", "gone"} \cup DOMAIN Follows
    /\ alive \subseteq Parts
    /\ refs \subseteq References
    /\ registered \in BOOLEAN

Labels == {"off", "listen", "run", "waiting", "answered", "internal", "close", "exited"}
ThreadTypes ==
    /\ pc \in [Channels -> Labels]
    /\ serving \in BOOLEAN /\ stopped \in BOOLEAN
    /\ stage # "running" => \A c \in Channels : pc[c] \in {"off", "exited"}
    /\ serving => pc["shell"] \in {"run", "waiting", "answered"} /\ pc["control"] = "internal"

PromptTypes ==
    /\ asked \in 0..MaxPrompts
    /\ call \in [Prompts -> {"none", "blocking", "direct"}]
    /\ end \in [Prompts -> {"open", "returned", "threw"}]
    /\ answer \in [Prompts -> {"unseen", "shown", "good", "bad"}]
    /\ wire \in Seq(Prompts)
    /\ slot \in Prompts \cup {Nobody}
    /\ value \in [Prompts -> Prompts \cup {0}]

LEMMA TypeParts == TypeOK <=> KernelTypes /\ ThreadTypes /\ PromptTypes
BY DEF TypeOK, KernelTypes, ThreadTypes, PromptTypes, Labels

\* The steps of the constructor, the owner and the destructors.
KernelStep ==
    Construct \/ BuildThrows \/ Start \/ StartReturns \/ \E p \in Parts : Destroy(p)

\* The steps of the threads that neither begin nor end a prompt.
ThreadStep ==
    \/ \E c \in Channels : Dispatch(c) \/ Return(c) \/ Shutdown(c) \/ Close(c) \/ Exit(c)
    \/ StopKernel \/ SendToShell \/ ServeInternal

\* The steps of prompts.
AskStep == (\E f \in {"blocking", "direct"} : Ask(f) \/ SendThrows(f)) \/ AskMock
StdinStep ==
    WaitThrows \/ Deliver \/ EndPrompt \/ \E p \in Prompts, a \in {"good", "bad"} : Answer(p, a)

LEMMA StepCases == [Next]_vars => KernelStep \/ ThreadStep \/ AskStep \/ StdinStep \/ UNCHANGED vars
BY DEF Next, KernelStep, ThreadStep, AskStep, StdinStep, PromptStep, Ended

\* What each group of steps leaves alone.
LEMMA Frames ==
    /\ KernelStep => UNCHANGED <<registered, serving, stopped, promptVars>>
    /\ ThreadStep => UNCHANGED <<kernelVars, promptVars>>
    /\ AskStep \/ StdinStep => UNCHANGED <<kernelVars, serving, stopped>>
<1>1. KernelStep => UNCHANGED <<registered, serving, stopped, promptVars>>
  BY DEF KernelStep, Construct, BuildStep, BuildServer, BuildDebugger, BuildCore,
         RegisterMessenger, Configure, BuildThrows, Start, StartReturns, Destroy
<1>2. ThreadStep => UNCHANGED <<kernelVars, promptVars>>
  BY DEF ThreadStep, Dispatch, Return, Shutdown, Close, Exit, StopKernel, SendToShell,
         ServeInternal
<1>3. AskStep \/ StdinStep => UNCHANGED <<kernelVars, serving, stopped>>
  BY DEF AskStep, StdinStep, Ask, SendThrows, AskMock, WaitThrows, Deliver, EndPrompt, Answer
<1> QED
  BY <1>1, <1>2, <1>3

LEMMA KernelTypesStep ==
    ASSUME KernelTypes, KernelStep
    PROVE  KernelTypes'
<1>1. refs' \subseteq References
  <2>1. ASSUME NEW rs \in SUBSET References, Store(rs)
        PROVE  refs' \subseteq References
    BY <2>1 DEF Store, Existing, KernelTypes
  <2>2. CASE BuildServer
    <3>1. {<<"kernel", "server">>, <<"server", "context">>} \subseteq References
      BY DEF References, Parts, Declared
    <3> QED
      BY <2>1, <2>2, <3>1 DEF BuildServer
  <2>3. CASE BuildDebugger
    <3>1. {<<"kernel", "debugger">>, <<"debugger", "context">>} \subseteq References
      BY DEF References, Parts, Declared
    <3> QED
      BY <2>1, <2>3, <3>1 DEF BuildDebugger
  <2>4. CASE BuildCore
    <3>1. {<<"kernel", "core">>} \cup CoreReferences \cup Listeners \cup Publishers \subseteq References
      BY DEF References, Parts, Declared, CoreReferences, Listeners, Publishers
    <3> QED
      BY <2>1, <2>4, <3>1 DEF BuildCore
  <2>5. CASE RegisterMessenger
    <3>1. Introductions \subseteq References
      BY DEF References, Parts, Declared, Introductions
    <3> QED
      BY <2>1, <2>5, <3>1 DEF RegisterMessenger
  <2>6. CASE UNCHANGED refs
    BY <2>6 DEF KernelTypes
  <2> QED
    BY <2>2, <2>3, <2>4, <2>5, <2>6 DEF KernelStep, Construct, Configure, BuildThrows, Start,
       StartReturns, Destroy
<1>2. alive' \subseteq Parts /\ registered' \in BOOLEAN
  BY DEF KernelStep, Construct, BuildStep, BuildServer, BuildDebugger, BuildCore,
     RegisterMessenger, Configure, BuildThrows, Start, StartReturns, Destroy,
     KernelTypes, Parts, Declared
<1>3. stage' \in {"built", "running", "unwind", "gone"} \cup DOMAIN Follows
  BY DEF KernelStep, Construct, BuildStep, BuildServer, BuildDebugger, BuildCore,
     RegisterMessenger, Configure, BuildThrows, Start, StartReturns, Destroy,
     KernelTypes, Follows
<1> QED
  BY <1>1, <1>2, <1>3 DEF KernelTypes

LEMMA ThreadTypesStep ==
    ASSUME ThreadTypes, ThreadStep
    PROVE  ThreadTypes'
<1>0. UNCHANGED stage
  BY Frames DEF kernelVars
<1> USE <1>0 DEF ThreadTypes, Channels, Labels, Goto
<1>1. ASSUME NEW c \in Channels, Dispatch(c) \/ Close(c) \/ Exit(c) \/ Shutdown(c)
      PROVE  ThreadTypes'
  BY <1>1 DEF Dispatch, Close, Exit, Shutdown
<1>2. ASSUME NEW c \in Channels, Return(c)
      PROVE  ThreadTypes'
  <2>1. CASE c = "shell" /\ serving
    BY <1>2, <2>1 DEF Return, ReplyInternal, Serves
  <2>2. CASE c = "shell" /\ ~serving
    BY <1>2, <2>2 DEF Return, ReplyInternal, Serves
  <2>3. CASE c = "control"
    <3>1. serving = FALSE /\ serving' = FALSE
      BY <1>2, <2>3 DEF Return, Serves
    <3> QED
      BY <1>2, <2>3, <3>1 DEF Return, ReplyInternal
  <2> QED
    BY <2>1, <2>2, <2>3
<1>3. CASE StopKernel
  BY <1>3 DEF StopKernel
<1>4. CASE SendToShell
  <2>1. serving = FALSE /\ serving' = FALSE
    BY <1>4 DEF SendToShell
  <2> QED
    BY <1>4, <2>1 DEF SendToShell
<1>5. CASE ServeInternal
  BY <1>5 DEF ServeInternal
<1> QED
  BY <1>1, <1>2, <1>3, <1>4, <1>5 DEF ThreadStep

LEMMA StartTypes ==
    ASSUME ThreadTypes, KernelStep
    PROVE  ThreadTypes'
<1>1. CASE Start
  BY <1>1 DEF Start, ThreadTypes, Channels, Labels
<1> QED
  BY <1>1 DEF KernelStep, Construct, BuildStep, BuildServer, BuildDebugger, BuildCore,
     RegisterMessenger, Configure, BuildThrows, StartReturns, Destroy, ThreadTypes

\* A new prompt has a number that no prompt had.
LEMMA NewPrompt ==
    ASSUME PromptTypes, NEW f \in {"blocking", "direct"}, Begin(f)
    PROVE  /\ asked' = asked + 1 /\ asked' \in Prompts /\ asked \in Nat
           /\ call' \in [Prompts -> {"none", "blocking", "direct"}] /\ call'[asked'] = f
           /\ \A p \in Prompts \ {asked'} : call'[p] = call[p]
           /\ slot' \in Prompts \cup {Nobody}
           /\ slot' = (IF f = "blocking" /\ registered THEN asked' ELSE slot)
BY SessionAssumption DEF PromptTypes, Begin, Prompts, RegisterHandler

LEMMA PromptTypesStep ==
    ASSUME PromptTypes, ThreadTypes, AskStep \/ StdinStep
    PROVE  PromptTypes' /\ ThreadTypes'
<1>0. UNCHANGED stage
  BY Frames DEF kernelVars
<1> USE SessionAssumption, <1>0 DEF ThreadTypes, Channels, Labels, Goto
<1>1. ASSUME NEW f \in {"blocking", "direct"}, Ask(f)
      PROVE  PromptTypes' /\ ThreadTypes'
  <2>1. asked' \in Prompts /\ call' \in [Prompts -> {"none", "blocking", "direct"}]
        /\ slot' \in Prompts \cup {Nobody} /\ pc["shell"] = "run"
    BY <1>1, NewPrompt DEF Ask, Begin
  <2> QED
    BY <1>1, <2>1 DEF Ask, ShowPrompt, PromptTypes, Prompts
<1>2. ASSUME NEW f \in {"blocking", "direct"}, SendThrows(f)
      PROVE  PromptTypes' /\ ThreadTypes'
  <2>1. asked' \in Prompts /\ call' \in [Prompts -> {"none", "blocking", "direct"}]
        /\ slot' \in Prompts \cup {Nobody}
    BY <1>2, NewPrompt DEF SendThrows
  <2> QED
    BY <1>2, <2>1 DEF SendThrows, PromptTypes, Prompts
<1>3. CASE AskMock
  <2>1. asked' \in Prompts /\ call' \in [Prompts -> {"none", "blocking", "direct"}]
        /\ slot' \in Prompts \cup {Nobody}
    BY <1>3, NewPrompt DEF AskMock
  <2> QED
    BY <1>3, <2>1 DEF AskMock, PromptTypes, Prompts
<1>4. CASE WaitThrows
  BY <1>4 DEF WaitThrows, PromptTypes
<1>5. ASSUME NEW p \in Prompts, NEW a \in {"good", "bad"}, Answer(p, a)
      PROVE  PromptTypes' /\ ThreadTypes'
  BY <1>5 DEF Answer, PromptTypes
<1>6. CASE Deliver
  <2>1. Head(wire) \in Prompts /\ Tail(wire) \in Seq(Prompts)
    BY <1>6 DEF Deliver, PromptTypes
  <2> QED
    BY <1>6, <2>1 DEF Deliver, InputReply, PromptTypes
<1>7. CASE EndPrompt
  BY <1>7 DEF EndPrompt, RemoveHandler, PromptTypes
<1> QED
  BY <1>1, <1>2, <1>3, <1>4, <1>5, <1>6, <1>7 DEF AskStep, StdinStep

LEMMA TypeStep ==
    ASSUME TypeOK, [Next]_vars
    PROVE  TypeOK'
<1>1. KernelTypes /\ ThreadTypes /\ PromptTypes
  BY TypeParts
<1>2. CASE KernelStep
  <2>1. PromptTypes'
    BY <1>1, <1>2, Frames DEF PromptTypes, promptVars
  <2> QED
    BY <1>1, <1>2, <2>1, KernelTypesStep, StartTypes, TypeParts, PTL
<1>3. CASE ThreadStep
  <2>1. PromptTypes' /\ KernelTypes'
    BY <1>1, <1>3, Frames DEF PromptTypes, promptVars, KernelTypes, kernelVars
  <2> QED
    BY <1>1, <1>3, <2>1, ThreadTypesStep, TypeParts, PTL
<1>4. CASE AskStep \/ StdinStep
  <2>1. KernelTypes'
    BY <1>1, <1>4, Frames DEF KernelTypes, kernelVars
  <2> QED
    BY <1>1, <1>4, <2>1, PromptTypesStep, TypeParts, PTL
<1>5. CASE UNCHANGED vars
  BY <1>5 DEF TypeOK, vars, kernelVars, promptVars
<1> QED
  BY <1>2, <1>3, <1>4, <1>5, StepCases

LEMMA TypeInit == Init => TypeOK
<1> SUFFICES ASSUME Init PROVE TypeOK
  OBVIOUS
<1>1. KernelTypes
  BY DEF Init, KernelTypes, Given, Parts, Declared, References, Follows
<1>2. ThreadTypes
  BY DEF Init, ThreadTypes, Channels, Labels
<1>3. PromptTypes
  BY SessionAssumption DEF Init, PromptTypes, Prompts, Nobody
<1> QED
  BY <1>1, <1>2, <1>3, TypeParts

\* Every variable keeps its type, and an internal request is only served while
\* the control thread waits for it.
THEOREM TypeCorrect == Spec => []TypeOK
<1>1. TypeOK /\ [Next]_vars => TypeOK'
  BY TypeStep
<1> QED
  BY <1>1, TypeInit, PTL DEF Spec
---------------------------------------------------------------------------
(* The input handler *)

AtPrompt == pc["shell"] \in {"waiting", "answered"}

\* The handler slot belongs to the prompt on the stack, or is left over from one
\* that threw.
SlotInv ==
    /\ \A p \in Prompts : p > asked => call[p] = "none" /\ end[p] = "open"
    /\ AtPrompt => asked > 0 /\ call[asked] # "none" /\ end[asked] = "open"
    /\ AtPrompt /\ call[asked] = "blocking" => slot = asked
    /\ slot # Nobody =>
          \/ end[slot] = "threw"
          \/ AtPrompt /\ slot = asked /\ call[asked] = "blocking"

\* What is not a step of a prompt does not move a thread into, within or out of one.
LEMMA OtherSteps ==
    ASSUME TypeOK, KernelStep \/ ThreadStep \/ UNCHANGED vars
    PROVE  /\ UNCHANGED promptVars
           /\ AtPrompt' <=> AtPrompt
           /\ pc'["shell"] = "waiting" <=> pc["shell"] = "waiting"
           /\ pc'["shell"] = "answered" <=> pc["shell"] = "answered"
<1> USE TypeParts DEF Channels, Labels
<1>1. UNCHANGED promptVars
  BY Frames DEF vars
<1>2. CASE KernelStep
  <2>1. CASE Start
    <3>1. pc["shell"] \in {"off", "exited"} /\ pc'["shell"] = "listen"
      BY <2>1 DEF Start, ThreadTypes
    <3> QED
      BY <1>1, <3>1 DEF AtPrompt
  <2>2. CASE UNCHANGED pc
    BY <1>1, <2>2 DEF AtPrompt
  <2> QED
    BY <1>2, <2>1, <2>2 DEF KernelStep, Construct, BuildStep, BuildServer, BuildDebugger,
       BuildCore, RegisterMessenger, Configure, BuildThrows, StartReturns, Destroy
<1>3. CASE ThreadStep
  <2>1. \/ pc'["shell"] = pc["shell"]
        \/ pc["shell"] \notin {"waiting", "answered"} /\ pc'["shell"] \notin {"waiting", "answered"}
    <3>1. ASSUME NEW c \in Channels, Dispatch(c) \/ Shutdown(c) \/ Close(c) \/ Exit(c)
          PROVE  <2>1!1 \/ <2>1!2
      BY <3>1 DEF ThreadTypes, Dispatch, Shutdown, Close, Exit, Goto
    <3>2. ASSUME NEW c \in Channels, Return(c)
          PROVE  <2>1!1 \/ <2>1!2
      BY <3>2 DEF ThreadTypes, Return, ReplyInternal, Goto
    <3>3. CASE StopKernel \/ SendToShell \/ ServeInternal
      BY <3>3 DEF ThreadTypes, StopKernel, SendToShell, ServeInternal, Goto
    <3> QED
      BY <1>3, <3>1, <3>2, <3>3 DEF ThreadStep
  <2> QED
    BY <1>1, <2>1 DEF AtPrompt
<1>4. CASE UNCHANGED vars
  BY <1>1, <1>4 DEF vars, AtPrompt
<1> QED
  BY <1>2, <1>3, <1>4

\* A prompt that begins finds no other on the stack.
LEMMA SlotAfterAsk ==
    ASSUME TypeOK, SlotInv, AskStep
    PROVE  SlotInv'
<1> USE TypeParts, SessionAssumption DEF Channels
<1>1. ~AtPrompt
  BY DEF AskStep, Ask, SendThrows, AskMock, Begin, AtPrompt
<1>2. slot # Nobody => slot \in Prompts /\ end[slot] = "threw" /\ slot <= asked
  BY <1>1 DEF SlotInv, PromptTypes, Prompts
<1>3. ASSUME NEW f \in {"blocking", "direct"}, Ask(f)
      PROVE  SlotInv'
  <2>1. /\ asked' = asked + 1 /\ asked' \in Prompts /\ asked \in Nat
        /\ call'[asked'] = f /\ \A p \in Prompts \ {asked'} : call'[p] = call[p]
        /\ slot' = (IF f = "blocking" /\ registered THEN asked' ELSE slot)
    BY <1>3, NewPrompt DEF Ask
  <2>2. end' = end /\ pc'["shell"] = "waiting" /\ (f = "blocking" => registered)
    BY <1>3 DEF Ask, Goto, ThreadTypes
  <2>3. end[asked'] = "open" /\ \A p \in Prompts : p > asked' => call[p] = "none" /\ end[p] = "open"
    BY <2>1 DEF SlotInv, PromptTypes, Prompts
  <2>4. CASE f = "blocking"
    <3>1. slot' = asked'
      BY <2>1, <2>2, <2>4
    <3> QED
      BY <2>1, <2>2, <2>3, <2>4, <3>1 DEF SlotInv, AtPrompt, Prompts
  <2>5. CASE f = "direct"
    <3>1. slot' = slot
      BY <2>1, <2>5
    <3> QED
      BY <1>2, <2>1, <2>2, <2>3, <2>5, <3>1 DEF SlotInv, AtPrompt, Prompts
  <2> QED
    BY <2>4, <2>5
<1>4. ASSUME NEW f \in {"blocking", "direct"}, NEW e \in {"threw", "returned"}, Begin(f),
             end' = [end EXCEPT ![asked'] = e], UNCHANGED pc,
             f = "blocking" /\ registered => e = "threw"
      PROVE  SlotInv'
  <2>1. /\ asked' = asked + 1 /\ asked' \in Prompts /\ asked \in Nat
        /\ \A p \in Prompts \ {asked'} : call'[p] = call[p]
        /\ slot' = (IF f = "blocking" /\ registered THEN asked' ELSE slot)
    BY <1>4, NewPrompt
  <2>2. end'[asked'] = e /\ \A p \in Prompts \ {asked'} : end'[p] = end[p]
    BY <1>4, <2>1 DEF PromptTypes
  <2>3. \A p \in Prompts : p > asked' => call'[p] = "none" /\ end'[p] = "open"
    BY <2>1, <2>2 DEF SlotInv, Prompts
  <2>4. slot' # Nobody => end'[slot'] = "threw"
    <3>1. CASE f = "blocking" /\ registered
      BY <1>4, <2>1, <2>2, <3>1
    <3>2. CASE ~(f = "blocking" /\ registered)
      <4>1. slot' = slot
        BY <2>1, <3>2
      <4>2. slot # Nobody => slot # asked'
        BY <1>2, <2>1 DEF Prompts
      <4> QED
        BY <1>2, <2>2, <4>1, <4>2
    <3> QED
      BY <3>1, <3>2
  <2> QED
    BY <1>1, <1>4, <2>3, <2>4 DEF SlotInv, AtPrompt
<1> QED
  BY <1>3, <1>4 DEF AskStep, SendThrows, AskMock

LEMMA SlotAfterStdin ==
    ASSUME TypeOK, SlotInv, StdinStep
    PROVE  SlotInv'
<1> USE TypeParts, SessionAssumption DEF Channels, Goto
<1>1. CASE WaitThrows
  <2>1. /\ asked' = asked /\ call' = call /\ slot' = slot
        /\ end' = [end EXCEPT ![asked] = "threw"]
        /\ pc["shell"] = "waiting" /\ pc'["shell"] = "run"
    BY <1>1 DEF WaitThrows, ThreadTypes
  <2>2. asked \in Prompts
    BY <2>1 DEF SlotInv, AtPrompt, PromptTypes, Prompts
  <2>3. end'[asked] = "threw" /\ \A p \in Prompts \ {asked} : end'[p] = end[p]
    BY <2>1, <2>2 DEF PromptTypes
  <2> QED
    BY <2>1, <2>2, <2>3 DEF SlotInv, AtPrompt, PromptTypes, Prompts
<1>2. CASE EndPrompt
  <2>1. /\ asked' = asked /\ call' = call /\ slot' = RemoveHandler
        /\ end' = [end EXCEPT ![asked] = "returned"]
        /\ pc["shell"] = "answered" /\ pc'["shell"] = "run"
    BY <1>2 DEF EndPrompt, ThreadTypes
  <2>2. asked \in Prompts /\ call[asked] \in {"blocking", "direct"} /\ end[asked] = "open"
    BY <2>1 DEF SlotInv, AtPrompt, PromptTypes, Prompts
  <2>3. \A p \in Prompts \ {asked} : end'[p] = end[p]
    BY <2>1, <2>2 DEF PromptTypes
  <2>4. slot' # Nobody => slot' \in Prompts \ {asked} /\ end[slot'] = "threw"
    BY <2>1, <2>2 DEF RemoveHandler, SlotInv, PromptTypes
  <2>5. \A p \in Prompts : p > asked => call[p] = "none" /\ end'[p] = "open"
    BY <2>2, <2>3 DEF SlotInv, Prompts
  <2> QED
    BY <2>1, <2>3, <2>4, <2>5 DEF SlotInv, AtPrompt
<1>3. CASE Deliver
  BY <1>3 DEF Deliver, SlotInv, AtPrompt, ThreadTypes
<1>4. ASSUME NEW p \in Prompts, NEW a \in {"good", "bad"}, Answer(p, a)
      PROVE  SlotInv'
  BY <1>4 DEF Answer, SlotInv, AtPrompt
<1> QED
  BY <1>1, <1>2, <1>3, <1>4 DEF StdinStep

LEMMA SlotStep ==
    ASSUME TypeOK, SlotInv, [Next]_vars
    PROVE  SlotInv'
<1>1. CASE KernelStep \/ ThreadStep \/ UNCHANGED vars
  BY <1>1, OtherSteps DEF SlotInv, promptVars
<1> QED
  BY <1>1, StepCases, SlotAfterAsk, SlotAfterStdin

LEMMA SlotInit == Init => SlotInv
BY DEF Init, SlotInv, AtPrompt, Channels, Prompts

\* Only a delivery writes a value, and to the prompt that the slot names.
LEMMA Writes ==
    ASSUME TypeOK, SlotInv, [Next]_vars, NEW p \in Prompts, value'[p] # value[p]
    PROVE  /\ Deliver /\ p = slot /\ value'[p] = Head(wire)
           /\ Waiting(p) \/ (call[asked] = "direct" /\ end[p] = "threw")
<1> USE TypeParts
<1>1. Deliver
  <2>1. value' # value
    OBVIOUS
  <2>2. ~(KernelStep \/ ThreadStep \/ UNCHANGED vars)
    BY <2>1, OtherSteps DEF promptVars
  <2>3. ~AskStep
    BY <2>1 DEF AskStep, Ask, SendThrows, AskMock
  <2> QED
    BY <2>1, <2>2, <2>3, StepCases DEF StdinStep, WaitThrows, EndPrompt, Answer
<1>2. p = slot /\ value'[p] = Head(wire)
  BY <1>1 DEF Deliver, InputReply, PromptTypes
<1>3. AtPrompt /\ pc["shell"] = "waiting" /\ p # Nobody
  BY <1>1 DEF Deliver, AtPrompt, Prompts, Nobody
<1>4. asked \in Prompts /\ call[asked] \in {"blocking", "direct"}
  BY <1>3 DEF SlotInv, PromptTypes, Prompts
<1> QED
  BY <1>1, <1>2, <1>3, <1>4 DEF SlotInv, Waiting

\* A stdin message is written to the frame of the prompt that waits for it, in
\* sessions of any length and whatever threw before; the one exception is a bare
\* input_request after a prompt that threw.
THEOREM HandlersStayAlive == Spec => HandlersAlive
<1>1. TypeOK /\ SlotInv /\ [Next]_vars => SlotInv'
  BY SlotStep
<1>2. TypeOK /\ SlotInv /\ [Next]_vars =>
        [\A p \in Prompts : value'[p] # value[p] =>
            Waiting(p) \/ (call[asked] = "direct" /\ end[p] = "threw")]_vars
  BY Writes
<1> QED
  BY <1>1, <1>2, SlotInit, TypeCorrect, PTL DEF Spec, HandlersAlive
---------------------------------------------------------------------------
(* Answers *)

\* As long as no prompt was abandoned, the server holds the answer to the prompt
\* on the stack or nothing, and the client owes no other.
WireInv ==
    /\ \A p \in Prompts : p > asked => answer[p] = "unseen" /\ value[p] = 0
    /\ \A i \in 1..Len(wire) : wire[i] <= asked /\ answer[wire[i]] \in {"good", "bad"}
    /\ \A i, j \in 1..Len(wire) : wire[i] = wire[j] => i = j
    /\ AtPrompt => answer[asked] # "unseen"
WaitingInv ==
    pc["shell"] = "waiting" /\ Clean(asked) =>
        /\ value[asked] = 0
        /\ \A i \in 1..Len(wire) : wire[i] = asked
        /\ \A p \in Prompts : p < asked => answer[p] # "shown"
SettledInv ==
    pc["shell"] # "waiting" /\ Clean(asked + 1) =>
        wire = <<>> /\ \A p \in Prompts : answer[p] # "shown"
AnsweredInv ==
    pc["shell"] = "answered" /\ Clean(asked) /\ call[asked] = "blocking" =>
        value[asked] = IF answer[asked] = "good" THEN asked ELSE 0
ReturnedInv ==
    \A p \in Prompts : end[p] = "returned" /\ Clean(p) => answer[p] # "shown"

AnswerInv == WireInv /\ WaitingInv /\ SettledInv /\ AnsweredInv /\ ReturnedInv /\ OwnAnswer

\* A new prompt leaves what belongs to others alone.
LEMMA AskEffect ==
    ASSUME TypeOK, SlotInv, AskStep
    PROVE  /\ asked' = asked + 1 /\ asked' \in Prompts /\ asked \in Nat
           /\ end[asked'] = "open" /\ UNCHANGED <<wire, value>>
           /\ \A p \in Prompts \ {asked'} :
                 call'[p] = call[p] /\ end'[p] = end[p] /\ answer'[p] = answer[p]
           /\ pc["shell"] = "run"
           /\ \/ /\ pc'["shell"] = "waiting" /\ answer'[asked'] = "shown"
                 /\ end'[asked'] = "open"
              \/ /\ pc'["shell"] = "run" /\ UNCHANGED answer
<1> USE TypeParts, SessionAssumption
<1>1. PICK f \in {"blocking", "direct"} :
         Begin(f) /\ (Ask(f) \/ SendThrows(f) \/ AskMock)
  <2>1. CASE AskMock
    <3>1. "blocking" \in {"blocking", "direct"} /\ Begin("blocking")
      BY <2>1 DEF AskMock
    <3> QED
      BY <2>1, <3>1
  <2>2. CASE \E f \in {"blocking", "direct"} : Ask(f) \/ SendThrows(f)
    BY <2>2 DEF Ask, SendThrows
  <2> QED
    BY <2>1, <2>2 DEF AskStep
<1>2. /\ asked' = asked + 1 /\ asked' \in Prompts /\ asked \in Nat
      /\ \A p \in Prompts \ {asked'} : call'[p] = call[p]
  BY <1>1, NewPrompt
<1>3. end[asked'] = "open" /\ pc["shell"] = "run"
  BY <1>1, <1>2 DEF SlotInv, Begin
<1>4. CASE Ask(f)
  BY <1>2, <1>3, <1>4 DEF Ask, ShowPrompt, Goto, PromptTypes, ThreadTypes, Channels
<1>5. CASE SendThrows(f) \/ AskMock
  BY <1>2, <1>3, <1>5 DEF SendThrows, AskMock, PromptTypes
<1> QED
  BY <1>1, <1>4, <1>5

LEMMA AtPromptFacts ==
    ASSUME TypeOK, SlotInv, AtPrompt
    PROVE  asked \in Prompts /\ end[asked] = "open" /\ call[asked] \in {"blocking", "direct"}
BY TypeParts DEF SlotInv, PromptTypes, Prompts

\* What a step of a prompt on the stack does to its end.
LEMMA EndEffect ==
    ASSUME TypeOK, SlotInv, StdinStep
    PROVE  /\ UNCHANGED <<asked, call>>
           /\ \A p \in Prompts : end'[p] = end[p] \/ (end[p] = "open" /\ p = asked)
           /\ \A p \in Prompts : answer'[p] = answer[p] \/ answer[p] = "shown"
           /\ \A p \in Prompts : answer'[p] = "unseen" <=> answer[p] = "unseen"
<1> USE TypeParts
<1>1. CASE WaitThrows \/ EndPrompt
  <2>1. AtPrompt
    BY <1>1 DEF WaitThrows, EndPrompt, AtPrompt
  <2> QED
    BY <1>1, <2>1, AtPromptFacts DEF WaitThrows, EndPrompt, PromptTypes
<1>2. CASE Deliver
  BY <1>2 DEF Deliver
<1>3. ASSUME NEW p \in Prompts, NEW a \in {"good", "bad"}, Answer(p, a)
      PROVE  /\ UNCHANGED <<asked, call, end>>
             /\ answer[p] = "shown" /\ answer'[p] = a
             /\ \A q \in Prompts \ {p} : answer'[q] = answer[q]
  BY <1>3 DEF Answer, PromptTypes
<1> QED
  BY <1>1, <1>2, <1>3 DEF StdinStep

\* A prompt that was abandoned stays abandoned.
LEMMA AbandonedStays ==
    ASSUME TypeOK, SlotInv, [Next]_vars, NEW q \in Prompts, Abandoned(q)
    PROVE  Abandoned(q)'
<1>1. CASE KernelStep \/ ThreadStep \/ UNCHANGED vars
  BY <1>1, OtherSteps DEF Abandoned, promptVars
<1>2. CASE AskStep
  <2>1. q # asked'
    BY <1>2, AskEffect DEF Abandoned
  <2> QED
    BY <1>2, <2>1, AskEffect DEF Abandoned
<1>3. CASE StdinStep
  BY <1>3, EndEffect DEF Abandoned
<1> QED
  BY <1>1, <1>2, <1>3, StepCases

\* Among the prompts before n and the n-th itself.
LEMMA CleanNext ==
    ASSUME NEW n \in Prompts
    PROVE  Clean(n + 1) <=> Clean(n) /\ ~Abandoned(n)
BY SessionAssumption DEF Clean, Prompts

LEMMA AnswerAfterOthers ==
    ASSUME TypeOK, AnswerInv, KernelStep \/ ThreadStep \/ UNCHANGED vars
    PROVE  AnswerInv'
BY OtherSteps DEF AnswerInv, WireInv, WaitingInv, SettledInv, AnsweredInv, ReturnedInv,
   OwnAnswer, Clean, Abandoned, promptVars

LEMMA AnswerAfterAsk ==
    ASSUME TypeOK, SlotInv, AnswerInv, AskStep, [Next]_vars
    PROVE  AnswerInv'
<1> USE SessionAssumption, AskEffect
<1>0. PromptTypes /\ asked + 1 \in Nat
  BY TypeParts
<1>1. Clean(asked)' => wire = <<>> /\ \A p \in Prompts : answer[p] # "shown"
  <2>1. Clean(asked)' => Clean(asked + 1)
    BY AbandonedStays DEF Clean
  <2> QED
    BY <2>1 DEF AnswerInv, SettledInv
<1>2. \A i \in 1..Len(wire) : wire[i] \in Prompts \ {asked'} /\ wire[i] <= asked
  BY <1>0 DEF AnswerInv, WireInv, PromptTypes
<1>3. WireInv'
  <2>1. \A p \in Prompts : p > asked' => answer'[p] = "unseen" /\ value'[p] = 0
    BY DEF AnswerInv, WireInv, Prompts
  <2>2. \A i \in 1..Len(wire) : wire[i] <= asked' /\ answer'[wire[i]] \in {"good", "bad"}
    BY <1>2 DEF AnswerInv, WireInv, Prompts
  <2> QED
    BY <2>1, <2>2 DEF AnswerInv, WireInv, AtPrompt
<1>4. WaitingInv'
  <2>1. value[asked'] = 0
    BY DEF AnswerInv, WireInv
  <2> QED
    BY <1>1, <2>1 DEF WaitingInv, Prompts
<1>5. SettledInv'
  <2>1. Clean(asked + 1)' => Clean(asked)'
    BY DEF Clean, Prompts
  <2>2. pc'["shell"] # "waiting" => UNCHANGED answer
    OBVIOUS
  <2> QED
    BY <1>1, <2>1, <2>2 DEF SettledInv
<1>6. AnsweredInv'
  BY DEF AnsweredInv
<1>7. ASSUME NEW p \in Prompts, end'[p] = "returned", Clean(p)'
      PROVE  /\ answer'[p] # "shown"
             /\ call'[p] = "blocking" => value'[p] = IF answer'[p] = "good" THEN p ELSE 0
  <2>1. Clean(p)
    BY <1>7, AbandonedStays DEF Clean
  <2>2. CASE p = asked'
    <3>1. answer'[p] = "unseen" /\ value'[p] = 0
      BY <1>7, <2>2 DEF AnswerInv, WireInv
    <3> QED
      BY <3>1
  <2>3. CASE p # asked'
    BY <1>7, <2>1, <2>3 DEF AnswerInv, ReturnedInv, OwnAnswer
  <2> QED
    BY <2>2, <2>3
<1> QED
  BY <1>3, <1>4, <1>5, <1>6, <1>7 DEF AnswerInv, ReturnedInv, OwnAnswer

\* Whether the prompts before n were abandoned does not depend on the later steps
\* of a prompt that is not one of them, or that does not end by an exception.
LEMMA CleanBefore ==
    ASSUME TypeOK, SlotInv, StdinStep, NEW n \in Int, Clean(n)'
    PROVE  Clean(n)
BY EndEffect DEF Clean, Abandoned, StdinStep, AtPrompt

LEMMA AnswerAfterThrow ==
    ASSUME TypeOK, SlotInv, AnswerInv, WaitThrows
    PROVE  AnswerInv'
<1> USE TypeParts DEF PromptTypes
<1>1. /\ UNCHANGED <<asked, call, answer, wire, value>>
      /\ end' = [end EXCEPT ![asked] = "threw"]
      /\ pc["shell"] = "waiting" /\ pc'["shell"] = "run" /\ ~AtPrompt'
  BY DEF WaitThrows, Goto, ThreadTypes, Channels, AtPrompt
<1>2. AtPrompt /\ asked \in Prompts
  BY <1>1, AtPromptFacts DEF AtPrompt
<1>3. end'[asked] = "threw" /\ \A p \in Prompts \ {asked} : end'[p] = end[p]
  BY <1>1, <1>2
<1>4. ASSUME NEW p \in Prompts, end'[p] = "returned", Clean(p)'
      PROVE  end[p] = "returned" /\ Clean(p)
  BY <1>3, <1>4, CleanBefore DEF StdinStep, Prompts
<1>5. ~Clean(asked + 1)'
  <2>1. answer[asked] # "unseen"
    BY <1>2 DEF AnswerInv, WireInv
  <2>2. Abandoned(asked)'
    BY <1>1, <1>3, <2>1 DEF Abandoned
  <2> QED
    BY <1>1, <1>2, <2>2, SessionAssumption DEF Clean, Prompts
<1> QED
  BY <1>1, <1>4, <1>5 DEF AnswerInv, WireInv, WaitingInv, SettledInv, AnsweredInv,
     ReturnedInv, OwnAnswer

LEMMA AnswerAfterAnswer ==
    ASSUME TypeOK, SlotInv, AnswerInv,
           NEW p \in Prompts, NEW a \in {"good", "bad"}, Answer(p, a)
    PROVE  AnswerInv'
<1> USE TypeParts, SessionAssumption DEF PromptTypes
<1>1. /\ UNCHANGED <<pc, asked, call, end, value>>
      /\ answer[p] = "shown" /\ answer'[p] = a /\ wire' = Append(wire, p)
      /\ \A q \in Prompts \ {p} : answer'[q] = answer[q]
  BY DEF Answer
<1>2. \A q \in Prompts : Abandoned(q)' <=> Abandoned(q)
  BY <1>1 DEF Abandoned
<1>3. p <= asked /\ asked \in Nat /\ p \in Nat
  BY <1>1 DEF AnswerInv, WireInv, Prompts
<1>4. WireInv'
  <2>1. \A i \in 1..Len(wire) : wire[i] \in Prompts \ {p}
    BY <1>1 DEF AnswerInv, WireInv
  <2>2. \A i \in 1..Len(wire') : wire'[i] = IF i = Len(wire) + 1 THEN p ELSE wire[i]
    BY <1>1
  <2>3. Len(wire') = Len(wire) + 1 /\ Len(wire) \in Nat
    BY <1>1
  <2>4. \A i, j \in 1..Len(wire') : wire'[i] = wire'[j] => i = j
    BY <2>1, <2>2, <2>3 DEF AnswerInv, WireInv
  <2>5. \A i \in 1..Len(wire') : wire'[i] <= asked' /\ answer'[wire'[i]] \in {"good", "bad"}
    <3> SUFFICES ASSUME NEW i \in 1..Len(wire')
                 PROVE  wire'[i] <= asked /\ answer'[wire'[i]] \in {"good", "bad"}
      BY <1>1
    <3>1. CASE i = Len(wire) + 1
      BY <1>1, <1>3, <2>2, <3>1
    <3>2. CASE i \in 1..Len(wire)
      <4>1. wire'[i] = wire[i] /\ wire[i] \in Prompts \ {p}
        BY <2>1, <2>2, <2>3, <3>2
      <4> QED
        BY <1>1, <3>2, <4>1 DEF AnswerInv, WireInv
    <3> QED
      BY <2>3, <3>1, <3>2
  <2>6. AtPrompt' => answer'[asked'] # "unseen"
    BY <1>1, AtPromptFacts DEF AnswerInv, WireInv, AtPrompt
  <2>7. \A q \in Prompts : q > asked' => answer'[q] = "unseen" /\ value'[q] = 0
    BY <1>1, <1>3 DEF AnswerInv, WireInv, Prompts
  <2> QED
    BY <2>4, <2>5, <2>6, <2>7 DEF WireInv
<1>5. WaitingInv'
  <2> SUFFICES ASSUME pc["shell"] = "waiting", Clean(asked)
               PROVE  /\ value[asked] = 0
                      /\ \A i \in 1..Len(wire') : wire'[i] = asked
                      /\ \A q \in Prompts : q < asked => answer'[q] # "shown"
    BY <1>1, <1>2 DEF WaitingInv, Clean
  <2>1. /\ value[asked] = 0
        /\ \A i \in 1..Len(wire) : wire[i] = asked
        /\ \A q \in Prompts : q < asked => answer[q] # "shown"
    BY DEF AnswerInv, WaitingInv
  <2>2. p = asked
    BY <1>1, <1>3, <2>1
  <2> QED
    BY <1>1, <2>1, <2>2
<1>6. pc["shell"] # "waiting" => ~Clean(asked + 1)
  BY <1>1 DEF AnswerInv, SettledInv
<1>7. pc["shell"] = "answered" => ~Clean(asked)
  BY <1>6, AtPromptFacts, CleanNext DEF AtPrompt, Abandoned
<1>8. ~Clean(asked)' <=> ~Clean(asked)
  BY <1>1, <1>2 DEF Clean
<1>9. SettledInv' /\ AnsweredInv'
  BY <1>1, <1>2, <1>6, <1>7, <1>8 DEF SettledInv, AnsweredInv, Clean
<1>10. \A q \in Prompts : end[q] = "returned" /\ Clean(q)' => answer'[q] = answer[q] /\ Clean(q)
  BY <1>1, <1>2 DEF AnswerInv, ReturnedInv, Clean
<1>11. ReturnedInv' /\ OwnAnswer'
  BY <1>1, <1>10 DEF AnswerInv, ReturnedInv, OwnAnswer
<1> QED
  BY <1>4, <1>5, <1>9, <1>11 DEF AnswerInv

LEMMA AnswerAfterDeliver ==
    ASSUME TypeOK, SlotInv, AnswerInv, Deliver, [Next]_vars
    PROVE  AnswerInv'
<1> USE TypeParts, SessionAssumption DEF PromptTypes
<1>1. /\ UNCHANGED <<asked, call, end, answer, slot>>
      /\ wire # <<>> /\ wire' = Tail(wire)
      /\ pc["shell"] = "waiting" /\ pc'["shell"] = "answered" /\ AtPrompt
  BY DEF Deliver, Goto, ThreadTypes, Channels, AtPrompt
<1>2. asked \in Prompts /\ end[asked] = "open"
  BY <1>1, AtPromptFacts
<1>3. /\ Len(wire) \in Nat \ {0} /\ Len(wire') = Len(wire) - 1
      /\ \A i \in 1..Len(wire') : i + 1 \in 1..Len(wire) /\ wire'[i] = wire[i + 1]
  BY <1>1
<1>4. \A p \in Prompts : value'[p] # value[p] => p = asked \/ end[p] = "threw"
  BY Writes DEF Waiting
<1>5. WireInv'
  <2>1. \A p \in Prompts : p > asked => end[p] # "threw"
    BY DEF SlotInv
  <2>2. \A p \in Prompts : p > asked => answer'[p] = "unseen" /\ value'[p] = 0
    BY <1>1, <1>2, <1>4, <2>1 DEF AnswerInv, WireInv, Prompts
  <2>3. \A i \in 1..Len(wire') : wire'[i] <= asked /\ answer[wire'[i]] \in {"good", "bad"}
    BY <1>3 DEF AnswerInv, WireInv
  <2>4. \A i, j \in 1..Len(wire') : wire'[i] = wire'[j] => i = j
    BY <1>3 DEF AnswerInv, WireInv
  <2>5. AtPrompt' => answer'[asked'] # "unseen"
    BY <1>1 DEF AnswerInv, WireInv
  <2> QED
    BY <1>1, <2>2, <2>3, <2>4, <2>5 DEF WireInv
<1>6. ASSUME Clean(asked)
      PROVE  /\ wire' = <<>> /\ Head(wire) = asked /\ value[asked] = 0
             /\ answer[asked] \in {"good", "bad"}
             /\ \A p \in Prompts : answer[p] # "shown"
  <2>1. /\ value[asked] = 0
        /\ \A i \in 1..Len(wire) : wire[i] = asked
        /\ \A p \in Prompts : p < asked => answer[p] # "shown"
    BY <1>1, <1>6 DEF AnswerInv, WaitingInv
  <2>2. 1 \in 1..Len(wire) /\ wire[1] = asked
    BY <1>3, <2>1
  <2>3. Len(wire) = 1
    <3>1. Len(wire) \in 1..Len(wire)
      BY <1>3
    <3> QED
      BY <2>1, <2>2, <3>1 DEF AnswerInv, WireInv
  <2>4. Head(wire) = asked /\ wire' = <<>>
    BY <1>1, <1>3, <2>2, <2>3
  <2>5. answer[asked] \in {"good", "bad"}
    BY <2>2 DEF AnswerInv, WireInv
  <2>6. \A p \in Prompts : p > asked => answer[p] = "unseen"
    BY DEF AnswerInv, WireInv
  <2>7. \A p \in Prompts : p < asked \/ p = asked \/ p > asked
    BY <1>2 DEF Prompts
  <2> QED
    BY <2>1, <2>4, <2>5, <2>6, <2>7
<1>7. \A q \in Prompts : Abandoned(q)' <=> Abandoned(q)
  BY <1>1 DEF Abandoned
<1>8. SettledInv'
  <2>1. Clean(asked + 1)' => Clean(asked)
    <3>1. asked' = asked /\ asked \in Nat
      BY <1>1, <1>2 DEF Prompts
    <3> QED
      BY <1>7, <3>1 DEF Clean, Prompts
  <2> QED
    BY <1>1, <1>6, <2>1 DEF SettledInv
<1>9. AnsweredInv'
  <2> SUFFICES ASSUME Clean(asked), call[asked] = "blocking"
               PROVE  value'[asked] = IF answer[asked] = "good" THEN asked ELSE 0
    BY <1>1, <1>7 DEF AnsweredInv, Clean
  <2>1. slot = asked /\ slot # Nobody
    BY <1>1, <1>2 DEF SlotInv, Prompts, Nobody
  <2>2. InputReply(asked)
    BY <1>6 DEF Deliver
  <2> QED
    BY <1>2, <1>6, <2>1, <2>2 DEF InputReply
<1>10. \A p \in Prompts : end[p] = "returned" => value'[p] = value[p]
  BY <1>2, <1>4
<1>11. ReturnedInv' /\ OwnAnswer'
  BY <1>1, <1>7, <1>10 DEF AnswerInv, ReturnedInv, OwnAnswer, Clean
<1> QED
  BY <1>1, <1>5, <1>8, <1>9, <1>11 DEF AnswerInv, WaitingInv

LEMMA AnswerAfterEnd ==
    ASSUME TypeOK, SlotInv, AnswerInv, EndPrompt
    PROVE  AnswerInv'
<1> USE TypeParts, SessionAssumption DEF PromptTypes
<1>1. /\ UNCHANGED <<asked, call, answer, wire, value>>
      /\ end' = [end EXCEPT ![asked] = "returned"]
      /\ pc["shell"] = "answered" /\ pc'["shell"] = "run" /\ ~AtPrompt'
  BY DEF EndPrompt, Goto, ThreadTypes, Channels, AtPrompt
<1>2. asked \in Prompts /\ end[asked] = "open"
  BY <1>1, AtPromptFacts DEF AtPrompt
<1>3. end'[asked] = "returned" /\ \A p \in Prompts \ {asked} : end'[p] = end[p]
  BY <1>1, <1>2
<1>4. \A q \in Prompts : Abandoned(q)' <=> Abandoned(q)
  BY <1>1, <1>2, <1>3 DEF Abandoned
<1>5. SettledInv'
  <2>1. Clean(asked + 1)' <=> Clean(asked + 1)
    BY <1>1, <1>4 DEF Clean
  <2> QED
    BY <1>1, <2>1 DEF AnswerInv, SettledInv
<1>6. Clean(asked) => \A p \in Prompts : answer[p] # "shown"
  BY <1>1, <1>2, CleanNext DEF Abandoned, AnswerInv, SettledInv
<1>7. ASSUME NEW p \in Prompts, end'[p] = "returned", Clean(p)'
      PROVE  /\ answer[p] # "shown"
             /\ call[p] = "blocking" => value[p] = IF answer[p] = "good" THEN p ELSE 0
  <2>1. Clean(p)
    BY <1>4, <1>7 DEF Clean
  <2>2. CASE p = asked
    BY <1>1, <1>6, <2>1, <2>2 DEF AnswerInv, AnsweredInv
  <2>3. CASE p # asked
    BY <1>3, <1>7, <2>1, <2>3 DEF AnswerInv, ReturnedInv, OwnAnswer
  <2> QED
    BY <2>2, <2>3
<1> QED
  BY <1>1, <1>5, <1>7 DEF AnswerInv, WireInv, WaitingInv, AnsweredInv, ReturnedInv, OwnAnswer

LEMMA AnswerStep ==
    ASSUME TypeOK, SlotInv, AnswerInv, [Next]_vars
    PROVE  AnswerInv'
BY StepCases, AnswerAfterOthers, AnswerAfterAsk, AnswerAfterThrow, AnswerAfterAnswer,
   AnswerAfterDeliver, AnswerAfterEnd DEF StdinStep

LEMMA AnswerInit == Init => AnswerInv
<1> SUFFICES ASSUME Init PROVE AnswerInv
  OBVIOUS
<1>1. /\ pc["shell"] = "off" /\ Len(wire) = 0 /\ wire = <<>>
      /\ \A p \in Prompts : answer[p] = "unseen" /\ value[p] = 0 /\ end[p] = "open"
  BY DEF Init, Channels
<1> QED
  BY <1>1 DEF AnswerInv, WireInv, WaitingInv, SettledInv, AnsweredInv, ReturnedInv, OwnAnswer,
     AtPrompt

\* However many prompts a session has and whatever throws in between, a call of
\* blocking_input_request with no abandoned prompt before it returns the answer
\* to it and no other.
THEOREM PromptsGetOwnAnswer == Spec => []OwnAnswer
<1>1. TypeOK /\ SlotInv /\ AnswerInv /\ [Next]_vars => AnswerInv'
  BY AnswerStep
<1>2. TypeOK /\ SlotInv /\ [Next]_vars => SlotInv'
  BY SlotStep
<1>3. AnswerInv => OwnAnswer
  BY DEF AnswerInv
<1> QED
  BY <1>1, <1>2, <1>3, SlotInit, AnswerInit, TypeCorrect, PTL DEF Spec
---------------------------------------------------------------------------
(* Calls *)

\* The stages before destruction, and those at which the constructors have stored
\* what they were given and the parts have been introduced.
LiveStages == {"server", "debugger", "core", "messenger", "configure", "built", "running"}
Introduced == {"configure", "built", "running"}
Constructed == Introduced \cup {"messenger"}

\* The references of the core, the listeners and the publishers.
CoreWiring == CoreReferences \cup Listeners \cup Publishers
Connected(rs) == \A e \in rs : e[1] \in alive /\ e[2] \in alive => e \in refs

\* The members that exist at each stage, which are destroyed after those that use
\* them, and the references that they were given.
MembersInv ==
    /\ stage # "gone" => "context" \in alive
    /\ stage \in LiveStages => Given \subseteq alive
    /\ stage \in LiveStages \ {"server"} => "server" \in alive
    /\ stage \in Constructed => "core" \in alive
    /\ stage \in LiveStages /\ HasDebugger => "debugger" \in alive
ReferencesInv ==
    /\ {"kernel"} \X alive \subseteq refs
    /\ Connected(Middleware)
    /\ stage \in Constructed => Connected(CoreWiring)
    /\ stage \in Introduced => Connected(Introductions)
AssemblyInv == MembersInv /\ ReferencesInv

LEMMA Vocabulary ==
    /\ Parts = {"context", "interpreter", "history", "logger", "server", "debugger", "core"}
    /\ Given \subseteq Parts /\ "kernel" \notin Parts
    /\ \A e \in CoreWiring \cup Introductions \cup Middleware :
          e \in Parts \X Parts /\ e = <<e[1], e[2]>> /\ e # <<"kernel", "debugger">>
BY DEF Parts, Declared, Given, CoreWiring, CoreReferences, Listeners, Publishers,
   Introductions, Middleware

LEMMA AssemblyInit == Init => AssemblyInv
<1> SUFFICES ASSUME Init PROVE AssemblyInv
  OBVIOUS
<1>1. stage = "server" /\ alive = Given /\ refs = {"kernel"} \X Given
  BY DEF Init
<1>2. "server" \notin Given /\ "debugger" \notin Given /\ "context" \in Given
  BY DEF Given
<1>3. MembersInv
  BY <1>1, <1>2 DEF MembersInv, HasDebugger, Constructed, Introduced, LiveStages
<1>4. ReferencesInv
  BY <1>1, <1>2 DEF ReferencesInv, Connected, Middleware, Constructed, Introduced
<1> QED
  BY <1>3, <1>4 DEF AssemblyInv

\* The members that a constructor adds are referred to by those that it tells, the
\* others keep what they have.
LEMMA BuildServerAssembles ==
    ASSUME KernelTypes, AssemblyInv, BuildServer
    PROVE  AssemblyInv'
<1>1. /\ stage = "server" /\ stage' = "debugger" /\ alive' = alive \cup {"server"}
      /\ Given \subseteq alive /\ "context" \in alive
  BY DEF BuildServer, BuildStep, Follows, AssemblyInv, MembersInv, LiveStages, Given
<1>2. refs' = refs \cup {<<"kernel", "server">>, <<"server", "context">>}
  BY <1>1 DEF BuildServer, Store, Existing
<1>3. MembersInv'
  BY <1>1, <1>2 DEF AssemblyInv, MembersInv, HasDebugger, LiveStages, Constructed, Introduced
<1>4. Connected(Middleware)'
  BY <1>1, <1>2 DEF AssemblyInv, ReferencesInv, Connected, Middleware
<1>5. ReferencesInv'
  BY <1>1, <1>2, <1>4 DEF AssemblyInv, ReferencesInv, Constructed, Introduced
<1> QED
  BY <1>3, <1>5 DEF AssemblyInv

LEMMA BuildDebuggerAssembles ==
    ASSUME KernelTypes, AssemblyInv, BuildDebugger
    PROVE  AssemblyInv'
<1>1. /\ stage = "debugger" /\ stage' = "core"
      /\ alive' = alive \/ alive' = alive \cup {"debugger"}
      /\ Given \subseteq alive /\ {"context", "server"} \subseteq alive
  BY DEF BuildDebugger, BuildStep, Follows, AssemblyInv, MembersInv, LiveStages, Given
<1>2. refs' = refs \cup IF "debugger" \in alive'
                        THEN {<<"kernel", "debugger">>, <<"debugger", "context">>} ELSE {}
  BY <1>1 DEF BuildDebugger, Store, Existing
<1>3. MembersInv'
  BY <1>1, <1>2 DEF AssemblyInv, MembersInv, HasDebugger, LiveStages, Constructed, Introduced
<1>4. Connected(Middleware)'
  BY <1>1, <1>2 DEF AssemblyInv, ReferencesInv, Connected, Middleware
<1>5. ReferencesInv'
  BY <1>1, <1>2, <1>4 DEF AssemblyInv, ReferencesInv, Constructed, Introduced
<1> QED
  BY <1>3, <1>5 DEF AssemblyInv

LEMMA BuildCoreAssembles ==
    ASSUME KernelTypes, AssemblyInv, BuildCore
    PROVE  AssemblyInv'
<1>1. /\ stage = "core" /\ stage' = "messenger" /\ alive' = alive \cup {"core"}
      /\ Given \subseteq alive /\ {"context", "server"} \subseteq alive
  BY DEF BuildCore, BuildStep, Follows, AssemblyInv, MembersInv, LiveStages, Given
<1>2. /\ refs \subseteq refs' /\ <<"kernel", "core">> \in refs'
      /\ \A e \in CoreWiring : e[1] \in alive' /\ e[2] \in alive' => e \in refs'
      /\ <<"kernel", "debugger">> \in refs' => <<"kernel", "debugger">> \in refs
  BY <1>1, Vocabulary DEF BuildCore, Store, Existing, CoreWiring
<1>3. MembersInv'
  BY <1>1, <1>2 DEF AssemblyInv, MembersInv, HasDebugger, LiveStages, Constructed, Introduced
<1>4. Connected(Middleware)' /\ Connected(CoreWiring)'
  BY <1>1, <1>2 DEF AssemblyInv, ReferencesInv, Connected, Middleware
<1>5. ReferencesInv'
  BY <1>1, <1>2, <1>4 DEF AssemblyInv, ReferencesInv, Introduced
<1> QED
  BY <1>3, <1>5 DEF AssemblyInv

LEMMA MessengerAssembles ==
    ASSUME KernelTypes, AssemblyInv, RegisterMessenger
    PROVE  AssemblyInv'
<1>1. /\ stage = "messenger" /\ stage' = "configure" /\ alive' = alive
      /\ Given \subseteq alive /\ {"context", "server", "core"} \subseteq alive
  BY DEF RegisterMessenger, BuildStep, Follows, AssemblyInv, MembersInv, LiveStages, Given,
     Constructed
<1>2. /\ refs \subseteq refs'
      /\ \A e \in Introductions : e[1] \in alive' /\ e[2] \in alive' => e \in refs'
      /\ <<"kernel", "debugger">> \in refs' => <<"kernel", "debugger">> \in refs
  BY <1>1, Vocabulary DEF RegisterMessenger, Store, Existing
<1>3. MembersInv'
  BY <1>1, <1>2 DEF AssemblyInv, MembersInv, HasDebugger, LiveStages, Constructed
<1>4. Connected(Middleware)' /\ Connected(CoreWiring)' /\ Connected(Introductions)'
  BY <1>1, <1>2 DEF AssemblyInv, ReferencesInv, Connected, Constructed
<1>5. ReferencesInv'
  BY <1>1, <1>2, <1>4 DEF AssemblyInv, ReferencesInv
<1> QED
  BY <1>3, <1>5 DEF AssemblyInv

\* The member that is destroyed is the context only when it is the last.
LEMMA DestroyKeepsContext ==
    ASSUME KernelTypes, AssemblyInv, NEW p \in Parts, Destroy(p)
    PROVE  AssemblyInv'
<1>1. /\ stage = "unwind" /\ stage' \in {"unwind", "gone"} /\ alive' = alive \ {p}
      /\ refs' = refs /\ Newest(p) /\ (alive' # {} => stage' = "unwind")
      /\ (alive' = {} => stage' = "gone")
  BY DEF Destroy
<1>2. stage' # "gone" => "context" \in alive'
  <2> SUFFICES ASSUME stage' # "gone" PROVE p # "context"
    BY <1>1 DEF AssemblyInv, MembersInv
  <2>1. PICK q \in alive' : TRUE
    BY <1>1
  <2>2. q \in Parts /\ q # p /\ Declared[q] <= Declared[p]
    BY <1>1, <2>1 DEF Newest, KernelTypes
  <2>3. \A r \in Parts : r # "context" => ~(Declared[r] <= Declared["context"])
    BY DEF Parts, Declared
  <2> QED
    BY <2>2, <2>3
<1>3. MembersInv'
  BY <1>1, <1>2 DEF MembersInv, LiveStages, Constructed, Introduced
<1>4. Connected(Middleware)'
  BY <1>1 DEF AssemblyInv, ReferencesInv, Connected
<1>5. ReferencesInv'
  BY <1>1, <1>4 DEF AssemblyInv, ReferencesInv, Constructed, Introduced
<1> QED
  BY <1>3, <1>5 DEF AssemblyInv

LEMMA AssemblyStep ==
    ASSUME TypeOK, AssemblyInv, [Next]_vars
    PROVE  AssemblyInv'
<1> USE TypeParts
<1>1. ASSUME UNCHANGED <<alive, refs>>,
             \/ stage' = stage
             \/ stage' = "unwind" /\ stage # "gone"
             \/ stage \in Introduced /\ stage' \in Introduced
      PROVE  AssemblyInv'
  BY <1>1 DEF AssemblyInv, MembersInv, ReferencesInv, HasDebugger, Connected, LiveStages,
     Constructed, Introduced
<1>2. CASE KernelStep
  <2>1. CASE Configure
    BY <1>1, <2>1 DEF Configure, BuildStep, Follows, Introduced
  <2>2. CASE BuildThrows \/ Start \/ StartReturns
    BY <1>1, <2>2 DEF BuildThrows, Start, StartReturns, Introduced
  <2> QED
    BY <1>2, <2>1, <2>2, BuildServerAssembles, BuildDebuggerAssembles, BuildCoreAssembles,
       MessengerAssembles, DestroyKeepsContext DEF KernelStep, Construct
<1>3. CASE ThreadStep \/ AskStep \/ StdinStep \/ UNCHANGED vars
  <2>1. UNCHANGED <<stage, alive, refs>>
    BY <1>3, Frames DEF vars, kernelVars
  <2> QED
    BY <1>1, <2>1
<1> QED
  BY <1>2, <1>3, StepCases

\* In a kernel that was introduced to all its parts, and is not unwinding, every
\* reference between them can be followed.
LEMMA WiringIsSound ==
    ASSUME AssemblyInv, stage \in Introduced, NEW e \in Wiring
    PROVE  e \in refs /\ e[2] \in alive
<1>1. e \in CoreWiring \cup Introductions \cup Middleware /\ e \in Parts \X Parts
  BY Vocabulary DEF Wiring, CoreWiring
<1>2. Parts \ {"debugger"} \subseteq alive
  BY Vocabulary DEF AssemblyInv, MembersInv, LiveStages, Constructed, Introduced, Given
<1>3. "debugger" \in {e[1], e[2]} => "debugger" \in alive
  BY DEF Wiring, AssemblyInv, MembersInv, LiveStages, Introduced
<1>4. e[1] \in alive /\ e[2] \in alive
  BY <1>1, <1>2, <1>3
<1> QED
  BY <1>1, <1>4 DEF AssemblyInv, ReferencesInv, Connected, Constructed

LEMMA BuildUsesAreSound ==
    ASSUME KernelTypes, AssemblyInv, NEW e \in BuildUses
    PROVE  e \in refs /\ e[2] \in alive
<1>1. ASSUME NEW ps \in SUBSET alive, e \in {"kernel"} \X ps
      PROVE  e \in refs /\ e[2] \in alive
  BY <1>1 DEF AssemblyInv, ReferencesInv
<1>2. CASE stage \in {"server", "debugger"}
  <2>1. e = <<"kernel", "context">> /\ "context" \in alive
    BY <1>2 DEF BuildUses, AssemblyInv, MembersInv
  <2> QED
    BY <2>1 DEF AssemblyInv, ReferencesInv
<1>3. CASE stage = "core"
  <2>1. {"server", "interpreter", "history", "logger"} \subseteq alive
    BY <1>3 DEF AssemblyInv, MembersInv, LiveStages, Given
  <2> QED
    BY <1>1, <1>3, <2>1 DEF BuildUses
<1>4. CASE stage = "messenger"
  <2>1. {"server", "interpreter", "history"} \subseteq alive
    BY <1>4 DEF AssemblyInv, MembersInv, LiveStages, Given
  <2> QED
    BY <1>1, <1>4, <2>1 DEF BuildUses
<1>5. CASE stage = "configure"
  <2>1. stage \in Introduced
    BY <1>5 DEF Introduced
  <2>2. CASE e \in Wiring
    BY <2>1, <2>2, WiringIsSound
  <2>3. CASE e = <<"kernel", "interpreter">>
    <3>1. "interpreter" \in alive
      BY <1>5 DEF AssemblyInv, MembersInv, LiveStages, Given
    <3> QED
      BY <2>3, <3>1 DEF AssemblyInv, ReferencesInv
  <2> QED
    BY <1>5, <2>2, <2>3 DEF BuildUses
<1>6. CASE stage = "built"
  <2>1. {"core", "server"} \subseteq alive
    BY <1>6 DEF AssemblyInv, MembersInv, LiveStages, Constructed, Introduced
  <2> QED
    BY <1>1, <1>6, <2>1 DEF BuildUses
<1>7. CASE stage = "unwind"
  <2>1. PICK p \in {"server", "debugger"} : Newest(p) /\ e = <<p, "context">>
    BY <1>7 DEF BuildUses
  <2>2. p \in alive /\ "context" \in alive
    BY <1>7, <2>1 DEF Newest, AssemblyInv, MembersInv
  <2>3. e \in Middleware
    BY <2>1 DEF Middleware
  <2> QED
    BY <2>1, <2>2, <2>3 DEF AssemblyInv, ReferencesInv, Connected
<1>8. CASE stage = "running"
  <2>1. {"interpreter", "server"} \subseteq alive
    BY <1>8 DEF AssemblyInv, MembersInv, LiveStages, Given
  <2> QED
    BY <1>1, <1>8, <2>1 DEF BuildUses
<1>9. CASE stage = "gone"
  BY <1>9 DEF BuildUses
<1> QED
  BY <1>2, <1>3, <1>4, <1>5, <1>6, <1>7, <1>8, <1>9 DEF KernelTypes, Follows

\* Nothing follows a reference that was not set yet or whose target was destroyed,
\* in no interleaving of the threads, the owner and a constructor that throws.
THEOREM CallsStaySound == Spec => []CallsAreSound
<1>1. TypeOK /\ AssemblyInv /\ [Next]_vars => AssemblyInv'
  BY AssemblyStep
<1>2. TypeOK /\ AssemblyInv => CallsAreSound
  <2> SUFFICES ASSUME TypeOK, AssemblyInv,
                      NEW e \in BuildUses \cup UNION {ThreadUses(c) : c \in Channels}
               PROVE  e \in refs /\ e[2] \in alive
    BY DEF CallsAreSound
  <2>1. KernelTypes /\ ThreadTypes
    BY TypeParts
  <2>2. CASE e \in BuildUses
    BY <2>1, <2>2, BuildUsesAreSound
  <2>3. ASSUME NEW c \in Channels, e \in ThreadUses(c)
        PROVE  e \in refs /\ e[2] \in alive
    <3>1. pc[c] \notin {"off", "exited"} /\ e \in {<<"server", "context">>} \cup Wiring
      BY <2>3 DEF ThreadUses
    <3>2. stage \in Introduced
      BY <2>1, <3>1 DEF ThreadTypes, Introduced
    <3>3. <<"server", "context">> \in Wiring
      BY DEF Wiring, Middleware
    <3> QED
      BY <3>1, <3>2, <3>3, WiringIsSound
  <2> QED
    BY <2>2, <2>3
<1> QED
  BY <1>1, <1>2, AssemblyInit, TypeCorrect, PTL DEF Spec
===========================================================================
