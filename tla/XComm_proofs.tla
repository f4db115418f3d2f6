---------------------------- MODULE XComm_proofs ---------------------------
(***************************************************************************)
(* Proofs about XComm: for any number of objects, ids and targets, which   *)
(* discipline of the authors of a kernel, and which value of the flag that *)
(* a constructor leaves uninitialised, each half of the coherence of the   *)
(* registry needs.                                                         *)
(***************************************************************************)
EXTENDS XComm, TLAPS

---------------------------------------------------------------------------
(* What the actions that write objects do *)

LEMMA MovedComms ==
    ASSUME TypeOK, NEW a \in Addrs, Live(a)
    PROVE  /\ object[a] \in Comm
           /\ MovedFrom(a) \in Comm /\ MovedFrom(a).id = object[a].id
           /\ MovedFrom(a).spent = TRUE /\ MovedFrom(a).moved_from = TRUE
           /\ MovedFrom(a).handlers = None
           /\ MovedInto(a) \in Comm /\ MovedInto(a).id = object[a].id
           /\ MovedInto(a).spent = object[a].spent /\ MovedInto(a).moved_from = FALSE
           /\ MovedInto(a).handlers = object[a].handlers
           /\ MovedInto(a).target = object[a].target
<1>1. object[a] \in Comm
  BY DEF TypeOK, Live
<1> QED
  BY <1>1 DEF MovedFrom, MovedInto, Comm

Moves(a, b) ==
    /\ a # b /\ Usable(a) /\ object[a].id \in Ids
    /\ object' \in [Addrs -> Comm \cup {None}] /\ m_comms' \in [Ids -> Addrs \cup {None}]
    /\ object'[a] # None /\ object'[a].id = object[a].id
    /\ object'[a].spent = TRUE /\ object'[a].moved_from = TRUE /\ object'[a].handlers = None
    /\ object'[b] # None /\ object'[b].id = object[a].id
    /\ object'[b].spent = FALSE /\ object'[b].moved_from = FALSE
    /\ object'[b].handlers = object[a].handlers /\ object'[b].target = object[a].target
    /\ \A c \in Addrs \ {a, b} : object'[c] = object[c]
    /\ m_comms'[object[a].id] = b
    /\ \A id \in Ids \ {object[a].id} :
          \/ m_comms'[id] = m_comms[id] /\ (Live(b) => id # object[b].id)
          \/ m_comms'[id] = None /\ Live(b) /\ id = object[b].id
    /\ Live(b) => Assignable(b)
    /\ UNCHANGED <<m_targets, call, issued, closed, installed>>

LEMMA MoveEffect ==
    ASSUME TypeOK, NEW a \in Addrs, NEW b \in Addrs, MoveConstruct(a, b) \/ MoveAssign(a, b), a # b
    PROVE  Moves(a, b)
<1> USE NoneDistinct
<1>1. a # b /\ Live(a) /\ Usable(a) /\ object[a].spent = FALSE /\ object[a].id \in Ids
  BY DEF MoveConstruct, MoveAssign, Usable, Live, TypeOK, Comm
<1>2. object' = [object EXCEPT ![a] = MovedFrom(a), ![b] = MovedInto(a)]
  BY DEF MoveConstruct, MoveAssign, AfterMove
<1>3. /\ object'[a] = MovedFrom(a) /\ object'[b] = MovedInto(a)
      /\ \A c \in Addrs \ {a, b} : object'[c] = object[c]
      /\ object' \in [Addrs -> Comm \cup {None}]
  BY <1>1, <1>2, MovedComms DEF TypeOK
<1>4. /\ object'[a] # None /\ object'[a].id = object[a].id
      /\ object'[a].spent = TRUE /\ object'[a].moved_from = TRUE /\ object'[a].handlers = None
      /\ object'[b] # None /\ object'[b].id = object[a].id
      /\ object'[b].spent = FALSE /\ object'[b].moved_from = FALSE
      /\ object'[b].handlers = object[a].handlers /\ object'[b].target = object[a].target
  BY <1>1, <1>3, MovedComms
<1>5. UNCHANGED <<m_targets, call, issued, closed, installed>>
  BY DEF MoveConstruct, MoveAssign
<1>6. CASE MoveConstruct(a, b)
  <2>1. ~Live(b) /\ m_comms' = [m_comms EXCEPT ![object[a].id] = b]
    BY <1>6 DEF MoveConstruct, register_comm
  <2> QED
    BY <1>1, <1>3, <1>4, <1>5, <2>1 DEF Moves, TypeOK
<1>7. CASE MoveAssign(a, b)
  <2>1. Live(b) /\ Assignable(b) /\ object[b].id \in Ids
    BY <1>7 DEF MoveAssign, Assignable, Live, TypeOK, Comm
  <2>2. m_comms' = [[m_comms EXCEPT ![object[b].id] = None] EXCEPT ![object[a].id] = b]
    BY <1>7 DEF MoveAssign, Replace, unregister_comm
  <2>3. /\ m_comms' \in [Ids -> Addrs \cup {None}] /\ m_comms'[object[a].id] = b
        /\ \A id \in Ids \ {object[a].id} :
              m_comms'[id] = IF id = object[b].id THEN None ELSE m_comms[id]
    BY <1>1, <2>1, <2>2 DEF TypeOK
  <2> QED
    BY <1>1, <1>3, <1>4, <1>5, <2>1, <2>3 DEF Moves
<1> QED
  BY <1>6, <1>7

\* A comm that is moved onto itself.
SelfMoves(a) ==
    /\ SelfMove /\ Usable(a) /\ object[a].id \in Ids
    /\ object' \in [Addrs -> Comm \cup {None}] /\ m_comms' \in [Ids -> Addrs \cup {None}]
    /\ object'[a] # None /\ object'[a].id = object[a].id
    /\ object'[a].spent = FALSE /\ object'[a].moved_from = TRUE
    /\ \A c \in Addrs \ {a} : object'[c] = object[c]
    /\ m_comms'[object[a].id] = a
    /\ \A id \in Ids \ {object[a].id} : m_comms'[id] = m_comms[id]
    /\ UNCHANGED <<m_targets, call, issued, closed, installed>>

LEMMA SelfMoveEffect ==
    ASSUME TypeOK, NEW a \in Addrs, MoveAssign(a, a)
    PROVE  SelfMoves(a)
<1> USE NoneDistinct
<1>1. /\ SelfMove /\ Usable(a) /\ object[a] \in Comm /\ object[a].id \in Ids
      /\ object[a].spent = FALSE
  BY DEF MoveAssign, Usable, Live, TypeOK, Comm
<1>2. PICK comm \in MovedOntoItself(a) : object' = [object EXCEPT ![a] = comm]
  BY DEF MoveAssign, AfterMove
<1>3. /\ comm \in Comm /\ comm.id = object[a].id
      /\ comm.spent = FALSE /\ comm.moved_from = TRUE
  BY <1>1, <1>2 DEF MovedOntoItself, Comm
<1>4. m_comms' = [[m_comms EXCEPT ![object[a].id] = None] EXCEPT ![object[a].id] = a]
  BY DEF MoveAssign, Replace, unregister_comm
<1>5. UNCHANGED <<m_targets, call, issued, closed, installed>>
  BY DEF MoveAssign
<1> QED
  BY <1>1, <1>2, <1>3, <1>4, <1>5 DEF SelfMoves, TypeOK

\* The constructors that give an object an id of its own.
NewObject(a, id) ==
    \/ \E t \in Targets : Construct(a, id, t) \/ CommOpen(a, id, t)
    \/ \E b \in Addrs : CopyConstruct(b, a, id)

Creates(a, id) ==
    /\ ~Live(a) /\ id \notin issued
    /\ object' \in [Addrs -> Comm \cup {None}] /\ m_comms' \in [Ids -> Addrs \cup {None}]
    /\ object'[a] # None /\ object'[a].id = id /\ object'[a].spent = FALSE
    /\ object'[a].handlers = None /\ object'[a].moved_from \in FreshFlags \cup {FALSE}
    /\ \A c \in Addrs \ {a} : object'[c] = object[c]
    /\ m_comms'[id] = a /\ \A i \in Ids \ {id} : m_comms'[i] = m_comms[i]
    /\ issued' = issued \cup {id}
    /\ UNCHANGED <<m_targets, closed, installed>>

LEMMA NewEffect ==
    ASSUME TypeOK, NEW a \in Addrs, NEW id \in Ids, NewObject(a, id)
    PROVE  Creates(a, id)
<1> USE NoneDistinct, FreshFlagsAssumption
<1>1. PICK t \in Targets, flag \in FreshFlags \cup {FALSE} :
         object' = [object EXCEPT ![a] = NewComm(id, t, flag)]
  <2>1. CASE \E t \in Targets : Construct(a, id, t) \/ CommOpen(a, id, t)
    BY <2>1 DEF Construct, CommOpen
  <2>2. ASSUME NEW b \in Addrs, CopyConstruct(b, a, id)
        PROVE  \E t \in Targets : object' = [object EXCEPT ![a] = NewComm(id, t, FALSE)]
    <3>1. object[b].target \in Targets
      BY <2>2 DEF CopyConstruct, Usable, Live, TypeOK, Comm
    <3> QED
      BY <2>2, <3>1 DEF CopyConstruct
  <2> QED
    BY <2>1, <2>2 DEF NewObject
<1>2. NewComm(id, t, flag) \in Comm
  BY DEF NewComm, Comm
<1>3. /\ ~Live(a) /\ id \notin issued /\ m_comms' = [m_comms EXCEPT ![id] = a]
      /\ issued' = issued \cup {id} /\ UNCHANGED <<m_targets, closed, installed>>
  BY DEF NewObject, Construct, CommOpen, CopyConstruct, FreshId, register_comm
<1> QED
  BY <1>1, <1>2, <1>3 DEF Creates, NewComm, TypeOK

Reassigns(b, id) ==
    /\ Live(b) /\ Assignable(b) /\ object[b].id \in Ids /\ id \notin issued
    /\ object' \in [Addrs -> Comm \cup {None}] /\ m_comms' \in [Ids -> Addrs \cup {None}]
    /\ object'[b] # None /\ object'[b].id = id
    /\ object'[b].spent = FALSE /\ object'[b].moved_from = FALSE
    /\ object'[b].handlers = object[b].handlers
    /\ \A c \in Addrs \ {b} : object'[c] = object[c]
    /\ m_comms'[id] = b
    /\ \A i \in Ids \ {id} :
          m_comms'[i] = IF i = object[b].id THEN None ELSE m_comms[i]
    /\ issued' = issued \cup {id}
    /\ installed' = [installed EXCEPT ![id] = HandlersOf(b)]
    /\ HandlersOf(b) \in Ids \cup {None}
    /\ UNCHANGED <<m_targets, call, closed>>

LEMMA CopyAssignEffect ==
    ASSUME TypeOK, NEW a \in Addrs, NEW b \in Addrs, NEW id \in Ids, CopyAssign(a, b, id)
    PROVE  Reassigns(b, id)
<1> USE NoneDistinct
<1> DEFINE new == CopiedOver(a, b, id)
<1>1. /\ Live(b) /\ Assignable(b) /\ object[b] \in Comm /\ object[a] \in Comm
  BY DEF CopyAssign, Assignable, Usable, Live, TypeOK
<1>2. /\ new \in Comm /\ new.id = id /\ new.spent = FALSE /\ new.moved_from = FALSE
      /\ new.handlers = object[b].handlers
  BY <1>1 DEF Comm, CopiedOver
<1>3. object' = [object EXCEPT ![b] = new]
  BY DEF CopyAssign
<1>4. /\ id \notin issued /\ issued' = issued \cup {id}
      /\ m_comms' = [[m_comms EXCEPT ![object[b].id] = None] EXCEPT ![id] = b]
      /\ installed' = [installed EXCEPT ![id] = HandlersOf(b)]
      /\ UNCHANGED <<m_targets, call, closed>>
  BY DEF CopyAssign, FreshId, Replace, unregister_comm
<1>5. object[b].id \in Ids /\ HandlersOf(b) \in Ids \cup {None}
  BY <1>1 DEF Comm, HandlersOf, TypeOK
<1> HIDE DEF new
<1> QED
  BY <1>1, <1>2, <1>3, <1>4, <1>5 DEF Reassigns, TypeOK

Installs(a) ==
    /\ Usable(a) /\ object[a].id \in Ids
    /\ object' \in [Addrs -> Comm \cup {None}]
    /\ object'[a] # None /\ object'[a].id = object[a].id
    /\ object'[a].spent = object[a].spent /\ object'[a].moved_from = object[a].moved_from
    /\ object'[a].handlers = object[a].id /\ object'[a].target = object[a].target
    /\ \A c \in Addrs \ {a} : object'[c] = object[c]
    /\ installed' = [installed EXCEPT ![object[a].id] = object[a].id]
    /\ UNCHANGED <<m_comms, m_targets, call, issued, closed>>

LEMMA ListenEffect ==
    ASSUME TypeOK, NEW a \in Addrs, Listen(a)
    PROVE  Installs(a)
<1> USE NoneDistinct
<1> DEFINE new == [object[a] EXCEPT !.handlers = object[a].id]
<1>1. object[a] \in Comm /\ Usable(a)
  BY DEF Listen, Usable, Live, TypeOK
<1>2. /\ new \in Comm /\ new.id = object[a].id /\ new.spent = object[a].spent
      /\ new.moved_from = object[a].moved_from /\ new.handlers = object[a].id
      /\ new.target = object[a].target /\ object[a].id \in Ids
  BY <1>1 DEF Comm
<1>3. object' = [object EXCEPT ![a] = new]
  BY DEF Listen
<1> HIDE DEF new
<1> QED
  BY <1>1, <1>2, <1>3 DEF Installs, Listen, TypeOK

\* The end of an object.
Ends(a) == Destroy(a) \/ (CommOpenReturns /\ a = call.at)

Frees(a) ==
    /\ Live(a) /\ object[a].id \in Ids
    /\ object' \in [Addrs -> Comm \cup {None}] /\ m_comms' \in [Ids -> Addrs \cup {None}]
    /\ object'[a] = None /\ \A c \in Addrs \ {a} : object'[c] = object[c]
    /\ object[a].moved_from => m_comms' = m_comms
    /\ ~object[a].moved_from =>
          /\ m_comms'[object[a].id] = None
          /\ \A i \in Ids \ {object[a].id} : m_comms'[i] = m_comms[i]
    /\ UNCHANGED <<m_targets, issued, closed, installed>>

LEMMA EndEffect ==
    ASSUME TypeOK, NEW a \in Addrs, Ends(a)
    PROVE  Frees(a)
<1> USE NoneDistinct
<1>1. Live(a)
  BY DEF Ends, Destroy, CommOpenReturns, TypeOK
<1>2. object[a].id \in Ids /\ object[a].moved_from \in BOOLEAN
  BY <1>1 DEF Live, TypeOK, Comm
<1>3. /\ object' = [object EXCEPT ![a] = None] /\ m_comms' = AfterDestructor(a)
      /\ UNCHANGED <<m_targets, issued, closed, installed>>
  BY DEF Ends, Destroy, CommOpenReturns
<1> QED
  BY <1>1, <1>2, <1>3 DEF Frees, AfterDestructor, unregister_comm, TypeOK

\* The actions that write no object.
Registry ==
    \/ \E t \in Targets : RegisterTarget(t) \/ UnregisterTarget(t)
    \/ \E id \in Ids, t \in Targets : CommOpenRefused(id, t)
    \/ \E id \in Ids : CommHandler("msg", id) \/ CommHandler("close", id)
    \/ CommMsgReturns \/ CommCloseThrows \/ UNCHANGED vars

KeepsObjects ==
    /\ UNCHANGED <<object, m_comms, installed>>
    /\ issued \subseteq issued' /\ closed \subseteq closed'

LEMMA RegistryEffect ==
    ASSUME TypeOK, Registry
    PROVE  KeepsObjects
BY DEF KeepsObjects, Registry, RegisterTarget, UnregisterTarget, CommOpenRefused, CommHandler,
  CommMsgReturns, CommCloseThrows, vars

Erases ==
    /\ call.id \in Ids /\ m_comms'[call.id] = None
    /\ \A i \in Ids \ {call.id} : m_comms'[i] = m_comms[i]
    /\ closed' = closed \cup {call.id}
    /\ UNCHANGED <<object, m_targets, issued, installed>>

LEMMA CloseEffect ==
    ASSUME TypeOK, CommCloseReturns
    PROVE  Erases
<1>1. call.id \in Ids
  BY DEF CommCloseReturns, TypeOK, Idle
<1> QED
  BY <1>1 DEF Erases, CommCloseReturns, unregister_comm, TypeOK

\* What is known of the objects.
LEMMA ObjectFacts ==
    ASSUME TypeOK, NEW a \in Addrs, Live(a)
    PROVE  /\ object[a].id \in Ids /\ object[a].target \in Targets
           /\ object[a].moved_from \in BOOLEAN /\ object[a].spent \in BOOLEAN
BY DEF TypeOK, Live, Comm

\* The steps of XComm, as the proofs below split them.
LEMMA StepKinds ==
    ASSUME TypeOK, [Next]_vars
    PROVE  \/ KeepsObjects
           \/ \E a \in Addrs, id \in Ids : Creates(a, id)
           \/ \E a, b \in Addrs : Moves(a, b)
           \/ \E a \in Addrs : SelfMoves(a)
           \/ \E b \in Addrs, id \in Ids : Reassigns(b, id)
           \/ \E a \in Addrs : Installs(a)
           \/ \E a \in Addrs : Frees(a)
           \/ Erases
<1>1. CommOpenReturns => call.at \in Addrs
  BY DEF CommOpenReturns, TypeOK, Idle
<1>2. \/ Registry
      \/ \E a \in Addrs, id \in Ids : NewObject(a, id)
      \/ \E a, b \in Addrs : MoveConstruct(a, b) \/ MoveAssign(a, b)
      \/ \E a, b \in Addrs, id \in Ids : CopyAssign(a, b, id)
      \/ \E a \in Addrs : Listen(a)
      \/ \E a \in Addrs : Ends(a)
      \/ CommCloseReturns
  BY <1>1 DEF Next, AuthorStep, RequestStep, NoSuchComm, Registry, NewObject, Ends
<1>3. ASSUME NEW a \in Addrs, NEW b \in Addrs, MoveConstruct(a, b) \/ MoveAssign(a, b)
      PROVE  Moves(a, b) \/ SelfMoves(a)
  <2>1. MoveConstruct(a, b) => a # b
    BY DEF MoveConstruct, Usable
  <2> QED
    BY <1>3, <2>1, MoveEffect, SelfMoveEffect
<1> QED
  BY <1>2, <1>3, RegistryEffect, NewEffect, CopyAssignEffect, ListenEffect, EndEffect, CloseEffect

---------------------------------------------------------------------------
(* Types *)

LEMMA TypeInit == Init => TypeOK
BY NoneDistinct DEF Init, TypeOK, Idle

LEMMA TypeStep ==
    ASSUME TypeOK, [Next]_vars
    PROVE  TypeOK'
<1> USE NoneDistinct
<1>1. ASSUME NEW t \in Targets, RegisterTarget(t) \/ UnregisterTarget(t)
      PROVE  TypeOK'
  BY <1>1 DEF TypeOK, Live, RegisterTarget, UnregisterTarget
<1>2. ASSUME NEW a \in Addrs, NEW id \in Ids, NewObject(a, id)
      PROVE  TypeOK'
  <2>1. Creates(a, id)
    BY <1>2, NewEffect
  <2>2. /\ call' \in {Idle} \cup [op : {"open", "msg", "close"}, id : Ids, at : Addrs]
        /\ call'.op = "open" => call' = call \/ call'.at = a
    <3>1. \/ call' = call
          \/ call' = [op |-> "open", id |-> id, at |-> a]
      BY <1>2 DEF NewObject, Construct, CommOpen, CopyConstruct, Call
    <3> QED
      BY <3>1 DEF TypeOK
  <2>3. /\ call'.op = "open" => object'[call'.at] # None
    <3>1. CASE call' = call
      <4>1. call.op = "open" => call.at \in Addrs
        BY DEF TypeOK, Idle
      <4> QED
        BY <2>1, <3>1, <4>1 DEF Creates, TypeOK, Live
    <3>2. CASE call'.at = a
      BY <2>1, <3>2 DEF Creates
    <3> QED
      BY <2>2, <3>1, <3>2
  <2> QED
    BY <2>1, <2>2, <2>3 DEF Creates, TypeOK, Live
<1>3. ASSUME NEW a \in Addrs, NEW b \in Addrs, MoveConstruct(a, b) \/ MoveAssign(a, b)
      PROVE  TypeOK'
  <2>1. call.op = "open" => call.at \in Addrs
    BY DEF TypeOK, Idle
  <2>2. CASE a # b
    <3>1. Moves(a, b)
      BY <1>3, <2>2, MoveEffect
    <3> QED
      BY <2>1, <3>1 DEF Moves, TypeOK, Live
  <2>3. CASE a = b
    <3>1. SelfMoves(a)
      BY <1>3, <2>3, SelfMoveEffect DEF MoveConstruct, Usable
    <3> QED
      BY <2>1, <3>1 DEF SelfMoves, TypeOK, Live
  <2> QED
    BY <2>2, <2>3
<1>4. ASSUME NEW a \in Addrs, NEW b \in Addrs, NEW id \in Ids, CopyAssign(a, b, id)
      PROVE  TypeOK'
  <2>1. Reassigns(b, id)
    BY <1>4, CopyAssignEffect
  <2>2. call.op = "open" => call.at \in Addrs
    BY DEF TypeOK, Idle
  <2> QED
    BY <2>1, <2>2 DEF Reassigns, TypeOK, Live
<1>5. ASSUME NEW a \in Addrs, Listen(a)
      PROVE  TypeOK'
  <2>1. Installs(a)
    BY <1>5, ListenEffect
  <2>2. call.op = "open" => call.at \in Addrs
    BY DEF TypeOK, Idle
  <2> QED
    BY <2>1, <2>2 DEF Installs, TypeOK, Live
<1>6. ASSUME NEW a \in Addrs, Destroy(a)
      PROVE  TypeOK'
  <2>1. Frees(a)
    BY <1>6, EndEffect DEF Ends
  <2>2. call' = call /\ ~(call.op = "open" /\ call.at = a)
    BY <1>6 DEF Destroy
  <2>3. call.op = "open" => call.at \in Addrs
    BY DEF TypeOK, Idle
  <2> QED
    BY <2>1, <2>2, <2>3 DEF Frees, TypeOK, Live
<1>7. ASSUME CommOpenReturns
      PROVE  TypeOK'
  <2>1. call.at \in Addrs /\ Frees(call.at)
    BY <1>7, EndEffect DEF CommOpenReturns, Ends, TypeOK, Idle
  <2> QED
    BY <1>7, <2>1 DEF Frees, CommOpenReturns, TypeOK, Idle
<1>8. ASSUME NEW id \in Ids, NEW t \in Targets, CommOpenRefused(id, t)
      PROVE  TypeOK'
  BY <1>8 DEF CommOpenRefused, TypeOK, Live, Idle
<1>9. ASSUME NEW op \in {"msg", "close"}, NEW id \in Ids, CommHandler(op, id)
      PROVE  TypeOK'
  BY <1>9 DEF CommHandler, Call, TypeOK, Live
<1>10. CASE CommMsgReturns \/ CommCloseThrows
  BY <1>10 DEF CommMsgReturns, CommCloseThrows, TypeOK, Live, Idle
<1>11. CASE CommCloseReturns
  <2>1. Erases /\ call' = Idle
    BY <1>11, CloseEffect DEF CommCloseReturns
  <2>2. m_comms' \in [Ids -> Addrs \cup {None}]
    BY <1>11 DEF CommCloseReturns, unregister_comm, TypeOK
  <2> QED
    BY <2>1, <2>2 DEF Erases, TypeOK, Live, Idle
<1>12. CASE UNCHANGED vars
  BY <1>12 DEF vars, TypeOK, Live
<1> QED
  BY <1>1, <1>2, <1>3, <1>4, <1>5, <1>6, <1>7, <1>8, <1>9, <1>10, <1>11, <1>12
  DEF Next, AuthorStep, RequestStep, NoSuchComm, NewObject

---------------------------------------------------------------------------
(* Preservation *)

LEMMA UniqueStep ==
    ASSUME TypeOK, IdsAreIssued, UniqueOwners, [Next]_vars
    PROVE  UniqueOwners'
<1> USE NoneDistinct, FreshFlagsAssumption, ObjectFacts
<1> SUFFICES ASSUME NEW c \in Addrs, NEW d \in Addrs, object'[c] # None, ~object'[c].spent,
                    object'[d] # None, ~object'[d].spent, object'[c].id = object'[d].id
             PROVE  c = d
  BY DEF UniqueOwners, Usable, Live
<1>1. ASSUME KeepsObjects
      PROVE  c = d
  BY <1>1 DEF KeepsObjects, Live, Usable, UniqueOwners, IdsAreIssued
<1>2. ASSUME NEW a \in Addrs, NEW id \in Ids, Creates(a, id)
      PROVE  c = d
  BY <1>2 DEF Creates, Live, Usable, UniqueOwners, IdsAreIssued
<1>3. ASSUME NEW a \in Addrs, NEW b \in Addrs, Moves(a, b)
      PROVE  c = d
  BY <1>3 DEF Moves, Live, Usable, UniqueOwners, IdsAreIssued
<1>4. ASSUME NEW b \in Addrs, NEW id \in Ids, Reassigns(b, id)
      PROVE  c = d
  BY <1>4 DEF Reassigns, Live, Usable, UniqueOwners, IdsAreIssued
<1>5. ASSUME NEW a \in Addrs, Installs(a)
      PROVE  c = d
  BY <1>5 DEF Installs, Live, Usable, UniqueOwners, IdsAreIssued
<1>6. ASSUME NEW a \in Addrs, Frees(a)
      PROVE  c = d
  BY <1>6 DEF Frees, Live, Usable, UniqueOwners, IdsAreIssued
<1>7. ASSUME Erases
      PROVE  c = d
  BY <1>7 DEF Erases, Live, Usable, UniqueOwners, IdsAreIssued
<1>8. ASSUME NEW a \in Addrs, SelfMoves(a)
      PROVE  c = d
  BY <1>8 DEF SelfMoves, Live, Usable, UniqueOwners, IdsAreIssued
<1> QED
  BY StepKinds, <1>1, <1>2, <1>3, <1>4, <1>5, <1>6, <1>7, <1>8

LEMMA SpentStep ==
    ASSUME TypeOK, SpentIsMarked, [Next]_vars
    PROVE  SpentIsMarked'
<1> USE NoneDistinct, FreshFlagsAssumption, ObjectFacts
<1> SUFFICES ASSUME NEW c \in Addrs, object'[c] # None, object'[c].spent
             PROVE  object'[c].moved_from
  BY DEF SpentIsMarked, Live
<1>1. ASSUME KeepsObjects
      PROVE  object'[c].moved_from
  BY <1>1 DEF KeepsObjects, Live, Usable, SpentIsMarked
<1>2. ASSUME NEW a \in Addrs, NEW id \in Ids, Creates(a, id)
      PROVE  object'[c].moved_from
  BY <1>2 DEF Creates, Live, Usable, SpentIsMarked
<1>3. ASSUME NEW a \in Addrs, NEW b \in Addrs, Moves(a, b)
      PROVE  object'[c].moved_from
  BY <1>3 DEF Moves, Live, Usable, SpentIsMarked
<1>4. ASSUME NEW b \in Addrs, NEW id \in Ids, Reassigns(b, id)
      PROVE  object'[c].moved_from
  BY <1>4 DEF Reassigns, Live, Usable, SpentIsMarked
<1>5. ASSUME NEW a \in Addrs, Installs(a)
      PROVE  object'[c].moved_from
  BY <1>5 DEF Installs, Live, Usable, SpentIsMarked
<1>6. ASSUME NEW a \in Addrs, Frees(a)
      PROVE  object'[c].moved_from
  BY <1>6 DEF Frees, Live, Usable, SpentIsMarked
<1>7. ASSUME Erases
      PROVE  object'[c].moved_from
  BY <1>7 DEF Erases, Live, Usable, SpentIsMarked
<1>8. ASSUME NEW a \in Addrs, SelfMoves(a)
      PROVE  object'[c].moved_from
  BY <1>8 DEF SelfMoves, Live, Usable, SpentIsMarked
<1> QED
  BY StepKinds, <1>1, <1>2, <1>3, <1>4, <1>5, <1>6, <1>7, <1>8

LEMMA HandlersStep ==
    ASSUME ~SelfMove, TypeOK, UniqueOwners, HandlersKept, IdsAreIssued, [Next]_vars
    PROVE  HandlersKept'
<1> USE NoneDistinct, FreshFlagsAssumption, ObjectFacts
<1> DEFINE Has(c) == object'[c].handlers = IF object'[c].spent THEN None ELSE installed'[object'[c].id]
<1> SUFFICES ASSUME NEW c \in Addrs, object'[c] # None PROVE Has(c)
  BY DEF HandlersKept, HandlersOf, Live
<1>1. ASSUME KeepsObjects
      PROVE  Has(c)
  BY <1>1 DEF KeepsObjects, TypeOK, Live, Usable, UniqueOwners, HandlersKept, HandlersOf, IdsAreIssued
<1>2. ASSUME NEW a \in Addrs, NEW id \in Ids, Creates(a, id)
      PROVE  Has(c)
  BY <1>2 DEF Creates, TypeOK, Live, Usable, UniqueOwners, HandlersKept, HandlersOf, IdsAreIssued
<1>3. ASSUME NEW a \in Addrs, NEW b \in Addrs, Moves(a, b)
      PROVE  Has(c)
  BY <1>3 DEF Moves, TypeOK, Live, Usable, UniqueOwners, HandlersKept, HandlersOf, IdsAreIssued
<1>4. ASSUME NEW b \in Addrs, NEW id \in Ids, Reassigns(b, id)
      PROVE  Has(c)
  BY <1>4 DEF Reassigns, TypeOK, Live, Usable, UniqueOwners, HandlersKept, HandlersOf, IdsAreIssued
<1>5. ASSUME NEW a \in Addrs, Installs(a)
      PROVE  Has(c)
  BY <1>5 DEF Installs, TypeOK, Live, Usable, UniqueOwners, HandlersKept, HandlersOf, IdsAreIssued
<1>6. ASSUME NEW a \in Addrs, Frees(a)
      PROVE  Has(c)
  BY <1>6 DEF Frees, TypeOK, Live, Usable, UniqueOwners, HandlersKept, HandlersOf, IdsAreIssued
<1>7. ASSUME Erases
      PROVE  Has(c)
  BY <1>7 DEF Erases, TypeOK, Live, Usable, UniqueOwners, HandlersKept, HandlersOf, IdsAreIssued
<1>8. ASSUME NEW a \in Addrs, SelfMoves(a)
      PROVE  Has(c)
  BY <1>8 DEF SelfMoves, TypeOK, Live, Usable, UniqueOwners, HandlersKept, HandlersOf, IdsAreIssued
<1> QED
  BY StepKinds, <1>1, <1>2, <1>3, <1>4, <1>5, <1>6, <1>7, <1>8

LEMMA IssuedStep ==
    ASSUME TypeOK, IdsAreIssued, [Next]_vars
    PROVE  IdsAreIssued'
<1> USE NoneDistinct, ObjectFacts
<1>1. ASSUME KeepsObjects
      PROVE  IdsAreIssued'
  BY <1>1 DEF KeepsObjects, Live, Usable, IdsAreIssued, TypeOK
<1>2. ASSUME NEW a \in Addrs, NEW id \in Ids, Creates(a, id)
      PROVE  IdsAreIssued'
  BY <1>2 DEF Creates, Live, Usable, IdsAreIssued, TypeOK
<1>3. ASSUME NEW a \in Addrs, NEW b \in Addrs, Moves(a, b)
      PROVE  IdsAreIssued'
  BY <1>3 DEF Moves, Live, Usable, IdsAreIssued, TypeOK
<1>4. ASSUME NEW b \in Addrs, NEW id \in Ids, Reassigns(b, id)
      PROVE  IdsAreIssued'
  BY <1>4 DEF Reassigns, Live, Usable, IdsAreIssued, TypeOK
<1>5. ASSUME NEW a \in Addrs, Installs(a)
      PROVE  IdsAreIssued'
  BY <1>5 DEF Installs, Live, Usable, IdsAreIssued, TypeOK
<1>6. ASSUME NEW a \in Addrs, Frees(a)
      PROVE  IdsAreIssued'
  BY <1>6 DEF Frees, Live, Usable, IdsAreIssued, TypeOK
<1>7. ASSUME Erases
      PROVE  IdsAreIssued'
  BY <1>7 DEF Erases, Live, Usable, IdsAreIssued, TypeOK
<1>8. ASSUME NEW a \in Addrs, SelfMoves(a)
      PROVE  IdsAreIssued'
  BY <1>8 DEF SelfMoves, Live, Usable, IdsAreIssued, TypeOK
<1> QED
  BY StepKinds, <1>1, <1>2, <1>3, <1>4, <1>5, <1>6, <1>7, <1>8

LEMMA MarkedStep ==
    ASSUME FreshFlags = {FALSE}, ~SelfMove, TypeOK, MarkedIsSpent, [Next]_vars
    PROVE  MarkedIsSpent'
<1> USE NoneDistinct, FreshFlagsAssumption, ObjectFacts
<1> SUFFICES ASSUME NEW c \in Addrs, object'[c] # None, object'[c].moved_from
             PROVE  object'[c].spent
  BY DEF MarkedIsSpent, Live
<1>1. ASSUME KeepsObjects
      PROVE  object'[c].spent
  BY <1>1 DEF KeepsObjects, Live, Usable, MarkedIsSpent
<1>2. ASSUME NEW a \in Addrs, NEW id \in Ids, Creates(a, id)
      PROVE  object'[c].spent
  BY <1>2 DEF Creates, Live, Usable, MarkedIsSpent
<1>3. ASSUME NEW a \in Addrs, NEW b \in Addrs, Moves(a, b)
      PROVE  object'[c].spent
  BY <1>3 DEF Moves, Live, Usable, MarkedIsSpent
<1>4. ASSUME NEW b \in Addrs, NEW id \in Ids, Reassigns(b, id)
      PROVE  object'[c].spent
  BY <1>4 DEF Reassigns, Live, Usable, MarkedIsSpent
<1>5. ASSUME NEW a \in Addrs, Installs(a)
      PROVE  object'[c].spent
  BY <1>5 DEF Installs, Live, Usable, MarkedIsSpent
<1>6. ASSUME NEW a \in Addrs, Frees(a)
      PROVE  object'[c].spent
  BY <1>6 DEF Frees, Live, Usable, MarkedIsSpent
<1>7. ASSUME Erases
      PROVE  object'[c].spent
  BY <1>7 DEF Erases, Live, Usable, MarkedIsSpent
<1>8. ASSUME NEW a \in Addrs, SelfMoves(a)
      PROVE  object'[c].spent
  BY <1>8 DEF SelfMoves, Live, Usable, MarkedIsSpent
<1> QED
  BY StepKinds, <1>1, <1>2, <1>3, <1>4, <1>5, <1>6, <1>7, <1>8

LEMMA EntryStep ==
    ASSUME TypeOK, UniqueOwners, SpentIsMarked, MarkedIsSpent, NoDangling, [Next]_vars
    PROVE  NoDangling'
<1> USE NoneDistinct, FreshFlagsAssumption, ObjectFacts
<1> SUFFICES ASSUME NEW i \in Ids, m_comms'[i] # None
             PROVE  /\ object'[m_comms'[i]] # None /\ ~object'[m_comms'[i]].spent
                     /\ object'[m_comms'[i]].id = i
  BY DEF NoDangling, Usable, Live
<1>1. ASSUME KeepsObjects
      PROVE  /\ object'[m_comms'[i]] # None /\ ~object'[m_comms'[i]].spent
                     /\ object'[m_comms'[i]].id = i
  BY <1>1 DEF KeepsObjects, Live, Usable, UniqueOwners, SpentIsMarked, MarkedIsSpent, NoDangling, TypeOK
<1>2. ASSUME NEW a \in Addrs, NEW id \in Ids, Creates(a, id)
      PROVE  /\ object'[m_comms'[i]] # None /\ ~object'[m_comms'[i]].spent
                     /\ object'[m_comms'[i]].id = i
  BY <1>2 DEF Creates, Live, Usable, UniqueOwners, SpentIsMarked, MarkedIsSpent, NoDangling, TypeOK
<1>3. ASSUME NEW a \in Addrs, NEW b \in Addrs, Moves(a, b)
      PROVE  /\ object'[m_comms'[i]] # None /\ ~object'[m_comms'[i]].spent
                     /\ object'[m_comms'[i]].id = i
  BY <1>3 DEF Moves, Live, Usable, UniqueOwners, SpentIsMarked, MarkedIsSpent, NoDangling, TypeOK
<1>4. ASSUME NEW b \in Addrs, NEW id \in Ids, Reassigns(b, id)
      PROVE  /\ object'[m_comms'[i]] # None /\ ~object'[m_comms'[i]].spent
                     /\ object'[m_comms'[i]].id = i
  BY <1>4 DEF Reassigns, Live, Usable, UniqueOwners, SpentIsMarked, MarkedIsSpent, NoDangling, TypeOK
<1>5. ASSUME NEW a \in Addrs, Installs(a)
      PROVE  /\ object'[m_comms'[i]] # None /\ ~object'[m_comms'[i]].spent
                     /\ object'[m_comms'[i]].id = i
  BY <1>5 DEF Installs, Live, Usable, UniqueOwners, SpentIsMarked, MarkedIsSpent, NoDangling, TypeOK
<1>6. ASSUME NEW a \in Addrs, Frees(a)
      PROVE  /\ object'[m_comms'[i]] # None /\ ~object'[m_comms'[i]].spent
                     /\ object'[m_comms'[i]].id = i
  BY <1>6 DEF Frees, Live, Usable, UniqueOwners, SpentIsMarked, MarkedIsSpent, NoDangling, TypeOK
<1>7. ASSUME Erases
      PROVE  /\ object'[m_comms'[i]] # None /\ ~object'[m_comms'[i]].spent
                     /\ object'[m_comms'[i]].id = i
  BY <1>7 DEF Erases, Live, Usable, UniqueOwners, SpentIsMarked, MarkedIsSpent, NoDangling, TypeOK
<1>8. ASSUME NEW a \in Addrs, SelfMoves(a)
      PROVE  /\ object'[m_comms'[i]] # None /\ ~object'[m_comms'[i]].spent
                     /\ object'[m_comms'[i]].id = i
  BY <1>8 DEF SelfMoves, Live, Usable, UniqueOwners, SpentIsMarked, MarkedIsSpent, NoDangling, TypeOK
<1> QED
  BY StepKinds, <1>1, <1>2, <1>3, <1>4, <1>5, <1>6, <1>7, <1>8

LEMMA ReachStep ==
    ASSUME ~Reassign, TypeOK, UniqueOwners, SpentIsMarked, IdsAreIssued, LiveIsRegistered, [Next]_vars
    PROVE  LiveIsRegistered'
<1> USE NoneDistinct, FreshFlagsAssumption, ObjectFacts
<1> SUFFICES ASSUME NEW c \in Addrs, object'[c] # None, ~object'[c].spent, object'[c].id \notin closed'
             PROVE  m_comms'[object'[c].id] = c
  BY DEF LiveIsRegistered, Usable, Live
<1>1. ASSUME KeepsObjects
      PROVE  m_comms'[object'[c].id] = c
  BY <1>1 DEF KeepsObjects, Live, Usable, Assignable, UniqueOwners, SpentIsMarked, IdsAreIssued, LiveIsRegistered
<1>2. ASSUME NEW a \in Addrs, NEW id \in Ids, Creates(a, id)
      PROVE  m_comms'[object'[c].id] = c
  BY <1>2 DEF Creates, Live, Usable, Assignable, UniqueOwners, SpentIsMarked, IdsAreIssued, LiveIsRegistered
<1>3. ASSUME NEW a \in Addrs, NEW b \in Addrs, Moves(a, b)
      PROVE  m_comms'[object'[c].id] = c
  BY <1>3 DEF Moves, Live, Usable, Assignable, UniqueOwners, SpentIsMarked, IdsAreIssued, LiveIsRegistered
<1>4. ASSUME NEW b \in Addrs, NEW id \in Ids, Reassigns(b, id)
      PROVE  m_comms'[object'[c].id] = c
  BY <1>4 DEF Reassigns, Live, Usable, Assignable, UniqueOwners, SpentIsMarked, IdsAreIssued, LiveIsRegistered
<1>5. ASSUME NEW a \in Addrs, Installs(a)
      PROVE  m_comms'[object'[c].id] = c
  BY <1>5 DEF Installs, Live, Usable, Assignable, UniqueOwners, SpentIsMarked, IdsAreIssued, LiveIsRegistered
<1>6. ASSUME NEW a \in Addrs, Frees(a)
      PROVE  m_comms'[object'[c].id] = c
  BY <1>6 DEF Frees, Live, Usable, Assignable, UniqueOwners, SpentIsMarked, IdsAreIssued, LiveIsRegistered
<1>7. ASSUME Erases
      PROVE  m_comms'[object'[c].id] = c
  BY <1>7 DEF Erases, Live, Usable, Assignable, UniqueOwners, SpentIsMarked, IdsAreIssued, LiveIsRegistered
<1>8. ASSUME NEW a \in Addrs, SelfMoves(a)
      PROVE  m_comms'[object'[c].id] = c
  BY <1>8 DEF SelfMoves, Live, Usable, Assignable, UniqueOwners, SpentIsMarked, IdsAreIssued, LiveIsRegistered
<1> QED
  BY StepKinds, <1>1, <1>2, <1>3, <1>4, <1>5, <1>6, <1>7, <1>8

---------------------------------------------------------------------------
(* Invariance *)

\* XComm keeps its types.
THEOREM TypeCorrect == Spec => []TypeOK
<1>1. TypeOK /\ [Next]_vars => TypeOK'
  BY TypeStep
<1> QED
  BY TypeInit, <1>1, PTL DEF Spec

LEMMA InitFacts ==
    ASSUME Init
    PROVE  /\ BaseInv /\ LiveIsRegistered /\ EntryInv /\ HandlersKept
           /\ \A a \in Addrs : ~Live(a)
BY TypeInit, NoneDistinct
DEF Init, Live, Usable, BaseInv, UniqueOwners, SpentIsMarked, IdsAreIssued, HandlersKept,
  LiveIsRegistered, EntryInv, MarkedIsSpent, NoDangling

\* No id has two owners, and what was moved from says so, whatever the flags,
\* the assignments and the moves.
THEOREM BaseCorrect == Spec => []BaseInv
<1>1. Init => BaseInv
  BY InitFacts
<1>2. BaseInv /\ [Next]_vars => BaseInv'
  BY TypeStep, UniqueStep, SpentStep, IssuedStep DEF BaseInv
<1> QED
  BY <1>1, <1>2, PTL DEF Spec

\* When m_moved_from starts FALSE and nobody moves a comm onto itself, no
\* sequence of copies, moves, assignments (to objects that were moved from too)
\* and destructions leaves an entry of the registry that points to anything but
\* the live owner of its id.
THEOREM NothingDangles == FreshFlags = {FALSE} /\ ~SelfMove => (Spec => []NoDangling)
<1> SUFFICES ASSUME FreshFlags = {FALSE}, ~SelfMove PROVE Spec => []NoDangling
  OBVIOUS
<1>1. Init => EntryInv
  BY InitFacts
<1>2. BaseInv /\ EntryInv /\ [Next]_vars => EntryInv'
  BY MarkedStep, EntryStep DEF BaseInv, EntryInv
<1>3. EntryInv => NoDangling
  BY DEF EntryInv
<1> QED
  BY <1>1, <1>2, <1>3, BaseCorrect, PTL DEF Spec

\* When nobody assigns to an object that was moved from, each comm that is
\* alive and was not closed is registered at its present address, whatever
\* the constructor left in m_moved_from and whatever is moved onto itself.
THEOREM OwnersAreRegistered == ~Reassign => (Spec => []LiveIsRegistered)
<1> SUFFICES ASSUME ~Reassign PROVE Spec => []LiveIsRegistered
  OBVIOUS
<1>1. Init => LiveIsRegistered
  BY InitFacts
<1>2. BaseInv /\ LiveIsRegistered /\ [Next]_vars => LiveIsRegistered'
  BY ReachStep DEF BaseInv
<1> QED
  BY <1>1, <1>2, BaseCorrect, PTL DEF Spec

\* Under the three disciplines the inductive invariant holds as a whole: ids
\* have one owner, who knows whether it was moved from and has its handlers, and
\* the entries of the registry are the owners.
THEOREM RegistryCoherent == FreshFlags = {FALSE} /\ ~SelfMove /\ ~Reassign => (Spec => []CommInv)
<1> SUFFICES ASSUME FreshFlags = {FALSE}, ~SelfMove, ~Reassign PROVE Spec => []CommInv
  OBVIOUS
<1>1. Init => CommInv
  BY InitFacts DEF CommInv
<1>2. CommInv /\ [Next]_vars => CommInv'
  <2> SUFFICES ASSUME CommInv, [Next]_vars PROVE CommInv'
    OBVIOUS
  <2>1. /\ TypeOK /\ UniqueOwners /\ SpentIsMarked /\ IdsAreIssued /\ HandlersKept
        /\ MarkedIsSpent /\ NoDangling /\ LiveIsRegistered
    BY DEF CommInv, BaseInv, EntryInv
  <2>2. TypeOK' /\ UniqueOwners' /\ SpentIsMarked' /\ IdsAreIssued' /\ HandlersKept'
    BY <2>1, TypeStep, UniqueStep, SpentStep, IssuedStep, HandlersStep
  <2>3. MarkedIsSpent' /\ NoDangling'
    BY <2>1, MarkedStep, EntryStep
  <2>4. LiveIsRegistered'
    BY <2>1, ReachStep
  <2> QED
    BY <2>2, <2>3, <2>4 DEF CommInv, BaseInv, EntryInv
<1> QED
  BY <1>1, <1>2, PTL DEF Spec

\* A message for a registered comm runs the handlers that its owner installed
\* since it has its id, else none, or those that operator=(const xcomm&) kept
\* of the comm that the object stood for before.
THEOREM MessagesReachHandlers ==
    FreshFlags = {FALSE} /\ ~SelfMove => (Spec => []HandlersFollow)
<1> SUFFICES ASSUME FreshFlags = {FALSE}, ~SelfMove PROVE Spec => []HandlersFollow
  OBVIOUS
<1>1. Init => HandlersKept
  BY InitFacts
<1>2. BaseInv /\ HandlersKept /\ [Next]_vars => HandlersKept'
  BY HandlersStep DEF BaseInv
<1>3. BaseInv /\ HandlersKept /\ NoDangling => HandlersFollow
  BY DEF BaseInv, TypeOK, HandlersKept, HandlersOf, Usable, NoDangling, HandlersFollow
<1> QED
  BY <1>1, <1>2, <1>3, BaseCorrect, NothingDangles, PTL DEF Spec

\* Under the three disciplines comm_info_reply is the truth about every target.
THEOREM InfoCorrect ==
    FreshFlags = {FALSE} /\ ~SelfMove /\ ~Reassign => (Spec => []InfoIsTruthful)
<1> SUFFICES ASSUME FreshFlags = {FALSE}, ~SelfMove, ~Reassign PROVE Spec => []InfoIsTruthful
  OBVIOUS
<1>1. ASSUME TypeOK, NoDangling, LiveIsRegistered PROVE InfoIsTruthful
  <2> SUFFICES ASSUME NEW t \in Targets
               PROVE  LET owned == {object[a].id : a \in {b \in Addrs : Usable(b) /\ object[b].target = t}}
                      IN  CommInfo(t) \subseteq owned /\ owned \ closed \subseteq CommInfo(t)
    BY DEF InfoIsTruthful
  <2> DEFINE owned == {object[a].id : a \in {b \in Addrs : Usable(b) /\ object[b].target = t}}
  <2>1. ASSUME NEW id \in CommInfo(t) PROVE id \in owned
    BY <1>1, <2>1 DEF CommInfo, NoDangling, TypeOK
  <2>2. ASSUME NEW a \in Addrs, Usable(a), object[a].target = t, object[a].id \notin closed
        PROVE  object[a].id \in CommInfo(t)
    BY <1>1, <2>2, ObjectFacts, NoneDistinct DEF CommInfo, LiveIsRegistered, Usable
  <2> QED
    BY <2>1, <2>2
<1>2. BaseInv => TypeOK
  BY DEF BaseInv
<1> QED
  BY <1>1, <1>2, BaseCorrect, NothingDangles, OwnersAreRegistered, PTL

\* When nobody assigns to an object that was moved from, an id leaves the
\* registry only when a client closes its comm or when its owner gives it up.
THEOREM EntriesStay == ~Reassign => (Spec => EntriesNotLost)
<1> SUFFICES ASSUME ~Reassign PROVE Spec => EntriesNotLost
  OBVIOUS
<1> DEFINE Kept == \A id \in Ids : m_comms[id] # None /\ m_comms'[id] = None =>
                      id \in closed' \/ Disowned(id)
<1>1. ASSUME BaseInv, [Next]_vars PROVE Kept
  <2> SUFFICES ASSUME NEW id \in Ids, m_comms[id] # None, m_comms'[id] = None, id \notin closed',
                      NEW c \in Addrs, object'[c] # None, object'[c].id = id
               PROVE  object'[c].spent
    BY DEF Disowned
  <2> USE NoneDistinct, ObjectFacts
  <2>1. TypeOK /\ UniqueOwners /\ SpentIsMarked
    BY <1>1 DEF BaseInv
  <2>2. CASE KeepsObjects
    BY <2>2 DEF KeepsObjects
  <2>3. ASSUME NEW a \in Addrs, NEW i \in Ids, Creates(a, i) PROVE FALSE
    BY <2>3 DEF Creates
  <2>4. ASSUME NEW a \in Addrs, NEW b \in Addrs, Moves(a, b) PROVE object'[c].spent
    BY <2>1, <2>4 DEF Moves, Assignable, UniqueOwners, Usable, Live
  <2>5. ASSUME NEW b \in Addrs, NEW i \in Ids, Reassigns(b, i) PROVE object'[c].spent
    BY <2>1, <2>5 DEF Reassigns, Assignable, UniqueOwners, Usable, Live
  <2>6. ASSUME NEW a \in Addrs, Installs(a) PROVE FALSE
    BY <2>6 DEF Installs
  <2>7. ASSUME NEW a \in Addrs, Frees(a) PROVE object'[c].spent
    BY <2>1, <2>7 DEF Frees, UniqueOwners, SpentIsMarked, Usable, Live
  <2>8. ~Erases
    BY DEF Erases
  <2>9. ASSUME NEW a \in Addrs, SelfMoves(a) PROVE FALSE
    BY <2>9 DEF SelfMoves
  <2> QED
    BY <1>1, <2>1, StepKinds, <2>2, <2>3, <2>4, <2>5, <2>6, <2>7, <2>8, <2>9
<1>2. BaseInv /\ [Next]_vars => [Kept]_vars
  BY <1>1
<1> QED
  BY <1>2, BaseCorrect, PTL DEF Spec, EntriesNotLost
=============================================================================
