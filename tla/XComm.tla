------------------------------- MODULE XComm -------------------------------
(***************************************************************************)
(* The registry of comms: xcomm_manager maps the id of each comm to the    *)
(* address of the xcomm object that stands for it, and xcomm keeps that    *)
(* entry right through its constructors, assignments and destructor,       *)
(* wherever the author of a kernel copies or moves it.  Clients reach a    *)
(* comm through the registry only: comm_open creates a temporary object    *)
(* and hands it to the callback of a target, comm_msg and comm_close call  *)
(* the handlers of the object that the registry points to.                 *)
(*                                                                         *)
(* xguid is a fixed string: moving an id copies it, so an object that was  *)
(* moved from still carries the id that it gave away.                      *)
(***************************************************************************)
EXTENDS Naturals

CONSTANTS
    Addrs,      \* places in memory that can hold an xcomm
    Ids,        \* comm ids; no two comms are ever given the same one
    Targets,    \* names of comm targets
    FreshFlags, \* what an m_moved_from that nobody initialised may hold
    Reassign,   \* TRUE: authors assign to objects that were moved from
    SelfMove,   \* TRUE: authors move objects onto themselves
    None        \* no object, no address, no id

\* An xcomm: handlers is the id that its handlers were installed for, or None;
\* spent is a ghost, TRUE when the object was moved from, which is what
\* moved_from should say.
Comm == [id: Ids, target: Targets, handlers: Ids \cup {None},
         moved_from: BOOLEAN, spent: BOOLEAN]

ASSUME NoneDistinct == None \notin Addrs /\ None \notin Ids /\ None \notin Comm
ASSUME FreshFlagsAssumption == FreshFlags \subseteq BOOLEAN /\ FreshFlags # {}
ASSUME ReassignAssumption == Reassign \in BOOLEAN
ASSUME SelfMoveAssumption == SelfMove \in BOOLEAN

VARIABLES
    object,    \* per address, the xcomm that lives there, or None
    m_comms,   \* per id, the address registered for it, or None
    m_targets, \* names of the registered targets
    call,      \* the comm request that is being handled
    issued,    \* ghost: the ids used so far
    closed,    \* ghost: the ids whose comm was closed for the client
    installed  \* ghost: per id, the id whose handlers its messages should run

vars == <<object, m_comms, m_targets, call, issued, closed, installed>>

Idle == [op |-> "idle", id |-> None, at |-> None]
Call(op, id, a) == [op |-> op, id |-> id, at |-> a]

Init ==
    /\ object = [a \in Addrs |-> None]
    /\ m_comms = [id \in Ids |-> None]
    /\ m_targets = {}
    /\ call = Idle
    /\ issued = {} /\ closed = {}
    /\ installed = [id \in Ids |-> None]

---------------------------------------------------------------------------
(* xcomm_manager *)

register_comm(id, a) == [m_comms EXCEPT ![id] = a]
unregister_comm(id)  == [m_comms EXCEPT ![id] = None]

Live(a) == object[a] # None
Usable(a) == Live(a) /\ ~object[a].spent
FreshId(id) == id \in Ids \ issued

RegisterTarget(t) ==
    /\ m_targets' = m_targets \cup {t}
    /\ UNCHANGED <<object, m_comms, call, issued, closed, installed>>

\* Erases the node that the p_target of a comm points to: authors have to
\* destroy the comms of a target first, and not call this from its callback.
UnregisterTarget(t) ==
    /\ t \in m_targets
    /\ \A a \in Addrs : Live(a) => object[a].target # t
    /\ m_targets' = m_targets \ {t}
    /\ UNCHANGED <<object, m_comms, call, issued, closed, installed>>

---------------------------------------------------------------------------
(* xcomm: what the author of a kernel does with objects, in the callbacks *)
(* of comm requests and between them                                      *)

\* xcomm(const xtarget*, xguid), which does not initialise m_moved_from.
NewCommWithoutId(id, t, flag) ==                                                  \* mutant
    [id |-> None, target |-> t, handlers |-> None, moved_from |-> flag, spent |-> FALSE]
NewComm(id, t, flag) ==
    [id |-> id, target |-> t, handlers |-> None, moved_from |-> flag, spent |-> FALSE]

Construct(a, id, t) ==
    /\ ~Live(a) /\ FreshId(id) /\ t \in m_targets
    /\ \E flag \in FreshFlags : object' = [object EXCEPT ![a] = NewComm(id, t, flag)]
    /\ m_comms' = register_comm(id, a)
    /\ issued' = issued \cup {id}
    /\ UNCHANGED <<m_targets, call, closed, installed>>

\* What is left of an object whose contents were moved.
MovedFromUnmarked(a) == [object[a] EXCEPT !.handlers = None, !.spent = TRUE]      \* mutant
MovedFrom(a) == [object[a] EXCEPT !.handlers = None, !.moved_from = TRUE, !.spent = TRUE]

\* What the object that is moved into holds.
MovedWithoutHandlers(a) == [object[a] EXCEPT !.handlers = None, !.moved_from = FALSE] \* mutant
MovedInto(a) == [object[a] EXCEPT !.moved_from = FALSE]

\* xcomm(xcomm&&)
MoveConstruct(a, b) ==
    /\ Usable(a) /\ ~Live(b)
    /\ object' = [object EXCEPT ![a] = MovedFrom(a), ![b] = MovedInto(a)]
    /\ m_comms' = register_comm(object[a].id, b)
    /\ UNCHANGED <<m_targets, call, issued, closed, installed>>

\* xcomm(const xcomm&): the handlers are not copied.
CopyConstruct(a, b, id) ==
    /\ Usable(a) /\ ~Live(b) /\ FreshId(id)
    /\ object' = [object EXCEPT ![b] = NewComm(id, object[a].target, FALSE)]
    /\ m_comms' = register_comm(id, b)
    /\ issued' = issued \cup {id}
    /\ UNCHANGED <<m_targets, call, closed, installed>>

\* What an assignment to an object may assume of it.
Assignable(b) == Live(b) /\ (object[b].spent => Reassign)

\* The registry once b took the id of another comm.
ReplaceKeepingOld(b, id) == register_comm(id, b)                                  \* mutant
Replace(b, id) == [unregister_comm(object[b].id) EXCEPT ![id] = b]

\* What an object is that was moved onto itself: the flag is reset first and
\* set last, and std::function does not say what it leaves of its handlers.
MovedOntoItself(a) ==
    {[object[a] EXCEPT !.handlers = h, !.moved_from = TRUE] : h \in {object[a].handlers, None}}

\* The objects after a move into b, which may be a itself.
AfterMove(a, b) ==
    IF a = b THEN {[object EXCEPT ![a] = comm] : comm \in MovedOntoItself(a)}
             ELSE {[object EXCEPT ![a] = MovedFrom(a), ![b] = MovedInto(a)]}

\* operator=(xcomm&&)
MoveAssign(a, b) ==
    /\ Usable(a) /\ Assignable(b) /\ (a = b => SelfMove)
    /\ object' \in AfterMove(a, b)
    /\ m_comms' = Replace(b, object[a].id)
    /\ UNCHANGED <<m_targets, call, issued, closed, installed>>

\* What operator=(const xcomm&) makes of b: a comm with a new id and the
\* handlers of the comm that b stood for.
CopiedOverWithHandlers(a, b, id) ==                                               \* mutant
    [object[b] EXCEPT !.id = id, !.target = object[a].target, !.moved_from = FALSE,
                      !.spent = FALSE, !.handlers = object[a].handlers]
CopiedOver(a, b, id) ==
    [object[b] EXCEPT !.id = id, !.target = object[a].target, !.moved_from = FALSE,
                      !.spent = FALSE]

\* The handlers that b has are those of its comm, none if it was moved from.
HandlersOf(b) == IF object[b].spent THEN None ELSE installed[object[b].id]

\* operator=(const xcomm&)
CopyAssign(a, b, id) ==
    /\ Usable(a) /\ Assignable(b) /\ FreshId(id)
    /\ object' = [object EXCEPT ![b] = CopiedOver(a, b, id)]
    /\ m_comms' = Replace(b, id)
    /\ issued' = issued \cup {id}
    /\ installed' = [installed EXCEPT ![id] = HandlersOf(b)]
    /\ UNCHANGED <<m_targets, call, closed>>

\* on_message, on_close: the author installs both handlers.
Listen(a) ==
    /\ Usable(a)
    /\ object' = [object EXCEPT ![a].handlers = object[a].id]
    /\ installed' = [installed EXCEPT ![object[a].id] = object[a].id]
    /\ UNCHANGED <<m_comms, m_targets, call, issued, closed>>

\* ~xcomm
AlwaysUnregisters(a) == unregister_comm(object[a].id)                             \* mutant
NeverUnregisters(a) == m_comms                                                    \* mutant
AfterDestructor(a) == IF object[a].moved_from THEN m_comms ELSE unregister_comm(object[a].id)

\* The temporary of comm_open is not the author's to destroy.
Destroy(a) ==
    /\ Live(a) /\ ~(call.op = "open" /\ call.at = a)
    /\ m_comms' = AfterDestructor(a)
    /\ object' = [object EXCEPT ![a] = None]
    /\ UNCHANGED <<m_targets, call, issued, closed, installed>>

---------------------------------------------------------------------------
(* Requests of the clients, one at a time *)

\* comm_open of a known target: the temporary comm, then the callback.
CommOpen(a, id, t) ==
    /\ call = Idle /\ t \in m_targets /\ FreshId(id) /\ ~Live(a)
    /\ \E flag \in FreshFlags : object' = [object EXCEPT ![a] = NewComm(id, t, flag)]
    /\ m_comms' = register_comm(id, a)
    /\ issued' = issued \cup {id}
    /\ call' = Call("open", id, a)
    /\ UNCHANGED <<m_targets, closed, installed>>

\* The callback returned or threw: the temporary dies, moved from or not.
CommOpenReturns ==
    /\ call.op = "open"
    /\ m_comms' = AfterDestructor(call.at)
    /\ object' = [object EXCEPT ![call.at] = None]
    /\ call' = Idle
    /\ UNCHANGED <<m_targets, issued, closed, installed>>

\* comm_open of an unknown target: comm_close is published.
CommOpenRefused(id, t) ==
    /\ call = Idle /\ t \notin m_targets /\ FreshId(id)
    /\ issued' = issued \cup {id}
    /\ closed' = closed \cup {id}
    /\ UNCHANGED <<object, m_comms, m_targets, call, installed>>

\* comm_close and comm_msg of a registered comm call its handlers...
CommHandler(op, id) ==
    /\ call = Idle /\ m_comms[id] # None
    /\ call' = Call(op, id, m_comms[id])
    /\ UNCHANGED <<object, m_comms, m_targets, issued, closed, installed>>

\* ... and of any other id throw, which dispatch logs.
NoSuchComm(id) ==
    /\ call = Idle /\ m_comms[id] = None
    /\ UNCHANGED vars

CommMsgReturns ==
    /\ call.op = "msg"
    /\ call' = Idle
    /\ UNCHANGED <<object, m_comms, m_targets, issued, closed, installed>>

\* comm_close erases the id that the client named, whatever its handler did.
CommCloseReturns ==
    /\ call.op = "close"
    /\ m_comms' = unregister_comm(call.id)
    /\ closed' = closed \cup {call.id}
    /\ call' = Idle
    /\ UNCHANGED <<object, m_targets, issued, installed>>

CommCloseThrows ==
    /\ call.op = "close"
    /\ call' = Idle
    /\ UNCHANGED <<object, m_comms, m_targets, issued, closed, installed>>

AuthorStep ==
    \/ \E t \in Targets : RegisterTarget(t) \/ UnregisterTarget(t)
    \/ \E a \in Addrs, id \in Ids, t \in Targets : Construct(a, id, t)
    \/ \E a, b \in Addrs : MoveConstruct(a, b) \/ MoveAssign(a, b)
    \/ \E a, b \in Addrs, id \in Ids : CopyConstruct(a, b, id) \/ CopyAssign(a, b, id)
    \/ \E a \in Addrs : Listen(a) \/ Destroy(a)

RequestStep ==
    \/ \E a \in Addrs, id \in Ids, t \in Targets : CommOpen(a, id, t)
    \/ \E id \in Ids, t \in Targets : CommOpenRefused(id, t)
    \/ \E id \in Ids : CommHandler("msg", id) \/ CommHandler("close", id) \/ NoSuchComm(id)
    \/ CommOpenReturns \/ CommMsgReturns \/ CommCloseReturns \/ CommCloseThrows

Next == AuthorStep \/ RequestStep

Spec == Init /\ [][Next]_vars
---------------------------------------------------------------------------
(* Properties *)

\* The types; a temporary of comm_open lives as long as its request.
TypeOK ==
    /\ object \in [Addrs -> Comm \cup {None}]
    /\ m_comms \in [Ids -> Addrs \cup {None}]
    /\ m_targets \subseteq Targets
    /\ call \in {Idle} \cup [op : {"open", "msg", "close"}, id : Ids, at : Addrs]
    /\ call.op = "open" => Live(call.at)
    /\ {issued, closed} \subseteq SUBSET Ids
    /\ installed \in [Ids -> Ids \cup {None}]

\* However comms are copied, moved, assigned and destroyed, the address that
\* comm_msg, comm_close and comm_info_request dereference is that of a live
\* object, the one that has the id and was not moved from.  This takes flags
\* that are FALSE when a constructor returns, and authors who do not move a
\* comm onto itself: after either, a destructor may leave its address behind.
NoDangling ==
    \A id \in Ids : m_comms[id] # None =>
        Usable(m_comms[id]) /\ object[m_comms[id]].id = id

\* A comm that its owner still has and that the client did not close is
\* reachable: the registry has its present address.
LiveIsRegistered ==
    \A a \in Addrs : Usable(a) /\ object[a].id \notin closed => m_comms[object[a].id] = a

\* What a comm message runs, for every comm of the registry and however often
\* it was moved: the handlers that its owner installed since it has its id;
\* else none, unless operator=(const xcomm&) gave it its id, which keeps the
\* handlers of the comm that the object stood for before.
HandlersFollow ==
    \A id \in Ids : m_comms[id] # None => object[m_comms[id]].handlers = installed[id]

\* The ids that comm_info_request lists for a target name.
CommInfo(t) == {id \in Ids : m_comms[id] # None /\ object[m_comms[id]].target = t}

\* comm_info_reply is the truth about every target: all the comms that are
\* alive and not closed, and no comm whose owner is gone, as long as authors do
\* neither of what breaks NoDangling and LiveIsRegistered.
InfoIsTruthful ==
    \A t \in Targets :
        LET owned == {object[a].id : a \in {b \in Addrs : Usable(b) /\ object[b].target = t}}
        IN  CommInfo(t) \subseteq owned /\ owned \ closed \subseteq CommInfo(t)

\* A step takes an id out of the registry only when a client closes the comm
\* or when its owner destroys it or assigns to it.
Disowned(id) == \A a \in Addrs : object'[a] # None /\ object'[a].id = id => object'[a].spent
EntriesNotLost ==
    [][\A id \in Ids : m_comms[id] # None /\ m_comms'[id] = None =>
          id \in closed' \/ Disowned(id)]_vars

---------------------------------------------------------------------------
(* The inductive invariant *)

UniqueOwners ==
    \A a, b \in Addrs : Usable(a) /\ Usable(b) /\ object[a].id = object[b].id => a = b
SpentIsMarked == \A a \in Addrs : Live(a) /\ object[a].spent => object[a].moved_from
MarkedIsSpent == \A a \in Addrs : Live(a) /\ object[a].moved_from => object[a].spent
IdsAreIssued ==
    /\ \A a \in Addrs : Live(a) => object[a].id \in issued
    /\ \A id \in Ids : m_comms[id] # None => id \in issued
    /\ \A id \in Ids \ issued : installed[id] = None
HandlersKept == \A a \in Addrs : Live(a) => object[a].handlers = HandlersOf(a)

\* What holds whatever the flags, the assignments and the moves, and with it
\* the parts of coherence that need a discipline: EntryInv initialised flags
\* and no moves onto itself, LiveIsRegistered no assignment to what was moved
\* from, HandlersKept no moves onto itself.
BaseInv == TypeOK /\ UniqueOwners /\ SpentIsMarked /\ IdsAreIssued
EntryInv == MarkedIsSpent /\ NoDangling

\* No two objects own the same id, an object that was moved from says so, the
\* entries of the registry are the owners, and they have their handlers, under
\* the three disciplines.
CommInv == BaseInv /\ EntryInv /\ LiveIsRegistered /\ HandlersKept
===========================================================================
