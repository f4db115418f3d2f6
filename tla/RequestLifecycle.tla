------------------------- MODULE RequestLifecycle -------------------------
(***************************************************************************)
(* What a client may rely on for each of its requests, whatever the type   *)
(* of the message and whatever the other requests do: "busy" is published  *)
(* once, then at most one reply, then "idle" once, after the reply when    *)
(* there is one.  A request that is never started may be aborted by one    *)
(* reply, and is then never started.                                       *)
(***************************************************************************)
CONSTANT Requests

VARIABLE phase

Phases == {"unsent", "pending", "aborted", "busy", "replied", "idle"}

Init == phase = [r \in Requests |-> "unsent"]

Step(r, from, to) == phase[r] \in from /\ phase' = [phase EXCEPT ![r] = to]

Send(r)   == Step(r, {"unsent"}, "pending")
Start(r)  == Step(r, {"pending"}, "busy")
Answer(r) == Step(r, {"busy"}, "replied")
Finish(r) == Step(r, {"busy", "replied"}, "idle")
Abort(r)  == Step(r, {"pending"}, "aborted")

Next == \E r \in Requests : Send(r) \/ Start(r) \/ Answer(r) \/ Finish(r) \/ Abort(r)

Spec == Init /\ [][Next]_phase
===========================================================================
