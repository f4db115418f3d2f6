------------------------------ MODULE MCXComm ------------------------------
(***************************************************************************)
(* Instances for the model checking of XComm.                              *)
(***************************************************************************)
EXTENDS XComm, TLC

Initialised == {FALSE}
Indeterminate == {TRUE, FALSE}
Symmetry == Permutations(Addrs) \cup Permutations(Ids) \cup Permutations(Targets)
===========================================================================
