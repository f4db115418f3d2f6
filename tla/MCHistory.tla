----------------------------- MODULE MCHistory -----------------------------
(***************************************************************************)
(* An instance for the model checking of History.                          *)
(***************************************************************************)
EXTENDS History

CONSTANTS l1, l2, print, assign, three, none

MCLineNumbers == {l1, l2}
MCInputs == {print, assign}
MCOutputs == {three, none}

Symmetry == Permutations(MCLineNumbers) \cup Permutations(MCInputs) \cup Permutations(MCOutputs)
===========================================================================
