--------------------------- MODULE MCFixedString ---------------------------
(***************************************************************************)
(* Instances for the model checking of FixedString.                        *)
(***************************************************************************)
EXTENDS FixedString

NulAndLetter == {0, 1}
===========================================================================
