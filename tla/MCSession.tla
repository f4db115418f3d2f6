----------------------------- MODULE MCSession -----------------------------
(***************************************************************************)
(* An instance of Session for TLC; its .cfg gives the bound on prompts.    *)
(***************************************************************************)
EXTENDS Session
===========================================================================
