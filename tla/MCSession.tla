----------------------------- MODULE MCSession ------------------------------
(* Model-checking instances of Session.tla. *)
EXTENDS Session, TLC
=============================================================================
