--------------------------- MODULE MCCredentials ----------------------------
(* Model-checking instances of Credentials.tla. *)
EXTENDS Credentials, TLC

CONSTANTS k1, k2, k3, p1, p2

\* Two calls of one process, and one of another.
TwoHomes == [c \in Calls |-> IF c = k3 THEN p2 ELSE p1]
=============================================================================
