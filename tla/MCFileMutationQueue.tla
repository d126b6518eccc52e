------------------------ MODULE MCFileMutationQueue -------------------------
(* Model-checking instances of FileMutationQueue.tla. *)
EXTENDS FileMutationQueue, TLC

CONSTANTS a, b

\* One file, and a symbolic link on the way to it.
Linked == [p \in {a, b} |-> a]
=============================================================================
