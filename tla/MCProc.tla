------------------------------- MODULE MCProc -------------------------------
(***************************************************************************)
(* Instances of the process table for TLC: the five kernel tasks and a few *)
(* process_t structures that programs share.                               *)
(***************************************************************************)
EXTENDS ProcQueue, TLC

\* The structures of programs are interchangeable.
Symmetry == Permutations(Apps)

=============================================================================
