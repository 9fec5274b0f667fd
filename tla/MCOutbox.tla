------------------------------ MODULE MCOutbox ------------------------------
(***************************************************************************)
(* Outbox for TLC.  Processes, jobs and tasks have random ids in the code  *)
(* and are interchangeable.                                                *)
(***************************************************************************)
EXTENDS Outbox, TLC

Symmetry ==
  Permutations(Workers) \cup Permutations(Clients) \cup Permutations(Jobs)
    \cup Permutations(Tasks) \cup Permutations(Runs)
=============================================================================
