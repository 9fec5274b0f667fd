----------------------------- MODULE MCCustody ------------------------------
(***************************************************************************)
(* Custody for TLC.  Handlers and users are interchangeable.               *)
(***************************************************************************)
EXTENDS Custody, TLC

Symmetry == Permutations(Handlers) \cup Permutations(Users)
=============================================================================
