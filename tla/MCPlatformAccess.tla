-------------------------- MODULE MCPlatformAccess --------------------------
(***************************************************************************)
(* PlatformAccess for TLC: the server and a seed-user command that was     *)
(* built before the last migration.                                        *)
(***************************************************************************)
EXTENDS PlatformAccess, TLC

CONSTANTS Older, Latest

KnownTo == [p \in Processes |-> IF p = Older THEN Latest - 1 ELSE Latest]

Alike == Permutations(Clients) \cup Permutations(Emails)
=============================================================================
