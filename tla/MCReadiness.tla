---------------------------- MODULE MCReadiness ----------------------------
\* Readiness on the instance TLC checks.
EXTENDS Readiness, TLC

Symmetry == Permutations(Snapshots)
============================================================================
