-------------------------- MODULE MCInferenceRuns --------------------------
\* InferenceRuns on the instances TLC checks.
EXTENDS InferenceRuns, TLC

\* Pools are interchangeable, and so are snapshots.
Symmetry == Permutations(Pools) \cup Permutations(Snapshots)
============================================================================
