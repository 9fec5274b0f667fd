------------------------------ MODULE RunLease ------------------------------
(***************************************************************************)
(* What planning promises about compute pools and dataset snapshots, with  *)
(* nothing said of states, clocks or incidents: a run takes one pool and   *)
(* all of its inputs in one step, it gives everything back when it is      *)
(* cancelled before it began, and once it has begun it gives back the pool *)
(* alone: its inputs are spent.                                            *)
(***************************************************************************)
CONSTANTS
  Pools,      \* compute pools
  Snapshots,  \* dataset snapshots
  Runs,       \* inference runs
  Nobody      \* the holder of what no run holds

VARIABLES
  holder,  \* the run that holds a pool or a snapshot
  begun,   \* runs that started to execute
  ended    \* runs cancelled or archived

vars == <<holder, begun, ended>>

Resources == Pools \cup Snapshots

IsFree(x) == holder[x] = Nobody

HoldsPool(r) == \E p \in Pools : holder[p] = r

Given(S, r) == [x \in Resources |-> IF x \in S THEN r ELSE holder[x]]

TakenBack(S, r) == [x \in Resources |-> IF x \in S /\ holder[x] = r THEN Nobody ELSE holder[x]]

Init ==
  /\ holder = [x \in Resources |-> Nobody]
  /\ begun = {}
  /\ ended = {}

Acquire(r, p, S) ==
  /\ r \notin ended \cup begun
  /\ \A x \in Resources : holder[x] # r
  /\ IsFree(p)
  /\ S # {}
  /\ \A s \in S : IsFree(s)
  /\ holder' = Given({p} \cup S, r)
  /\ UNCHANGED <<begun, ended>>

Begin(r) ==
  /\ HoldsPool(r)
  /\ r \notin begun
  /\ begun' = begun \cup {r}
  /\ UNCHANGED <<holder, ended>>

Cancel(r) ==
  /\ HoldsPool(r)
  /\ r \notin begun
  /\ holder' = TakenBack(Resources, r)
  /\ ended' = ended \cup {r}
  /\ UNCHANGED begun

Archive(r) ==
  /\ HoldsPool(r)
  /\ r \in begun
  /\ holder' = TakenBack(Pools, r)
  /\ ended' = ended \cup {r}
  /\ UNCHANGED begun

Next ==
  \E r \in Runs :
    \/ \E p \in Pools, S \in SUBSET Snapshots : Acquire(r, p, S)
    \/ Begin(r)
    \/ Cancel(r)
    \/ Archive(r)

Spec == Init /\ [][Next]_vars
============================================================================
