------------------------ MODULE InferenceRunsProofs ------------------------
(***************************************************************************)
(* What InferenceRuns and Readiness guarantee for any number of pools,     *)
(* snapshots, keys, runs and incidents, any clock and any limits.          *)
(***************************************************************************)
EXTENDS Readiness, FiniteSetTheorems, TLAPS

\* Which state a run must be in for each transition (InferenceRun.Transition).
LEMMA RunMoveSources ==
  ASSUME NEW r
  PROVE  /\ RunMay(r, "staged") => runs[r].state = "queued"
         /\ RunMay(r, "running") => runs[r].state = "staged"
         /\ RunMay(r, "completed") => runs[r].state = "running"
         /\ RunMay(r, "archived") => runs[r].state = "completed"
         /\ RunMay(r, "cancelled") => runs[r].state \in {"queued", "staged"}
  BY DEF RunMay, RunMoves

\* Which state a snapshot must be in for each transition (DatasetSnapshot.Transition).
LEMMA SnapshotMoveSources ==
  ASSUME NEW s
  PROVE  /\ SnapshotMay(s, "reserved") => snapshots[s].state = "validated"
         /\ SnapshotMay(s, "materializing") => snapshots[s].state = "reserved"
         /\ SnapshotMay(s, "materialized") => snapshots[s].state = "materializing"
         /\ SnapshotMay(s, "validated") => snapshots[s].state \in {"registered", "reserved"}
  BY DEF SnapshotMay, SnapshotMoves

\* The two decisions and the two verdicts.
LEMMA Verdicts ==
  \A decision \in DOMAIN Verdict : /\ decision \in {"cleared", "rejected"}
                                   /\ Verdict[decision] \in {"approved", "rejected"}
  BY DEF Verdict

----------------------------------------------------------------------------
\* Type correctness.

LEMMA TypeInit == Init => TypeOK
<1> SUFFICES ASSUME Init
             PROVE  TypeOK
  OBVIOUS
<1> USE BoundsAssumption DEF Init
<1>1. clock \in 0..MaxTime /\ idempotency \in [Keys -> 0..(MaxTime + KeyLifetime)]
  OBVIOUS
<1>2. pools \in [Pools -> PoolRows]
  BY DEF PoolRows, PoolStates
<1>3. snapshots \in [Snapshots -> SnapshotRows]
  BY DEF SnapshotRows, NoSnapshot, Times
<1>4. RunsOK
  BY DEF RunsOK, RunRows, NoRun, Runs, Times
<1>5. IncidentsOK
  BY DEF IncidentsOK, IncidentRows, NoIncident, Incidents
<1> QED
  BY <1>1, <1>2, <1>3, <1>4, <1>5 DEF TypeOK

\* Moving snapshots keeps their rows well formed.
LEMMA MovedType ==
  ASSUME snapshots \in [Snapshots -> SnapshotRows],
         NEW S, NEW to \in SnapshotStates, NEW r \in Runs \cup {Null}
  PROVE  Moved(S, to, r) \in [Snapshots -> SnapshotRows]
  BY DEF Moved, SnapshotRows

\* A transition of an issued run changes its state alone.
LEMMA RunStateType ==
  ASSUME RunsOK, NEW r \in Runs, NEW from \in RunStates, NEW to \in RunStates,
         runs[r].state = from,
         runs' = [runs EXCEPT ![r].state = to], lastRun' = lastRun
  PROVE  RunsOK'
<1>1. runs' \in [Runs -> RunRows]
  BY DEF RunsOK, RunRows
<1>2. \A q \in Runs : runs'[q].state = "none" <=> q > lastRun
  BY DEF RunsOK, RunStates
<1>3. \A q \in 1..lastRun : runs'[q].pool = runs[q].pool /\ runs'[q].key = runs[q].key
  BY DEF RunsOK, RunRows, Runs
<1> QED
  BY <1>1, <1>2, <1>3 DEF RunsOK

LEMMA TypeStep ==
  ASSUME TypeOK, [Next]_vars
  PROVE  TypeOK'
<1> USE BoundsAssumption DEF TypeOK
<1>a. UNCHANGED <<runs, lastRun>> => RunsOK'
  BY DEF RunsOK
<1>b. UNCHANGED <<incidents, lastIncident>> => IncidentsOK'
  BY DEF IncidentsOK
<1>c. SnapshotStates \subseteq SnapshotStates \cup {"none"}
  OBVIOUS
<1>1. CASE Tick
  BY <1>1, <1>a, <1>b DEF Tick
<1>2. ASSUME NEW s \in Snapshots, NEW t \in Times, RegisterSnapshot(s, t)
      PROVE  TypeOK'
  <2>1. snapshots' \in [Snapshots -> SnapshotRows]
    BY <1>2 DEF RegisterSnapshot, SnapshotRows, SnapshotStates
  <2> QED
    BY <1>2, <2>1, <1>a, <1>b DEF RegisterSnapshot
<1>3. ASSUME NEW s \in Snapshots, ValidateSnapshot(s)
      PROVE  TypeOK'
  <2>1. snapshots' \in [Snapshots -> SnapshotRows]
    BY <1>3 DEF ValidateSnapshot, SnapshotRows, SnapshotStates
  <2> QED
    BY <1>3, <2>1, <1>a, <1>b DEF ValidateSnapshot
<1>4. ASSUME NEW k \in Keys, NEW p \in Pools, NEW S \in SUBSET Snapshots,
             NEW start \in Times, NEW finish \in Times,
             PlanInferenceRun(k, p, S, start, finish)
      PROVE  TypeOK'
  <2>1. PICK r : r = lastRun + 1
    OBVIOUS
  <2>2. r \in Runs /\ lastRun' = r
    BY <1>4, <2>1 DEF PlanInferenceRun, RunsOK, Runs
  <2>3. snapshots' \in [Snapshots -> SnapshotRows]
    <3>1. snapshots' = Moved(S, "reserved", r)
      BY <1>4, <2>1 DEF PlanInferenceRun
    <3> QED
      BY <2>2, <3>1, MovedType DEF SnapshotStates
  <2>4. pools' \in [Pools -> PoolRows]
    <3>1. pools' = [pools EXCEPT ![p].state = "reserved", ![p].run = r]
      BY <1>4, <2>1 DEF PlanInferenceRun
    <3> QED
      BY <2>2, <3>1 DEF PoolRows, PoolStates
  <2>5. idempotency' \in [Keys -> 0..(MaxTime + KeyLifetime)]
    BY <1>4 DEF PlanInferenceRun
  <2>6. RunsOK'
    <3>1. PICK row : row = [state |-> "queued", pool |-> p, start |-> start,
                            created |-> clock, key |-> k]
      OBVIOUS
    <3>2. runs' = [runs EXCEPT ![r] = row]
      BY <1>4, <2>1, <3>1 DEF PlanInferenceRun
    <3>3. row \in RunRows /\ row.state # "none" /\ row.pool \in Pools /\ row.key \in Keys
      BY <3>1 DEF RunRows, RunStates
    <3>4. runs' \in [Runs -> RunRows]
      BY <3>2, <3>3 DEF RunsOK
    <3>5. \A q \in Runs : runs'[q] = IF q = r THEN row ELSE runs[q]
      BY <3>2 DEF RunsOK
    <3>6. lastRun \in Nat /\ r \in 1..MaxRuns
      BY <2>2 DEF RunsOK, Runs
    <3>7. \A q \in Runs : runs'[q].state = "none" <=> q > r
      BY <2>1, <3>3, <3>5, <3>6 DEF RunsOK, Runs
    <3>8. \A q \in 1..r : runs'[q].pool \in Pools /\ runs'[q].key \in Keys
      BY <2>1, <3>3, <3>5, <3>6 DEF RunsOK, Runs
    <3> QED
      BY <2>2, <3>4, <3>6, <3>7, <3>8 DEF RunsOK
  <2> QED
    BY <1>4, <2>3, <2>4, <2>5, <2>6, <1>b DEF PlanInferenceRun
<1>5. ASSUME NEW r \in Runs, StageInferenceRun(r)
      PROVE  TypeOK'
  <2>1. RunsOK'
    BY <1>5, RunMoveSources, RunStateType DEF StageInferenceRun, MayStage, RunStates
  <2> QED
    BY <1>5, <2>1, <1>b DEF StageInferenceRun, MayStage
<1>6. ASSUME NEW r \in Runs, StartInferenceRun(r)
      PROVE  TypeOK'
  <2>1. RunsOK'
    BY <1>6, RunMoveSources, RunStateType DEF StartInferenceRun, MayStart, RunStates
  <2>2. snapshots' \in [Snapshots -> SnapshotRows]
    BY <1>6 DEF StartInferenceRun, MayStart, Moved, SnapshotRows, SnapshotStates
  <2>3. pools' \in [Pools -> PoolRows]
    BY <1>6 DEF StartInferenceRun, MayStart, PoolRows, PoolStates
  <2> QED
    BY <1>6, <2>1, <2>2, <2>3, <1>b DEF StartInferenceRun, MayStart
<1>7. ASSUME NEW r \in Runs, CompleteInferenceRun(r)
      PROVE  TypeOK'
  <2>1. RunsOK'
    BY <1>7, RunMoveSources, RunStateType DEF CompleteInferenceRun, MayComplete, Unjudged, RunStates
  <2>2. snapshots' \in [Snapshots -> SnapshotRows]
    BY <1>7 DEF CompleteInferenceRun, MayComplete, Unjudged, Moved, SnapshotRows, SnapshotStates
  <2> QED
    BY <1>7, <2>1, <2>2, <1>b DEF CompleteInferenceRun, MayComplete, Unjudged
<1>8. ASSUME NEW r \in Runs, ArchiveInferenceRun(r)
      PROVE  TypeOK'
  <2>1. RunsOK'
    BY <1>8, RunMoveSources, RunStateType DEF ArchiveInferenceRun, MayArchive, RunStates
  <2>2. pools' \in [Pools -> PoolRows]
    BY <1>8 DEF ArchiveInferenceRun, MayArchive, Freed, PoolRows, PoolStates
  <2> QED
    BY <1>8, <2>1, <2>2, <1>b DEF ArchiveInferenceRun, MayArchive
<1>9. ASSUME NEW r \in Runs, CancelInferenceRun(r)
      PROVE  TypeOK'
  <2>1. RunsOK'
    BY <1>9, RunMoveSources, RunStateType DEF CancelInferenceRun, MayCancel, RunStates
  <2>2. snapshots' \in [Snapshots -> SnapshotRows]
    BY <1>9 DEF CancelInferenceRun, MayCancel, Moved, SnapshotRows, SnapshotStates
  <2>3. pools' \in [Pools -> PoolRows]
    BY <1>9 DEF CancelInferenceRun, MayCancel, Freed, PoolRows, PoolStates
  <2> QED
    BY <1>9, <2>1, <2>2, <2>3, <1>b DEF CancelInferenceRun, MayCancel
<1>10. ASSUME NEW r \in Runs, RecordObservation(r)
       PROVE  TypeOK'
  <2>1. snapshots' \in [Snapshots -> SnapshotRows]
    BY <1>10 DEF RecordObservation, Joined, Moved, SnapshotRows, SnapshotStates
  <2>2. IncidentsOK'
    <3>1. CASE ActiveIncidents(r) = {}
      <4>1. PICK i : i = lastIncident + 1
        OBVIOUS
      <4>2. i \in Incidents /\ lastIncident' = i
        BY <1>10, <3>1, <4>1 DEF RecordObservation, Joined, IncidentsOK, Incidents
      <4>3. incidents' = [incidents EXCEPT ![i] = [status |-> "open", run |-> r]]
        BY <1>10, <3>1, <4>1 DEF RecordObservation, Joined
      <4>4. incidents' \in [Incidents -> IncidentRows]
        BY <4>3 DEF IncidentsOK, IncidentRows
      <4>5. \A j \in Incidents : incidents'[j].status = "none" <=> j > i
        BY <4>1, <4>2, <4>3 DEF IncidentsOK, Incidents
      <4> QED
        BY <4>2, <4>4, <4>5 DEF IncidentsOK, Incidents
    <3>2. CASE ActiveIncidents(r) # {}
      BY <1>10, <3>2, <1>b DEF RecordObservation, Joined
    <3> QED
      BY <3>1, <3>2
  <2> QED
    BY <1>10, <2>1, <2>2, <1>a DEF RecordObservation, Joined
<1>11. ASSUME NEW i \in Incidents, StartReview(i)
       PROVE  TypeOK'
  <2>1. IncidentsOK'
    BY <1>11 DEF StartReview, IncidentsOK, IncidentRows
  <2> QED
    BY <1>11, <2>1, <1>a DEF StartReview
<1>12. ASSUME NEW i \in Incidents, NEW decision \in DOMAIN Verdict, Decide(i, decision)
       PROVE  TypeOK'
  <2>1. IncidentsOK'
    BY <1>12, Verdicts DEF Decide, IsActive, IncidentsOK, IncidentRows
  <2>2. snapshots' \in [Snapshots -> SnapshotRows]
    <3>1. PICK v : v = Verdict[decision]
      OBVIOUS
    <3>2. PICK r : r = incidents[i].run
      OBVIOUS
    <3>3. PICK S : S = {s \in Inputs(r) : snapshots[s].state = "quarantined"}
      OBVIOUS
    <3>4. v \in SnapshotStates
      BY <3>1, Verdicts DEF SnapshotStates
    <3>5. r \in Runs \cup {Null}
      BY <3>2 DEF IncidentsOK, IncidentRows
    <3>6. snapshots' = Moved(S, v, r)
      BY <1>12, <3>1, <3>2, <3>3 DEF Decide
    <3> QED
      BY <3>4, <3>5, <3>6, MovedType
  <2> QED
    BY <1>12, <2>1, <2>2, <1>a DEF Decide
<1>13. ASSUME NEW p \in Pools, StartReconciliation(p)
       PROVE  TypeOK'
  <2>1. pools' \in [Pools -> PoolRows]
    BY <1>13 DEF StartReconciliation, PoolRows, PoolStates
  <2> QED
    BY <1>13, <2>1, <1>a, <1>b DEF StartReconciliation
<1>14. ASSUME NEW p \in Pools, CompleteReconciliation(p)
       PROVE  TypeOK'
  <2>1. pools' \in [Pools -> PoolRows]
    BY <1>14 DEF CompleteReconciliation, PoolRows, PoolStates
  <2> QED
    BY <1>14, <2>1, <1>a, <1>b DEF CompleteReconciliation
<1>15. ASSUME NEW p \in Pools, Retire(p)
       PROVE  TypeOK'
  <2>1. pools' \in [Pools -> PoolRows]
    BY <1>15 DEF Retire, PoolRows, PoolStates
  <2> QED
    BY <1>15, <2>1, <1>a, <1>b DEF Retire
<1>16. CASE UNCHANGED vars
  BY <1>16, <1>a, <1>b DEF vars
<1> QED
  BY <1>1, <1>2, <1>3, <1>4, <1>5, <1>6, <1>7, <1>8, <1>9, <1>10, <1>11, <1>12, <1>13, <1>14,
     <1>15, <1>16
  DEF Next, SnapshotNext, PlanNext, RunNext, ReviewNext, PoolNext

----------------------------------------------------------------------------
\* Pools and runs.

\* A live run has an id that was issued, so its pool is one of the pools.
LEMMA LiveRunHasPool ==
  ASSUME RunsOK, NEW r \in Runs, IsLive(r)
  PROVE  r \in 1..lastRun /\ runs[r].pool \in Pools
  BY DEF RunsOK, IsLive, IsWaiting, IsExecuting, Runs

\* The run that ends frees its pool and no other.
LEMMA FreedServes ==
  ASSUME TypeOK, PoolServesItsRun, NEW r \in Runs, NEW to \in {"archived", "cancelled"},
         IsLive(r), runs' = [runs EXCEPT ![r].state = to], pools' = Freed(runs[r].pool)
  PROVE  PoolServesItsRun'
<1> USE DEF IsLive, IsWaiting, IsExecuting
<1>1. PICK p : p = runs[r].pool
  OBVIOUS
<1>2. p \in Pools /\ pools[p].run = r
  BY <1>1, LiveRunHasPool DEF TypeOK, PoolServesItsRun
<1>3. \A x \in Pools : /\ pools'[x].state = IF x = p THEN "available" ELSE pools[x].state
                       /\ pools'[x].run = IF x = p THEN Null ELSE pools[x].run
  BY <1>1, <1>2 DEF Freed, TypeOK, PoolRows
<1>4. \A q \in Runs : /\ runs'[q].state = IF q = r THEN to ELSE runs[q].state
                      /\ runs'[q].pool = runs[q].pool
  BY DEF TypeOK, RunsOK, RunRows
<1>5. \A q \in Runs : IsLive(q) /\ q # r => runs[q].pool # p /\ runs[q].pool \in Pools
  BY <1>2, LiveRunHasPool DEF TypeOK, PoolServesItsRun
<1>6. ASSUME NEW q \in Runs, IsLive(q)'
      PROVE  /\ pools'[runs'[q].pool].run = q
             /\ pools'[runs'[q].pool].state = IF IsWaiting(q)' THEN "reserved" ELSE "allocated"
  BY <1>3, <1>4, <1>5, <1>6 DEF PoolServesItsRun
<1>7. ASSUME NEW x \in Pools
      PROVE  IF pools'[x].state \in {"reserved", "allocated"}
               THEN \E q \in Runs : pools'[x].run = q /\ IsLive(q)' /\ runs'[q].pool = x
               ELSE pools'[x].run = Null
  <2>1. CASE x = p
    BY <1>3, <2>1
  <2>2. CASE x # p
    BY <1>1, <1>3, <1>4, <2>2 DEF PoolServesItsRun
  <2> QED
    BY <2>1, <2>2
<1> QED
  BY <1>6, <1>7 DEF PoolServesItsRun

\* A change of one free pool to another state in which no run holds it.
LEMMA FreePoolServes ==
  ASSUME TypeOK, PoolServesItsRun, NEW p \in Pools,
         pools[p].state \notin {"reserved", "allocated"},
         \A x \in Pools : x # p => pools'[x] = pools[x],
         pools'[p].state \notin {"reserved", "allocated"}, pools'[p].run = Null,
         UNCHANGED runs
  PROVE  PoolServesItsRun'
  BY LiveRunHasPool DEF PoolServesItsRun, TypeOK, IsLive, IsWaiting, IsExecuting

LEMMA PoolStep ==
  ASSUME TypeOK, PoolServesItsRun, [Next]_vars
  PROVE  PoolServesItsRun'
<1> USE DEF IsLive, IsWaiting, IsExecuting
<1>a. UNCHANGED <<pools, runs>> => PoolServesItsRun'
  BY DEF PoolServesItsRun
<1>1. CASE Tick
  BY <1>1, <1>a DEF Tick
<1>2. CASE SnapshotNext
  BY <1>2, <1>a DEF SnapshotNext, RegisterSnapshot, ValidateSnapshot
<1>3. CASE ReviewNext
  BY <1>3, <1>a DEF ReviewNext, StartReview, Decide
<1>4. ASSUME NEW k \in Keys, NEW p \in Pools, NEW S \in SUBSET Snapshots,
             NEW start \in Times, NEW finish \in Times,
             PlanInferenceRun(k, p, S, start, finish)
      PROVE  PoolServesItsRun'
  <2>1. PICK r : r = lastRun + 1
    OBVIOUS
  <2>2. r \in Runs /\ runs[r].state = "none"
    BY <1>4, <2>1, BoundsAssumption DEF PlanInferenceRun, TypeOK, RunsOK, Runs
  <2>3. \A q \in Runs : /\ q # r => runs'[q] = runs[q]
                        /\ q = r => runs'[q].state = "queued" /\ runs'[q].pool = p
    BY <1>4, <2>1, <2>2 DEF PlanInferenceRun, TypeOK, RunsOK
  <2>4. \A x \in Pools : /\ x # p => pools'[x] = pools[x]
                         /\ x = p => pools'[x].state = "reserved" /\ pools'[x].run = r
    BY <1>4, <2>1 DEF PlanInferenceRun, TypeOK, PoolRows
  <2>5. pools[p].state = "available"
    BY <1>4 DEF PlanInferenceRun, EligibleFor
  <2>6. \A q \in Runs : IsLive(q) => q # r /\ runs[q].pool # p /\ runs[q].pool \in Pools
    BY <2>2, <2>5, LiveRunHasPool DEF PoolServesItsRun, TypeOK
  <2>7. ASSUME NEW q \in Runs, IsLive(q)'
        PROVE  /\ pools'[runs'[q].pool].run = q
               /\ pools'[runs'[q].pool].state = IF IsWaiting(q)' THEN "reserved" ELSE "allocated"
    BY <2>3, <2>4, <2>6, <2>7 DEF PoolServesItsRun
  <2>8. ASSUME NEW x \in Pools
        PROVE  IF pools'[x].state \in {"reserved", "allocated"}
                 THEN \E q \in Runs : pools'[x].run = q /\ IsLive(q)' /\ runs'[q].pool = x
                 ELSE pools'[x].run = Null
    <3>1. CASE x = p
      BY <2>2, <2>3, <2>4, <3>1
    <3>2. CASE x # p
      BY <2>3, <2>4, <2>6, <3>2 DEF PoolServesItsRun
    <3> QED
      BY <3>1, <3>2
  <2> QED
    BY <2>7, <2>8 DEF PoolServesItsRun
<1>5. ASSUME NEW r \in Runs, StageInferenceRun(r)
      PROVE  PoolServesItsRun'
  <2>1. runs[r].state = "queued" /\ pools' = pools
    BY <1>5, RunMoveSources DEF StageInferenceRun, MayStage
  <2>2. \A q \in Runs : /\ runs'[q].state = IF q = r THEN "staged" ELSE runs[q].state
                        /\ runs'[q].pool = runs[q].pool
    BY <1>5 DEF StageInferenceRun, MayStage, TypeOK, RunsOK, RunRows
  <2> QED
    BY <2>1, <2>2 DEF PoolServesItsRun
<1>6. ASSUME NEW r \in Runs, StartInferenceRun(r)
      PROVE  PoolServesItsRun'
  <2>1. runs[r].state = "staged"
    BY <1>6, RunMoveSources DEF StartInferenceRun, MayStart
  <2>2. \A q \in Runs : /\ runs'[q].state = IF q = r THEN "running" ELSE runs[q].state
                        /\ runs'[q].pool = runs[q].pool
    BY <1>6 DEF StartInferenceRun, MayStart, TypeOK, RunsOK, RunRows
  <2>3. PICK p : p = runs[r].pool
    OBVIOUS
  <2>4. p \in Pools /\ pools[p].run = r
    BY <2>1, <2>3, LiveRunHasPool DEF TypeOK, PoolServesItsRun
  <2>5. \A x \in Pools : /\ pools'[x].state = IF x = p THEN "allocated" ELSE pools[x].state
                         /\ pools'[x].run = pools[x].run
    BY <1>6, <2>3, <2>4 DEF StartInferenceRun, MayStart, TypeOK, PoolRows
  <2>6. \A q \in Runs : IsLive(q) /\ q # r => runs[q].pool # p /\ runs[q].pool \in Pools
    BY <2>4, LiveRunHasPool DEF TypeOK, PoolServesItsRun
  <2>7. ASSUME NEW q \in Runs, IsLive(q)'
        PROVE  /\ pools'[runs'[q].pool].run = q
               /\ pools'[runs'[q].pool].state = IF IsWaiting(q)' THEN "reserved" ELSE "allocated"
    BY <2>1, <2>2, <2>3, <2>4, <2>5, <2>6, <2>7 DEF PoolServesItsRun
  <2>8. ASSUME NEW x \in Pools
        PROVE  IF pools'[x].state \in {"reserved", "allocated"}
                 THEN \E q \in Runs : pools'[x].run = q /\ IsLive(q)' /\ runs'[q].pool = x
                 ELSE pools'[x].run = Null
    <3>1. CASE x = p
      BY <2>2, <2>3, <2>4, <2>5, <3>1
    <3>2. CASE x # p
      BY <2>1, <2>2, <2>5, <3>2 DEF PoolServesItsRun
    <3> QED
      BY <3>1, <3>2
  <2> QED
    BY <2>7, <2>8 DEF PoolServesItsRun
<1>7. ASSUME NEW r \in Runs, CompleteInferenceRun(r)
      PROVE  PoolServesItsRun'
  <2>1. runs[r].state = "running" /\ pools' = pools
    BY <1>7, RunMoveSources DEF CompleteInferenceRun, MayComplete, Unjudged
  <2>2. \A q \in Runs : /\ runs'[q].state = IF q = r THEN "completed" ELSE runs[q].state
                        /\ runs'[q].pool = runs[q].pool
    BY <1>7 DEF CompleteInferenceRun, MayComplete, Unjudged, TypeOK, RunsOK, RunRows
  <2> QED
    BY <2>1, <2>2 DEF PoolServesItsRun
<1>8. ASSUME NEW r \in Runs, ArchiveInferenceRun(r)
      PROVE  PoolServesItsRun'
  BY <1>8, RunMoveSources, FreedServes DEF ArchiveInferenceRun, MayArchive
<1>9. ASSUME NEW r \in Runs, CancelInferenceRun(r)
      PROVE  PoolServesItsRun'
  BY <1>9, RunMoveSources, FreedServes DEF CancelInferenceRun, MayCancel
<1>10. ASSUME NEW r \in Runs, RecordObservation(r)
       PROVE  PoolServesItsRun'
  BY <1>10, <1>a DEF RecordObservation, Joined
<1>11. ASSUME NEW p \in Pools, StartReconciliation(p)
       PROVE  PoolServesItsRun'
  <2>1. pools[p].state = "available" /\ UNCHANGED runs
    BY <1>11 DEF StartReconciliation
  <2>2. /\ \A x \in Pools : x # p => pools'[x] = pools[x]
        /\ pools'[p].state = "reconciling" /\ pools'[p].run = pools[p].run
    BY <1>11 DEF StartReconciliation, TypeOK, PoolRows
  <2> QED
    BY <2>1, <2>2, FreePoolServes DEF PoolServesItsRun
<1>12. ASSUME NEW p \in Pools, CompleteReconciliation(p)
       PROVE  PoolServesItsRun'
  <2>1. pools[p].state = "reconciling" /\ UNCHANGED runs
    BY <1>12 DEF CompleteReconciliation
  <2>2. /\ \A x \in Pools : x # p => pools'[x] = pools[x]
        /\ pools'[p].state = "available" /\ pools'[p].run = pools[p].run
    BY <1>12 DEF CompleteReconciliation, TypeOK, PoolRows
  <2> QED
    BY <2>1, <2>2, FreePoolServes DEF PoolServesItsRun
<1>13. ASSUME NEW p \in Pools, Retire(p)
       PROVE  PoolServesItsRun'
  <2>1. pools[p].state \in {"available", "reconciling"} /\ UNCHANGED runs
    BY <1>13 DEF Retire, RetireAllowed
  <2>2. /\ \A x \in Pools : x # p => pools'[x] = pools[x]
        /\ pools'[p].state = "retired" /\ pools'[p].run = Null
    BY <1>13 DEF Retire, TypeOK, PoolRows
  <2> QED
    BY <2>1, <2>2, FreePoolServes
<1>14. CASE UNCHANGED vars
  BY <1>14, <1>a DEF vars
<1> QED
  BY <1>1, <1>2, <1>3, <1>4, <1>5, <1>6, <1>7, <1>8, <1>9, <1>10, <1>11, <1>12, <1>13, <1>14
  DEF Next, PlanNext, RunNext, PoolNext

----------------------------------------------------------------------------
\* Snapshots and runs.

LEMMA InputStatesOf ==
  /\ InputStates["queued"] = {"reserved", "validated"}
  /\ InputStates["staged"] = {"reserved", "validated"}
  /\ InputStates["running"] = {"materializing", "quarantined", "approved", "rejected"}
  /\ InputStates["completed"] = {"materialized", "quarantined", "approved", "rejected"}
  /\ InputStates["archived"] = {"materialized", "approved", "rejected"}
  /\ InputStates["cancelled"] = {}
  BY DEF InputStates

\* The first part of SnapshotsFollowRun, of one snapshot.
Follows(s) ==
  IF snapshots[s].run = Null
    THEN snapshots[s].state \in {"none", "registered", "validated"}
    ELSE /\ runs[snapshots[s].run].state # "none"
         /\ snapshots[s].state \in InputStates[runs[snapshots[s].run].state]

LEMMA InputStep ==
  ASSUME TypeOK, SnapshotsFollowRun, [Next]_vars
  PROVE  SnapshotsFollowRun'
<1> USE DEF IsLive, IsWaiting, IsExecuting
<1>a. \A s \in Snapshots : Follows(s) /\ snapshots[s].run \in Runs \cup {Null}
  BY DEF Follows, SnapshotsFollowRun, TypeOK, SnapshotRows
<1>c. UNCHANGED <<snapshots, runs>> => SnapshotsFollowRun'
  BY DEF SnapshotsFollowRun, Inputs
<1>d. (\A s \in Snapshots : snapshots'[s].run = snapshots[s].run)
        => \A r \in Runs : Inputs(r)' = Inputs(r)
  BY DEF Inputs
<1>e. \A r \in Runs : IsLive(r) => Inputs(r) # {}
  BY DEF SnapshotsFollowRun
<1>f. Null \notin Runs
  BY BoundsAssumption DEF Null, Runs
<1>1. CASE Tick
  BY <1>1, <1>c DEF Tick
<1>2. ASSUME NEW s \in Snapshots, NEW t \in Times, RegisterSnapshot(s, t)
      PROVE  SnapshotsFollowRun'
  <2>1. snapshots[s].run = Null /\ UNCHANGED runs
    BY <1>2 DEF RegisterSnapshot, NoSnapshot
  <2>2. \A x \in Snapshots : /\ x # s => snapshots'[x] = snapshots[x]
                             /\ snapshots'[x].run = snapshots[x].run
                             /\ x = s => snapshots'[x].state = "registered"
    BY <1>2, <2>1 DEF RegisterSnapshot, TypeOK, SnapshotRows
  <2> QED
    BY <2>1, <2>2, <1>a, <1>d, <1>e DEF Follows, SnapshotsFollowRun
<1>3. ASSUME NEW s \in Snapshots, ValidateSnapshot(s)
      PROVE  SnapshotsFollowRun'
  <2>1. snapshots[s].state \in {"registered", "reserved"} /\ UNCHANGED runs
    BY <1>3, SnapshotMoveSources DEF ValidateSnapshot
  <2>2. \A x \in Snapshots : /\ x # s => snapshots'[x] = snapshots[x]
                             /\ snapshots'[x].run = snapshots[x].run
                             /\ x = s => snapshots'[x].state = "validated"
    BY <1>3 DEF ValidateSnapshot, TypeOK, SnapshotRows
  <2>3. Follows(s)'
    <3>1. CASE snapshots[s].run = Null
      BY <2>2, <3>1 DEF Follows
    <3>2. CASE snapshots[s].run # Null
      <4>1. PICK q \in Runs : q = snapshots[s].run
        BY <3>2, <1>a
      <4>2. runs[q].state \in RunStates
        BY <3>2, <4>1, <1>a DEF Follows, TypeOK, RunsOK, RunRows
      <4>3. runs[q].state \in {"queued", "staged"}
        BY <2>1, <3>2, <4>1, <4>2, <1>a, InputStatesOf DEF Follows, RunStates
      <4> QED
        BY <2>1, <2>2, <3>2, <4>1, <4>3, InputStatesOf DEF Follows
    <3> QED
      BY <3>1, <3>2
  <2> QED
    BY <2>1, <2>2, <2>3, <1>a, <1>d, <1>e DEF Follows, SnapshotsFollowRun
<1>4. ASSUME NEW k \in Keys, NEW p \in Pools, NEW S \in SUBSET Snapshots,
             NEW start \in Times, NEW finish \in Times,
             PlanInferenceRun(k, p, S, start, finish)
      PROVE  SnapshotsFollowRun'
  <2>1. PICK r : r = lastRun + 1
    OBVIOUS
  <2>2. r \in Runs /\ runs[r].state = "none"
    BY <1>4, <2>1, BoundsAssumption DEF PlanInferenceRun, TypeOK, RunsOK, Runs
  <2>3. \A q \in Runs : runs'[q].state = IF q = r THEN "queued" ELSE runs[q].state
    BY <1>4, <2>1 DEF PlanInferenceRun, TypeOK, RunsOK
  <2>4. \A s \in Snapshots :
          /\ s \notin S => snapshots'[s] = snapshots[s]
          /\ s \in S => /\ snapshots'[s].state = "reserved" /\ snapshots'[s].run = r
                        /\ snapshots[s].run = Null
    BY <1>4, <2>1 DEF PlanInferenceRun, Moved, IsUnassigned, TypeOK, SnapshotRows
  <2>5. ASSUME NEW s \in Snapshots
        PROVE  Follows(s)'
    <3>1. CASE s \in S
      BY <2>2, <2>3, <2>4, <3>1, <1>f, InputStatesOf DEF Follows
    <3>2. CASE s \notin S
      BY <2>2, <2>3, <2>4, <3>2, <1>a DEF Follows
    <3> QED
      BY <3>1, <3>2
  <2>6. ASSUME NEW q \in Runs, IsLive(q)'
        PROVE  Inputs(q)' # {}
    <3>1. CASE q = r
      BY <1>4, <2>4, <3>1 DEF PlanInferenceRun, Inputs
    <3>2. CASE q # r
      <4>1. PICK s \in Snapshots : snapshots[s].run = q
        BY <2>3, <2>6, <3>2, <1>e DEF Inputs
      <4> QED
        BY <2>4, <4>1, <1>f DEF Inputs
    <3> QED
      BY <3>1, <3>2
  <2> QED
    BY <2>5, <2>6 DEF Follows, SnapshotsFollowRun
<1>5. ASSUME NEW r \in Runs, StageInferenceRun(r)
      PROVE  SnapshotsFollowRun'
  <2>1. runs[r].state = "queued" /\ UNCHANGED snapshots
    BY <1>5, RunMoveSources DEF StageInferenceRun, MayStage
  <2>2. \A q \in Runs : runs'[q].state = IF q = r THEN "staged" ELSE runs[q].state
    BY <1>5 DEF StageInferenceRun, MayStage, TypeOK, RunsOK, RunRows
  <2>3. \A s \in Snapshots : Follows(s)'
    BY <2>1, <2>2, <1>a, InputStatesOf DEF Follows
  <2> QED
    BY <2>1, <2>2, <2>3, <1>d, <1>e DEF Follows, SnapshotsFollowRun
<1>6. ASSUME NEW r \in Runs, StartInferenceRun(r)
      PROVE  SnapshotsFollowRun'
  <2>1. runs[r].state = "staged"
    BY <1>6, RunMoveSources DEF StartInferenceRun, MayStart
  <2>2. \A q \in Runs : runs'[q].state = IF q = r THEN "running" ELSE runs[q].state
    BY <1>6 DEF StartInferenceRun, MayStart, TypeOK, RunsOK, RunRows
  <2>3. \A s \in Snapshots :
          /\ snapshots[s].run # r => snapshots'[s] = snapshots[s]
          /\ snapshots'[s].run = snapshots[s].run
          /\ snapshots[s].run = r => snapshots'[s].state = "materializing"
    BY <1>6 DEF StartInferenceRun, MayStart, Moved, Inputs, TypeOK, SnapshotRows
  <2>4. \A s \in Snapshots : Follows(s)'
    BY <2>1, <2>2, <2>3, <1>a, <1>f, InputStatesOf DEF Follows
  <2> QED
    BY <2>1, <2>2, <2>3, <2>4, <1>d, <1>e DEF Follows, SnapshotsFollowRun
<1>7. ASSUME NEW r \in Runs, CompleteInferenceRun(r)
      PROVE  SnapshotsFollowRun'
  <2>1. runs[r].state = "running"
    BY <1>7, RunMoveSources DEF CompleteInferenceRun, MayComplete, Unjudged
  <2>2. \A q \in Runs : runs'[q].state = IF q = r THEN "completed" ELSE runs[q].state
    BY <1>7 DEF CompleteInferenceRun, MayComplete, Unjudged, TypeOK, RunsOK, RunRows
  <2>3. \A s \in Snapshots :
          /\ snapshots[s].run # r => snapshots'[s] = snapshots[s]
          /\ snapshots'[s].run = snapshots[s].run
          /\ snapshots[s].run = r =>
               snapshots'[s].state \in {"materialized", "quarantined", "rejected", "approved"}
    BY <1>7 DEF CompleteInferenceRun, MayComplete, Unjudged, Moved, Inputs, TypeOK, SnapshotRows
  <2>4. \A s \in Snapshots : Follows(s)'
    BY <2>1, <2>2, <2>3, <1>a, <1>f, InputStatesOf DEF Follows
  <2> QED
    BY <2>1, <2>2, <2>3, <2>4, <1>d, <1>e DEF Follows, SnapshotsFollowRun
<1>8. ASSUME NEW r \in Runs, ArchiveInferenceRun(r)
      PROVE  SnapshotsFollowRun'
  <2>1. /\ runs[r].state = "completed" /\ UNCHANGED snapshots
        /\ \A s \in Snapshots : snapshots[s].run = r =>
             snapshots[s].state \in {"approved", "rejected", "materialized"}
    BY <1>8, RunMoveSources DEF ArchiveInferenceRun, MayArchive, IsSettled, Inputs
  <2>2. \A q \in Runs : runs'[q].state = IF q = r THEN "archived" ELSE runs[q].state
    BY <1>8 DEF ArchiveInferenceRun, MayArchive, TypeOK, RunsOK, RunRows
  <2>3. \A s \in Snapshots : Follows(s)'
    BY <2>1, <2>2, <1>a, InputStatesOf DEF Follows
  <2> QED
    BY <2>1, <2>2, <2>3, <1>d, <1>e DEF Follows, SnapshotsFollowRun
<1>9. ASSUME NEW r \in Runs, CancelInferenceRun(r)
      PROVE  SnapshotsFollowRun'
  <2>1. \A q \in Runs : runs'[q].state = IF q = r THEN "cancelled" ELSE runs[q].state
    BY <1>9 DEF CancelInferenceRun, MayCancel, TypeOK, RunsOK, RunRows
  <2>2. \A s \in Snapshots :
          /\ snapshots[s].run # r => snapshots'[s] = snapshots[s]
          /\ snapshots[s].run = r => /\ snapshots'[s].state = "validated"
                                     /\ snapshots'[s].run = Null
    BY <1>9 DEF CancelInferenceRun, MayCancel, Moved, Inputs, TypeOK, SnapshotRows
  <2>3. \A s \in Snapshots : Follows(s)'
    BY <2>1, <2>2, <1>a DEF Follows
  <2>4. ASSUME NEW q \in Runs, IsLive(q)'
        PROVE  Inputs(q)' # {}
    <3>1. q # r /\ IsLive(q)
      BY <2>1, <2>4
    <3>2. PICK s \in Snapshots : snapshots[s].run = q
      BY <3>1, <1>e DEF Inputs
    <3> QED
      BY <2>2, <3>1, <3>2 DEF Inputs
  <2> QED
    BY <2>3, <2>4 DEF Follows, SnapshotsFollowRun
<1>10. ASSUME NEW r \in Runs, RecordObservation(r)
       PROVE  SnapshotsFollowRun'
  <2>1. runs[r].state \in {"running", "completed"} /\ UNCHANGED runs
    BY <1>10 DEF RecordObservation, Joined
  <2>2. \A s \in Snapshots :
          /\ snapshots[s].run # r => snapshots'[s] = snapshots[s]
          /\ snapshots'[s].run = snapshots[s].run
          /\ snapshots[s].run = r => snapshots'[s].state \in {snapshots[s].state, "quarantined"}
    BY <1>10 DEF RecordObservation, Joined, Moved, ToQuarantine, Inputs, TypeOK, SnapshotRows
  <2>3. \A s \in Snapshots : Follows(s)'
    BY <2>1, <2>2, <1>a, <1>f, InputStatesOf DEF Follows
  <2> QED
    BY <2>1, <2>2, <2>3, <1>d, <1>e DEF Follows, SnapshotsFollowRun
<1>11. ASSUME NEW i \in Incidents, StartReview(i)
       PROVE  SnapshotsFollowRun'
  BY <1>11, <1>c DEF StartReview
<1>12. ASSUME NEW i \in Incidents, NEW decision \in DOMAIN Verdict, Decide(i, decision)
       PROVE  SnapshotsFollowRun'
  <2>1. PICK v : v = Verdict[decision]
    OBVIOUS
  <2>2. v \in {"approved", "rejected"}
    BY <2>1, Verdicts
  <2>3. \A s \in Snapshots :
          /\ snapshots'[s].run = snapshots[s].run
          /\ \/ snapshots'[s] = snapshots[s]
             \/ snapshots[s].state = "quarantined" /\ snapshots'[s].state = v
    BY <1>12, <2>1 DEF Decide, Moved, Inputs, TypeOK, SnapshotRows
  <2>4. UNCHANGED runs
    BY <1>12 DEF Decide
  <2>5. ASSUME NEW s \in Snapshots
        PROVE  Follows(s)'
    <3>1. CASE snapshots'[s] = snapshots[s]
      BY <2>4, <3>1, <1>a DEF Follows
    <3>2. CASE snapshots[s].state = "quarantined" /\ snapshots'[s].state = v
      <4>1. PICK q \in Runs : q = snapshots[s].run
        BY <3>2, <1>a DEF Follows
      <4>2. runs[q].state \in RunStates
        BY <3>2, <4>1, <1>a, <1>f DEF Follows, TypeOK, RunsOK, RunRows
      <4>3. runs[q].state \in {"running", "completed"}
        BY <3>2, <4>1, <4>2, <1>a, <1>f, InputStatesOf DEF Follows, RunStates
      <4> QED
        BY <2>2, <2>3, <2>4, <3>2, <4>1, <4>3, <1>f, InputStatesOf DEF Follows
    <3> QED
      BY <2>3, <3>1, <3>2
  <2> QED
    BY <2>3, <2>4, <2>5, <1>d, <1>e DEF Follows, SnapshotsFollowRun
<1>13. CASE PoolNext
  BY <1>13, <1>c DEF PoolNext, StartReconciliation, CompleteReconciliation, Retire
<1>14. CASE UNCHANGED vars
  BY <1>14, <1>c DEF vars
<1> QED
  BY <1>1, <1>2, <1>3, <1>4, <1>5, <1>6, <1>7, <1>8, <1>9, <1>10, <1>11, <1>12, <1>13, <1>14
  DEF Next, SnapshotNext, PlanNext, RunNext, ReviewNext

----------------------------------------------------------------------------
\* Quarantine and incidents.

\* Steps that touch no incident and put nothing in quarantine.
LEMMA NothingQuarantined ==
  ASSUME QuarantineHasIncident, UNCHANGED incidents,
         \A s \in Snapshots : \/ snapshots'[s].state # "quarantined"
                              \/ snapshots'[s] = snapshots[s]
  PROVE  QuarantineHasIncident'
  BY DEF QuarantineHasIncident, ActiveIncidents, IsActive

LEMMA QuarantineStep ==
  ASSUME TypeOK, SnapshotsFollowRun, QuarantineHasIncident, [Next]_vars
  PROVE  QuarantineHasIncident'
<1>a. UNCHANGED <<snapshots, incidents>> => QuarantineHasIncident'
  BY DEF QuarantineHasIncident, ActiveIncidents, IsActive
<1>1. CASE Tick
  BY <1>1, <1>a DEF Tick
<1>2. ASSUME NEW s \in Snapshots, NEW t \in Times, RegisterSnapshot(s, t)
      PROVE  QuarantineHasIncident'
  <2>1. \A x \in Snapshots : \/ snapshots'[x].state # "quarantined"
                             \/ snapshots'[x] = snapshots[x]
    BY <1>2 DEF RegisterSnapshot, TypeOK
  <2> QED
    BY <1>2, <2>1, NothingQuarantined DEF RegisterSnapshot
<1>3. ASSUME NEW s \in Snapshots, ValidateSnapshot(s)
      PROVE  QuarantineHasIncident'
  <2>1. \A x \in Snapshots : \/ snapshots'[x].state # "quarantined"
                             \/ snapshots'[x] = snapshots[x]
    BY <1>3 DEF ValidateSnapshot, TypeOK, SnapshotRows
  <2> QED
    BY <1>3, <2>1, NothingQuarantined DEF ValidateSnapshot
<1>4. ASSUME NEW k \in Keys, NEW p \in Pools, NEW S \in SUBSET Snapshots,
             NEW start \in Times, NEW finish \in Times,
             PlanInferenceRun(k, p, S, start, finish)
      PROVE  QuarantineHasIncident'
  <2>1. \A x \in Snapshots : \/ snapshots'[x].state # "quarantined"
                             \/ snapshots'[x] = snapshots[x]
    BY <1>4 DEF PlanInferenceRun, Moved, TypeOK, SnapshotRows
  <2> QED
    BY <1>4, <2>1, NothingQuarantined DEF PlanInferenceRun
<1>5. ASSUME NEW r \in Runs, StageInferenceRun(r) \/ ArchiveInferenceRun(r)
      PROVE  QuarantineHasIncident'
  BY <1>5, <1>a DEF StageInferenceRun, MayStage, ArchiveInferenceRun, MayArchive
<1>6. ASSUME NEW r \in Runs, StartInferenceRun(r)
      PROVE  QuarantineHasIncident'
  <2>1. \A x \in Snapshots : \/ snapshots'[x].state # "quarantined"
                             \/ snapshots'[x] = snapshots[x]
    BY <1>6 DEF StartInferenceRun, MayStart, Moved, TypeOK, SnapshotRows
  <2> QED
    BY <1>6, <2>1, NothingQuarantined DEF StartInferenceRun, MayStart
<1>7. ASSUME NEW r \in Runs, CompleteInferenceRun(r)
      PROVE  QuarantineHasIncident'
  <2>1. \A x \in Snapshots : \/ snapshots'[x].state # "quarantined"
                             \/ snapshots'[x] = snapshots[x]
    BY <1>7 DEF CompleteInferenceRun, MayComplete, Unjudged, Moved, TypeOK, SnapshotRows
  <2> QED
    BY <1>7, <2>1, NothingQuarantined DEF CompleteInferenceRun, MayComplete, Unjudged
<1>8. ASSUME NEW r \in Runs, CancelInferenceRun(r)
      PROVE  QuarantineHasIncident'
  <2>1. \A x \in Snapshots : \/ snapshots'[x].state # "quarantined"
                             \/ snapshots'[x] = snapshots[x]
    BY <1>8 DEF CancelInferenceRun, MayCancel, Moved, TypeOK, SnapshotRows
  <2> QED
    BY <1>8, <2>1, NothingQuarantined DEF CancelInferenceRun, MayCancel
<1>9. ASSUME NEW r \in Runs, RecordObservation(r)
      PROVE  QuarantineHasIncident'
  <2>1. \A s \in Snapshots :
          /\ snapshots'[s].run = snapshots[s].run
          /\ snapshots[s].run # r => snapshots'[s] = snapshots[s]
    BY <1>9 DEF RecordObservation, Joined, Moved, ToQuarantine, Inputs, TypeOK, SnapshotRows
  <2>2. CASE ActiveIncidents(r) # {}
    <3>1. UNCHANGED incidents
      BY <1>9, <2>2 DEF RecordObservation, Joined
    <3> QED
      BY <2>1, <2>2, <3>1 DEF QuarantineHasIncident, ActiveIncidents, IsActive
  <2>3. CASE ActiveIncidents(r) = {}
    <3>1. PICK n : n = lastIncident + 1
      OBVIOUS
    <3>2. n \in Incidents /\ incidents[n].status = "none"
      BY <1>9, <2>3, <3>1, BoundsAssumption
      DEF RecordObservation, Joined, TypeOK, IncidentsOK, Incidents
    <3>3. \A i \in Incidents : /\ i # n => incidents'[i] = incidents[i]
                               /\ i = n => incidents'[i].status = "open" /\ incidents'[i].run = r
      BY <1>9, <2>3, <3>1 DEF RecordObservation, Joined, TypeOK, IncidentsOK
    <3>4. ASSUME NEW s \in Snapshots, snapshots'[s].state = "quarantined"
          PROVE  \E i \in Incidents : incidents'[i].run = snapshots'[s].run /\ IsActive(i)'
      <4>1. CASE snapshots[s].run = r
        BY <2>1, <3>2, <3>3, <4>1 DEF IsActive
      <4>2. CASE snapshots[s].run # r
        <5>1. snapshots[s].state = "quarantined" /\ snapshots'[s].run = snapshots[s].run
          BY <2>1, <3>4, <4>2
        <5>2. PICK i \in Incidents : incidents[i].run = snapshots[s].run /\ IsActive(i)
          BY <5>1 DEF QuarantineHasIncident, ActiveIncidents
        <5>3. incidents'[i] = incidents[i]
          BY <3>2, <3>3, <5>2 DEF IsActive
        <5> QED
          BY <5>1, <5>2, <5>3 DEF IsActive
      <4> QED
        BY <4>1, <4>2
    <3>5. \A i \in Incidents : i # n /\ IsActive(i)' => incidents'[i].run # r /\ IsActive(i)
      BY <2>3, <3>3 DEF ActiveIncidents, IsActive
    <3>6. ASSUME NEW i \in Incidents, NEW j \in Incidents, IsActive(i)', IsActive(j)',
                 incidents'[i].run = incidents'[j].run
          PROVE  i = j
      <4>1. CASE i = n \/ j = n
        BY <3>3, <3>5, <3>6, <4>1
      <4>2. CASE i # n /\ j # n
        BY <3>3, <3>5, <3>6, <4>2 DEF QuarantineHasIncident
      <4> QED
        BY <4>1, <4>2
    <3> QED
      BY <3>4, <3>6 DEF QuarantineHasIncident, ActiveIncidents
  <2> QED
    BY <2>2, <2>3
<1>10. ASSUME NEW i \in Incidents, StartReview(i)
       PROVE  QuarantineHasIncident'
  <2>1. \A j \in Incidents : /\ incidents'[j].run = incidents[j].run
                             /\ IsActive(j)' <=> IsActive(j)
    BY <1>10 DEF StartReview, IsActive, TypeOK, IncidentsOK, IncidentRows
  <2>2. UNCHANGED snapshots
    BY <1>10 DEF StartReview
  <2> QED
    BY <2>1, <2>2 DEF QuarantineHasIncident, ActiveIncidents
<1>11. ASSUME NEW i \in Incidents, NEW decision \in DOMAIN Verdict, Decide(i, decision)
       PROVE  QuarantineHasIncident'
  <2>1. \A j \in Incidents : /\ incidents'[j].run = incidents[j].run
                             /\ IsActive(j)' <=> IsActive(j) /\ j # i
    BY <1>11, Verdicts DEF Decide, IsActive, TypeOK, IncidentsOK, IncidentRows
  <2>2. PICK v : v = Verdict[decision]
    OBVIOUS
  <2>3. \A s \in Snapshots : snapshots'[s].state = "quarantined" =>
          snapshots[s].state = "quarantined" /\ snapshots'[s].run = snapshots[s].run
            /\ snapshots[s].run # incidents[i].run
    <3>1. v # "quarantined"
      BY <2>2, Verdicts
    <3> QED
      BY <1>11, <2>2, <3>1 DEF Decide, Moved, Inputs, TypeOK, SnapshotRows
  <2> QED
    BY <2>1, <2>3 DEF QuarantineHasIncident, ActiveIncidents
<1>12. CASE PoolNext
  BY <1>12, <1>a DEF PoolNext, StartReconciliation, CompleteReconciliation, Retire
<1>13. CASE UNCHANGED vars
  BY <1>13, <1>a DEF vars
<1> QED
  BY <1>1, <1>2, <1>3, <1>4, <1>5, <1>6, <1>7, <1>8, <1>9, <1>10, <1>11, <1>12, <1>13
  DEF Next, SnapshotNext, PlanNext, RunNext, ReviewNext

----------------------------------------------------------------------------
\* Idempotency keys.

\* Runs keep their key and their date, so only planning matters.
LEMMA KeyStep ==
  ASSUME TypeOK, RecordsCoverRuns, KeyPlansOnce, [Next]_vars
  PROVE  RecordsCoverRuns' /\ KeyPlansOnce'
<1>a. ASSUME lastRun' = lastRun, idempotency' = idempotency,
             \A q \in Runs : runs'[q].key = runs[q].key /\ runs'[q].created = runs[q].created
      PROVE  RecordsCoverRuns' /\ KeyPlansOnce'
  <2>1. \A q \in 1..lastRun : q \in Runs
    BY BoundsAssumption DEF TypeOK, RunsOK, Runs
  <2>2. \A q \in 1..lastRun : runs'[q].key = runs[q].key /\ runs'[q].created = runs[q].created
    BY <1>a, <2>1
  <2>3. RecordsCoverRuns'
    BY <1>a, <2>2 DEF RecordsCoverRuns
  <2>4. KeyPlansOnce'
    BY <1>a, <2>2 DEF KeyPlansOnce
  <2> QED
    BY <2>3, <2>4
<1>1. ASSUME NEW k \in Keys, NEW p \in Pools, NEW S \in SUBSET Snapshots,
             NEW start \in Times, NEW finish \in Times,
             PlanInferenceRun(k, p, S, start, finish)
      PROVE  RecordsCoverRuns' /\ KeyPlansOnce'
  <2>1. PICK r : r = lastRun + 1
    OBVIOUS
  <2>2. r \in Runs /\ lastRun' = r /\ lastRun \in Nat /\ clock \in Nat /\ KeyLifetime \in Nat
    BY <1>1, <2>1, BoundsAssumption DEF PlanInferenceRun, TypeOK, RunsOK, Runs
  <2>3. \A q \in Runs :
          /\ q # r => runs'[q] = runs[q]
          /\ q = r => runs'[q].key = k /\ runs'[q].created = clock
    BY <1>1, <2>1 DEF PlanInferenceRun, TypeOK, RunsOK
  <2>4. \A x \in Keys : idempotency'[x] = IF x = k THEN clock + KeyLifetime ELSE idempotency[x]
    BY <1>1 DEF PlanInferenceRun, TypeOK
  <2>5. idempotency[k] <= clock /\ idempotency[k] \in Nat
    BY <1>1, BoundsAssumption DEF PlanInferenceRun, IsSpent, TypeOK
  <2>6. \A q \in 1..lastRun : /\ q \in Runs /\ q # r
                              /\ runs[q].key \in Keys /\ runs[q].created \in Nat
                              /\ idempotency[runs[q].key] >= runs[q].created + KeyLifetime
    BY <2>1, <2>2, BoundsAssumption DEF RecordsCoverRuns, TypeOK, RunsOK, RunRows, Runs
  <2>7. \A q \in 1..lastRun : runs[q].key = k => clock >= runs[q].created + KeyLifetime
    BY <2>2, <2>5, <2>6
  <2>8. 1..r = (1..lastRun) \cup {r}
    BY <2>1, <2>2
  <2>9. RecordsCoverRuns'
    <3>1. ASSUME NEW q \in 1..lastRun
          PROVE  idempotency'[runs'[q].key] >= runs'[q].created + KeyLifetime
      <4>1. CASE runs[q].key = k
        BY <2>2, <2>3, <2>4, <2>6, <2>7, <4>1
      <4>2. CASE runs[q].key # k
        BY <2>3, <2>4, <2>6, <4>2
      <4> QED
        BY <4>1, <4>2
    <3>2. idempotency'[runs'[r].key] >= runs'[r].created + KeyLifetime
      BY <2>2, <2>3, <2>4
    <3> QED
      BY <2>2, <2>8, <3>1, <3>2 DEF RecordsCoverRuns
  <2>10. KeyPlansOnce'
    <3>1. ASSUME NEW q \in 1..r, NEW x \in 1..r, q < x, runs'[q].key = runs'[x].key
          PROVE  runs'[x].created >= runs'[q].created + KeyLifetime
      <4>1. q \in 1..lastRun
        BY <2>1, <2>2, <3>1
      <4>2. CASE x = r
        BY <2>2, <2>3, <2>6, <2>7, <3>1, <4>1, <4>2
      <4>3. CASE x # r
        <5>1. x \in 1..lastRun
          BY <2>8, <4>3
        <5> QED
          BY <2>3, <2>6, <3>1, <4>1, <5>1 DEF KeyPlansOnce
      <4> QED
        BY <4>2, <4>3
    <3> QED
      BY <2>2, <3>1 DEF KeyPlansOnce
  <2> QED
    BY <2>9, <2>10
<1>2. ASSUME NEW r \in Runs,
             \/ StageInferenceRun(r) \/ StartInferenceRun(r) \/ CompleteInferenceRun(r)
             \/ ArchiveInferenceRun(r) \/ CancelInferenceRun(r)
      PROVE  RecordsCoverRuns' /\ KeyPlansOnce'
  <2>1. /\ lastRun' = lastRun /\ idempotency' = idempotency
        /\ \A q \in Runs : runs'[q].key = runs[q].key /\ runs'[q].created = runs[q].created
    BY <1>2 DEF StageInferenceRun, MayStage, StartInferenceRun, MayStart, CompleteInferenceRun,
                MayComplete, Unjudged, ArchiveInferenceRun, MayArchive,
                CancelInferenceRun, MayCancel, TypeOK, RunsOK, RunRows
  <2> QED
    BY <2>1, <1>a
<1>3. UNCHANGED <<lastRun, idempotency, runs>> => RecordsCoverRuns' /\ KeyPlansOnce'
  BY <1>a
<1>4. Tick \/ SnapshotNext \/ ReviewNext \/ PoolNext \/ UNCHANGED vars
        => UNCHANGED <<lastRun, idempotency, runs>>
  BY DEF Tick, SnapshotNext, RegisterSnapshot, ValidateSnapshot, ReviewNext, StartReview, Decide,
         PoolNext, StartReconciliation, CompleteReconciliation, Retire, vars
<1>5. ASSUME NEW r \in Runs, RecordObservation(r)
      PROVE  UNCHANGED <<lastRun, idempotency, runs>>
  BY <1>5 DEF RecordObservation, Joined
<1> QED
  BY <1>1, <1>2, <1>3, <1>4, <1>5 DEF Next, PlanNext, RunNext

----------------------------------------------------------------------------
\* The theorems.

LEMMA InvInit == Init => IInv
<1> SUFFICES ASSUME Init
             PROVE  IInv
  OBVIOUS
<1>1. TypeOK
  BY TypeInit
<1>2. \A r \in Runs : runs[r].state = "none"
  BY DEF Init, NoRun
<1>3. PoolServesItsRun
  BY <1>2 DEF Init, PoolServesItsRun, IsLive, IsWaiting, IsExecuting
<1>4. SnapshotsFollowRun
  BY <1>2 DEF Init, NoSnapshot, SnapshotsFollowRun, IsLive, IsWaiting, IsExecuting
<1>5. QuarantineHasIncident
  BY DEF Init, NoSnapshot, NoIncident, QuarantineHasIncident, IsActive
<1>6. RecordsCoverRuns /\ KeyPlansOnce
  BY DEF Init, RecordsCoverRuns, KeyPlansOnce
<1> QED
  BY <1>1, <1>3, <1>4, <1>5, <1>6 DEF IInv

LEMMA InvStep == IInv /\ [Next]_vars => IInv'
  BY TypeStep, PoolStep, InputStep, QuarantineStep, KeyStep DEF IInv

LEMMA Invariance == Spec => []IInv
<1>1. Init => IInv
  BY InvInit
<1>2. IInv /\ [Next]_vars => IInv'
  BY InvStep
<1> QED
  BY <1>1, <1>2, PTL DEF Spec

\* Every row keeps its columns, for any bounds.
THEOREM TypeCorrect == Spec => []TypeOK
<1>1. IInv => TypeOK
  BY DEF IInv
<1> QED
  BY <1>1, Invariance, PTL

\* The rows of pools, runs, snapshots and incidents agree with one another.
LEMMA RowsAgree ==
  Spec => [](PoolServesItsRun /\ SnapshotsFollowRun /\ QuarantineHasIncident /\ KeyPlansOnce)
<1>1. IInv => PoolServesItsRun /\ SnapshotsFollowRun /\ QuarantineHasIncident /\ KeyPlansOnce
  BY DEF IInv
<1> QED
  BY <1>1, Invariance, PTL

\* A pool in use serves one live run, and a live run has its pool.
THEOREM PoolsServe == Spec => []PoolServesItsRun
BY RowsAgree, PTL

\* A snapshot bound to a run is in a state that belongs to the state of the run.
THEOREM SnapshotsFollow == Spec => []SnapshotsFollowRun
BY RowsAgree, PTL

\* A quarantined snapshot has an active incident of its run, and a run at most one.
THEOREM QuarantineIsWatched == Spec => []QuarantineHasIncident
BY RowsAgree, PTL

\* A key plans one run per lifetime of its record, however often a client retries.
THEOREM KeysPlanOnce == Spec => []KeyPlansOnce
BY RowsAgree, PTL

----------------------------------------------------------------------------
\* Verdicts.

\* No step but Decide moves a judged snapshot, and Decide moves quarantined ones only.
LEMMA VerdictStep ==
  ASSUME IInv, [Next]_vars, NEW s \in Snapshots, snapshots[s].state \in {"approved", "rejected"}
  PROVE  snapshots'[s] = snapshots[s]
<1> USE DEF IInv, TypeOK
<1>1. ASSUME NEW x \in Snapshots, NEW t \in Times, RegisterSnapshot(x, t)
      PROVE  snapshots'[s] = snapshots[s]
  BY <1>1 DEF RegisterSnapshot, NoSnapshot
<1>2. ASSUME NEW x \in Snapshots, ValidateSnapshot(x)
      PROVE  snapshots'[s] = snapshots[s]
  BY <1>2, SnapshotMoveSources DEF ValidateSnapshot
<1>3. ASSUME NEW k \in Keys, NEW p \in Pools, NEW S \in SUBSET Snapshots,
             NEW start \in Times, NEW finish \in Times,
             PlanInferenceRun(k, p, S, start, finish)
      PROVE  snapshots'[s] = snapshots[s]
  BY <1>3, SnapshotMoveSources DEF PlanInferenceRun, Moved
<1>4. ASSUME NEW r \in Runs, StartInferenceRun(r)
      PROVE  snapshots'[s] = snapshots[s]
  BY <1>4, SnapshotMoveSources DEF StartInferenceRun, MayStart, Moved
<1>5. ASSUME NEW r \in Runs, CompleteInferenceRun(r)
      PROVE  snapshots'[s] = snapshots[s]
  BY <1>5 DEF CompleteInferenceRun, MayComplete, Unjudged, Moved
<1>6. ASSUME NEW r \in Runs, CancelInferenceRun(r)
      PROVE  snapshots'[s] = snapshots[s]
  BY <1>6, SnapshotMoveSources DEF CancelInferenceRun, MayCancel, Moved
<1>7. ASSUME NEW r \in Runs, RecordObservation(r)
      PROVE  snapshots'[s] = snapshots[s]
  BY <1>7 DEF RecordObservation, Joined, ToQuarantine, Moved
<1>8. ASSUME NEW i \in Incidents, NEW decision \in DOMAIN Verdict, Decide(i, decision)
      PROVE  snapshots'[s] = snapshots[s]
  BY <1>8 DEF Decide, Moved
<1>9. ASSUME \/ Tick \/ PoolNext \/ UNCHANGED vars
             \/ \E r \in Runs : StageInferenceRun(r) \/ ArchiveInferenceRun(r)
             \/ \E i \in Incidents : StartReview(i)
      PROVE  snapshots'[s] = snapshots[s]
  BY <1>9 DEF Tick, PoolNext, StartReconciliation, CompleteReconciliation, Retire, vars,
              StageInferenceRun, MayStage, ArchiveInferenceRun, MayArchive, StartReview
<1> QED
  BY <1>1, <1>2, <1>3, <1>4, <1>5, <1>6, <1>7, <1>8, <1>9
  DEF Next, SnapshotNext, PlanNext, RunNext, ReviewNext

\* An approved or rejected snapshot never changes again.
THEOREM VerdictsFinal == Spec => VerdictsAreFinal
<1>1. IInv /\ [Next]_vars =>
        [\A s \in Snapshots : snapshots[s].state \in {"approved", "rejected"} =>
           snapshots'[s] = snapshots[s]]_vars
  BY VerdictStep
<1> QED
  BY <1>1, Invariance, PTL DEF Spec, VerdictsAreFinal

----------------------------------------------------------------------------
\* Runs can be ended.

\* A live run has inputs in the states that belong to its own.
LEMMA InputsOfLiveRun ==
  ASSUME TypeOK, SnapshotsFollowRun, NEW r \in Runs, NEW s \in Inputs(r)
  PROVE  /\ s \in Snapshots /\ snapshots[s].run = r /\ r # Null
         /\ snapshots[s].state \in InputStates[runs[r].state]
  BY BoundsAssumption DEF Inputs, SnapshotsFollowRun, Runs, Null

\* An input that is not stranded moves on: from reserved to materializing, and from
\* there to materialized.
LEMMA InputMovesOn ==
  ASSUME TypeOK, NEW s \in Snapshots, ~IsStranded(s)
  PROVE  /\ snapshots[s].state = "reserved" => SnapshotMay(s, "materializing")
         /\ snapshots[s].state = "materializing" => SnapshotMay(s, "materialized")
<1>1. /\ snapshots[s].expires \in Int /\ clock \in Int
      /\ snapshots[s].state \in {"reserved", "materializing"} => snapshots[s].expires > clock
  BY BoundsAssumption DEF TypeOK, SnapshotRows, Times, IsStranded
<1> QED
  BY <1>1 DEF SnapshotMay, SnapshotMoves, IsUsable

\* In every state a live run has its next call, or one of its inputs is stranded.
LEMMA LiveRunMayCall ==
  ASSUME IInv, NEW r \in Runs, IsLive(r), ~IsWedged(r)
  PROVE  MayCall(r)
<1> USE DEF IInv
<1>1. \A s \in Inputs(r) : /\ s \in Snapshots /\ snapshots[s].run = r /\ r # Null
                           /\ snapshots[s].state \in InputStates[runs[r].state]
                           /\ ~IsStranded(s)
  BY InputsOfLiveRun DEF IsWedged
<1>2. CASE runs[r].state = "queued"
  BY <1>2 DEF MayCall, MayStage, RunMay, RunMoves
<1>3. CASE runs[r].state = "staged"
  <2>1. \A s \in Inputs(r) : snapshots[s].state = "reserved"
    BY <1>1, <1>3, InputStatesOf DEF IsStranded, IsUnassigned
  <2>2. RunMay(r, "running")
    BY <1>3 DEF RunMay, RunMoves
  <2> QED
    BY <1>1, <2>1, <2>2, InputMovesOn DEF MayCall, MayStart
<1>4. CASE runs[r].state = "running"
  <2>1. \A s \in Unjudged(r) : s \in Inputs(r) /\ snapshots[s].state = "materializing"
    BY <1>1, <1>4, InputStatesOf DEF Unjudged
  <2>2. RunMay(r, "completed")
    BY <1>4 DEF RunMay, RunMoves
  <2> QED
    BY <1>1, <2>1, <2>2, InputMovesOn DEF MayCall, MayComplete
<1>5. CASE runs[r].state = "completed"
  <2>1. CASE \E s \in Inputs(r) : snapshots[s].state = "quarantined"
    BY <1>1, <2>1 DEF QuarantineHasIncident, MayCall
  <2>2. CASE \A s \in Inputs(r) : snapshots[s].state # "quarantined"
    <3>1. \A s \in Inputs(r) : IsSettled(s)
      BY <1>1, <1>5, <2>2, InputStatesOf DEF IsSettled
    <3>2. RunMay(r, "archived")
      BY <1>5 DEF RunMay, RunMoves
    <3> QED
      BY <3>1, <3>2 DEF MayCall, MayArchive
  <2> QED
    BY <2>1, <2>2
<1> QED
  BY <1>2, <1>3, <1>4, <1>5 DEF IsLive, IsWaiting, IsExecuting

\* A live run that is not wedged always has a call that brings it nearer to its end.
THEOREM RunsCanEnd == Spec => []RunCanEnd
<1>1. IInv => RunCanEnd
  BY LiveRunMayCall DEF RunCanEnd
<1> QED
  BY <1>1, Invariance, PTL

\* A completed run with no input in quarantine can be archived: what the readiness
\* report counts and what the archiving asks of the inputs agree.
THEOREM ReadyIsArchivable == Spec => []ReadyCanBeArchived
<1>1. ASSUME IInv, NEW r \in Runs, runs[r].state = "completed", IsReportedComplete(r)
      PROVE  MayArchive(r)
  <2>1. \A s \in Inputs(r) : IsSettled(s)
    BY <1>1, InputsOfLiveRun, InputStatesOf DEF IInv, IsReportedComplete, IsSettled
  <2> QED
    BY <1>1, <2>1 DEF MayArchive, RunMay, RunMoves
<1>2. IInv => ReadyCanBeArchived
  BY <1>1 DEF ReadyCanBeArchived
<1> QED
  BY <1>2, Invariance, PTL

----------------------------------------------------------------------------
\* The calls towards the end lead there.

LEMMA CallsLeftOf ==
  /\ CallsLeft["queued"] = 4 /\ CallsLeft["staged"] = 3 /\ CallsLeft["running"] = 2
  /\ CallsLeft["completed"] = 1 /\ CallsLeft["archived"] = 0 /\ CallsLeft["cancelled"] = 0
  BY DEF CallsLeft

\* A live run stays where it is or comes nearer its end, whatever the step.
LEMMA RunsAdvance ==
  ASSUME IInv, [Next]_vars, NEW r \in Runs, IsLive(r)
  PROVE  /\ CallsLeft[runs[r].state] \in Nat /\ CallsLeft[runs[r].state]' \in Nat
         /\ CallsLeft[runs[r].state]' <= CallsLeft[runs[r].state]
<1> USE CallsLeftOf DEF IInv, TypeOK, RunsOK, RunRows, IsLive, IsWaiting, IsExecuting
<1>1. CallsLeft[runs[r].state] \in Nat
  OBVIOUS
<1>2. ASSUME NEW k \in Keys, NEW p \in Pools, NEW S \in SUBSET Snapshots,
             NEW start \in Times, NEW finish \in Times,
             PlanInferenceRun(k, p, S, start, finish)
      PROVE  runs'[r] = runs[r]
  <2>1. r # lastRun + 1
    BY BoundsAssumption DEF Runs
  <2> QED
    BY <1>2, <2>1 DEF PlanInferenceRun
<1>3. ASSUME NEW q \in Runs,
             \/ StageInferenceRun(q) \/ StartInferenceRun(q) \/ CompleteInferenceRun(q)
             \/ ArchiveInferenceRun(q) \/ CancelInferenceRun(q)
      PROVE  \/ runs'[r] = runs[r]
             \/ CallsLeft[runs'[r].state] \in Nat
                  /\ CallsLeft[runs'[r].state] < CallsLeft[runs[r].state]
  BY <1>3, RunMoveSources
  DEF StageInferenceRun, MayStage, StartInferenceRun, MayStart, CompleteInferenceRun,
      MayComplete, ArchiveInferenceRun, MayArchive, CancelInferenceRun, MayCancel
<1>4. ASSUME NEW q \in Runs, RecordObservation(q)
      PROVE  runs'[r] = runs[r]
  BY <1>4 DEF RecordObservation
<1>5. Tick \/ SnapshotNext \/ ReviewNext \/ PoolNext \/ UNCHANGED vars => runs'[r] = runs[r]
  BY DEF Tick, SnapshotNext, RegisterSnapshot, ValidateSnapshot, ReviewNext, StartReview, Decide,
         PoolNext, StartReconciliation, CompleteReconciliation, Retire, vars
<1>6. \/ runs'[r] = runs[r]
      \/ CallsLeft[runs'[r].state] \in Nat
           /\ CallsLeft[runs'[r].state] < CallsLeft[runs[r].state]
  BY <1>2, <1>3, <1>4, <1>5 DEF Next, PlanNext, RunNext
<1>7. CallsLeft[runs[r].state]' = CallsLeft[runs'[r].state]
  BY DEF CallsLeft
<1> QED
  BY <1>1, <1>6, <1>7

\* A run gets an active incident only with an incident that was never there before.
LEMMA IncidentsAreNew ==
  ASSUME IInv, [Next]_vars, NEW r \in Runs
  PROVE  \/ lastIncident' > lastIncident
         \/ ActiveIncidents(r)' \subseteq ActiveIncidents(r)
<1> USE DEF IInv, TypeOK, IncidentsOK, IncidentRows
<1>1. UNCHANGED incidents => ActiveIncidents(r)' = ActiveIncidents(r)
  BY DEF ActiveIncidents, IsActive
<1>2. ASSUME NEW q \in Runs, RecordObservation(q)
      PROVE  lastIncident' > lastIncident \/ UNCHANGED incidents
  BY <1>2 DEF RecordObservation
<1>3. ASSUME NEW i \in Incidents, StartReview(i)
      PROVE  ActiveIncidents(r)' \subseteq ActiveIncidents(r)
  BY <1>3 DEF StartReview, ActiveIncidents, IsActive
<1>4. ASSUME NEW i \in Incidents, NEW decision \in DOMAIN Verdict, Decide(i, decision)
      PROVE  ActiveIncidents(r)' \subseteq ActiveIncidents(r)
  BY <1>4 DEF Decide, ActiveIncidents, IsActive
<1>5. ASSUME NEW q \in Runs,
             \/ StageInferenceRun(q) \/ StartInferenceRun(q) \/ CompleteInferenceRun(q)
             \/ ArchiveInferenceRun(q) \/ CancelInferenceRun(q)
      PROVE  UNCHANGED incidents
  BY <1>5 DEF StageInferenceRun, StartInferenceRun, CompleteInferenceRun, ArchiveInferenceRun,
              CancelInferenceRun
<1>6. Tick \/ SnapshotNext \/ PlanNext \/ PoolNext \/ UNCHANGED vars => UNCHANGED incidents
  BY DEF Tick, SnapshotNext, RegisterSnapshot, ValidateSnapshot, PlanNext, PlanInferenceRun,
         PoolNext, StartReconciliation, CompleteReconciliation, Retire, vars
<1> QED
  BY <1>1, <1>2, <1>3, <1>4, <1>5, <1>6 DEF Next, RunNext, ReviewNext

\* A call of the run's own moves it on and leaves its incidents alone.
LEMMA OwnCall ==
  ASSUME IInv, NEW r \in Runs, ~IsWedged(r),
         \/ StageInferenceRun(r) \/ StartInferenceRun(r) \/ CompleteInferenceRun(r)
         \/ ArchiveInferenceRun(r) \/ CancelInferenceRun(r)
  PROVE  /\ CallsLeft[runs[r].state]' < CallsLeft[runs[r].state]
         /\ ActiveIncidents(r)' = ActiveIncidents(r)
         /\ ~IsWedged(r)'
<1> USE DEF IInv, TypeOK, RunsOK, RunRows, SnapshotRows
<1>1. ActiveIncidents(r)' = ActiveIncidents(r)
  BY DEF StageInferenceRun, StartInferenceRun, CompleteInferenceRun, ArchiveInferenceRun,
         CancelInferenceRun, ActiveIncidents, IsActive
<1>2. CallsLeft[runs[r].state]' = CallsLeft[runs'[r].state]
  BY DEF CallsLeft
<1>3. CallsLeft[runs'[r].state] < CallsLeft[runs[r].state]
  BY RunMoveSources, CallsLeftOf
  DEF StageInferenceRun, MayStage, StartInferenceRun, MayStart, CompleteInferenceRun,
      MayComplete, ArchiveInferenceRun, MayArchive, CancelInferenceRun, MayCancel
<1>4. r # Null /\ \A s \in Inputs(r) : ~IsStranded(s)
  BY BoundsAssumption DEF IsWedged, Runs, Null
<1>5. CASE StageInferenceRun(r) \/ ArchiveInferenceRun(r)
  <2>1. UNCHANGED <<snapshots, clock>>
    BY <1>5 DEF StageInferenceRun, ArchiveInferenceRun
  <2> QED
    BY <1>1, <1>2, <1>3, <2>1 DEF IsWedged, Inputs, IsStranded, IsUnassigned
<1>6. CASE StartInferenceRun(r)
  <2>1. /\ clock' = clock
        /\ \A s \in Snapshots :
             /\ snapshots'[s].run = snapshots[s].run
             /\ snapshots'[s].expires = snapshots[s].expires
             /\ s \in Inputs(r) => /\ snapshots[s].state = "reserved"
                                   /\ snapshots'[s].state = "materializing"
    BY <1>6, SnapshotMoveSources DEF StartInferenceRun, MayStart, Moved, Inputs
  <2>2. Inputs(r)' = Inputs(r)
    BY <2>1 DEF Inputs
  <2>3. \A s \in Inputs(r) : s \in Snapshots /\ ~IsStranded(s)'
    BY <1>4, <2>1 DEF Inputs, IsStranded
  <2> QED
    BY <1>1, <1>2, <1>3, <2>2, <2>3 DEF IsWedged
<1>7. CASE CompleteInferenceRun(r)
  <2>1. /\ clock' = clock
        /\ \A s \in Snapshots :
             /\ snapshots'[s].run = snapshots[s].run
             /\ snapshots'[s] = snapshots[s] \/ snapshots'[s].state = "materialized"
    BY <1>7 DEF CompleteInferenceRun, Unjudged, Moved, Inputs
  <2>2. Inputs(r)' = Inputs(r)
    BY <2>1 DEF Inputs
  <2>3. \A s \in Inputs(r) : s \in Snapshots /\ ~IsStranded(s)'
    BY <1>4, <2>1 DEF Inputs, IsStranded, IsUnassigned
  <2> QED
    BY <1>1, <1>2, <1>3, <2>2, <2>3 DEF IsWedged
<1>8. CASE CancelInferenceRun(r)
  <2>1. Inputs(r)' = {}
    BY <1>4, <1>8 DEF CancelInferenceRun, Moved, Inputs
  <2> QED
    BY <1>1, <1>2, <1>3, <2>1 DEF IsWedged
<1> QED
  BY <1>5, <1>6, <1>7, <1>8

\* A decision closes the only active incident of its run.
LEMMA DecisionCloses ==
  ASSUME IInv, NEW r \in Runs, ~IsWedged(r), NEW i \in ActiveIncidents(r),
         NEW decision \in DOMAIN Verdict, Decide(i, decision)
  PROVE  /\ runs' = runs
         /\ ActiveIncidents(r)' = {}
         /\ ~IsWedged(r)'
<1> USE DEF IInv, TypeOK, SnapshotRows, IncidentsOK, IncidentRows
<1>1. i \in Incidents /\ incidents[i].run = r /\ IsActive(i)
  BY DEF ActiveIncidents
<1>2. \A j \in Incidents : /\ incidents'[j].run = incidents[j].run
                           /\ incidents'[j].status = IF j = i THEN decision
                                                     ELSE incidents[j].status
  BY <1>1 DEF Decide
<1>3. ActiveIncidents(r)' = {}
  BY <1>1, <1>2, Verdicts DEF QuarantineHasIncident, ActiveIncidents, IsActive
<1>4. /\ clock' = clock
      /\ \A s \in Snapshots :
           /\ snapshots'[s].run = snapshots[s].run
           /\ snapshots'[s] = snapshots[s] \/ snapshots'[s].state \in {"approved", "rejected"}
  <2>1. PICK v : v = Verdict[decision]
    OBVIOUS
  <2>2. v \in {"approved", "rejected"}
    BY <2>1, Verdicts
  <2>3. snapshots' = Moved({s \in Inputs(r) : snapshots[s].state = "quarantined"}, v, r)
    BY <1>1, <2>1 DEF Decide
  <2>4. ASSUME NEW s \in Snapshots
        PROVE  /\ snapshots'[s].run = snapshots[s].run
               /\ snapshots'[s] = snapshots[s] \/ snapshots'[s].state = v
    BY <2>3 DEF Moved, Inputs
  <2> QED
    BY <2>2, <2>4 DEF Decide
<1>5. Inputs(r)' = Inputs(r)
  BY <1>4 DEF Inputs
<1>6. \A s \in Inputs(r) : s \in Snapshots /\ ~IsStranded(s)'
  BY <1>4 DEF Inputs, IsStranded, IsUnassigned, IsWedged
<1>7. ~IsWedged(r)'
  BY <1>5, <1>6 DEF IsWedged
<1> QED
  BY <1>3, <1>7 DEF Decide

\* Calls towards the end bring a run nearer; only a new incident takes it away.
THEOREM CallsLeadToTheEnd == Spec => EveryCallNears
<1>1. ASSUME IInv, [Next]_vars, NEW r \in Runs, IsLive(r)
      PROVE  /\ Distance(r)' <= Distance(r) \/ lastIncident' > lastIncident
             /\ CallTowardsEnd(r) /\ ~IsWedged(r) => Distance(r)' < Distance(r) /\ ~IsWedged(r)'
  <2>1. PICK a, b \in Nat, x, y \in {0, 1} :
               /\ a = CallsLeft[runs[r].state] /\ b = CallsLeft[runs[r].state]'
               /\ x = IF ActiveIncidents(r) = {} THEN 0 ELSE 1
               /\ y = IF ActiveIncidents(r)' = {} THEN 0 ELSE 1
    BY <1>1, RunsAdvance
  <2>2. Distance(r) = 2 * a + x /\ Distance(r)' = 2 * b + y
    BY <2>1 DEF Distance
  <2>3. b <= a
    BY <1>1, <2>1, RunsAdvance
  <2>4. lastIncident' > lastIncident \/ y <= x
    BY <1>1, <2>1, IncidentsAreNew
  <2>5. ASSUME ~IsWedged(r),
               \/ StageInferenceRun(r) \/ StartInferenceRun(r) \/ CompleteInferenceRun(r)
               \/ ArchiveInferenceRun(r) \/ CancelInferenceRun(r)
        PROVE  b < a /\ y = x /\ ~IsWedged(r)'
    BY <1>1, <2>1, <2>5, OwnCall
  <2>6. ASSUME ~IsWedged(r), NEW i \in ActiveIncidents(r), NEW decision \in DOMAIN Verdict,
               Decide(i, decision)
        PROVE  b = a /\ x = 1 /\ y = 0 /\ ~IsWedged(r)'
    BY <1>1, <2>1, <2>6, DecisionCloses DEF CallsLeft
  <2>7. Distance(r)' <= Distance(r) \/ lastIncident' > lastIncident
    BY <2>2, <2>3, <2>4
  <2>8. CallTowardsEnd(r) /\ ~IsWedged(r) =>
          ((b < a /\ y = x) \/ (b = a /\ x = 1 /\ y = 0)) /\ ~IsWedged(r)'
    BY <2>5, <2>6 DEF CallTowardsEnd
  <2>9. (b < a /\ y = x) \/ (b = a /\ x = 1 /\ y = 0) => Distance(r)' < Distance(r)
    BY <2>2
  <2> QED
    BY <2>7, <2>8, <2>9
<1>2. IInv /\ [Next]_vars =>
        [\A r \in Runs : IsLive(r) =>
           /\ Distance(r)' <= Distance(r) \/ lastIncident' > lastIncident
           /\ CallTowardsEnd(r) /\ ~IsWedged(r) =>
                Distance(r)' < Distance(r) /\ ~IsWedged(r)']_vars
  BY <1>1
<1> QED
  BY <1>2, Invariance, PTL DEF Spec, EveryCallNears

----------------------------------------------------------------------------
\* The daily limit.

\* A set gains no more than the element added.
LEMMA OneMore ==
  ASSUME NEW D, NEW x, IsFiniteSet(D)
  PROVE  /\ IsFiniteSet(D \cup {x})
         /\ Cardinality(D) \in Nat /\ Cardinality(D \cup {x}) \in Nat
         /\ Cardinality(D \cup {x}) <= Cardinality(D) + 1
<1>1. /\ IsFiniteSet(D \cup {x})
      /\ Cardinality(D \cup {x}) = IF x \in D THEN Cardinality(D) ELSE Cardinality(D) + 1
  BY FS_AddElement
<1>2. Cardinality(D) \in Nat /\ Cardinality(D \cup {x}) \in Nat
  BY <1>1, FS_CardinalityType
<1> QED
  BY <1>1, <1>2

\* The runs counted for a day are finitely many, and so are those that start on it.
LEMMA DayIsFinite ==
  ASSUME RunsOK, NEW d
  PROVE  /\ IsFiniteSet(RunsOnDay(d)) /\ IsFiniteSet(StartsOnDay(d))
         /\ Cardinality(RunsOnDay(d)) \in Nat /\ Cardinality(StartsOnDay(d)) \in Nat
<1>1. IsFiniteSet(1..lastRun)
  BY FS_Interval, BoundsAssumption DEF RunsOK
<1>2. RunsOnDay(d) \subseteq 1..lastRun /\ StartsOnDay(d) \subseteq 1..lastRun
  BY DEF RunsOnDay, StartsOnDay
<1>3. IsFiniteSet(RunsOnDay(d)) /\ IsFiniteSet(StartsOnDay(d))
  BY <1>1, <1>2, FS_Subset
<1> QED
  BY <1>3, FS_CardinalityType

\* The instant n * SecondLength is the whole second n.
LEMMA WholeSecond ==
  ASSUME NEW n \in Int
  PROVE  Second(n * SecondLength) = n /\ Fraction(n * SecondLength) = 0
<1>1. (n * SecondLength) \div SecondLength = n
  BY TextsAssumption, SMTT(30)
<1>2. (n * SecondLength) % SecondLength = 0
  BY TextsAssumption, SMTT(30)
<1> QED
  BY <1>1, <1>2 DEF Second, Fraction

\* An instant lies in the business day that is its own.
LEMMA DayOfInstant ==
  ASSUME NEW u \in Int
  PROVE  /\ DayStart(u) \in Int /\ Second(u) \in Int
         /\ DayStart(u) <= Second(u) /\ Second(u) < DayStart(u) + DayLength
<1>1. Second(u) \in Int
  BY TextsAssumption DEF Second
<1>2. (Second(u) - CutoffHour) % DayLength \in 0..(DayLength - 1)
  BY <1>1, BoundsAssumption
<1> QED
  BY <1>1, <1>2, BoundsAssumption DEF DayStart

\* The count of texts misses no run that starts on the day, but for those that start just
\* after the cutoff.
LEMMA CountedByText ==
  ASSUME RunsOK, NEW t \in Times
  PROVE  StartsOnDay(t) \subseteq RunsOnDay(DayStart(t))
<1> SUFFICES ASSUME NEW r \in StartsOnDay(t)
             PROVE  r \in RunsOnDay(DayStart(t))
  OBVIOUS
<1> DEFINE u == runs[r].start
           d == DayStart(t)
<1>1. /\ r \in 1..lastRun /\ runs[r].state # "cancelled"
      /\ DayStart(u) = d /\ ~IsJustAfterCutoff(u)
  BY DEF StartsOnDay
<1>2. u \in Int
  BY <1>1, BoundsAssumption DEF RunsOK, RunRows, Runs, Times
<1>3. d \in Int /\ Second(u) \in Int /\ d <= Second(u) /\ Second(u) < d + DayLength
  BY <1>1, <1>2, DayOfInstant
<1> HIDE DEF u, d
<1>4. ~IsTextBefore(u, d * SecondLength)
  <2>1. Second(d * SecondLength) = d /\ Fraction(d * SecondLength) = 0
    BY <1>3, WholeSecond
  <2>2. Second(u) = d => Fraction(u) = 0
    BY <1>1 DEF IsJustAfterCutoff
  <2>3. FractionRank[0] \in Int
    BY TextsAssumption DEF Fractions
  <2> QED
    BY <1>3, <2>1, <2>2, <2>3 DEF IsTextBefore
<1>5. IsTextBefore(u, (d + DayLength) * SecondLength)
  <2>1. d + DayLength \in Int
    BY <1>3, BoundsAssumption
  <2>2. Second((d + DayLength) * SecondLength) = d + DayLength
    BY <2>1, WholeSecond
  <2> QED
    BY <1>3, <2>2 DEF IsTextBefore
<1> QED
  BY <1>1, <1>4, <1>5 DEF RunsOnDay, u, d

\* A run keeps its start, and none comes back from cancelled: but for the plan, a step
\* adds no run to a day.
LEMMA DayStep ==
  ASSUME IInv, DailyLimitHolds, [Next]_vars
  PROVE  DailyLimitHolds'
<1> USE DEF IInv, TypeOK
<1>a. ASSUME lastRun' = lastRun,
             \A q \in 1..lastRun : /\ runs'[q].start = runs[q].start
                                   /\ runs[q].state = "cancelled" => runs'[q].state = "cancelled"
      PROVE  DailyLimitHolds'
  <2>1. SUFFICES ASSUME NEW t \in Times
                 PROVE  Cardinality(StartsOnDay(t)') <= DailyLimit
    BY DEF DailyLimitHolds, Times
  <2>2. StartsOnDay(t)' \subseteq StartsOnDay(t)
    BY <1>a DEF StartsOnDay
  <2>3. IsFiniteSet(StartsOnDay(t)) /\ Cardinality(StartsOnDay(t)) \in Nat
    BY DayIsFinite
  <2>4. Cardinality(StartsOnDay(t)') <= Cardinality(StartsOnDay(t)) /\ IsFiniteSet(StartsOnDay(t)')
    BY <2>2, <2>3, FS_Subset
  <2>5. Cardinality(StartsOnDay(t)') \in Nat
    BY <2>4, FS_CardinalityType
  <2>6. Cardinality(StartsOnDay(t)) <= DailyLimit
    BY DEF DailyLimitHolds
  <2> QED
    BY <2>3, <2>4, <2>5, <2>6, BoundsAssumption
<1>1. ASSUME NEW k \in Keys, NEW p \in Pools, NEW S \in SUBSET Snapshots,
             NEW start \in Times, NEW finish \in Times,
             PlanInferenceRun(k, p, S, start, finish)
      PROVE  DailyLimitHolds'
  <2>1. SUFFICES ASSUME NEW t \in Times
                 PROVE  Cardinality(StartsOnDay(t)') <= DailyLimit
    BY DEF DailyLimitHolds, Times
  <2>2. PICK d : d = DayStart(t)
    OBVIOUS
  <2>3. PICK r : r = lastRun + 1
    OBVIOUS
  <2>4. r \in Runs /\ lastRun' = r /\ 1..r = (1..lastRun) \cup {r} /\ r \notin 1..lastRun
        /\ 1..lastRun \subseteq Runs
    <3>1. lastRun \in Nat /\ lastRun < MaxRuns /\ lastRun' = r
      BY <1>1, <2>3, BoundsAssumption DEF PlanInferenceRun, RunsOK
    <3> QED
      BY <2>3, <3>1, BoundsAssumption DEF Runs
  <2>5. \A q \in Runs : /\ q # r => runs'[q] = runs[q]
                        /\ q = r => runs'[q].start = start
    BY <1>1, <2>3 DEF PlanInferenceRun, RunsOK
  \* On the day of the new run, the code has counted all the others.
  <2>6. CASE DayStart(start) = d
    <3>1. StartsOnDay(t)' \subseteq RunsOnDay(d) \cup {r}
      <4>1. StartsOnDay(t)' \subseteq StartsOnDay(t) \cup {r}
        BY <2>4, <2>5 DEF StartsOnDay
      <4> QED
        BY <2>2, <4>1, CountedByText
    <3>2. PICK D : D = RunsOnDay(d)
      OBVIOUS
    <3>3. IsFiniteSet(D) /\ Cardinality(D) \in Nat
      BY <3>2, DayIsFinite
    <3>4. /\ IsFiniteSet(D \cup {r}) /\ Cardinality(D \cup {r}) \in Nat
          /\ Cardinality(D \cup {r}) <= Cardinality(D) + 1
      BY <3>3, OneMore
    <3>5. /\ Cardinality(StartsOnDay(t)') \in Nat
          /\ Cardinality(StartsOnDay(t)') <= Cardinality(D \cup {r})
      BY <3>1, <3>2, <3>4, FS_Subset, FS_CardinalityType
    <3>6. Cardinality(D) < DailyLimit
      BY <1>1, <2>6, <3>2 DEF PlanInferenceRun, DayHasRoom
    <3> QED
      BY <3>3, <3>4, <3>5, <3>6, BoundsAssumption
  <2>7. CASE DayStart(start) # d
    <3>1. StartsOnDay(t)' = StartsOnDay(t)
      BY <2>2, <2>4, <2>5, <2>7 DEF StartsOnDay
    <3> QED
      BY <3>1 DEF DailyLimitHolds
  <2> QED
    BY <2>6, <2>7
<1>2. ASSUME NEW r \in Runs,
             \/ StageInferenceRun(r) \/ StartInferenceRun(r) \/ CompleteInferenceRun(r)
             \/ ArchiveInferenceRun(r) \/ CancelInferenceRun(r)
      PROVE  DailyLimitHolds'
  <2>1. 1..lastRun \subseteq Runs
    BY BoundsAssumption DEF RunsOK, Runs
  <2>2. runs[r].state # "cancelled"
    BY <1>2, RunMoveSources
    DEF StageInferenceRun, MayStage, StartInferenceRun, MayStart, CompleteInferenceRun,
        MayComplete, Unjudged, ArchiveInferenceRun, MayArchive, CancelInferenceRun, MayCancel
  <2>3. /\ lastRun' = lastRun
        /\ \A q \in Runs : /\ runs'[q].start = runs[q].start
                           /\ q # r => runs'[q] = runs[q]
    BY <1>2 DEF StageInferenceRun, MayStage, StartInferenceRun, MayStart, CompleteInferenceRun,
                MayComplete, Unjudged, ArchiveInferenceRun, MayArchive,
                CancelInferenceRun, MayCancel, RunsOK, RunRows
  <2> QED
    BY <2>1, <2>2, <2>3, <1>a
<1>3. UNCHANGED <<lastRun, runs>> => DailyLimitHolds'
  BY <1>a
<1>4. Tick \/ SnapshotNext \/ ReviewNext \/ PoolNext \/ UNCHANGED vars
        => UNCHANGED <<lastRun, runs>>
  BY DEF Tick, SnapshotNext, RegisterSnapshot, ValidateSnapshot, ReviewNext, StartReview, Decide,
         PoolNext, StartReconciliation, CompleteReconciliation, Retire, vars
<1>5. ASSUME NEW r \in Runs, RecordObservation(r)
      PROVE  UNCHANGED <<lastRun, runs>>
  BY <1>5 DEF RecordObservation, Joined
<1> QED
  BY <1>1, <1>2, <1>3, <1>4, <1>5 DEF Next, PlanNext, RunNext

\* No business day has more runs than the zone's limit, those cancelled and those that
\* start just after the cutoff aside, whatever the order of the fractions' texts.
THEOREM DailyLimitKept == Spec => []DailyLimitHolds
<1>1. Init => DailyLimitHolds
  <2> SUFFICES ASSUME Init, NEW t \in Times
               PROVE  Cardinality(StartsOnDay(t)) <= DailyLimit
    BY DEF DailyLimitHolds
  <2>1. StartsOnDay(t) = {}
    BY DEF Init, StartsOnDay
  <2> QED
    BY <2>1, FS_EmptySet, BoundsAssumption
<1>2. IInv /\ DailyLimitHolds /\ [Next]_vars => DailyLimitHolds'
  BY DayStep
<1> QED
  BY <1>1, <1>2, Invariance, PTL DEF Spec

----------------------------------------------------------------------------
\* InferenceRuns implements RunLease.

LEMMA LeaseInit == Init => Lease!Init
<1> SUFFICES ASSUME Init
             PROVE  Lease!Init
  OBVIOUS
<1>1. Holder = [x \in Pools \cup Snapshots |-> Null]
  BY IdsAssumption DEF Init, Holder, NoSnapshot
<1>2. Begun = {} /\ Ended = {}
  BY DEF Init, NoRun, Begun, Ended, HasEnded
<1> QED
  BY <1>1, <1>2 DEF Lease!Init, Lease!Resources

\* A pool held for r is the pool r names.
LEMMA HeldPool ==
  ASSUME IInv, NEW p \in Pools, NEW r \in Runs, pools[p].run = r
  PROVE  IsLive(r) /\ runs[r].pool = p
<1>1. r # Null
  BY BoundsAssumption DEF Null, Runs
<1> QED
  BY <1>1 DEF IInv, PoolServesItsRun

\* Steps that change neither a holder nor the class of a run.
LEMMA LeaseStutter ==
  ASSUME \A p \in Pools : pools'[p].run = pools[p].run,
         \A s \in Snapshots : snapshots'[s].run = snapshots[s].run,
         \A r \in Runs : /\ r \in Begun' <=> r \in Begun
                         /\ r \in Ended' <=> r \in Ended
  PROVE  UNCHANGED Lease!vars
<1>1. Holder' = Holder
  BY DEF Holder
<1>2. Begun' = Begun /\ Ended' = Ended
  BY DEF Begun, Ended
<1> QED
  BY <1>1, <1>2 DEF Lease!vars

LEMMA LeaseStep ==
  ASSUME IInv, [Next]_vars
  PROVE  Lease!Next \/ UNCHANGED Lease!vars
<1> USE DEF IInv, TypeOK, HasEnded
<1>a. UNCHANGED runs => \A r \in Runs : /\ r \in Begun' <=> r \in Begun
                                        /\ r \in Ended' <=> r \in Ended
  BY DEF Begun, Ended
<1>b. Null \notin Runs
  BY BoundsAssumption DEF Null, Runs
<1>1. CASE Tick
  BY <1>1, <1>a, LeaseStutter DEF Tick
<1>2. CASE SnapshotNext
  <2>1. UNCHANGED <<runs, pools>>
    BY <1>2 DEF SnapshotNext, RegisterSnapshot, ValidateSnapshot
  <2>2. \A s \in Snapshots : snapshots'[s].run = snapshots[s].run
    BY <1>2 DEF SnapshotNext, RegisterSnapshot, ValidateSnapshot, NoSnapshot, SnapshotRows
  <2> QED
    BY <2>1, <2>2, <1>a, LeaseStutter
<1>3. ASSUME NEW k \in Keys, NEW p \in Pools, NEW S \in SUBSET Snapshots,
             NEW start \in Times, NEW finish \in Times,
             PlanInferenceRun(k, p, S, start, finish)
      PROVE  Lease!Next
  <2>1. PICK r : r = lastRun + 1
    OBVIOUS
  <2>2. r \in Runs /\ runs[r].state = "none"
    BY <1>3, <2>1, BoundsAssumption DEF PlanInferenceRun, RunsOK, Runs
  <2>3. \A q \in Runs : runs'[q].state = IF q = r THEN "queued" ELSE runs[q].state
    BY <1>3, <2>1 DEF PlanInferenceRun, RunsOK
  <2>4. \A x \in Pools : pools'[x].run = IF x = p THEN r ELSE pools[x].run
    BY <1>3, <2>1 DEF PlanInferenceRun, PoolRows
  <2>5. \A s \in Snapshots : snapshots'[s].run = IF s \in S THEN r ELSE snapshots[s].run
    BY <1>3, <2>1 DEF PlanInferenceRun, Moved, SnapshotRows
  <2>6. pools[p].run = Null /\ \A s \in S : snapshots[s].run = Null
    BY <1>3 DEF PlanInferenceRun, EligibleFor, IsUnassigned, PoolServesItsRun
  <2>7. \A x \in Pools \cup Snapshots : Holder[x] # r
    <3>1. \A x \in Pools : pools[x].run # r
      BY <2>2, HeldPool DEF IsLive, IsWaiting, IsExecuting
    <3>2. \A s \in Snapshots : snapshots[s].run # r
      BY <2>2, <1>b DEF SnapshotsFollowRun
    <3> QED
      BY <3>1, <3>2 DEF Holder
  <2>8. Holder' = Lease!Given({p} \cup S, r)
    BY <2>4, <2>5, IdsAssumption DEF Holder, Lease!Given, Lease!Resources
  <2>9. Begun' = Begun /\ Ended' = Ended /\ r \notin Ended \cup Begun
    BY <2>2, <2>3 DEF Begun, Ended
  <2>10. Lease!IsFree(p) /\ \A s \in S : Lease!IsFree(s)
    BY <2>6, IdsAssumption DEF Holder, Lease!IsFree
  <2>11. S # {}
    BY <1>3 DEF PlanInferenceRun
  <2>12. Lease!Acquire(r, p, S)
    BY <2>7, <2>8, <2>9, <2>10, <2>11 DEF Lease!Acquire, Lease!Resources
  <2> QED
    BY <2>2, <2>12 DEF Lease!Next
<1>4. ASSUME NEW r \in Runs, StageInferenceRun(r)
      PROVE  UNCHANGED Lease!vars
  <2>1. \A q \in Runs : runs'[q].state = IF q = r THEN "staged" ELSE runs[q].state
    BY <1>4 DEF StageInferenceRun, MayStage, RunsOK, RunRows
  <2>2. runs[r].state = "queued" /\ UNCHANGED <<pools, snapshots>>
    BY <1>4, RunMoveSources DEF StageInferenceRun, MayStage
  <2>3. \A q \in Runs : /\ q \in Begun' <=> q \in Begun
                        /\ q \in Ended' <=> q \in Ended
    BY <2>1, <2>2 DEF Begun, Ended
  <2> QED
    BY <2>2, <2>3, LeaseStutter
<1>5. ASSUME NEW r \in Runs, StartInferenceRun(r)
      PROVE  Lease!Next
  <2>1. \A q \in Runs : runs'[q].state = IF q = r THEN "running" ELSE runs[q].state
    BY <1>5 DEF StartInferenceRun, MayStart, RunsOK, RunRows
  <2>2. runs[r].state = "staged"
    BY <1>5, RunMoveSources DEF StartInferenceRun, MayStart
  <2>3. \A x \in Pools : pools'[x].run = pools[x].run
    BY <1>5 DEF StartInferenceRun, MayStart, PoolRows
  <2>4. \A s \in Snapshots : snapshots'[s].run = snapshots[s].run
    BY <1>5 DEF StartInferenceRun, MayStart, Moved, Inputs, SnapshotRows
  <2>5. Holder' = Holder
    BY <2>3, <2>4 DEF Holder
  <2>6. Begun' = Begun \cup {r} /\ Ended' = Ended /\ r \notin Begun
    BY <2>1, <2>2 DEF Begun, Ended
  <2>7. Lease!HoldsPool(r)
    BY <2>2, LiveRunHasPool
    DEF Lease!HoldsPool, Holder, PoolServesItsRun, IsLive, IsWaiting, IsExecuting
  <2>8. Lease!Begin(r)
    BY <2>5, <2>6, <2>7 DEF Lease!Begin
  <2> QED
    BY <2>8 DEF Lease!Next
<1>6. ASSUME NEW r \in Runs, CompleteInferenceRun(r)
      PROVE  UNCHANGED Lease!vars
  <2>1. \A q \in Runs : runs'[q].state = IF q = r THEN "completed" ELSE runs[q].state
    BY <1>6 DEF CompleteInferenceRun, MayComplete, Unjudged, RunsOK, RunRows
  <2>2. runs[r].state = "running" /\ UNCHANGED pools
    BY <1>6, RunMoveSources DEF CompleteInferenceRun, MayComplete, Unjudged
  <2>3. \A q \in Runs : /\ q \in Begun' <=> q \in Begun
                        /\ q \in Ended' <=> q \in Ended
    BY <2>1, <2>2 DEF Begun, Ended
  <2>4. \A s \in Snapshots : snapshots'[s].run = snapshots[s].run
    BY <1>6 DEF CompleteInferenceRun, MayComplete, Unjudged, Moved, Inputs, SnapshotRows
  <2> QED
    BY <2>2, <2>3, <2>4, LeaseStutter
<1>7. ASSUME NEW r \in Runs, ArchiveInferenceRun(r)
      PROVE  Lease!Next
  <2>1. \A q \in Runs : runs'[q].state = IF q = r THEN "archived" ELSE runs[q].state
    BY <1>7 DEF ArchiveInferenceRun, MayArchive, RunsOK, RunRows
  <2>2. runs[r].state = "completed" /\ UNCHANGED snapshots
    BY <1>7, RunMoveSources DEF ArchiveInferenceRun, MayArchive
  <2>3. runs[r].pool \in Pools /\ pools[runs[r].pool].run = r
    BY <2>2, LiveRunHasPool DEF PoolServesItsRun, IsLive, IsWaiting, IsExecuting
  <2>4. \A x \in Pools : pools'[x].run = IF x = runs[r].pool THEN Null ELSE pools[x].run
    BY <1>7, <2>3 DEF ArchiveInferenceRun, MayArchive, Freed, PoolRows
  <2>5. \A x \in Pools : pools[x].run = r <=> x = runs[r].pool
    BY <2>3, HeldPool
  <2>6. Holder' = Lease!TakenBack(Pools, r)
    BY <2>2, <2>4, <2>5, IdsAssumption DEF Holder, Lease!TakenBack, Lease!Resources
  <2>7. Begun' = Begun /\ Ended' = Ended \cup {r} /\ r \in Begun
    BY <2>1, <2>2 DEF Begun, Ended
  <2>8. Lease!HoldsPool(r)
    BY <2>3 DEF Lease!HoldsPool, Holder
  <2>9. Lease!Archive(r)
    BY <2>6, <2>7, <2>8 DEF Lease!Archive
  <2> QED
    BY <2>9 DEF Lease!Next
<1>8. ASSUME NEW r \in Runs, CancelInferenceRun(r)
      PROVE  Lease!Next
  <2>1. \A q \in Runs : runs'[q].state = IF q = r THEN "cancelled" ELSE runs[q].state
    BY <1>8 DEF CancelInferenceRun, MayCancel, RunsOK, RunRows
  <2>2. runs[r].state \in {"queued", "staged"}
    BY <1>8, RunMoveSources DEF CancelInferenceRun, MayCancel
  <2>3. runs[r].pool \in Pools /\ pools[runs[r].pool].run = r
    BY <2>2, LiveRunHasPool DEF PoolServesItsRun, IsLive, IsWaiting, IsExecuting
  <2>4. \A x \in Pools : pools'[x].run = IF x = runs[r].pool THEN Null ELSE pools[x].run
    BY <1>8, <2>3 DEF CancelInferenceRun, MayCancel, Freed, PoolRows
  <2>5. \A x \in Pools : pools[x].run = r <=> x = runs[r].pool
    BY <2>3, HeldPool
  <2>6. \A s \in Snapshots : snapshots'[s].run =
          IF snapshots[s].run = r THEN Null ELSE snapshots[s].run
    BY <1>8 DEF CancelInferenceRun, MayCancel, Moved, Inputs, SnapshotRows
  <2>7. Holder' = Lease!TakenBack(Pools \cup Snapshots, r)
    BY <2>4, <2>5, <2>6, IdsAssumption DEF Holder, Lease!TakenBack, Lease!Resources
  <2>8. Begun' = Begun /\ Ended' = Ended \cup {r} /\ r \notin Begun
    BY <2>1, <2>2 DEF Begun, Ended
  <2>9. Lease!HoldsPool(r)
    BY <2>3 DEF Lease!HoldsPool, Holder
  <2>10. Lease!Cancel(r)
    BY <2>7, <2>8, <2>9 DEF Lease!Cancel, Lease!Resources
  <2> QED
    BY <2>10 DEF Lease!Next
<1>9. ASSUME NEW r \in Runs, RecordObservation(r)
      PROVE  UNCHANGED Lease!vars
  <2>1. \A s \in Snapshots : snapshots'[s].run = snapshots[s].run
    BY <1>9 DEF RecordObservation, Joined, Moved, ToQuarantine, Inputs, SnapshotRows
  <2>2. UNCHANGED <<runs, pools>>
    BY <1>9 DEF RecordObservation, Joined
  <2> QED
    BY <2>1, <2>2, <1>a, LeaseStutter
<1>10. CASE ReviewNext
  <2>1. \A s \in Snapshots : snapshots'[s].run = snapshots[s].run
    BY <1>10 DEF ReviewNext, StartReview, Decide, Moved, Inputs, SnapshotRows
  <2>2. UNCHANGED <<runs, pools>>
    BY <1>10 DEF ReviewNext, StartReview, Decide
  <2> QED
    BY <2>1, <2>2, <1>a, LeaseStutter
<1>11. CASE PoolNext
  <2>1. UNCHANGED <<runs, snapshots>>
    BY <1>11 DEF PoolNext, StartReconciliation, CompleteReconciliation, Retire
  <2>2. \A x \in Pools : pools'[x].run = pools[x].run
    BY <1>11
    DEF PoolNext, StartReconciliation, CompleteReconciliation, Retire, RetireAllowed, PoolRows,
        PoolServesItsRun
  <2> QED
    BY <2>1, <2>2, <1>a, LeaseStutter
<1>12. CASE UNCHANGED vars
  BY <1>12, <1>a, LeaseStutter DEF vars
<1> QED
  BY <1>1, <1>2, <1>3, <1>4, <1>5, <1>6, <1>7, <1>8, <1>9, <1>10, <1>11, <1>12
  DEF Next, PlanNext, RunNext

\* A run takes its pool and its inputs in one step, returns everything when cancelled,
\* and spends its inputs once it has begun.
THEOREM ImplementsLease == Spec => TakesAndReturns
<1>1. Init => Lease!Init
  BY LeaseInit
<1>2. IInv /\ [Next]_vars => [Lease!Next]_(Lease!vars)
  BY LeaseStep
<1> QED
  BY <1>1, <1>2, Invariance, PTL DEF Spec, TakesAndReturns, Lease!Spec

----------------------------------------------------------------------------
\* What a run keeps.

\* A run moves along its table and no other way.
LEMMA RunKeepsToTable ==
  ASSUME IInv, [Next]_vars, NEW r \in Runs, runs[r].state # "none"
  PROVE  runs'[r].state = runs[r].state \/ RunMay(r, runs'[r].state)
<1> USE DEF IInv, TypeOK, RunsOK
<1>1. ASSUME NEW k \in Keys, NEW p \in Pools, NEW S \in SUBSET Snapshots,
             NEW start \in Times, NEW finish \in Times,
             PlanInferenceRun(k, p, S, start, finish)
      PROVE  runs'[r] = runs[r]
  <2>1. r # lastRun + 1
    BY BoundsAssumption DEF Runs
  <2> QED
    BY <1>1, <2>1 DEF PlanInferenceRun
<1>2. ASSUME NEW q \in Runs,
             \/ StageInferenceRun(q) \/ StartInferenceRun(q) \/ CompleteInferenceRun(q)
             \/ ArchiveInferenceRun(q) \/ CancelInferenceRun(q)
      PROVE  runs'[r] = runs[r] \/ RunMay(r, runs'[r].state)
  <2>1. PICK to : runs' = [runs EXCEPT ![q].state = to] /\ RunMay(q, to)
    BY <1>2
    DEF StageInferenceRun, MayStage, StartInferenceRun, MayStart, CompleteInferenceRun,
        MayComplete, ArchiveInferenceRun, MayArchive, CancelInferenceRun, MayCancel
  <2> QED
    BY <2>1 DEF RunRows
<1>3. ASSUME NEW q \in Runs, RecordObservation(q)
      PROVE  runs'[r] = runs[r]
  BY <1>3 DEF RecordObservation
<1>4. Tick \/ SnapshotNext \/ ReviewNext \/ PoolNext \/ UNCHANGED vars => runs'[r] = runs[r]
  BY DEF Tick, SnapshotNext, RegisterSnapshot, ValidateSnapshot, ReviewNext, StartReview, Decide,
         PoolNext, StartReconciliation, CompleteReconciliation, Retire, vars
<1> QED
  BY <1>1, <1>2, <1>3, <1>4 DEF Next, PlanNext, RunNext

\* So a completed run stays completed until it is archived, and archived for good.
LEMMA RunGoesOn ==
  ASSUME IInv, [Next]_vars, NEW r \in Runs, runs[r].state # "none"
  PROVE  /\ runs'[r].state # "none"
         /\ runs[r].state = "cancelled" => runs'[r].state = "cancelled"
         /\ runs[r].state = "archived" => runs'[r].state = "archived"
         /\ HasEndedWell(runs[r].state) => HasEndedWell(runs'[r].state)
  BY RunKeepsToTable DEF RunMay, RunMoves, HasEndedWell

\* A planned run keeps its inputs until it is cancelled, and gets no others: what
\* RunLease says of the resources a run holds.
LEMMA InputsStay ==
  ASSUME IInv, [Next]_vars, NEW r \in Runs, runs[r].state # "none"
  PROVE  IF runs'[r].state = "cancelled" THEN Inputs(r)' = {} ELSE Inputs(r)' = Inputs(r)
<1>a. r # Null
  BY BoundsAssumption DEF Runs, Null
<1>b. SnapshotsFollowRun'
  BY InvStep DEF IInv
<1>1. CASE runs'[r].state = "cancelled"
  BY <1>1, <1>a, <1>b, InputStatesOf DEF SnapshotsFollowRun, Inputs
<1>2. ASSUME runs'[r].state # "cancelled" PROVE Inputs(r)' = Inputs(r)
  <2>1. /\ Inputs(r) = {s \in Snapshots : Holder[s] = r}
        /\ Inputs(r)' = {s \in Snapshots : Holder'[s] = r}
    BY IdsAssumption DEF Inputs, Holder
  <2>2. CASE UNCHANGED Lease!vars
    BY <2>1, <2>2 DEF Lease!vars
  <2>3. ASSUME NEW x \in Runs, NEW p \in Pools, NEW S \in SUBSET Snapshots,
               Lease!Acquire(x, p, S)
        PROVE  Inputs(r)' = Inputs(r)
    <3>1. x # r
      <4>1. IsLive(r) => Inputs(r) # {}
        BY DEF IInv, SnapshotsFollowRun
      <4>2. r \in Begun \cup Ended \/ IsLive(r)
        BY DEF IInv, TypeOK, RunsOK, RunRows, RunStates, Begun, Ended, IsLive, IsWaiting,
               IsExecuting, HasEnded
      <4> QED
        BY <2>1, <2>3, <4>1, <4>2 DEF Lease!Acquire, Lease!Resources
    <3>2. \A s \in Snapshots : Holder'[s] = IF s \in {p} \cup S THEN x ELSE Holder[s]
      BY <2>3 DEF Lease!Acquire, Lease!Given, Lease!Resources
    <3>3. \A s \in Snapshots : s \in {p} \cup S => Holder[s] = Null
      BY <2>3 DEF Lease!Acquire, Lease!IsFree
    <3> QED
      BY <2>1, <3>1, <3>2, <3>3, <1>a
  <2>4. ASSUME NEW x \in Runs, Lease!Begin(x) PROVE Inputs(r)' = Inputs(r)
    BY <2>1, <2>4 DEF Lease!Begin
  <2>5. ASSUME NEW x \in Runs, Lease!Cancel(x) PROVE Inputs(r)' = Inputs(r)
    <3>1. x # r
      BY <1>2, <2>5 DEF Lease!Cancel, Begun, Ended, HasEnded
    <3>2. \A s \in Snapshots : Holder'[s] = IF Holder[s] = x THEN Null ELSE Holder[s]
      BY <2>5 DEF Lease!Cancel, Lease!TakenBack, Lease!Resources
    <3> QED
      BY <2>1, <3>1, <3>2, <1>a
  <2>6. ASSUME NEW x \in Runs, Lease!Archive(x) PROVE Inputs(r)' = Inputs(r)
    <3>1. \A s \in Snapshots : Holder'[s] = Holder[s]
      BY <2>6, IdsAssumption DEF Lease!Archive, Lease!TakenBack, Lease!Resources
    <3> QED
      BY <2>1, <3>1
  <2> QED
    BY <2>2, <2>3, <2>4, <2>5, <2>6, LeaseStep DEF Lease!Next
<1> QED
  BY <1>1, <1>2

----------------------------------------------------------------------------
\* Readiness reports.

LEMMA OrderIs ==
  /\ Len(Order) = 7
  /\ Order[1] = "expected" /\ Order[2] = "counted" /\ Order[3] = "approved"
  /\ Order[4] = "rejected" /\ Order[5] = "quarantined" /\ Order[6] = "asked"
  /\ Order[7] = "open"
  BY DEF Order

LEMMA TablesType ==
  ASSUME NEW r \in Runs
  PROVE  /\ Tables(r) \in Rows
         /\ Tables(r).asked \subseteq {r}
  BY DEF Tables, Rows, Inputs, ActiveIncidents

\* What a statement adds to a report.
LEMMA StatementAdds ==
  ASSUME report \in Reports, ReadNext
  PROVE  /\ report.read \in 0..6 /\ report'.read = report.read + 1
         /\ report'.run = report.run /\ report'.state = report.state
         /\ report'.since = report.since
         /\ report'.instants = report.instants \cup {WouldSay(report.run)}
         /\ report'.found = [report.found EXCEPT ![Order[report.read + 1]] =
                               Tables(report.run)[Order[report.read + 1]]]
<1>1. report.read \in 0..6
  BY OrderIs DEF ReadNext, IsFinished, Reports
<1> QED
  BY <1>1 DEF ReadNext, Reports

\* The rows a report has found after a statement.
LEMMA StatementFinds ==
  ASSUME report \in Reports, ReadNext, NEW k, k = report.read
  PROVE  LET now == Tables(report.run)
             was == report.found IN
         /\ report'.found =
              [expected    |-> IF k = 0 THEN now.expected ELSE was.expected,
               counted     |-> IF k = 1 THEN now.counted ELSE was.counted,
               approved    |-> IF k = 2 THEN now.approved ELSE was.approved,
               rejected    |-> IF k = 3 THEN now.rejected ELSE was.rejected,
               quarantined |-> IF k = 4 THEN now.quarantined ELSE was.quarantined,
               asked       |-> IF k = 5 THEN now.asked ELSE was.asked,
               open        |-> IF k = 6 THEN now.open ELSE was.open]
         /\ report'.found \in Rows
<1>1. PICK n : n = Order[k + 1]
  OBVIOUS
<1>2. /\ n = "expected" <=> k = 0
      /\ n = "counted" <=> k = 1
      /\ n = "approved" <=> k = 2
      /\ n = "rejected" <=> k = 3
      /\ n = "quarantined" <=> k = 4
      /\ n = "asked" <=> k = 5
      /\ n = "open" <=> k = 6
      /\ n \in {"expected", "counted", "approved", "rejected", "quarantined", "asked", "open"}
  <2>1. k \in {0, 1, 2, 3, 4, 5, 6}
    BY StatementAdds
  <2> QED
    BY <1>1, <2>1, OrderIs
<1>3. report'.found = [report.found EXCEPT ![n] = Tables(report.run)[n]]
  BY <1>1, StatementAdds
<1>4. report.found \in Rows /\ Tables(report.run) \in Rows
  BY TablesType DEF Reports
<1> QED
  BY <1>2, <1>3, <1>4 DEF Rows

\* The writers go on as in InferenceRuns.
LEMMA WritersStep ==
  ASSUME [ReportNext]_reportVars
  PROVE  [Next]_vars
  BY DEF ReportNext, WriteTables, AskApproval, AnswerApproval, ReadRun, ReadNext, Discard, reportVars

LEMMA ReportsAreNot == NoReport \notin Reports /\ NoReport.run = Null /\ NoReport.read = 0
<1>1. NoReport.run \notin Runs
  BY BoundsAssumption DEF NoReport, Runs, Null
<1> QED
  BY <1>1 DEF Reports, NoReport

\* A writer leaves a report as it is, its history aside.
LEMMA HistoryStep ==
  ASSUME ReportOK, WriteTables \/ \E r \in Runs : AskApproval(r)
  PROVE  /\ report = NoReport => report' = NoReport
         /\ report \in Reports =>
              /\ report' \in Reports
              /\ report'.run = report.run /\ report'.state = report.state
              /\ report'.read = report.read /\ report'.found = report.found
              /\ report'.instants = report.instants
              /\ report.since \subseteq report'.since
<1>1. CASE report = NoReport
  <2>1. ~IsFinished /\ \A r \in Runs : r # report.run
    BY <1>1, OrderIs, BoundsAssumption DEF IsFinished, NoReport, Runs, Null
  <2> QED
    BY <1>1, <2>1, ReportsAreNot DEF WriteTables, AskApproval
<1>2. CASE report \in Reports
  <2>1. \/ report' = report
        \/ report' = [report EXCEPT !.since = @ \cup {"approval"}]
        \/ report' = [report EXCEPT !.since = @ \cup {"quarantine"}]
    BY DEF WriteTables, AskApproval
  <2> QED
    BY <1>2, <2>1, ReportsAreNot DEF Reports
<1> QED
  BY <1>1, <1>2 DEF ReportOK

LEMMA ReportTypeStep ==
  ASSUME IInv, ReportOK, [ReportNext]_reportVars
  PROVE  ReportOK'
<1>1. TypeOK'
  BY WritersStep, InvStep DEF IInv
<1>2. CASE WriteTables \/ \E r \in Runs : AskApproval(r)
  <2>1. report' \in Reports \cup {NoReport}
    BY <1>2, HistoryStep DEF ReportOK
  <2>2. pending' \subseteq Runs
    BY <1>2 DEF ReportOK, WriteTables, AskApproval
  <2> QED
    BY <1>1, <2>1, <2>2 DEF ReportOK, Reports, NoReport
<1>3. CASE \E r \in Runs : AnswerApproval(r)
  BY <1>1, <1>3 DEF ReportOK, AnswerApproval, Reports, NoReport
<1>4. ASSUME NEW r \in Runs, ReadRun(r)
      PROVE  ReportOK'
  <2>1. WouldSay(r) \in {"complete", "blocked"}
    BY DEF WouldSay, Said
  <2>2. runs[r].state \in RunStates
    BY <1>4 DEF ReadRun, IInv, TypeOK, RunsOK, RunRows
  <2>3. report' = [run |-> r, state |-> runs[r].state, read |-> 0, found |-> Nothing,
                   instants |-> {WouldSay(r)}, since |-> {}]
    BY <1>4 DEF ReadRun, NoReport
  <2>4. Nothing \in Rows
    BY DEF Nothing, Counts, Rows
  <2>5. report' \in Reports
    BY <2>1, <2>2, <2>3, <2>4, OrderIs DEF Reports
  <2> QED
    BY <1>1, <1>4, <2>5 DEF ReportOK, ReadRun, Reports, NoReport
<1>5. CASE ReadNext
  <2>1. report \in Reports
    BY <1>5 DEF ReportOK, ReadNext
  <2>2. Tables(report.run) \in Rows /\ WouldSay(report.run) \in {"complete", "blocked"}
    BY <2>1, TablesType DEF Reports, WouldSay, Said
  <2>3. report'.found \in Rows
    BY <1>5, <2>1, StatementFinds
  <2>4. report' = [run |-> report.run, state |-> report.state, read |-> report.read + 1,
                   found |-> report'.found, since |-> report.since,
                   instants |-> report.instants \cup {WouldSay(report.run)}]
    BY <1>5, <2>1 DEF ReadNext, Reports
  <2>5. report' \in Reports
    BY <1>5, <2>1, <2>2, <2>3, <2>4, StatementAdds, OrderIs DEF Reports
  <2> QED
    BY <1>1, <1>5, <2>5 DEF ReportOK, ReadNext, Reports, NoReport
<1>6. CASE Discard \/ UNCHANGED reportVars
  BY <1>1, <1>6 DEF ReportOK, Discard, reportVars, Reports, NoReport
<1> QED
  BY <1>2, <1>3, <1>4, <1>5, <1>6 DEF ReportNext

\* The numbers in a report are those of finite sets.
LEMMA FoundRows ==
  ASSUME report \in Reports
  PROVE  /\ report.run \in Runs
         /\ report.found.expected \subseteq Snapshots /\ report.found.counted \subseteq Snapshots
         /\ report.found.approved \subseteq Snapshots /\ report.found.rejected \subseteq Snapshots
         /\ report.found.quarantined \subseteq Snapshots
  BY DEF Reports, Rows

\* What the writers leave true of a report.
LEMMA WritersKeep ==
  ASSUME ReportInv, report \in Reports,
         \/ WriteTables
         \/ \E r \in Runs : AskApproval(r) \/ AnswerApproval(r)
         \/ UNCHANGED reportVars
  PROVE  /\ KnowsRun' /\ KnowsInputs' /\ KnowsVerdicts' /\ KnowsBlockers' /\ KnowsTheRest'
         /\ ReportIsOfAnInstant'
<1>1. PICK r, found, state, read, instants :
        /\ r = report.run /\ r = report'.run /\ r \in Runs
        /\ found = report.found /\ found = report'.found
        /\ state = report.state /\ state = report'.state
        /\ read = report.read /\ read = report'.read
        /\ instants = report.instants /\ instants = report'.instants
        /\ report.since \subseteq report'.since
  <2>1. CASE WriteTables \/ \E r \in Runs : AskApproval(r)
    BY <2>1, HistoryStep, FoundRows DEF ReportInv
  <2>2. CASE (\E r \in Runs : AnswerApproval(r)) \/ UNCHANGED reportVars
    <3>1. report' = report
      BY <2>2 DEF AnswerApproval, reportVars
    <3> QED
      BY <3>1, FoundRows
  <2> QED
    BY <2>1, <2>2
<1>2. [Next]_vars
  BY WritersStep DEF ReportNext
<1>3. /\ IInv /\ report # NoReport
      /\ KnowsRun /\ KnowsInputs /\ KnowsVerdicts /\ KnowsBlockers /\ KnowsTheRest
      /\ ReportIsOfAnInstant
  BY ReportsAreNot DEF ReportInv
<1>4. /\ runs[r].state # "none" /\ runs'[r].state # "none"
      /\ runs[r].state = "cancelled" => runs'[r].state = "cancelled"
      /\ runs[r].state = "archived" => runs'[r].state = "archived"
      /\ HasEndedWell(runs[r].state) => HasEndedWell(runs'[r].state)
  BY <1>1, <1>2, <1>3, RunGoesOn DEF KnowsRun
<1>5. IF runs'[r].state = "cancelled" THEN Inputs(r)' = {} ELSE Inputs(r)' = Inputs(r)
  BY <1>1, <1>2, <1>3, <1>4, InputsStay
<1>6. KnowsRun'
  BY <1>1, <1>3, <1>4 DEF KnowsRun
<1>7. KnowsInputs'
  BY <1>1, <1>3, <1>4, <1>5 DEF KnowsInputs
<1>8. KnowsVerdicts'
  <2>1. \A s \in Snapshots : snapshots[s].state \in {"approved", "rejected"} =>
          snapshots'[s] = snapshots[s]
    BY <1>2, <1>3, VerdictStep
  <2> QED
    BY <1>1, <1>3, <2>1, FoundRows DEF KnowsVerdicts
<1>9. KnowsBlockers'
  BY <1>1, <1>3 DEF KnowsBlockers
<1>10. KnowsTheRest'
  <2>1. ASSUME read = 6, found.asked = {}, "approval" \notin report'.since
        PROVE  r \notin pending'
    <3>1. r \notin pending
      BY <1>1, <1>3, <2>1 DEF KnowsTheRest
    <3>2. HasRead("asked") /\ ~IsFinished
      BY <1>1, <2>1, OrderIs DEF HasRead, IsFinished
    <3>3. ~AskApproval(r)
      BY <1>1, <2>1, <3>2 DEF AskApproval, Reports
    <3> QED
      BY <3>1, <3>3 DEF WriteTables, AskApproval, AnswerApproval, reportVars
  <2>2. ASSUME IsFinished, found.open = {}, "quarantine" \notin report'.since,
               NEW s \in Inputs(r)', snapshots'[s].state = "quarantined"
        PROVE  FALSE
    <3>1. s \in Inputs(r) /\ snapshots[s].state # "quarantined"
      BY <1>1, <1>3, <1>5, <2>2 DEF KnowsTheRest
    <3>2. EntersQuarantine(r)
      BY <2>2, <3>1 DEF EntersQuarantine
    <3>3. CASE WriteTables
      BY <1>1, <2>2, <3>2, <3>3 DEF WriteTables, Reports
    <3>4. CASE UNCHANGED snapshots
      BY <2>2, <3>1, <3>4
    <3> QED
      BY <3>3, <3>4 DEF AskApproval, AnswerApproval, reportVars, vars
  <2>3. IsFinished' <=> IsFinished
    BY <1>1 DEF IsFinished
  <2> QED
    BY <1>1, <2>1, <2>2, <2>3 DEF KnowsTheRest
<1>11. ReportIsOfAnInstant'
  BY <1>1, <1>3 DEF ReportIsOfAnInstant, IsFinished, IsComplete, Said
<1> QED
  BY <1>6, <1>7, <1>8, <1>9, <1>10, <1>11

\* What a report made in one go would need.
LEMMA SaysComplete ==
  ASSUME NEW r \in Runs
  PROVE  /\ WouldSay(r) # "blocked" =>
              IsReportedComplete(r) /\ r \notin pending /\ WouldSay(r) = "complete"
         /\ IsReportedComplete(r) /\ r \notin pending => WouldSay(r) = "complete"
  BY DEF WouldSay, Said

\* The first statement.
LEMMA FirstRead ==
  ASSUME ReportInv, NEW r \in Runs, ReadRun(r)
  PROVE  /\ KnowsRun' /\ KnowsInputs' /\ KnowsVerdicts' /\ KnowsBlockers' /\ KnowsTheRest'
         /\ ReportIsOfAnInstant'
<1>1. /\ report'.run = r /\ report'.state = runs[r].state /\ report'.read = 0
      /\ report'.instants = {WouldSay(r)}
      /\ runs' = runs /\ runs[r].state # "none"
  BY DEF ReadRun, NoReport, vars
<1>2. KnowsBlockers'
  BY <1>1, SaysComplete DEF KnowsBlockers, IsReportedComplete, HasEndedWell
<1>3. ~IsFinished'
  BY <1>1, OrderIs DEF IsFinished
<1> QED
  BY <1>1, <1>2, <1>3
  DEF KnowsRun, KnowsInputs, KnowsVerdicts, KnowsTheRest, ReportIsOfAnInstant

\* The inputs of a run that ended well have all been materialized.
LEMMA AllCounted ==
  ASSUME IInv, NEW r \in Runs, HasEndedWell(runs[r].state), NEW s \in Inputs(r)
  PROVE  IsCounted(s)
  BY InputsOfLiveRun, InputStatesOf DEF IInv, HasEndedWell, IsCounted

\* A statement that finds its rows adds to what is known.
LEMMA NextRead ==
  ASSUME ReportInv, report \in Reports, ReadNext
  PROVE  /\ KnowsRun' /\ KnowsInputs' /\ KnowsVerdicts' /\ KnowsBlockers' /\ KnowsTheRest'
         /\ ReportIsOfAnInstant'
<1>1. PICK r, was, now, found, k :
        /\ r = report.run /\ r = report'.run /\ r \in Runs
        /\ was = report.found /\ found = report'.found /\ now = Tables(r)
        /\ k = report.read /\ k \in 0..6 /\ report'.read = k + 1
        /\ report'.state = report.state /\ report'.since = report.since
        /\ report'.instants = report.instants \cup {WouldSay(r)}
  BY StatementAdds, FoundRows
<1>2. /\ found.expected    = IF k = 0 THEN now.expected ELSE was.expected
      /\ found.counted     = IF k = 1 THEN now.counted ELSE was.counted
      /\ found.approved    = IF k = 2 THEN now.approved ELSE was.approved
      /\ found.rejected    = IF k = 3 THEN now.rejected ELSE was.rejected
      /\ found.quarantined = IF k = 4 THEN now.quarantined ELSE was.quarantined
      /\ found.asked       = IF k = 5 THEN now.asked ELSE was.asked
      /\ found.open        = IF k = 6 THEN now.open ELSE was.open
  <2>1. found =
          [expected    |-> IF k = 0 THEN now.expected ELSE was.expected,
           counted     |-> IF k = 1 THEN now.counted ELSE was.counted,
           approved    |-> IF k = 2 THEN now.approved ELSE was.approved,
           rejected    |-> IF k = 3 THEN now.rejected ELSE was.rejected,
           quarantined |-> IF k = 4 THEN now.quarantined ELSE was.quarantined,
           asked       |-> IF k = 5 THEN now.asked ELSE was.asked,
           open        |-> IF k = 6 THEN now.open ELSE was.open]
    BY <1>1, StatementFinds
  <2> QED
    BY <2>1
<1>3. /\ now.expected = Inputs(r)
      /\ now.counted = {s \in Inputs(r) : IsCounted(s)}
      /\ now.approved = {s \in Inputs(r) : snapshots[s].state = "approved"}
      /\ now.rejected = {s \in Inputs(r) : snapshots[s].state = "rejected"}
      /\ now.quarantined = {s \in Inputs(r) : snapshots[s].state = "quarantined"}
      /\ now.asked = pending \cap {r}
      /\ now.open = ActiveIncidents(r)
  BY <1>1 DEF Tables
<1>4. /\ IInv /\ report # NoReport
      /\ KnowsRun /\ KnowsInputs /\ KnowsVerdicts /\ KnowsBlockers /\ KnowsTheRest
  BY ReportsAreNot DEF ReportInv
<1>5. UNCHANGED <<runs, snapshots, incidents, pending>>
  BY DEF ReadNext, vars
<1>6. Inputs(r)' = Inputs(r) /\ ActiveIncidents(r)' = ActiveIncidents(r)
  BY <1>5 DEF Inputs, ActiveIncidents, IsActive
<1>7. KnowsRun'
  BY <1>1, <1>4, <1>5 DEF KnowsRun
<1>8. KnowsInputs'
  <2>1. runs[r].state = "cancelled" => Inputs(r) = {}
    BY <1>1, <1>4, InputsOfLiveRun, InputStatesOf DEF IInv
  <2>2. k = 1 /\ report.state = "completed" => found.counted = found.expected
    <3>1. k = 1 /\ report.state = "completed" =>
            /\ HasEndedWell(runs[r].state)
            /\ Inputs(r) = was.expected
      BY <1>1, <1>4 DEF KnowsRun, KnowsInputs, HasEndedWell
    <3> QED
      BY <1>1, <1>2, <1>3, <1>4, <3>1, AllCounted
  <2> QED
    BY <1>1, <1>2, <1>3, <1>4, <1>5, <1>6, <2>1, <2>2 DEF KnowsInputs
<1>9. KnowsVerdicts'
  <2>1. k >= 1 => Inputs(r) \subseteq was.expected
    BY <1>1, <1>4 DEF KnowsInputs
  <2>2. k >= 1 => found.expected = was.expected
    BY <1>1, <1>2
  <2>3. k + 1 >= 3 => \A s \in found.approved : /\ s \in found.expected
                                                /\ snapshots[s].state = "approved"
    BY <1>1, <1>2, <1>3, <1>4, <2>1, <2>2 DEF KnowsVerdicts
  <2>4. k + 1 >= 4 => \A s \in found.rejected : /\ s \in found.expected
                                                /\ snapshots[s].state = "rejected"
    BY <1>1, <1>2, <1>3, <1>4, <2>1, <2>2 DEF KnowsVerdicts
  <2>5. k + 1 >= 5 =>
          found.quarantined \subseteq found.expected \ (found.approved \cup found.rejected)
    <3>1. CASE k = 4
      BY <1>1, <1>2, <1>3, <2>1, <2>2, <2>3, <2>4, <3>1
    <3>2. CASE k >= 5
      BY <1>1, <1>2, <1>4, <3>2 DEF KnowsVerdicts
    <3> QED
      BY <1>1, <3>1, <3>2
  <2> QED
    BY <1>1, <1>5, <2>3, <2>4, <2>5 DEF KnowsVerdicts
<1>10. KnowsBlockers'
  <2>1. ASSUME "blocked" \notin report'.instants
        PROVE  /\ "blocked" \notin report.instants
               /\ IsReportedComplete(r) /\ r \notin pending
    BY <1>1, <2>1, SaysComplete
  <2> QED
    BY <1>1, <1>2, <1>3, <1>4, <2>1 DEF KnowsBlockers, IsReportedComplete
<1>11. KnowsTheRest'
  <2>1. IsFinished' <=> k = 6
    BY <1>1, OrderIs DEF IsFinished
  <2>2. k = 6 /\ found.open = {} => \A s \in Inputs(r) : snapshots[s].state # "quarantined"
    BY <1>1, <1>2, <1>3, <1>4 DEF IInv, QuarantineHasIncident, Inputs
  <2> QED
    BY <1>1, <1>2, <1>3, <1>5, <1>6, <2>1, <2>2 DEF KnowsTheRest
<1>12. ReportIsOfAnInstant'
  <2>1. SUFFICES ASSUME k = 6
                 PROVE  LET complete == IsComplete(report.state, found) IN
                        \/ Said(complete) \in report'.instants
                        \/ complete /\ "approval" \in report'.since
    BY <1>1, OrderIs DEF ReportIsOfAnInstant, IsFinished
  <2>2. /\ IsFiniteSet(found.expected)
        /\ Cardinality(found.expected) \in Nat
        /\ Cardinality(found.expected) = 0 <=> found.expected = {}
    <3>1. found.expected \subseteq Snapshots
      BY <1>1, <1>2, <2>1, FoundRows
    <3> QED
      BY <3>1, SnapshotsAssumption, FS_Subset, FS_EmptySet, FS_CardinalityType
  <2>3. /\ report.state = "completed" => found.counted = found.expected
        /\ IF runs[r].state = "cancelled" THEN Inputs(r) = {} ELSE Inputs(r) = found.expected
    BY <1>1, <1>5, <1>6, <1>8, <2>1 DEF KnowsInputs
  <2>4. CASE ~IsComplete(report.state, found)
    <3>1. "blocked" \in report'.instants
      BY <1>1, <1>10, <2>1, <2>2, <2>3, <2>4 DEF KnowsBlockers, IsComplete, HasEndedWell
    <3> QED
      BY <2>4, <3>1 DEF Said
  <2>5. CASE IsComplete(report.state, found)
    <3>1. CASE "approval" \in report.since
      BY <1>1, <2>5, <3>1
    <3>2. CASE "approval" \notin report.since
      <4>1. r \notin pending
        BY <1>1, <1>2, <1>4, <2>1, <2>5, <3>2 DEF KnowsTheRest, IsComplete
      <4>2. HasEndedWell(runs[r].state)
        BY <1>1, <1>4, <2>5 DEF KnowsRun, IsComplete, HasEndedWell
      <4>3. Inputs(r) # {} /\ ActiveIncidents(r) = {}
        BY <1>2, <1>3, <2>1, <2>2, <2>3, <2>5, <4>2 DEF IsComplete, HasEndedWell
      <4>4. \A s \in Inputs(r) : snapshots[s].state # "quarantined"
        BY <1>1, <1>4, <4>3 DEF IInv, QuarantineHasIncident, Inputs
      <4>5. IsReportedComplete(r)
        BY <1>1, <1>4, <4>2, <4>3, <4>4, AllCounted DEF IsReportedComplete, HasEndedWell
      <4>6. WouldSay(r) = "complete"
        BY <1>1, <4>1, <4>5, SaysComplete
      <4> QED
        BY <1>1, <2>5, <4>6 DEF Said
    <3> QED
      BY <3>1, <3>2
  <2> QED
    BY <2>4, <2>5
<1> QED
  BY <1>7, <1>8, <1>9, <1>10, <1>11, <1>12

LEMMA ReportInvariance == ReportSpec => []ReportInv
<1>1. ReportInit => ReportInv
  BY InvInit, ReportsAreNot DEF ReportInit, ReportInv, ReportOK, IInv
<1>2. ReportInv /\ [ReportNext]_reportVars => ReportInv'
  <2> SUFFICES ASSUME ReportInv, [ReportNext]_reportVars
               PROVE  ReportInv'
    OBVIOUS
  <2>1. IInv' /\ ReportOK'
    BY WritersStep, InvStep, ReportTypeStep DEF ReportInv
  <2>2. CASE report' = NoReport
    BY <2>1, <2>2 DEF ReportInv
  <2>3. CASE report' # NoReport /\ report \in Reports
    <3>1. ~Discard /\ \A r \in Runs : ~ReadRun(r)
      BY <2>3, ReportsAreNot DEF Discard, ReadRun
    <3> QED
      BY <2>1, <2>3, <3>1, WritersKeep, NextRead DEF ReportNext, ReportInv
  <2>4. CASE report' # NoReport /\ report = NoReport
    <3>1. PICK r \in Runs : ReadRun(r)
      BY <2>4, HistoryStep DEF ReportNext, ReadNext, Discard, AnswerApproval, reportVars, ReportInv
    <3> QED
      BY <2>1, <3>1, FirstRead DEF ReportInv
  <2> QED
    BY <2>2, <2>3, <2>4 DEF ReportInv, ReportOK
<1> QED
  BY <1>1, <1>2, PTL DEF ReportSpec

\* Reports have their shape, and the tables keep theirs beside them.
THEOREM ReportsType == ReportSpec => []ReportOK
<1>1. ReportInv => ReportOK
  BY DEF ReportInv
<1> QED
  BY <1>1, ReportInvariance, PTL

\* What a report says, one made in one go would have said at some instant while it was
\* read, unless an approval was asked for behind its back (GetRunReadiness, Evaluate).
THEOREM ReportsAreOfAnInstant == ReportSpec => []ReportIsOfAnInstant
<1>1. ReportInv => ReportIsOfAnInstant
  BY ReportsAreNot, OrderIs DEF ReportInv, ReportIsOfAnInstant, IsFinished
<1> QED
  BY <1>1, ReportInvariance, PTL

\* A run that was reported completed and complete can be archived, until it is or an
\* observation quarantines one of its inputs.
THEOREM ReportedRunsArchive == ReportSpec => []ReportedRunArchives
<1>1. ASSUME ReportInv, IsFinished, "quarantine" \notin report.since,
             report.state = "completed", IsComplete(report.state, report.found),
             runs[report.run].state # "archived"
      PROVE  MayArchive(report.run)
  <2>1. PICK r \in Runs : r = report.run
    BY <1>1, ReportsAreNot, OrderIs, FoundRows DEF ReportInv, ReportOK, IsFinished
  <2>2. KnowsRun /\ KnowsTheRest /\ IInv
    BY <1>1, ReportsAreNot, OrderIs DEF ReportInv, IsFinished
  <2>3. runs[r].state = "completed"
    BY <1>1, <2>1, <2>2 DEF KnowsRun, HasEndedWell
  <2>4. \A s \in Inputs(r) : snapshots[s].state # "quarantined"
    BY <1>1, <2>1, <2>2 DEF KnowsTheRest, IsComplete
  <2>5. \A s \in Inputs(r) : IsSettled(s)
    BY <2>2, <2>3, <2>4, InputsOfLiveRun, InputStatesOf DEF IInv, IsSettled
  <2> QED
    BY <2>1, <2>3, <2>5 DEF MayArchive, RunMay, RunMoves
<1>2. ReportInv => ReportedRunArchives
  BY <1>1 DEF ReportedRunArchives
<1> QED
  BY <1>2, ReportInvariance, PTL

\* The numbers of a report add up, though they are of different instants.
THEOREM ReportsAddUp == ReportSpec => []CountsAddUp
<1>1. ASSUME ReportInv, IsFinished
      PROVE  LET Number(n) == Cardinality(report.found[n]) IN
             /\ Number("approved") + Number("rejected") + Number("quarantined")
                  <= Number("expected")
             /\ report.state = "completed" => Number("counted") = Number("expected")
  <2>1. /\ report \in Reports /\ report.read = 7
        /\ KnowsInputs /\ KnowsVerdicts
    BY <1>1, ReportsAreNot, OrderIs DEF ReportInv, ReportOK, IsFinished
  <2>2. PICK a, b, c, e : /\ a = report.found.approved /\ b = report.found.rejected
                          /\ c = report.found.quarantined /\ e = report.found.expected
    OBVIOUS
  <2>3. /\ a \subseteq e /\ b \subseteq e /\ c \subseteq e
        /\ a \cap b = {} /\ (a \cup b) \cap c = {}
    BY <2>1, <2>2 DEF KnowsVerdicts
  <2>4. IsFiniteSet(e)
    BY <2>1, <2>2, FoundRows, SnapshotsAssumption, FS_Subset
  <2>5. /\ IsFiniteSet(a) /\ IsFiniteSet(b) /\ IsFiniteSet(c)
        /\ IsFiniteSet(a \cup b) /\ IsFiniteSet((a \cup b) \cup c)
    BY <2>3, <2>4, FS_Subset
  <2>6. /\ Cardinality(a) \in Nat /\ Cardinality(b) \in Nat /\ Cardinality(c) \in Nat
        /\ Cardinality(a \cup b) \in Nat /\ Cardinality(e) \in Nat
    BY <2>4, <2>5, FS_CardinalityType
  <2>7. Cardinality(a \cap b) = 0 /\ Cardinality((a \cup b) \cap c) = 0
    BY <2>3, FS_EmptySet
  <2>8. /\ Cardinality(a \cup b) = Cardinality(a) + Cardinality(b) - Cardinality(a \cap b)
        /\ Cardinality((a \cup b) \cup c) =
             Cardinality(a \cup b) + Cardinality(c) - Cardinality((a \cup b) \cap c)
    BY <2>5, FS_Union
  <2>9. Cardinality((a \cup b) \cup c) <= Cardinality(e)
    BY <2>3, <2>4, FS_Subset
  <2>10. Cardinality(a) + Cardinality(b) + Cardinality(c) <= Cardinality(e)
    BY <2>6, <2>7, <2>8, <2>9
  <2>11. report.state = "completed" => report.found.counted = e
    BY <2>1, <2>2 DEF KnowsInputs
  <2> QED
    BY <2>2, <2>10, <2>11
<1>2. ReportInv => CountsAddUp
  BY <1>1 DEF CountsAddUp
<1> QED
  BY <1>2, ReportInvariance, PTL
=============================================================================
