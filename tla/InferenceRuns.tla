--------------------------- MODULE InferenceRuns ---------------------------
(***************************************************************************)
(* Inference runs of the ML platform: planning, execution, quality drift   *)
(* and review, with the dataset snapshots and compute pools they use.      *)
(* internal/service/{inference,catalog,metrics,review,compute_pool}.go     *)
(* over internal/domain.                                                   *)
(*                                                                         *)
(* Every mutation is one transaction (Store.WithTx): it reads what it      *)
(* checks and writes what it changes against one snapshot of the database, *)
(* and a rollback leaves nothing behind, so an action is a whole handler.  *)
(* The order in which clients call them is arbitrary, and the clock moves  *)
(* between any two calls.                                                  *)
(***************************************************************************)
EXTENDS StoredTimes, FiniteSets

CONSTANTS
  Pools,            \* compute pools, created before the behaviour starts
  Snapshots,        \* dataset snapshot ids
  Keys,             \* idempotency keys clients use
  MaxRuns,          \* bound on runs ever planned, numbered in that order
  MaxIncidents,     \* bound on drift incidents ever opened
  MaxTime,          \* bound on the clock
  Grace,            \* how long after its start a window still opens: 15 minutes
  MaxExecution,     \* the workspace's limit on the length of a run
  KeyLifetime,      \* how long an idempotency record is honoured: 24 hours
  DayLength,        \* length of a day, in seconds
  CutoffHour,       \* when a business day of the source zone begins, in seconds
  DailyLimit,       \* runs a data zone accepts per business day
  CapacityRows,     \* capacity of a pool, in snapshots: all have the same row estimate
  AttestationDueAt  \* when the attestation of the pools ends

ASSUME BoundsAssumption ==
  /\ MaxRuns \in Nat /\ MaxIncidents \in Nat /\ MaxTime \in Nat
  /\ Grace \in Nat /\ MaxExecution \in Nat /\ KeyLifetime \in Nat
  /\ DayLength \in Nat \ {0} /\ CutoffHour \in Nat /\ DailyLimit \in Nat
  /\ CapacityRows \in Nat /\ AttestationDueAt \in Nat

\* Ids of pools and of snapshots differ: identity.New prefixes them with their kind.
ASSUME IdsAssumption == Pools \cap Snapshots = {}

Runs      == 1..MaxRuns
Incidents == 1..MaxIncidents
Null      == 0    \* no run, no pool, no key: an empty id

ASSUME NullAssumption == Null \notin Keys /\ Null \notin Pools

RunStates      == {"queued", "staged", "running", "completed", "archived", "cancelled"}
SnapshotStates == {"registered", "validated", "reserved", "materializing", "materialized",
                   "quarantined", "approved", "rejected"}
PoolStates     == {"available", "reserved", "allocated", "reconciling", "retired"}

\* An id no row has yet has the state "none".
NoRun      == [state |-> "none", pool |-> Null, start |-> 0, created |-> 0, key |-> Null]
NoSnapshot == [state |-> "none", run |-> Null, expires |-> 0]
NoIncident == [status |-> "none", run |-> Null]

VARIABLES
  clock,
  pools,        \* table compute_pools: state, reserved_run_id, last_reconciled_at
  snapshots,    \* table dataset_snapshots; run is run_id and the row of
                \* inference_run_inputs, which the code always writes together
  runs,         \* table inference_runs; key is history: the idempotency key that
                \* planned the run
  lastRun,      \* runs planned so far
  incidents,    \* table drift_incidents
  lastIncident, \* incidents opened so far
  idempotency   \* table idempotency_records, scope plan-run: key -> expires_at

vars == <<clock, pools, snapshots, runs, lastRun, incidents, lastIncident, idempotency>>

----------------------------------------------------------------------------
\* The state tables of internal/domain.

RunMoves ==
  [queued    |-> {"staged", "cancelled"},
   staged    |-> {"running", "cancelled"},
   running   |-> {"completed"},
   completed |-> {"archived"}]

SnapshotMoves ==
  [registered    |-> {"validated", "rejected"},
   validated     |-> {"reserved", "rejected"},
   reserved      |-> {"validated", "materializing"},
   materializing |-> {"materialized", "quarantined"},
   materialized  |-> {"approved", "quarantined"},
   quarantined   |-> {"approved", "rejected"}]

\* InferenceRun.Transition succeeds.
RunMay(r, to) == runs[r].state \in DOMAIN RunMoves /\ to \in RunMoves[runs[r].state]

IsUsable(s) == snapshots[s].expires > clock /\ snapshots[s].state # "rejected"

\* DatasetSnapshot.Transition succeeds.
SnapshotMay(s, to) ==
  /\ snapshots[s].state \in DOMAIN SnapshotMoves
  /\ to \in SnapshotMoves[snapshots[s].state]
  /\ IsUsable(s) \/ to \in {"rejected", "quarantined"}

Inputs(r) == {s \in Snapshots : snapshots[s].run = r}

\* The snapshots of S in the state to, assigned to run r.
Moved(S, to, r) ==
  [s \in Snapshots |-> IF s \in S THEN [snapshots[s] EXCEPT !.state = to, !.run = r]
                       ELSE snapshots[s]]

IsActive(i) == incidents[i].status \in {"open", "reviewing"}

ActiveIncidents(r) == {i \in Incidents : incidents[i].run = r /\ IsActive(i)}

----------------------------------------------------------------------------

Init ==
  /\ clock = 0
  /\ pools = [p \in Pools |-> [state |-> "available", run |-> Null, reconciled |-> 0]]
  /\ snapshots = [s \in Snapshots |-> NoSnapshot]
  /\ runs = [r \in Runs |-> NoRun]
  /\ lastRun = 0
  /\ incidents = [i \in Incidents |-> NoIncident]
  /\ lastIncident = 0
  /\ idempotency = [k \in Keys |-> 0]

Tick ==
  /\ clock < MaxTime
  /\ clock' = clock + 1
  /\ UNCHANGED <<pools, snapshots, runs, lastRun, incidents, lastIncident, idempotency>>

\* RegisterSnapshot, alone or in a loop of BulkRegisterSnapshots.  Any expiry is taken.
RegisterSnapshot(s, expires) ==
  /\ snapshots[s] = NoSnapshot
  /\ snapshots' = [snapshots EXCEPT ![s] = [state |-> "registered", run |-> Null,
                                            expires |-> expires]]
  /\ UNCHANGED <<clock, pools, runs, lastRun, incidents, lastIncident, idempotency>>

\* ValidateSnapshot asks Transition alone, which also leads from reserved back to
\* validated: the way CancelInferenceRun takes.
ValidateSnapshot(s) ==
  /\ SnapshotMay(s, "validated")
  /\ snapshots' = [snapshots EXCEPT ![s].state = "validated"]
  /\ UNCHANGED <<clock, pools, runs, lastRun, incidents, lastIncident, idempotency>>

\* DataZone.BusinessDayWindow, by the second the business day of t begins with.
DayStart(t) == Second(t) - ((Second(t) - CutoffHour) % DayLength)

\* CountDataZoneInferenceRunsForBusinessDay: the texts of the starts are compared with
\* those of the two seconds the window lies between.
RunsOnDay(first) ==
  {r \in 1..lastRun : /\ runs[r].state # "cancelled"
                      /\ ~IsTextBefore(runs[r].start, first * SecondLength)
                      /\ IsTextBefore(runs[r].start, (first + DayLength) * SecondLength)}

\* One run more than the limit.
DayHasRoomAtLimit(start) == Cardinality(RunsOnDay(DayStart(start))) <= DailyLimit

DayHasRoom(start) == Cardinality(RunsOnDay(DayStart(start))) < DailyLimit

EligibleFor(p, start, volume) ==
  /\ pools[p].state = "available"
  /\ AttestationDueAt > start
  /\ pools[p].reconciled <= start
  /\ CapacityRows >= volume

\* ExecutionWindow.Validate.
WindowOpens(start, finish, S) ==
  /\ finish > start
  /\ finish - start <= MaxExecution
  /\ start >= clock - Grace
  /\ \A s \in S : snapshots[s].expires > finish

\* inference_run_inputs takes a snapshot once: the insert of a second row for one that
\* is still an input fails, and the plan with it.
IsUnassigned(s) == snapshots[s].run = Null

\* A record given up an instant too soon.
IsSpentEarly(k) == idempotency[k] <= clock + 1

\* A record still alive answers the request itself: a replay of the stored response
\* or a conflict, and nothing changes.
IsSpent(k) == idempotency[k] <= clock

PlanInferenceRun(k, p, S, start, finish) ==
  LET r == lastRun + 1 IN
  /\ lastRun < MaxRuns
  /\ S # {}
  /\ IsSpent(k)
  /\ DayHasRoom(start)
  /\ EligibleFor(p, start, Cardinality(S))
  /\ \A s \in S : SnapshotMay(s, "reserved") /\ IsUnassigned(s)
  /\ WindowOpens(start, finish, S)
  /\ lastRun' = r
  /\ runs' = [runs EXCEPT ![r] = [state |-> "queued", pool |-> p, start |-> start,
                                  created |-> clock, key |-> k]]
  /\ snapshots' = Moved(S, "reserved", r)
  /\ pools' = [pools EXCEPT ![p].state = "reserved", ![p].run = r]
  /\ idempotency' = [idempotency EXCEPT ![k] = clock + KeyLifetime]
  /\ UNCHANGED <<clock, incidents, lastIncident>>

MayStage(r) == RunMay(r, "staged")

\* StageInferenceRun: the inputs and the pool keep their states.
StageInferenceRun(r) ==
  /\ MayStage(r)
  /\ runs' = [runs EXCEPT ![r].state = "staged"]
  /\ UNCHANGED <<clock, pools, snapshots, lastRun, incidents, lastIncident, idempotency>>

MayStart(r) ==
  /\ RunMay(r, "running")
  /\ \A s \in Inputs(r) : SnapshotMay(s, "materializing")

StartInferenceRun(r) ==
  /\ MayStart(r)
  /\ runs' = [runs EXCEPT ![r].state = "running"]
  /\ snapshots' = Moved(Inputs(r), "materializing", r)
  /\ pools' = [pools EXCEPT ![runs[r].pool].state = "allocated"]
  /\ UNCHANGED <<clock, lastRun, incidents, lastIncident, idempotency>>

\* CompleteInferenceRun: inputs in quarantine or already judged stay as they are.
Unjudged(r) == {s \in Inputs(r) :
                  snapshots[s].state \notin {"quarantined", "rejected", "approved"}}

MayComplete(r) ==
  /\ RunMay(r, "completed")
  /\ \A s \in Unjudged(r) : SnapshotMay(s, "materialized")

CompleteInferenceRun(r) ==
  /\ MayComplete(r)
  /\ runs' = [runs EXCEPT ![r].state = "completed"]
  /\ snapshots' = Moved(Unjudged(r), "materialized", r)
  /\ UNCHANGED <<clock, pools, lastRun, incidents, lastIncident, idempotency>>

\* The pool of a run that ends.
Freed(p) == [pools EXCEPT ![p].state = "available", ![p].run = Null]

\* An input that does not keep its run from being archived.
IsSettled(s) == snapshots[s].state \in {"approved", "rejected", "materialized"}

MayArchive(r) ==
  /\ RunMay(r, "archived")
  /\ \A s \in Inputs(r) : IsSettled(s)

ArchiveInferenceRun(r) ==
  /\ MayArchive(r)
  /\ runs' = [runs EXCEPT ![r].state = "archived"]
  /\ pools' = Freed(runs[r].pool)
  /\ UNCHANGED <<clock, snapshots, lastRun, incidents, lastIncident, idempotency>>

\* CancelInferenceRun: an input that has expired refuses the way back to validated,
\* and the whole cancellation is rolled back.
MayCancel(r) ==
  /\ RunMay(r, "cancelled")
  /\ \A s \in Inputs(r) : SnapshotMay(s, "validated")

\* Cancellation that forgets to detach the inputs.
CancelKeepingInputs(r) ==
  /\ MayCancel(r)
  /\ runs' = [runs EXCEPT ![r].state = "cancelled"]
  /\ snapshots' = Moved(Inputs(r), "validated", r)
  /\ pools' = Freed(runs[r].pool)
  /\ UNCHANGED <<clock, lastRun, incidents, lastIncident, idempotency>>

CancelInferenceRun(r) ==
  /\ MayCancel(r)
  /\ runs' = [runs EXCEPT ![r].state = "cancelled"]
  /\ snapshots' = Moved(Inputs(r), "validated", Null)
  /\ pools' = Freed(runs[r].pool)
  /\ UNCHANGED <<clock, lastRun, incidents, lastIncident, idempotency>>

----------------------------------------------------------------------------

\* Quarantine of everything the run uses.
AllInputs(r) == Inputs(r)

\* The inputs an out-of-range score quarantines.
ToQuarantine(r) == {s \in Inputs(r) : snapshots[s].state \in {"materializing", "materialized"}}

\* An observation that opens a new incident once the old one is under review.
JoinedUntilReview(r) == {i \in Incidents : incidents[i].run = r /\ incidents[i].status = "open"}

\* The incident an observation of run r joins, if there is one.
Joined(r) == ActiveIncidents(r)

\* RecordObservation with a score outside the workspace's range: it opens an incident
\* or joins the active one.  A score in range changes nothing modelled here.
RecordObservation(r) ==
  /\ runs[r].state \in {"running", "completed"}
  /\ IF Joined(r) = {}
       THEN /\ lastIncident < MaxIncidents
            /\ lastIncident' = lastIncident + 1
            /\ incidents' = [incidents EXCEPT ![lastIncident + 1] =
                               [status |-> "open", run |-> r]]
       ELSE UNCHANGED <<incidents, lastIncident>>
  /\ snapshots' = Moved(ToQuarantine(r), "quarantined", r)
  /\ UNCHANGED <<clock, pools, runs, lastRun, idempotency>>

StartReview(i) ==
  /\ incidents[i].status = "open"
  /\ incidents' = [incidents EXCEPT ![i].status = "reviewing"]
  /\ UNCHANGED <<clock, pools, snapshots, runs, lastRun, lastIncident, idempotency>>

\* Rejection that leaves the input where it is.
VerdictOfRelease == [cleared |-> "approved", rejected |-> "quarantined"]

\* The snapshot state a decision leads to.
Verdict == [cleared |-> "approved", rejected |-> "rejected"]

\* Decide sets the state of the quarantined inputs without going through Transition.
Decide(i, decision) ==
  LET r == incidents[i].run
      quarantined == {s \in Inputs(r) : snapshots[s].state = "quarantined"} IN
  /\ IsActive(i)
  /\ incidents' = [incidents EXCEPT ![i].status = decision]
  /\ snapshots' = Moved(quarantined, Verdict[decision], r)
  /\ UNCHANGED <<clock, pools, runs, lastRun, lastIncident, idempotency>>

----------------------------------------------------------------------------
\* The report of GetRunReadiness, for a run with no approval task pending (those are
\* Outbox's).  It is read at one instant here, by seven statements in the code.

\* An input the report counts as materialized.
IsCounted(s) == snapshots[s].state \in {"materialized", "approved", "rejected", "quarantined"}

\* RunReadiness.Evaluate finds no blocker and calls the run complete.
IsReportedComplete(r) ==
  /\ runs[r].state \in {"completed", "archived"}
  /\ ActiveIncidents(r) = {}
  /\ Inputs(r) # {}
  /\ \A s \in Inputs(r) : snapshots[s].state # "quarantined"
  /\ runs[r].state = "completed" => \A s \in Inputs(r) : IsCounted(s)

----------------------------------------------------------------------------

StartReconciliation(p) ==
  /\ pools[p].state = "available"
  /\ pools' = [pools EXCEPT ![p].state = "reconciling"]
  /\ UNCHANGED <<clock, snapshots, runs, lastRun, incidents, lastIncident, idempotency>>

CompleteReconciliation(p) ==
  /\ pools[p].state = "reconciling"
  /\ pools' = [pools EXCEPT ![p].state = "available", ![p].reconciled = clock]
  /\ UNCHANGED <<clock, snapshots, runs, lastRun, incidents, lastIncident, idempotency>>

\* Retirement that looks at executing runs only.
RetireUnlessAllocated(p) == pools[p].state \in {"available", "reconciling", "reserved"}

\* A pool a run holds cannot be retired.
RetireAllowed(p) == pools[p].state \in {"available", "reconciling"}

Retire(p) ==
  /\ RetireAllowed(p)
  /\ pools' = [pools EXCEPT ![p].state = "retired", ![p].run = Null]
  /\ UNCHANGED <<clock, snapshots, runs, lastRun, incidents, lastIncident, idempotency>>

----------------------------------------------------------------------------

\* The instants clients name.
Times == 0..(MaxTime + 1)

SnapshotNext ==
  \E s \in Snapshots :
    \/ \E t \in Times : RegisterSnapshot(s, t)
    \/ ValidateSnapshot(s)

PlanNext ==
  \E k \in Keys, p \in Pools, S \in SUBSET Snapshots, start, finish \in Times :
    PlanInferenceRun(k, p, S, start, finish)

RunNext ==
  \E r \in Runs :
    \/ StageInferenceRun(r)
    \/ StartInferenceRun(r)
    \/ CompleteInferenceRun(r)
    \/ ArchiveInferenceRun(r)
    \/ CancelInferenceRun(r)
    \/ RecordObservation(r)

ReviewNext ==
  \E i \in Incidents :
    \/ StartReview(i)
    \/ \E decision \in DOMAIN Verdict : Decide(i, decision)

PoolNext ==
  \E p \in Pools :
    \/ StartReconciliation(p)
    \/ CompleteReconciliation(p)
    \/ Retire(p)

Next == Tick \/ SnapshotNext \/ PlanNext \/ RunNext \/ ReviewNext \/ PoolNext

Spec == Init /\ [][Next]_vars

----------------------------------------------------------------------------

PoolRows     == [state : PoolStates, run : Runs \cup {Null}, reconciled : 0..MaxTime]
SnapshotRows == [state : SnapshotStates \cup {"none"}, run : Runs \cup {Null}, expires : Times]
RunRows      == [state : RunStates \cup {"none"}, pool : Pools \cup {Null}, start : Times,
                 created : 0..MaxTime, key : Keys \cup {Null}]
IncidentRows == [status : {"none", "open", "reviewing", "cleared", "rejected"},
                 run : Runs \cup {Null}]

\* Ids are issued in order, and an issued run names its pool and its key.
RunsOK ==
  /\ lastRun \in 0..MaxRuns
  /\ runs \in [Runs -> RunRows]
  /\ \A r \in Runs : runs[r].state = "none" <=> r > lastRun
  /\ \A r \in 1..lastRun : runs[r].pool \in Pools /\ runs[r].key \in Keys

IncidentsOK ==
  /\ lastIncident \in 0..MaxIncidents
  /\ incidents \in [Incidents -> IncidentRows]
  /\ \A i \in Incidents : incidents[i].status = "none" <=> i > lastIncident

\* Type invariant: rows have the columns of the schema, ids are issued in order, and
\* a row's state is one its validate function accepts.
TypeOK ==
  /\ clock \in 0..MaxTime
  /\ pools \in [Pools -> PoolRows]
  /\ snapshots \in [Snapshots -> SnapshotRows]
  /\ RunsOK
  /\ IncidentsOK
  /\ idempotency \in [Keys -> 0..(MaxTime + KeyLifetime)]

IsWaiting(r)   == runs[r].state \in {"queued", "staged"}
IsExecuting(r) == runs[r].state \in {"running", "completed"}
IsLive(r)      == IsWaiting(r) \/ IsExecuting(r)
HasEnded(r)    == runs[r].state \in {"archived", "cancelled"}

\* A pool's row and the rows of the runs agree: a live run has its pool's row to
\* itself, reserved while the run waits and allocated from its start to its archiving,
\* and a pool names no run that is not live.  Planning, starting, archiving,
\* cancelling, reconciling and retiring each write only one side of this.
PoolServesItsRun ==
  /\ \A r \in Runs : IsLive(r) =>
       /\ pools[runs[r].pool].run = r
       /\ pools[runs[r].pool].state = IF IsWaiting(r) THEN "reserved" ELSE "allocated"
  /\ \A p \in Pools :
       IF pools[p].state \in {"reserved", "allocated"}
         THEN \E r \in Runs : pools[p].run = r /\ IsLive(r) /\ runs[r].pool = p
         ELSE pools[p].run = Null

\* What the state of a run's inputs may be, given the state of the run.
InputStates ==
  [queued    |-> {"reserved", "validated"},
   staged    |-> {"reserved", "validated"},
   running   |-> {"materializing", "quarantined", "approved", "rejected"},
   completed |-> {"materialized", "quarantined", "approved", "rejected"},
   archived  |-> {"materialized", "approved", "rejected"},
   cancelled |-> {}]

\* A run's inputs keep step with the run whatever the order of observations, reviews
\* and run transitions; a snapshot with no run has not been used, and a live run
\* keeps at least one input.
SnapshotsFollowRun ==
  /\ \A s \in Snapshots :
       IF snapshots[s].run = Null
         THEN snapshots[s].state \in {"none", "registered", "validated"}
         ELSE /\ runs[snapshots[s].run].state # "none"
              /\ snapshots[s].state \in InputStates[runs[snapshots[s].run].state]
  /\ \A r \in Runs : IsLive(r) => Inputs(r) # {}

\* Nothing stays in quarantine without somebody to take it out: a quarantined input
\* has an active incident of its run, and a run has at most one active incident.
QuarantineHasIncident ==
  /\ \A s \in Snapshots : snapshots[s].state = "quarantined" =>
       ActiveIncidents(snapshots[s].run) # {}
  /\ \A i, j \in Incidents :
       IsActive(i) /\ IsActive(j) /\ incidents[i].run = incidents[j].run => i = j

\* A client that retries a plan with its key gets one run: two runs planned with the
\* same key were planned at least the lifetime of a record apart.
KeyPlansOnce ==
  \A q, r \in 1..lastRun :
    q < r /\ runs[q].key = runs[r].key => runs[r].created >= runs[q].created + KeyLifetime

\* The start is later than the cutoff, but in the same second.
IsJustAfterCutoff(t) == Second(t) = DayStart(t) /\ Fraction(t) # 0

\* The uncancelled runs that start on the business day of t, by their instants.  Those
\* that start just after the cutoff are left out: their texts sort before that of the
\* cutoff, and the code counts them for the day before.
StartsOnDay(t) == {r \in 1..lastRun : /\ runs[r].state # "cancelled"
                                      /\ DayStart(runs[r].start) = DayStart(t)
                                      /\ ~IsJustAfterCutoff(runs[r].start)}

\* No business day of the source zone has more runs than its limit, those cancelled and
\* those that start just after the cutoff aside, however planning and cancelling
\* alternate: the count of texts misses no other run (PlanInferenceRun).
DailyLimitHolds == \A t \in Times : Cardinality(StartsOnDay(t)) <= DailyLimit

\* Strengthening of KeyPlansOnce: the record of a key covers every run it planned.
RecordsCoverRuns ==
  \A r \in 1..lastRun : idempotency[runs[r].key] >= runs[r].created + KeyLifetime

\* The inductive invariant of the proofs.
IInv ==
  /\ TypeOK
  /\ PoolServesItsRun
  /\ SnapshotsFollowRun
  /\ QuarantineHasIncident
  /\ RecordsCoverRuns
  /\ KeyPlansOnce

\* The calls that bring run r nearer to its end, and whether one of them is accepted.
\* Each call writes whenever its May... guard holds.
CallTowardsEnd(r) ==
  \/ StageInferenceRun(r)
  \/ StartInferenceRun(r)
  \/ CompleteInferenceRun(r)
  \/ ArchiveInferenceRun(r)
  \/ CancelInferenceRun(r)
  \/ \E i \in ActiveIncidents(r), decision \in DOMAIN Verdict : Decide(i, decision)

MayCall(r) ==
  MayStage(r) \/ MayStart(r) \/ MayComplete(r) \/ MayArchive(r) \/ MayCancel(r)
    \/ ActiveIncidents(r) # {}

\* An input its run can no longer move: Transition refuses it because it has expired, or
\* because ValidateSnapshot took it back to validated while the run waited.
IsStranded(s) ==
  \/ snapshots[s].state \in {"reserved", "materializing"} /\ snapshots[s].expires <= clock
  \/ snapshots[s].state = "validated" /\ ~IsUnassigned(s)

IsWedged(r) == \E s \in Inputs(r) : IsStranded(s)

\* No legal sequence of calls wedges a run, and with it a pool: a live run can always
\* take a step towards its end, except when one of its inputs is stranded.  The
\* exceptions are what the code does: a run with an expired input can be neither
\* started, completed nor cancelled, a staged run with a revalidated one neither
\* started nor cancelled, and their pools stay taken.
RunCanEnd == \A r \in Runs : IsLive(r) => MayCall(r) \/ IsWedged(r)

\* How many calls run r is from its end at most, each incident being decided once.
CallsLeft ==
  [none |-> 0, queued |-> 4, staged |-> 3, running |-> 2, completed |-> 1,
   archived |-> 0, cancelled |-> 0]

Distance(r) == 2 * CallsLeft[runs[r].state] + IF ActiveIncidents(r) = {} THEN 0 ELSE 1

\* The calls towards the end lead there: each of them brings a run nearer and strands
\* none of its inputs, and nothing but a new incident takes a run away from its end.
\* With RunCanEnd: whoever wants to end a run that is not wedged can, by so many calls,
\* whatever the calls before them were (transitionAny, CancelInferenceRun, Decide).
EveryCallNears ==
  [][\A r \in Runs : IsLive(r) =>
       /\ Distance(r)' <= Distance(r) \/ lastIncident' > lastIncident
       /\ CallTowardsEnd(r) /\ ~IsWedged(r) => Distance(r)' < Distance(r) /\ ~IsWedged(r)']_vars

\* The report keeps its word: a completed run it calls complete can be archived.  The
\* report and the archiving each list the states of inputs for themselves
\* (readiness.go and read_readiness.go, transitionAny).
ReadyCanBeArchived ==
  \A r \in Runs : runs[r].state = "completed" /\ IsReportedComplete(r) => MayArchive(r)

\* A verdict is final: an approved or rejected snapshot keeps its state and its run,
\* though observations go on arriving and incidents are opened after it.
VerdictsAreFinal ==
  [][\A s \in Snapshots : snapshots[s].state \in {"approved", "rejected"} =>
       snapshots'[s] = snapshots[s]]_vars

\* The promise stated by domain_test.go, TestExpiredSnapshotCanOnlyBeDestroyedOrQuarantined,
\* and by the message of Transition: an expired snapshot moves to rejected or
\* quarantined and nowhere else.
ExpiredNeverAdvances ==
  [][\A s \in Snapshots : snapshots[s].state # "none" /\ snapshots[s].expires <= clock =>
       snapshots'[s].state \in {snapshots[s].state, "rejected", "quarantined"}]_vars

\* The runs, read as leases of pools and snapshots.
Holder == [x \in Pools \cup Snapshots |-> IF x \in Pools THEN pools[x].run ELSE snapshots[x].run]
Begun  == {r \in Runs : runs[r].state \in {"running", "completed", "archived"}}
Ended  == {r \in Runs : HasEnded(r)}

Lease == INSTANCE RunLease WITH Nobody <- Null, holder <- Holder, begun <- Begun, ended <- Ended

\* Runs take a pool and all of their inputs at once, give everything back when
\* cancelled, and spend their inputs once begun: InferenceRuns implements RunLease.
TakesAndReturns == Lease!Spec
============================================================================
