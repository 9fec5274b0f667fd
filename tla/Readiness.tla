----------------------------- MODULE Readiness -----------------------------
(***************************************************************************)
(* The readiness report of an inference run: GetRunReadiness of            *)
(* internal/storage/sqlite/read_readiness.go and RunReadiness.Evaluate of  *)
(* internal/domain/readiness.go, against the writers of InferenceRuns and  *)
(* of the approval tasks.                                                  *)
(*                                                                         *)
(* Store.Read opens no transaction: each statement of the report is on the *)
(* tables of its own instant, and writers commit between any two of them.  *)
(* The last statement, the time of the latest observation, blocks nothing  *)
(* and is left out.  A report only reads, so that one is as good as many.  *)
(***************************************************************************)
EXTENDS InferenceRuns, Sequences

ASSUME SnapshotsAssumption == IsFiniteSet(Snapshots)

\* The statements after the one that reads the run, in their order: the inputs, the
\* materialized, approved, rejected and quarantined ones, the pending approval tasks
\* and the active incidents.
Counts == {"expected", "counted", "approved", "rejected", "quarantined", "asked", "open"}

\* The incidents first.
OrderIncidentsFirst ==
  <<"open", "expected", "counted", "approved", "rejected", "quarantined", "asked">>

\* The quarantine first.
OrderQuarantineFirst ==
  <<"quarantined", "expected", "counted", "approved", "rejected", "asked", "open">>

Order == <<"expected", "counted", "approved", "rejected", "quarantined", "asked", "open">>

Nothing == [n \in Counts |-> {}]

NoReport == [run |-> Null, state |-> "none", read |-> 0, found |-> Nothing,
             instants |-> {}, since |-> {}]

VARIABLES
  pending,  \* table approval_tasks: the runs that have a pending task
  report    \* the report being put together: its run, the state read of it, how many
            \* statements were read since, and the rows each of them found (the code
            \* keeps their numbers).  History: instants, what a report made in one go
            \* at the instant of a statement would have said; since, whether an
            \* approval was asked for between the statement that looks for one and the
            \* end, and an input quarantined after the end

reportVars == <<vars, pending, report>>

----------------------------------------------------------------------------

\* The rows the statements would find if they were read together.
Tables(r) ==
  [expected    |-> Inputs(r),
   counted     |-> {s \in Inputs(r) : IsCounted(s)},
   approved    |-> {s \in Inputs(r) : snapshots[s].state = "approved"},
   rejected    |-> {s \in Inputs(r) : snapshots[s].state = "rejected"},
   quarantined |-> {s \in Inputs(r) : snapshots[s].state = "quarantined"},
   asked       |-> pending \cap {r},
   open        |-> ActiveIncidents(r)]

HasRead(n) == \E k \in 1..report.read : Order[k] = n

IsFinished == report.read = Len(Order)

\* Evaluate, for a report that trusts the quarantine to show every incident.
IsCompleteDespiteIncidents(state, found) ==
  /\ state \in {"completed", "archived"}
  /\ found.asked = {} /\ found.quarantined = {}
  /\ Cardinality(found.expected) # 0
  /\ state = "completed" => Cardinality(found.counted) >= Cardinality(found.expected)

\* Evaluate finds no blocker, in a state that can be complete.
IsComplete(state, found) ==
  /\ state \in {"completed", "archived"}
  /\ found.asked = {} /\ found.open = {} /\ found.quarantined = {}
  /\ Cardinality(found.expected) # 0
  /\ state = "completed" => Cardinality(found.counted) >= Cardinality(found.expected)

Said(complete) == IF complete THEN "complete" ELSE "blocked"

\* What a report of run r made in one go would say.
WouldSay(r) == Said(IsReportedComplete(r) /\ r \notin pending)

----------------------------------------------------------------------------

\* CreateApprovalTask: of an active run with no task pending.
AskApproval(r) ==
  /\ IsExecuting(r)
  /\ r \notin pending
  /\ pending' = pending \cup {r}
  /\ IF r = report.run /\ HasRead("asked") /\ ~IsFinished
       THEN report' = [report EXCEPT !.since = @ \cup {"approval"}]
       ELSE UNCHANGED report
  /\ UNCHANGED vars

\* ResolveApprovalTask before the task is due, ExpireApprovalTasks from then on.
AnswerApproval(r) ==
  /\ r \in pending
  /\ pending' = pending \ {r}
  /\ UNCHANGED <<vars, report>>

\* An input of run r goes into quarantine.
EntersQuarantine(r) ==
  \E s \in Inputs(r) : snapshots[s].state # "quarantined" /\ snapshots'[s].state = "quarantined"

\* The other writers, each in a transaction of its own.
WriteTables ==
  /\ Next
  /\ IF IsFinished /\ EntersQuarantine(report.run)
       THEN report' = [report EXCEPT !.since = @ \cup {"quarantine"}]
       ELSE UNCHANGED report
  /\ UNCHANGED pending

\* GetInferenceRun, which fails when there is no such run.
ReadRun(r) ==
  /\ report = NoReport
  /\ runs[r].state # "none"
  /\ report' = [NoReport EXCEPT !.run = r, !.state = runs[r].state,
                                !.instants = {WouldSay(r)}]
  /\ UNCHANGED <<vars, pending>>

\* The next statement.
ReadNext ==
  LET n == Order[report.read + 1] IN
  /\ report # NoReport
  /\ ~IsFinished
  /\ report' = [report EXCEPT !.read = @ + 1,
                              !.found[n] = Tables(report.run)[n],
                              !.instants = @ \cup {WouldSay(report.run)}]
  /\ UNCHANGED <<vars, pending>>

\* The report is answered and forgotten; or a statement fails, or the request is gone.
Discard ==
  /\ report # NoReport
  /\ report' = NoReport
  /\ UNCHANGED <<vars, pending>>

----------------------------------------------------------------------------

ReportInit == Init /\ pending = {} /\ report = NoReport

ReportNext ==
  \/ WriteTables
  \/ \E r \in Runs : AskApproval(r) \/ AnswerApproval(r) \/ ReadRun(r)
  \/ ReadNext
  \/ Discard

ReportSpec == ReportInit /\ [][ReportNext]_reportVars

----------------------------------------------------------------------------

Rows == [expected : SUBSET Snapshots, counted : SUBSET Snapshots, approved : SUBSET Snapshots,
         rejected : SUBSET Snapshots, quarantined : SUBSET Snapshots,
         asked : SUBSET Runs, open : SUBSET Incidents]

Reports ==
  [run : Runs, state : RunStates, read : 0..Len(Order), found : Rows,
   instants : SUBSET {"complete", "blocked"}, since : SUBSET {"approval", "quarantine"}]

\* Type invariant: only runs have approval tasks, and a report found rows of the tables
\* its statements read.
ReportOK ==
  /\ TypeOK
  /\ pending \subseteq Runs
  /\ report \in Reports \cup {NoReport}

\* A report is of an instant, though its statements are not: whatever is written while
\* it is read, what Evaluate makes of the pieces is what a report made in one go would
\* have said at some instant meanwhile.  The exception is what the code does: a report
\* of complete does not see an approval asked for after the statement that looks for
\* one, and may be of no instant then.
ReportIsOfAnInstant ==
  IsFinished =>
    LET complete == IsComplete(report.state, report.found) IN
    Said(complete) \in report.instants \/ (complete /\ "approval" \in report.since)

\* A client may act on a report: a run reported completed and complete can be archived
\* from then on, until it is or an observation puts an input in quarantine.
ReportedRunArchives ==
  /\ IsFinished /\ "quarantine" \notin report.since
  /\ report.state = "completed" /\ IsComplete(report.state, report.found)
  => runs[report.run].state = "archived" \/ MayArchive(report.run)

\* The numbers of a report add up although they are of different instants: no input is
\* counted under two verdicts, or under one and in quarantine, and a run reported
\* completed has all its inputs materialized, so that Evaluate's last blocker never
\* applies.
CountsAddUp ==
  IsFinished =>
    LET Number(n) == Cardinality(report.found[n]) IN
    /\ Number("approved") + Number("rejected") + Number("quarantined") <= Number("expected")
    /\ report.state = "completed" => Number("counted") = Number("expected")

----------------------------------------------------------------------------
\* What a report still knows of the tables, which makes the properties inductive.

HasEndedWell(state) == state \in {"completed", "archived"}

\* A run that was completed stays so until it is archived, for good.
KnowsRun ==
  LET now == runs[report.run].state IN
  /\ now # "none"
  /\ HasEndedWell(report.state) => HasEndedWell(now)
  /\ report.state = "archived" => now = "archived"

\* The inputs are the ones counted, unless a cancellation has detached them.
KnowsInputs ==
  /\ report.read >= 1 =>
       IF runs[report.run].state = "cancelled" THEN Inputs(report.run) = {}
       ELSE Inputs(report.run) = report.found.expected
  /\ report.read >= 2 /\ report.state = "completed" =>
       report.found.counted = report.found.expected

\* Verdicts are final, so that no later statement finds what an earlier one judged.
KnowsVerdicts ==
  LET found == report.found IN
  /\ report.read >= 3 => \A s \in found.approved : /\ s \in found.expected
                                                   /\ snapshots[s].state = "approved"
  /\ report.read >= 4 => \A s \in found.rejected : /\ s \in found.expected
                                                   /\ snapshots[s].state = "rejected"
  /\ report.read >= 5 =>
       found.quarantined \subseteq found.expected \ (found.approved \cup found.rejected)

\* What blocks the report blocked one made in one go.
KnowsBlockers ==
  "blocked" \notin report.instants =>
    /\ HasEndedWell(report.state)
    /\ report.read >= 1 => report.found.expected # {}
    /\ report.read >= 5 => report.found.quarantined = {}
    /\ report.read >= 6 => report.found.asked = {}
    /\ report.read >= 7 => report.found.open = {}

\* Until the last statement no approval is pending that was neither found nor asked for
\* since; once it found no incident, nothing is in quarantine but what came since.
KnowsTheRest ==
  /\ report.read = 6 /\ report.found.asked = {} /\ "approval" \notin report.since =>
       report.run \notin pending
  /\ IsFinished /\ report.found.open = {} /\ "quarantine" \notin report.since =>
       \A s \in Inputs(report.run) : snapshots[s].state # "quarantined"

\* The inductive invariant of the proofs.
ReportInv ==
  /\ IInv
  /\ ReportOK
  /\ report # NoReport =>
       /\ KnowsRun /\ KnowsInputs /\ KnowsVerdicts /\ KnowsBlockers /\ KnowsTheRest
       /\ ReportIsOfAnInstant
============================================================================
