------------------------------- MODULE Outbox -------------------------------
(***************************************************************************)
(* The outbox of jobs, the approval tasks of inference runs, and the       *)
(* worker that attempts the ones and expires the others.                   *)
(* internal/worker, internal/service/approval.go and                       *)
(* internal/storage/sqlite/{jobs,store}.go.                                *)
(*                                                                         *)
(* A pass of the worker and a request are each one deferred transaction of *)
(* SQLite in WAL mode.  It reads the tables as they were at its first      *)
(* SELECT; its first write takes the only write lock, waiting for it, and  *)
(* is refused when somebody has committed since; Commit publishes what it  *)
(* wrote, and a rollback leaves nothing.                                   *)
(***************************************************************************)
EXTENDS StoredTimes, FiniteSets

CONSTANTS
  Workers,       \* one per server process on the database
  Clients,       \* requests under way at once
  Runs,          \* inference runs that are running or completed
  Jobs,          \* bound on jobs ever enqueued: their ids
  Tasks,         \* bound on approval tasks ever created: their ids
  MaxAttempts,   \* max_attempts of every job
  BatchSize,     \* WORKER_BATCH_SIZE
  Lifetime,      \* APPROVAL_TASK_TTL
  MaxTime,       \* bound on the clock; it stands for every later instant
  MaxInterrupts  \* bound on transactions cut short from outside

ASSUME BoundsAssumption ==
  /\ MaxAttempts \in Nat \ {0} /\ BatchSize \in Nat \ {0}
  /\ Lifetime \in Nat /\ MaxInterrupts \in Nat
  /\ MaxTime \in Nat /\ MaxTime % SecondLength = 0

Processes == Workers \cup Clients
Nobody    == "nobody"
Null      == 0

\* A worker is no client, and an id is never empty.
ASSUME IdsAssumption ==
  /\ Workers \cap Clients = {}
  /\ Nobody \notin Processes
  /\ Null \notin Runs

Times    == 0..MaxTime
Kinds    == {"supported", "unsupported"}  \* an unsupported kind reaches the default of
                                          \* processJob: a job of another release
Verdicts == {"accepted", "rejected"}

Later(t) == IF t > MaxTime THEN MaxTime ELSE t

\* What attempt n waits for after it failed.
Backoff(n) == n * n * SecondLength

\* An id no row has yet has the status "none".
NoJob  == [status |-> "none", kind |-> "none", attempts |-> 0, available |-> 0, created |-> 0]
NoTask == [status |-> "none", run |-> Null, expires |-> 0, resolved |-> 0]

NoTables == [jobs |-> [j \in Jobs |-> NoJob], tasks |-> [t \in Tasks |-> NoTask]]

NoTx == [step |-> "idle", now |-> 0, todo |-> {}]

VARIABLES
  clock,
  jobs,       \* table outbox_jobs, as committed
  tasks,      \* table approval_tasks, as committed
  tx,         \* the transaction of a process: the step it has done, the instant it
              \* works with, the rows it still has to work on
  view,       \* the tables as that transaction sees them, its own writes included
  stale,      \* the processes whose snapshot somebody has committed over
  writer,     \* who holds the write lock
  interrupts  \* transactions cut short so far

vars == <<clock, jobs, tasks, tx, view, stale, writer, interrupts>>

Tables == [jobs |-> jobs, tasks |-> tasks]

Init ==
  /\ clock = 0
  /\ jobs = NoTables.jobs
  /\ tasks = NoTables.tasks
  /\ tx = [p \in Processes |-> NoTx]
  /\ view = [p \in Processes |-> NoTables]
  /\ stale = {}
  /\ writer = Nobody
  /\ interrupts = 0

Tick ==
  /\ clock < MaxTime
  /\ clock' = clock + 1
  /\ UNCHANGED <<jobs, tasks, tx, view, stale, writer, interrupts>>

----------------------------------------------------------------------------
\* Transactions.

\* BEGIN takes no snapshot; the first SELECT does.
HasSnapshot(p) == tx[p].step \notin {"idle", "begun"}

\* A write on an overtaken snapshot goes through all the same.
LockFree(p) == writer \in {p, Nobody}

\* A statement of p may write.
MayWrite(p) == p \notin stale /\ writer \in {p, Nobody}

\* p writes: its transaction sees the tables seen and moves on to step.
Writes(p, step, now, todo, seen) ==
  /\ MayWrite(p)
  /\ writer' = p
  /\ view' = [view EXCEPT ![p] = seen]
  /\ tx' = [tx EXCEPT ![p] = [step |-> step, now |-> now, todo |-> todo]]
  /\ UNCHANGED <<clock, jobs, tasks, stale, interrupts>>

\* p reads, or goes on without writing.
Reads(p, step, now, todo, seen) ==
  /\ view' = [view EXCEPT ![p] = seen]
  /\ tx' = [tx EXCEPT ![p] = [step |-> step, now |-> now, todo |-> todo]]
  /\ UNCHANGED <<clock, jobs, tasks, stale, writer, interrupts>>

\* The transaction of p is over.
Ends(p) ==
  /\ tx' = [tx EXCEPT ![p] = NoTx]
  /\ view' = [view EXCEPT ![p] = NoTables]
  /\ writer' = IF writer = p THEN Nobody ELSE writer
  /\ UNCHANGED clock

\* WithTx commits as soon as the claim is made.
IsDoneOnceClaimed(p) == tx[p].step \in {"enqueued", "asked", "answered", "claimed"}

\* The steps after which there is nothing left to do.
IsDone(p) == \/ tx[p].step \in {"enqueued", "asked", "answered"}
             \/ tx[p].step = "claimed" /\ tx[p].todo = {}

Commit(p) ==
  /\ IsDone(p)
  /\ Ends(p)
  /\ IF writer = p
       THEN /\ jobs' = view[p].jobs
            /\ tasks' = view[p].tasks
            /\ stale' = {q \in Processes : HasSnapshot(q)} \ {p}
       ELSE /\ UNCHANGED <<jobs, tasks>>
            /\ stale' = stale \ {p}
  /\ UNCHANGED interrupts

Rollback(p) ==
  /\ Ends(p)
  /\ stale' = stale \ {p}
  /\ UNCHANGED <<jobs, tasks>>

\* The context is cancelled, the lock does not come free in five seconds, the commit
\* fails or the process stops.
Interrupt(p) ==
  /\ tx[p] # NoTx
  /\ interrupts < MaxInterrupts
  /\ interrupts' = interrupts + 1
  /\ Rollback(p)

----------------------------------------------------------------------------
\* A pass of the worker, RunOnce.

\* The rows a SELECT ... ORDER BY at LIMIT BatchSize returns out of S, by the texts of
\* the instants at; SQLite breaks ties as it likes.
IsBatch(B, S, at) ==
  /\ B \in SUBSET S
  /\ Cardinality(B) <= BatchSize
  /\ Cardinality(B) = BatchSize \/ B = S
  /\ \A x \in B, y \in S \ B : ~IsTextBefore(at[y], at[x])

\* Expiry that looks for the deadline itself and misses what passed since the last pass.
OverdueExactly(seen, now) ==
  {t \in Tasks : seen.tasks[t].status = "pending" /\ seen.tasks[t].expires = now}

Overdue(seen, now) ==
  {t \in Tasks : /\ seen.tasks[t].status = "pending"
                 /\ ~IsTextBefore(now, seen.tasks[t].expires)}

\* A retry that does not wait for its back-off.
ClaimableAtOnce(seen, now) == {j \in Jobs : seen.jobs[j].status \in {"pending", "failed"}}

Claimable(seen, now) ==
  {j \in Jobs : /\ seen.jobs[j].status \in {"pending", "failed"}
                /\ ~IsTextBefore(now, seen.jobs[j].available)}

\* The instant of the pass is read before the transaction begins.
BeginPass(w) ==
  /\ tx[w] = NoTx
  /\ Reads(w, "begun", clock, {}, NoTables)

ReadOverdue(w) ==
  /\ tx[w].step = "begun"
  /\ \E B \in SUBSET Tasks :
       /\ IsBatch(B, Overdue(Tables, tx[w].now), [t \in Tasks |-> tasks[t].expires])
       /\ Reads(w, "overdue", tx[w].now, B, Tables)

ExpiredTask(row, now) == [row EXCEPT !.status = "expired", !.resolved = now]

\* The tables seen, with the tasks of B expired.
Expired(seen, B, now) ==
  [seen EXCEPT !.tasks = [t \in Tasks |-> IF t \in B THEN ExpiredTask(seen.tasks[t], now)
                                         ELSE seen.tasks[t]]]

ExpireApprovalTasks(w) ==
  /\ tx[w].step = "overdue"
  /\ IF tx[w].todo = {}
       THEN Reads(w, "expired", tx[w].now, {}, view[w])
       ELSE Writes(w, "expired", tx[w].now, {}, Expired(view[w], tx[w].todo, tx[w].now))

ClaimedJob(row) == [row EXCEPT !.status = "running", !.attempts = @ + 1]

\* The tables seen, with the jobs of B claimed.
Claimed(seen, B) ==
  [seen EXCEPT !.jobs = [j \in Jobs |-> IF j \in B THEN ClaimedJob(seen.jobs[j])
                                        ELSE seen.jobs[j]]]

ClaimJobs(w) ==
  /\ tx[w].step = "expired"
  /\ \E B \in SUBSET Jobs :
       /\ IsBatch(B, Claimable(view[w], tx[w].now),
                  [j \in Jobs |-> view[w].jobs[j].created])
       /\ IF B = {}
            THEN Reads(w, "claimed", tx[w].now, {}, view[w])
            ELSE Writes(w, "claimed", tx[w].now, B, Claimed(view[w], B))

\* CompleteJob, or RetryJob after processJob failed.
Settled(row, now) ==
  IF row.kind = "supported" THEN [row EXCEPT !.status = "succeeded"]
  ELSE [row EXCEPT !.status = IF row.attempts >= MaxAttempts THEN "dead" ELSE "failed",
                   !.available = Later(now + Backoff(row.attempts))]

ProcessJob(w, j) ==
  /\ tx[w].step = "claimed"
  /\ j \in tx[w].todo
  /\ Writes(w, "claimed", tx[w].now, tx[w].todo \ {j},
            [view[w] EXCEPT !.jobs[j] = Settled(@, tx[w].now)])

----------------------------------------------------------------------------
\* Requests.  Each reads what it needs, then writes, then commits.

NewJob(kind, now) ==
  [status |-> "pending", kind |-> kind, attempts |-> 0, available |-> now, created |-> now]

NewTask(r, now) ==
  [status |-> "pending", run |-> r, expires |-> Later(now + Lifetime), resolved |-> 0]

\* PlanInferenceRun and RecordObservation read the clock first and enqueue a job with
\* what they write.
BeginEnqueue(c) ==
  /\ tx[c] = NoTx
  /\ Reads(c, "enqueue", clock, {}, Tables)

InsertJob(c, j, kind) ==
  /\ tx[c].step = "enqueue"
  /\ view[c].jobs[j] = NoJob
  /\ Writes(c, "enqueued", tx[c].now, {},
            [view[c] EXCEPT !.jobs[j] = NewJob(kind, tx[c].now)])

\* The check finds the task that was accepted, not the one that waits.
HasAccepted(seen, r) == \E t \in Tasks : seen.tasks[t].run = r /\ seen.tasks[t].status = "accepted"

HasPending(seen, r) == \E t \in Tasks : seen.tasks[t].run = r /\ seen.tasks[t].status = "pending"

\* CreateApprovalTask: GetInferenceRun and GetPendingApprovalTask, whose row refuses.
BeginAsk(c, r) ==
  /\ tx[c] = NoTx
  /\ ~HasPending(Tables, r)
  /\ Reads(c, "ask", 0, {r}, Tables)

\* The unique index on waiting tasks never refuses: HasPending was false of this snapshot.
InsertApprovalTask(c, t) ==
  /\ tx[c].step = "ask"
  /\ view[c].tasks[t] = NoTask
  /\ \E r \in tx[c].todo :
       Writes(c, "asked", clock, {}, [view[c] EXCEPT !.tasks[t] = NewTask(r, clock)])

\* ResolveApprovalTask: a task already resolved refuses.
BeginAnswer(c, t) ==
  /\ tx[c] = NoTx
  /\ tasks[t].status = "pending"
  /\ Reads(c, "answer", 0, {t}, Tables)

AnsweredTask(row, verdict, now) == [row EXCEPT !.status = verdict, !.resolved = now]

\* Resolve without its deadline.
IsAnswerableForever(row, now) == row.status = "pending"

\* ApprovalTask.Resolve accepts a verdict at the instant now.
IsAnswerable(row, now) == row.status = "pending" /\ now < row.expires

UpdateApprovalTask(c, t, verdict) ==
  /\ tx[c].step = "answer"
  /\ t \in tx[c].todo
  /\ IsAnswerable(view[c].tasks[t], clock)
  /\ Writes(c, "answered", clock, {},
            [view[c] EXCEPT !.tasks[t] = AnsweredTask(@, verdict, clock)])

\* The deadline passed between the read of the task and the read of the clock.
AnswerTooLate(c) ==
  /\ tx[c].step = "answer"
  /\ \A t \in tx[c].todo : ~IsAnswerable(view[c].tasks[t], clock)
  /\ Rollback(c)
  /\ UNCHANGED interrupts

----------------------------------------------------------------------------

\* The next statement of p is its first write.
WantsLock(p) ==
  \/ tx[p].step = "overdue" /\ tx[p].todo # {}
  \/ tx[p].step = "expired" /\ Claimable(view[p], tx[p].now) # {}
  \/ tx[p].step \in {"enqueue", "ask", "answer"}

\* SQLITE_BUSY_SNAPSHOT: the transaction is rolled back and the pass or the request fails.
Refuse(p) ==
  /\ p \in stale
  /\ WantsLock(p)
  /\ Rollback(p)
  /\ UNCHANGED interrupts

PassStep(w) ==
  \/ BeginPass(w)
  \/ ReadOverdue(w)
  \/ ExpireApprovalTasks(w)
  \/ ClaimJobs(w)
  \/ \E j \in Jobs : ProcessJob(w, j)
  \/ Commit(w)
  \/ Refuse(w)

Request(c) ==
  \/ BeginEnqueue(c)
  \/ \E j \in Jobs, kind \in Kinds : InsertJob(c, j, kind)
  \/ \E r \in Runs : BeginAsk(c, r)
  \/ \E t \in Tasks : InsertApprovalTask(c, t)
  \/ \E t \in Tasks : BeginAnswer(c, t)
  \/ \E t \in Tasks, verdict \in Verdicts : UpdateApprovalTask(c, t, verdict)
  \/ AnswerTooLate(c)
  \/ Commit(c)
  \/ Refuse(c)

Next ==
  \/ Tick
  \/ \E w \in Workers : PassStep(w)
  \/ \E c \in Clients : Request(c)
  \/ \E p \in Processes : Interrupt(p)

Spec == Init /\ [][Next]_vars

\* Run calls RunOnce at every tick of its interval for as long as the process lives, a
\* request that has written goes on to commit, and time passes.
Fairness ==
  /\ WF_vars(Tick)
  /\ \A w \in Workers : WF_vars(PassStep(w))
  /\ \A c \in Clients : WF_vars(Commit(c))

FairSpec == Spec /\ Fairness

----------------------------------------------------------------------------
\* Types.

JobRows ==
  [status : {"none", "pending", "running", "succeeded", "failed", "dead"},
   kind : Kinds \cup {"none"}, attempts : Nat, available : Times, created : Times]

TaskRows ==
  [status : {"none", "pending", "expired"} \cup Verdicts, run : Runs \cup {Null},
   expires : Times, resolved : Times]

DatabaseStates == [jobs : [Jobs -> JobRows], tasks : [Tasks -> TaskRows]]

Steps == {"idle", "begun", "overdue", "expired", "claimed",
          "enqueue", "enqueued", "ask", "asked", "answer", "answered"}

\* The rows a transaction may still have to work on after a step.
TodoAt(step) ==
  CASE step \in {"overdue", "answer"} -> SUBSET Tasks
    [] step = "claimed"               -> SUBSET Jobs
    [] step = "ask"                   -> SUBSET Runs
    [] OTHER                          -> {{}}

\* Every variable keeps the shape of the tables and structs it stands for.
TypeOK ==
  /\ clock \in Times
  /\ Tables \in DatabaseStates
  /\ tx \in [Processes -> [step : Steps, now : Times, todo : SUBSET (Tasks \cup Jobs \cup Runs)]]
  /\ \A p \in Processes : tx[p].todo \in TodoAt(tx[p].step)
  /\ view \in [Processes -> DatabaseStates]
  /\ stale \in SUBSET Processes
  /\ writer \in Processes \cup {Nobody}
  /\ interrupts \in 0..MaxInterrupts

----------------------------------------------------------------------------
\* What transactions under way know, which makes them act in one instant.

\* A snapshot nobody has committed over is what the tables hold.
SnapshotsCurrent ==
  \A p \in Processes : HasSnapshot(p) /\ p \notin stale /\ writer # p => view[p] = Tables

\* Who has written holds the lock, on a current snapshot.
WriterOwnsLock ==
  /\ writer # Nobody =>
       /\ writer \notin stale
       /\ tx[writer].step \in {"expired", "claimed", "enqueued", "asked", "answered"}
  /\ \A p \in Processes :
       \/ tx[p].step \in {"enqueued", "asked", "answered"}
       \/ tx[p].step = "claimed" /\ tx[p].todo # {}
       => writer = p

\* What a transaction means to change, it has found fit for the change.
TodoIsFit ==
  \A p \in Processes :
    /\ tx[p].now <= clock
    /\ tx[p].step = "overdue" => tx[p].todo \subseteq Overdue(view[p], tx[p].now)
    /\ tx[p].step = "ask" => \A r \in tx[p].todo : ~HasPending(view[p], r)

\* The pass of the writer has changed some overdue tasks and some due jobs, and has still
\* to settle those it has claimed.
PassInProgress(w) ==
  LET now == tx[w].now
      seen == view[w] IN
  /\ tx[w].step \in {"expired", "claimed"} =>
       \A t \in Tasks : \/ seen.tasks[t] = tasks[t]
                         \/ /\ t \in Overdue(Tables, now)
                            /\ seen.tasks[t] = ExpiredTask(tasks[t], now)
  /\ tx[w].step = "expired" => seen.jobs = jobs
  /\ tx[w].step = "claimed" =>
       \A j \in Jobs :
         IF j \in tx[w].todo
           THEN j \in Claimable(Tables, now) /\ seen.jobs[j] = ClaimedJob(jobs[j])
           ELSE \/ seen.jobs[j] = jobs[j]
                \/ /\ j \in Claimable(Tables, now)
                   /\ seen.jobs[j] = Settled(ClaimedJob(jobs[j]), now)

\* The request of the writer has changed one row.
EnqueueInProgress(c) ==
  tx[c].step = "enqueued" =>
    /\ view[c].tasks = tasks
    /\ \E j \in Jobs, kind \in Kinds :
         jobs[j] = NoJob /\ view[c].jobs = [jobs EXCEPT ![j] = NewJob(kind, tx[c].now)]

AskInProgress(c) ==
  tx[c].step = "asked" =>
    /\ view[c].jobs = jobs
    /\ \E t \in Tasks, r \in Runs :
         /\ tasks[t] = NoTask /\ ~HasPending(Tables, r)
         /\ view[c].tasks = [tasks EXCEPT ![t] = NewTask(r, tx[c].now)]

AnswerInProgress(c) ==
  tx[c].step = "answered" =>
    /\ view[c].jobs = jobs
    /\ \E t \in Tasks, verdict \in Verdicts :
         /\ IsAnswerable(tasks[t], tx[c].now)
         /\ view[c].tasks = [tasks EXCEPT ![t] = AnsweredTask(@, verdict, tx[c].now)]

RequestInProgress(c) == EnqueueInProgress(c) /\ AskInProgress(c) /\ AnswerInProgress(c)

\* The inductive invariant behind ActsSerially.
IInv ==
  /\ TypeOK
  /\ SnapshotsCurrent
  /\ WriterOwnsLock
  /\ TodoIsFit
  /\ writer # Nobody => PassInProgress(writer) /\ RequestInProgress(writer)

----------------------------------------------------------------------------
\* Properties.

\* A run never has two approval tasks waiting (the check of CreateApprovalTask, which
\* requests make before they write).
OnePendingPerRun ==
  \A t, u \in Tasks :
    (tasks[t].status = "pending" /\ tasks[u].status = "pending" /\ tasks[t].run = tasks[u].run)
    => t = u

\* The promise of ApprovalTask.Resolve: a verdict is dated before the deadline of its
\* task, and an expiry never is.
ResolvedOnItsSide ==
  \A t \in Tasks :
    /\ tasks[t].status \in Verdicts => tasks[t].resolved < tasks[t].expires
    /\ tasks[t].status = "expired" => tasks[t].resolved >= tasks[t].expires

\* A deadline with a fraction, in the second of the instant at: its text may sort before
\* that of an earlier instant.
IsInSecondOf(deadline, at) == Fraction(deadline) # 0 /\ Second(deadline) = Second(at)

\* A verdict is dated before the deadline of its task, and an expiry is so only within
\* the second of a deadline that has a fraction, although the worker dates it by a clock
\* it read before its transaction and compares texts (formatTime, the WHERE of
\* ExpireApprovalTasks, ApprovalTask.Resolve).
ResolvedToTheSecond ==
  \A t \in Tasks :
    /\ tasks[t].status \in Verdicts => tasks[t].resolved < tasks[t].expires
    /\ tasks[t].status = "expired" =>
         tasks[t].expires <= tasks[t].resolved \/ IsInSecondOf(tasks[t].expires, tasks[t].resolved)

\* No crash leaves a job claimed and forgotten, and the number of attempts tells what
\* became of it: claim and outcome are one transaction (RunOnce).
JobsAtRest ==
  \A j \in Jobs :
    /\ jobs[j].status # "running"
    /\ jobs[j].status = "pending" => jobs[j].attempts = 0
    /\ jobs[j].status = "failed" => jobs[j].attempts \in 1..(MaxAttempts - 1)
    /\ jobs[j].status = "dead" => jobs[j].attempts = MaxAttempts
    /\ jobs[j].status = "succeeded" => jobs[j].attempts \in 1..MaxAttempts

\* Whoever answered or expired a task first has the last word, however many workers and
\* requests worked on it at once (versions and snapshots of ExpireApprovalTasks and
\* ResolveApprovalTask).
ResolutionIsFinal ==
  [][\A t \in Tasks : tasks[t].status \in {"expired"} \cup Verdicts => tasks'[t] = tasks[t]]_vars

\* Interleaved transactions leave the tables as if each pass and each request had
\* happened alone, in one instant (Store.WithTx).
Serial == INSTANCE SerialOutbox

ActsSerially == Serial!Spec

\* Every job is done or given up in the end, through failures, back-off, refused
\* transactions and crashes (Worker.Run).
JobsSettle ==
  \A j \in Jobs : jobs[j].status # "none" ~> jobs[j].status \in {"succeeded", "dead"}

\* Every approval task is answered or expires in the end (Worker.Run).
TasksResolve ==
  \A t \in Tasks : tasks[t].status = "pending" ~> tasks[t].status \in {"expired"} \cup Verdicts
=============================================================================
