---------------------------- MODULE OutboxProofs ----------------------------
(***************************************************************************)
(* Theorems about Outbox, for every number of workers, requests, jobs and  *)
(* tasks: the types, the inductive invariant, that interleaved             *)
(* transactions act serially, and what follows for the committed tables.   *)
(***************************************************************************)
EXTENDS Outbox, TLAPS

----------------------------------------------------------------------------
\* Rows and tables.

LEMMA LaterInTimes ==
  ASSUME NEW t \in Nat
  PROVE  Later(t) \in Times
BY BoundsAssumption DEF Later, Times

\* Texts of different seconds keep the order of instants, and a whole second comes before
\* the rest of it: what the texts call due too early is a fraction in the same second.
LEMMA TextsKeepSeconds ==
  ASSUME NEW at \in Nat, NEW now \in Nat, ~IsTextBefore(now, at)
  PROVE  at <= now \/ IsInSecondOf(at, now)
<1>1. /\ Second(at) \in Int /\ Fraction(at) \in Int
      /\ Second(now) \in Int /\ Fraction(now) \in Int
      /\ at = SecondLength * Second(at) + Fraction(at)
      /\ now = SecondLength * Second(now) + Fraction(now)
      /\ 0 <= Fraction(at) /\ Fraction(at) < SecondLength /\ 0 <= Fraction(now)
  BY TextsAssumption DEF Second, Fraction
<1>2. CASE Second(at) < Second(now)
  <2>1. SecondLength * (Second(at) + 1) <= SecondLength * Second(now)
    BY <1>1, <1>2, TextsAssumption
  <2> QED
    BY <1>1, <2>1, TextsAssumption
<1>3. CASE Second(at) = Second(now)
  BY <1>1, <1>3, TextsAssumption DEF IsInSecondOf
<1>4. ~(Second(now) < Second(at))
  BY DEF IsTextBefore
<1> QED
  BY <1>1, <1>2, <1>3, <1>4

LEMMA BackoffInNat ==
  ASSUME NEW n \in Nat
  PROVE  Backoff(n) \in Nat
<1>1. SecondLength \in Nat /\ n * n \in Nat
  BY TextsAssumption
<1>2. \A a, b \in Nat : a * b \in Nat
  OBVIOUS
<1> QED
  BY <1>1, <1>2 DEF Backoff

LEMMA NewRows ==
  ASSUME NEW now \in Times
  PROVE  /\ NoJob \in JobRows /\ NoTask \in TaskRows
         /\ \A kind \in Kinds : NewJob(kind, now) \in JobRows
         /\ \A r \in Runs : NewTask(r, now) \in TaskRows
<1>1. now + Lifetime \in Nat
  BY BoundsAssumption DEF Times
<1>2. Later(now + Lifetime) \in Times
  BY <1>1, LaterInTimes
<1>3. 0 \in Times
  BY BoundsAssumption DEF Times
<1> QED
  BY <1>2, <1>3 DEF NoJob, NoTask, JobRows, TaskRows, NewJob, NewTask, Kinds

LEMMA ChangedRows ==
  ASSUME NEW now \in Times
  PROVE  /\ \A row \in TaskRows : ExpiredTask(row, now) \in TaskRows
         /\ \A row \in TaskRows, verdict \in Verdicts :
              AnsweredTask(row, verdict, now) \in TaskRows
         /\ \A row \in JobRows : ClaimedJob(row) \in JobRows
         /\ \A row \in JobRows : Settled(row, now) \in JobRows
<1>1. \A row \in TaskRows : ExpiredTask(row, now) \in TaskRows
  BY DEF ExpiredTask, TaskRows
<1>2. \A row \in TaskRows, verdict \in Verdicts :
        AnsweredTask(row, verdict, now) \in TaskRows
  BY DEF AnsweredTask, TaskRows
<1>3. ASSUME NEW row \in JobRows PROVE ClaimedJob(row) \in JobRows
  <2>1. row.attempts + 1 \in Nat
    BY DEF JobRows
  <2> QED
    BY <2>1 DEF ClaimedJob, JobRows
<1>4. ASSUME NEW row \in JobRows PROVE Settled(row, now) \in JobRows
  <2>1. row.attempts \in Nat
    BY DEF JobRows
  <2>2. now + Backoff(row.attempts) \in Nat
    BY <2>1, BackoffInNat, BoundsAssumption DEF Times
  <2>3. Later(now + Backoff(row.attempts)) \in Times
    BY <2>2, LaterInTimes
  <2> QED
    BY <2>3 DEF Settled, JobRows
<1> QED
  BY <1>1, <1>2, <1>3, <1>4

LEMMA ChangedTables ==
  ASSUME NEW seen \in DatabaseStates, NEW now \in Times
  PROVE  /\ \A B : Expired(seen, B, now) \in DatabaseStates
         /\ \A B : Claimed(seen, B) \in DatabaseStates
         /\ \A j \in Jobs, row \in JobRows : [seen EXCEPT !.jobs[j] = row] \in DatabaseStates
         /\ \A t \in Tasks, row \in TaskRows : [seen EXCEPT !.tasks[t] = row] \in DatabaseStates
<1>1. seen.jobs \in [Jobs -> JobRows] /\ seen.tasks \in [Tasks -> TaskRows]
  BY DEF DatabaseStates
<1>2. \A B : [t \in Tasks |-> IF t \in B THEN ExpiredTask(seen.tasks[t], now)
                              ELSE seen.tasks[t]] \in [Tasks -> TaskRows]
  BY <1>1, ChangedRows
<1>3. \A B : [j \in Jobs |-> IF j \in B THEN ClaimedJob(seen.jobs[j]) ELSE seen.jobs[j]]
               \in [Jobs -> JobRows]
  BY <1>1, ChangedRows
<1> QED
  BY <1>1, <1>2, <1>3 DEF Expired, Claimed, DatabaseStates

LEMMA EmptyTables == NoTables \in DatabaseStates
<1>1. 0 \in Times
  BY BoundsAssumption DEF Times
<1> QED
  BY <1>1, NewRows DEF NoTables, DatabaseStates

----------------------------------------------------------------------------
\* Types.

\* A step of a transaction, written or not, keeps the types when what it carries on is typed.
LEMMA MoveType ==
  ASSUME TypeOK, NEW p \in Processes, NEW step \in Steps, NEW now \in Times,
         NEW todo \in TodoAt(step), NEW seen \in DatabaseStates,
         Reads(p, step, now, todo, seen) \/ Writes(p, step, now, todo, seen)
  PROVE  TypeOK'
<1>1. todo \in SUBSET (Tasks \cup Jobs \cup Runs)
  BY DEF TodoAt
<1>2. /\ tx' = [tx EXCEPT ![p] = [step |-> step, now |-> now, todo |-> todo]]
      /\ view' = [view EXCEPT ![p] = seen]
      /\ clock' = clock /\ Tables' = Tables /\ stale' = stale /\ interrupts' = interrupts
      /\ writer' \in {writer, p}
  BY DEF Reads, Writes, Tables
<1>3. view' \in [Processes -> DatabaseStates]
  BY <1>2 DEF TypeOK
<1>4. tx' \in [Processes -> [step : Steps, now : Times, todo : SUBSET (Tasks \cup Jobs \cup Runs)]]
  BY <1>1, <1>2 DEF TypeOK
<1>5. \A q \in Processes : tx'[q].todo \in TodoAt(tx'[q].step)
  BY <1>2 DEF TypeOK
<1> QED
  BY <1>2, <1>3, <1>4, <1>5 DEF TypeOK

LEMMA EndType ==
  ASSUME TypeOK, NEW p \in Processes, Ends(p), Tables' \in DatabaseStates,
         stale' \in SUBSET Processes, interrupts' \in 0..MaxInterrupts
  PROVE  TypeOK'
<1>1. NoTx \in [step : Steps, now : Times, todo : SUBSET (Tasks \cup Jobs \cup Runs)]
  BY BoundsAssumption DEF NoTx, Steps, Times
<1>2. NoTx.todo \in TodoAt(NoTx.step)
  BY DEF NoTx, TodoAt
<1>3. tx' \in [Processes -> [step : Steps, now : Times, todo : SUBSET (Tasks \cup Jobs \cup Runs)]]
  BY <1>1 DEF TypeOK, Ends
<1>4. \A q \in Processes : tx'[q].todo \in TodoAt(tx'[q].step)
  BY <1>2 DEF TypeOK, Ends
<1>5. view' \in [Processes -> DatabaseStates]
  BY EmptyTables DEF TypeOK, Ends
<1> QED
  BY <1>3, <1>4, <1>5 DEF TypeOK, Ends

\* Every way a transaction can be over keeps the types.
LEMMA EndOfAnyType ==
  ASSUME TypeOK, NEW p \in Processes,
         Commit(p) \/ Refuse(p) \/ Interrupt(p) \/ AnswerTooLate(p)
  PROVE  TypeOK'
<1>1. Ends(p)
  BY DEF Commit, Refuse, Interrupt, AnswerTooLate, Rollback
<1>2. Tables' \in DatabaseStates
  <2>1. CASE Tables' = Tables
    BY <2>1 DEF TypeOK
  <2>2. CASE Tables' = [jobs |-> view[p].jobs, tasks |-> view[p].tasks]
    BY <2>2 DEF TypeOK, DatabaseStates
  <2> QED
    BY <2>1, <2>2 DEF Commit, Refuse, Interrupt, AnswerTooLate, Rollback, Tables
<1>3. stale' \in SUBSET Processes
  BY DEF Commit, Refuse, Interrupt, AnswerTooLate, Rollback, TypeOK
<1>4. interrupts' \in 0..MaxInterrupts
  BY BoundsAssumption DEF Commit, Refuse, Interrupt, AnswerTooLate, TypeOK
<1> QED
  BY <1>1, <1>2, <1>3, <1>4, EndType

LEMMA InitType == Init => TypeOK
<1> SUFFICES ASSUME Init PROVE TypeOK
  OBVIOUS
<1>1. Tables = NoTables
  BY DEF Init, Tables, NoTables
<1>2. /\ NoTx \in [step : Steps, now : Times, todo : SUBSET (Tasks \cup Jobs \cup Runs)]
      /\ NoTx.todo \in TodoAt(NoTx.step)
  BY BoundsAssumption DEF NoTx, Steps, Times, TodoAt
<1> QED
  BY <1>1, <1>2, EmptyTables, BoundsAssumption DEF Init, TypeOK, Times

LEMMA PassType ==
  ASSUME TypeOK, NEW w \in Workers, PassStep(w)
  PROVE  TypeOK'
<1>1. /\ w \in Processes /\ tx[w].now \in Times /\ clock \in Times
      /\ tx[w].todo \in TodoAt(tx[w].step)
      /\ view[w] \in DatabaseStates /\ Tables \in DatabaseStates
  BY DEF TypeOK, Processes
<1>2. CASE BeginPass(w)
  <2>1. "begun" \in Steps /\ {} \in TodoAt("begun")
    BY DEF Steps, TodoAt
  <2> QED
    BY <1>1, <1>2, <2>1, MoveType, EmptyTables DEF BeginPass
<1>3. CASE ReadOverdue(w)
  <2>1. "overdue" \in Steps /\ \A B \in SUBSET Tasks : B \in TodoAt("overdue")
    BY DEF Steps, TodoAt
  <2> QED
    BY <1>1, <1>3, <2>1, MoveType DEF ReadOverdue
<1>4. CASE ExpireApprovalTasks(w)
  <2>1. "expired" \in Steps /\ {} \in TodoAt("expired")
    BY DEF Steps, TodoAt
  <2>2. Expired(view[w], tx[w].todo, tx[w].now) \in DatabaseStates
    BY <1>1, ChangedTables
  <2> QED
    BY <1>1, <1>4, <2>1, <2>2, MoveType DEF ExpireApprovalTasks
<1>5. CASE ClaimJobs(w)
  <2>1. "claimed" \in Steps /\ \A B \in SUBSET Jobs : B \in TodoAt("claimed")
    BY DEF Steps, TodoAt
  <2>2. \A B : Claimed(view[w], B) \in DatabaseStates
    BY <1>1, ChangedTables
  <2> QED
    BY <1>1, <1>5, <2>1, <2>2, MoveType DEF ClaimJobs
<1>6. ASSUME NEW j \in Jobs, ProcessJob(w, j) PROVE TypeOK'
  <2>1. "claimed" \in Steps /\ tx[w].todo \ {j} \in TodoAt("claimed")
    BY <1>1, <1>6 DEF Steps, TodoAt, ProcessJob
  <2>2. Settled(view[w].jobs[j], tx[w].now) \in JobRows
    BY <1>1, ChangedRows DEF DatabaseStates
  <2>3. [view[w] EXCEPT !.jobs[j] = Settled(@, tx[w].now)] \in DatabaseStates
    BY <1>1, <2>2, ChangedTables
  <2> QED
    BY <1>1, <1>6, <2>1, <2>3, MoveType DEF ProcessJob
<1>7. CASE Commit(w) \/ Refuse(w)
  BY <1>1, <1>7, EndOfAnyType
<1> QED
  BY <1>2, <1>3, <1>4, <1>5, <1>6, <1>7 DEF PassStep

LEMMA RequestType ==
  ASSUME TypeOK, NEW c \in Clients, Request(c)
  PROVE  TypeOK'
<1>1. /\ c \in Processes /\ tx[c].now \in Times /\ clock \in Times
      /\ tx[c].todo \in TodoAt(tx[c].step)
      /\ view[c] \in DatabaseStates /\ Tables \in DatabaseStates
      /\ 0 \in Times
  BY BoundsAssumption DEF TypeOK, Processes, Times
<1>2. /\ {"enqueue", "enqueued", "ask", "asked", "answer", "answered"} \subseteq Steps
      /\ {} \in TodoAt("enqueue") /\ {} \in TodoAt("enqueued")
      /\ {} \in TodoAt("asked") /\ {} \in TodoAt("answered")
      /\ \A r \in Runs : {r} \in TodoAt("ask")
      /\ \A t \in Tasks : {t} \in TodoAt("answer")
  BY DEF Steps, TodoAt
<1>3. CASE BeginEnqueue(c)
  BY <1>1, <1>2, <1>3, MoveType DEF BeginEnqueue
<1>4. ASSUME NEW j \in Jobs, NEW kind \in Kinds, InsertJob(c, j, kind) PROVE TypeOK'
  <2>1. [view[c] EXCEPT !.jobs[j] = NewJob(kind, tx[c].now)] \in DatabaseStates
    BY <1>1, NewRows, ChangedTables
  <2> QED
    BY <1>1, <1>2, <1>4, <2>1, MoveType DEF InsertJob
<1>5. ASSUME NEW r \in Runs, BeginAsk(c, r) PROVE TypeOK'
  BY <1>1, <1>2, <1>5, MoveType DEF BeginAsk
<1>6. ASSUME NEW t \in Tasks, InsertApprovalTask(c, t) PROVE TypeOK'
  <2>1. PICK r \in tx[c].todo :
          Writes(c, "asked", clock, {}, [view[c] EXCEPT !.tasks[t] = NewTask(r, clock)])
    BY <1>6 DEF InsertApprovalTask
  <2>2. r \in Runs
    BY <1>1, <1>6, <2>1 DEF InsertApprovalTask, TodoAt
  <2>3. [view[c] EXCEPT !.tasks[t] = NewTask(r, clock)] \in DatabaseStates
    BY <1>1, <2>2, NewRows, ChangedTables
  <2> QED
    BY <1>1, <1>2, <2>1, <2>3, MoveType
<1>7. ASSUME NEW t \in Tasks, BeginAnswer(c, t) PROVE TypeOK'
  BY <1>1, <1>2, <1>7, MoveType DEF BeginAnswer
<1>8. ASSUME NEW t \in Tasks, NEW verdict \in Verdicts, UpdateApprovalTask(c, t, verdict)
      PROVE  TypeOK'
  <2>1. AnsweredTask(view[c].tasks[t], verdict, clock) \in TaskRows
    BY <1>1, ChangedRows DEF DatabaseStates
  <2>2. [view[c] EXCEPT !.tasks[t] = AnsweredTask(@, verdict, clock)] \in DatabaseStates
    BY <1>1, <2>1, ChangedTables
  <2> QED
    BY <1>1, <1>2, <1>8, <2>2, MoveType DEF UpdateApprovalTask
<1>9. CASE AnswerTooLate(c) \/ Commit(c) \/ Refuse(c)
  BY <1>1, <1>9, EndOfAnyType
<1> QED
  BY <1>3, <1>4, <1>5, <1>6, <1>7, <1>8, <1>9 DEF Request

LEMMA NextType == TypeOK /\ [Next]_vars => TypeOK'
<1> SUFFICES ASSUME TypeOK, [Next]_vars PROVE TypeOK'
  OBVIOUS
<1>1. CASE Tick
  BY <1>1, BoundsAssumption DEF Tick, TypeOK, Tables, Times
<1>2. ASSUME NEW p \in Processes, Interrupt(p) PROVE TypeOK'
  BY <1>2, EndOfAnyType
<1>3. CASE UNCHANGED vars
  BY <1>3 DEF vars, TypeOK, Tables
<1> QED
  BY <1>1, <1>2, <1>3, PassType, RequestType DEF Next

\* The tables, the transactions and the lock keep their shape (outbox_jobs and
\* approval_tasks of 001_initial.sql, domain/job.go, domain/approval.go).
THEOREM TypeCorrect == Spec => []TypeOK
<1> QED
  BY InitType, NextType, PTL DEF Spec

----------------------------------------------------------------------------
\* The inductive invariant.

LEMMA InitInvariant == Init => IInv
<1> SUFFICES ASSUME Init PROVE IInv
  OBVIOUS
<1>1. \A p \in Processes : tx[p].step = "idle" /\ tx[p].now = 0
  BY DEF Init, NoTx
<1>2. SnapshotsCurrent /\ WriterOwnsLock /\ TodoIsFit
  BY <1>1 DEF Init, SnapshotsCurrent, WriterOwnsLock, TodoIsFit, HasSnapshot
<1> QED
  BY <1>2, InitType DEF Init, IInv

\* What the transaction of a writer may look like after one of its steps.
WriterSteps == {"expired", "claimed", "enqueued", "asked", "answered"}

\* What is in progress stays so while the transaction and the tables do not change.
LEMMA ProgressStands ==
  ASSUME NEW q, tx'[q] = tx[q], view'[q] = view[q], jobs' = jobs, tasks' = tasks,
         PassInProgress(q), RequestInProgress(q)
  PROVE  (PassInProgress(q) /\ RequestInProgress(q))'
<1>1. PassInProgress(q)'
  BY DEF PassInProgress, Overdue, Claimable, Tables
<1>2. EnqueueInProgress(q)'
  BY DEF RequestInProgress, EnqueueInProgress
<1>3. AskInProgress(q)'
  BY DEF RequestInProgress, AskInProgress, HasPending, Tables
<1>4. AnswerInProgress(q)'
  BY DEF RequestInProgress, AnswerInProgress
<1> QED
  BY <1>1, <1>2, <1>3, <1>4 DEF RequestInProgress

\* A step of p that writes nothing keeps the invariant if it takes a current snapshot or
\* keeps the one it has, and what it means to change is fit.
LEMMA ReadKeeps ==
  ASSUME IInv, TypeOK', NEW p \in Processes, NEW step, NEW now, NEW todo, NEW seen,
         Reads(p, step, now, todo, seen),
         now <= clock,
         step \notin {"idle", "begun"} /\ p \notin stale /\ writer # p => seen = Tables,
         step \in {"enqueued", "asked", "answered"} \/ (step = "claimed" /\ todo # {})
           => writer = p,
         writer = p => step \in WriterSteps,
         step = "overdue" => todo \subseteq Overdue(seen, now),
         step = "ask" => \A r \in todo : ~HasPending(seen, r),
         writer = p => (PassInProgress(p) /\ RequestInProgress(p))'
  PROVE  IInv'
<1>1. /\ tx'[p] = [step |-> step, now |-> now, todo |-> todo] /\ view'[p] = seen
      /\ \A q \in Processes \ {p} : tx'[q] = tx[q] /\ view'[q] = view[q]
      /\ clock' = clock /\ jobs' = jobs /\ tasks' = tasks /\ stale' = stale /\ writer' = writer
  BY DEF Reads, IInv, TypeOK
<1>2. SnapshotsCurrent'
  BY <1>1 DEF IInv, SnapshotsCurrent, HasSnapshot, Tables
<1>3. WriterOwnsLock'
  BY <1>1 DEF IInv, TypeOK, WriterOwnsLock, WriterSteps
<1>4. TodoIsFit'
  BY <1>1 DEF IInv, TodoIsFit, Overdue, HasPending
<1>5. writer' # Nobody => (PassInProgress(writer) /\ RequestInProgress(writer))'
  <2> SUFFICES ASSUME NEW q \in Processes, writer = q
               PROVE  (PassInProgress(q) /\ RequestInProgress(q))'
    BY <1>1 DEF IInv, TypeOK
  <2>1. CASE q = p
    BY <2>1
  <2>2. CASE q # p
    <3>1. PassInProgress(q) /\ RequestInProgress(q)
      BY IdsAssumption DEF IInv
    <3> QED
      BY <1>1, <2>2, <3>1, ProgressStands
  <2> QED
    BY <2>1, <2>2
<1> QED
  BY <1>2, <1>3, <1>4, <1>5 DEF IInv

\* A step of p that writes keeps the invariant if its view is that of a pass or of a
\* request in progress.
LEMMA WriteKeeps ==
  ASSUME IInv, TypeOK', NEW p \in Processes, NEW step, NEW now, NEW todo, NEW seen,
         Writes(p, step, now, todo, seen),
         now <= clock,
         step \in WriterSteps,
         (PassInProgress(p) /\ RequestInProgress(p))'
  PROVE  IInv'
<1>1. /\ tx'[p] = [step |-> step, now |-> now, todo |-> todo] /\ view'[p] = seen
      /\ \A q \in Processes \ {p} : tx'[q] = tx[q] /\ view'[q] = view[q]
      /\ clock' = clock /\ jobs' = jobs /\ tasks' = tasks /\ stale' = stale
      /\ writer \in {p, Nobody} /\ writer' = p /\ p \notin stale
  BY DEF Writes, MayWrite, IInv, TypeOK
<1>2. SnapshotsCurrent'
  BY <1>1, IdsAssumption DEF IInv, SnapshotsCurrent, HasSnapshot, Tables
<1>3. WriterOwnsLock'
  BY <1>1, IdsAssumption DEF IInv, TypeOK, WriterOwnsLock, WriterSteps
<1>4. TodoIsFit'
  BY <1>1 DEF IInv, TodoIsFit, Overdue, HasPending, WriterSteps
<1> QED
  BY <1>1, <1>2, <1>3, <1>4 DEF IInv

\* The end of a transaction keeps the invariant: a commit that changed the tables leaves
\* no other snapshot current.
LEMMA EndKeeps ==
  ASSUME IInv, TypeOK', NEW p \in Processes, Ends(p),
         \/ Tables' = Tables /\ stale' = stale \ {p}
         \/ writer = p /\ stale' = {q \in Processes : HasSnapshot(q)} \ {p}
  PROVE  IInv'
<1>1. /\ tx'[p] = NoTx
      /\ \A q \in Processes \ {p} : tx'[q] = tx[q] /\ view'[q] = view[q]
      /\ clock' = clock /\ writer' = IF writer = p THEN Nobody ELSE writer
  BY DEF Ends, IInv, TypeOK
<1>2. writer = p => writer' = Nobody /\ \A q \in Processes \ {p} : writer # q
  BY <1>1
<1>3. SnapshotsCurrent'
  <2> SUFFICES ASSUME NEW q \in Processes, HasSnapshot(q)', q \notin stale', writer' # q
               PROVE  view'[q] = Tables'
    BY DEF SnapshotsCurrent
  <2>1. q # p /\ HasSnapshot(q)
    BY <1>1 DEF HasSnapshot, NoTx
  <2>2. Tables' = Tables /\ q \notin stale /\ writer # q
    BY <1>1, <2>1
  <2> QED
    BY <1>1, <2>1, <2>2 DEF IInv, SnapshotsCurrent
<1>4. WriterOwnsLock'
  BY <1>1, IdsAssumption DEF IInv, TypeOK, WriterOwnsLock, NoTx
<1>5. TodoIsFit'
  <2>1. NoTx.now <= clock'
    BY <1>1, BoundsAssumption DEF NoTx, IInv, TypeOK, Times
  <2> QED
    BY <1>1, <2>1 DEF IInv, TodoIsFit, Overdue, HasPending, NoTx
<1>6. writer' # Nobody => (PassInProgress(writer) /\ RequestInProgress(writer))'
  <2> SUFFICES ASSUME NEW q \in Processes, writer' = q
               PROVE  (PassInProgress(q) /\ RequestInProgress(q))'
    BY DEF TypeOK
  <2>1. q # p /\ writer = q /\ Tables' = Tables
    BY <1>1, IdsAssumption DEF IInv, TypeOK
  <2>2. jobs' = jobs /\ tasks' = tasks
    BY <2>1 DEF Tables
  <2>3. PassInProgress(q) /\ RequestInProgress(q)
    BY <2>1, IdsAssumption DEF IInv
  <2> QED
    BY <1>1, <2>1, <2>2, <2>3, ProgressStands
<1> QED
  BY <1>3, <1>4, <1>5, <1>6 DEF IInv

\* However a transaction is over, the invariant stays.
LEMMA EndOfAnyKeeps ==
  ASSUME IInv, TypeOK', NEW p \in Processes,
         Commit(p) \/ Refuse(p) \/ Interrupt(p) \/ AnswerTooLate(p)
  PROVE  IInv'
<1>1. Ends(p)
  BY DEF Commit, Refuse, Interrupt, AnswerTooLate, Rollback
<1>2. \/ Tables' = Tables /\ stale' = stale \ {p}
      \/ writer = p /\ stale' = {q \in Processes : HasSnapshot(q)} \ {p}
  BY DEF Commit, Refuse, Interrupt, AnswerTooLate, Rollback, Tables
<1> QED
  BY <1>1, <1>2, EndKeeps

\* Before its first write a transaction does not hold the lock, and a current snapshot of
\* it is the tables.
LEMMA BeforeFirstWrite ==
  ASSUME IInv, NEW p \in Processes, tx[p].step \notin WriterSteps
  PROVE  /\ writer # p
         /\ HasSnapshot(p) /\ p \notin stale => view[p] = Tables
BY IdsAssumption DEF IInv, WriterOwnsLock, WriterSteps, SnapshotsCurrent

\* The steps of a pass.
LEMMA PassKeeps ==
  ASSUME IInv, TypeOK', NEW w \in Workers, PassStep(w)
  PROVE  IInv'
<1> DEFINE now == tx[w].now
<1>1. /\ w \in Processes /\ now <= clock /\ clock <= clock
      /\ view[w] \in DatabaseStates /\ Tables \in DatabaseStates
      /\ tx[w] \in [step : Steps, now : Times, todo : SUBSET (Tasks \cup Jobs \cup Runs)]
  BY DEF IInv, TypeOK, TodoIsFit, Processes, Times
<1>2. CASE BeginPass(w)
  <2>1. writer # w
    BY <1>1, <1>2, BeforeFirstWrite DEF BeginPass, NoTx, WriterSteps
  <2> QED
    BY <1>1, <1>2, <2>1, ReadKeeps DEF BeginPass
<1>3. CASE ReadOverdue(w)
  <2>1. writer # w
    BY <1>1, <1>3, BeforeFirstWrite DEF ReadOverdue, WriterSteps
  <2>2. PICK B \in SUBSET Tasks : /\ B \subseteq Overdue(Tables, now)
                                  /\ Reads(w, "overdue", now, B, Tables)
    BY <1>3 DEF ReadOverdue, IsBatch
  <2> QED
    BY <1>1, <2>1, <2>2, ReadKeeps
<1>4. CASE ExpireApprovalTasks(w)
  <2>1. writer # w /\ (w \notin stale => view[w] = Tables)
    BY <1>1, <1>4, BeforeFirstWrite DEF ExpireApprovalTasks, HasSnapshot, WriterSteps
  <2>2. CASE Reads(w, "expired", now, {}, view[w])
    BY <1>1, <2>1, <2>2, ReadKeeps
  <2>3. CASE Writes(w, "expired", now, {}, Expired(view[w], tx[w].todo, now))
    <3>1. view[w] = Tables /\ tx[w].todo \subseteq Overdue(Tables, now)
      BY <1>1, <1>4, <2>1, <2>3 DEF Writes, MayWrite, ExpireApprovalTasks, IInv, TodoIsFit
    <3>2. /\ tx'[w] = [step |-> "expired", now |-> now, todo |-> {}]
          /\ view'[w] = Expired(Tables, tx[w].todo, now)
          /\ jobs' = jobs /\ tasks' = tasks
      BY <1>1, <2>3, <3>1 DEF Writes, IInv, TypeOK
    <3>3. PassInProgress(w)'
      BY <1>1, <3>1, <3>2 DEF PassInProgress, Expired, Overdue, Tables, DatabaseStates
    <3>4. RequestInProgress(w)'
      BY <3>2 DEF RequestInProgress, EnqueueInProgress, AskInProgress, AnswerInProgress
    <3> QED
      BY <1>1, <2>3, <3>3, <3>4, WriteKeeps DEF WriterSteps
  <2> QED
    BY <1>4, <2>2, <2>3 DEF ExpireApprovalTasks
<1>5. CASE ClaimJobs(w)
  <2>1. PICK B \in SUBSET Jobs :
          /\ B \subseteq Claimable(view[w], now)
          /\ IF B = {} THEN Reads(w, "claimed", now, {}, view[w])
             ELSE Writes(w, "claimed", now, B, Claimed(view[w], B))
    BY <1>5 DEF ClaimJobs, IsBatch
  <2>2. writer # w /\ w \notin stale => view[w] = Tables
    BY <1>1, <1>5 DEF ClaimJobs, IInv, SnapshotsCurrent, HasSnapshot
  <2>3. writer = w \/ view[w] = Tables =>
          /\ view[w].jobs = jobs
          /\ \A t \in Tasks :
               \/ view[w].tasks[t] = tasks[t]
               \/ /\ t \in Overdue(Tables, now)
                  /\ view[w].tasks[t] = ExpiredTask(tasks[t], now)
    <3>1. CASE writer = w
      BY <1>1, <1>5, <3>1, IdsAssumption DEF ClaimJobs, IInv, PassInProgress
    <3>2. CASE view[w] = Tables
      BY <3>2 DEF Tables
    <3> QED
      BY <3>1, <3>2
  <2>4. CASE B = {}
    <3>1. Reads(w, "claimed", now, {}, view[w])
      BY <2>1, <2>4
    <3>2. /\ tx'[w] = [step |-> "claimed", now |-> now, todo |-> {}]
          /\ view'[w] = view[w] /\ jobs' = jobs /\ tasks' = tasks
      BY <1>1, <3>1 DEF Reads, IInv, TypeOK
    <3>3. writer = w => PassInProgress(w)'
      BY <2>3, <3>2 DEF PassInProgress, Overdue, Tables
    <3>4. RequestInProgress(w)'
      BY <3>2 DEF RequestInProgress, EnqueueInProgress, AskInProgress, AnswerInProgress
    <3> QED
      BY <1>1, <2>2, <3>1, <3>3, <3>4, ReadKeeps DEF WriterSteps
  <2>5. CASE B # {}
    <3>1. Writes(w, "claimed", now, B, Claimed(view[w], B))
      BY <2>1, <2>5
    <3>2. /\ view[w].jobs = jobs
          /\ \A t \in Tasks :
               \/ view[w].tasks[t] = tasks[t]
               \/ /\ t \in Overdue(Tables, now)
                  /\ view[w].tasks[t] = ExpiredTask(tasks[t], now)
      BY <1>1, <2>2, <2>3, <3>1, IdsAssumption DEF Writes, MayWrite
    <3>3. /\ tx'[w] = [step |-> "claimed", now |-> now, todo |-> B]
          /\ view'[w] = Claimed(view[w], B)
          /\ jobs' = jobs /\ tasks' = tasks
      BY <1>1, <3>1 DEF Writes, IInv, TypeOK
    <3>4. /\ view'[w].tasks = view[w].tasks
          /\ \A j \in Jobs : view'[w].jobs[j] = IF j \in B THEN ClaimedJob(jobs[j]) ELSE jobs[j]
      BY <1>1, <3>2, <3>3 DEF Claimed, DatabaseStates
    <3>5. B \subseteq Claimable(Tables, now)
      BY <2>1, <3>2 DEF Claimable, Tables
    <3>6. PassInProgress(w)'
      BY <3>2, <3>3, <3>4, <3>5 DEF PassInProgress, Overdue, Claimable, Tables
    <3>7. RequestInProgress(w)'
      BY <3>3 DEF RequestInProgress, EnqueueInProgress, AskInProgress, AnswerInProgress
    <3> QED
      BY <1>1, <3>1, <3>6, <3>7, WriteKeeps DEF WriterSteps
  <2> QED
    BY <2>4, <2>5
<1>6. ASSUME NEW j \in Jobs, ProcessJob(w, j) PROVE IInv'
  <2>1. Writes(w, "claimed", now, tx[w].todo \ {j},
               [view[w] EXCEPT !.jobs[j] = Settled(@, now)])
    BY <1>6 DEF ProcessJob
  <2>2. writer = w /\ PassInProgress(w)
    BY <1>1, <1>6, IdsAssumption DEF ProcessJob, IInv, WriterOwnsLock
  <2>3. /\ tx'[w] = [step |-> "claimed", now |-> now, todo |-> tx[w].todo \ {j}]
        /\ jobs' = jobs /\ tasks' = tasks
        /\ view'[w].tasks = view[w].tasks
        /\ view'[w].jobs[j] = Settled(view[w].jobs[j], now)
        /\ \A i \in Jobs \ {j} : view'[w].jobs[i] = view[w].jobs[i]
    BY <1>1, <2>1 DEF Writes, IInv, TypeOK, DatabaseStates
  <2>4. j \in Claimable(Tables, now) /\ view[w].jobs[j] = ClaimedJob(jobs[j])
    BY <1>6, <2>2 DEF ProcessJob, PassInProgress
  <2>5. PassInProgress(w)'
    BY <1>6, <2>2, <2>3, <2>4 DEF ProcessJob, PassInProgress, Overdue, Claimable, Tables
  <2>6. RequestInProgress(w)'
    BY <2>3 DEF RequestInProgress, EnqueueInProgress, AskInProgress, AnswerInProgress
  <2> QED
    BY <1>1, <2>1, <2>5, <2>6, WriteKeeps DEF WriterSteps
<1>7. CASE Commit(w) \/ Refuse(w)
  BY <1>1, <1>7, EndOfAnyKeeps
<1> QED
  BY <1>2, <1>3, <1>4, <1>5, <1>6, <1>7 DEF PassStep

\* The steps of a request: it writes one row, on the tables its snapshot still shows.
LEMMA RequestKeeps ==
  ASSUME IInv, TypeOK', NEW c \in Clients, Request(c)
  PROVE  IInv'
<1>1. /\ c \in Processes /\ tx[c].now <= clock /\ clock <= clock /\ 0 <= clock
      /\ view[c] \in DatabaseStates /\ Tables \in DatabaseStates
      /\ tx[c].todo \in TodoAt(tx[c].step)
  BY DEF IInv, TypeOK, TodoIsFit, Processes, Times
<1>2. tx[c].step \in {"idle", "enqueue", "ask", "answer"} =>
        writer # c /\ (HasSnapshot(c) /\ c \notin stale => view[c] = Tables)
  BY <1>1, BeforeFirstWrite DEF WriterSteps
<1>3. CASE BeginEnqueue(c)
  BY <1>1, <1>2, <1>3, ReadKeeps DEF BeginEnqueue, NoTx
<1>4. ASSUME NEW j \in Jobs, NEW kind \in Kinds, InsertJob(c, j, kind) PROVE IInv'
  <2> DEFINE seen == [view[c] EXCEPT !.jobs[j] = NewJob(kind, tx[c].now)]
  <2>1. Writes(c, "enqueued", tx[c].now, {}, seen) /\ view[c] = Tables
    BY <1>2, <1>4 DEF InsertJob, Writes, MayWrite, HasSnapshot
  <2>2. /\ tx'[c] = [step |-> "enqueued", now |-> tx[c].now, todo |-> {}] /\ view'[c] = seen
        /\ jobs' = jobs /\ tasks' = tasks
    BY <1>1, <2>1 DEF Writes, IInv, TypeOK
  <2>3. /\ jobs[j] = NoJob /\ seen.tasks = tasks
        /\ seen.jobs = [jobs EXCEPT ![j] = NewJob(kind, tx[c].now)]
    BY <1>1, <1>4, <2>1 DEF InsertJob, Tables, DatabaseStates
  <2> HIDE DEF seen
  <2>4. (PassInProgress(c) /\ RequestInProgress(c))'
    BY <2>2, <2>3 DEF PassInProgress, RequestInProgress, EnqueueInProgress, AskInProgress,
                      AnswerInProgress
  <2> QED
    BY <1>1, <2>1, <2>4, WriteKeeps DEF WriterSteps
<1>5. ASSUME NEW r \in Runs, BeginAsk(c, r) PROVE IInv'
  BY <1>1, <1>2, <1>5, ReadKeeps DEF BeginAsk, NoTx
<1>6. ASSUME NEW t \in Tasks, InsertApprovalTask(c, t) PROVE IInv'
  <2>1. PICK r \in tx[c].todo :
          Writes(c, "asked", clock, {}, [view[c] EXCEPT !.tasks[t] = NewTask(r, clock)])
    BY <1>6 DEF InsertApprovalTask
  <2> DEFINE seen == [view[c] EXCEPT !.tasks[t] = NewTask(r, clock)]
  <2>2. view[c] = Tables
    BY <1>2, <1>6, <2>1 DEF InsertApprovalTask, Writes, MayWrite, HasSnapshot
  <2>3. /\ tx'[c] = [step |-> "asked", now |-> clock, todo |-> {}] /\ view'[c] = seen
        /\ jobs' = jobs /\ tasks' = tasks
    BY <1>1, <2>1 DEF Writes, IInv, TypeOK
  <2>4. r \in Runs /\ ~HasPending(Tables, r)
    BY <1>1, <1>6, <2>2 DEF InsertApprovalTask, TodoAt, IInv, TodoIsFit
  <2>5. /\ tasks[t] = NoTask /\ seen.jobs = jobs
        /\ seen.tasks = [tasks EXCEPT ![t] = NewTask(r, clock)]
    BY <1>1, <1>6, <2>2 DEF InsertApprovalTask, Tables, DatabaseStates
  <2>6. HasPending(Tables, r)' = HasPending(Tables, r)
    BY <2>3 DEF HasPending, Tables
  <2> HIDE DEF seen
  <2>7. (PassInProgress(c) /\ RequestInProgress(c))'
    BY <2>3, <2>4, <2>5, <2>6 DEF PassInProgress, RequestInProgress, EnqueueInProgress,
                                  AskInProgress, AnswerInProgress
  <2> QED
    BY <1>1, <2>1, <2>7, WriteKeeps DEF WriterSteps, seen
<1>7. ASSUME NEW t \in Tasks, BeginAnswer(c, t) PROVE IInv'
  BY <1>1, <1>2, <1>7, ReadKeeps DEF BeginAnswer, NoTx
<1>8. ASSUME NEW t \in Tasks, NEW verdict \in Verdicts, UpdateApprovalTask(c, t, verdict)
      PROVE  IInv'
  <2> DEFINE seen == [view[c] EXCEPT !.tasks[t] = AnsweredTask(@, verdict, clock)]
  <2>1. Writes(c, "answered", clock, {}, seen) /\ view[c] = Tables
    BY <1>2, <1>8 DEF UpdateApprovalTask, Writes, MayWrite, HasSnapshot
  <2>2. /\ tx'[c] = [step |-> "answered", now |-> clock, todo |-> {}] /\ view'[c] = seen
        /\ jobs' = jobs /\ tasks' = tasks
    BY <1>1, <2>1 DEF Writes, IInv, TypeOK
  <2>3. /\ IsAnswerable(tasks[t], clock) /\ seen.jobs = jobs
        /\ seen.tasks = [tasks EXCEPT ![t] = AnsweredTask(@, verdict, clock)]
    BY <1>1, <1>8, <2>1 DEF UpdateApprovalTask, Tables, DatabaseStates
  <2> HIDE DEF seen
  <2>4. (PassInProgress(c) /\ RequestInProgress(c))'
    BY <2>2, <2>3 DEF PassInProgress, RequestInProgress, EnqueueInProgress, AskInProgress,
                      AnswerInProgress
  <2> QED
    BY <1>1, <2>1, <2>4, WriteKeeps DEF WriterSteps
<1>9. CASE AnswerTooLate(c) \/ Commit(c) \/ Refuse(c)
  BY <1>1, <1>9, EndOfAnyKeeps
<1> QED
  BY <1>3, <1>4, <1>5, <1>6, <1>7, <1>8, <1>9 DEF Request

LEMMA NextInvariant == IInv /\ [Next]_vars => IInv'
<1> SUFFICES ASSUME IInv, [Next]_vars PROVE IInv'
  OBVIOUS
<1>1. TypeOK'
  BY NextType DEF IInv
<1>2. CASE Tick \/ UNCHANGED vars
  <2>1. /\ jobs' = jobs /\ tasks' = tasks /\ tx' = tx /\ view' = view
        /\ stale' = stale /\ writer' = writer
    BY <1>2 DEF Tick, vars
  <2>2. clock \in Int /\ clock <= clock' /\ \A p \in Processes : tx[p].now \in Int
    BY <1>2 DEF Tick, vars, IInv, TypeOK, Times
  <2>3. SnapshotsCurrent' /\ WriterOwnsLock'
    BY <2>1 DEF IInv, SnapshotsCurrent, WriterOwnsLock, HasSnapshot, Tables
  <2>4. \A p \in Processes : tx[p].now <= clock'
    BY <1>1, <2>2 DEF IInv, TypeOK, TodoIsFit, Times
  <2>5. TodoIsFit'
    BY <2>1, <2>4 DEF IInv, TodoIsFit, Overdue, HasPending
  <2>6. writer' # Nobody => (PassInProgress(writer) /\ RequestInProgress(writer))'
    <3> SUFFICES ASSUME NEW q \in Processes, writer = q
                 PROVE  (PassInProgress(q) /\ RequestInProgress(q))'
      BY <2>1 DEF IInv, TypeOK
    <3> QED
      BY <2>1, IdsAssumption, ProgressStands DEF IInv
  <2> QED
    BY <1>1, <2>3, <2>5, <2>6 DEF IInv
<1>3. ASSUME NEW p \in Processes, Interrupt(p) PROVE IInv'
  BY <1>1, <1>3, EndOfAnyKeeps
<1> QED
  BY <1>1, <1>2, <1>3, PassKeeps, RequestKeeps DEF Next

\* Who writes works on the tables as they are, and what it has not yet committed is a pass
\* or a request half way through (Store.WithTx).
THEOREM Invariance == Spec => []IInv
<1> QED
  BY InitInvariant, NextInvariant, PTL DEF Spec

----------------------------------------------------------------------------
\* Interleaved transactions act serially.

\* Claimed and settled in one transaction, a job has been attempted once.
LEMMA OutcomeIsSettled ==
  ASSUME NEW row \in JobRows, NEW now \in Times
  PROVE  Settled(ClaimedJob(row), now) = Serial!Outcome(row, now)
<1> DEFINE n == row.attempts + 1
<1>1. n \in Nat
  BY DEF JobRows
<1>2. /\ ClaimedJob(row) \in JobRows
      /\ ClaimedJob(row).kind = row.kind /\ ClaimedJob(row).attempts = n
  BY <1>1 DEF ClaimedJob, JobRows
<1> HIDE DEF n
<1>3. Serial!Later(now + n * n * SecondLength) = Later(now + Backoff(n))
  BY DEF Serial!Later, Later, Backoff
<1>4. Serial!Outcome(row, now) =
        IF row.kind = "supported"
          THEN [row EXCEPT !.status = "succeeded", !.attempts = n]
          ELSE [row EXCEPT !.status = IF n >= MaxAttempts THEN "dead" ELSE "failed",
                           !.attempts = n, !.available = Later(now + Backoff(n))]
  BY <1>3 DEF Serial!Outcome, n
<1>5. Settled(ClaimedJob(row), now) =
        IF row.kind = "supported"
          THEN [ClaimedJob(row) EXCEPT !.status = "succeeded"]
          ELSE [ClaimedJob(row) EXCEPT !.status = IF n >= MaxAttempts THEN "dead" ELSE "failed",
                                       !.available = Later(now + Backoff(n))]
  BY <1>2 DEF Settled
<1>6. ClaimedJob(row) = [row EXCEPT !.status = "running", !.attempts = n]
  BY DEF ClaimedJob, n
<1>7. CASE row.kind = "supported"
  BY <1>4, <1>5, <1>6, <1>7 DEF JobRows
<1>8. CASE row.kind # "supported"
  <2> DEFINE status == IF n >= MaxAttempts THEN "dead" ELSE "failed"
             available == Later(now + Backoff(n))
  <2>1. /\ Serial!Outcome(row, now) =
             [row EXCEPT !.status = status, !.attempts = n, !.available = available]
        /\ Settled(ClaimedJob(row), now) =
             [ClaimedJob(row) EXCEPT !.status = status, !.available = available]
    BY <1>4, <1>5, <1>8
  <2> HIDE DEF status, available
  <2> QED
    BY <1>6, <2>1 DEF JobRows
<1> QED
  BY <1>7, <1>8

\* The commit of a pass is the pass, at the instant the worker read.
LEMMA CommitOfPass ==
  ASSUME IInv, NEW p \in Processes, Commit(p), writer = p, tx[p].step = "claimed"
  PROVE  \E expired \in SUBSET Tasks, attempted \in SUBSET Jobs :
           Serial!Pass(expired, attempted, tx[p].now)
<1> DEFINE now == tx[p].now
           expired == {t \in Tasks : view[p].tasks[t] # tasks[t]}
           attempted == {j \in Jobs : view[p].jobs[j] # jobs[j]}
<1>1. /\ jobs' = view[p].jobs /\ tasks' = view[p].tasks /\ clock' = clock
      /\ tx[p].todo = {}
  BY DEF Commit, IsDone, Ends
<1>2. /\ now \in Times
      /\ jobs \in [Jobs -> JobRows] /\ tasks \in [Tasks -> TaskRows]
      /\ jobs' \in [Jobs -> JobRows] /\ tasks' \in [Tasks -> TaskRows]
  BY <1>1 DEF IInv, TypeOK, Tables, DatabaseStates
<1>3. \A t \in Tasks : \/ tasks'[t] = tasks[t]
                        \/ /\ t \in Overdue(Tables, now)
                           /\ tasks'[t] = ExpiredTask(tasks[t], now)
  BY <1>1, IdsAssumption DEF IInv, PassInProgress
<1>4. \A j \in Jobs : \/ jobs'[j] = jobs[j]
                       \/ /\ j \in Claimable(Tables, now)
                          /\ jobs'[j] = Settled(ClaimedJob(jobs[j]), now)
  BY <1>1, IdsAssumption DEF IInv, PassInProgress
<1>5. \A t \in expired : tasks[t].status = "pending" /\ Serial!IsDue(tasks[t].expires, now)
  <2>1. \A t \in expired : /\ tasks[t].status = "pending"
                            /\ ~IsTextBefore(now, tasks[t].expires)
    BY <1>1, <1>3 DEF Overdue, Tables
  <2>2. now \in Nat /\ \A t \in Tasks : tasks[t].expires \in Nat
    BY <1>2 DEF TaskRows, Times
  <2> HIDE DEF now, expired
  <2>3. expired \subseteq Tasks
    BY DEF expired
  <2> QED
    BY <2>1, <2>2, <2>3, TextsKeepSeconds DEF Serial!IsDue, IsInSecondOf, Second, Fraction
<1>6. \A j \in attempted : /\ jobs[j].status \in {"pending", "failed"}
                            /\ Serial!IsDue(jobs[j].available, now)
  <2>1. \A j \in attempted : /\ jobs[j].status \in {"pending", "failed"}
                              /\ ~IsTextBefore(now, jobs[j].available)
    BY <1>1, <1>4 DEF Claimable, Tables
  <2>2. now \in Nat /\ \A j \in Jobs : jobs[j].available \in Nat
    BY <1>2 DEF JobRows, Times
  <2> HIDE DEF now, attempted
  <2>3. attempted \subseteq Jobs
    BY DEF attempted
  <2> QED
    BY <2>1, <2>2, <2>3, TextsKeepSeconds DEF Serial!IsDue, IsInSecondOf, Second, Fraction
<1>7. tasks' = [t \in Tasks |-> IF t \in expired
                                  THEN [tasks[t] EXCEPT !.status = "expired", !.resolved = now]
                                  ELSE tasks[t]]
  BY <1>1, <1>2, <1>3 DEF ExpiredTask
<1>8. \A j \in Jobs : jobs'[j] = IF j \in attempted THEN Serial!Outcome(jobs[j], now) ELSE jobs[j]
  <2>1. \A j \in Jobs : Settled(ClaimedJob(jobs[j]), now) = Serial!Outcome(jobs[j], now)
    BY <1>2, OutcomeIsSettled
  <2> QED
    BY <1>1, <1>4, <2>1
<1>9. jobs' = [j \in Jobs |-> IF j \in attempted THEN Serial!Outcome(jobs[j], now) ELSE jobs[j]]
  BY <1>2, <1>8
<1>10. Serial!Pass(expired, attempted, now)
  BY <1>1, <1>5, <1>6, <1>7, <1>9 DEF Serial!Pass
<1> QED
  BY <1>10

\* The commit of a request is the request, at the instant it read.
LEMMA CommitOfRequest ==
  ASSUME IInv, NEW p \in Processes, Commit(p), writer = p, tx[p].step # "claimed"
  PROVE  \/ \E j \in Jobs, kind \in {"supported", "unsupported"} :
              Serial!Enqueue(j, kind, tx[p].now)
         \/ \E t \in Tasks, r \in Runs : Serial!Ask(t, r, tx[p].now)
         \/ \E t \in Tasks, verdict \in {"accepted", "rejected"} :
              Serial!Answer(t, verdict, tx[p].now)
<1> DEFINE now == tx[p].now
<1>1. /\ jobs' = view[p].jobs /\ tasks' = view[p].tasks /\ clock' = clock
      /\ tx[p].step \in {"enqueued", "asked", "answered"}
      /\ RequestInProgress(p)
  BY IdsAssumption DEF Commit, IsDone, Ends, IInv
<1>2. /\ jobs \in [Jobs -> JobRows] /\ tasks \in [Tasks -> TaskRows]
  BY DEF IInv, TypeOK, Tables, DatabaseStates
<1>3. CASE tx[p].step = "enqueued"
  <2>1. PICK j \in Jobs, kind \in Kinds :
          jobs[j] = NoJob /\ jobs' = [jobs EXCEPT ![j] = NewJob(kind, now)]
    BY <1>1, <1>3 DEF RequestInProgress, EnqueueInProgress
  <2>2. tasks' = tasks
    BY <1>1, <1>3 DEF RequestInProgress, EnqueueInProgress
  <2>3. Serial!Enqueue(j, kind, now)
    BY <1>1, <2>1, <2>2 DEF Serial!Enqueue, NewJob, NoJob
  <2> QED
    BY <2>3 DEF Kinds
<1>4. CASE tx[p].step = "asked"
  <2>1. PICK t \in Tasks, r \in Runs :
          /\ tasks[t] = NoTask /\ ~HasPending(Tables, r)
          /\ tasks' = [tasks EXCEPT ![t] = NewTask(r, now)]
    BY <1>1, <1>4 DEF RequestInProgress, AskInProgress
  <2>2. jobs' = jobs
    BY <1>1, <1>4 DEF RequestInProgress, AskInProgress
  <2>3. Serial!Later(now + Lifetime) = Later(now + Lifetime)
    BY DEF Serial!Later, Later
  <2>4. \A u \in Tasks : tasks[u].run = r => tasks[u].status # "pending"
    BY <2>1 DEF HasPending, Tables
  <2>5. NewTask(r, now) = [status |-> "pending", run |-> r,
                           expires |-> Serial!Later(now + Lifetime), resolved |-> 0]
    BY <2>3 DEF NewTask
  <2>6. tasks[t].status = "none" /\ UNCHANGED <<clock, jobs>>
    BY <1>1, <2>1, <2>2 DEF NoTask
  <2> HIDE DEF now
  <2>7. Serial!Ask(t, r, now)
    BY <2>1, <2>4, <2>5, <2>6 DEF Serial!Ask
  <2> QED
    BY <2>7 DEF now
<1>5. CASE tx[p].step = "answered"
  <2>1. PICK t \in Tasks, verdict \in Verdicts :
          /\ IsAnswerable(tasks[t], now)
          /\ tasks' = [tasks EXCEPT ![t] = AnsweredTask(@, verdict, now)]
    BY <1>1, <1>5 DEF RequestInProgress, AnswerInProgress
  <2>2. jobs' = jobs
    BY <1>1, <1>5 DEF RequestInProgress, AnswerInProgress
  <2>3. tasks' = [tasks EXCEPT ![t].status = verdict, ![t].resolved = now]
    BY <1>2, <2>1 DEF AnsweredTask
  <2>4. Serial!Answer(t, verdict, now)
    BY <1>1, <2>1, <2>2, <2>3 DEF Serial!Answer, IsAnswerable
  <2> QED
    BY <2>4 DEF Verdicts
<1> QED
  BY <1>1, <1>3, <1>4, <1>5

LEMMA InitActsSerially == Init => Serial!Init
BY DEF Init, NoTables, NoJob, NoTask, Null, Serial!Init

\* Only the commit of the writer and the clock change what the tables and the clock say.
LEMMA StepActsSerially == IInv /\ [Next]_vars => [Serial!Next]_Serial!vars
<1> SUFFICES ASSUME IInv, [Next]_vars PROVE [Serial!Next]_Serial!vars
  OBVIOUS
<1>1. CASE Tick
  BY <1>1 DEF Tick, IInv, TypeOK, Times, Serial!Next, Serial!Advance
<1>2. ASSUME NEW p \in Processes, Commit(p) PROVE [Serial!Next]_Serial!vars
  <2>1. CASE writer # p
    BY <1>2, <2>1 DEF Commit, Ends, Serial!vars
  <2>2. CASE writer = p
    <3>1. tx[p].now \in 0..clock
      BY DEF IInv, TypeOK, TodoIsFit, Times
    <3> QED
      BY <1>2, <2>2, <3>1, CommitOfPass, CommitOfRequest DEF Serial!Next
  <2> QED
    BY <2>1, <2>2
<1>3. CASE UNCHANGED <<clock, jobs, tasks>>
  BY <1>3 DEF Serial!vars
<1>4. ASSUME NEW p \in Processes, AnswerTooLate(p) \/ Refuse(p) \/ Interrupt(p)
      PROVE  UNCHANGED <<clock, jobs, tasks>>
  BY <1>4 DEF AnswerTooLate, Refuse, Interrupt, Rollback, Ends
<1>5. ASSUME NEW w \in Workers, PassStep(w), ~Commit(w), ~Refuse(w)
      PROVE  UNCHANGED <<clock, jobs, tasks>>
  BY <1>5 DEF PassStep, BeginPass, ReadOverdue, ExpireApprovalTasks, ClaimJobs, ProcessJob,
              Reads, Writes
<1>6. ASSUME NEW c \in Clients, Request(c), ~Commit(c), ~Refuse(c), ~AnswerTooLate(c)
      PROVE  UNCHANGED <<clock, jobs, tasks>>
  BY <1>6 DEF Request, BeginEnqueue, InsertJob, BeginAsk, InsertApprovalTask, BeginAnswer,
              UpdateApprovalTask, Reads, Writes
<1>7. CASE UNCHANGED vars
  BY <1>3, <1>7 DEF vars
<1> QED
  BY <1>1, <1>2, <1>3, <1>4, <1>5, <1>6, <1>7 DEF Next, Processes

\* Interleaved transactions of any number of workers and requests, with refusals and
\* crashes, leave the tables as if each had happened alone (Store.WithTx).
THEOREM ImplementsSerial == Spec => ActsSerially
<1> QED
  BY InitInvariant, NextInvariant, InitActsSerially, StepActsSerially, PTL
     DEF Spec, ActsSerially, Serial!Spec

----------------------------------------------------------------------------
\* What serial steps keep true of the committed tables.

CommittedRows == jobs \in [Jobs -> JobRows] /\ tasks \in [Tasks -> TaskRows]

TablesConsistent == OnePendingPerRun /\ ResolvedToTheSecond /\ JobsAtRest

LEMMA SerialAsk ==
  ASSUME CommittedRows, TablesConsistent, NEW t \in Tasks, NEW r \in Runs, NEW now,
         Serial!Ask(t, r, now)
  PROVE  TablesConsistent'
<1>1. /\ tasks'[t].status = "pending" /\ tasks'[t].run = r
      /\ \A u \in Tasks \ {t} : tasks'[u] = tasks[u]
      /\ jobs' = jobs
  BY DEF Serial!Ask, CommittedRows
<1>2. \A u \in Tasks : tasks[u].run = r => tasks[u].status # "pending"
  BY DEF Serial!Ask
<1>3. OnePendingPerRun'
  BY <1>1, <1>2 DEF TablesConsistent, OnePendingPerRun
<1>4. ResolvedToTheSecond'
  BY <1>1 DEF TablesConsistent, ResolvedToTheSecond, Verdicts
<1>5. JobsAtRest'
  BY <1>1 DEF TablesConsistent, JobsAtRest
<1> QED
  BY <1>3, <1>4, <1>5 DEF TablesConsistent

LEMMA SerialAnswer ==
  ASSUME CommittedRows, TablesConsistent, NEW t \in Tasks, NEW verdict \in Verdicts, NEW now,
         Serial!Answer(t, verdict, now)
  PROVE  TablesConsistent'
<1>1. /\ tasks'[t].status = verdict /\ tasks'[t].resolved = now
      /\ tasks'[t].expires = tasks[t].expires
      /\ \A u \in Tasks \ {t} : tasks'[u] = tasks[u]
      /\ now < tasks[t].expires /\ jobs' = jobs
  BY DEF Serial!Answer, CommittedRows, TaskRows
<1>2. verdict # "pending" /\ verdict # "expired"
  BY DEF Verdicts
<1>3. OnePendingPerRun'
  BY <1>1, <1>2 DEF TablesConsistent, OnePendingPerRun
<1>4. ResolvedToTheSecond'
  BY <1>1, <1>2 DEF TablesConsistent, ResolvedToTheSecond
<1>5. JobsAtRest'
  BY <1>1 DEF TablesConsistent, JobsAtRest
<1> QED
  BY <1>3, <1>4, <1>5 DEF TablesConsistent

LEMMA SerialEnqueue ==
  ASSUME CommittedRows, TablesConsistent, NEW j \in Jobs, NEW kind, NEW now,
         Serial!Enqueue(j, kind, now)
  PROVE  TablesConsistent'
<1>1. /\ jobs'[j].status = "pending" /\ jobs'[j].attempts = 0
      /\ \A i \in Jobs \ {j} : jobs'[i] = jobs[i]
      /\ tasks' = tasks
  BY DEF Serial!Enqueue, CommittedRows
<1>2. OnePendingPerRun' /\ ResolvedToTheSecond'
  BY <1>1 DEF TablesConsistent, OnePendingPerRun, ResolvedToTheSecond
<1>3. JobsAtRest'
  BY <1>1 DEF TablesConsistent, JobsAtRest
<1> QED
  BY <1>2, <1>3 DEF TablesConsistent

\* An attempt ends a job that waits, or counts one more against it.
LEMMA OutcomeAtRest ==
  ASSUME CommittedRows, TablesConsistent, NEW j \in Jobs, NEW now \in Times,
         jobs[j].status \in {"pending", "failed"}
  PROVE  LET row == Serial!Outcome(jobs[j], now) IN
         /\ row.status \in {"succeeded", "failed", "dead"}
         /\ row.attempts \in 1..MaxAttempts
         /\ row.status = "failed" => row.attempts < MaxAttempts
         /\ row.status = "dead" => row.attempts = MaxAttempts
<1> DEFINE n == jobs[j].attempts + 1
           row == Serial!Outcome(jobs[j], now)
<1>1. jobs[j] \in JobRows
  BY DEF CommittedRows
<1>2. n \in 1..MaxAttempts
  BY <1>1, BoundsAssumption DEF TablesConsistent, JobsAtRest, JobRows
<1>3. CASE jobs[j].kind = "supported"
  <2>1. row.status = "succeeded" /\ row.attempts = n
    BY <1>1, <1>3 DEF Serial!Outcome, JobRows
  <2> QED
    BY <1>2, <2>1
<1>4. CASE jobs[j].kind # "supported"
  <2>1. /\ row.status = IF n >= MaxAttempts THEN "dead" ELSE "failed"
        /\ row.attempts = n
    BY <1>1, <1>4 DEF Serial!Outcome, JobRows
  <2> HIDE DEF row, n
  <2> QED
    BY <1>2, <2>1, BoundsAssumption DEF row
<1> QED
  BY <1>3, <1>4

LEMMA SerialPass ==
  ASSUME CommittedRows, TablesConsistent, NEW expired \in SUBSET Tasks,
         NEW attempted \in SUBSET Jobs, NEW now \in Times, Serial!Pass(expired, attempted, now)
  PROVE  TablesConsistent'
<1>1. /\ \A t \in expired : /\ tasks'[t].status = "expired" /\ tasks'[t].resolved = now
                             /\ tasks'[t].expires = tasks[t].expires
      /\ \A t \in Tasks \ expired : tasks'[t] = tasks[t]
  BY DEF Serial!Pass, CommittedRows, TaskRows
<1>2. /\ \A j \in attempted : /\ jobs[j].status \in {"pending", "failed"}
                               /\ jobs'[j] = Serial!Outcome(jobs[j], now)
      /\ \A j \in Jobs \ attempted : jobs'[j] = jobs[j]
  BY DEF Serial!Pass
<1>3. OnePendingPerRun'
  BY <1>1 DEF TablesConsistent, OnePendingPerRun
<1>4. ResolvedToTheSecond'
  <2> SUFFICES ASSUME NEW t \in Tasks
               PROVE  /\ tasks'[t].status \in Verdicts => tasks'[t].resolved < tasks'[t].expires
                      /\ tasks'[t].status = "expired" =>
                           \/ tasks'[t].expires <= tasks'[t].resolved
                           \/ IsInSecondOf(tasks'[t].expires, tasks'[t].resolved)
    BY Zenon DEF ResolvedToTheSecond
  <2>1. CASE t \in expired
    <3>1. /\ tasks'[t].status = "expired" /\ tasks'[t].resolved = now
          /\ tasks'[t].expires = tasks[t].expires
      BY <1>1, <2>1
    <3>2. tasks[t].expires <= now \/ IsInSecondOf(tasks[t].expires, now)
      BY <2>1, Zenon DEF Serial!Pass, Serial!IsDue, IsInSecondOf, Second, Fraction
    <3>3. "expired" \notin Verdicts
      BY DEF Verdicts
    <3> QED
      BY <3>1, <3>2, <3>3, Zenon
  <2>2. CASE t \notin expired
    BY <1>1, <2>2 DEF TablesConsistent, ResolvedToTheSecond
  <2> QED
    BY <2>1, <2>2
<1>5. JobsAtRest'
  <2> SUFFICES ASSUME NEW j \in Jobs
               PROVE  /\ jobs'[j].status # "running"
                      /\ jobs'[j].status = "pending" => jobs'[j].attempts = 0
                      /\ jobs'[j].status = "failed" => jobs'[j].attempts \in 1..(MaxAttempts - 1)
                      /\ jobs'[j].status = "dead" => jobs'[j].attempts = MaxAttempts
                      /\ jobs'[j].status = "succeeded" => jobs'[j].attempts \in 1..MaxAttempts
    BY DEF JobsAtRest
  <2>1. CASE j \in attempted
    <3> DEFINE row == Serial!Outcome(jobs[j], now)
    <3>1. /\ row.status \in {"succeeded", "failed", "dead"}
          /\ row.attempts \in 1..MaxAttempts
          /\ row.status = "failed" => row.attempts < MaxAttempts
          /\ row.status = "dead" => row.attempts = MaxAttempts
      BY <1>2, <2>1, OutcomeAtRest
    <3>2. jobs'[j] = row
      BY <1>2, <2>1
    <3> HIDE DEF row
    <3> QED
      BY <3>1, <3>2, BoundsAssumption
  <2>2. CASE j \notin attempted
    BY <1>2, <2>2 DEF TablesConsistent, JobsAtRest
  <2> QED
    BY <2>1, <2>2
<1> QED
  BY <1>3, <1>4, <1>5 DEF TablesConsistent

LEMMA InitConsistent == Init => TablesConsistent
BY DEF Init, NoTables, NoJob, NoTask, TablesConsistent, OnePendingPerRun, ResolvedToTheSecond,
       JobsAtRest, Verdicts

LEMMA NextConsistent == IInv /\ TablesConsistent /\ [Next]_vars => TablesConsistent'
<1> SUFFICES ASSUME IInv, TablesConsistent, [Next]_vars PROVE TablesConsistent'
  OBVIOUS
<1>1. CommittedRows /\ clock \in Times
  BY DEF IInv, TypeOK, Tables, DatabaseStates, CommittedRows
<1>2. CASE Serial!Advance \/ UNCHANGED Serial!vars
  <2>1. jobs' = jobs /\ tasks' = tasks
    BY <1>2 DEF Serial!Advance, Serial!vars
  <2> QED
    BY <2>1 DEF TablesConsistent, OnePendingPerRun, ResolvedToTheSecond, JobsAtRest
<1>3. \A now \in 0..clock : now \in Times
  BY <1>1, BoundsAssumption DEF Times
<1>4. CASE Serial!Next
  BY <1>1, <1>2, <1>3, <1>4, SerialAsk, SerialAnswer, SerialEnqueue, SerialPass
     DEF Serial!Next, Verdicts
<1> QED
  BY <1>2, <1>4, StepActsSerially

LEMMA ConsistencyHolds == Spec => []TablesConsistent
<1> QED
  BY InitInvariant, NextInvariant, InitConsistent, NextConsistent, PTL DEF Spec

\* However requests and passes interleave, a run has one waiting approval task at most
\* (CreateApprovalTask).
THEOREM OnePending == Spec => []OnePendingPerRun
<1>1. TablesConsistent => OnePendingPerRun
  BY DEF TablesConsistent
<1> QED
  BY <1>1, ConsistencyHolds, PTL

\* A verdict is dated before the deadline, and an expiry is so only within the second of a
\* deadline with a fraction, however many instants a second has and however the texts of
\* its fractions sort (ApprovalTask.Resolve, ExpireApprovalTasks).
THEOREM DatedToTheSecond == Spec => []ResolvedToTheSecond
<1>1. TablesConsistent => ResolvedToTheSecond
  BY DEF TablesConsistent
<1> QED
  BY <1>1, ConsistencyHolds, PTL

\* No job is ever left claimed, and none is attempted more often than it may (RunOnce).
THEOREM NoForgottenJob == Spec => []JobsAtRest
<1>1. TablesConsistent => JobsAtRest
  BY DEF TablesConsistent
<1> QED
  BY <1>1, ConsistencyHolds, PTL

LEMMA StepKeepsResolved ==
  IInv /\ [Next]_vars =>
    \A t \in Tasks : tasks[t].status \in {"expired"} \cup Verdicts => tasks'[t] = tasks[t]
<1> SUFFICES ASSUME IInv, [Next]_vars, NEW t \in Tasks,
                    tasks[t].status \in {"expired"} \cup Verdicts
             PROVE  tasks'[t] = tasks[t]
  OBVIOUS
<1>1. CommittedRows
  BY DEF IInv, TypeOK, Tables, DatabaseStates, CommittedRows
<1>2. tasks[t].status \notin {"none", "pending"}
  BY DEF Verdicts
<1>3. ASSUME NEW u \in Tasks, NEW r, NEW now, Serial!Ask(u, r, now) PROVE tasks'[t] = tasks[t]
  BY <1>1, <1>2, <1>3 DEF Serial!Ask, CommittedRows
<1>4. ASSUME NEW u \in Tasks, NEW verdict, NEW now, Serial!Answer(u, verdict, now)
      PROVE  tasks'[t] = tasks[t]
  BY <1>1, <1>2, <1>4 DEF Serial!Answer, CommittedRows
<1>5. ASSUME NEW expired, NEW attempted, NEW now, Serial!Pass(expired, attempted, now)
      PROVE  tasks'[t] = tasks[t]
  BY <1>2, <1>5 DEF Serial!Pass
<1>6. CASE tasks' = tasks
  BY <1>6
<1> QED
  BY <1>3, <1>4, <1>5, <1>6, StepActsSerially
     DEF Serial!Next, Serial!vars, Serial!Advance, Serial!Enqueue

\* A task that is answered or expired never changes again, whoever else was at work on it
\* (ExpireApprovalTasks, ResolveApprovalTask).
THEOREM ResolutionStands == Spec => ResolutionIsFinal
<1>1. IInv /\ [Next]_vars =>
        [\A t \in Tasks : tasks[t].status \in {"expired"} \cup Verdicts => tasks'[t] = tasks[t]]_vars
  BY StepKeepsResolved
<1> QED
  BY <1>1, InitInvariant, NextInvariant, PTL DEF Spec, ResolutionIsFinal
=============================================================================
