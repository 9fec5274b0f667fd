---------------------------- MODULE SerialOutbox ----------------------------
(***************************************************************************)
(* What the outbox and the approval tasks promise, with nothing said of    *)
(* transactions, snapshots or locks: every request and every pass of a     *)
(* worker happens in one instant of the tables, dated by a reading of the  *)
(* clock that may be old but is never ahead of time.                       *)
(***************************************************************************)
EXTENDS Integers

CONSTANTS
  Jobs, Tasks, Runs,
  MaxAttempts,  \* attempts a job gets
  Lifetime,     \* how long an approval task may be answered
  SecondLength, \* instants in a second, which is how closely a deadline is kept
  MaxTime       \* the last instant, which stands for all later ones

VARIABLES clock, jobs, tasks

vars == <<clock, jobs, tasks>>

Later(t) == IF t > MaxTime THEN MaxTime ELSE t

Init ==
  /\ clock = 0
  /\ jobs = [j \in Jobs |-> [status |-> "none", kind |-> "none", attempts |-> 0,
                             available |-> 0, created |-> 0]]
  /\ tasks = [t \in Tasks |-> [status |-> "none", run |-> 0, expires |-> 0, resolved |-> 0]]

Advance ==
  /\ clock' > clock
  /\ UNCHANGED <<jobs, tasks>>

Enqueue(j, kind, now) ==
  /\ jobs[j].status = "none"
  /\ jobs' = [jobs EXCEPT ![j] = [status |-> "pending", kind |-> kind, attempts |-> 0,
                                  available |-> now, created |-> now]]
  /\ UNCHANGED <<clock, tasks>>

Ask(t, r, now) ==
  /\ tasks[t].status = "none"
  /\ \A u \in Tasks : tasks[u].run = r => tasks[u].status # "pending"
  /\ tasks' = [tasks EXCEPT ![t] = [status |-> "pending", run |-> r,
                                    expires |-> Later(now + Lifetime), resolved |-> 0]]
  /\ UNCHANGED <<clock, jobs>>

Answer(t, verdict, now) ==
  /\ tasks[t].status = "pending"
  /\ now < tasks[t].expires
  /\ tasks' = [tasks EXCEPT ![t].status = verdict, ![t].resolved = now]
  /\ UNCHANGED <<clock, jobs>>

\* What one attempt makes of a job.
Outcome(row, now) ==
  LET attempt == row.attempts + 1 IN
  IF row.kind = "supported"
    THEN [row EXCEPT !.status = "succeeded", !.attempts = attempt]
    ELSE [row EXCEPT !.status = IF attempt >= MaxAttempts THEN "dead" ELSE "failed",
                     !.attempts = attempt,
                     !.available = Later(now + attempt * attempt * SecondLength)]

\* The instant at has come, or it has a fraction and its second has come.
IsDue(at, now) ==
  \/ at <= now
  \/ at \div SecondLength = now \div SecondLength /\ at % SecondLength # 0

\* A pass of a worker: some overdue tasks expire, some due jobs are attempted once.
Pass(expired, attempted, now) ==
  /\ \A t \in expired : tasks[t].status = "pending" /\ IsDue(tasks[t].expires, now)
  /\ \A j \in attempted : /\ jobs[j].status \in {"pending", "failed"}
                          /\ IsDue(jobs[j].available, now)
  /\ tasks' = [t \in Tasks |-> IF t \in expired
                                 THEN [tasks[t] EXCEPT !.status = "expired", !.resolved = now]
                                 ELSE tasks[t]]
  /\ jobs' = [j \in Jobs |-> IF j \in attempted THEN Outcome(jobs[j], now) ELSE jobs[j]]
  /\ UNCHANGED clock

Next ==
  \/ Advance
  \/ \E now \in 0..clock :
       \/ \E j \in Jobs, kind \in {"supported", "unsupported"} : Enqueue(j, kind, now)
       \/ \E t \in Tasks, r \in Runs : Ask(t, r, now)
       \/ \E t \in Tasks, verdict \in {"accepted", "rejected"} : Answer(t, verdict, now)
       \/ \E expired \in SUBSET Tasks, attempted \in SUBSET Jobs :
            Pass(expired, attempted, now)

Spec == Init /\ [][Next]_vars
=============================================================================
