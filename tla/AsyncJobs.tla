----------------------------- MODULE AsyncJobs -----------------------------
(***************************************************************************)
(* The durable job queue of the West Pocket service (worker.go):           *)
(* runNextJob claims a due or abandoned row of async_job under a lease,    *)
(* tries the advisory lock of the job's pocket or face profile, runs the   *)
(* job, and finishJob records the outcome if the lease is still its own.   *)
(*                                                                         *)
(* A lease is identified by its worker: every claim draws a fresh UUID,    *)
(* and a worker that lost its lease never finishes under the UUID of a     *)
(* later claim, because it works on one job at a time.  Due times are not  *)
(* modelled: any queued job may be due.                                    *)
(*                                                                         *)
(* Faults: a worker may die (Crash); with Stalls it may also be held up so *)
(* long that its heartbeat misses the lease, or lose the database session  *)
(* that holds the advisory lock, and still carry on afterwards.            *)
(***************************************************************************)
EXTENDS Integers

CONSTANTS Workers,      \* job workers, over all replicas of the service
          NoWorker,     \* no lease owner / no lock holder
          JobIds,       \* rows of async_job, by dedupe_key
          LockOf,       \* LockOf[j]: the pocket or the profile that job j locks
          Privacy,      \* jobs that must not give up (privacy in finishJob)
          MaxAttempts,  \* attempts after which finishJob gives up (5)
          MaxFaults,    \* bound: faults injected in one behaviour
          Stalls        \* TRUE: a worker may outlive its lease and its lock

ASSUME AsyncJobsAssumption ==
  /\ NoWorker \notin Workers
  /\ DOMAIN LockOf = JobIds
  /\ Privacy \subseteq JobIds
  /\ MaxAttempts \in Nat \ {0}
  /\ MaxFaults \in Nat
  /\ Stalls \in BOOLEAN

VARIABLES jobs,         \* jobs[j]: the row of async_job with key j
          work,         \* work[w]: what worker w is doing
          jobLock,      \* jobLock[l]: holder of the session advisory lock l
          faults        \* faults so far

jobVars == <<jobs, work, jobLock, faults>>

Locks == {LockOf[j] : j \in JobIds}

JobStatuses == {"none", "queued", "running", "succeeded", "failed"}

JobRow == [status : JobStatuses, attempt : 0..(MaxAttempts + 1),
           lease_owner : Workers \cup {NoWorker}, expired : BOOLEAN]

NoJob == [status |-> "none", attempt |-> 0, lease_owner |-> NoWorker, expired |-> FALSE]

NewJob == [NoJob EXCEPT !.status = "queued"]

\* The outcomes finishJob tells apart: success, an error worth a retry, and
\* FailedPrecondition or InvalidArgument.
Verdicts == {"ok", "retry", "terminal"}

IdleWorker == [pc |-> "idle", job |-> CHOOSE j \in JobIds : TRUE, left |-> {}, verdict |-> "ok"]

\* Worker w goes to step pc of its job.
Goto(w, pc) == work' = [work EXCEPT ![w].pc = pc]

\* Worker w is done with its job, with the given outcome.
Return(w, verdict) == work' = [work EXCEPT ![w].pc = "finish", ![w].verdict = verdict]

\* Worker w executes the handler of a job: neither idle nor before the lock.
Running(w) == work[w].pc \notin {"idle", "claimed"}

\* Something goes wrong.  Faults are counted only to bound them.
Fault == faults < MaxFaults /\ faults' = faults + 1

-----------------------------------------------------------------------------
\* queue: INSERT ... ON CONFLICT (dedupe_key), which leaves an existing row alone.
Queued(rows, j) == [rows EXCEPT ![j] = IF @.status = "none" THEN NewJob ELSE @]

Queue(j) == jobs' = Queued(jobs, j)

\* Retry: a job that gave up starts again; its last lease stays in the row.
Retried(j) == [jobs EXCEPT ![j] = [@ EXCEPT !.status = "queued", !.attempt = 0, !.expired = FALSE]]

\* attempt_count + 1.  finishJob only compares it with MaxAttempts, so counts
\* beyond MaxAttempts + 1 are not told apart.
NextAttempt(n) == IF n > MaxAttempts THEN n ELSE n + 1

\* Mutant of Claimable: a job whose worker died is not taken over.
ClaimableQueuedOnly(j) == jobs[j].status = "queued"

Claimable(j) == \/ jobs[j].status = "queued"
                \/ jobs[j].status = "running" /\ jobs[j].expired

\* runNextJob: the claiming UPDATE.
ClaimJob(w, j) ==
  /\ work[w].pc = "idle"
  /\ Claimable(j)
  /\ jobs' = [jobs EXCEPT ![j] = [status |-> "running", attempt |-> NextAttempt(@.attempt),
                                  lease_owner |-> w, expired |-> FALSE]]
  /\ work' = [work EXCEPT ![w].pc = "claimed", ![w].job = j]
  /\ UNCHANGED <<jobLock, faults>>

\* runNextJob: pg_try_advisory_lock.  If another worker holds the lock the job
\* goes back to the queue and the attempt is not counted.
TryLock(w) ==
  /\ work[w].pc = "claimed"
  /\ LET j == work[w].job
         l == LockOf[j]
     IN \/ /\ jobLock[l] = NoWorker
           /\ jobLock' = [jobLock EXCEPT ![l] = w]
           /\ Goto(w, "start")
           /\ UNCHANGED jobs
        \/ /\ jobLock[l] # NoWorker
           /\ jobs' = IF jobs[j].lease_owner = w
                      THEN [jobs EXCEPT ![j].status = "queued",
                                        ![j].attempt = @ - 1,
                                        ![j].expired = FALSE]
                      ELSE jobs
           /\ work' = [work EXCEPT ![w] = IdleWorker]
           /\ UNCHANGED jobLock
  /\ UNCHANGED faults

\* Mutant of FinalStatus: an error that is not worth a retry ends the job as done.
FinalStatusAnyOk(j, verdict, n) ==
  IF verdict = "retry" THEN (IF n >= MaxAttempts THEN "failed" ELSE "queued") ELSE "succeeded"

\* Mutant of FinalStatus: deletions give up like every other job.
FinalStatusNoPrivacy(j, verdict, n) ==
  IF verdict = "ok" THEN "succeeded"
  ELSE IF verdict = "terminal" \/ n >= MaxAttempts THEN "failed" ELSE "queued"

\* What finishJob writes for the outcome of the n-th attempt at job j.
FinalStatus(j, verdict, n) ==
  IF verdict = "ok" THEN "succeeded"
  ELSE IF j \notin Privacy /\ (verdict = "terminal" \/ n >= MaxAttempts)
       THEN "failed" ELSE "queued"

\* finishJob: the UPDATE of the job of worker w, fenced by lease_owner.
Fenced(w) == jobs[work[w].job].lease_owner = w

JobOutcome(w) == FinalStatus(work[w].job, work[w].verdict, jobs[work[w].job].attempt)

FinishedRows(w) ==
  IF Fenced(w)
  THEN [jobs EXCEPT ![work[w].job] = [@ EXCEPT !.status = JobOutcome(w), !.expired = FALSE]]
  ELSE jobs

\* Session locks that are left when worker w unlocks, or loses its session.
ReleasedBy(w) == [l \in Locks |-> IF jobLock[l] = w THEN NoWorker ELSE jobLock[l]]

\* finishJob and the deferred pg_advisory_unlock.
FinishJob(w) ==
  /\ work[w].pc = "finish"
  /\ jobs' = FinishedRows(w)
  /\ work' = [work EXCEPT ![w] = IdleWorker]
  /\ jobLock' = ReleasedBy(w)
  /\ UNCHANGED faults

\* The process of worker w dies, its database session with it.  An error
\* between the claim and the lock, or in finishJob itself, has the same
\* effect: the row stays "running" until its lease expires.
CrashWorker(w) ==
  /\ work[w].pc # "idle"
  /\ Fault
  /\ work' = [work EXCEPT ![w] = IdleWorker]
  /\ jobLock' = ReleasedBy(w)
  /\ UNCHANGED jobs

\* Worker w is at work under the lease of job j and its heartbeat renews it.
HeldBy(w, j) == work[w].pc # "idle" /\ work[w].job = j /\ jobs[j].lease_owner = w

\* Two minutes without a heartbeat.
LeaseExpires(j) ==
  /\ jobs[j].status = "running" /\ ~jobs[j].expired
  /\ \/ (~\E w \in Workers : HeldBy(w, j)) /\ UNCHANGED faults
     \/ Stalls /\ (\E w \in Workers : HeldBy(w, j)) /\ Fault
  /\ jobs' = [jobs EXCEPT ![j].expired = TRUE]
  /\ UNCHANGED <<work, jobLock>>

\* The session that holds an advisory lock breaks while its worker lives on.
SessionLost ==
  /\ Stalls
  /\ Fault
  /\ \E l \in Locks : /\ jobLock[l] # NoWorker
                      /\ jobLock' = [jobLock EXCEPT ![l] = NoWorker]
  /\ UNCHANGED <<jobs, work>>

JobsInit ==
  /\ jobs = [j \in JobIds |-> NoJob]
  /\ work = [w \in Workers |-> IdleWorker]
  /\ jobLock = [l \in Locks |-> NoWorker]
  /\ faults = 0
=============================================================================
