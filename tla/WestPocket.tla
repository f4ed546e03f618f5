----------------------------- MODULE WestPocket -----------------------------
(***************************************************************************)
(* One West Pocket collection: the pocket of the West Pocket service, its  *)
(* publish and cancel jobs, its notifications, and its bills in the        *)
(* payment service, with everybody acting at once.                         *)
(*                                                                         *)
(*   the owner     edits, publishes, cancels, retries failed jobs, reminds *)
(*   workers       run the jobs (AsyncJobs) and call the payment service   *)
(*   the payment service   opens and cancels bills (WestPocketBilling)     *)
(*   members and owner     pay, confirm, send back (PaymentBill)           *)
(*   Refresh       copies bill statuses back and settles the pocket        *)
(*   senders       deliver the outbox (WestPocketOutbox)                   *)
(*                                                                         *)
(* Status: draft -> publishing -> collecting -> settled, and from each of  *)
(* the first three (cancelling ->) cancelled; a cancellation that meets a  *)
(* payment goes back from cancelling to collecting.                        *)
(***************************************************************************)
EXTENDS WestPocketBilling, AsyncJobs, WestPocketOutbox

CONSTANTS MaxRevision,  \* bound: owner operations stop at this revision
          MaxRefreshes  \* bound: Refresh calls at one time

\* Row 0 of the job table is "publish:<id>", row r the job "cancel:<id>:<r>"; all
\* of them run under the lock of the pocket.
ASSUME WestPocketAssumption ==
  /\ Callers = Workers /\ Nobody = NoWorker
  /\ MaxRevision \in Nat /\ JobIds = 0..MaxRevision
  /\ \A i, j \in JobIds : LockOf[i] = LockOf[j]
  /\ MaxRefreshes \in Nat
  /\ Payers \subseteq Nat \ {0} /\ Owner = 0
  /\ Recipients \subseteq Payers \cup {Owner}

VARIABLES status,       \* pocket.status
          revision,     \* pocket.revision
          members,      \* the participants other than the owner
          view,         \* what the owner last read: revision and members
          linked,       \* members whose payment_bill_id is set
          mirror,       \* mirror[p]: pocket_member.bill_status
          refreshes,    \* Refresh calls in progress
          crossed       \* history, for CollectingIsPayable alone: two cancel calls of
                        \* the collection have crossed (RevertCrosses, CloseCrosses)

pocketVars == <<status, revision, members, view, linked, mirror, refreshes, crossed>>

vars == <<billVars, callVars, jobVars, noteVars, pocketVars>>

RefreshCall ==
  [stage : {"read", "fetched"}, status : {"collecting", "settled"}, ids : SUBSET Payers,
   todo : SUBSET Payers, snap : [Payers -> BillStatuses \cup {"none"}]]

\* The member a loop over members ordered by user id takes next.
IsFirst(p, S) == p \in S /\ \A q \in S : p <= q

-----------------------------------------------------------------------------
(* The owner.  An operation carries the revision the owner read; the       *)
(* transaction refuses it if the pocket has moved on (pocketTx).           *)

OwnerReads ==
  /\ view' = [revision |-> revision, members |-> members]
  /\ UNCHANGED <<billVars, callVars, jobVars, noteVars>>
  /\ UNCHANGED <<status, revision, members, linked, mirror, refreshes, crossed>>

\* pocketTx: the owner's request was made for this revision.
Current == view.revision = revision

\* ReplaceMembers (and Update, which changes no member), from any session of
\* the owner.
ReplaceMembers(M) ==
  /\ status = "draft"
  /\ revision < MaxRevision
  /\ members' = M
  /\ revision' = revision + 1
  /\ UNCHANGED <<billVars, callVars, jobVars, noteVars>>
  /\ UNCHANGED <<status, view, linked, mirror, refreshes, crossed>>

\* Publish: amounts and members are frozen and the publish job is queued.
\* Split refuses a pocket with nobody but the owner in it.
Publish ==
  /\ status = "draft"
  /\ Current
  /\ members # {}
  /\ revision < MaxRevision
  /\ status' = "publishing"
  /\ revision' = revision + 1
  /\ Queue(0)
  /\ UNCHANGED <<billVars, callVars, noteVars, work, jobLock, faults>>
  /\ UNCHANGED <<members, view, linked, mirror, refreshes, crossed>>

\* Cancel: a draft is cancelled on the spot, a published pocket by a job.
Cancel ==
  /\ status \notin {"settled", "cancelled", "cancelling"}
  /\ Current
  /\ revision < MaxRevision
  /\ revision' = revision + 1
  /\ \/ /\ status = "draft"
        /\ status' = "cancelled"
        /\ UNCHANGED jobs
     \/ /\ status # "draft"
        /\ status' = "cancelling"
        /\ Queue(revision + 1)
  /\ UNCHANGED <<billVars, callVars, noteVars, work, jobLock, faults>>
  /\ UNCHANGED <<members, view, linked, mirror, refreshes, crossed>>

\* Retry, with retryAllowed: the pocket still waits for this kind of job.
Retry(j) ==
  /\ jobs[j].status = "failed"
  /\ status = IF j = 0 THEN "publishing" ELSE "cancelling"
  /\ jobs' = Retried(j)
  /\ UNCHANGED <<billVars, callVars, noteVars, pocketVars, work, jobLock, faults>>

\* Remind: members whose bill_status is unpaid are notified again.
Remind(S) ==
  /\ status = "collecting"
  /\ S # {} /\ S \subseteq {p \in members : mirror[p] = "unpaid"}
  /\ \A p \in S : CanRemind(p)
  /\ notes' = Reminded(S)
  /\ UNCHANGED <<billVars, callVars, jobVars, pocketVars, sends>>

-----------------------------------------------------------------------------
(* The jobs.                                                               *)

\* publishJob reads the pocket and its members.
PublishStart(w) ==
  /\ work[w].pc = "start" /\ work[w].job = 0
  /\ IF status = "publishing"
     THEN work' = [work EXCEPT ![w].pc = "publish", ![w].left = members]
     ELSE Return(w, "ok")
  /\ UNCHANGED <<billVars, callVars, noteVars, pocketVars, jobs, jobLock, faults>>

\* publishJob, next member: read the status again and call the payment service.
PublishNext(w, p) ==
  /\ work[w].pc = "publish"
  /\ IsFirst(p, work[w].left)
  /\ IF status = "publishing"
     THEN Send("create", p, w) /\ Goto(w, "publish_wait")
     ELSE Return(w, "ok") /\ UNCHANGED calls
  /\ UNCHANGED <<billVars, body, reply, noteVars, pocketVars, jobs, jobLock, faults>>

\* Mutant of PublishSave: a member whose bill could not be opened is skipped.
PublishSaveSkips(w, p) ==
  /\ work[w].pc = "publish_wait"
  /\ IsFirst(p, work[w].left)
  /\ reply[w] # "none"
  /\ reply' = [reply EXCEPT ![w] = "none"]
  /\ linked' = IF reply[w] \in BillStatuses THEN linked \cup {p} ELSE linked
  /\ work' = [work EXCEPT ![w].pc = "publish", ![w].left = @ \ {p}]
  /\ UNCHANGED <<billVars, calls, body, noteVars, jobs, jobLock, faults>>
  /\ UNCHANGED <<status, revision, members, view, mirror, refreshes, crossed>>

\* publishJob, the answer: record the bill of the member, or give up; a closed
\* bill is no bill of this collection.
PublishSave(w, p) ==
  /\ work[w].pc = "publish_wait"
  /\ IsFirst(p, work[w].left)
  /\ reply[w] # "none"
  /\ reply' = [reply EXCEPT ![w] = "none"]
  /\ \/ /\ reply[w] \in BillStatuses \ {"closed"}
        /\ linked' = linked \cup {p}
        /\ mirror' = [mirror EXCEPT ![p] = reply[w]]
        /\ work' = [work EXCEPT ![w].pc = "publish", ![w].left = @ \ {p}]
     \/ /\ reply[w] \notin BillStatuses \ {"closed"}
        /\ Return(w, IF reply[w] \in {"refused", "closed"} THEN "terminal" ELSE "retry")
        /\ UNCHANGED <<linked, mirror>>
  /\ UNCHANGED <<billVars, calls, body, noteVars, jobs, jobLock, faults>>
  /\ UNCHANGED <<status, revision, members, view, refreshes, crossed>>

\* publishJob, the closing transaction: open the collection unless the pocket
\* has left "publishing" meanwhile.
PublishCommit(w) ==
  /\ work[w].pc = "publish" /\ work[w].left = {}
  /\ Return(w, "ok")
  /\ IF status = "publishing"
     THEN /\ status' = "collecting"
          /\ revision' = revision + 1
          /\ notes' = Enqueued(members)
     ELSE UNCHANGED <<status, revision, notes>>
  /\ UNCHANGED <<billVars, callVars, sends, jobs, jobLock, faults>>
  /\ UNCHANGED <<members, view, linked, mirror, refreshes, crossed>>

\* cancelJob reads the pocket and calls the payment service.
CancelStart(w) ==
  /\ work[w].pc = "start" /\ work[w].job # 0
  /\ IF status = "cancelling"
     THEN Send("cancel", AnyPayer, w) /\ Goto(w, "cancel_wait")
     ELSE Return(w, "ok") /\ UNCHANGED calls
  /\ UNCHANGED <<billVars, body, reply, noteVars, pocketVars, jobs, jobLock, faults>>

\* cancelJob, the answer.
CancelAnswered(w) ==
  /\ work[w].pc = "cancel_wait"
  /\ reply[w] # "none"
  /\ reply' = [reply EXCEPT ![w] = "none"]
  /\ CASE reply[w] = "ok"      -> Goto(w, "cancel_commit")
       [] reply[w] = "refused" -> Goto(w, "cancel_revert")
       [] OTHER                -> Return(w, "retry")
  /\ UNCHANGED <<billVars, calls, body, noteVars, pocketVars, jobs, jobLock, faults>>

\* A refusal is acted on while another cancel call, told "cancelling", still runs ...
RevertCrosses == \E b \in body : b.op = "cancel" /\ b.seen = "cancelling"

\* ... or a cancel call closes bills while another worker holds a refusal.
HoldsRefusal(w) == \/ work[w].pc = "cancel_wait" /\ reply[w] = "refused"
                   \/ work[w].pc = "cancel_revert"

CloseCrosses(b) == b.op = "cancel" /\ bills' # bills /\ \E w \in Workers : HoldsRefusal(w)

\* cancelJob, refused: back to collecting, and the job ends with the error.  An
\* error of this UPDATE itself is only logged.
CancelRevert(w) ==
  /\ work[w].pc = "cancel_revert"
  /\ Return(w, "terminal")
  /\ \/ /\ IF status = "cancelling"
           THEN /\ status' = "collecting" /\ revision' = revision + 1
                /\ crossed' = (crossed \/ RevertCrosses)
           ELSE UNCHANGED <<status, revision, crossed>>
        /\ UNCHANGED faults
     \/ Fault /\ UNCHANGED <<status, revision, crossed>>
  /\ UNCHANGED <<billVars, callVars, noteVars, jobs, jobLock>>
  /\ UNCHANGED <<members, view, linked, mirror, refreshes>>

\* cancelJob, the closing transaction; ErrState if the pocket is not cancelling.
CancelCommit(w) ==
  /\ work[w].pc = "cancel_commit"
  /\ IF status = "cancelling"
     THEN /\ status' = "cancelled"
          /\ revision' = revision + 1
          /\ mirror' = [p \in Payers |-> IF p \in members THEN "closed" ELSE mirror[p]]
          /\ notes' = Withdrawn
          /\ Return(w, "ok")
     ELSE Return(w, "terminal") /\ UNCHANGED <<status, revision, mirror, notes>>
  /\ UNCHANGED <<billVars, callVars, sends, jobs, jobLock, faults>>
  /\ UNCHANGED <<members, view, linked, refreshes, crossed>>

\* A statement or an RPC of the job fails, or its 15 minutes are over.
StepFails(w) ==
  /\ Running(w) /\ work[w].pc \notin {"finish", "cancel_revert"}
  /\ Fault
  /\ Return(w, "retry")
  /\ AbandonCall(w)
  /\ UNCHANGED <<billVars, noteVars, pocketVars, jobs, jobLock>>

-----------------------------------------------------------------------------
(* Refresh: called for every read of a pocket and by reconcile.            *)

\* Mutant of RefreshRead: nothing is read once every bill was seen completed.
RefreshReadPending ==
  /\ status \in {"collecting", "settled"}
  /\ \E p \in linked : mirror[p] # "completed"
  /\ Cardinality(refreshes) < MaxRefreshes
  /\ refreshes' = refreshes \cup
       {[stage |-> "read", status |-> status, ids |-> linked, todo |-> linked,
         snap |-> [p \in Payers |-> "none"]]}
  /\ UNCHANGED <<billVars, callVars, jobVars, noteVars>>
  /\ UNCHANGED <<status, revision, members, view, linked, mirror, crossed>>

RefreshRead ==
  /\ status \in {"collecting", "settled"}
  /\ linked # {}
  /\ Cardinality(refreshes) < MaxRefreshes
  /\ refreshes' = refreshes \cup
       {[stage |-> "read", status |-> status, ids |-> linked, todo |-> linked,
         snap |-> [p \in Payers |-> "none"]]}
  /\ UNCHANGED <<billVars, callVars, jobVars, noteVars>>
  /\ UNCHANGED <<status, revision, members, view, linked, mirror, crossed>>

\* BatchGetBills: one query over the bills of the members.
RefreshFetch(f) ==
  /\ f.stage = "read"
  /\ refreshes' = (refreshes \ {f}) \cup
       {[f EXCEPT !.stage = "fetched",
                  !.snap = [p \in Payers |-> IF p \in f.ids THEN bills[p].status ELSE "none"]]}
  /\ UNCHANGED <<billVars, callVars, jobVars, noteVars>>
  /\ UNCHANGED <<status, revision, members, view, linked, mirror, crossed>>

\* One UPDATE of one member's bill_status.
RefreshSave(f, p) ==
  /\ f.stage = "fetched"
  /\ IsFirst(p, f.todo)
  /\ mirror' = [mirror EXCEPT ![p] = f.snap[p]]
  /\ refreshes' = (refreshes \ {f}) \cup {[f EXCEPT !.todo = @ \ {p}]}
  /\ UNCHANGED <<billVars, callVars, jobVars, noteVars>>
  /\ UNCHANGED <<status, revision, members, view, linked, crossed>>

\* Mutant of Settles: one completed bill is enough.
SettlesOnAny(f) == \E p \in f.ids : f.snap[p] = "completed"

Settles(f) == f.status = "collecting" /\ \A p \in f.ids : f.snap[p] = "completed"

\* The pocket is settled if all bills were completed and it is (still or again)
\* collecting.
RefreshSettle(f) ==
  /\ f.stage = "fetched" /\ f.todo = {}
  /\ refreshes' = refreshes \ {f}
  /\ IF Settles(f) /\ status = "collecting"
     THEN status' = "settled" /\ revision' = revision + 1
     ELSE UNCHANGED <<status, revision>>
  /\ UNCHANGED <<billVars, callVars, jobVars, noteVars>>
  /\ UNCHANGED <<members, view, linked, mirror, crossed>>

\* A query fails or the process dies.
RefreshFails(f) ==
  /\ Fault
  /\ refreshes' = refreshes \ {f}
  /\ UNCHANGED <<billVars, callVars, noteVars, jobs, work, jobLock>>
  /\ UNCHANGED <<status, revision, members, view, linked, mirror, crossed>>

-----------------------------------------------------------------------------
WPInit ==
  /\ BillingInit
  /\ JobsInit
  /\ OutboxInit
  /\ status = "draft"
  /\ revision = 1
  /\ members = {}
  /\ view = [revision |-> 1, members |-> {}]
  /\ linked = {}
  /\ mirror = [p \in Payers |-> "none"]
  /\ refreshes = {}
  /\ crossed = FALSE

OwnerStep ==
  \/ OwnerReads
  \/ \E M \in SUBSET Payers : ReplaceMembers(M)
  \/ Publish
  \/ Cancel
  \/ \E j \in JobIds : Retry(j)
  \/ \E S \in SUBSET Payers : Remind(S)

\* The steps of a job; the queue's own steps leave everything else alone.
JobStep(w) ==
  \/ PublishStart(w)
  \/ \E p \in Payers : PublishNext(w, p) \/ PublishSave(w, p)
  \/ PublishCommit(w)
  \/ CancelStart(w) \/ CancelAnswered(w) \/ CancelRevert(w) \/ CancelCommit(w)

Claim(w) ==
  /\ \E j \in JobIds : ClaimJob(w, j)
  /\ UNCHANGED <<billVars, callVars, noteVars, pocketVars>>

QueueStep(w) ==
  /\ TryLock(w) \/ FinishJob(w)
  /\ UNCHANGED <<billVars, callVars, noteVars, pocketVars>>

Crash(w) ==
  /\ CrashWorker(w)
  /\ AbandonCall(w)
  /\ UNCHANGED <<billVars, noteVars, pocketVars>>

Clock ==
  /\ (\E j \in JobIds : LeaseExpires(j)) \/ SessionLost
  /\ UNCHANGED <<billVars, callVars, noteVars, pocketVars>>

\* The payment service at work on behalf of a worker, and failing to.
PaymentStep ==
  /\ \/ (\E c \in calls : Enter(c, status)) /\ UNCHANGED crossed
     \/ \E b \in body : Commit(b) /\ crossed' = (crossed \/ CloseCrosses(b))
  /\ UNCHANGED <<noteVars, jobVars>>
  /\ UNCHANGED <<status, revision, members, view, linked, mirror, refreshes>>

PaymentFails ==
  /\ \E b \in body : BodyFails(b)
  /\ Fault
  /\ UNCHANGED <<noteVars, pocketVars, jobs, work, jobLock>>

\* requireWestPocketCollecting lets a user request pass only while collecting.
UserRequestStep ==
  /\ UserStep(status = "collecting")
  /\ UNCHANGED <<callVars, jobVars, noteVars, pocketVars>>

RefreshStep ==
  \/ RefreshRead
  \/ \E f \in refreshes :
       RefreshFetch(f) \/ RefreshSettle(f) \/ \E p \in Payers : RefreshSave(f, p)

\* The summary names no bill.
BillStatusOf(recipient) == IF recipient \in Payers THEN bills[recipient].status ELSE "none"

Deliver(s) ==
  /\ \/ ReadPocket(s, status)
     \/ ReadMemberBill(s, BillStatusOf(s.key[1]))
     \/ SendMessage(s)
     \/ RecordOutcome(s)
  /\ UNCHANGED <<billVars, callVars, jobVars, pocketVars>>

TakeNote(k) ==
  /\ ClaimNote(k) \/ NoteLeaseExpires(k)
  /\ UNCHANGED <<billVars, callVars, jobVars, pocketVars>>

\* Feishu or a lookup fails, or the sender's process dies.
DeliveryFails(s) ==
  /\ \/ SendFails(s) /\ UNCHANGED faults
     \/ SenderDies(s) /\ Fault
  /\ UNCHANGED <<billVars, callVars, jobs, work, jobLock, pocketVars>>

SenderStep ==
  \/ \E k \in NoteKeys : TakeNote(k)
  \/ \E s \in sends : Deliver(s) \/ DeliveryFails(s)

WPNext ==
  \/ OwnerStep
  \/ \E w \in Workers : Claim(w) \/ QueueStep(w) \/ JobStep(w) \/ StepFails(w) \/ Crash(w)
  \/ Clock
  \/ PaymentStep \/ PaymentFails
  \/ UserRequestStep
  \/ RefreshStep \/ (\E f \in refreshes : RefreshFails(f))
  \/ SenderStep

WPSpec == WPInit /\ [][WPNext]_vars

\* What the service's own loops guarantee: Run polls the queue and the outbox
\* every second and reconciles every minute, each worker that lives carries on,
\* and RPCs end.  Nothing is assumed of the owner, the members and the faults.
Fairness ==
  /\ WF_vars(\E w \in Workers : Claim(w))
  /\ \A w \in Workers : WF_vars(QueueStep(w) \/ JobStep(w))
  /\ WF_vars(Clock /\ UNCHANGED faults)
  /\ WF_vars(PaymentStep)
  /\ WF_vars(RefreshStep)
  /\ \A k \in NoteKeys : /\ SF_vars(TakeNote(k))
                         /\ WF_vars(\E s \in sends : s.key = k /\ Deliver(s))

WPFairSpec == WPSpec /\ Fairness

-----------------------------------------------------------------------------
(* Correctness.                                                            *)

WPTypeOK ==
  /\ BillingTypeOK
  /\ jobs \in [JobIds -> JobRow]
  /\ work \in [Workers -> [pc : {"idle", "claimed", "start", "publish", "publish_wait",
                                "cancel_wait", "cancel_revert", "cancel_commit", "finish"},
                          job : JobIds, left : SUBSET Payers, verdict : Verdicts]]
  /\ jobLock \in [Locks -> Workers \cup {NoWorker}]
  /\ faults \in 0..MaxFaults
  /\ OutboxTypeOK
  /\ status \in PocketStatuses
  /\ revision \in Nat
  /\ members \subseteq Payers
  /\ view \in [revision : Nat, members : SUBSET Payers]
  /\ linked \subseteq Payers
  /\ mirror \in [Payers -> BillStatuses \cup {"none"}]
  /\ refreshes \subseteq RefreshCall
  /\ crossed \in BOOLEAN

\* Once the pocket is cancelled nobody owes anything and nobody's payment has
\* been discarded: every bill that was opened is closed.  A publisher that was
\* held up between its checks and its INSERT must not open a bill afterwards
\* (the comment of WithWestPocketSourceLock), nor a payer submit one.
CancelledMeansClosed ==
  status = "cancelled" => \A p \in Payers : bills[p].status \in {"none", "closed"}

\* CancelWestPocketBillsIfUnpaid is all-or-nothing: no bill is closed beside a
\* bill that was paid or is claimed to be paid, at any time.
AllOrNothingClosed ==
  \A p, q \in Payers : ~(/\ bills[p].status = "closed"
                         /\ bills[q].status \in {"submitted", "completed"})

\* A settled pocket has a completed bill for every member.
SettledMeansPaid ==
  status = "settled" => \A p \in members : bills[p].status = "completed"

\* An open collection has a bill for every member, known to the pocket, so
\* that Refresh, which looks only at linked bills, can account for all of them.
CollectionComplete ==
  status \in {"collecting", "settled"} => /\ members \subseteq linked
                                          /\ \A p \in linked : Exists(p)

\* A refused cancellation has closed nothing: when cancelJob puts the pocket back
\* to collecting every member can still pay, whatever has failed before.  The one
\* exception is that two cancel calls have crossed, and that takes a fault: a call
\* that outlived its worker, or a second worker beside one that has lost its lock
\* or its lease.
CollectingIsPayable ==
  /\ status = "collecting" /\ ~crossed => \A p \in members : bills[p].status # "closed"
  /\ crossed => faults > 0

\* A pocket that waits for a job has one: the publish job, or a cancel job, is
\* queued, running, or failed and therefore open to Retry.  It never ended as
\* "succeeded" with the pocket still waiting.
Alive(j) == jobs[j].status \in {"queued", "running", "failed"}

NeverStranded ==
  /\ status = "publishing" => Alive(0)
  /\ status = "cancelling" => \E j \in JobIds \ {0} : Alive(j)

\* The publish job ends, whatever happens to workers, the payment service or the
\* pocket meanwhile: "publishing" does not last unless the job has used up its
\* attempts, which leaves it to Retry.
PublishingEnds ==
  status = "publishing" ~> status # "publishing" \/ jobs[0].status = "failed"

\* The job of the latest cancellation has failed; Retry can start it again.
LatestCancelFailed ==
  \E j \in JobIds \ {0} : /\ jobs[j].status = "failed"
                          /\ \A k \in JobIds : k > j => jobs[k].status = "none"

\* A cancellation ends: the pocket is cancelled, or collecting again, or its job
\* has failed.
CancellingEnds ==
  status = "cancelling" ~> status # "cancelling" \/ LatestCancelFailed

\* Payment of the last bill settles the collection, even if the owner tries to
\* cancel it at the same moment.
PaidSettles ==
  (status = "collecting" /\ \A p \in members : bills[p].status = "completed")
    ~> (status = "settled" \/ (status = "cancelling" /\ LatestCancelFailed))

\* Every notice that was enqueued is decided: sent, given up or withdrawn.
NoticeDecided ==
  \A k \in NoteKeys :
    notes[k].status = "pending" ~> notes[k].status \in {"sent", "failed", "cancelled"}

\* A member whose bill nobody has touched since it was opened still gets the
\* notice of it: "each sharer receives their own bill and payment code"
\* (docs/west-pocket.md).
UntouchedBillStaysNotified ==
  \A k \in NoteKeys :
    /\ status = "collecting" /\ k[1] \in Payers
    /\ bills[k[1]].status = "unpaid" /\ bills[k[1]].updated_at = 1
    => notes[k].status # "cancelled"

\* Bills keep the promise made to West Pocket by the payment service.
PocketLifecycle == INSTANCE BillLifecycle
                     WITH st <- [p \in Payers |-> bills[p].status], AllOrNothing <- TRUE

ImplementsPocketLifecycle == PocketLifecycle!AbsSpec
=============================================================================
