-------------------------- MODULE WestPocketProofs --------------------------
(***************************************************************************)
(* WestPocket for every set of members and workers and any number of       *)
(* faults.                                                                 *)
(***************************************************************************)
EXTENDS WestPocket, PaymentBillProofs

-----------------------------------------------------------------------------
(* The inductive invariant.                                                *)

Pcs == {"idle", "claimed", "start", "publish", "publish_wait", "cancel_wait", "cancel_revert",
        "cancel_commit", "finish"}

Place == [pc : Pcs, job : JobIds, left : SUBSET Payers, verdict : Verdicts]

TypesInv ==
  /\ BillInv
  /\ calls \subseteq Call
  /\ body \subseteq Body
  /\ reply \in [Workers -> Replies]
  /\ work \in [Workers -> Place]
  /\ status \in PocketStatuses
  /\ members \subseteq Payers
  /\ linked \subseteq Payers
  /\ refreshes \subseteq RefreshCall

\* A worker waits for the call that is out on its behalf.
Waits(c) ==
  c.from \in Workers =>
    IF c.op = "create"
    THEN work[c.from].pc = "publish_wait" /\ IsFirst(c.payer, work[c.from].left)
    ELSE work[c.from].pc = "cancel_wait"

\* At most one call is out for a worker, waiting, in the lock or answered, and
\* at most one is in the lock.
CallsInv ==
  /\ \A b, c \in body : b = c
  /\ \A c \in calls \cup body : Waits(c) /\ (c.from \in Workers => reply[c.from] = "none")
  /\ \A c, d \in calls : c.from \in Workers /\ c.from = d.from => c = d
  /\ \A c \in calls, b \in body : c.from \in Workers => c.from # b.from
  /\ \A w \in Workers : reply[w] # "none" => work[w].pc \in {"publish_wait", "cancel_wait"}

\* The pocket has left "publishing" and does not return to it.
Later == {"collecting", "settled", "cancelling", "cancelled"}

\* Nothing is owed any more, and no call that is under way will open a bill.
Sealed ==
  /\ status \in Later
  /\ \A p \in Payers : bills[p].status \in {"none", "closed"}
  /\ \A b \in body : b.op = "create" => b.seen # "publishing"

SealInv ==
  /\ status = "draft" => /\ \A p \in Payers : bills[p].status = "none"
                         /\ \A b \in body : b.seen # "publishing"
  /\ \A b \in body : b.seen \in Later => status \in Later
  /\ \A p \in Payers : bills[p].status = "closed" => Sealed
  /\ \A w \in Workers : reply[w] = "ok" \/ work[w].pc = "cancel_commit" => Sealed
  /\ status = "cancelled" => Sealed

\* The members are fixed and every one of them has a bill the pocket knows of.
Complete == status # "draft" /\ members \subseteq linked

LinkInv ==
  /\ \A p \in linked : Exists(p)
  /\ status \in {"collecting", "settled"} => Complete
  /\ \A p \in Payers : bills[p].status \in {"submitted", "completed"} => Complete
  /\ \A r \in reqs : r.stage = "checked" => Complete
  /\ \A c \in calls \cup body : c.op = "cancel" => status \in Later
  /\ \A b \in body : b.op = "cancel" => b.seen \in Later
  /\ \A b \in body : b.seen \in {"collecting", "settled"} => Complete
  /\ \A w \in Workers :
       /\ work[w].pc = "cancel_wait" /\ reply[w] = "refused" => Complete
       /\ work[w].pc = "cancel_revert" => Complete
       /\ work[w].pc \in {"publish", "publish_wait"}
            => status # "draft" /\ members \subseteq linked \cup work[w].left
       /\ work[w].pc = "publish_wait" /\ reply[w] \in BillStatuses
            => \A p \in Payers : IsFirst(p, work[w].left) => Exists(p)

\* What Refresh has read of a payment stays true.
RefreshInv ==
  /\ \A f \in refreshes :
       /\ status # "draft" /\ members \subseteq f.ids
       /\ \A p \in f.ids : f.stage = "fetched" /\ f.snap[p] = "completed"
                             => bills[p].status = "completed"
  /\ SettledMeansPaid

\* Job j is about to end as succeeded.
EndsWell(j) == \E w \in Workers : /\ work[w].pc = "finish" /\ work[w].verdict = "ok"
                                  /\ work[w].job = j

Row == [status : JobStatuses, attempt : Int, lease_owner : Workers \cup {NoWorker},
        expired : BOOLEAN]

JobsInv ==
  /\ jobs \in [JobIds -> Row]
  /\ revision \in Nat
  /\ \A w \in Workers :
       /\ work[w].pc # "idle" => jobs[work[w].job].status # "none"
       /\ work[w].pc \in {"publish", "publish_wait"} => work[w].job = 0
       /\ work[w].pc \in {"cancel_wait", "cancel_revert", "cancel_commit"} => work[w].job # 0
  /\ \A j \in JobIds \ {0} : jobs[j].status # "none" => j <= revision
  /\ status = "draft" => jobs[0].status = "none"
  /\ EndsWell(0) => status # "publishing"
  /\ status = "publishing" => Alive(0)
  /\ status = "cancelling" => \E j \in JobIds \ {0} : Alive(j) /\ ~EndsWell(j)

\* Unless two cancel calls have crossed: a call that was told of a cancellation runs
\* in it, and once it has closed the bills nobody is left who would put the pocket
\* back to collecting.
CrossInv ==
  ~crossed =>
    /\ \A b \in body : /\ b.seen = "cancelling" /\ b.op = "cancel" => status \in {"cancelling", "cancelled"}
                       /\ b.seen = "cancelled" => status = "cancelled"
    /\ (\E p \in Payers : bills[p].status = "closed") =>
         \/ status = "cancelled"
         \/ /\ status = "cancelling"
            /\ \A w \in Workers : ~HoldsRefusal(w)
            /\ \A b \in body : b.op = "cancel" => b.seen = "cancelling"

\* Without a fault: one handler at a time, and no call without its worker.
Calm ==
  /\ crossed = FALSE
  /\ \A w \in Workers : Running(w) => \A l \in Locks : jobLock[l] = w
  /\ \A c \in calls \cup body : c.from \in Workers

FaultlessInv ==
  /\ faults \in Nat
  /\ jobLock \in [Locks -> Workers \cup {NoWorker}]
  /\ faults = 0 => Calm

Note == [status : NoteStatuses, attempt : Int, expired : BOOLEAN]

Stages == {"claimed", "readable", "send", "sent", "retry", "state"}

Delivering == [key : NoteKeys, attempt : Int, stage : Stages]

\* A row that is being delivered is claimed for that delivery.
DeliveryInv ==
  /\ notes \in [NoteKeys -> Note]
  /\ sends \subseteq Delivering
  /\ \A s \in sends : notes[s.key].status = "sending" /\ ~notes[s.key].expired
  /\ OneDeliveryPerRow

coreVars == <<bills, reqs, calls, body, reply, work, status, members, linked, refreshes>>

LEMMA TypesFrame == TypesInv /\ UNCHANGED coreVars => TypesInv'
BY DEF TypesInv, coreVars, BillInv, BillTypeOK, SnapshotConsistent, AbsentIsUnwritten

LEMMA BillFrame == BillInv /\ UNCHANGED <<bills, reqs>> => BillInv'
BY DEF BillInv, BillTypeOK, SnapshotConsistent, AbsentIsUnwritten

LEMMA CallsFrame == CallsInv /\ UNCHANGED <<calls, body, reply, work>> => CallsInv'
BY DEF CallsInv, Waits, IsFirst

LEMMA SealFrame == SealInv /\ UNCHANGED <<bills, body, reply, work, status>> => SealInv'
BY DEF SealInv, Sealed

LEMMA LinkFrame ==
  LinkInv /\ UNCHANGED <<bills, reqs, calls, body, reply, work, status, members, linked>> => LinkInv'
BY DEF LinkInv, Complete, Exists, IsFirst

LEMMA RefreshFrame == RefreshInv /\ UNCHANGED <<bills, status, members, refreshes>> => RefreshInv'
BY DEF RefreshInv, SettledMeansPaid

LEMMA JobsFrame == JobsInv /\ UNCHANGED <<jobs, work, status, revision>> => JobsInv'
BY DEF JobsInv, EndsWell, Alive

LEMMA CrossFrame == CrossInv /\ UNCHANGED <<bills, body, reply, work, status, crossed>> => CrossInv'
BY DEF CrossInv, HoldsRefusal

LEMMA CalmFrame == Calm /\ UNCHANGED <<calls, body, work, jobLock, crossed>> => Calm'
BY DEF Calm, Running

-----------------------------------------------------------------------------
(* What a worker does.                                                     *)

\* Worker w goes to step pc of a job; the others stay where they are.
Steps(w, pc) ==
  /\ work' \in [Workers -> Place]
  /\ work'[w].pc = pc
  /\ \A x \in Workers \ {w} : work'[x] = work[x]

LEMMA GotoSteps ==
  ASSUME TypesInv, NEW w \in Workers, NEW pc \in Pcs, Goto(w, pc)
  PROVE  /\ Steps(w, pc)
         /\ work'[w].left = work[w].left /\ work'[w].job = work[w].job
BY DEF TypesInv, Goto, Steps, Place

LEMMA ReturnSteps ==
  ASSUME TypesInv, NEW w \in Workers, NEW verdict \in Verdicts, Return(w, verdict)
  PROVE  /\ Steps(w, "finish")
         /\ work'[w].verdict = verdict /\ work'[w].job = work[w].job
BY DEF TypesInv, Return, Steps, Place, Pcs

LEMMA IdlePlace == IdleWorker \in Place /\ IdleWorker.pc = "idle"
<1>1. 0 \in JobIds
  BY WestPocketAssumption
<1>2. (CHOOSE j \in JobIds : TRUE) \in JobIds
  BY <1>1
<1> QED
  BY <1>2 DEF IdleWorker, Place, Pcs, Verdicts

LEMMA IdleSteps ==
  ASSUME TypesInv, NEW w \in Workers, work' = [work EXCEPT ![w] = IdleWorker]
  PROVE  Steps(w, "idle")
BY IdlePlace DEF TypesInv, Steps

LEMMA ClaimSteps ==
  ASSUME TypesInv, NEW w \in Workers, NEW j \in JobIds, ClaimJob(w, j)
  PROVE  Steps(w, "claimed") /\ work'[w].job = j
BY DEF TypesInv, ClaimJob, Steps, Place, Pcs

LEMMA OrphanFacts ==
  ASSUME NEW w \in Workers, NEW c
  PROVE  /\ c \in Call => Orphan(c, w) \in Call
         /\ c \in Body => Orphan(c, w) \in Body /\ Orphan(c, w).seen = c.seen
         /\ c \in Call \cup Body =>
              /\ Orphan(c, w).op = c.op /\ Orphan(c, w).payer = c.payer
              /\ Orphan(c, w).from = IF c.from = w THEN Nobody ELSE c.from
BY DEF Orphan, Call, Body

\* Worker w stops waiting: its call is answered and taken, or goes on without it.
Quiet == {"idle", "claimed", "start", "finish"}

Quits(w) ==
  /\ \E pc \in Quiet : Steps(w, pc)
  /\ \/ AbandonCall(w)
     \/ /\ UNCHANGED <<calls, body>>
        /\ \/ reply' = reply /\ work[w].pc \notin {"publish_wait", "cancel_wait"}
           \/ reply[w] # "none" /\ reply' = [reply EXCEPT ![w] = "none"]

LEMMA QuitsCalls ==
  ASSUME TypesInv, CallsInv, NEW w \in Workers, Quits(w)
  PROVE  /\ CallsInv'
         /\ calls' \subseteq Call /\ body' \subseteq Body /\ reply' \in [Workers -> Replies]
         /\ reply'[w] = "none"
         /\ \A x \in Workers \ {w} : reply'[x] = reply[x]
         /\ \A b \in body' : \E c \in body : b.op = c.op /\ b.seen = c.seen
         /\ \A c \in calls' : \E d \in calls : c.op = d.op
<1>0. Nobody \notin Workers /\ Callers = Workers
  BY WestPocketAssumption, AsyncJobsAssumption
<1>1. CASE AbandonCall(w)
  <2>1. /\ \A c \in calls' : \E d \in calls : c = Orphan(d, w)
        /\ \A c \in body' : \E d \in body : c = Orphan(d, w)
        /\ reply' = [reply EXCEPT ![w] = "none"]
    BY <1>1 DEF AbandonCall
  <2>2. calls \subseteq Call /\ body \subseteq Body
    BY DEF TypesInv
  <2>3. calls' \subseteq Call /\ body' \subseteq Body /\ reply' \in [Workers -> Replies]
    BY <2>1, <2>2, OrphanFacts DEF TypesInv, Replies
  <2>4. \A b, c \in body' : b = c
    BY <2>1 DEF CallsInv
  <2>5. \A c \in calls' \cup body' : c.from \in Workers =>
            c.from # w /\ work'[c.from] = work[c.from]
    <3>1. \A d \in calls \cup body : Orphan(d, w).from \in Workers =>
             Orphan(d, w).from # w
      BY <1>0, <2>2, OrphanFacts
    <3> QED
      BY <2>1, <3>1 DEF Quits, Steps
  <2>6. \A c \in calls' \cup body' : Waits(c)' /\ (c.from \in Workers => reply'[c.from] = "none")
    <3>1. SUFFICES ASSUME NEW d \in calls \cup body, Orphan(d, w).from \in Workers,
                          Orphan(d, w) \in calls' \cup body'
                   PROVE  Waits(Orphan(d, w))' /\ reply'[Orphan(d, w).from] = "none"
      BY <2>1 DEF Waits
    <3>2. /\ Orphan(d, w).op = d.op /\ Orphan(d, w).payer = d.payer /\ Orphan(d, w).from = d.from
          /\ d.from \in Workers /\ d.from # w
      BY <1>0, <2>2, <3>1, OrphanFacts
    <3>3. Waits(d) /\ reply[d.from] = "none"
      BY <3>2 DEF CallsInv
    <3>4. work'[d.from] = work[d.from]
      BY <2>5, <3>1, <3>2
    <3> QED
      BY <2>1, <3>2, <3>3, <3>4 DEF Waits, IsFirst, TypesInv
  <2>7. \A c, d \in calls' : c.from \in Workers /\ c.from = d.from => c = d
    <3>1. SUFFICES ASSUME NEW c \in calls, NEW d \in calls, Orphan(c, w).from \in Workers,
                          Orphan(c, w).from = Orphan(d, w).from
                   PROVE  c = d
      BY <2>1
    <3>2. c.from \in Workers /\ c.from = d.from
      BY <1>0, <2>2, <3>1, OrphanFacts
    <3> QED
      BY <3>2 DEF CallsInv
  <2>8. \A c \in calls', b \in body' : c.from \in Workers => c.from # b.from
    <3>1. SUFFICES ASSUME NEW c \in calls, NEW d \in body, Orphan(c, w).from \in Workers,
                          Orphan(c, w).from = Orphan(d, w).from
                   PROVE  FALSE
      BY <2>1
    <3>2. c.from \in Workers /\ c.from = d.from
      BY <1>0, <2>2, <3>1, OrphanFacts
    <3> QED
      BY <3>2 DEF CallsInv
  <2>9. \A x \in Workers : reply'[x] # "none" => work'[x].pc \in {"publish_wait", "cancel_wait"}
    BY <2>1 DEF CallsInv, Quits, Steps, TypesInv
  <2>10. CallsInv'
    BY <2>4, <2>6, <2>7, <2>8, <2>9 DEF CallsInv
  <2>11. /\ \A b \in body' : \E c \in body : b.op = c.op /\ b.seen = c.seen
         /\ \A c \in calls' : \E d \in calls : c.op = d.op
    BY <2>1, <2>2, OrphanFacts
  <2> QED
    BY <2>1, <2>3, <2>10, <2>11 DEF TypesInv
<1>2. CASE UNCHANGED <<calls, body>> /\ reply' = reply /\ work[w].pc \notin {"publish_wait", "cancel_wait"}
  <2>1. \A c \in calls \cup body : c.from # w
    BY <1>2 DEF CallsInv, Waits
  <2>2. reply[w] = "none"
    BY <1>2 DEF CallsInv
  <2>3. \A c \in calls \cup body : Waits(c)'
    BY <1>2, <2>1 DEF CallsInv, Waits, IsFirst, Quits, Steps
  <2> QED
    BY <1>2, <2>2, <2>3 DEF CallsInv, TypesInv, Quits, Steps
<1>3. CASE UNCHANGED <<calls, body>> /\ reply[w] # "none" /\ reply' = [reply EXCEPT ![w] = "none"]
  <2>1. \A c \in calls \cup body : c.from # w
    BY <1>3 DEF CallsInv
  <2>2. reply' \in [Workers -> Replies] /\ reply'[w] = "none" /\ \A x \in Workers \ {w} : reply'[x] = reply[x]
    BY <1>3 DEF TypesInv, Replies
  <2>3. \A c \in calls \cup body : Waits(c)'
    BY <1>3, <2>1 DEF CallsInv, Waits, IsFirst, Quits, Steps
  <2> QED
    BY <1>3, <2>1, <2>2, <2>3 DEF CallsInv, TypesInv, Quits, Steps
<1> QED
  BY <1>1, <1>2, <1>3 DEF Quits

\* What may become of the status.
StatusMove ==
  \/ status = "draft" /\ status' \in {"publishing", "cancelled"}
  \/ status \in {"publishing", "collecting"} /\ status' = "cancelling"
  \/ status \in {"publishing", "cancelling"} /\ status' = "collecting" /\ Complete
  \/ status = "cancelling" /\ status' = "cancelled" /\ Sealed
  \/ status = "collecting" /\ status' = "settled" /\ \A p \in members : bills[p].status = "completed"

CoreInv == TypesInv /\ CallsInv /\ SealInv /\ LinkInv /\ RefreshInv

LEMMA CoreFrame == CoreInv /\ UNCHANGED coreVars => CoreInv'
BY TypesFrame, CallsFrame, SealFrame, LinkFrame, RefreshFrame DEF CoreInv, coreVars

\* A worker that stops waiting, the status, and calls of Refresh that end.
LEMMA CoreStep ==
  ASSUME CoreInv,
         (\E w \in Workers : Quits(w)) \/ UNCHANGED <<calls, body, reply, work>>,
         UNCHANGED <<bills, reqs, members, linked>>,
         status' = status \/ StatusMove,
         refreshes' \subseteq refreshes
  PROVE  CoreInv'
<1> USE DEF CoreInv
<1>1. /\ CallsInv'
      /\ calls' \subseteq Call /\ body' \subseteq Body /\ reply' \in [Workers -> Replies]
      /\ work' \in [Workers -> Place]
  <2>1. ASSUME NEW w \in Workers, Quits(w)
        PROVE  /\ CallsInv'
               /\ calls' \subseteq Call /\ body' \subseteq Body /\ reply' \in [Workers -> Replies]
               /\ work' \in [Workers -> Place]
    BY <2>1, QuitsCalls DEF Quits, Steps
  <2> QED
    BY <2>1, CallsFrame DEF TypesInv
<1>2. TypesInv'
  <2>1. status' \in PocketStatuses
    BY DEF TypesInv, StatusMove, PocketStatuses
  <2> QED
    BY <1>1, <2>1, BillFrame DEF TypesInv
<1>3. \A x \in Workers : \/ work'[x] = work[x] /\ reply'[x] = reply[x]
                         \/ work'[x].pc \in Quiet /\ reply'[x] = "none"
  BY QuitsCalls DEF Quits, Steps
<1>4. /\ \A b \in body' : \E c \in body : b.op = c.op /\ b.seen = c.seen
      /\ \A c \in calls' : \E d \in calls : c.op = d.op
  BY QuitsCalls
<1>5. /\ status' = "draft" => status = "draft"
      /\ status \in Later => status' \in Later
  BY DEF StatusMove, Later
<1>6. SealInv'
  <2>1. Sealed => Sealed'
    BY <1>4, <1>5 DEF Sealed
  <2>2. status' = "cancelled" => Sealed'
    <3>1. CASE status' = "cancelled" /\ status = "draft"
      BY <1>4, <3>1 DEF SealInv, Sealed, Later
    <3> QED
      BY <2>1, <3>1 DEF SealInv, StatusMove
  <2>3. \A w \in Workers : reply'[w] = "ok" \/ work'[w].pc = "cancel_commit" => Sealed'
    BY <1>3, <2>1 DEF SealInv, Quiet
  <2>4. \A p \in Payers : bills'[p].status = "closed" => Sealed'
    BY <2>1 DEF SealInv
  <2>5. \A b \in body' : b.seen \in Later => status' \in Later
    BY <1>4, <1>5 DEF SealInv
  <2>6. status' = "draft" => /\ \A p \in Payers : bills'[p].status = "none"
                             /\ \A b \in body' : b.seen # "publishing"
    BY <1>4, <1>5 DEF SealInv
  <2> QED
    BY <2>2, <2>3, <2>4, <2>5, <2>6 DEF SealInv
<1>7. LinkInv'
  <2>1. Complete => Complete'
    BY <1>5 DEF Complete
  <2>2. \A p \in Payers : Exists(p)' = Exists(p)
    BY DEF Exists
  <2>3. \A x \in Workers :
       /\ work'[x].pc = "cancel_wait" /\ reply'[x] = "refused" => Complete'
       /\ work'[x].pc = "cancel_revert" => Complete'
       /\ work'[x].pc \in {"publish", "publish_wait"}
            => status' # "draft" /\ members' \subseteq linked' \cup work'[x].left
       /\ work'[x].pc = "publish_wait" /\ reply'[x] \in BillStatuses
            => \A p \in Payers : IsFirst(p, work'[x].left) => Exists(p)'
    BY <1>3, <1>5, <2>1, <2>2 DEF LinkInv, Quiet, BillStatuses
  <2>4. /\ \A c \in calls' \cup body' : c.op = "cancel" => status' \in Later
        /\ \A b \in body' : b.op = "cancel" => b.seen \in Later
        /\ \A b \in body' : b.seen \in {"collecting", "settled"} => Complete'
    BY <1>4, <1>5, <2>1 DEF LinkInv
  <2>5. /\ \A p \in linked' : Exists(p)'
        /\ \A p \in Payers : bills'[p].status \in {"submitted", "completed"} => Complete'
        /\ \A r \in reqs' : r.stage = "checked" => Complete'
    BY <2>1, <2>2 DEF LinkInv, TypesInv
  <2>6. status' \in {"collecting", "settled"} => Complete'
    BY <2>1 DEF LinkInv, StatusMove
  <2> QED
    BY <2>3, <2>4, <2>5, <2>6 DEF LinkInv
<1>8. RefreshInv'
  <2>1. SettledMeansPaid'
    BY DEF RefreshInv, SettledMeansPaid, StatusMove
  <2> QED
    BY <1>5, <2>1 DEF RefreshInv
<1> QED
  BY <1>1, <1>2, <1>6, <1>7, <1>8

-----------------------------------------------------------------------------
(* The owner.                                                              *)

LEMMA ReplaceMembersCore ==
  ASSUME CoreInv, NEW M \in SUBSET Payers, ReplaceMembers(M) PROVE CoreInv'
<1> USE DEF CoreInv
<1>1. /\ status = "draft" /\ members' = M
      /\ UNCHANGED <<bills, reqs, calls, body, reply, work, status, linked, refreshes>>
  BY DEF ReplaceMembers, billVars, callVars, jobVars
<1>2. TypesInv'
  BY <1>1, BillFrame DEF TypesInv
<1>3. CallsInv' /\ SealInv'
  BY <1>1, CallsFrame, SealFrame
<1>4. ~Complete
  BY <1>1 DEF Complete
<1>5. LinkInv'
  <2>1. \A p \in Payers : Exists(p)' = Exists(p)
    BY <1>1 DEF Exists
  <2> QED
    BY <1>1, <1>4, <2>1 DEF LinkInv, TypesInv
<1>6. RefreshInv'
  BY <1>1 DEF RefreshInv, SettledMeansPaid
<1> QED
  BY <1>2, <1>3, <1>5, <1>6

LEMMA OwnerCore == ASSUME CoreInv, OwnerStep PROVE CoreInv'
<1>1. CASE Publish
  <2>1. StatusMove /\ UNCHANGED <<calls, body, reply, work, bills, reqs, members, linked, refreshes>>
    BY <1>1 DEF Publish, StatusMove, billVars, callVars
  <2> QED
    BY <2>1, CoreStep
<1>2. CASE Cancel
  <2>1. StatusMove /\ UNCHANGED <<calls, body, reply, work, bills, reqs, members, linked, refreshes>>
    BY <1>2 DEF Cancel, StatusMove, billVars, callVars, CoreInv, TypesInv, PocketStatuses
  <2> QED
    BY <2>1, CoreStep
<1>3. CASE OwnerReads \/ (\E j \in JobIds : Retry(j)) \/ (\E S \in SUBSET Payers : Remind(S))
  BY <1>3, CoreFrame
  DEF OwnerReads, Retry, Remind, coreVars, billVars, callVars, jobVars, pocketVars
<1> QED
  BY <1>1, <1>2, <1>3, ReplaceMembersCore DEF OwnerStep

-----------------------------------------------------------------------------
(* The jobs.                                                               *)

\* Only the place of worker w changes, and its call.
LEMMA QuitsCore ==
  ASSUME CoreInv, NEW w \in Workers, Quits(w), UNCHANGED <<billVars, pocketVars>>
  PROVE  CoreInv'
BY CoreStep DEF billVars, pocketVars

LEMMA QueueCore ==
  ASSUME CoreInv, NEW w \in Workers, Claim(w) \/ QueueStep(w) \/ StepFails(w) \/ Crash(w)
  PROVE  CoreInv'
<1>0. TypesInv
  BY DEF CoreInv
<1>1. Quits(w)
  <2>1. CASE Claim(w)
    <3>1. PICK j \in JobIds : ClaimJob(w, j)
      BY <2>1 DEF Claim
    <3>2. Steps(w, "claimed")
      BY <1>0, <3>1, ClaimSteps
    <3> QED
      BY <2>1, <3>1, <3>2 DEF Quits, Quiet, ClaimJob, Claim, callVars
  <2>2. CASE QueueStep(w)
    <3>1. Steps(w, "start") \/ Steps(w, "idle")
      BY <1>0, <2>2, GotoSteps, IdleSteps DEF QueueStep, TryLock, FinishJob, Pcs
    <3>2. work[w].pc \notin {"publish_wait", "cancel_wait"}
      BY <2>2 DEF QueueStep, TryLock, FinishJob
    <3> QED
      BY <2>2, <3>1, <3>2 DEF Quits, Quiet, QueueStep, callVars
  <2>3. CASE StepFails(w)
    <3>1. Steps(w, "finish")
      BY <1>0, <2>3, ReturnSteps DEF StepFails, Verdicts
    <3> QED
      BY <2>3, <3>1 DEF Quits, Quiet, StepFails
  <2>4. CASE Crash(w)
    <3>1. Steps(w, "idle")
      BY <1>0, <2>4, IdleSteps DEF Crash, CrashWorker
    <3> QED
      BY <2>4, <3>1 DEF Quits, Quiet, Crash
  <2> QED
    BY <2>1, <2>2, <2>3, <2>4
<1>2. UNCHANGED <<billVars, pocketVars>>
  BY DEF Claim, QueueStep, StepFails, Crash
<1> QED
  BY <1>1, <1>2, QuitsCore

\* A worker that is not waiting, and its answer or none.
LEMMA StopsWaiting ==
  ASSUME CoreInv, NEW w \in Workers, NEW verdict \in Verdicts, Return(w, verdict),
         \/ UNCHANGED callVars /\ work[w].pc \notin {"publish_wait", "cancel_wait"}
         \/ UNCHANGED <<calls, body>> /\ reply[w] # "none" /\ reply' = [reply EXCEPT ![w] = "none"]
  PROVE  Quits(w)
<1>1. Steps(w, "finish")
  BY ReturnSteps DEF CoreInv
<1> QED
  BY <1>1 DEF Quits, Quiet, callVars

\* Worker w sends a call and waits for it.
LEMMA SendCalls ==
  ASSUME CoreInv, NEW w \in Workers, NEW op \in {"create", "cancel"}, NEW p \in Payers,
         Send(op, p, w), UNCHANGED <<body, reply>>,
         Goto(w, IF op = "create" THEN "publish_wait" ELSE "cancel_wait"),
         work[w].pc \notin {"publish_wait", "cancel_wait"},
         op = "create" => IsFirst(p, work[w].left)
  PROVE  /\ CallsInv' /\ calls' \subseteq Call
         /\ Steps(w, IF op = "create" THEN "publish_wait" ELSE "cancel_wait")
         /\ work'[w].left = work[w].left
<1> USE DEF CoreInv
<1> DEFINE pc == IF op = "create" THEN "publish_wait" ELSE "cancel_wait"
           new == [op |-> op, payer |-> p, from |-> w]
<1>1. Steps(w, pc) /\ work'[w].left = work[w].left
  BY GotoSteps DEF Pcs
<1>2. new \in Call /\ calls' = calls \cup {new} /\ w \in Callers
  BY WestPocketAssumption DEF Send, Call
<1>3. \A c \in calls \cup body : c.from # w
  BY DEF CallsInv, Waits
<1>4. reply[w] = "none"
  BY DEF CallsInv
<1>5. \A c \in calls \cup body : Waits(c)'
  BY <1>1, <1>3 DEF CallsInv, Waits, IsFirst, Steps
<1>6. Waits(new)'
  BY <1>1 DEF Waits, IsFirst, Steps
<1>7. \A x \in Workers : reply'[x] # "none" => work'[x].pc \in {"publish_wait", "cancel_wait"}
  BY <1>1 DEF CallsInv, Steps
<1>8. CallsInv'
  BY <1>2, <1>3, <1>4, <1>5, <1>6, <1>7 DEF CallsInv
<1> QED
  BY <1>1, <1>2, <1>8 DEF TypesInv

LEMMA PublishStartCore ==
  ASSUME CoreInv, NEW w \in Workers, PublishStart(w) PROVE CoreInv'
<1> USE DEF CoreInv
<1>1. UNCHANGED <<billVars, callVars, pocketVars>> /\ work[w].pc = "start"
  BY DEF PublishStart
<1>2. CASE status # "publishing"
  <2>1. Quits(w)
    BY <1>1, <1>2, StopsWaiting DEF PublishStart, Verdicts
  <2> QED
    BY <1>1, <2>1, QuitsCore
<1>3. CASE status = "publishing"
  <2>1. Steps(w, "publish") /\ work'[w].left = members
    BY <1>3 DEF PublishStart, TypesInv, Steps, Place, Pcs
  <2>2. TypesInv'
    BY <1>1, <2>1, BillFrame DEF TypesInv, billVars, callVars, pocketVars, Steps
  <2>3. CallsInv'
    <3>1. \A c \in calls \cup body : c.from # w
      BY <1>1 DEF CallsInv, Waits
    <3>2. reply[w] = "none"
      BY <1>1 DEF CallsInv
    <3>3. \A c \in calls \cup body : Waits(c)'
      BY <1>1, <2>1, <3>1 DEF CallsInv, Waits, IsFirst, Steps
    <3> QED
      BY <1>1, <2>1, <3>2, <3>3 DEF CallsInv, Steps, callVars
  <2>4. SealInv'
    BY <1>1, <2>1 DEF SealInv, Sealed, Steps, billVars, callVars, pocketVars
  <2>5. LinkInv'
    <3>1. \A p \in Payers : Exists(p)' = Exists(p)
      BY <1>1 DEF Exists, billVars
    <3> QED
      BY <1>1, <1>3, <2>1, <3>1 DEF LinkInv, Complete, Steps, billVars, callVars, pocketVars, TypesInv
  <2>6. RefreshInv'
    BY <1>1, RefreshFrame DEF billVars, pocketVars
  <2> QED
    BY <2>2, <2>3, <2>4, <2>5, <2>6
<1> QED
  BY <1>2, <1>3

LEMMA PublishNextCore ==
  ASSUME CoreInv, NEW w \in Workers, NEW p \in Payers, PublishNext(w, p) PROVE CoreInv'
<1> USE DEF CoreInv
<1>1. UNCHANGED <<billVars, body, reply, pocketVars>> /\ work[w].pc = "publish"
  BY DEF PublishNext
<1>2. CASE status # "publishing"
  <2>1. Quits(w)
    BY <1>1, <1>2, StopsWaiting DEF PublishNext, Verdicts, callVars
  <2> QED
    BY <1>1, <2>1, QuitsCore
<1>3. CASE status = "publishing"
  <2>1. CallsInv' /\ calls' \subseteq Call /\ Steps(w, "publish_wait") /\ work'[w].left = work[w].left
    BY <1>1, <1>3, SendCalls DEF PublishNext
  <2>2. TypesInv'
    BY <1>1, <2>1, BillFrame DEF TypesInv, billVars, pocketVars, Steps
  <2>3. reply[w] = "none"
    BY <1>1 DEF CallsInv
  <2>4. SealInv'
    BY <1>1, <2>1 DEF SealInv, Sealed, Steps, billVars, pocketVars
  <2>5. LinkInv'
    <3>1. \A q \in Payers : Exists(q)' = Exists(q)
      BY <1>1 DEF Exists, billVars
    <3>2. \A c \in calls' : c \in calls \/ c.op = "create"
      BY <1>3 DEF PublishNext, Send
    <3> QED
      BY <1>1, <1>3, <2>1, <2>3, <3>1, <3>2
      DEF LinkInv, Complete, Steps, billVars, pocketVars, TypesInv, BillStatuses
  <2>6. RefreshInv'
    BY <1>1, RefreshFrame DEF billVars, pocketVars
  <2> QED
    BY <2>1, <2>2, <2>4, <2>5, <2>6
<1> QED
  BY <1>2, <1>3

LEMMA PublishSaveCore ==
  ASSUME CoreInv, NEW w \in Workers, NEW p \in Payers, PublishSave(w, p) PROVE CoreInv'
<1> USE DEF CoreInv
<1>1. /\ UNCHANGED <<billVars, calls, body, status, members, refreshes>>
      /\ work[w].pc = "publish_wait" /\ IsFirst(p, work[w].left)
      /\ reply[w] # "none" /\ reply' = [reply EXCEPT ![w] = "none"]
  BY DEF PublishSave
<1>2. CASE reply[w] \notin BillStatuses \ {"closed"}
  <2>1. Return(w, IF reply[w] \in {"refused", "closed"} THEN "terminal" ELSE "retry") /\ linked' = linked
    BY <1>2 DEF PublishSave
  <2>2. Quits(w)
    BY <1>1, <2>1, StopsWaiting DEF Verdicts
  <2> QED
    BY <1>1, <2>1, <2>2, CoreStep DEF billVars
<1>3. CASE reply[w] \in BillStatuses \ {"closed"}
  <2>1. /\ linked' = linked \cup {p}
        /\ work' = [work EXCEPT ![w].pc = "publish", ![w].left = @ \ {p}]
    BY <1>3 DEF PublishSave
  <2>2. Steps(w, "publish") /\ work'[w].left = work[w].left \ {p}
    BY <2>1 DEF TypesInv, Steps, Place, Pcs
  <2>3. /\ reply' \in [Workers -> Replies] /\ reply'[w] = "none"
        /\ \A x \in Workers \ {w} : reply'[x] = reply[x]
    BY <1>1 DEF TypesInv, Replies
  <2>4. TypesInv'
    BY <1>1, <2>1, <2>2, <2>3, BillFrame DEF TypesInv, billVars, Steps
  <2>5. CallsInv'
    <3>1. \A c \in calls \cup body : c.from # w
      BY <1>1 DEF CallsInv
    <3>2. \A c \in calls \cup body : Waits(c)'
      BY <1>1, <2>2, <3>1 DEF CallsInv, Waits, IsFirst, Steps
    <3> QED
      BY <1>1, <2>2, <2>3, <3>1, <3>2 DEF CallsInv, Steps
  <2>6. SealInv'
    BY <1>1, <2>2, <2>3 DEF SealInv, Sealed, Steps, billVars
  <2>7. Exists(p)
    BY <1>1, <1>3 DEF LinkInv
  <2>8. LinkInv'
    <3>1. \A q \in Payers : Exists(q)' = Exists(q)
      BY <1>1 DEF Exists, billVars
    <3>2. Complete => Complete'
      BY <1>1, <2>1 DEF Complete
    <3>3. \A q \in linked' : Exists(q)'
      BY <2>1, <2>7, <3>1 DEF LinkInv, TypesInv
    <3>4. status' # "draft" /\ members' \subseteq linked' \cup work'[w].left
      BY <1>1, <2>1, <2>2 DEF LinkInv
    <3>5. \A x \in Workers \ {w} :
       /\ work'[x].pc = "cancel_wait" /\ reply'[x] = "refused" => Complete'
       /\ work'[x].pc = "cancel_revert" => Complete'
       /\ work'[x].pc \in {"publish", "publish_wait"}
            => status' # "draft" /\ members' \subseteq linked' \cup work'[x].left
       /\ work'[x].pc = "publish_wait" /\ reply'[x] \in BillStatuses
            => \A q \in Payers : IsFirst(q, work'[x].left) => Exists(q)'
      BY <1>1, <2>1, <2>2, <2>3, <3>1, <3>2 DEF LinkInv, Steps
    <3>6. /\ status' \in {"collecting", "settled"} => Complete'
          /\ \A q \in Payers : bills'[q].status \in {"submitted", "completed"} => Complete'
          /\ \A r \in reqs' : r.stage = "checked" => Complete'
          /\ \A c \in calls' \cup body' : c.op = "cancel" => status' \in Later
          /\ \A b \in body' : b.op = "cancel" => b.seen \in Later
          /\ \A b \in body' : b.seen \in {"collecting", "settled"} => Complete'
      BY <1>1, <3>2 DEF LinkInv, billVars
    <3> QED
      BY <2>2, <3>3, <3>4, <3>5, <3>6 DEF LinkInv, Steps
  <2>9. RefreshInv'
    BY <1>1, RefreshFrame DEF billVars
  <2> QED
    BY <2>4, <2>5, <2>6, <2>8, <2>9
<1> QED
  BY <1>2, <1>3

LEMMA PublishCommitCore ==
  ASSUME CoreInv, NEW w \in Workers, PublishCommit(w) PROVE CoreInv'
<1>1. /\ work[w].pc = "publish" /\ work[w].left = {} /\ Return(w, "ok")
      /\ UNCHANGED <<bills, reqs, calls, body, reply, members, linked, refreshes>>
  BY DEF PublishCommit, billVars, callVars
<1>2. Quits(w)
  BY <1>1, StopsWaiting DEF Verdicts, callVars
<1>3. Complete
  BY <1>1 DEF Complete, CoreInv, LinkInv
<1>4. status' = status \/ StatusMove
  BY <1>3 DEF PublishCommit, StatusMove
<1> QED
  BY <1>1, <1>2, <1>4, CoreStep

LEMMA CancelStartCore ==
  ASSUME CoreInv, NEW w \in Workers, CancelStart(w) PROVE CoreInv'
<1> USE DEF CoreInv
<1>1. UNCHANGED <<billVars, body, reply, pocketVars>> /\ work[w].pc = "start"
  BY DEF CancelStart
<1>2. CASE status # "cancelling"
  <2>1. Quits(w)
    BY <1>1, <1>2, StopsWaiting DEF CancelStart, Verdicts, callVars
  <2> QED
    BY <1>1, <2>1, QuitsCore
<1>3. CASE status = "cancelling"
  <2>0. AnyPayer \in Payers
    BY WestPocketBillingAssumption DEF AnyPayer
  <2>1. CallsInv' /\ calls' \subseteq Call /\ Steps(w, "cancel_wait")
    BY <1>1, <1>3, <2>0, SendCalls DEF CancelStart
  <2>2. TypesInv'
    BY <1>1, <2>1, BillFrame DEF TypesInv, billVars, pocketVars, Steps
  <2>3. reply[w] = "none"
    BY <1>1 DEF CallsInv
  <2>4. SealInv'
    BY <1>1, <2>1 DEF SealInv, Sealed, Steps, billVars, pocketVars
  <2>5. LinkInv'
    <3>1. \A q \in Payers : Exists(q)' = Exists(q)
      BY <1>1 DEF Exists, billVars
    <3> QED
      BY <1>1, <1>3, <2>1, <2>3, <3>1
      DEF LinkInv, Complete, Steps, billVars, pocketVars, TypesInv, Later
  <2>6. RefreshInv'
    BY <1>1, RefreshFrame DEF billVars, pocketVars
  <2> QED
    BY <2>1, <2>2, <2>4, <2>5, <2>6
<1> QED
  BY <1>2, <1>3

LEMMA CancelAnsweredCore ==
  ASSUME CoreInv, NEW w \in Workers, CancelAnswered(w) PROVE CoreInv'
<1> USE DEF CoreInv
<1>1. /\ UNCHANGED <<billVars, calls, body, pocketVars>>
      /\ work[w].pc = "cancel_wait"
      /\ reply[w] # "none" /\ reply' = [reply EXCEPT ![w] = "none"]
  BY DEF CancelAnswered
<1>2. CASE reply[w] \notin {"ok", "refused"}
  <2>1. Return(w, "retry")
    BY <1>2 DEF CancelAnswered
  <2>2. Quits(w)
    BY <1>1, <2>1, StopsWaiting DEF Verdicts
  <2> QED
    BY <1>1, <2>2, QuitsCore
<1>3. CASE reply[w] \in {"ok", "refused"}
  <2> DEFINE pc == IF reply[w] = "ok" THEN "cancel_commit" ELSE "cancel_revert"
  <2>1. Steps(w, pc)
    BY <1>3, GotoSteps DEF CancelAnswered, Pcs
  <2>2. /\ reply' \in [Workers -> Replies] /\ reply'[w] = "none"
        /\ \A x \in Workers \ {w} : reply'[x] = reply[x]
    BY <1>1 DEF TypesInv, Replies
  <2>3. TypesInv'
    BY <1>1, <2>1, <2>2, BillFrame DEF TypesInv, billVars, pocketVars, Steps
  <2>4. CallsInv'
    <3>1. \A c \in calls \cup body : c.from # w
      BY <1>1 DEF CallsInv
    <3>2. \A c \in calls \cup body : Waits(c)'
      BY <1>1, <2>1, <3>1 DEF CallsInv, Waits, IsFirst, Steps
    <3> QED
      BY <1>1, <2>1, <2>2, <3>1, <3>2 DEF CallsInv, Steps
  <2>5. SealInv'
    BY <1>1, <2>1, <2>2 DEF SealInv, Sealed, Steps, billVars, pocketVars
  <2>6. LinkInv'
    <3>1. \A q \in Payers : Exists(q)' = Exists(q)
      BY <1>1 DEF Exists, billVars
    <3>2. Complete' = Complete
      BY <1>1 DEF Complete, pocketVars
    <3>3. reply[w] = "refused" => Complete
      BY <1>1 DEF LinkInv
    <3>4. \A x \in Workers :
       /\ work'[x].pc = "cancel_wait" /\ reply'[x] = "refused" => Complete'
       /\ work'[x].pc = "cancel_revert" => Complete'
       /\ work'[x].pc \in {"publish", "publish_wait"}
            => status' # "draft" /\ members' \subseteq linked' \cup work'[x].left
       /\ work'[x].pc = "publish_wait" /\ reply'[x] \in BillStatuses
            => \A q \in Payers : IsFirst(q, work'[x].left) => Exists(q)'
      BY <1>1, <1>3, <2>1, <2>2, <3>1, <3>2, <3>3 DEF LinkInv, Steps, pocketVars
    <3> QED
      BY <1>1, <3>1, <3>2, <3>4 DEF LinkInv, billVars, pocketVars, TypesInv
  <2>7. RefreshInv'
    BY <1>1, RefreshFrame DEF billVars, pocketVars
  <2> QED
    BY <2>3, <2>4, <2>5, <2>6, <2>7
<1> QED
  BY <1>2, <1>3

LEMMA CancelEndsCore ==
  ASSUME CoreInv, NEW w \in Workers, CancelRevert(w) \/ CancelCommit(w) PROVE CoreInv'
<1>1. /\ UNCHANGED <<bills, reqs, calls, body, reply, members, linked, refreshes>>
      /\ work[w].pc \in {"cancel_revert", "cancel_commit"}
      /\ Return(w, "ok") \/ Return(w, "terminal")
  BY DEF CancelRevert, CancelCommit, billVars, callVars
<1>2. Quits(w)
  BY <1>1, StopsWaiting DEF Verdicts, callVars
<1>3. status' = status \/ StatusMove
  <2>1. CASE CancelRevert(w)
    <3>1. Complete
      BY <2>1 DEF CancelRevert, CoreInv, LinkInv
    <3> QED
      BY <2>1, <3>1 DEF CancelRevert, StatusMove
  <2>2. CASE CancelCommit(w)
    <3>1. Sealed
      BY <2>2 DEF CancelCommit, CoreInv, SealInv
    <3> QED
      BY <2>2, <3>1 DEF CancelCommit, StatusMove
  <2> QED
    BY <2>1, <2>2
<1> QED
  BY <1>1, <1>2, <1>3, CoreStep

LEMMA JobCore == ASSUME CoreInv, NEW w \in Workers, JobStep(w) PROVE CoreInv'
BY PublishStartCore, PublishNextCore, PublishSaveCore, PublishCommitCore, CancelStartCore,
   CancelAnsweredCore, CancelEndsCore DEF JobStep

-----------------------------------------------------------------------------
(* The payment service.                                                    *)

\* A call leaves the lock with an answer: to its worker, or to nobody.
Answered(b, answer) ==
  /\ body' = body \ {b} /\ calls' = calls
  /\ Answer(b, answer)

LEMMA AnsweredCalls ==
  ASSUME TypesInv, CallsInv, NEW b \in body, NEW answer \in Replies \ {"none"},
         Answered(b, answer), UNCHANGED work
  PROVE  /\ CallsInv' /\ body' = {} /\ reply' \in [Workers -> Replies]
         /\ \A w \in Workers : \/ reply'[w] = reply[w]
                               \/ w = b.from /\ reply'[w] = answer
<1>1. /\ reply' \in [Workers -> Replies]
      /\ \A w \in Workers : reply'[w] = IF w = b.from THEN answer ELSE reply[w]
  BY WestPocketAssumption DEF Answered, Answer, TypesInv
<1>2. body' = {}
  BY DEF CallsInv, Answered
<1>3. b.from \in Workers => work[b.from].pc \in {"publish_wait", "cancel_wait"}
  BY DEF CallsInv, Waits
<1>4. \A c \in calls : Waits(c)' /\ (c.from \in Workers => c.from # b.from)
  BY DEF CallsInv, Waits, IsFirst
<1>5. CallsInv'
  BY <1>1, <1>2, <1>3, <1>4 DEF CallsInv, Answered
<1> QED
  BY <1>1, <1>2, <1>5

LEMMA EnterCore ==
  ASSUME CoreInv, NEW c \in calls, Enter(c, status), UNCHANGED <<work, status, members, linked, refreshes>>
  PROVE  CoreInv'
<1> USE DEF CoreInv
<1> DEFINE b == [op |-> c.op, payer |-> c.payer, from |-> c.from, seen |-> status]
<1>1. /\ body = {} /\ calls' = calls \ {c} /\ body' = {b}
      /\ UNCHANGED <<bills, reqs, reply, work, status, members, linked, refreshes>>
  BY DEF Enter, pocketVars
<1>2. c \in Call /\ b \in Body
  BY DEF TypesInv, Call, Body
<1>3. TypesInv'
  BY <1>1, <1>2, BillFrame DEF TypesInv
<1>4. CallsInv'
  <2>1. \A d \in calls : Waits(d)'
    BY <1>1 DEF CallsInv, Waits, IsFirst
  <2>2. Waits(b)'
    BY <2>1 DEF Waits, IsFirst
  <2> QED
    BY <1>1, <2>1, <2>2 DEF CallsInv
<1>5. SealInv'
  <2>1. Sealed => Sealed'
    BY <1>1 DEF Sealed, Later
  <2> QED
    BY <1>1, <2>1 DEF SealInv
<1>6. LinkInv'
  BY <1>1 DEF LinkInv, Complete, Exists, IsFirst
<1>7. RefreshInv'
  BY <1>1, RefreshFrame
<1> QED
  BY <1>3, <1>4, <1>5, <1>6, <1>7

LEMMA BodyFailsCore ==
  ASSUME CoreInv, NEW b \in body, BodyFails(b), UNCHANGED <<work, status, members, linked, refreshes>>
  PROVE  CoreInv'
<1> USE DEF CoreInv
<1>1. Answered(b, "error") /\ UNCHANGED <<bills, reqs, work, status, members, linked, refreshes>>
  BY DEF BodyFails, Answered, pocketVars
<1>2. /\ CallsInv' /\ body' = {} /\ reply' \in [Workers -> Replies] /\ calls' = calls
      /\ \A w \in Workers : reply'[w] = reply[w] \/ reply'[w] = "error"
  BY <1>1, AnsweredCalls DEF Replies, Answered, BillStatuses
<1>3. TypesInv'
  BY <1>1, <1>2, BillFrame DEF TypesInv
<1>4. SealInv'
  BY <1>1, <1>2 DEF SealInv, Sealed
<1>5. LinkInv'
  BY <1>1, <1>2 DEF LinkInv, Complete, Exists, IsFirst, BillStatuses
<1>6. RefreshInv'
  BY <1>1, RefreshFrame
<1> QED
  BY <1>2, <1>3, <1>4, <1>5, <1>6

LEMMA CreateBodyCore ==
  ASSUME CoreInv, NEW b \in body, CreateBody(b), UNCHANGED <<work, status, members, linked, refreshes>>
  PROVE  CoreInv'
<1> USE DEF CoreInv
<1>1. /\ b.op = "create" /\ b \in Body /\ b.payer \in Payers
      /\ body' = body \ {b} /\ calls' = calls
      /\ UNCHANGED <<reqs, work, status, members, linked, refreshes>>
  BY DEF CreateBody, pocketVars, TypesInv, Body
<1>2. b.from \in Workers => work[b.from].pc = "publish_wait" /\ IsFirst(b.payer, work[b.from].left)
  BY <1>1 DEF CallsInv, Waits
<1>3. CASE ~CreateAllowed(b)
  <2>1. Answered(b, "refused") /\ bills' = bills
    BY <1>1, <1>3 DEF CreateBody, Answered
  <2>2. /\ CallsInv' /\ body' = {} /\ reply' \in [Workers -> Replies]
        /\ \A w \in Workers : reply'[w] = reply[w] \/ (w = b.from /\ reply'[w] = "refused")
    BY <1>1, <2>1, AnsweredCalls DEF Replies, BillStatuses
  <2>3. TypesInv'
    BY <1>1, <2>1, <2>2, BillFrame DEF TypesInv
  <2>4. SealInv'
    BY <1>1, <2>1, <2>2 DEF SealInv, Sealed
  <2>5. LinkInv'
    BY <1>1, <1>2, <2>1, <2>2 DEF LinkInv, Complete, Exists, IsFirst, BillStatuses
  <2>6. RefreshInv'
    BY <1>1, <2>1, RefreshFrame
  <2> QED
    BY <2>2, <2>3, <2>4, <2>5, <2>6
<1>4. CASE CreateAllowed(b)
  <2>1. /\ bills' = IF Exists(b.payer) THEN bills
                    ELSE [bills EXCEPT ![b.payer] = NewBill(NoBill.amount)]
        /\ Answer(b, bills'[b.payer].status)
    BY <1>4 DEF CreateBody, CreateAllowed
  <2>2. /\ BillInv' /\ Exists(b.payer)'
        /\ \A p \in Payers : \/ bills'[p] = bills[p]
                             \/ p = b.payer /\ bills'[p].status = "unpaid" /\ bills[p].status = "none"
    <3>1. CASE Exists(b.payer)
      BY <1>1, <2>1, <3>1, BillFrame DEF Exists, TypesInv
    <3>2. CASE ~Exists(b.payer)
      <4>1. bills' = [bills EXCEPT ![b.payer] = NewBill(NoBill.amount)]
        BY <2>1, <3>2
      <4>2. BillInv'
        BY <1>1, <3>2, <4>1, OpenBillInv, NoBillType DEF TypesInv
      <4>3. bills'[b.payer].status = "unpaid" /\ \A p \in Payers \ {b.payer} : bills'[p] = bills[p]
        BY <1>1, <4>1 DEF TypesInv, BillInv, BillTypeOK, NewBill
      <4> QED
        BY <1>1, <3>2, <4>2, <4>3 DEF Exists
    <3> QED
      BY <3>1, <3>2
  <2>3. bills'[b.payer].status \in BillStatuses
    BY <1>1, <2>2 DEF BillInv, BillTypeOK, BillRow, Exists
  <2>4. /\ CallsInv' /\ body' = {} /\ reply' \in [Workers -> Replies]
        /\ \A w \in Workers : \/ reply'[w] = reply[w]
                              \/ w = b.from /\ reply'[w] = bills'[b.payer].status
    <3>1. Answered(b, bills'[b.payer].status)
      BY <1>1, <2>1 DEF Answered
    <3>2. bills'[b.payer].status \in Replies \ {"none"}
      BY <2>3 DEF Replies, BillStatuses
    <3> QED
      BY <1>1, <3>1, <3>2, AnsweredCalls
  <2>5. TypesInv'
    BY <1>1, <2>2, <2>4 DEF TypesInv
  <2>6. \A p \in Payers : bills[p].status # "closed"
    BY <1>1, <1>4 DEF SealInv, Sealed, CreateAllowed
  <2>7. ~Sealed /\ status # "draft" /\ status # "cancelled"
    BY <1>1, <1>4 DEF SealInv, Sealed, CreateAllowed
  <2>8. SealInv'
    <3>1. \A p \in Payers : bills'[p].status # "closed"
      BY <2>2, <2>6
    <3>2. \A w \in Workers : reply'[w] # "ok" /\ work'[w].pc # "cancel_commit"
      BY <1>1, <2>3, <2>4, <2>7 DEF SealInv, BillStatuses
    <3> QED
      BY <1>1, <2>4, <2>7, <3>1, <3>2 DEF SealInv
  <2>9. LinkInv'
    <3>1. \A p \in Payers : Exists(p) => Exists(p)'
      BY <2>2 DEF Exists
    <3>2. Complete' = Complete
      BY <1>1 DEF Complete
    <3>3. \A w \in Workers :
       /\ work'[w].pc = "cancel_wait" /\ reply'[w] = "refused" => Complete'
       /\ work'[w].pc = "cancel_revert" => Complete'
       /\ work'[w].pc \in {"publish", "publish_wait"}
            => status' # "draft" /\ members' \subseteq linked' \cup work'[w].left
      BY <1>1, <1>2, <2>4, <3>2 DEF LinkInv
    <3>4. \A w \in Workers :
            work'[w].pc = "publish_wait" /\ reply'[w] \in BillStatuses
              => \A p \in Payers : IsFirst(p, work'[w].left) => Exists(p)'
      <4>1. SUFFICES ASSUME NEW w \in Workers, work[w].pc = "publish_wait",
                            reply'[w] \in BillStatuses, NEW p \in Payers, IsFirst(p, work[w].left)
                     PROVE  Exists(p)'
        BY <1>1 DEF IsFirst
      <4>2. CASE reply'[w] = reply[w]
        BY <3>1, <4>1, <4>2 DEF LinkInv
      <4>3. CASE w = b.from
        <5>0. \A q \in Payers : q \in Int
          BY WestPocketAssumption
        <5>1. p = b.payer
          <6>1. /\ p \in work[w].left /\ \A q \in work[w].left : p <= q
                /\ b.payer \in work[w].left /\ \A q \in work[w].left : b.payer <= q
            BY <1>1, <1>2, <4>1, <4>3 DEF IsFirst
          <6>2. b.payer \in Payers
            BY <1>1
          <6>3. p \in Int /\ b.payer \in Int
            BY <5>0, <6>2
          <6> QED
            BY <6>1, <6>3
        <5> QED
          BY <2>2, <5>1
      <4> QED
        BY <2>4, <4>2, <4>3
    <3>5. /\ \A p \in linked' : Exists(p)'
          /\ \A p \in Payers : bills'[p].status \in {"submitted", "completed"} => Complete'
      BY <1>1, <2>2, <3>1, <3>2 DEF LinkInv, TypesInv
    <3> QED
      BY <1>1, <2>4, <3>2, <3>3, <3>4, <3>5 DEF LinkInv
  <2>10. RefreshInv'
    <3>1. \A p \in Payers : bills[p].status = "completed" => bills'[p].status = "completed"
      BY <2>2
    <3>2. \A f \in refreshes : f.ids \subseteq Payers
      BY DEF TypesInv, RefreshCall
    <3> QED
      BY <1>1, <3>1, <3>2 DEF RefreshInv, SettledMeansPaid, TypesInv
  <2> QED
    BY <2>4, <2>5, <2>8, <2>9, <2>10
<1> QED
  BY <1>3, <1>4

LEMMA CancelBodyCore ==
  ASSUME CoreInv, NEW b \in body, CancelBody(b), UNCHANGED <<work, status, members, linked, refreshes>>
  PROVE  CoreInv'
<1> USE DEF CoreInv
<1>1. /\ b.op = "cancel" /\ b \in Body
      /\ body' = body \ {b} /\ calls' = calls
      /\ UNCHANGED <<reqs, work, status, members, linked, refreshes>>
  BY DEF CancelBody, pocketVars, TypesInv
<1>2. /\ b.from \in Workers => work[b.from].pc = "cancel_wait"
      /\ status \in Later /\ b.seen \in Later
  BY <1>1 DEF CallsInv, Waits, LinkInv
<1>3. CASE ~CancelAllowed(b)
  <2>1. Answered(b, "refused") /\ bills' = bills
    BY <1>1, <1>3 DEF CancelBody, Answered
  <2>2. /\ CallsInv' /\ body' = {} /\ reply' \in [Workers -> Replies]
        /\ \A w \in Workers : reply'[w] = reply[w] \/ (w = b.from /\ reply'[w] = "refused")
    BY <1>1, <2>1, AnsweredCalls DEF Replies, BillStatuses
  <2>3. TypesInv'
    BY <1>1, <2>1, <2>2, BillFrame DEF TypesInv
  <2>4. SealInv'
    BY <1>1, <2>1, <2>2 DEF SealInv, Sealed
  <2>5. Complete
    <3>1. CASE b.seen \notin {"cancelling", "cancelled"}
      BY <1>2, <3>1 DEF LinkInv, Later
    <3>2. CASE \E p \in Payers : bills[p].status \notin {"none", "unpaid", "closed"}
      <4>1. PICK p \in Payers : bills[p].status \notin {"none", "unpaid", "closed"}
        BY <3>2
      <4>2. bills[p].status \in {"submitted", "completed"}
        BY <4>1 DEF TypesInv, BillInv, BillTypeOK, BillRow, BillStatuses
      <4> QED
        BY <4>2 DEF LinkInv
    <3> QED
      BY <1>3, <3>1, <3>2 DEF CancelAllowed
  <2>6. LinkInv'
    BY <1>1, <1>2, <2>1, <2>2, <2>5 DEF LinkInv, Complete, Exists, IsFirst, BillStatuses
  <2>7. RefreshInv'
    BY <1>1, <2>1, RefreshFrame
  <2> QED
    BY <2>2, <2>3, <2>4, <2>6, <2>7
<1>4. CASE CancelAllowed(b)
  <2>1. Answered(b, "ok") /\ bills' = CloseBills(Payers)
    BY <1>1, <1>4 DEF CancelBody, Answered
  <2>2. /\ CallsInv' /\ body' = {} /\ reply' \in [Workers -> Replies]
        /\ \A w \in Workers : reply'[w] = reply[w] \/ (w = b.from /\ reply'[w] = "ok")
    BY <1>1, <2>1, AnsweredCalls DEF Replies, BillStatuses
  <2>3. BillInv'
    BY <1>1, <2>1, CloseBillsInv DEF TypesInv
  <2>4. TypesInv'
    BY <1>1, <2>2, <2>3 DEF TypesInv
  <2>5. \A p \in Payers : /\ bills'[p].status \in {"none", "closed"}
                          /\ Exists(p) => Exists(p)'
                          /\ bills[p].status # "completed"
    BY <1>4, <2>1 DEF CancelAllowed, CloseBills, Written, Exists
  <2>6. Sealed'
    BY <1>1, <1>2, <2>2, <2>5 DEF Sealed
  <2>7. SealInv'
    BY <1>1, <1>2, <2>2, <2>6 DEF SealInv, Later
  <2>8. LinkInv'
    BY <1>1, <1>2, <2>2, <2>5 DEF LinkInv, Complete, IsFirst, TypesInv, BillStatuses
  <2>9. RefreshInv'
    <3>1. \A f \in refreshes : f.ids \subseteq Payers
      BY DEF TypesInv, RefreshCall
    <3> QED
      BY <1>1, <2>5, <3>1 DEF RefreshInv, SettledMeansPaid, TypesInv
  <2> QED
    BY <2>2, <2>4, <2>7, <2>8, <2>9
<1> QED
  BY <1>3, <1>4

LEMMA PaymentCore == ASSUME CoreInv, PaymentStep \/ PaymentFails PROVE CoreInv'
<1>1. UNCHANGED <<work, status, members, linked, refreshes>>
  BY DEF PaymentStep, PaymentFails, jobVars, pocketVars
<1> QED
  BY <1>1, EnterCore, BodyFailsCore, CreateBodyCore, CancelBodyCore
  DEF PaymentStep, PaymentFails, Commit

-----------------------------------------------------------------------------
(* Payers and payees, Refresh, and all steps together.                     *)

LEMMA UserMovesRows ==
  ASSUME BillInv, NEW open \in BOOLEAN, UserStep(open)
  PROVE  \A p \in Payers : \/ bills'[p] = bills[p]
                           \/ <<bills[p].status, bills'[p].status>> \in UserMoves
<1>1. ASSUME NEW p \in Payers, RowMoved(p), NEW q \in Payers, q # p PROVE bills'[q] = bills[q]
  BY <1>1 DEF RowMoved, BillInv, BillTypeOK
<1> QED
  BY <1>1, UserStepMoves DEF RowMoved

\* A request passes its checks only while the pocket is open.
LEMMA CheckedWhenOpen ==
  ASSUME NEW open \in BOOLEAN, UserStep(open)
  PROVE  \A r \in reqs' : r.stage = "checked" => open \/ \E q \in reqs : q.stage = "checked"
BY DEF UserStep, ReadBill, CheckBill, UpdateBillStatus, AbandonRequest

\* A bill that is claimed or confirmed was so before, or a request that passed its
\* checks has done it.
LEMMA ClaimedByChecked ==
  ASSUME BillInv, NEW open \in BOOLEAN, UserStep(open)
  PROVE  bills' # bills => \E q \in reqs : q.stage = "checked"
BY DEF UserStep, ReadBill, CheckBill, UpdateBillStatus, AbandonRequest

LEMMA UserCore == ASSUME CoreInv, UserRequestStep PROVE CoreInv'
<1> USE DEF CoreInv
<1>1. /\ (status = "collecting") \in BOOLEAN /\ UserStep(status = "collecting")
      /\ UNCHANGED <<calls, body, reply, work, status, members, linked, refreshes>>
  BY DEF UserRequestStep, callVars, jobVars, pocketVars
<1>2. BillInv'
  BY <1>1, UserStepInv DEF TypesInv
<1>3. \A p \in Payers : \/ bills'[p] = bills[p]
                        \/ <<bills[p].status, bills'[p].status>> \in UserMoves
  BY <1>1, UserMovesRows DEF TypesInv
<1>4. /\ \A r \in reqs' : r.stage = "checked" => Complete
      /\ bills' # bills => Complete
  BY <1>1, CheckedWhenOpen, ClaimedByChecked DEF LinkInv, TypesInv
<1>5. TypesInv'
  BY <1>1, <1>2 DEF TypesInv
<1>6. CallsInv'
  BY <1>1, CallsFrame
<1>7. SealInv'
  <2>1. \A p \in Payers : /\ bills[p].status \in {"none", "closed"} => bills'[p].status = bills[p].status
                          /\ bills'[p].status = "closed" => bills[p].status = "closed"
    BY <1>3 DEF UserMoves
  <2> QED
    BY <1>1, <2>1 DEF SealInv, Sealed
<1>8. LinkInv'
  <2>1. \A p \in Payers : Exists(p) => Exists(p)'
    BY <1>3 DEF UserMoves, Exists
  <2>2. \A p \in Payers : bills'[p].status \in {"submitted", "completed"} => Complete
    BY <1>4 DEF LinkInv
  <2>3. Complete' = Complete
    BY <1>1 DEF Complete
  <2> QED
    BY <1>1, <1>4, <2>1, <2>2, <2>3 DEF LinkInv, IsFirst, TypesInv
<1>9. RefreshInv'
  <2>1. \A p \in Payers : bills[p].status = "completed" => bills'[p].status = "completed"
    BY <1>3 DEF UserMoves
  <2>2. \A f \in refreshes : f.ids \subseteq Payers
    BY DEF TypesInv, RefreshCall
  <2> QED
    BY <1>1, <2>1, <2>2 DEF RefreshInv, SettledMeansPaid, TypesInv
<1> QED
  BY <1>5, <1>6, <1>7, <1>8, <1>9

LEMMA RefreshFields ==
  ASSUME NEW f \in RefreshCall, NEW snap \in [Payers -> BillStatuses \cup {"none"}],
         NEW T \in SUBSET Payers
  PROVE  /\ [f EXCEPT !.stage = "fetched", !.snap = snap] \in RefreshCall
         /\ [f EXCEPT !.stage = "fetched", !.snap = snap].ids = f.ids
         /\ [f EXCEPT !.stage = "fetched", !.snap = snap].snap = snap
         /\ [f EXCEPT !.todo = T] \in RefreshCall
         /\ [f EXCEPT !.todo = T].ids = f.ids /\ [f EXCEPT !.todo = T].snap = f.snap
         /\ [f EXCEPT !.todo = T].stage = f.stage
BY DEF RefreshCall

LEMMA RefreshCore ==
  ASSUME CoreInv, RefreshStep \/ (\E f \in refreshes : RefreshFails(f))
  PROVE  CoreInv'
<1> USE DEF CoreInv
<1>0. refreshes \subseteq RefreshCall
  BY DEF TypesInv
\* A call of Refresh takes the place of another, or is added.
<1>a. ASSUME NEW g \in RefreshCall, refreshes' \subseteq refreshes \cup {g},
             UNCHANGED <<bills, reqs, calls, body, reply, work, status, members, linked>>,
             members \subseteq g.ids, status # "draft",
             \A p \in g.ids : g.stage = "fetched" /\ g.snap[p] = "completed"
                                => bills[p].status = "completed"
      PROVE  CoreInv'
  <2>1. TypesInv'
    BY <1>a, BillFrame DEF TypesInv
  <2>2. CallsInv' /\ SealInv' /\ LinkInv'
    BY <1>a, CallsFrame, SealFrame, LinkFrame
  <2>3. RefreshInv'
    BY <1>a DEF RefreshInv, SettledMeansPaid
  <2> QED
    BY <2>1, <2>2, <2>3
<1>1. CASE RefreshRead
  <2> DEFINE g == [stage |-> "read", status |-> status, ids |-> linked, todo |-> linked,
                   snap |-> [p \in Payers |-> "none"]]
  <2>1. /\ status \in {"collecting", "settled"} /\ refreshes' = refreshes \cup {g}
        /\ UNCHANGED <<bills, reqs, calls, body, reply, work, status, members, linked>>
    BY <1>1 DEF RefreshRead, billVars, callVars, jobVars
  <2>2. g \in RefreshCall /\ g.ids = linked /\ g.stage = "read"
    BY <2>1 DEF RefreshCall, TypesInv
  <2>3. members \subseteq linked
    BY <2>1 DEF LinkInv, Complete
  <2> HIDE DEF g
  <2> QED
    BY <1>a, <2>1, <2>2, <2>3
<1>2. ASSUME NEW f \in refreshes, RefreshFetch(f) PROVE CoreInv'
  <2> DEFINE snap == [p \in Payers |-> IF p \in f.ids THEN bills[p].status ELSE "none"]
             g == [f EXCEPT !.stage = "fetched", !.snap = snap]
  <2>1. /\ refreshes' = (refreshes \ {f}) \cup {g}
        /\ UNCHANGED <<bills, reqs, calls, body, reply, work, status, members, linked>>
    BY <1>2 DEF RefreshFetch, billVars, callVars, jobVars
  <2>2. snap \in [Payers -> BillStatuses \cup {"none"}]
    BY DEF TypesInv, BillInv, BillTypeOK, BillRow
  <2>3. g \in RefreshCall /\ g.ids = f.ids /\ g.snap = snap /\ f.ids \subseteq Payers
    <3>1. f \in RefreshCall /\ f.ids \subseteq Payers
      BY <1>0 DEF RefreshCall
    <3> HIDE DEF snap
    <3> QED
      BY <2>2, <3>1, RefreshFields
  <2>4. \A p \in f.ids : snap[p] = "completed" => bills[p].status = "completed"
    BY <2>3
  <2> HIDE DEF g, snap
  <2> QED
    BY <1>a, <2>1, <2>3, <2>4 DEF RefreshInv
<1>3. ASSUME NEW f \in refreshes, NEW p \in Payers, RefreshSave(f, p) PROVE CoreInv'
  <2> DEFINE T == f.todo \ {p}
             g == [f EXCEPT !.todo = T]
  <2>1. /\ refreshes' = (refreshes \ {f}) \cup {g}
        /\ UNCHANGED <<bills, reqs, calls, body, reply, work, status, members, linked>>
    BY <1>3 DEF RefreshSave, billVars, callVars, jobVars
  <2>2. T \in SUBSET Payers /\ f \in RefreshCall
    BY <1>0 DEF RefreshCall
  <2>3. g \in RefreshCall /\ g.ids = f.ids /\ g.snap = f.snap /\ g.stage = f.stage
    <3> HIDE DEF T
    <3>1. f.snap \in [Payers -> BillStatuses \cup {"none"}]
      BY <2>2 DEF RefreshCall
    <3> QED
      BY <2>2, <3>1, RefreshFields
  <2> HIDE DEF g
  <2> QED
    BY <1>a, <2>1, <2>3 DEF RefreshInv
<1>4. ASSUME NEW f \in refreshes, RefreshSettle(f) PROVE CoreInv'
  <2>1. /\ refreshes' \subseteq refreshes
        /\ UNCHANGED <<calls, body, reply, work, bills, reqs, members, linked>>
    BY <1>4 DEF RefreshSettle, billVars, callVars, jobVars
  <2>2. status' = status \/ StatusMove
    <3>1. CASE Settles(f) /\ status = "collecting"
      <4>1. \A p \in members : bills[p].status = "completed"
        BY <1>4, <3>1 DEF RefreshSettle, Settles, RefreshInv
      <4> QED
        BY <1>4, <3>1, <4>1 DEF RefreshSettle, StatusMove
    <3> QED
      BY <1>4, <3>1 DEF RefreshSettle
  <2> QED
    BY <2>1, <2>2, CoreStep
<1>5. ASSUME NEW f \in refreshes, RefreshFails(f) PROVE CoreInv'
  BY <1>5, CoreStep DEF RefreshFails, billVars, callVars
<1> QED
  BY <1>1, <1>2, <1>3, <1>4, <1>5 DEF RefreshStep

LEMMA CoreNext == CoreInv /\ [WPNext]_vars => CoreInv'
<1> SUFFICES ASSUME CoreInv, [WPNext]_vars PROVE CoreInv'
  OBVIOUS
<1>1. CASE Clock
  BY <1>1, CoreFrame DEF Clock, LeaseExpires, SessionLost, coreVars, billVars, callVars, pocketVars
<1>2. CASE SenderStep
  BY <1>2, CoreFrame
  DEF SenderStep, TakeNote, Deliver, DeliveryFails, coreVars, billVars, callVars, jobVars, pocketVars
<1>3. CASE UNCHANGED vars
  BY <1>3, CoreFrame DEF vars, coreVars, billVars, callVars, jobVars, pocketVars
<1> QED
  BY <1>1, <1>2, <1>3, OwnerCore, QueueCore, JobCore, PaymentCore, UserCore, RefreshCore DEF WPNext

LEMMA CoreInit == WPInit => CoreInv
<1> SUFFICES ASSUME WPInit PROVE CoreInv
  OBVIOUS
<1>1. /\ bills = [p \in Payers |-> NoBill] /\ reqs = {} /\ calls = {} /\ body = {}
      /\ reply = [w \in Workers |-> "none"] /\ work = [w \in Workers |-> IdleWorker]
      /\ status = "draft" /\ members = {} /\ linked = {} /\ refreshes = {}
  BY WestPocketAssumption DEF WPInit, BillingInit, JobsInit
<1>2. TypesInv
  <2>1. BillInv
    BY <1>1, NoBillType DEF BillInv, BillTypeOK, SnapshotConsistent, AbsentIsUnwritten, NoBill
  <2> QED
    BY <1>1, <2>1, IdlePlace DEF TypesInv, Replies, PocketStatuses
<1>3. \A w \in Workers : work[w].pc = "idle" /\ reply[w] = "none"
  BY <1>1, IdlePlace
<1>4. \A p \in Payers : bills[p].status = "none"
  BY <1>1 DEF NoBill
<1>5. CallsInv /\ SealInv /\ RefreshInv
  BY <1>1, <1>3, <1>4 DEF CallsInv, SealInv, RefreshInv, SettledMeansPaid
<1>6. LinkInv
  BY <1>1, <1>3, <1>4 DEF LinkInv
<1> QED
  BY <1>2, <1>5, <1>6 DEF CoreInv

LEMMA CoreAlways == WPSpec => []CoreInv
BY CoreInit, CoreNext, PTL DEF WPSpec

\* Nobody owes anything for a cancelled collection and no payment was discarded:
\* neither a publisher that was held up nor a payer gets past the cancellation.
THEOREM CancelledClosed == WPSpec => []CancelledMeansClosed
<1>1. CoreInv => CancelledMeansClosed
  BY DEF CoreInv, SealInv, Sealed, CancelledMeansClosed
<1> QED
  BY <1>1, CoreAlways, PTL

\* No bill is closed beside one that was paid or is claimed to be.
THEOREM ClosedAllOrNothing == WPSpec => []AllOrNothingClosed
<1>1. CoreInv => AllOrNothingClosed
  BY DEF CoreInv, SealInv, Sealed, AllOrNothingClosed
<1> QED
  BY <1>1, CoreAlways, PTL

\* An open or settled collection knows a bill of every member.
THEOREM CollectionsComplete == WPSpec => []CollectionComplete
<1>1. CoreInv => CollectionComplete
  BY DEF CoreInv, LinkInv, Complete, CollectionComplete
<1> QED
  BY <1>1, CoreAlways, PTL

\* A pocket is settled only when every member has paid, although Refresh decides on
\* what it has read before.
THEOREM SettledPaid == WPSpec => []SettledMeansPaid
<1>1. CoreInv => SettledMeansPaid
  BY DEF CoreInv, RefreshInv
<1> QED
  BY <1>1, CoreAlways, PTL

-----------------------------------------------------------------------------
(* The refinement.                                                         *)

LEMMA StepRefines ==
  ASSUME CoreInv, [WPNext]_vars
  PROVE  [PocketLifecycle!AbsNext]_Status
<1> USE DEF CoreInv
<1>0. BillInv
  BY DEF TypesInv
<1>1. CASE bills' = bills
  BY <1>1 DEF Status
<1>2. ASSUME NEW p \in Payers, RowMoved(p)
      PROVE  [PocketLifecycle!AbsNext]_Status
  <2>1. /\ Status' = [Status EXCEPT ![p] = bills'[p].status]
        /\ <<Status[p], bills'[p].status>> \in UserMoves
    BY <1>0, <1>2, StatusMoved
  <2>2. CASE Status[p] = "unpaid" /\ bills'[p].status = "submitted"
    BY <2>1, <2>2 DEF Status, PocketLifecycle!AbsNext, PocketLifecycle!Claim
  <2>3. CASE Status[p] = "submitted" /\ bills'[p].status = "completed"
    BY <2>1, <2>3 DEF Status, PocketLifecycle!AbsNext, PocketLifecycle!Settle
  <2>4. CASE Status[p] = "submitted" /\ bills'[p].status = "unpaid"
    BY <2>1, <2>4 DEF Status, PocketLifecycle!AbsNext, PocketLifecycle!SendBack
  <2>5. CASE Status[p] = "submitted" /\ bills'[p].status = "submitted"
    BY <2>1, <2>5 DEF Status
  <2> QED
    BY <2>1, <2>2, <2>3, <2>4, <2>5 DEF UserMoves
<1>3. CASE UserRequestStep
  BY <1>0, <1>1, <1>2, <1>3, UserStepMoves DEF UserRequestStep
<1>4. ASSUME NEW b \in body, CreateBody(b)
      PROVE  [PocketLifecycle!AbsNext]_Status
  <2>1. CASE bills' # bills
    <3>1. b.payer \in Payers /\ CreateAllowed(b) /\ ~Exists(b.payer) /\ b.op = "create"
      BY <1>4, <2>1 DEF CreateBody, TypesInv, Body
    <3>2. bills' = [bills EXCEPT ![b.payer] = NewBill(NoBill.amount)]
      BY <1>4, <2>1, <3>1 DEF CreateBody
    <3>3. Status[b.payer] = "none" /\ Status' = [Status EXCEPT ![b.payer] = "unpaid"]
      BY <1>0, <3>1, <3>2, StatusOpened DEF Exists, Status
    <3>4. \A q \in Payers : Status[q] # "closed"
      BY <3>1 DEF SealInv, Sealed, CreateAllowed, Status
    <3> QED
      BY <3>1, <3>3, <3>4 DEF Status, PocketLifecycle!AbsNext, PocketLifecycle!Open
  <2> QED
    BY <1>1, <2>1
<1>5. ASSUME NEW b \in body, CancelBody(b)
      PROVE  [PocketLifecycle!AbsNext]_Status
  <2>1. CASE CancelAllowed(b)
    <3>1. Status' = [p \in Payers |-> IF p \in Payers /\ Status[p] \in {"unpaid", "submitted"}
                                      THEN "closed" ELSE Status[p]]
      BY <1>0, <1>5, <2>1, StatusClosed DEF CancelBody
    <3>2. \A q \in Payers : Status[q] \notin {"submitted", "completed"}
      BY <2>1 DEF CancelAllowed, Status
    <3>3. PocketLifecycle!Withdraw(Payers)
      BY <3>1, <3>2 DEF Status, PocketLifecycle!Withdraw
    <3> QED
      BY <3>3 DEF PocketLifecycle!AbsNext
  <2> QED
    BY <1>1, <1>5, <2>1 DEF CancelBody
<1>6. CASE PaymentStep \/ PaymentFails
  BY <1>1, <1>4, <1>5, <1>6 DEF PaymentStep, PaymentFails, Enter, Commit, BodyFails
<1>7. CASE OwnerStep \/ Clock \/ SenderStep \/ RefreshStep \/ (\E f \in refreshes : RefreshFails(f))
  BY <1>1, <1>7
  DEF OwnerStep, OwnerReads, ReplaceMembers, Publish, Cancel, Retry, Remind, Clock, SenderStep, TakeNote,
      Deliver, DeliveryFails, RefreshStep, RefreshRead, RefreshFetch, RefreshSave, RefreshSettle,
      RefreshFails, billVars
<1>8. ASSUME NEW w \in Workers, Claim(w) \/ QueueStep(w) \/ JobStep(w) \/ StepFails(w) \/ Crash(w)
      PROVE  [PocketLifecycle!AbsNext]_Status
  <2>1. bills' = bills
    BY <1>8
    DEF Claim, QueueStep, JobStep, StepFails, Crash, PublishStart, PublishNext, PublishSave,
        PublishCommit, CancelStart, CancelAnswered, CancelRevert, CancelCommit, billVars
  <2> QED
    BY <1>1, <2>1
<1> QED
  BY <1>1, <1>3, <1>6, <1>7, <1>8 DEF WPNext, vars, billVars

\* What the payment service promises to West Pocket holds in every instance: bills
\* keep to their life cycle and are withdrawn all together or not at all, and
\* nothing is opened afterwards.
THEOREM PocketRefinesLifecycle == WPSpec => ImplementsPocketLifecycle
<1>1. WPInit => PocketLifecycle!AbsInit
  BY DEF WPInit, BillingInit, PocketLifecycle!AbsInit, NoBill
<1>2. CoreInv /\ [WPNext]_vars => [PocketLifecycle!AbsNext]_[p \in Payers |-> bills[p].status]
  BY StepRefines DEF Status
<1> QED
  BY <1>1, <1>2, CoreAlways, PTL DEF WPSpec, ImplementsPocketLifecycle, PocketLifecycle!AbsSpec

-----------------------------------------------------------------------------
(* The jobs a pocket waits for.                                            *)

LEMMA RowUpdates ==
  ASSUME NEW r \in Row, NEW s \in JobStatuses, NEW n \in Int, NEW b \in BOOLEAN
  PROVE  /\ [r EXCEPT !.expired = b] \in Row /\ [r EXCEPT !.expired = b].status = r.status
         /\ [r EXCEPT !.status = s, !.expired = b] \in Row
         /\ [r EXCEPT !.status = s, !.expired = b].status = s
         /\ [r EXCEPT !.status = s, !.attempt = n, !.expired = b] \in Row
BY DEF Row

LEMMA NewRow == NoJob \in Row /\ NoJob.status = "none" /\ NewJob \in Row /\ NewJob.status = "queued"
<1>1. NoJob \in Row /\ NoJob.status = "none"
  BY DEF NoJob, Row, JobStatuses
<1>2. [NoJob EXCEPT !.status = "queued"] \in Row /\ [NoJob EXCEPT !.status = "queued"].status = "queued"
  BY <1>1 DEF Row, JobStatuses
<1> QED
  BY <1>1, <1>2 DEF NewJob

\* Only row j is written, and it says s.
Rewritten(j, s) ==
  /\ jobs' \in [JobIds -> Row]
  /\ jobs'[j].status = s
  /\ \A i \in JobIds \ {j} : jobs'[i] = jobs[i]

LEMMA QueueWrites ==
  ASSUME JobsInv, NEW j \in JobIds, jobs[j].status = "none", Queue(j)
  PROVE  Rewritten(j, "queued")
BY NewRow DEF Queue, Queued, Rewritten, JobsInv

LEMMA RetryWrites ==
  ASSUME JobsInv, NEW j \in JobIds, jobs' = Retried(j)
  PROVE  Rewritten(j, "queued")
<1> DEFINE row == [jobs[j] EXCEPT !.status = "queued", !.attempt = 0, !.expired = FALSE]
<1>1. row \in Row /\ row.status = "queued"
  <2>1. jobs[j] \in Row /\ "queued" \in JobStatuses /\ 0 \in Int /\ FALSE \in BOOLEAN
    BY DEF JobsInv, JobStatuses
  <2>2. row \in Row
    BY <2>1, RowUpdates
  <2> QED
    BY <2>1, <2>2 DEF Row
<1>2. jobs' = [jobs EXCEPT ![j] = row]
  BY DEF Retried
<1> HIDE DEF row
<1> QED
  BY <1>1, <1>2 DEF Rewritten, JobsInv

LEMMA ClaimWrites ==
  ASSUME JobsInv, NEW w \in Workers, NEW j \in JobIds, ClaimJob(w, j)
  PROVE  Rewritten(j, "running") /\ jobs[j].status \in {"queued", "running"}
<1> DEFINE row == [status |-> "running", attempt |-> NextAttempt(jobs[j].attempt),
                   lease_owner |-> w, expired |-> FALSE]
<1>1. row \in Row /\ row.status = "running"
  BY DEF JobsInv, Row, JobStatuses, NextAttempt
<1>2. jobs' = [jobs EXCEPT ![j] = row] /\ jobs[j].status \in {"queued", "running"}
  BY DEF ClaimJob, Claimable
<1> HIDE DEF row
<1> QED
  BY <1>1, <1>2 DEF Rewritten, JobsInv

LEMMA LockWrites ==
  ASSUME TypesInv, JobsInv, NEW w \in Workers, TryLock(w)
  PROVE  /\ jobs' = jobs \/ Rewritten(work[w].job, "queued")
         /\ work[w].job \in JobIds /\ jobs[work[w].job].status # "none"
         /\ Steps(w, "idle") \/ (Steps(w, "start") /\ work'[w].job = work[w].job)
<1> DEFINE j == work[w].job
           row == [jobs[j] EXCEPT !.status = "queued", !.attempt = @ - 1, !.expired = FALSE]
<1>1. j \in JobIds /\ jobs[j].status # "none"
  BY DEF TryLock, JobsInv, TypesInv, Place
<1>2. row \in Row /\ row.status = "queued"
  <2>1. /\ jobs[j] \in Row /\ jobs[j].attempt - 1 \in Int
        /\ "queued" \in JobStatuses /\ FALSE \in BOOLEAN
    BY <1>1 DEF JobsInv, Row, JobStatuses
  <2>2. row \in Row
    BY <2>1, RowUpdates
  <2> QED
    BY <2>1, <2>2 DEF Row
<1>3. jobs' = jobs \/ jobs' = [jobs EXCEPT ![j] = row]
  BY DEF TryLock
<1>4. Steps(w, "idle") \/ (Steps(w, "start") /\ work'[w].job = work[w].job)
  <2>1. Goto(w, "start") \/ work' = [work EXCEPT ![w] = IdleWorker]
    BY DEF TryLock
  <2>2. "start" \in Pcs
    BY DEF Pcs
  <2> QED
    BY <2>1, <2>2, GotoSteps, IdleSteps
<1> HIDE DEF row
<1> QED
  BY <1>1, <1>2, <1>3, <1>4 DEF Rewritten, JobsInv

\* finishJob leaves a row as done only for a job that went well; otherwise there
\* is a next attempt, or a job to retry.
LEMMA FinishWrites ==
  ASSUME TypesInv, JobsInv, NEW w \in Workers, FinishJob(w)
  PROVE  /\ work[w].job \in JobIds /\ jobs[work[w].job].status # "none"
         /\ \/ jobs' = jobs
            \/ \E s \in {"succeeded", "failed", "queued"} :
                 /\ Rewritten(work[w].job, s)
                 /\ s = "succeeded" => EndsWell(work[w].job)
         /\ Steps(w, "idle")
<1> DEFINE j == work[w].job
           s == JobOutcome(w)
           row == [jobs[j] EXCEPT !.status = s, !.expired = FALSE]
<1>1. j \in JobIds /\ jobs[j].status # "none"
  BY DEF FinishJob, JobsInv, TypesInv, Place
<1>2. s \in {"succeeded", "failed", "queued"} /\ (s = "succeeded" => work[w].verdict = "ok")
  BY DEF JobOutcome, FinalStatus
<1>3. s = "succeeded" => EndsWell(j)
  BY <1>2 DEF EndsWell, FinishJob
<1>4. jobs' = jobs \/ jobs' = [jobs EXCEPT ![j] = row]
  BY DEF FinishJob, FinishedRows
<1>5. Steps(w, "idle")
  BY IdleSteps DEF FinishJob
<1>6. row \in Row /\ row.status = s
  <2>1. jobs[j] \in Row /\ s \in JobStatuses /\ 0 \in Int
    BY <1>1, <1>2 DEF JobsInv, JobStatuses
  <2> HIDE DEF s
  <2> QED
    BY <2>1, RowUpdates
<1> HIDE DEF row, s
<1>7. jobs' = jobs \/ Rewritten(j, s)
  BY <1>1, <1>4, <1>6 DEF Rewritten, JobsInv
<1> QED
  BY <1>1, <1>2, <1>3, <1>5, <1>7

\* A step that keeps the rows that are there and the jobs that are awaited.
LEMMA JobsKept ==
  ASSUME TypesInv, JobsInv,
         work' \in [Workers -> Place],
         jobs' \in [JobIds -> Row], revision' \in Nat, revision' >= revision,
         \A j \in JobIds : jobs'[j].status = "none" <=> jobs[j].status = "none",
         \A j \in JobIds : Alive(j) /\ ~EndsWell(j) => Alive(j)',
         \A w \in Workers :
           \/ work'[w] = work[w]
           \/ work'[w].pc = "idle"
           \/ /\ jobs[work'[w].job].status # "none"
              /\ work'[w].pc \in {"publish", "publish_wait"} => work'[w].job = 0
              /\ work'[w].pc \in {"cancel_wait", "cancel_revert", "cancel_commit"} => work'[w].job # 0
              /\ work'[w].pc = "finish" /\ work'[w].verdict = "ok" =>
                   IF work'[w].job = 0 THEN status' # "publishing" ELSE status' # "cancelling",
         status' = status \/ status' \in {"collecting", "settled", "cancelled"}
  PROVE  JobsInv'
<1>1. \A w \in Workers :
        /\ work'[w].pc # "idle" => jobs'[work'[w].job].status # "none"
        /\ work'[w].pc \in {"publish", "publish_wait"} => work'[w].job = 0
        /\ work'[w].pc \in {"cancel_wait", "cancel_revert", "cancel_commit"} => work'[w].job # 0
  BY DEF JobsInv, Place
<1>2. \A j \in JobIds \ {0} : jobs'[j].status # "none" => j <= revision'
  BY WestPocketAssumption DEF JobsInv
<1>3. 0 \in JobIds
  BY WestPocketAssumption
<1>4. status' = "publishing" => ~EndsWell(0) /\ ~EndsWell(0)' /\ Alive(0)'
  <2>1. status' = "publishing" => status = "publishing"
    OBVIOUS
  <2>2. status' = "publishing" => ~EndsWell(0) /\ Alive(0)
    BY <2>1 DEF JobsInv
  <2>3. status' = "publishing" => ~EndsWell(0)'
    BY <2>2 DEF EndsWell
  <2> QED
    BY <1>3, <2>2, <2>3
<1>5. ASSUME status' = "cancelling"
      PROVE  \E j \in JobIds \ {0} : Alive(j)' /\ ~EndsWell(j)'
  <2>1. PICK j \in JobIds \ {0} : Alive(j) /\ ~EndsWell(j)
    BY <1>5 DEF JobsInv
  <2>2. ~EndsWell(j)'
    BY <1>5, <2>1 DEF EndsWell
  <2> QED
    BY <2>1, <2>2
<1>6. status' = "draft" => jobs'[0].status = "none"
  BY <1>3 DEF JobsInv
<1> QED
  BY <1>1, <1>2, <1>4, <1>5, <1>6 DEF JobsInv

\* A step of the handler of worker w.
LEMMA HandlerJobs ==
  ASSUME TypesInv, JobsInv, NEW w \in Workers, NEW pc \in Pcs \ {"idle", "claimed"},
         Running(w), Steps(w, pc), work'[w].job = work[w].job,
         pc \in {"publish", "publish_wait"} => work[w].job = 0,
         pc \in {"cancel_wait", "cancel_revert", "cancel_commit"} => work[w].job # 0,
         pc = "finish" /\ work'[w].verdict = "ok" =>
           IF work[w].job = 0 THEN status' # "publishing" ELSE status' # "cancelling",
         jobs' = jobs,
         \/ status' = status /\ revision' = revision
         \/ status' \in {"collecting", "settled", "cancelled"} /\ revision' = revision + 1
  PROVE  JobsInv'
<1>1. revision' \in Nat /\ revision' >= revision
  BY DEF JobsInv
<1>2. \A j \in JobIds : Alive(j) => Alive(j)'
  BY DEF Alive
<1>3. \A x \in Workers :
           \/ work'[x] = work[x]
           \/ work'[x].pc = "idle"
           \/ /\ jobs[work'[x].job].status # "none"
              /\ work'[x].pc \in {"publish", "publish_wait"} => work'[x].job = 0
              /\ work'[x].pc \in {"cancel_wait", "cancel_revert", "cancel_commit"} => work'[x].job # 0
              /\ work'[x].pc = "finish" /\ work'[x].verdict = "ok" =>
                   IF work'[x].job = 0 THEN status' # "publishing" ELSE status' # "cancelling"
  BY DEF Steps, JobsInv, Running
<1>4. work' \in [Workers -> Place] /\ jobs' \in [JobIds -> Row]
  BY DEF Steps, JobsInv
<1> QED
  BY <1>1, <1>2, <1>3, <1>4, JobsKept

LEMMA RewriteKept ==
  ASSUME JobsInv, NEW j \in JobIds, jobs[j].status # "none",
         NEW s \in {"queued", "running", "failed", "succeeded"}, Rewritten(j, s),
         s = "succeeded" => EndsWell(j)
  PROVE  /\ jobs' \in [JobIds -> Row]
         /\ \A i \in JobIds : jobs'[i].status = "none" <=> jobs[i].status = "none"
         /\ \A i \in JobIds : Alive(i) /\ ~EndsWell(i) => Alive(i)'
BY DEF Rewritten, Alive

LEMMA OwnerJobs ==
  ASSUME TypesInv, JobsInv, OwnerStep PROVE JobsInv'
<1>0. 0 \in JobIds
  BY WestPocketAssumption
<1>1. CASE OwnerReads \/ \E S \in SUBSET Payers : Remind(S)
  BY <1>1, JobsFrame DEF OwnerReads, Remind, jobVars, pocketVars
<1>2. ASSUME NEW M \in SUBSET Payers, ReplaceMembers(M) PROVE JobsInv'
  <2>1. /\ UNCHANGED <<jobs, work, status>> /\ revision' = revision + 1
    BY <1>2 DEF ReplaceMembers, jobVars
  <2>2. /\ work' \in [Workers -> Place] /\ jobs' \in [JobIds -> Row]
        /\ revision' \in Nat /\ revision' >= revision
    BY <2>1 DEF TypesInv, JobsInv
  <2>3. \A j \in JobIds : Alive(j) => Alive(j)'
    BY <2>1 DEF Alive
  <2> QED
    BY <2>1, <2>2, <2>3, JobsKept
<1>3. CASE Publish
  <2>1. /\ status = "draft" /\ status' = "publishing" /\ revision' = revision + 1
        /\ Queue(0) /\ UNCHANGED work /\ jobs[0].status = "none"
    BY <1>3 DEF Publish, JobsInv
  <2>2. Rewritten(0, "queued")
    BY <1>0, <2>1, QueueWrites
  <2>3. Alive(0)' /\ ~EndsWell(0)'
    BY <2>1, <2>2 DEF Alive, Rewritten, EndsWell, JobsInv
  <2>4. \A j \in JobIds : jobs[j].status # "none" => jobs'[j].status # "none"
    BY <2>1, <2>2 DEF Rewritten
  <2> QED
    BY <2>1, <2>2, <2>3, <2>4, WestPocketAssumption DEF JobsInv, Rewritten, TypesInv, Place
<1>4. CASE Cancel /\ status = "draft"
  <2>1. /\ status' = "cancelled" /\ revision' = revision + 1 /\ UNCHANGED <<jobs, work>>
    BY <1>4 DEF Cancel
  <2>2. /\ work' \in [Workers -> Place] /\ jobs' \in [JobIds -> Row]
        /\ revision' \in Nat /\ revision' >= revision
    BY <2>1 DEF TypesInv, JobsInv
  <2>3. \A j \in JobIds : Alive(j) => Alive(j)'
    BY <2>1 DEF Alive
  <2> QED
    BY <2>1, <2>2, <2>3, JobsKept
<1>5. CASE Cancel /\ status # "draft"
  <2>0. PICK j : j = revision + 1
    OBVIOUS
  <2>1. /\ status' = "cancelling" /\ revision' = j /\ Queue(j) /\ UNCHANGED work
        /\ revision < MaxRevision /\ revision \in Nat
    BY <1>5, <2>0 DEF Cancel, JobsInv
  <2>2. j \in JobIds \ {0}
    BY <2>0, <2>1, WestPocketAssumption
  <2>3. jobs[j].status = "none"
    BY <2>0, <2>1, <2>2 DEF JobsInv
  <2>4. Rewritten(j, "queued")
    BY <2>1, <2>2, <2>3, QueueWrites
  <2>5. Alive(j)' /\ ~EndsWell(j)'
    BY <2>1, <2>3, <2>4 DEF Alive, Rewritten, EndsWell, JobsInv
  <2>6. \A i \in JobIds : jobs[i].status # "none" => jobs'[i].status # "none"
    BY <2>2, <2>4 DEF Rewritten
  <2>7. \A i \in JobIds \ {0} : jobs'[i].status # "none" => i <= revision'
    BY <2>0, <2>1, <2>2, <2>4, WestPocketAssumption DEF JobsInv, Rewritten
  <2>8. \A w \in Workers :
          /\ work'[w].pc # "idle" => jobs'[work'[w].job].status # "none"
          /\ work'[w].pc \in {"publish", "publish_wait"} => work'[w].job = 0
          /\ work'[w].pc \in {"cancel_wait", "cancel_revert", "cancel_commit"} => work'[w].job # 0
    BY <2>1, <2>6 DEF JobsInv, TypesInv, Place
  <2>9. revision' \in Nat /\ jobs' \in [JobIds -> Row]
    BY <2>2, <2>4, WestPocketAssumption, <2>1 DEF Rewritten
  <2> QED
    BY <2>1, <2>2, <2>5, <2>7, <2>8, <2>9 DEF JobsInv
<1>6. ASSUME NEW j \in JobIds, Retry(j) PROVE JobsInv'
  <2>1. /\ UNCHANGED <<work, status, revision>> /\ jobs' = Retried(j) /\ jobs[j].status = "failed"
    BY <1>6 DEF Retry, pocketVars
  <2>2. Rewritten(j, "queued")
    BY <2>1, RetryWrites
  <2>3. /\ work' \in [Workers -> Place] /\ revision' \in Nat /\ revision' >= revision
    BY <2>1 DEF TypesInv, JobsInv
  <2>4. /\ jobs' \in [JobIds -> Row]
        /\ \A i \in JobIds : jobs'[i].status = "none" <=> jobs[i].status = "none"
        /\ \A i \in JobIds : Alive(i) /\ ~EndsWell(i) => Alive(i)'
    BY <2>1, <2>2, RewriteKept
  <2> QED
    BY <2>1, <2>3, <2>4, JobsKept
<1> QED
  BY <1>1, <1>2, <1>3, <1>4, <1>5, <1>6 DEF OwnerStep

\* The queue's own steps.
LEMMA QueueJobs ==
  ASSUME TypesInv, JobsInv, Clock \/ (\E w \in Workers : Claim(w) \/ QueueStep(w) \/ Crash(w))
  PROVE  JobsInv'
<1>0. UNCHANGED <<status, revision>>
  BY DEF Clock, Claim, QueueStep, Crash, pocketVars
\* A row is written, and a worker is idle or has claimed a job afterwards.
<1>a. ASSUME NEW j \in JobIds, jobs[j].status # "none",
             NEW s \in {"queued", "running", "failed", "succeeded"}, Rewritten(j, s),
             s = "succeeded" => EndsWell(j),
             \/ UNCHANGED work
             \/ \E w \in Workers : Steps(w, "idle")
             \/ \E w \in Workers : Steps(w, "claimed") /\ jobs[work'[w].job].status # "none"
      PROVE  JobsInv'
  <2>1. /\ jobs' \in [JobIds -> Row]
        /\ \A i \in JobIds : jobs'[i].status = "none" <=> jobs[i].status = "none"
        /\ \A i \in JobIds : Alive(i) /\ ~EndsWell(i) => Alive(i)'
    BY <1>a, RewriteKept
  <2>2. /\ work' \in [Workers -> Place] /\ revision' \in Nat /\ revision' >= revision
    BY <1>0, <1>a DEF TypesInv, JobsInv, Steps
  <2>3. \A w \in Workers :
           \/ work'[w] = work[w]
           \/ work'[w].pc = "idle"
           \/ work'[w].pc = "claimed" /\ jobs[work'[w].job].status # "none"
    BY <1>a DEF Steps
  <2> QED
    BY <1>0, <2>1, <2>2, <2>3, JobsKept
\* The rows stay as they are.
<1>b. ASSUME jobs' = jobs,
             NEW w \in Workers,
             Steps(w, "idle") \/ (Steps(w, "start") /\ jobs[work'[w].job].status # "none")
      PROVE  JobsInv'
  <2>1. /\ work' \in [Workers -> Place] /\ revision' \in Nat /\ revision' >= revision
        /\ jobs' \in [JobIds -> Row]
    BY <1>0, <1>b DEF TypesInv, JobsInv, Steps
  <2>2. \A i \in JobIds : Alive(i) => Alive(i)'
    BY <1>b DEF Alive
  <2>3. \A x \in Workers :
           \/ work'[x] = work[x]
           \/ work'[x].pc = "idle"
           \/ work'[x].pc = "start" /\ jobs[work'[x].job].status # "none"
    BY <1>b DEF Steps
  <2> QED
    BY <1>0, <1>b, <2>1, <2>2, <2>3, JobsKept
<1>1. ASSUME NEW w \in Workers, NEW j \in JobIds, ClaimJob(w, j) PROVE JobsInv'
  <2>1. /\ Rewritten(j, "running") /\ jobs[j].status # "none"
        /\ Steps(w, "claimed") /\ work'[w].job = j
    BY <1>1, ClaimWrites, ClaimSteps
  <2> QED
    BY <1>a, <2>1
<1>2. ASSUME NEW w \in Workers, TryLock(w) PROVE JobsInv'
  <2>1. CASE jobs' = jobs
    BY <1>2, <1>b, <2>1, LockWrites
  <2>2. CASE jobs' # jobs
    <3>1. Steps(w, "idle")
      BY <1>2, <2>2, IdleSteps DEF TryLock
    <3> QED
      BY <1>2, <1>a, <2>2, <3>1, LockWrites
  <2> QED
    BY <2>1, <2>2
<1>3. ASSUME NEW w \in Workers, FinishJob(w) PROVE JobsInv'
  BY <1>3, <1>a, <1>b, FinishWrites
<1>4. ASSUME NEW w \in Workers, CrashWorker(w) PROVE JobsInv'
  BY <1>4, <1>b, IdleSteps DEF CrashWorker
<1>5. ASSUME NEW j \in JobIds, LeaseExpires(j) PROVE JobsInv'
  <2> DEFINE row == [jobs[j] EXCEPT !.expired = TRUE]
  <2>1. /\ jobs' = [jobs EXCEPT ![j] = row] /\ jobs[j].status = "running" /\ UNCHANGED work
    BY <1>5 DEF LeaseExpires
  <2>2. row \in Row /\ row.status = "running"
    <3>1. jobs[j] \in Row /\ TRUE \in BOOLEAN /\ "running" \in JobStatuses /\ 0 \in Int
      BY DEF JobsInv, JobStatuses
    <3> QED
      BY <2>1, <3>1, RowUpdates
  <2> HIDE DEF row
  <2>3. Rewritten(j, "running")
    BY <2>1, <2>2 DEF Rewritten, JobsInv
  <2> QED
    BY <1>a, <2>1, <2>3
<1>6. CASE SessionLost
  BY <1>0, <1>6, JobsFrame DEF SessionLost
<1> QED
  BY <1>1, <1>2, <1>3, <1>4, <1>5, <1>6 DEF Clock, Claim, QueueStep, Crash

\* A handler reports success only when the pocket no longer waits for its job.
LEMMA JobJobs ==
  ASSUME TypesInv, JobsInv, NEW w \in Workers, JobStep(w) \/ StepFails(w)
  PROVE  JobsInv'
<1>0. Verdicts = {"ok", "retry", "terminal"} /\ \A pc \in {"publish", "publish_wait", "cancel_wait",
        "cancel_revert", "cancel_commit", "finish"} : pc \in Pcs \ {"idle", "claimed"}
  BY DEF Verdicts, Pcs
<1>1. CASE PublishStart(w)
  <2>1. /\ work[w].pc = "start" /\ work[w].job = 0 /\ UNCHANGED <<jobs, status, revision>>
    BY <1>1 DEF PublishStart, pocketVars
  <2>2. CASE status = "publishing"
    <3> DEFINE place == [work[w] EXCEPT !.pc = "publish", !.left = members]
    <3>1. place \in Place /\ place.pc = "publish" /\ place.job = work[w].job
      BY DEF TypesInv, Place, Pcs
    <3>2. work' = [work EXCEPT ![w] = place]
      BY <1>1, <2>2 DEF PublishStart
    <3> HIDE DEF place
    <3>3. Steps(w, "publish") /\ work'[w].job = work[w].job
      BY <3>1, <3>2 DEF Steps, TypesInv
    <3> QED
      BY <1>0, <2>1, <3>3, HandlerJobs DEF Running
  <2>3. CASE status # "publishing"
    <3>1. Steps(w, "finish") /\ work'[w].job = work[w].job
      BY <1>0, <1>1, <2>3, ReturnSteps DEF PublishStart
    <3> QED
      BY <1>0, <2>1, <2>3, <3>1, HandlerJobs DEF Running
  <2> QED
    BY <2>2, <2>3
<1>2. ASSUME NEW p \in Payers, PublishNext(w, p) PROVE JobsInv'
  <2>1. /\ work[w].pc = "publish" /\ UNCHANGED <<jobs, status, revision>> /\ work[w].job = 0
    BY <1>2 DEF PublishNext, pocketVars, JobsInv
  <2>2. CASE status = "publishing"
    <3>1. Steps(w, "publish_wait") /\ work'[w].job = work[w].job
      BY <1>0, <1>2, <2>2, GotoSteps DEF PublishNext
    <3> QED
      BY <1>0, <2>1, <3>1, HandlerJobs DEF Running
  <2>3. CASE status # "publishing"
    <3>1. Steps(w, "finish") /\ work'[w].job = work[w].job
      BY <1>0, <1>2, <2>3, ReturnSteps DEF PublishNext
    <3> QED
      BY <1>0, <2>1, <2>3, <3>1, HandlerJobs DEF Running
  <2> QED
    BY <2>2, <2>3
<1>3. ASSUME NEW p \in Payers, PublishSave(w, p) PROVE JobsInv'
  <2>1. /\ work[w].pc = "publish_wait" /\ UNCHANGED <<jobs, status, revision>> /\ work[w].job = 0
    BY <1>3 DEF PublishSave, JobsInv
  <2>2. CASE work' = [work EXCEPT ![w].pc = "publish", ![w].left = @ \ {p}]
    <3> DEFINE place == [work[w] EXCEPT !.pc = "publish", !.left = @ \ {p}]
    <3>1. place \in Place /\ place.pc = "publish" /\ place.job = work[w].job
      BY DEF TypesInv, Place, Pcs
    <3>2. work' = [work EXCEPT ![w] = place]
      BY <2>2
    <3> HIDE DEF place
    <3>3. Steps(w, "publish") /\ work'[w].job = work[w].job
      BY <3>1, <3>2 DEF Steps, TypesInv
    <3> QED
      BY <1>0, <2>1, <3>3, HandlerJobs DEF Running
  <2>3. ASSUME NEW v \in {"terminal", "retry"}, Return(w, v) PROVE JobsInv'
    <3>1. Steps(w, "finish") /\ work'[w].job = work[w].job /\ work'[w].verdict # "ok"
      BY <1>0, <2>3, ReturnSteps
    <3> QED
      BY <1>0, <2>1, <3>1, HandlerJobs DEF Running
  <2> QED
    BY <1>3, <2>2, <2>3 DEF PublishSave
<1>4. CASE PublishCommit(w)
  <2>1. /\ work[w].pc = "publish" /\ UNCHANGED jobs /\ work[w].job = 0
        /\ Steps(w, "finish") /\ work'[w].job = work[w].job
        /\ IF status = "publishing" THEN status' = "collecting" /\ revision' = revision + 1
           ELSE UNCHANGED <<status, revision>>
    BY <1>0, <1>4, ReturnSteps DEF PublishCommit, JobsInv
  <2> QED
    BY <1>0, <2>1, HandlerJobs DEF Running
<1>5. CASE CancelStart(w)
  <2>1. /\ work[w].pc = "start" /\ work[w].job # 0 /\ UNCHANGED <<jobs, status, revision>>
    BY <1>5 DEF CancelStart, pocketVars
  <2>2. CASE status = "cancelling"
    <3>1. Steps(w, "cancel_wait") /\ work'[w].job = work[w].job
      BY <1>0, <1>5, <2>2, GotoSteps DEF CancelStart
    <3> QED
      BY <1>0, <2>1, <3>1, HandlerJobs DEF Running
  <2>3. CASE status # "cancelling"
    <3>1. Steps(w, "finish") /\ work'[w].job = work[w].job
      BY <1>0, <1>5, <2>3, ReturnSteps DEF CancelStart
    <3> QED
      BY <1>0, <2>1, <2>3, <3>1, HandlerJobs DEF Running
  <2> QED
    BY <2>2, <2>3
<1>6. CASE CancelAnswered(w)
  <2>1. /\ work[w].pc = "cancel_wait" /\ UNCHANGED <<jobs, status, revision>> /\ work[w].job # 0
    BY <1>6 DEF CancelAnswered, pocketVars, JobsInv
  <2>2. ASSUME NEW pc \in {"cancel_commit", "cancel_revert"}, Goto(w, pc) PROVE JobsInv'
    <3>1. Steps(w, pc) /\ work'[w].job = work[w].job
      BY <1>0, <2>2, GotoSteps
    <3> QED
      BY <1>0, <2>1, <3>1, HandlerJobs DEF Running
  <2>3. CASE Return(w, "retry")
    <3>1. Steps(w, "finish") /\ work'[w].job = work[w].job /\ work'[w].verdict # "ok"
      BY <1>0, <2>3, ReturnSteps
    <3> QED
      BY <1>0, <2>1, <3>1, HandlerJobs DEF Running
  <2> QED
    BY <1>6, <2>2, <2>3 DEF CancelAnswered
<1>7. CASE CancelRevert(w)
  <2>1. /\ work[w].pc = "cancel_revert" /\ UNCHANGED jobs
        /\ Steps(w, "finish") /\ work'[w].job = work[w].job /\ work'[w].verdict # "ok"
        /\ \/ UNCHANGED <<status, revision>>
           \/ status' = "collecting" /\ revision' = revision + 1
    BY <1>0, <1>7, ReturnSteps DEF CancelRevert
  <2> QED
    BY <1>0, <2>1, HandlerJobs DEF Running
<1>8. CASE CancelCommit(w)
  <2>1. /\ work[w].pc = "cancel_commit" /\ UNCHANGED jobs /\ work[w].job # 0
    BY <1>8 DEF CancelCommit, JobsInv
  <2>2. CASE status = "cancelling"
    <3>1. /\ Steps(w, "finish") /\ work'[w].job = work[w].job
          /\ status' = "cancelled" /\ revision' = revision + 1
      BY <1>0, <1>8, <2>2, ReturnSteps DEF CancelCommit
    <3> QED
      BY <1>0, <2>1, <3>1, HandlerJobs DEF Running
  <2>3. CASE status # "cancelling"
    <3>1. /\ Steps(w, "finish") /\ work'[w].job = work[w].job /\ work'[w].verdict # "ok"
          /\ UNCHANGED <<status, revision>>
      BY <1>0, <1>8, <2>3, ReturnSteps DEF CancelCommit
    <3> QED
      BY <1>0, <2>1, <3>1, HandlerJobs DEF Running
  <2> QED
    BY <2>2, <2>3
<1>9. CASE StepFails(w)
  <2>1. /\ Running(w) /\ UNCHANGED <<jobs, status, revision>>
        /\ Steps(w, "finish") /\ work'[w].job = work[w].job /\ work'[w].verdict # "ok"
    BY <1>0, <1>9, ReturnSteps DEF StepFails, pocketVars
  <2> QED
    BY <1>0, <2>1, HandlerJobs
<1> QED
  BY <1>1, <1>2, <1>3, <1>4, <1>5, <1>6, <1>7, <1>8, <1>9 DEF JobStep

LEMMA JobsNext == TypesInv /\ JobsInv /\ [WPNext]_vars => JobsInv'
<1> SUFFICES ASSUME TypesInv, JobsInv, [WPNext]_vars PROVE JobsInv'
  OBVIOUS
<1>1. CASE PaymentStep \/ PaymentFails \/ UserRequestStep \/ SenderStep \/ UNCHANGED vars
  BY <1>1, JobsFrame
  DEF PaymentStep, PaymentFails, UserRequestStep, SenderStep, TakeNote, Deliver, DeliveryFails, vars,
      jobVars, pocketVars
<1>2. CASE RefreshStep \/ (\E f \in refreshes : RefreshFails(f))
  <2>1. /\ UNCHANGED <<jobs, work>>
        /\ \/ UNCHANGED <<status, revision>>
           \/ status' = "settled" /\ revision' = revision + 1
    BY <1>2 DEF RefreshStep, RefreshRead, RefreshFetch, RefreshSave, RefreshSettle, RefreshFails, jobVars
  <2>2. /\ work' \in [Workers -> Place] /\ jobs' \in [JobIds -> Row]
        /\ revision' \in Nat /\ revision' >= revision
    BY <2>1 DEF TypesInv, JobsInv
  <2>3. \A j \in JobIds : Alive(j) => Alive(j)'
    BY <2>1 DEF Alive
  <2> QED
    BY <2>1, <2>2, <2>3, JobsKept
<1> QED
  BY <1>1, <1>2, OwnerJobs, QueueJobs, JobJobs DEF WPNext

LEMMA JobsAlways == WPSpec => []JobsInv
<1>1. WPInit => JobsInv
  <2> SUFFICES ASSUME WPInit PROVE JobsInv
    OBVIOUS
  <2>1. /\ jobs = [j \in JobIds |-> NoJob] /\ work = [w \in Workers |-> IdleWorker]
        /\ status = "draft" /\ revision = 1 /\ 0 \in JobIds
    BY WestPocketAssumption DEF WPInit, JobsInit
  <2> QED
    BY <2>1, NewRow, IdlePlace DEF JobsInv, EndsWell
<1> QED
  BY <1>1, JobsNext, CoreAlways, PTL DEF WPSpec, CoreInv

\* A pocket that waits for its publish job or for a cancellation always has a job
\* that will be run again or that the owner can retry: no worker, whatever dies,
\* ends the job as done while the pocket still waits.
THEOREM NobodyStranded == WPSpec => []NeverStranded
<1>1. JobsInv => NeverStranded
  BY DEF JobsInv, NeverStranded
<1> QED
  BY <1>1, JobsAlways, PTL

-----------------------------------------------------------------------------
(* Behaviours without a fault.                                             *)

LEMMA FaultsGrow ==
  ASSUME FaultlessInv, [WPNext]_vars
  PROVE  /\ jobLock' \in [Locks -> Workers \cup {NoWorker}]
         /\ faults' = faults \/ faults' = faults + 1
<1>1. CASE OwnerStep
  BY <1>1 DEF FaultlessInv, OwnerStep, OwnerReads, ReplaceMembers, Publish, Cancel, Retry, Remind, jobVars
<1>2. ASSUME NEW w \in Workers, Claim(w) \/ QueueStep(w)
      PROVE  jobLock' \in [Locks -> Workers \cup {NoWorker}] /\ faults' = faults
  BY <1>2 DEF FaultlessInv, Claim, QueueStep, ClaimJob, TryLock, FinishJob, ReleasedBy
<1>3. ASSUME NEW w \in Workers, JobStep(w)
      PROVE  jobLock' = jobLock /\ (faults' = faults \/ faults' = faults + 1)
  BY <1>3
  DEF JobStep, PublishStart, PublishNext, PublishSave, PublishCommit, CancelStart, CancelAnswered,
      CancelRevert, CancelCommit, Fault
<1>4. ASSUME NEW w \in Workers, StepFails(w) \/ Crash(w)
      PROVE  jobLock' \in [Locks -> Workers \cup {NoWorker}] /\ faults' = faults + 1
  BY <1>4 DEF FaultlessInv, StepFails, Crash, CrashWorker, Fault, ReleasedBy
<1>5. CASE Clock
  BY <1>5 DEF FaultlessInv, Clock, LeaseExpires, SessionLost, Fault
<1>6. CASE PaymentStep \/ PaymentFails \/ UserRequestStep
  BY <1>6 DEF FaultlessInv, PaymentStep, PaymentFails, UserRequestStep, Fault, jobVars
<1>7. CASE RefreshStep \/ (\E f \in refreshes : RefreshFails(f))
  BY <1>7
  DEF FaultlessInv, RefreshStep, RefreshRead, RefreshFetch, RefreshSave, RefreshSettle, RefreshFails,
      Fault, jobVars
<1>8. CASE SenderStep \/ UNCHANGED vars
  BY <1>8 DEF FaultlessInv, SenderStep, TakeNote, Deliver, DeliveryFails, Fault, vars, jobVars
<1> QED
  BY <1>1, <1>2, <1>3, <1>4, <1>5, <1>6, <1>7, <1>8 DEF FaultlessInv, WPNext

LEMMA OneLock == \E l : Locks = {l} /\ \A j \in JobIds : LockOf[j] = l
<1>1. 0 \in JobIds
  BY WestPocketAssumption
<1>2. \A j \in JobIds : LockOf[j] = LockOf[0]
  BY <1>1, WestPocketAssumption
<1>3. Locks = {LockOf[0]}
  BY <1>1, <1>2 DEF Locks
<1> QED
  BY <1>2, <1>3

\* The handlers of two jobs never run together.
LEMMA Alone ==
  ASSUME Calm, NEW w \in Workers, NEW x \in Workers, Running(w), Running(x)
  PROVE  w = x
BY OneLock DEF Calm

\* A step of the handler of worker w.
LEMMA HandlerCalm ==
  ASSUME Calm, NEW w \in Workers, NEW pc \in Pcs, Running(w), Steps(w, pc),
         UNCHANGED <<jobLock, crossed>>,
         \A c \in calls' \cup body' : c \in calls \cup body \/ c.from = w
  PROVE  Calm'
<1>1. \A x \in Workers : Running(x)' => \A l \in Locks : jobLock'[l] = x
  BY Alone DEF Calm, Running, Steps
<1> QED
  BY <1>1 DEF Calm

\* The handler of worker w finds no cancel call of anybody else, and none of its own
\* while it holds an answer.
LEMMA NothingCrosses ==
  ASSUME CoreInv, Calm, NEW w \in Workers, HoldsRefusal(w), NEW b \in body, b.op = "cancel"
  PROVE  FALSE
<1>1. b.from \in Workers /\ work[b.from].pc = "cancel_wait" /\ reply[b.from] = "none"
  BY DEF Calm, CoreInv, CallsInv, Waits
<1>2. Running(w) /\ Running(b.from)
  BY <1>1 DEF HoldsRefusal, Running
<1>3. b.from = w
  BY <1>1, <1>2, Alone
<1> QED
  BY <1>1, <1>3 DEF HoldsRefusal

LEMMA JobCalm ==
  ASSUME CoreInv, Calm, NEW w \in Workers, JobStep(w)
  PROVE  Calm'
<1> USE DEF CoreInv
<1>0. Verdicts = {"ok", "retry", "terminal"} /\ \A pc \in {"publish", "publish_wait", "cancel_wait",
        "cancel_revert", "cancel_commit", "finish"} : pc \in Pcs
  BY DEF Verdicts, Pcs
<1>1. CASE PublishStart(w)
  <2>1. Running(w) /\ UNCHANGED <<jobLock, calls, body, crossed>>
    BY <1>1 DEF PublishStart, Running, callVars, pocketVars
  <2>2. Steps(w, "publish") \/ Steps(w, "finish")
    <3> DEFINE place == [work[w] EXCEPT !.pc = "publish", !.left = members]
    <3>1. place \in Place /\ place.pc = "publish"
      BY DEF TypesInv, Place, Pcs
    <3>2. work' = [work EXCEPT ![w] = place] \/ Return(w, "ok")
      BY <1>1 DEF PublishStart
    <3> HIDE DEF place
    <3> QED
      BY <1>0, <3>1, <3>2, ReturnSteps DEF Steps, TypesInv
  <2> QED
    BY <1>0, <2>1, <2>2, HandlerCalm
<1>2. ASSUME NEW p \in Payers, PublishNext(w, p) PROVE Calm'
  <2>1. /\ Running(w) /\ UNCHANGED <<jobLock, body, crossed>>
        /\ \A c \in calls' : c \in calls \/ c.from = w
    BY <1>2 DEF PublishNext, Running, pocketVars, Send
  <2>2. Steps(w, "publish_wait") \/ Steps(w, "finish")
    BY <1>0, <1>2, GotoSteps, ReturnSteps DEF PublishNext
  <2> QED
    BY <1>0, <2>1, <2>2, HandlerCalm
<1>3. ASSUME NEW p \in Payers, PublishSave(w, p) PROVE Calm'
  <2>1. Running(w) /\ UNCHANGED <<jobLock, calls, body, crossed>>
    BY <1>3 DEF PublishSave, Running
  <2>2. Steps(w, "publish") \/ Steps(w, "finish")
    <3> DEFINE place == [work[w] EXCEPT !.pc = "publish", !.left = @ \ {p}]
    <3>1. place \in Place /\ place.pc = "publish"
      BY DEF TypesInv, Place, Pcs
    <3>2. \/ work' = [work EXCEPT ![w] = place]
          \/ \E v \in {"terminal", "retry"} : Return(w, v)
      BY <1>3 DEF PublishSave
    <3> HIDE DEF place
    <3> QED
      BY <1>0, <3>1, <3>2, ReturnSteps DEF Steps, TypesInv
  <2> QED
    BY <1>0, <2>1, <2>2, HandlerCalm
<1>4. CASE PublishCommit(w) \/ CancelCommit(w)
  <2>1. Running(w) /\ UNCHANGED <<jobLock, calls, body, crossed>>
    BY <1>4 DEF PublishCommit, CancelCommit, Running, callVars
  <2>2. Steps(w, "finish")
    BY <1>0, <1>4, ReturnSteps DEF PublishCommit, CancelCommit
  <2> QED
    BY <1>0, <2>1, <2>2, HandlerCalm
<1>5. CASE CancelStart(w)
  <2>1. /\ Running(w) /\ UNCHANGED <<jobLock, body, crossed>>
        /\ \A c \in calls' : c \in calls \/ c.from = w
    BY <1>5 DEF CancelStart, Running, pocketVars, Send
  <2>2. Steps(w, "cancel_wait") \/ Steps(w, "finish")
    BY <1>0, <1>5, GotoSteps, ReturnSteps DEF CancelStart
  <2> QED
    BY <1>0, <2>1, <2>2, HandlerCalm
<1>6. CASE CancelAnswered(w)
  <2>1. Running(w) /\ UNCHANGED <<jobLock, calls, body, crossed>>
    BY <1>6 DEF CancelAnswered, Running, pocketVars
  <2>2. \E pc \in {"cancel_commit", "cancel_revert", "finish"} : Steps(w, pc)
    BY <1>0, <1>6, GotoSteps, ReturnSteps DEF CancelAnswered
  <2> QED
    BY <1>0, <2>1, <2>2, HandlerCalm
<1>7. CASE CancelRevert(w)
  <2>1. ~RevertCrosses
    BY <1>7, NothingCrosses DEF RevertCrosses, HoldsRefusal, CancelRevert
  <2>2. Running(w) /\ UNCHANGED <<jobLock, calls, body, crossed>>
    BY <1>7, <2>1 DEF CancelRevert, Running, callVars, Calm
  <2>3. Steps(w, "finish")
    BY <1>0, <1>7, ReturnSteps DEF CancelRevert
  <2> QED
    BY <1>0, <2>2, <2>3, HandlerCalm
<1> QED
  BY <1>1, <1>2, <1>3, <1>4, <1>5, <1>6, <1>7 DEF JobStep

\* Claims, locks and the end of a job.
LEMMA QueueCalm ==
  ASSUME CoreInv, Calm, jobLock \in [Locks -> Workers \cup {NoWorker}],
         NEW w \in Workers, Claim(w) \/ QueueStep(w)
  PROVE  Calm'
<1> USE DEF CoreInv
<1>0. UNCHANGED <<calls, body, crossed>>
  BY DEF Claim, QueueStep, callVars, pocketVars
<1>1. SUFFICES \A x \in Workers : Running(x)' => \A l \in Locks : jobLock'[l] = x
  BY <1>0 DEF Calm
<1>2. ASSUME NEW j \in JobIds, ClaimJob(w, j)
      PROVE  \A x \in Workers : Running(x)' => \A l \in Locks : jobLock'[l] = x
  <2>1. Steps(w, "claimed") /\ jobLock' = jobLock
    BY <1>2, ClaimSteps DEF ClaimJob
  <2> QED
    BY <2>1 DEF Calm, Running, Steps
<1>3. CASE TryLock(w)
  <2>0. work[w].job \in JobIds
    BY <1>3 DEF TypesInv, Place
  <2>1. CASE Goto(w, "start") /\ jobLock[LockOf[work[w].job]] = NoWorker
             /\ jobLock' = [jobLock EXCEPT ![LockOf[work[w].job]] = w]
    <3>1. Steps(w, "start")
      BY <2>1, GotoSteps DEF Pcs
    <3>2. PICK l : Locks = {l} /\ LockOf[work[w].job] = l
      BY <2>0, OneLock
    <3>3. jobLock'[l] = w /\ \A x \in Workers \ {w} : ~Running(x)
      BY <2>1, <3>2, AsyncJobsAssumption DEF Calm
    <3> QED
      BY <3>1, <3>2, <3>3 DEF Running, Steps
  <2>2. CASE work' = [work EXCEPT ![w] = IdleWorker] /\ jobLock' = jobLock
    <3>1. Steps(w, "idle")
      BY <2>2, IdleSteps
    <3> QED
      BY <2>2, <3>1 DEF Calm, Running, Steps
  <2> QED
    BY <1>3, <2>1, <2>2 DEF TryLock
<1>4. CASE FinishJob(w)
  <2>1. Steps(w, "idle") /\ Running(w)
    BY <1>4, IdleSteps DEF FinishJob, Running
  <2>2. \A x \in Workers : Running(x)' => x # w /\ Running(x)
    BY <2>1 DEF Running, Steps
  <2> QED
    BY <2>1, <2>2, Alone
<1> QED
  BY <1>2, <1>3, <1>4 DEF Claim, QueueStep

LEMMA PaymentCalm == ASSUME CoreInv, Calm, PaymentStep PROVE Calm'
<1>0. UNCHANGED <<work, jobLock>>
  BY DEF PaymentStep, jobVars
<1>1. ASSUME NEW c \in calls, Enter(c, status), UNCHANGED crossed PROVE Calm'
  <2>1. /\ calls' \subseteq calls
        /\ \A b \in body' : b.from = c.from
    BY <1>1 DEF Enter
  <2> QED
    BY <1>0, <1>1, <2>1 DEF Calm, Running
<1>2. ASSUME NEW b \in body, Commit(b), crossed' = (crossed \/ CloseCrosses(b)) PROVE Calm'
  <2>1. calls' = calls /\ body' \subseteq body
    BY <1>2 DEF Commit, CreateBody, CancelBody
  <2>2. ~CloseCrosses(b)
    BY <1>2, NothingCrosses DEF CloseCrosses
  <2> QED
    BY <1>0, <1>2, <2>1, <2>2 DEF Calm, Running
<1> QED
  BY <1>1, <1>2 DEF PaymentStep

LEMMA CalmNext == CoreInv /\ FaultlessInv /\ [WPNext]_vars => FaultlessInv'
<1> SUFFICES ASSUME CoreInv, FaultlessInv, [WPNext]_vars PROVE FaultlessInv'
  OBVIOUS
<1>0. SUFFICES ASSUME faults' = 0 PROVE Calm'
  BY FaultsGrow DEF FaultlessInv
<1>1. /\ faults = 0 /\ faults' = faults /\ ~Fault /\ Calm
      /\ faults \in Nat /\ jobLock \in [Locks -> Workers \cup {NoWorker}]
  BY <1>0, FaultsGrow DEF FaultlessInv, Fault
<1>2. CASE OwnerStep
  BY <1>1, <1>2, CalmFrame
  DEF OwnerStep, OwnerReads, ReplaceMembers, Publish, Cancel, Retry, Remind, callVars, jobVars, pocketVars
<1>3. CASE RefreshStep \/ (\E f \in refreshes : RefreshFails(f))
  BY <1>1, <1>3, CalmFrame
  DEF RefreshStep, RefreshRead, RefreshFetch, RefreshSave, RefreshSettle, RefreshFails, callVars, jobVars
<1>4. CASE Clock \/ SenderStep \/ UserRequestStep \/ UNCHANGED vars
  BY <1>1, <1>4, CalmFrame
  DEF Clock, LeaseExpires, SessionLost, SenderStep, TakeNote, Deliver, DeliveryFails, UserRequestStep,
      vars, callVars, jobVars, pocketVars
<1>5. CASE \E w \in Workers : StepFails(w) \/ Crash(w)
  BY <1>1, <1>5 DEF StepFails, Crash, CrashWorker
<1>6. CASE PaymentFails
  BY <1>1, <1>6 DEF PaymentFails
<1> QED
  BY <1>1, <1>2, <1>3, <1>4, <1>5, <1>6, JobCalm, QueueCalm, PaymentCalm DEF WPNext

-----------------------------------------------------------------------------
(* Refusals and closed bills, with any number of faults.                   *)

\* A step in which nobody is refused anything and nothing is closed.
LEMMA CrossKept ==
  ASSUME CrossInv, crossed => crossed',
         \A p \in Payers : bills'[p].status = "closed" => bills[p].status = "closed",
         \A b \in body' : \E c \in body : c.op = b.op /\ c.seen = b.seen,
         \A w \in Workers : HoldsRefusal(w)' => HoldsRefusal(w),
         \/ status' = status
         \/ status \notin {"cancelling", "cancelled"}
         \/ status = "cancelling" /\ status' = "cancelled"
  PROVE  CrossInv'
BY DEF CrossInv

LEMMA JobCross ==
  ASSUME CoreInv, CrossInv, NEW w \in Workers, JobStep(w)
  PROVE  CrossInv'
<1> USE DEF CoreInv
<1>0. Verdicts = {"ok", "retry", "terminal"} /\ \A pc \in {"publish", "publish_wait", "cancel_wait",
        "cancel_revert", "cancel_commit", "finish"} : pc \in Pcs
  BY DEF Verdicts, Pcs
<1>1. UNCHANGED <<bills, body>> /\ \A x \in Workers \ {w} : reply'[x] = reply[x]
  BY DEF JobStep, PublishStart, PublishNext, PublishSave, PublishCommit, CancelStart, CancelAnswered,
         CancelRevert, CancelCommit, billVars, callVars, TypesInv
<1>2. \A x \in Workers \ {w} : work'[x] = work[x]
  BY DEF JobStep, PublishStart, PublishNext, PublishSave, PublishCommit, CancelStart, CancelAnswered,
         CancelRevert, CancelCommit, Goto, Return, TypesInv
<1>3. HoldsRefusal(w)' => HoldsRefusal(w)
  <2>1. CASE \/ PublishStart(w) \/ PublishCommit(w) \/ CancelRevert(w) \/ CancelCommit(w)
             \/ \E p \in Payers : PublishNext(w, p) \/ PublishSave(w, p)
    <3>1. work'[w].pc \in {"publish", "publish_wait", "finish"}
      BY <2>1
      DEF PublishStart, PublishNext, PublishSave, PublishCommit, CancelRevert, CancelCommit, Goto, Return,
          TypesInv, Place
    <3> QED
      BY <3>1 DEF HoldsRefusal
  <2>2. CASE CancelStart(w)
    <3>1. work[w].pc = "start" /\ reply'[w] = reply[w] /\ work'[w].pc \in {"cancel_wait", "finish"}
      BY <2>2 DEF CancelStart, Goto, Return, TypesInv, Place
    <3> QED
      BY <3>1 DEF HoldsRefusal, CallsInv
  <2>3. CASE CancelAnswered(w)
    <3>1. /\ work[w].pc = "cancel_wait"
          /\ work'[w].pc \in {"cancel_commit", "cancel_revert", "finish"}
          /\ work'[w].pc = "cancel_revert" => reply[w] = "refused"
      BY <2>3 DEF CancelAnswered, Goto, Return, TypesInv, Place
    <3> QED
      BY <3>1 DEF HoldsRefusal
  <2> QED
    BY <2>1, <2>2, <2>3 DEF JobStep
<1>4. \A x \in Workers : HoldsRefusal(x)' => HoldsRefusal(x)
  BY <1>1, <1>2, <1>3 DEF HoldsRefusal
<1>5. CASE CancelRevert(w) /\ status = "cancelling" /\ status' = "collecting"
  <2>1. crossed' = (crossed \/ RevertCrosses) /\ HoldsRefusal(w)
    BY <1>5 DEF CancelRevert, HoldsRefusal
  <2> QED
    BY <1>1, <1>5, <2>1 DEF CrossInv, RevertCrosses
<1>6. CASE ~(CancelRevert(w) /\ status = "cancelling" /\ status' = "collecting")
  <2>1. /\ crossed' = crossed
        /\ \/ status' = status
           \/ status \notin {"cancelling", "cancelled"}
           \/ status = "cancelling" /\ status' = "cancelled"
    BY <1>6
    DEF JobStep, PublishStart, PublishNext, PublishSave, PublishCommit, CancelStart, CancelAnswered,
        CancelRevert, CancelCommit, pocketVars
  <2> QED
    BY <1>1, <1>4, <2>1, CrossKept
<1> QED
  BY <1>5, <1>6

\* A worker that claims, locks, ends its job, gives up or dies.
LEMMA QueueCross ==
  ASSUME CoreInv, CrossInv, NEW w \in Workers, Claim(w) \/ QueueStep(w) \/ StepFails(w) \/ Crash(w)
  PROVE  CrossInv'
<1> USE DEF CoreInv
<1>1. UNCHANGED <<bills, status, crossed>>
  BY DEF Claim, QueueStep, StepFails, Crash, billVars, pocketVars
<1>2. \A b \in body' : \E c \in body : c.op = b.op /\ c.seen = b.seen
  <2>1. CASE UNCHANGED callVars
    BY <2>1 DEF callVars
  <2>2. CASE AbandonCall(w)
    <3>1. \A c \in body : Orphan(c, w).op = c.op /\ Orphan(c, w).seen = c.seen
      BY OrphanFacts DEF TypesInv
    <3> QED
      BY <2>2, <3>1 DEF AbandonCall
  <2> QED
    BY <2>1, <2>2 DEF Claim, QueueStep, StepFails, Crash
<1>3. \A x \in Workers \ {w} : work'[x] = work[x] /\ reply'[x] = reply[x]
  BY DEF Claim, QueueStep, StepFails, Crash, ClaimJob, TryLock, FinishJob, CrashWorker, Goto, Return,
         AbandonCall, callVars, TypesInv
<1>4. work'[w].pc \in Quiet
  BY IdlePlace
  DEF Claim, QueueStep, StepFails, Crash, ClaimJob, TryLock, FinishJob, CrashWorker, Goto, Return, TypesInv,
      Place, Quiet
<1>5. \A x \in Workers : HoldsRefusal(x)' => HoldsRefusal(x)
  BY <1>3, <1>4 DEF HoldsRefusal, Quiet
<1> QED
  BY <1>1, <1>2, <1>5, CrossKept

LEMMA PaymentCross == ASSUME CoreInv, CrossInv, PaymentStep PROVE CrossInv'
<1> USE DEF CoreInv
<1>0. UNCHANGED <<work, status>>
  BY DEF PaymentStep, jobVars
<1>1. ASSUME NEW c \in calls, Enter(c, status), UNCHANGED crossed PROVE CrossInv'
  <2>1. UNCHANGED <<bills, reply>> /\ \A b \in body' : b.seen = status
    BY <1>1 DEF Enter
  <2> QED
    BY <1>0, <1>1, <2>1 DEF CrossInv, HoldsRefusal
<1>2. ASSUME NEW b \in body, Commit(b), crossed' = (crossed \/ CloseCrosses(b)) PROVE CrossInv'
  <2>1. /\ Waits(b) /\ body' = body \ {b} /\ \A x \in Workers : x # b.from => reply'[x] = reply[x]
        /\ body' = {}
    BY <1>2 DEF CallsInv, Commit, CreateBody, CancelBody, Answer, TypesInv
  <2>2. CASE CreateBody(b)
    <3>1. \A p \in Payers : bills'[p].status = "closed" => bills[p].status = "closed"
      <4>1. CASE bills' = [bills EXCEPT ![b.payer] = NewBill(NoBill.amount)]
        BY <4>1 DEF NewBill, TypesInv, BillInv, BillTypeOK
      <4> QED
        BY <2>2, <4>1 DEF CreateBody
    <3>2. b.from \in Workers => work[b.from].pc = "publish_wait"
      BY <2>1, <2>2 DEF Waits, CreateBody
    <3>3. \A x \in Workers : HoldsRefusal(x)' => HoldsRefusal(x)
      BY <1>0, <2>1, <3>2 DEF HoldsRefusal
    <3>4. crossed => crossed'
      BY <1>2
    <3> QED
      BY <1>0, <2>1, <3>1, <3>3, <3>4, CrossKept
  <2>3. CASE CancelBody(b) /\ CancelAllowed(b)
    <3>1. reply'[b.from] = "ok" \/ b.from \notin Workers
      BY <2>3, WestPocketAssumption DEF CancelBody, Answer, TypesInv
    <3>2. \A x \in Workers : HoldsRefusal(x)' => HoldsRefusal(x)
      BY <1>0, <2>1, <3>1 DEF HoldsRefusal
    <3>3. ~crossed' => ~crossed /\ (bills' = bills \/ \A x \in Workers : ~HoldsRefusal(x))
      BY <1>2, <2>3 DEF CloseCrosses, CancelBody
    <3>4. ~crossed => status \in {"cancelling", "cancelled"}
      BY <2>3 DEF CrossInv, CancelAllowed, CancelBody
    <3> QED
      BY <1>0, <2>1, <3>2, <3>3, <3>4 DEF CrossInv
  <2>4. CASE CancelBody(b) /\ ~CancelAllowed(b)
    <3>1. bills' = bills /\ b.op = "cancel"
      BY <2>4 DEF CancelBody
    <3>2. ASSUME ~crossed, status = "cancelling", NEW p \in Payers, bills[p].status = "closed" PROVE FALSE
      <4>1. b.seen = "cancelling"
        BY <3>1, <3>2 DEF CrossInv
      <4>2. \A q \in Payers : bills[q].status \in {"none", "closed"}
        BY <3>2 DEF SealInv, Sealed
      <4> QED
        BY <2>4, <4>1, <4>2 DEF CancelAllowed
    <3> QED
      BY <1>0, <1>2, <2>1, <3>1, <3>2 DEF CrossInv
  <2> QED
    BY <1>2, <2>2, <2>3, <2>4 DEF Commit, CancelBody
<1> QED
  BY <1>1, <1>2 DEF PaymentStep

LEMMA CrossNext == CoreInv /\ CrossInv /\ [WPNext]_vars => CrossInv'
<1> SUFFICES ASSUME CoreInv, CrossInv, [WPNext]_vars PROVE CrossInv'
  OBVIOUS
<1>1. CASE OwnerStep
  <2>1. /\ UNCHANGED <<bills, body, reply, work, crossed>>
        /\ status' = status \/ status \notin {"cancelling", "cancelled"}
    BY <1>1
    DEF OwnerStep, OwnerReads, ReplaceMembers, Publish, Cancel, Retry, Remind, billVars, callVars, jobVars,
        pocketVars
  <2> QED
    BY <2>1, CrossKept DEF HoldsRefusal
<1>2. CASE RefreshStep \/ (\E f \in refreshes : RefreshFails(f))
  <2>1. /\ UNCHANGED <<bills, body, reply, work, crossed>>
        /\ status' = status \/ status \notin {"cancelling", "cancelled"}
    BY <1>2
    DEF RefreshStep, RefreshRead, RefreshFetch, RefreshSave, RefreshSettle, RefreshFails, billVars, callVars,
        jobVars
  <2> QED
    BY <2>1, CrossKept DEF HoldsRefusal
<1>3. CASE Clock \/ SenderStep \/ UNCHANGED vars
  BY <1>3, CrossFrame
  DEF Clock, LeaseExpires, SessionLost, SenderStep, TakeNote, Deliver, DeliveryFails, vars, billVars,
      callVars, jobVars, pocketVars
<1>4. CASE PaymentFails
  <2>1. /\ UNCHANGED <<bills, work, status, crossed>> /\ body' \subseteq body
        /\ \A x \in Workers : reply'[x] = reply[x] \/ reply'[x] = "error"
    BY <1>4 DEF PaymentFails, BodyFails, Answer, pocketVars, CoreInv, TypesInv
  <2>2. \A x \in Workers : HoldsRefusal(x)' => HoldsRefusal(x)
    BY <2>1 DEF HoldsRefusal
  <2> QED
    BY <2>1, <2>2, CrossKept
<1>5. CASE UserRequestStep
  <2>1. UNCHANGED <<body, reply, work, status, crossed>>
    BY <1>5 DEF UserRequestStep, callVars, jobVars, pocketVars
  <2>2. ASSUME NEW p \in Payers, RowMoved(p)
        PROVE  /\ bills'[p].status # "closed"
               /\ \A q \in Payers \ {p} : bills'[q] = bills[q]
    BY <2>2 DEF RowMoved, UserMoves, CoreInv, TypesInv, BillInv, BillTypeOK
  <2>3. \A p \in Payers : bills'[p].status = "closed" => bills[p].status = "closed"
    BY <1>5, <2>2, UserStepMoves DEF CoreInv, TypesInv, UserRequestStep
  <2> QED
    BY <2>1, <2>3, CrossKept DEF HoldsRefusal
<1> QED
  BY <1>1, <1>2, <1>3, <1>4, <1>5, JobCross, QueueCross, PaymentCross DEF WPNext

\* A collection that is open, or open again after a refused cancellation, has no closed
\* bill, so that every member can still pay, whatever has failed; unless two cancel
\* calls have crossed, and without a fault no two do.
THEOREM CollectingPayable == WPSpec => []CollectingIsPayable
<1>1. WPInit => FaultlessInv /\ CrossInv
  <2> SUFFICES ASSUME WPInit PROVE FaultlessInv /\ CrossInv
    OBVIOUS
  <2>1. /\ bills = [p \in Payers |-> NoBill] /\ calls = {} /\ body = {} /\ faults = 0
        /\ crossed = FALSE
        /\ work = [w \in Workers |-> IdleWorker] /\ jobLock = [l \in Locks |-> NoWorker]
    BY DEF WPInit, BillingInit, JobsInit
  <2> QED
    BY <2>1, IdlePlace DEF FaultlessInv, Calm, CrossInv, Running, NoBill
<1>2. FaultlessInv /\ CrossInv /\ TypesInv => CollectingIsPayable
  BY DEF FaultlessInv, CrossInv, Calm, CollectingIsPayable, TypesInv
<1> QED
  BY <1>1, <1>2, CalmNext, CrossNext, CoreAlways, PTL DEF WPSpec, CoreInv

-----------------------------------------------------------------------------
(* The outbox.                                                             *)

LEMMA DeliveryFrame == DeliveryInv /\ UNCHANGED noteVars => DeliveryInv'
BY DEF DeliveryInv, OneDeliveryPerRow, noteVars

\* Rows that are being sent are left alone.
LEMMA NotesWritten ==
  ASSUME DeliveryInv, UNCHANGED sends, notes' \in [NoteKeys -> Note],
         \A k \in NoteKeys : notes[k].status = "sending" => notes'[k] = notes[k]
  PROVE  DeliveryInv'
BY DEF DeliveryInv, OneDeliveryPerRow, Delivering

LEMMA NoteUpdates ==
  ASSUME NEW r \in Note, NEW s \in NoteStatuses, NEW b \in BOOLEAN
  PROVE  /\ [r EXCEPT !.status = s] \in Note /\ [r EXCEPT !.expired = b] \in Note
         /\ [r EXCEPT !.status = s, !.expired = b] \in Note
BY DEF Note

LEMMA FreshNote == Fresh \in Note
BY DEF Fresh, Note, NoteStatuses

LEMMA ServiceDelivery ==
  ASSUME DeliveryInv, OwnerStep \/ (\E w \in Workers : JobStep(w))
  PROVE  DeliveryInv'
<1>1. ASSUME NEW M, notes' = Enqueued(M), UNCHANGED sends
      PROVE  DeliveryInv'
  BY <1>1, FreshNote, NotesWritten DEF Enqueued, DeliveryInv
<1>2. ASSUME notes' = Withdrawn, UNCHANGED sends
      PROVE  DeliveryInv'
  <2>1. \A k \in NoteKeys : notes[k] \in Note /\ [notes[k] EXCEPT !.status = "cancelled"] \in Note
    BY NoteUpdates DEF DeliveryInv, NoteStatuses
  <2> QED
    BY <1>2, <2>1, NotesWritten DEF Withdrawn
<1>3. ASSUME NEW S \in SUBSET Payers, notes' = Reminded(S), UNCHANGED sends
      PROVE  DeliveryInv'
  <2> DEFINE again == (UNION {RemindedRows(r) : r \in S}) \cup {k \in FailedNotes(Owner) : k[2] = 0}
  <2>1. \A k \in again : notes[k].status \in {"failed", "none"}
    <3>1. \A r : \A k \in FailedNotes(r) : notes[k].status = "failed"
      BY DEF FailedNotes
    <3>2. \A r : \A k \in UnusedReminders(r) : notes[k].status = "none"
      BY DEF UnusedReminders
    <3>3. \A r : RemindedRows(r) \subseteq FailedNotes(r) \cup UnusedReminders(r)
      BY DEF RemindedRows
    <3>4. \A k \in again : k \in FailedNotes(Owner) \/ \E r \in S : k \in RemindedRows(r)
      OBVIOUS
    <3> HIDE DEF again
    <3>5. ASSUME NEW k \in again PROVE \E r : k \in FailedNotes(r) \cup UnusedReminders(r)
      BY <3>3, <3>4
    <3> QED
      BY <3>1, <3>2, <3>5
  <2>2. notes' = [k \in NoteKeys |-> IF k \in again THEN Fresh ELSE notes[k]]
    BY <1>3 DEF Reminded
  <2> HIDE DEF again
  <2> QED
    BY <1>3, <2>1, <2>2, FreshNote, NotesWritten DEF DeliveryInv
<1>4. CASE UNCHANGED noteVars
  BY <1>4, DeliveryFrame
<1>5. CASE \E S \in SUBSET Payers : Remind(S)
  BY <1>3, <1>5 DEF Remind
<1>6. CASE \E w \in Workers : PublishCommit(w) \/ CancelCommit(w)
  BY <1>1, <1>2, <1>4, <1>6 DEF PublishCommit, CancelCommit, noteVars
<1> QED
  BY <1>4, <1>5, <1>6
  DEF OwnerStep, OwnerReads, ReplaceMembers, Publish, Cancel, Retry, JobStep, PublishStart, PublishNext,
      PublishSave, CancelStart, CancelAnswered, CancelRevert

LEMMA SendGotoDelivery ==
  ASSUME DeliveryInv, NEW s \in sends, NEW stage \in Stages, SendGoto(s, stage)
  PROVE  DeliveryInv'
<1> DEFINE t == [s EXCEPT !.stage = stage]
<1>1. t \in Delivering /\ t.key = s.key
  BY DEF DeliveryInv, Delivering
<1>2. sends' = (sends \ {s}) \cup {t} /\ notes' = notes
  BY DEF SendGoto
<1> HIDE DEF t
<1> QED
  BY <1>1, <1>2 DEF DeliveryInv, OneDeliveryPerRow

LEMMA SenderDelivery ==
  ASSUME DeliveryInv, ~SendStalls, SenderStep
  PROVE  DeliveryInv'
<1>1. ASSUME NEW k \in NoteKeys, ClaimNote(k) PROVE DeliveryInv'
  <2> DEFINE n == [status |-> "sending", attempt |-> notes[k].attempt + 1, expired |-> FALSE]
             s == [key |-> k, attempt |-> notes[k].attempt + 1, stage |-> "claimed"]
  <2>1. notes' = [notes EXCEPT ![k] = n] /\ sends' = sends \cup {s} /\ Deliverable(k)
    BY <1>1 DEF ClaimNote
  <2>2. n \in Note /\ n.status = "sending" /\ ~n.expired
    BY DEF DeliveryInv, Note, NoteStatuses
  <2>3. s \in Delivering /\ s.key = k
    BY DEF DeliveryInv, Note, Delivering, Stages
  <2>4. \A t \in sends : t.key # k
    BY <2>1 DEF DeliveryInv, Deliverable
  <2> HIDE DEF n, s
  <2> QED
    BY <2>1, <2>2, <2>3, <2>4 DEF DeliveryInv, OneDeliveryPerRow, Delivering
<1>2. ASSUME NEW k \in NoteKeys, NoteLeaseExpires(k) PROVE DeliveryInv'
  <2>1. /\ notes' = [notes EXCEPT ![k] = [notes[k] EXCEPT !.expired = TRUE]]
        /\ UNCHANGED sends /\ \A s \in sends : s.key # k
    BY <1>2 DEF NoteLeaseExpires
  <2>2. [notes[k] EXCEPT !.expired = TRUE] \in Note
    BY NoteUpdates DEF DeliveryInv, NoteStatuses
  <2> QED
    BY <2>1, <2>2 DEF DeliveryInv, OneDeliveryPerRow, Delivering
<1>3. ASSUME NEW s \in sends, Deliver(s) PROVE DeliveryInv'
  <2>1. CASE RecordOutcome(s)
    <3>1. sends' = sends \ {s} /\ s.key \in NoteKeys
      BY <2>1 DEF RecordOutcome, DeliveryInv, Delivering
    <3>2. \A t \in sends' : t.key # s.key
      BY <3>1 DEF DeliveryInv, OneDeliveryPerRow
    <3>3. Outcome(s) \in NoteStatuses
      BY <2>1 DEF RecordOutcome, Outcome, NoteStatuses
    <3> DEFINE n == [notes[s.key] EXCEPT !.status = Outcome(s), !.expired = FALSE]
    <3>4. n \in Note
      BY <3>1, <3>3, NoteUpdates DEF DeliveryInv
    <3>5. notes' = notes \/ notes' = [notes EXCEPT ![s.key] = n]
      BY <2>1 DEF RecordOutcome
    <3> HIDE DEF n
    <3> QED
      BY <3>1, <3>2, <3>4, <3>5 DEF DeliveryInv, OneDeliveryPerRow, Delivering
  <2>2. ASSUME NEW stage \in Stages, SendGoto(s, stage) PROVE DeliveryInv'
    BY <2>2, SendGotoDelivery
  <2>3. CASE ReadPocket(s, status)
    BY <2>2, <2>3 DEF ReadPocket, Stages
  <2>4. CASE ReadMemberBill(s, BillStatusOf(s.key[1]))
    BY <2>2, <2>4 DEF ReadMemberBill, Stages
  <2>5. CASE SendMessage(s)
    BY <2>2, <2>5 DEF SendMessage, Stages
  <2> QED
    BY <1>3, <2>1, <2>3, <2>4, <2>5 DEF Deliver
<1>4. ASSUME NEW s \in sends, DeliveryFails(s) PROVE DeliveryInv'
  <2>1. CASE SendFails(s)
    BY <2>1, SendGotoDelivery DEF SendFails, Stages
  <2>2. CASE SenderDies(s)
    BY <2>2 DEF SenderDies, DeliveryInv, OneDeliveryPerRow
  <2> QED
    BY <1>4, <2>1, <2>2 DEF DeliveryFails
<1> QED
  BY <1>1, <1>2, <1>3, <1>4 DEF SenderStep, TakeNote

LEMMA DeliveryNext == DeliveryInv /\ ~SendStalls /\ [WPNext]_vars => DeliveryInv'
<1> SUFFICES ASSUME DeliveryInv, ~SendStalls, [WPNext]_vars PROVE DeliveryInv'
  OBVIOUS
<1>1. CASE PaymentStep \/ PaymentFails \/ UserRequestStep \/ Clock
  BY <1>1, DeliveryFrame DEF PaymentStep, PaymentFails, UserRequestStep, Clock
<1>2. ASSUME NEW w \in Workers, Claim(w) \/ QueueStep(w) \/ StepFails(w) \/ Crash(w) PROVE DeliveryInv'
  BY <1>2, DeliveryFrame DEF Claim, QueueStep, StepFails, Crash
<1>3. CASE RefreshStep \/ (\E f \in refreshes : RefreshFails(f))
  BY <1>3, DeliveryFrame
  DEF RefreshStep, RefreshRead, RefreshFetch, RefreshSave, RefreshSettle, RefreshFails
<1>4. CASE UNCHANGED vars
  BY <1>4, DeliveryFrame DEF vars
<1> QED
  BY <1>1, <1>2, <1>3, <1>4, ServiceDelivery, SenderDelivery DEF WPNext

\* While no sender outlives its lease, two deliveries of one row are never under way
\* together: a row is claimed again only after its sender has died or recorded the
\* outcome, and neither a withdrawal nor a reminder touches a row that is being sent.
THEOREM OneDelivery == ASSUME ~SendStalls PROVE WPSpec => []OneDeliveryPerRow
<1>1. WPInit => DeliveryInv
  <2>1. NoNote \in Note
    BY DEF NoNote, Note, NoteStatuses
  <2> QED
    BY <2>1 DEF WPInit, OutboxInit, DeliveryInv, OneDeliveryPerRow
<1>2. DeliveryInv /\ [WPNext]_vars => DeliveryInv'
  BY DeliveryNext
<1>3. DeliveryInv => OneDeliveryPerRow
  BY DEF DeliveryInv
<1> QED
  BY <1>1, <1>2, <1>3, PTL DEF WPSpec
=============================================================================
