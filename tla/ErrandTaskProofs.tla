-------------------------- MODULE ErrandTaskProofs --------------------------
(***************************************************************************)
(* ErrandTask, for every set of items, users, demands, tasks and prices.   *)
(*                                                                         *)
(* The bills of a task keep to OrderBilling, whose theorems then hold of   *)
(* them.  Items, demands and tasks agree in every state (MarketInv), from  *)
(* which follow ItemsFollowTask, DemandInOnePlace and, with what a         *)
(* completed item implies, CompletedItemStays.  The goods of a task add up *)
(* (GoodsInv).  What a step does to a task, an item, the bills and the     *)
(* calls is then said once (Moves), and the money follows from that:       *)
(* PaidInv for what the payment service has said, MoneyInv for what is     *)
(* collected and ItemsPaidInv for completed items, the last two but for    *)
(* the tasks and items that the history variables name (Recorded).         *)
(*                                                                         *)
(* Totals of equal functions are equal, and of numbers a number            *)
(* (TotalTheorems): nothing else about sums is used.                       *)
(***************************************************************************)
EXTENDS ErrandTask, OrderBillingProofs, TotalTheorems

\* A running TransitionToCollectingPayment asks for bills of its task's payers, with
\* the amounts it has computed.
DraftOK(c) ==
  /\ c.task \in Tasks
  /\ DOMAIN c.drafts \subseteq Users
  /\ c.todo \subseteq DOMAIN c.drafts
  /\ \A u \in DOMAIN c.drafts : c.drafts[u] \in Amounts

CallsOK == calls \subseteq Call /\ \A c \in calls : DraftOK(c)

LEMMA MinInSet ==
  ASSUME NEW S \in SUBSET Users, S # {} PROVE Min(S) \in S
<1>1. S \subseteq Nat
  BY ErrandAssumption
<1>2. \E x \in S : \A y \in S : ~(<<y, x>> \in OpToRel(<, Nat))
  BY <1>1, NatLessThanWellFounded, WFMin
<1>3. \E x \in S : \A y \in S : x <= y
  <2>1. PICK x \in S : \A y \in S : ~(y < x)
    BY <1>1, <1>2 DEF OpToRel
  <2> QED
    BY <1>1, <2>1
<1> QED
  BY <1>3 DEF Min
\* Of the records of calls only this is used.
LEMMA CallFields ==
  ASSUME NEW c \in Call, NEW T \in SUBSET c.todo, NEW b \in BOOLEAN
  PROVE  /\ [c EXCEPT !.asked = b] \in Call /\ [c EXCEPT !.todo = T, !.asked = b] \in Call
         /\ [c EXCEPT !.asked = b].task = c.task /\ [c EXCEPT !.asked = b].drafts = c.drafts
         /\ [c EXCEPT !.asked = b].todo = c.todo
         /\ [c EXCEPT !.todo = T, !.asked = b].task = c.task
         /\ [c EXCEPT !.todo = T, !.asked = b].drafts = c.drafts
         /\ [c EXCEPT !.todo = T, !.asked = b].todo = T
<1> DEFINE D == UNION {[P -> Amounts] : P \in SUBSET Users}
<1>1. Call = [task : Tasks, drafts : D, todo : SUBSET Users, asked : BOOLEAN]
  BY DEF Call
<1> HIDE DEF D
<1> QED
  BY <1>1

\* What every step of the errand service does.
KeepsBills == CallsOK' /\ [OrderNext]_orderVars

LEMMA ErrandStepBills ==
  ASSUME CallsOK, [ErrandNext]_errandVars
  PROVE  KeepsBills
<1>1. ASSUME UNCHANGED calls, [OrderNext]_orderVars PROVE KeepsBills
  BY <1>1 DEF KeepsBills, CallsOK, DraftOK
<1>2. ASSUME NEW c, calls' \subseteq (calls \cup {c}), c \in Call, DraftOK(c), [OrderNext]_orderVars
      PROVE  KeepsBills
  BY <1>2 DEF KeepsBills, CallsOK, DraftOK
<1>3. ASSUME calls' \subseteq calls, UNCHANGED orderVars PROVE KeepsBills
  BY <1>3 DEF KeepsBills, CallsOK, DraftOK
<1>4. ASSUME NEW t \in Tasks, BeginCollecting(t) PROVE KeepsBills
  <2> DEFINE P == PayersOf(t)
             drafts == [u \in P |-> Owed(t, u)]
             c == [task |-> t, drafts |-> drafts, todo |-> P, asked |-> FALSE]
  <2>1. P \in SUBSET Users
    BY ErrandAssumption DEF PayersOf, Payable, AssignedTo
  <2>2. \A u \in P : Owed(t, u) \in Amounts
    BY <1>4 DEF BeginCollecting
  <2>3. calls' = calls \cup {c} /\ UNCHANGED orderVars
    BY <1>4 DEF BeginCollecting
  <2> HIDE DEF P
  <2>4. drafts \in [P -> Amounts]
    BY <2>2
  <2>5. DOMAIN drafts = P /\ \A u \in P : drafts[u] \in Amounts
    BY <2>2
  <2>6. drafts \in UNION {[Q -> Amounts] : Q \in SUBSET Users}
    BY <2>1, <2>4
  <2> HIDE DEF drafts
  <2>7. c \in Call /\ DraftOK(c)
    BY <2>1, <2>5, <2>6 DEF Call, DraftOK
  <2> QED
    BY <1>2, <2>3, <2>7
<1>5. ASSUME NEW c \in calls, AskBill(c) PROVE KeepsBills
  <2> DEFINE u == Min(c.todo)
  <2>1. c \in Call /\ DraftOK(c) /\ c.todo \in SUBSET Users /\ c.todo # {}
    BY <1>5 DEF CallsOK, DraftOK, AskBill
  <2>2. u \in c.todo
    BY <2>1, MinInSet
  <2>3. <<c.task, u>> \in Payers /\ c.drafts[u] \in Amounts
    BY <2>1, <2>2, ErrandAssumption DEF DraftOK
  <2>4. OrderNext
    BY <1>5, <2>3 DEF AskBill, OrderNext
  <2>5. [c EXCEPT !.asked = TRUE] \in Call /\ DraftOK([c EXCEPT !.asked = TRUE])
    BY <2>1, CallFields DEF DraftOK
  <2>6. calls' \subseteq calls \cup {[c EXCEPT !.asked = TRUE]}
    BY <1>5 DEF AskBill
  <2> QED
    BY <1>2, <2>4, <2>5, <2>6
<1>6. ASSUME NEW c \in calls, BillAnswered(c) PROVE KeepsBills
  <2> DEFINE T == c.todo \ {Min(c.todo)}
             d == [c EXCEPT !.todo = T, !.asked = FALSE]
  <2>1. c \in Call /\ DraftOK(c) /\ T \in SUBSET c.todo
    BY DEF CallsOK
  <2>2. OrderNext
    BY <1>6 DEF BillAnswered, OrderNext
  <2>3. calls' \subseteq calls \cup {d}
    BY <1>6 DEF BillAnswered
  <2> HIDE DEF T
  <2>4. d \in Call /\ d.task = c.task /\ d.drafts = c.drafts /\ d.todo = T
    BY <2>1, CallFields
  <2>5. DraftOK(d)
    BY <2>1, <2>4 DEF DraftOK
  <2> QED
    BY <1>2, <2>2, <2>3, <2>4, <2>5
<1>7. ASSUME NEW c \in calls, EndCall(c) \/ CommitCollecting(c) \/ CompleteTaskWithoutBills(c) PROVE KeepsBills
  BY <1>3, <1>7 DEF EndCall, CommitCollecting, CompleteTaskWithoutBills
<1>8. ASSUME NEW n \in notices,
             NoticeRead(n) \/ NoticeWrite(n) \/ NoticeCount(n) \/ NoticeAll(n) \/ NoticeLost(n)
      PROVE  KeepsBills
  BY <1>3, <1>8 DEF NoticeRead, NoticeWrite, NoticeCount, NoticeAll, NoticeLost
<1>9. ASSUME NEW t \in Tasks, CloseTaskBills(t) PROVE KeepsBills
  <2>1. {t} \X Users \in SUBSET Payers
    BY ErrandAssumption
  <2>2. OrderNext
    BY <1>9, <2>1 DEF CloseTaskBills, OrderNext
  <2> QED
    BY <1>1, <1>9, <2>2 DEF CloseTaskBills
<1>10. ASSUME NEW t \in Tasks, \/ ClosingLost(t) \/ TransitionToPendingDistributing(t)
                               \/ TransitionToCompleted(t) \/ CancelTask(t)
                               \/ \E fee \in PackagingFees : TransitionToDistributing(t, fee)
       PROVE  KeepsBills
  BY <1>3, <1>10 DEF ClosingLost, TransitionToPendingDistributing, TransitionToCompleted, CancelTask,
                     TransitionToDistributing, callVars
<1>11. CASE BillingStep
  <2>1. [OrderNext]_orderVars
    BY <1>11 DEF BillingStep, OrderNext
  <2> QED
    BY <1>1, <1>11, <2>1 DEF BillingStep
<1>12. CASE BuyerStep
  BY <1>3, <1>12 DEF BuyerStep, Selections, CreateErrandDemand, UpdateErrandDemand, CancelErrandDemand, callVars
<1>13. CASE CaptainStep
  <2>1. ASSUME NEW captain \in Captains, NEW S \in SUBSET Items, CreateTask(captain, S) PROVE KeepsBills
    BY <1>3, <2>1 DEF CreateTask, callVars
  <2>2. ASSUME NEW t, NEW p, NEW n, SaveShoppingTaskItem(t, p, n) \/ UpdateActualPrice(t, p, n) PROVE KeepsBills
    BY <1>3, <2>2 DEF SaveShoppingTaskItem, UpdateActualPrice, callVars
  <2>3. ASSUME NEW i, NEW n, SaveDistributingTaskAssignment(i, n) PROVE KeepsBills
    BY <1>3, <2>3 DEF SaveDistributingTaskAssignment, callVars
  <2> QED
    BY <1>4, <1>10, <1>13, <2>1, <2>2, <2>3 DEF CaptainStep, Selections
<1>14. CASE UNCHANGED errandVars
  BY <1>3, <1>14 DEF errandVars, callVars
<1>15. CASE CallStep
  <2>1. CASE \E c \in calls : \/ AskBill(c) \/ BillAnswered(c) \/ EndCall(c) \/ CommitCollecting(c)
                              \/ CompleteTaskWithoutBills(c)
    BY <1>5, <1>6, <1>7, <2>1
  <2>2. CASE \E n \in notices : \/ NoticeRead(n) \/ NoticeWrite(n) \/ NoticeCount(n) \/ NoticeAll(n)
                                \/ NoticeLost(n)
    BY <1>8, <2>2
  <2>3. CASE \E t \in Tasks : CloseTaskBills(t) \/ ClosingLost(t)
    BY <1>9, <1>10, <2>3
  <2> QED
    BY <1>15, <2>1, <2>2, <2>3 DEF CallStep
<1> QED
  BY <1>11, <1>12, <1>13, <1>14, <1>15 DEF ErrandNext

\* The errand service uses the payment service only as OrderBilling says, also
\* when collections are repeated, cut off or cancelled.
THEOREM ErrandRefinesBilling == ErrandSpec => OrderSpec
<1>1. ErrandInit => OrderInit /\ CallsOK
  BY DEF ErrandInit, CallsOK
<1>2. CallsOK /\ [ErrandNext]_errandVars => CallsOK' /\ [OrderNext]_orderVars
  BY ErrandStepBills DEF KeepsBills
<1> QED
  BY <1>1, <1>2, PTL DEF ErrandSpec, OrderSpec

\* The bills of a task keep to their life cycle, and their amounts.
THEOREM ErrandBillsLifecycle == ErrandSpec => ImplementsLifecycle /\ AmountFrozen
BY ErrandRefinesBilling, OrderRefinesLifecycle, AmountsFrozen, PTL
-----------------------------------------------------------------------------
(* Rows.                                                                   *)

\* The types of the rows.
RowsInv ==
  /\ demands \in [Demands -> DemandRow]
  /\ items \in [Items -> ItemRow]
  /\ tasks \in [Tasks -> TaskRow]
  /\ taskItems \in [Tasks -> [Products -> TaskItemRow]]
  /\ assignments \in [Items -> Assignment]
  /\ notices \subseteq Notice
  /\ closings \subseteq Tasks

\* What the history variables have recorded after a step.
Recorded ==
  /\ \A t \in Tasks \ overtaken' :
       /\ tasks'[t].status \in {"collecting_payment", "completed"} => t \notin overtaken
       /\ tasks'[t].status = "distributing" /\ Collecting(t)' =>
            t \notin overtaken /\ ~(Collecting(t) /\ Edited(t))
  /\ \A i \in Items \ strayed' : i \notin strayed /\ i \notin StraysNow
  /\ overtaken' \subseteq Tasks \cup overtaken /\ strayed' \subseteq Items \cup strayed

LEMMA HistoryStep == [ErrandNext]_errandVars => Recorded
<1> SUFFICES ASSUME [ErrandNext]_errandVars PROVE Recorded
  OBVIOUS
<1>1. CASE History
  BY <1>1 DEF History, Overtaken, StraysNow, Recorded
<1>2. CASE UNCHANGED errandVars
  <2>1. \A t \in Tasks : ~Edited(t)
    BY <1>2 DEF errandVars, taskVars, Edited
  <2>2. StraysNow = {}
    BY <1>2 DEF errandVars, demandVars, StraysNow
  <2> QED
    BY <1>2, <2>1, <2>2 DEF errandVars, historyVars, Recorded
<1> QED
  BY <1>1, <1>2 DEF ErrandNext

\* An item, its demand and its task agree, whoever wrote which of them last.
ItemOK(i) ==
  LET d == items[i].demand  t == assignments[i].task
  IN  /\ d = 0 <=> items[i].status \in {"none", "deleted"}
      /\ d # 0 => items[i].status = demands[d].status /\ i.requester = demands[d].requester
      /\ t = NoTask => items[i].status \in {"none", "deleted", "open", "cancelled"}
      /\ t # NoTask => /\ d # 0 /\ demands[d].task = t
                       /\ items[i].status \in Following(tasks[t].status)

ItemsInv == \A i \in Items : ItemOK(i)

LEMMA DemandRowWritten ==
  ASSUME NEW r \in DemandRow, NEW s \in DemandStatuses
  PROVE  /\ [r EXCEPT !.status = s] \in DemandRow
         /\ [r EXCEPT !.status = s].status = s
         /\ [r EXCEPT !.status = s].requester = r.requester
         /\ [r EXCEPT !.status = s].task = r.task
         /\ [r EXCEPT !.status = s, !.task = NoTask] \in DemandRow
         /\ [r EXCEPT !.status = s, !.task = NoTask].status = s
         /\ [r EXCEPT !.status = s, !.task = NoTask].requester = r.requester
BY DEF DemandRow

LEMMA ItemRowWritten ==
  ASSUME NEW r \in ItemRow, NEW s \in DemandStatuses
  PROVE  /\ [r EXCEPT !.status = s] \in ItemRow
         /\ [r EXCEPT !.status = s].status = s
         /\ [r EXCEPT !.status = s].demand = r.demand
         /\ r.status = s => [r EXCEPT !.status = s] = r
BY DEF ItemRow

LEMMA TaskRowWritten ==
  ASSUME NEW r \in TaskRow, NEW s \in TaskStatuses, NEW fee \in PackagingFees
  PROVE  /\ [r EXCEPT !.status = s] \in TaskRow
         /\ [r EXCEPT !.status = s].status = s
         /\ [r EXCEPT !.status = s].captain = r.captain
         /\ [r EXCEPT !.status = s].packaging = r.packaging
         /\ [r EXCEPT !.status = s, !.packaging = fee] \in TaskRow
         /\ [r EXCEPT !.status = s, !.packaging = fee].status = s
         /\ [r EXCEPT !.status = s, !.packaging = fee].captain = r.captain
BY DEF TaskRow

\* The row of task t alone is written.
LEMMA TaskWritten ==
  ASSUME tasks \in [Tasks -> TaskRow], NEW t \in Tasks, NEW s \in TaskStatuses,
         tasks' = [tasks EXCEPT ![t].status = s]
  PROVE  /\ tasks' \in [Tasks -> TaskRow]
         /\ tasks'[t].status = s /\ tasks'[t].captain = tasks[t].captain
         /\ tasks'[t].packaging = tasks[t].packaging
         /\ \A u \in Tasks \ {t} : tasks'[u] = tasks[u]
<1>1. tasks' = [tasks EXCEPT ![t] = [tasks[t] EXCEPT !.status = s]]
  OBVIOUS
<1>2. PICK r : r = [tasks[t] EXCEPT !.status = s]
  OBVIOUS
<1>3. tasks[t] \in TaskRow
  OBVIOUS
<1>4. r \in TaskRow /\ r.status = s /\ r.captain = tasks[t].captain /\ r.packaging = tasks[t].packaging
  BY <1>2, <1>3 DEF TaskRow
<1>5. tasks' = [tasks EXCEPT ![t] = r]
  BY <1>1, <1>2
<1>6. tasks'[t] = r
  BY <1>5
<1> QED
  BY <1>4, <1>5, <1>6

\* What the UPDATEs of a transition write.
LEMMA Moved ==
  ASSUME RowsInv, NEW t \in Tasks, NEW From, NEW to \in DemandStatuses
  PROVE  /\ MoveDemands(t, From, to) \in [Demands -> DemandRow]
         /\ \A d \in Demands : LET e == MoveDemands(t, From, to)[d]
                               IN  /\ e.requester = demands[d].requester /\ e.task = demands[d].task
                                   /\ e.status = IF d \in DemandsOf(t) /\ demands[d].status \in From
                                                 THEN to ELSE demands[d].status
         /\ MoveItems(t, From, to) \in [Items -> ItemRow]
         /\ \A i \in Items : LET e == MoveItems(t, From, to)[i]
                             IN  /\ e.demand = items[i].demand
                                 /\ e.status = IF i \in AssignedTo(t) /\ items[i].status \in From
                                               THEN to ELSE items[i].status
                                 /\ e.status = items[i].status => e = items[i]
<1>1. \A d \in Demands : demands[d] \in DemandRow
  BY DEF RowsInv
<1>2. \A i \in Items : items[i] \in ItemRow
  BY DEF RowsInv
<1>3. ASSUME NEW d \in Demands PROVE LET e == MoveDemands(t, From, to)[d]
                               IN  /\ e \in DemandRow
                                   /\ e.requester = demands[d].requester /\ e.task = demands[d].task
                                   /\ e.status = IF d \in DemandsOf(t) /\ demands[d].status \in From
                                                 THEN to ELSE demands[d].status
  <2>1. CASE d \in DemandsOf(t) /\ demands[d].status \in From
    <3>1. MoveDemands(t, From, to)[d] = [demands[d] EXCEPT !.status = to]
      BY <2>1 DEF MoveDemands
    <3>2. demands[d] \in DemandRow
      BY <1>1
    <3>3. LET e == [demands[d] EXCEPT !.status = to]
          IN  e \in DemandRow /\ e.status = to /\ e.requester = demands[d].requester /\ e.task = demands[d].task
      BY <3>2, DemandRowWritten
    <3> QED
      BY <2>1, <3>1, <3>3
  <2>2. CASE ~(d \in DemandsOf(t) /\ demands[d].status \in From)
    <3>1. MoveDemands(t, From, to)[d] = demands[d]
      BY <2>2 DEF MoveDemands
    <3> QED
      BY <1>1, <2>2, <3>1
  <2> QED
    BY <2>1, <2>2
<1>4. ASSUME NEW i \in Items PROVE LET e == MoveItems(t, From, to)[i]
                             IN  /\ e \in ItemRow /\ e.demand = items[i].demand
                                 /\ e.status = IF i \in AssignedTo(t) /\ items[i].status \in From
                                               THEN to ELSE items[i].status
                                 /\ e.status = items[i].status => e = items[i]
  BY <1>2, ItemRowWritten DEF MoveItems
<1>5. MoveDemands(t, From, to) \in [Demands -> DemandRow]
  BY <1>3 DEF MoveDemands
<1>6. MoveItems(t, From, to) \in [Items -> ItemRow]
  BY <1>4 DEF MoveItems
<1> QED
  BY <1>3, <1>4, <1>5, <1>6
-----------------------------------------------------------------------------
(* Identity columns.                                                       *)

UsedDemands == {d \in Demands : demands[d].status # "none"}
UsedTasks == {t \in Tasks : tasks[t].status # "none"}

\* The ids in use are the first ones, so that the next one is free.
DenseInv ==
  /\ \A d \in UsedDemands : d <= Cardinality(UsedDemands)
  /\ \A t \in UsedTasks : t <= Cardinality(UsedTasks)

LEMMA NextIsFree ==
  ASSUME DenseInv
  PROVE  /\ IsFiniteSet(UsedDemands) /\ Cardinality(UsedDemands) \in Nat
         /\ NextDemand = Cardinality(UsedDemands) + 1
         /\ \A d \in UsedDemands : d \in Nat /\ d < NextDemand
         /\ IsFiniteSet(UsedTasks) /\ Cardinality(UsedTasks) \in Nat
         /\ NextTask = Cardinality(UsedTasks) + 1
         /\ NextTask \notin UsedTasks
<1>1. IsFiniteSet(UsedDemands) /\ IsFiniteSet(UsedTasks)
  BY ErrandAssumption, FS_Subset DEF UsedDemands, UsedTasks
<1>2. Cardinality(UsedDemands) \in Nat /\ Cardinality(UsedTasks) \in Nat
  BY <1>1, FS_CardinalityType
<1>3. Cardinality(Demands) \in Nat /\ Cardinality(Tasks) \in Nat
  BY ErrandAssumption, FS_CardinalityType
<1>4. UsedDemands \subseteq Nat /\ UsedTasks \subseteq Nat
  BY <1>3, ErrandAssumption DEF UsedDemands, UsedTasks
<1>5. NextDemand = Cardinality(UsedDemands) + 1 /\ NextTask = Cardinality(UsedTasks) + 1
  BY DEF NextDemand, NextTask, UsedDemands, UsedTasks
<1>6. \A d \in UsedDemands : d < NextDemand
  BY <1>2, <1>4, <1>5 DEF DenseInv
<1>7. NextTask \notin UsedTasks
  BY <1>2, <1>4, <1>5 DEF DenseInv
<1> QED
  BY <1>1, <1>2, <1>4, <1>5, <1>6, <1>7

\* The position of an id among those of T.
LEMMA Ranks ==
  ASSUME NEW T \in SUBSET Demands
  PROVE  /\ IsFiniteSet(T) /\ Cardinality(T) \in Nat
         /\ \A d \in T : Cardinality({e \in T : e < d}) \in 0..Cardinality(T) - 1
         /\ \A d, e \in T : d < e => Cardinality({x \in T : x < d}) < Cardinality({x \in T : x < e})
<1> DEFINE below(d) == {e \in T : e < d}
<1>1. IsFiniteSet(T) /\ Cardinality(T) \in Nat
  BY ErrandAssumption, FS_Subset, FS_CardinalityType
<1>2. T \subseteq Nat
  BY ErrandAssumption, FS_CardinalityType
<1>3. \A d \in T : IsFiniteSet(below(d)) /\ Cardinality(below(d)) \in Nat
  BY <1>1, FS_Subset, FS_CardinalityType
<1>4. ASSUME NEW d \in T PROVE Cardinality(below(d)) < Cardinality(T)
  <2>1. d \notin below(d) /\ below(d) \subseteq T
    BY <1>2
  <2> HIDE DEF below
  <2>2. Cardinality(below(d)) <= Cardinality(T) /\ Cardinality(T) # Cardinality(below(d))
    BY <1>1, <2>1, FS_Subset
  <2> QED
    BY <1>1, <1>3, <2>2
<1>5. ASSUME NEW d \in T, NEW e \in T, d < e PROVE Cardinality(below(d)) < Cardinality(below(e))
  <2>0. \A x \in T : x < d => x < e
    BY <1>2, <1>5
  <2>1. d \notin below(d) /\ d \in below(e) /\ below(d) \subseteq below(e)
    <3>1. d \in Nat /\ ~(d < d)
      BY <1>2
    <3> QED
      BY <1>5, <2>0, <3>1
  <2> HIDE DEF below
  <2>2. Cardinality(below(d)) <= Cardinality(below(e)) /\ Cardinality(below(e)) # Cardinality(below(d))
    BY <1>3, <2>1, FS_Subset
  <2> QED
    BY <1>3, <2>2
<1>6. \A d \in T : Cardinality(below(d)) \in 0..Cardinality(T) - 1
  <2> HIDE DEF below
  <2> QED
    BY <1>1, <1>3, <1>4
<1> QED
  BY <1>1, <1>5, <1>6

\* What CreateTask finds: items of open demands, and free ids for the task and for the
\* demands it splits off.
LEMMA Selection ==
  ASSUME RowsInv, ItemsInv, DenseInv, NEW captain, NEW S \in SUBSET Items, CreateTask(captain, S)
  PROVE  /\ NextTask \in Tasks /\ tasks[NextTask].status = "none"
         /\ \A i \in S : /\ items[i].status = "open" /\ items[i].demand \in Demands
                         /\ demands[items[i].demand].status = "open"
                         /\ assignments[i].task = NoTask
         /\ Split(S) \subseteq Demands
         /\ \A d \in Split(S) : /\ SplitInto(S, d) \in Demands
                                /\ demands[SplitInto(S, d)].status = "none"
                                /\ SplitInto(S, d) - NextDemand \in 0..Cardinality(Split(S)) - 1
         /\ \A d, e \in Split(S) : SplitInto(S, d) = SplitInto(S, e) => d = e
<1>1. /\ NextTask \in Tasks
      /\ \A d \in Split(S) : SplitInto(S, d) \in Demands
      /\ \A i \in S : /\ items[i].status = "open" /\ demands[items[i].demand].status = "open"
                      /\ assignments[i].task = NoTask
  BY DEF CreateTask, Selectable
<1>2. tasks[NextTask].status = "none"
  BY <1>1, NextIsFree DEF UsedTasks
<1>3. \A i \in S : items[i].demand \in Demands
  BY <1>1 DEF RowsInv, ItemRow, ItemsInv, ItemOK
<1>4. Split(S) \subseteq Demands
  BY <1>3 DEF Split
<1> DEFINE rank(d) == Cardinality({e \in Split(S) : e < d})
<1>5. /\ Cardinality(Split(S)) \in Nat
      /\ \A d \in Split(S) : rank(d) \in 0..Cardinality(Split(S)) - 1
      /\ \A d, e \in Split(S) : d < e => rank(d) < rank(e)
  BY <1>4, Ranks
<1>6. \A d \in Split(S) : SplitInto(S, d) = NextDemand + rank(d)
  BY DEF SplitInto
<1>7. Split(S) \subseteq Nat
  BY <1>4, ErrandAssumption, FS_CardinalityType
<1> HIDE DEF rank
<1>8. NextDemand \in Nat /\ \A d \in UsedDemands : d < NextDemand /\ d \in Nat
  BY NextIsFree
<1>9. \A d \in Split(S) : SplitInto(S, d) - NextDemand \in 0..Cardinality(Split(S)) - 1 /\ SplitInto(S, d) \notin UsedDemands
  BY <1>5, <1>6, <1>8
<1>10. \A d, e \in Split(S) : SplitInto(S, d) = SplitInto(S, e) => d = e
  <2> SUFFICES ASSUME NEW d \in Split(S), NEW e \in Split(S), SplitInto(S, d) = SplitInto(S, e) PROVE d = e
    OBVIOUS
  <2>1. rank(d) \in Nat /\ rank(e) \in Nat /\ rank(d) = rank(e)
    BY <1>5, <1>6, <1>8
  <2> QED
    BY <1>5, <1>7, <2>1
<1> QED
  BY <1>1, <1>2, <1>3, <1>4, <1>9, <1>10 DEF UsedDemands

\* What CreateTask leaves: the selected items are in demands of the new task, apart from
\* all others.
LEMMA Created ==
  ASSUME RowsInv, ItemsInv, DenseInv, NEW captain \in Captains, NEW S \in SUBSET Items,
         CreateTask(captain, S)
  PROVE  /\ demands' \in [Demands -> DemandRow]
         /\ \A d \in Demands : \/ demands'[d] = demands[d]
                               \/ demands'[d].status = "shopping"
         /\ UsedDemands' = UsedDemands \cup {SplitInto(S, d) : d \in Split(S)}
         /\ \A i \in S : LET d == items'[i].demand
                         IN  /\ items'[i].status = "shopping" /\ d \in Demands
                             /\ demands'[d].status = "shopping" /\ demands'[d].task = NextTask
                             /\ demands'[d].requester = demands[items[i].demand].requester
         /\ \A i \in Items \ S : /\ items'[i] = items[i]
                                 /\ items[i].demand # 0 =>
                                      demands'[items[i].demand] = demands[items[i].demand]
         /\ \A i, j \in S : items'[i].demand = items'[j].demand => items[i].demand = items[j].demand
         /\ \A i \in S, j \in Items \ S : items'[i].demand # items'[j].demand
         /\ items' \in [Items -> ItemRow]
<1> DEFINE t == NextTask
           new(d) == SplitInto(S, d)
           shopping(d) == [status |-> "shopping", requester |-> demands[d].requester, task |-> t]
           P == Split(S)
<1>1. /\ t \in Tasks
      /\ \A i \in S : items[i].demand \in Demands /\ demands[items[i].demand].status = "open"
      /\ P \subseteq Demands
      /\ \A d \in P : new(d) \in Demands /\ demands[new(d)].status = "none"
      /\ \A d, e \in P : new(d) = new(e) => d = e
  BY Selection
<1>2. /\ demands' = [d \in Demands |->
              IF \E e \in P : new(e) = d
              THEN shopping(CHOOSE e \in P : new(e) = d)
              ELSE IF d \notin P /\ \E i \in S : items[i].demand = d
              THEN shopping(d) ELSE demands[d]]
      /\ items' = [i \in Items |-> IF i \notin S THEN items[i]
              ELSE [status |-> "shopping",
                    demand |-> IF items[i].demand \in P
                               THEN new(items[i].demand) ELSE items[i].demand]]
  BY DEF CreateTask
<1>3. \A d \in P : \E i \in S : items[i].demand = d
  BY DEF Split
<1>4. \A d \in Demands : d \notin P => \A i \in S, j \in Items \ S : items[i].demand = d => items[j].demand # d
  BY DEF Split, ItemsOf
<1>5. \A d \in Demands : shopping(d) \in DemandRow
  BY <1>1 DEF RowsInv, DemandRow, DemandStatuses
<1>6. \A d \in Demands : /\ shopping(d).status = "shopping" /\ shopping(d).task = t
                         /\ shopping(d).requester = demands[d].requester
  OBVIOUS
<1>7. \A i \in Items : items[i].demand \in Demands \cup {0}
                       /\ (items[i].demand # 0 => demands[items[i].demand].status # "none")
                       /\ 0 \notin Demands
  <2>1. 0 \notin Demands
    BY ErrandAssumption, FS_CardinalityType
  <2> QED
    BY <2>1 DEF RowsInv, ItemRow, ItemsInv, ItemOK
<1>n. \A i, j \in S : items[i] \in ItemRow /\ items[j] \in ItemRow
  BY DEF RowsInv
<1> HIDE DEF new, shopping, P
<1>8. \A e \in P : demands'[new(e)] = shopping(e)
  BY <1>1, <1>2
<1>9. \A d \in Demands : (\A e \in P : new(e) # d) =>
         demands'[d] = IF d \notin P /\ \E i \in S : items[i].demand = d THEN shopping(d) ELSE demands[d]
  BY <1>2
<1>10. /\ demands' \in [Demands -> DemandRow]
       /\ \A d \in Demands : demands'[d] = demands[d] \/ demands'[d].status = "shopping"
  <2>1. \A d \in Demands : /\ demands'[d] \in DemandRow
                           /\ demands'[d] = demands[d] \/ demands'[d].status = "shopping"
    BY <1>1, <1>5, <1>6, <1>8, <1>9 DEF RowsInv
  <2> QED
    BY <1>2, <2>1
<1>11. ASSUME NEW i \in S
       PROVE  LET d == items'[i].demand
              IN  /\ items'[i].status = "shopping" /\ d \in Demands
                  /\ demands'[d].status = "shopping" /\ demands'[d].task = t
                  /\ demands'[d].requester = demands[items[i].demand].requester
                  /\ items'[i] \in ItemRow
  <2>1. items'[i] = [status |-> "shopping",
                     demand |-> IF items[i].demand \in P THEN new(items[i].demand) ELSE items[i].demand]
    BY <1>2
  <2>2. items'[i].status = "shopping"
        /\ items'[i].demand = IF items[i].demand \in P THEN new(items[i].demand) ELSE items[i].demand
    BY <2>1
  <2>3. items'[i].demand \in Demands
    BY <1>1, <2>2
  <2>4. items'[i] \in ItemRow
    BY <2>1, <2>2, <2>3 DEF ItemRow, DemandStatuses
  <2>5. CASE items[i].demand \in P
    BY <1>1, <1>6, <1>8, <2>2, <2>3, <2>4, <2>5
  <2>6. CASE items[i].demand \notin P
    <3>1. \A e \in P : new(e) # items[i].demand
      BY <1>1
    <3>2. demands'[items[i].demand] = shopping(items[i].demand)
      BY <1>1, <1>9, <2>6, <3>1
    <3> QED
      BY <1>1, <1>6, <2>2, <2>3, <2>4, <2>6, <3>2
  <2> QED
    BY <2>5, <2>6
<1>12. ASSUME NEW i \in Items \ S
       PROVE  items'[i] = items[i] /\ (items[i].demand # 0 => demands'[items[i].demand] = demands[items[i].demand])
  <2>1. items'[i] = items[i]
    BY <1>2
  <2>2. ASSUME items[i].demand # 0 PROVE demands'[items[i].demand] = demands[items[i].demand]
    <3>1. items[i].demand \in Demands /\ \A e \in P : new(e) # items[i].demand
      BY <1>1, <1>7, <2>2
    <3> QED
      BY <1>4, <1>9, <3>1
  <2> QED
    BY <2>1, <2>2
<1>13. \A i \in S : items'[i].demand = IF items[i].demand \in P THEN new(items[i].demand) ELSE items[i].demand
  BY <1>2
<1>14. \A i, j \in S : items'[i].demand = items'[j].demand => items[i].demand = items[j].demand
  BY <1>1, <1>13
<1>15. \A i \in S, j \in Items \ S : items'[i].demand # items'[j].demand
  BY <1>1, <1>4, <1>7, <1>12, <1>13
<1>16. UsedDemands' = UsedDemands \cup {new(d) : d \in P}
  <2>1. \A d \in Demands : demands'[d].status # "none" <=> d \in UsedDemands \/ \E e \in P : new(e) = d
    BY <1>1, <1>6, <1>8, <1>9 DEF UsedDemands
  <2> QED
    BY <1>1, <2>1 DEF UsedDemands
<1>17. items' \in [Items -> ItemRow]
  BY <1>2, <1>11, <1>12 DEF RowsInv
<1> QED
  BY <1>10, <1>11, <1>12, <1>14, <1>15, <1>16, <1>17 DEF new, P
-----------------------------------------------------------------------------
(* The market: items, demands and tasks.                                   *)

\* The items that a notification is about to write are whole demands.
FoundOK(n) ==
  n.stage = "write" => \A i \in n.found :
    /\ items[i].status # "none"
    /\ items[i].demand # 0 => ItemsOf(items[i].demand) \subseteq n.found

FoundInv == \A n \in notices : FoundOK(n)

MarketInv == RowsInv /\ DenseInv /\ ItemsInv /\ FoundInv

LEMMA FollowingRange ==
  ASSUME NEW s \in TaskStatuses PROVE "open" \notin Following(s) /\ "cancelled" \notin Following(s)
BY DEF Following, TaskStatuses

\* A demand is in one task, and all of its items are.
LEMMA Together ==
  ASSUME RowsInv, ItemsInv, NEW i \in Items, NEW j \in Items,
         items[i].demand # 0, items[j].demand = items[i].demand
  PROVE  /\ items[j].status = items[i].status
         /\ assignments[j].task = assignments[i].task
         /\ i.requester = j.requester
<1>1. ItemOK(i) /\ ItemOK(j)
  BY DEF ItemsInv
<1>2. items[j].status = items[i].status /\ i.requester = j.requester
  BY <1>1 DEF ItemOK
<1>3. ASSUME NEW k \in Items, items[k].status = items[i].status, items[k].demand = items[i].demand
      PROVE  assignments[k].task = NoTask <=> items[i].status \in {"none", "deleted", "open", "cancelled"}
  <2>1. ItemOK(k) /\ ItemOK(i)
    BY DEF ItemsInv
  <2>2. assignments[k].task # NoTask => tasks[assignments[k].task].status \in TaskStatuses
    BY DEF RowsInv, Assignment, TaskRow
  <2>3. assignments[k].task # NoTask => items[k].status \notin {"open", "cancelled"}
    BY <2>1, <2>2, FollowingRange DEF ItemOK
  <2> QED
    BY <1>3, <2>1, <2>3 DEF ItemOK
<1>4. assignments[j].task = NoTask <=> assignments[i].task = NoTask
  BY <1>2, <1>3
<1>5. ASSUME assignments[i].task # NoTask PROVE assignments[i].task = assignments[j].task
  BY <1>1, <1>4, <1>5 DEF ItemOK
<1> QED
  BY <1>2, <1>4, <1>5

\* A step that leaves demands and items alone.
LEMMA MarketKept ==
  ASSUME MarketInv, RowsInv', UNCHANGED demandVars,
         \A t \in Tasks : tasks'[t].status = "none" <=> tasks[t].status = "none",
         \A i \in Items : assignments'[i].task = assignments[i].task,
         \A i \in Items : LET t == assignments[i].task
                          IN  t # NoTask => items[i].status \in Following(tasks'[t].status),
         \A n \in notices' : n \in notices \/ FoundOK(n)
  PROVE  MarketInv'
<1>1. demands' = demands /\ items' = items
  BY DEF demandVars
<1>2. UsedDemands' = UsedDemands /\ UsedTasks' = UsedTasks
  BY <1>1 DEF UsedDemands, UsedTasks
<1>3. DenseInv'
  BY <1>2 DEF MarketInv, DenseInv
<1>4. ItemsInv'
  BY <1>1 DEF MarketInv, ItemsInv, ItemOK
<1>5. FoundInv'
  BY <1>1 DEF MarketInv, FoundInv, FoundOK, ItemsOf
<1> QED
  BY <1>3, <1>4, <1>5 DEF MarketInv

LEMMA FollowingMoved ==
  /\ Following("shopping") = {"shopping"}
  /\ Following("pending_distributing") = {"pending_distributing"}
  /\ Following("distributing") = {"distributing"}
  /\ Following("collecting_payment") = {"pending_payment", "completed"}
  /\ Following("completed") = {"distributing", "pending_payment", "completed"}
  /\ Following("cancelled") = {"completed"}
  /\ Following("none") = {"none"}
BY DEF Following

\* A transition of a task with its demands and items.
LEMMA MarketMoved ==
  ASSUME MarketInv, RowsInv', NEW t \in Tasks, NEW From, NEW to \in DemandStatuses,
         to \notin {"none", "open", "cancelled"},
         tasks[t].status # "none", tasks'[t].status # "none",
         \A u \in Tasks \ {t} : tasks'[u] = tasks[u],
         demands' = MoveDemands(t, From, to), items' = MoveItems(t, From, to),
         \A s \in Following(tasks[t].status) :
           (IF s \in From THEN to ELSE s) \in Following(tasks'[t].status),
         \A i \in Items : assignments'[i].task = assignments[i].task,
         notices' = notices
  PROVE  MarketInv'
<1> USE DEF MarketInv
<1>0. t # NoTask
  BY ErrandAssumption, FS_CardinalityType DEF NoTask
<1>1. /\ \A d \in Demands :
           /\ demands'[d].requester = demands[d].requester /\ demands'[d].task = demands[d].task
           /\ demands'[d].status = IF d \in DemandsOf(t) /\ demands[d].status \in From
                                   THEN to ELSE demands[d].status
      /\ \A i \in Items :
           /\ items'[i].demand = items[i].demand
           /\ items'[i].status = IF i \in AssignedTo(t) /\ items[i].status \in From
                                 THEN to ELSE items[i].status
  BY Moved
<1>2. \A i \in Items : ItemOK(i)
  BY DEF ItemsInv
<1>3. \A i \in AssignedTo(t) : /\ i \in Items /\ items[i].demand \in Demands /\ items[i].demand # 0
                               /\ items[i].status \in Following(tasks[t].status)
                               /\ demands[items[i].demand].task = t
  <2> QED
    BY <1>2, <1>0 DEF AssignedTo, ItemOK, RowsInv, ItemRow
<1>4. UsedDemands' = UsedDemands
  <2>1. \A d \in DemandsOf(t) : demands[d].status # "none"
    BY <1>2, <1>3 DEF DemandsOf, ItemOK
  <2> QED
    BY <1>1, <2>1 DEF UsedDemands
<1>5. UsedTasks' = UsedTasks
  BY DEF UsedTasks
<1>6. ASSUME NEW i \in Items PROVE ItemOK(i)'
  <2>1. CASE i \in AssignedTo(t)
    <3>1. items[i].demand \in DemandsOf(t)
      BY <2>1 DEF DemandsOf
    <3>2. items'[i].status = demands'[items[i].demand].status
      BY <1>1, <1>2, <1>3, <2>1, <3>1 DEF ItemOK
    <3>3. items'[i].status \in Following(tasks'[t].status)
      BY <1>1, <1>3, <2>1
    <3>4. assignments'[i].task = t
      BY <2>1 DEF AssignedTo
    <3>5. items'[i].demand # 0 /\ items'[i].demand = items[i].demand /\ i.requester = demands'[items[i].demand].requester
          /\ demands'[items[i].demand].task = t
      BY <1>1, <1>2, <1>3, <2>1 DEF ItemOK
    <3>6. items'[i].status \notin {"none", "deleted"}
      BY <1>1, <1>2, <1>3, <2>1 DEF ItemOK, DemandStatuses
    <3> QED
      BY <1>0, <3>2, <3>3, <3>4, <3>5, <3>6 DEF ItemOK
  <2>2. CASE i \notin AssignedTo(t)
    <3>1. items[i].demand # 0 => items[i].demand \notin DemandsOf(t) /\ items[i].demand \in Demands
      <4>1. ASSUME NEW j \in AssignedTo(t), items[i].demand = items[j].demand, items[i].demand # 0 PROVE FALSE
        <5>1. j \in Items /\ assignments[j].task = t
          BY DEF AssignedTo
        <5>2. assignments[i].task = t
          BY <4>1, <5>1, Together
        <5> QED
          BY <2>2, <5>2 DEF AssignedTo
      <4> QED
        BY <4>1 DEF DemandsOf, RowsInv, ItemRow
    <3>2. items'[i].status = items[i].status /\ items'[i].demand = items[i].demand
      BY <1>1, <2>2
    <3>3. items[i].demand # 0 => /\ demands'[items[i].demand].status = demands[items[i].demand].status
                                 /\ demands'[items[i].demand].requester = demands[items[i].demand].requester
                                 /\ demands'[items[i].demand].task = demands[items[i].demand].task
      BY <1>1, <3>1
    <3>4. assignments'[i].task = assignments[i].task
          /\ (assignments[i].task # NoTask => tasks'[assignments[i].task] = tasks[assignments[i].task])
      BY <2>2 DEF AssignedTo, RowsInv, Assignment
    <3> QED
      BY <1>2, <3>2, <3>3, <3>4 DEF ItemOK
  <2> QED
    BY <2>1, <2>2
<1>7. ASSUME NEW n \in notices PROVE FoundOK(n)'
  <2>1. n.found \subseteq Items
    BY DEF RowsInv, Notice
  <2>2. \A i \in Items : items[i].status # "none" => items'[i].status # "none"
    BY <1>1
  <2>3. \A d : ItemsOf(d)' = ItemsOf(d)
    BY <1>1 DEF ItemsOf
  <2> QED
    BY <1>1, <2>1, <2>2, <2>3 DEF FoundInv, FoundOK
<1> QED
  BY <1>4, <1>5, <1>6, <1>7 DEF DenseInv, ItemsInv, FoundInv

\* New rows for demand d, whose old ones go.
LEMMA MarketPublished ==
  ASSUME MarketInv, NEW S \in SUBSET Items, Basket(S), NEW d \in Demands,
         items' = Publish(d, S),
         demands' \in [Demands -> DemandRow],
         demands'[d].status = "open", \A i \in S : i.requester = demands'[d].requester,
         \A e \in Demands \ {d} : demands'[e] = demands[e],
         \A i \in ItemsOf(d) : assignments[i].task = NoTask,
         DenseInv',
         UNCHANGED <<taskVars, callVars>>
  PROVE  MarketInv'
<1> USE DEF MarketInv
<1>1. \A i \in S : items[i].status = "none" /\ items[i].demand = 0 /\ assignments[i].task = NoTask
  <2>1. \A i \in S : items[i].status = "none" /\ ItemOK(i)
    BY DEF Basket, ItemsInv
  <2>2. \A i \in S : items[i].demand = 0
    BY <2>1 DEF ItemOK
  <2> QED
    BY <2>1, <2>2 DEF ItemOK
<1>2. \A i \in Items : items'[i] = IF i \in S THEN [status |-> "open", demand |-> d]
                                   ELSE IF items[i].demand = d THEN [status |-> "deleted", demand |-> 0]
                                   ELSE items[i]
  BY DEF Publish
<1>3. d # 0
  BY ErrandAssumption, FS_CardinalityType
<1>4. /\ \A i \in S : items'[i].status = "open" /\ items'[i].demand = d
      /\ \A i \in ItemsOf(d) : items'[i].status = "deleted" /\ items'[i].demand = 0
      /\ \A i \in Items : i \notin S /\ i \notin ItemsOf(d) => items'[i] = items[i]
  BY <1>1, <1>2, <1>3 DEF ItemsOf
<1>5. RowsInv'
  <2>1. items' \in [Items -> ItemRow]
    BY <1>2 DEF Publish, RowsInv, ItemRow, DemandStatuses
  <2> QED
    BY <2>1 DEF RowsInv, taskVars, callVars
<1>6. ASSUME NEW i \in Items PROVE ItemOK(i)'
  <2>0. UNCHANGED <<tasks, assignments>> /\ ItemOK(i)
    BY DEF taskVars, ItemsInv
  <2>1. CASE i \in S
    BY <1>1, <1>3, <1>4, <2>0, <2>1 DEF ItemOK
  <2>2. CASE i \in ItemsOf(d)
    BY <1>4, <2>0, <2>2 DEF ItemOK
  <2>3. CASE i \notin S /\ i \notin ItemsOf(d)
    <3>1. items'[i] = items[i] /\ (items[i].demand # 0 => demands'[items[i].demand] = demands[items[i].demand])
      BY <1>4, <2>3 DEF ItemsOf, RowsInv, ItemRow
    <3> QED
      BY <2>0, <3>1 DEF ItemOK
  <2> QED
    BY <2>1, <2>2, <2>3
<1>7. ASSUME NEW n \in notices, n.stage = "write", NEW i \in n.found
      PROVE  /\ items'[i].status # "none"
             /\ items'[i].demand # 0 => \A j \in Items : items'[j].demand = items'[i].demand => j \in n.found
  <2>1. i \in Items /\ FoundOK(n)
    BY DEF RowsInv, Notice, FoundInv
  <2>2. i \notin S
    BY <1>1, <1>7, <2>1 DEF FoundOK
  <2>3. CASE i \in ItemsOf(d)
    BY <1>4, <2>3
  <2>4. CASE i \notin ItemsOf(d)
    <3>1. items'[i] = items[i] /\ items[i].demand # d
      BY <1>4, <2>1, <2>2, <2>4 DEF ItemsOf
    <3>2. \A j \in Items : items'[j].demand = items[i].demand /\ items[i].demand # 0 => items[j].demand = items[i].demand
      BY <1>4, <3>1
    <3>3. items[i].demand # 0 => ItemsOf(items[i].demand) \subseteq n.found
      BY <1>7, <2>1 DEF FoundOK
    <3>4. items[i].status # "none"
      BY <1>7, <2>1 DEF FoundOK
    <3> QED
      BY <3>1, <3>2, <3>3, <3>4 DEF ItemsOf
  <2> QED
    BY <2>3, <2>4
<1>8. FoundInv'
  BY <1>7 DEF FoundInv, FoundOK, ItemsOf, callVars
<1> QED
  BY <1>5, <1>6, <1>8 DEF ItemsInv

LEMMA MarketBuyer ==
  ASSUME MarketInv, BuyerStep
  PROVE  MarketInv'
<1> USE DEF MarketInv
<1>1. ASSUME NEW S \in SUBSET Items, CreateErrandDemand(S) PROVE MarketInv'
  <2> DEFINE d == NextDemand
             row == [status |-> "open", requester |-> (CHOOSE i \in S : TRUE).requester, task |-> NoTask]
  <2>1. /\ Basket(S) /\ d \in Demands /\ demands' = [demands EXCEPT ![d] = row]
        /\ items' = Publish(d, S) /\ UNCHANGED <<taskVars, callVars>>
    BY <1>1 DEF CreateErrandDemand
  <2>2. (CHOOSE i \in S : TRUE) \in S
    BY <2>1 DEF Basket
  <2>3. row \in DemandRow /\ row.status = "open" /\ \A i \in S : i.requester = row.requester
    BY <2>1, <2>2, ErrandAssumption DEF DemandRow, DemandStatuses, Basket
  <2>4. /\ IsFiniteSet(UsedDemands) /\ Cardinality(UsedDemands) \in Nat
        /\ d = Cardinality(UsedDemands) + 1 /\ \A e \in UsedDemands : e \in Nat /\ e < d
    BY NextIsFree
  <2>5. demands[d].status = "none"
    BY <2>1, <2>4 DEF UsedDemands
  <2> HIDE DEF row, d
  <2>6. /\ demands' \in [Demands -> DemandRow] /\ demands'[d] = row
        /\ \A e \in Demands \ {d} : demands'[e] = demands[e]
    BY <2>1, <2>3 DEF RowsInv
  <2>7. UsedDemands' = UsedDemands \cup {d}
    BY <2>1, <2>3, <2>6 DEF UsedDemands
  <2>8. Cardinality(UsedDemands') = Cardinality(UsedDemands) + 1
    <3>1. d \notin UsedDemands
      BY <2>5 DEF UsedDemands
    <3> QED
      BY <2>4, <2>7, <3>1, FS_AddElement
  <2>9. UsedTasks' = UsedTasks
    BY <2>1 DEF UsedTasks, taskVars
  <2>10. DenseInv'
    BY <2>4, <2>7, <2>8, <2>9 DEF DenseInv
  <2>11. ItemsOf(d) = {}
    <3>1. d # 0
      BY <2>1, ErrandAssumption, FS_CardinalityType
    <3> QED
      BY <2>5, <3>1 DEF ItemsOf, ItemsInv, ItemOK
  <2> QED
    BY <2>1, <2>3, <2>6, <2>10, <2>11, MarketPublished
<1>2. ASSUME NEW S \in SUBSET Items, NEW d \in Demands, UpdateErrandDemand(d, S) PROVE MarketInv'
  <2>1. DenseInv'
    BY <1>2 DEF UpdateErrandDemand, DenseInv, UsedDemands, UsedTasks, taskVars
  <2> QED
    BY <1>2, <2>1, MarketPublished DEF UpdateErrandDemand, RowsInv
<1>3. ASSUME NEW d \in Demands, CancelErrandDemand(d) PROVE MarketInv'
  <2>1. /\ demands[d].status = "open" /\ demands[d] \in DemandRow
        /\ demands' = [demands EXCEPT ![d] = [demands[d] EXCEPT !.status = "cancelled"]]
        /\ UNCHANGED <<tasks, taskItems, assignments, calls, notices, closings>>
    BY <1>3 DEF CancelErrandDemand, taskVars, callVars, RowsInv
  <2>2. PICK row : row = [demands[d] EXCEPT !.status = "cancelled"]
    OBVIOUS
  <2>3. row \in DemandRow /\ row.status = "cancelled" /\ row.requester = demands[d].requester
    BY <2>1, <2>2, DemandRowWritten DEF DemandStatuses
  <2>4. demands' \in [Demands -> DemandRow] /\ demands'[d] = row /\ \A e \in Demands \ {d} : demands'[e] = demands[e]
    BY <2>1, <2>2, <2>3 DEF RowsInv
  <2>5. \A i \in Items : ItemOK(i) /\ items[i] \in ItemRow
    BY DEF ItemsInv, RowsInv
  <2>6. d # 0
    BY ErrandAssumption, FS_CardinalityType
  <2>7. \A i \in ItemsOf(d) : items[i].status = "open"
    BY <2>1, <2>5, <2>6 DEF ItemsOf, ItemOK
  <2>8. ASSUME NEW i \in Items
        PROVE  /\ items'[i] \in ItemRow
               /\ items'[i].demand = items[i].demand
               /\ items'[i].status = IF i \in ItemsOf(d) THEN "cancelled" ELSE items[i].status
    <3>1. CASE i \in ItemsOf(d)
      <4>1. items'[i] = [items[i] EXCEPT !.status = "cancelled"]
        BY <1>3, <2>7, <3>1 DEF CancelErrandDemand
      <4>2. LET e == [items[i] EXCEPT !.status = "cancelled"]
            IN  e \in ItemRow /\ e.status = "cancelled" /\ e.demand = items[i].demand
        BY <2>5, ItemRowWritten DEF DemandStatuses
      <4> QED
        BY <3>1, <4>1, <4>2
    <3>2. CASE i \notin ItemsOf(d)
      <4>1. items'[i] = items[i]
        BY <1>3, <3>2 DEF CancelErrandDemand
      <4> QED
        BY <2>5, <3>2, <4>1
    <3> QED
      BY <3>1, <3>2
  <2>9. RowsInv'
    <3>1. items' \in [Items -> ItemRow]
      BY <1>3, <2>8 DEF CancelErrandDemand
    <3> QED
      BY <2>1, <2>4, <3>1 DEF RowsInv
  <2>10. UsedDemands' = UsedDemands /\ UsedTasks' = UsedTasks
    BY <2>1, <2>3, <2>4 DEF UsedDemands, UsedTasks
  <2>11. ASSUME NEW i \in Items PROVE ItemOK(i)'
    <3>1. CASE i \in ItemsOf(d)
      <4>1. assignments[i].task = NoTask
        <5>1. items[i].status = "open" /\ items[i].demand = d
          BY <2>7, <3>1 DEF ItemsOf
        <5>2. assignments[i].task # NoTask => "open" \in Following(tasks[assignments[i].task].status)
          BY <2>5, <5>1 DEF ItemOK
        <5>3. assignments[i].task # NoTask => tasks[assignments[i].task].status \in TaskStatuses
          BY DEF RowsInv, Assignment, TaskRow
        <5> QED
          BY <5>2, <5>3, FollowingRange
      <4>2. items[i].demand = d
        BY <3>1 DEF ItemsOf
      <4> QED
        BY <2>1, <2>3, <2>4, <2>5, <2>6, <2>8, <3>1, <4>1, <4>2 DEF ItemOK
    <3>2. CASE i \notin ItemsOf(d)
      <4>1. items[i].demand # 0 => demands'[items[i].demand] = demands[items[i].demand]
        BY <2>4, <2>5, <3>2 DEF ItemsOf, ItemRow
      <4>2. items'[i].status = items[i].status /\ items'[i].demand = items[i].demand
        BY <2>8, <3>2
      <4>3. tasks' = tasks /\ assignments' = assignments
        BY <2>1
      <4> QED
        BY <2>5, <4>1, <4>2, <4>3 DEF ItemOK
    <3> QED
      BY <3>1, <3>2
  <2>12. FoundInv'
    <3>1. \A i \in Items : items[i].status # "none" => items'[i].status # "none"
      BY <2>8
    <3>2. \A e : ItemsOf(e)' = ItemsOf(e)
      BY <2>8 DEF ItemsOf
    <3>3. \A n \in notices : n.found \subseteq Items
      BY DEF RowsInv, Notice
    <3> QED
      BY <2>1, <2>8, <3>1, <3>2, <3>3 DEF FoundInv, FoundOK
  <2> QED
    BY <2>9, <2>10, <2>11, <2>12 DEF DenseInv, ItemsInv
<1> QED
  BY <1>1, <1>2, <1>3 DEF BuyerStep, Selections

LEMMA QuantitySum ==
  ASSUME NEW S \in SUBSET Items PROVE Total([i \in S |-> i.quantity]) \in Nat
<1>1. PICK F : F = [i \in S |-> i.quantity]
  OBVIOUS
<1>2. F \in [S -> Nat] /\ IsFiniteSet(S)
  BY <1>1, ErrandAssumption, FS_Subset
<1> QED
  BY <1>1, <1>2, TotalNat

LEMMA RowsCreated ==
  ASSUME RowsInv, ItemsInv, DenseInv, NEW captain \in Captains, NEW S \in SUBSET Items,
         CreateTask(captain, S)
  PROVE  /\ RowsInv'
         /\ tasks'[NextTask].status = "shopping" /\ \A u \in Tasks \ {NextTask} : tasks'[u] = tasks[u]
         /\ \A p \in Products : taskItems'[NextTask][p].required = Total([i \in {j \in S : j.product = p} |-> i.quantity])
         /\ \A u \in Tasks \ {NextTask} : taskItems'[u] = taskItems[u]
         /\ \A i \in S : assignments'[i].task = NextTask /\ assignments'[i].quantity = Unset
         /\ \A i \in Items \ S : assignments'[i] = assignments[i]
<1> DEFINE t == NextTask
           row == [status |-> "shopping", captain |-> captain, packaging |-> 0]
           bought(p) == {j \in S : j.product = p}
           list(p) == [required |-> Total([i \in bought(p) |-> i.quantity]),
                       purchased |-> Unset, price |-> Unset]
           taken == [task |-> t, quantity |-> Unset, billed |-> FALSE]
<1>1. /\ t \in Tasks
      /\ tasks' = [tasks EXCEPT ![t] = row]
      /\ taskItems' = [taskItems EXCEPT ![t] = [p \in Products |-> list(p)]]
      /\ assignments' = [i \in Items |-> IF i \in S THEN taken ELSE assignments[i]]
      /\ UNCHANGED <<notices, closings>>
  BY DEF CreateTask, callVars
<1>2. row \in TaskRow /\ row.status = "shopping"
  BY DEF TaskRow, TaskStatuses
<1>3. taken \in Assignment /\ taken.task = t /\ taken.quantity = Unset
  BY <1>1 DEF Assignment
<1>4. ASSUME NEW p \in Products
      PROVE  list(p) \in TaskItemRow /\ list(p).required = Total([i \in bought(p) |-> i.quantity])
  <2>1. bought(p) \in SUBSET Items
    OBVIOUS
  <2>2. Total([i \in bought(p) |-> i.quantity]) \in Nat
    BY <2>1, QuantitySum
  <2> QED
    BY <2>2 DEF TaskItemRow, Unset
<1>5. demands' \in [Demands -> DemandRow] /\ items' \in [Items -> ItemRow]
  BY Created
<1> HIDE DEF t, row, list, taken
<1>6. [p \in Products |-> list(p)] \in [Products -> TaskItemRow]
  BY <1>4
<1>7. /\ tasks' \in [Tasks -> TaskRow] /\ tasks'[t] = row /\ \A u \in Tasks \ {t} : tasks'[u] = tasks[u]
  BY <1>1, <1>2 DEF RowsInv
<1>8. /\ taskItems' \in [Tasks -> [Products -> TaskItemRow]]
      /\ taskItems'[t] = [p \in Products |-> list(p)]
      /\ \A u \in Tasks \ {t} : taskItems'[u] = taskItems[u]
  BY <1>1, <1>6 DEF RowsInv
<1>9. assignments' \in [Items -> Assignment]
  BY <1>1, <1>3 DEF RowsInv
<1>10. \A p \in Products : taskItems'[t][p].required = Total([i \in {j \in S : j.product = p} |-> i.quantity])
  BY <1>4, <1>8
<1>11. RowsInv'
  BY <1>1, <1>5, <1>7, <1>8, <1>9 DEF RowsInv
<1> QED
  BY <1>1, <1>2, <1>3, <1>7, <1>8, <1>10, <1>11 DEF t

LEMMA MarketCreate ==
  ASSUME MarketInv, NEW captain \in Captains, NEW S \in SUBSET Items, CreateTask(captain, S)
  PROVE  MarketInv'
<1> USE DEF MarketInv
<1> DEFINE t == NextTask
           Image == {SplitInto(S, d) : d \in Split(S)}
<1>1. /\ t \in Tasks /\ tasks[t].status = "none"
      /\ \A i \in S : /\ items[i].status = "open" /\ items[i].demand \in Demands
                      /\ demands[items[i].demand].status = "open"
      /\ Split(S) \subseteq Demands
      /\ \A d \in Split(S) : /\ SplitInto(S, d) \in Demands
                             /\ demands[SplitInto(S, d)].status = "none"
                             /\ SplitInto(S, d) - NextDemand \in 0..Cardinality(Split(S)) - 1
      /\ \A d, e \in Split(S) : SplitInto(S, d) = SplitInto(S, e) => d = e
  BY Selection
<1>2. /\ RowsInv'
      /\ tasks'[t].status = "shopping" /\ \A u \in Tasks \ {t} : tasks'[u] = tasks[u]
      /\ \A i \in S : assignments'[i].task = t
      /\ \A i \in Items \ S : assignments'[i] = assignments[i]
  BY RowsCreated
<1>3. /\ UsedDemands' = UsedDemands \cup Image
      /\ \A i \in S : LET d == items'[i].demand
                      IN  /\ items'[i].status = "shopping" /\ d \in Demands
                          /\ demands'[d].status = "shopping" /\ demands'[d].task = t
                          /\ demands'[d].requester = demands[items[i].demand].requester
      /\ \A i \in Items \ S : /\ items'[i] = items[i]
                              /\ items[i].demand # 0 => demands'[items[i].demand] = demands[items[i].demand]
      /\ \A i, j \in S : items'[i].demand = items'[j].demand => items[i].demand = items[j].demand
      /\ \A i \in S, j \in Items \ S : items'[i].demand # items'[j].demand
  BY Created
<1>4. 0 \notin Demands /\ 0 \notin Tasks
  BY ErrandAssumption, FS_CardinalityType
<1>5. notices' = notices
  BY DEF CreateTask, callVars
<1>6. /\ IsFiniteSet(UsedDemands) /\ Cardinality(UsedDemands) \in Nat
      /\ NextDemand = Cardinality(UsedDemands) + 1 /\ \A e \in UsedDemands : e \in Nat /\ e < NextDemand
      /\ IsFiniteSet(UsedTasks) /\ Cardinality(UsedTasks) \in Nat
      /\ t = Cardinality(UsedTasks) + 1 /\ t \notin UsedTasks
  BY NextIsFree
<1>7. Demands \subseteq Nat /\ Tasks \subseteq Nat
  BY ErrandAssumption, FS_CardinalityType
<1>8. IsFiniteSet(Image) /\ Cardinality(Image) = Cardinality(Split(S)) /\ Cardinality(Image) \in Nat
  <2> DEFINE f == [d \in Split(S) |-> SplitInto(S, d)]
  <2>1. f \in Bijection(Split(S), Image)
    <3>1. f \in [Split(S) -> Image] /\ \A d, e \in Split(S) : f[d] = f[e] => d = e
      BY <1>1
    <3>2. \A x \in Image : \E d \in Split(S) : f[d] = x
      OBVIOUS
    <3> QED
      BY <3>1, <3>2 DEF Bijection, Injection, Surjection, IsInjective
  <2>2. ExistsBijection(Split(S), Image)
    BY <2>1 DEF ExistsBijection
  <2>3. IsFiniteSet(Split(S)) /\ Cardinality(Split(S)) \in Nat
    BY <1>1, Ranks
  <2> QED
    BY <2>2, <2>3, FS_Bijection
<1>9. \A d \in Image : d \in Nat /\ d >= NextDemand /\ d <= NextDemand + Cardinality(Image) - 1
  <2> SUFFICES ASSUME NEW e \in Split(S)
               PROVE  LET d == SplitInto(S, e) IN d \in Nat /\ d >= NextDemand /\ d <= NextDemand + Cardinality(Image) - 1
    OBVIOUS
  <2>1. SplitInto(S, e) \in Nat /\ SplitInto(S, e) - NextDemand \in 0..Cardinality(Image) - 1
    BY <1>1, <1>7, <1>8
  <2> QED
    BY <1>6, <1>8, <2>1
<1> HIDE DEF Image, t
<1>10. Cardinality(UsedDemands') = Cardinality(UsedDemands) + Cardinality(Image)
  <2>1. UsedDemands \cap Image = {}
    BY <1>6, <1>9
  <2>2. Cardinality(UsedDemands \cap Image) = 0
    BY <2>1, FS_EmptySet
  <2> QED
    <3>1. Cardinality(UsedDemands \cup Image) = Cardinality(UsedDemands) + Cardinality(Image) - 0
      BY <1>6, <1>8, <2>2, FS_Union
    <3> QED
      BY <1>3, <1>6, <1>8, <3>1
<1>11. \A d \in UsedDemands' : d <= Cardinality(UsedDemands')
  BY <1>3, <1>6, <1>8, <1>9, <1>10
<1>12. UsedTasks' = UsedTasks \cup {t}
  BY <1>1, <1>2 DEF UsedTasks
<1>13. Cardinality(UsedTasks') = Cardinality(UsedTasks) + 1
  BY <1>6, <1>12, FS_AddElement
<1>14. \A u \in UsedTasks' : u <= Cardinality(UsedTasks')
  <2>1. \A u \in UsedTasks : u \in Nat /\ u <= Cardinality(UsedTasks)
    BY <1>7 DEF DenseInv, UsedTasks
  <2> QED
    BY <1>6, <1>12, <1>13, <2>1
<1>15. ASSUME NEW i \in Items PROVE ItemOK(i)'
  <2>0. ItemOK(i)
    BY DEF ItemsInv
  <2>1. CASE i \in S
    <3>1. i.requester = demands[items[i].demand].requester
      BY <1>1, <1>4, <2>0, <2>1 DEF ItemOK
    <3>2. "shopping" \in Following(tasks'[t].status)
      BY <1>2, FollowingMoved
    <3> QED
      BY <1>1, <1>2, <1>3, <1>4, <2>1, <3>1, <3>2 DEF ItemOK, NoTask
  <2>2. CASE i \notin S
    <3>1. items'[i] = items[i] /\ assignments'[i] = assignments[i]
          /\ (items[i].demand # 0 => demands'[items[i].demand] = demands[items[i].demand])
      BY <1>2, <1>3, <2>2
    <3>2. assignments[i].task # NoTask => tasks'[assignments[i].task] = tasks[assignments[i].task]
      <4>1. assignments[i].task # NoTask => assignments[i].task \in Tasks
        BY DEF RowsInv, Assignment
      <4>2. assignments[i].task # NoTask => assignments[i].task # t
        BY <1>1, <2>0, FollowingMoved DEF ItemOK
      <4> QED
        BY <1>2, <4>1, <4>2
    <3> QED
      BY <2>0, <3>1, <3>2 DEF ItemOK
  <2> QED
    BY <2>1, <2>2
<1>16. ASSUME NEW n \in notices, n.stage = "write", NEW i \in n.found
       PROVE  /\ items'[i].status # "none"
              /\ items'[i].demand # 0 => \A j \in Items : items'[j].demand = items'[i].demand => j \in n.found
  <2>1. i \in Items
    BY DEF RowsInv, Notice
  <2>2. items[i].status # "none" /\ \A j \in Items : items[j].demand = items[i].demand /\ items[i].demand # 0 => j \in n.found
    BY <1>16 DEF FoundInv, FoundOK, ItemsOf
  <2>3. CASE i \in S
    BY <1>1, <1>3, <1>4, <2>2, <2>3
  <2>4. CASE i \notin S
    BY <1>3, <2>1, <2>2, <2>4
  <2> QED
    BY <2>3, <2>4
<1> QED
  BY <1>2, <1>5, <1>11, <1>14, <1>15, <1>16 DEF DenseInv, ItemsInv, FoundInv, FoundOK, ItemsOf

\* What CancelTask leaves of the items and demands of the task.
LEMMA Cancelled ==
  ASSUME RowsInv, ItemsInv, NEW t \in Tasks, CancelTask(t)
  PROVE  /\ RowsInv'
         /\ tasks'[t].status = "cancelled" /\ tasks'[t].captain = tasks[t].captain
         /\ \A u \in Tasks \ {t} : tasks'[u] = tasks[u]
         /\ \A d \in Demands : IF d \in DemandsOf(t) /\ demands[d].status \notin {"completed", "cancelled"}
                               THEN /\ demands'[d].status = "open"
                                    /\ demands'[d].requester = demands[d].requester
                               ELSE demands'[d] = demands[d]
         /\ \A i \in Items : IF i \in Reopened(t)
                             THEN /\ items'[i].status = "open" /\ items'[i].demand = items[i].demand
                                  /\ assignments'[i].task = NoTask /\ assignments'[i].quantity = Unset
                             ELSE items'[i] = items[i] /\ assignments'[i] = assignments[i]
<1> DEFINE free == [task |-> NoTask, quantity |-> Unset, billed |-> FALSE]
<1>0. "cancelled" \in TaskStatuses /\ "open" \in DemandStatuses
  BY DEF TaskStatuses, DemandStatuses
<1>1. /\ tasks' \in [Tasks -> TaskRow]
      /\ tasks'[t].status = "cancelled" /\ tasks'[t].captain = tasks[t].captain
      /\ \A u \in Tasks \ {t} : tasks'[u] = tasks[u]
  BY <1>0, TaskWritten DEF CancelTask, RowsInv
<1>2. ASSUME NEW d \in Demands
      PROVE  /\ demands'[d] \in DemandRow
             /\ IF d \in DemandsOf(t) /\ demands[d].status \notin {"completed", "cancelled"}
                THEN /\ demands'[d].status = "open"
                     /\ demands'[d].requester = demands[d].requester
                ELSE demands'[d] = demands[d]
  <2>1. demands[d] \in DemandRow
    BY DEF RowsInv
  <2>2. LET e == [demands[d] EXCEPT !.status = "open", !.task = NoTask]
        IN  e \in DemandRow /\ e.status = "open" /\ e.requester = demands[d].requester
    BY <1>0, <2>1, DemandRowWritten
  <2>3. demands'[d] = IF d \in DemandsOf(t) /\ demands[d].status \notin {"completed", "cancelled"}
                      THEN [demands[d] EXCEPT !.status = "open", !.task = NoTask] ELSE demands[d]
    BY DEF CancelTask
  <2> QED
    BY <2>1, <2>2, <2>3
<1>3. free \in Assignment /\ free.task = NoTask /\ free.quantity = Unset
  BY DEF Assignment
<1> HIDE DEF free
<1>4. ASSUME NEW i \in Items
      PROVE  /\ items'[i] \in ItemRow /\ assignments'[i] \in Assignment
             /\ IF i \in Reopened(t)
                THEN /\ items'[i].status = "open" /\ items'[i].demand = items[i].demand
                     /\ assignments'[i].task = NoTask /\ assignments'[i].quantity = Unset
                ELSE items'[i] = items[i] /\ assignments'[i] = assignments[i]
  <2>1. items[i] \in ItemRow /\ assignments[i] \in Assignment
    BY DEF RowsInv
  <2>2. LET e == [items[i] EXCEPT !.status = "open"]
        IN  e \in ItemRow /\ e.status = "open" /\ e.demand = items[i].demand
    BY <1>0, <2>1, ItemRowWritten
  <2>3. /\ items'[i] = IF i \in Reopened(t) THEN [items[i] EXCEPT !.status = "open"] ELSE items[i]
        /\ assignments'[i] = IF i \in Reopened(t) THEN free ELSE assignments[i]
    BY DEF CancelTask, free
  <2> QED
    BY <1>3, <2>1, <2>2, <2>3
<1>5. RowsInv'
  <2>1. demands' \in [Demands -> DemandRow]
    BY <1>2 DEF CancelTask
  <2>2. items' \in [Items -> ItemRow] /\ assignments' \in [Items -> Assignment]
    BY <1>4 DEF CancelTask
  <2>3. taskItems' = taskItems /\ notices' = notices /\ closings' \subseteq closings \cup {t}
    BY DEF CancelTask
  <2> QED
    BY <1>1, <2>1, <2>2, <2>3 DEF RowsInv
<1> QED
  BY <1>1, <1>2, <1>4, <1>5

LEMMA MarketCancel ==
  ASSUME MarketInv, NEW t \in Tasks, CancelTask(t)
  PROVE  MarketInv'
<1> USE DEF MarketInv
<1>0. t # NoTask /\ 0 \notin Demands
  BY ErrandAssumption, FS_CardinalityType DEF NoTask
<1>1. /\ RowsInv'
      /\ tasks'[t].status = "cancelled"
      /\ \A u \in Tasks \ {t} : tasks'[u] = tasks[u]
      /\ \A d \in Demands : IF d \in DemandsOf(t) /\ demands[d].status \notin {"completed", "cancelled"}
                            THEN demands'[d].status = "open" /\ demands'[d].requester = demands[d].requester
                            ELSE demands'[d] = demands[d]
      /\ \A i \in Items : IF i \in Reopened(t)
                          THEN /\ items'[i].status = "open" /\ items'[i].demand = items[i].demand
                               /\ assignments'[i].task = NoTask
                          ELSE items'[i] = items[i] /\ assignments'[i] = assignments[i]
  BY Cancelled
<1>2. tasks[t].status # "none" /\ notices' = notices
  BY DEF CancelTask
<1>3. \A i \in AssignedTo(t) : /\ i \in Items /\ ItemOK(i) /\ items[i].demand \in DemandsOf(t)
                               /\ items[i].demand \in Demands /\ assignments[i].task = t
  BY <1>0 DEF AssignedTo, DemandsOf, ItemsInv, ItemOK, RowsInv, ItemRow
<1>4. \A d \in DemandsOf(t) : demands[d].status # "none"
  BY <1>0, <1>3 DEF DemandsOf, ItemOK
<1>5. UsedDemands' = UsedDemands /\ UsedTasks' = UsedTasks
  BY <1>1, <1>2, <1>4 DEF UsedDemands, UsedTasks
<1>6. ASSUME NEW i \in Items PROVE ItemOK(i)'
  <2>0. ItemOK(i)
    BY DEF ItemsInv
  <2>1. CASE i \in Reopened(t)
    <3>1. /\ i \in AssignedTo(t) /\ items[i].status \notin {"completed", "cancelled"}
      BY <2>1 DEF Reopened
    <3>2. demands[items[i].demand].status = items[i].status /\ items[i].demand # 0
          /\ i.requester = demands[items[i].demand].requester
      BY <1>0, <1>3, <3>1 DEF ItemOK
    <3>3. /\ demands'[items[i].demand].status = "open"
          /\ demands'[items[i].demand].requester = demands[items[i].demand].requester
      BY <1>1, <1>3, <3>1, <3>2
    <3> QED
      BY <1>1, <2>1, <3>2, <3>3 DEF ItemOK
  <2>2. CASE i \in AssignedTo(t) /\ i \notin Reopened(t)
    <3>1. items[i].status \in {"completed", "cancelled"}
      BY <2>2 DEF Reopened
    <3>2. items[i].status # "cancelled"
      <4>1. items[i].status \in Following(tasks[t].status) /\ tasks[t].status \in TaskStatuses
        BY <1>0, <1>3, <2>2 DEF ItemOK, RowsInv, TaskRow
      <4> QED
        BY <4>1, FollowingRange
    <3>3. items[i].status = demands[items[i].demand].status
      BY <1>0, <1>3, <2>2 DEF ItemOK
    <3>4. demands'[items[i].demand] = demands[items[i].demand]
      BY <1>1, <1>3, <2>2, <3>1, <3>3
    <3>5. items'[i] = items[i] /\ assignments'[i] = assignments[i] /\ assignments[i].task = t
      BY <1>1, <1>3, <2>2
    <3> QED
      BY <1>1, <2>0, <3>1, <3>2, <3>4, <3>5, FollowingMoved DEF ItemOK
  <2>3. CASE i \notin AssignedTo(t)
    <3>1. items'[i] = items[i] /\ assignments'[i] = assignments[i]
      BY <1>1, <2>3 DEF Reopened
    <3>2. items[i].demand # 0 => items[i].demand \notin DemandsOf(t) /\ items[i].demand \in Demands
      <4>1. ASSUME NEW j \in AssignedTo(t), items[i].demand = items[j].demand, items[i].demand # 0 PROVE FALSE
        <5>1. assignments[i].task = t
          BY <1>3, <4>1, Together
        <5> QED
          BY <2>3, <5>1 DEF AssignedTo
      <4> QED
        BY <4>1 DEF DemandsOf, RowsInv, ItemRow
    <3>3. items[i].demand # 0 => demands'[items[i].demand] = demands[items[i].demand]
      BY <1>1, <3>2
    <3>4. assignments[i].task # NoTask => tasks'[assignments[i].task] = tasks[assignments[i].task]
      BY <1>1, <2>3 DEF AssignedTo, RowsInv, Assignment
    <3> QED
      BY <2>0, <3>1, <3>3, <3>4 DEF ItemOK
  <2> QED
    BY <2>1, <2>2, <2>3
<1>7. FoundInv'
  <2>1. \A i \in Items : items'[i].demand = items[i].demand /\ (items[i].status # "none" => items'[i].status # "none")
    BY <1>1
  <2>2. \A d : ItemsOf(d)' = ItemsOf(d)
    BY <2>1 DEF ItemsOf
  <2>3. \A n \in notices : n.found \subseteq Items
    BY DEF RowsInv, Notice
  <2> QED
    BY <1>2, <2>1, <2>2, <2>3 DEF FoundInv, FoundOK
<1> QED
  BY <1>1, <1>5, <1>6, <1>7 DEF DenseInv, ItemsInv

\* A notification goes on.
LEMMA NoticeMoved ==
  ASSUME notices \subseteq Notice, NEW n \in notices, NEW s \in {"read", "write", "count", "all"},
         NEW F \in SUBSET Items, NoticeGoto(n, s, F)
  PROVE  \E m \in Notice : /\ notices' = (notices \ {n}) \cup {m}
                           /\ m.stage = s /\ m.found = F /\ m.task = n.task /\ m.payer = n.payer
<1>1. PICK m : m = [n EXCEPT !.stage = s, !.found = F]
  OBVIOUS
<1>2. n \in Notice
  OBVIOUS
<1>3. m \in Notice /\ m.stage = s /\ m.found = F /\ m.task = n.task /\ m.payer = n.payer
  BY <1>1, <1>2 DEF Notice
<1>4. notices' = (notices \ {n}) \cup {m}
  BY <1>1 DEF NoticeGoto
<1> QED
  BY <1>3, <1>4

\* What a confirmation writes.
LEMMA Confirmed ==
  ASSUME MarketInv, NEW n \in notices, NoticeWrite(n)
  PROVE  /\ RowsInv'
         /\ \A i \in Items : /\ items'[i].demand = items[i].demand
                             /\ items'[i].status = IF i \in n.found /\ items[i].status = "pending_payment"
                                                   THEN "completed" ELSE items[i].status
                             /\ items'[i].status = items[i].status => items'[i] = items[i]
         /\ \A d \in Demands : /\ demands'[d].requester = demands[d].requester
                               /\ demands'[d].task = demands[d].task
                               /\ demands'[d].status =
                                    IF /\ demands[d].status = "pending_payment"
                                       /\ \E i \in n.found : items[i].demand = d
                                       /\ \A i \in ItemsOf(d) : items'[i].status = "completed"
                                    THEN "completed" ELSE demands[d].status
         /\ \E m \in Notice : /\ notices' = (notices \ {n}) \cup {m}
                              /\ m.stage = "count" /\ m.task = n.task /\ m.payer = n.payer
<1> USE DEF MarketInv
<1>0. "completed" \in DemandStatuses
  BY DEF DemandStatuses
<1>1. ASSUME NEW i \in Items
      PROVE  /\ items'[i] \in ItemRow
             /\ items'[i].demand = items[i].demand
             /\ items'[i].status = IF i \in n.found /\ items[i].status = "pending_payment"
                                   THEN "completed" ELSE items[i].status
             /\ items'[i].status = items[i].status => items'[i] = items[i]
  <2>1. items[i] \in ItemRow
    BY DEF RowsInv
  <2>2. LET e == [items[i] EXCEPT !.status = "completed"]
        IN  e \in ItemRow /\ e.status = "completed" /\ e.demand = items[i].demand
    BY <1>0, <2>1, ItemRowWritten
  <2>3. items'[i] = IF i \in n.found /\ items[i].status = "pending_payment"
                    THEN [items[i] EXCEPT !.status = "completed"] ELSE items[i]
    BY DEF NoticeWrite
  <2> QED
    BY <2>1, <2>2, <2>3
<1>2. ASSUME NEW d \in Demands
      PROVE  /\ demands'[d] \in DemandRow
             /\ demands'[d].requester = demands[d].requester
             /\ demands'[d].task = demands[d].task
             /\ demands'[d].status =
                  IF /\ demands[d].status = "pending_payment"
                     /\ \E i \in n.found : items[i].demand = d
                     /\ \A i \in ItemsOf(d) : items'[i].status = "completed"
                  THEN "completed" ELSE demands[d].status
  <2> DEFINE whole == /\ demands[d].status = "pending_payment"
                      /\ \E i \in n.found : items[i].demand = d
                      /\ \A i \in ItemsOf(d) : items'[i].status = "completed"
  <2>1. demands[d] \in DemandRow
    BY DEF RowsInv
  <2>2. LET e == [demands[d] EXCEPT !.status = "completed"]
        IN  e \in DemandRow /\ e.status = "completed" /\ e.requester = demands[d].requester /\ e.task = demands[d].task
    BY <1>0, <2>1, DemandRowWritten
  <2>3. demands'[d] = IF whole THEN [demands[d] EXCEPT !.status = "completed"] ELSE demands[d]
    BY DEF NoticeWrite
  <2> HIDE DEF whole
  <2>4. /\ demands'[d] \in DemandRow
        /\ demands'[d].requester = demands[d].requester
        /\ demands'[d].task = demands[d].task
        /\ demands'[d].status = IF whole THEN "completed" ELSE demands[d].status
    BY <2>1, <2>2, <2>3
  <2> QED
    BY <2>4 DEF whole
<1>3. \E m \in Notice : /\ notices' = (notices \ {n}) \cup {m}
                        /\ m.stage = "count" /\ m.task = n.task /\ m.payer = n.payer
  <2>1. NoticeGoto(n, "count", {}) /\ notices \subseteq Notice /\ {} \in SUBSET Items
    BY DEF NoticeWrite, RowsInv
  <2> HIDE DEF MarketInv
  <2> QED
    BY <2>1, NoticeMoved
<1>4. UNCHANGED <<taskVars, closings>>
  BY DEF NoticeWrite
<1>5. items' \in [Items -> ItemRow] /\ demands' \in [Demands -> DemandRow]
  BY <1>1, <1>2 DEF NoticeWrite
<1>6. RowsInv'
  BY <1>3, <1>4, <1>5 DEF RowsInv, taskVars
<1> QED
  BY <1>1, <1>2, <1>3, <1>4, <1>6

LEMMA MarketConfirmed ==
  ASSUME MarketInv, NEW n \in notices, NoticeWrite(n)
  PROVE  MarketInv'
<1> USE DEF MarketInv
<1>1. /\ RowsInv'
      /\ \A i \in Items : /\ items'[i].demand = items[i].demand
                          /\ items'[i].status = IF i \in n.found /\ items[i].status = "pending_payment"
                                                THEN "completed" ELSE items[i].status
                          /\ items'[i].status = items[i].status => items'[i] = items[i]
      /\ \A d \in Demands : /\ demands'[d].requester = demands[d].requester
                            /\ demands'[d].task = demands[d].task
                            /\ demands'[d].status =
                                 IF /\ demands[d].status = "pending_payment"
                                    /\ \E i \in n.found : items[i].demand = d
                                    /\ \A i \in ItemsOf(d) : items'[i].status = "completed"
                                 THEN "completed" ELSE demands[d].status
  BY Confirmed
<1>2. \E m \in Notice : notices' = (notices \ {n}) \cup {m} /\ m.stage = "count"
  BY Confirmed
<1>3. UNCHANGED <<tasks, assignments>> /\ n.stage = "write" /\ n.found \subseteq Items
  BY DEF NoticeWrite, taskVars, RowsInv, Notice
<1>4. \A i \in n.found : items[i].demand # 0 => ItemsOf(items[i].demand) \subseteq n.found
  BY <1>3 DEF FoundInv, FoundOK
<1>5. UsedDemands' = UsedDemands /\ UsedTasks' = UsedTasks
  BY <1>1, <1>3 DEF UsedDemands, UsedTasks
<1>6. ASSUME NEW i \in Items PROVE ItemOK(i)'
  <2>0. ItemOK(i) /\ items[i].demand \in Demands \cup {0}
    BY DEF ItemsInv, RowsInv, ItemRow
  <2>1. CASE i \in n.found /\ items[i].status = "pending_payment"
    <3>1. items[i].demand # 0 /\ items[i].demand \in Demands /\ demands[items[i].demand].status = "pending_payment"
      BY <2>0, <2>1 DEF ItemOK
    <3>2. \A j \in ItemsOf(items[i].demand) : items'[j].status = "completed"
      <4>1. \A j \in ItemsOf(items[i].demand) : j \in Items /\ j \in n.found /\ items[j].status = "pending_payment"
        BY <1>4, <2>1, <3>1, Together DEF ItemsOf
      <4> QED
        BY <1>1, <4>1
    <3>3. demands'[items[i].demand].status = "completed"
      BY <1>1, <2>1, <3>1, <3>2
    <3>4. assignments[i].task # NoTask => "completed" \in Following(tasks[assignments[i].task].status)
      <4>1. assignments[i].task # NoTask => "pending_payment" \in Following(tasks[assignments[i].task].status)
        BY <2>0, <2>1 DEF ItemOK
      <4>2. assignments[i].task # NoTask => tasks[assignments[i].task].status \in TaskStatuses
        BY DEF RowsInv, Assignment, TaskRow
      <4> QED
        BY <4>1, <4>2, FollowingMoved DEF TaskStatuses
    <3> QED
      BY <1>1, <1>3, <2>0, <2>1, <3>1, <3>3, <3>4 DEF ItemOK
  <2>2. CASE ~(i \in n.found /\ items[i].status = "pending_payment")
    <3>1. items'[i] = items[i]
      BY <1>1, <2>2
    <3>2. ASSUME items[i].demand # 0
          PROVE  demands'[items[i].demand].status = demands[items[i].demand].status
      <4>1. CASE demands[items[i].demand].status # "pending_payment"
        BY <1>1, <2>0, <3>2, <4>1
      <4>2. CASE demands[items[i].demand].status = "pending_payment"
        <5>1. items[i].status = "pending_payment"
          BY <2>0, <3>2, <4>2 DEF ItemOK
        <5>2. i \in ItemsOf(items[i].demand) /\ items'[i].status # "completed"
          BY <3>1, <5>1 DEF ItemsOf
        <5> QED
          BY <1>1, <2>0, <3>2, <5>2
      <4> QED
        BY <4>1, <4>2
    <3> QED
      BY <1>1, <1>3, <2>0, <3>1, <3>2 DEF ItemOK
  <2> QED
    BY <2>1, <2>2
<1>7. FoundInv'
  <2>1. \A i \in Items : items'[i].demand = items[i].demand /\ (items[i].status # "none" => items'[i].status # "none")
    BY <1>1
  <2>2. \A d : ItemsOf(d)' = ItemsOf(d)
    BY <2>1 DEF ItemsOf
  <2>3. \A k \in notices : k.found \subseteq Items
    BY DEF RowsInv, Notice
  <2> QED
    BY <1>2, <2>1, <2>2, <2>3 DEF FoundInv, FoundOK
<1> QED
  BY <1>1, <1>5, <1>6, <1>7 DEF DenseInv, ItemsInv

\* A shopping quantity or a price is entered.
Entered(t, p, n) ==
  \/ n \in {Unset} \cup Nat /\ taskItems' = [taskItems EXCEPT ![t][p].purchased = n]
  \/ n \in Prices /\ taskItems' = [taskItems EXCEPT ![t][p].price = n]

LEMMA Enters ==
  ASSUME RowsInv, NEW t \in Tasks, NEW p \in Products, NEW n,
         SaveShoppingTaskItem(t, p, n) \/ (n \in Prices /\ UpdateActualPrice(t, p, n))
  PROVE  Entered(t, p, n)
<1>1. taskItems[t] \in [Products -> TaskItemRow] /\ taskItems[t][p] \in TaskItemRow
  BY DEF RowsInv
<1>2. taskItems[t][p].required \in Nat
  BY <1>1 DEF TaskItemRow
<1>3. {Unset} \cup 0..taskItems[t][p].required \subseteq {Unset} \cup Nat
  BY <1>2
<1> QED
  BY <1>3 DEF SaveShoppingTaskItem, UpdateActualPrice, Entered

LEMMA TaskItemWritten ==
  ASSUME RowsInv, NEW t \in Tasks, NEW p \in Products, NEW x, Entered(t, p, x)
  PROVE  /\ taskItems' \in [Tasks -> [Products -> TaskItemRow]]
         /\ \A u \in Tasks \ {t} : taskItems'[u] = taskItems[u]
         /\ \A q \in Products : taskItems'[t][q].required = taskItems[t][q].required
<1>1. taskItems[t] \in [Products -> TaskItemRow] /\ taskItems[t][p] \in TaskItemRow
  BY DEF RowsInv
<1>2. PICK r : \/ /\ x \in {Unset} \cup Nat
                  /\ r = [taskItems[t][p] EXCEPT !.purchased = x]
                  /\ taskItems' = [taskItems EXCEPT ![t][p].purchased = x]
               \/ /\ x \in Prices
                  /\ r = [taskItems[t][p] EXCEPT !.price = x]
                  /\ taskItems' = [taskItems EXCEPT ![t][p].price = x]
  BY DEF Entered
<1>3. r \in TaskItemRow /\ r.required = taskItems[t][p].required
  BY <1>1, <1>2 DEF TaskItemRow
<1>4. PICK f : f = [taskItems[t] EXCEPT ![p] = r]
  OBVIOUS
<1>5. taskItems' = [taskItems EXCEPT ![t] = f]
  BY <1>2, <1>4
<1>6. /\ f \in [Products -> TaskItemRow]
      /\ \A q \in Products : f[q].required = taskItems[t][q].required
  BY <1>1, <1>3, <1>4
<1>7. /\ taskItems' \in [Tasks -> [Products -> TaskItemRow]] /\ taskItems'[t] = f
      /\ \A u \in Tasks \ {t} : taskItems'[u] = taskItems[u]
  BY <1>5, <1>6 DEF RowsInv
<1> QED
  BY <1>6, <1>7

LEMMA AssignmentWritten ==
  ASSUME RowsInv, NEW i \in Items, NEW n \in {Unset} \cup Nat,
         assignments' = [assignments EXCEPT ![i].quantity = n]
  PROVE  /\ assignments' \in [Items -> Assignment]
         /\ assignments'[i].task = assignments[i].task /\ assignments'[i].quantity = n
         /\ assignments'[i].billed = assignments[i].billed
         /\ \A j \in Items \ {i} : assignments'[j] = assignments[j]
<1>1. assignments[i] \in Assignment
  BY DEF RowsInv
<1>2. PICK r : r = [assignments[i] EXCEPT !.quantity = n]
  OBVIOUS
<1>3. r \in Assignment /\ r.task = assignments[i].task /\ r.quantity = n /\ r.billed = assignments[i].billed
  BY <1>1, <1>2 DEF Assignment
<1>4. assignments' = [assignments EXCEPT ![i] = r]
  BY <1>2
<1> QED
  BY <1>3, <1>4 DEF RowsInv

LEMMA AssignmentsBilled ==
  ASSUME RowsInv, NEW B,
         assignments' = [i \in Items |-> IF i \in B THEN [assignments[i] EXCEPT !.billed = TRUE]
                                         ELSE assignments[i]]
  PROVE  /\ assignments' \in [Items -> Assignment]
         /\ \A i \in Items : /\ assignments'[i].task = assignments[i].task
                             /\ assignments'[i].quantity = assignments[i].quantity
                             /\ i \in B => assignments'[i].billed
                             /\ i \notin B => assignments'[i] = assignments[i]
<1>1. ASSUME NEW i \in Items
      PROVE  LET r == [assignments[i] EXCEPT !.billed = TRUE]
             IN  r \in Assignment /\ r.task = assignments[i].task /\ r.quantity = assignments[i].quantity /\ r.billed
  <2>1. assignments[i] \in Assignment
    BY DEF RowsInv
  <2>2. PICK r : r = [assignments[i] EXCEPT !.billed = TRUE]
    OBVIOUS
  <2>3. r \in Assignment /\ r.task = assignments[i].task /\ r.quantity = assignments[i].quantity
    BY <2>1, <2>2 DEF Assignment
  <2>4. r.billed = TRUE
    BY <2>1, <2>2 DEF Assignment
  <2> QED
    BY <2>2, <2>3, <2>4
<1>2. ASSUME NEW i \in Items
      PROVE  /\ assignments'[i] \in Assignment
             /\ assignments'[i].task = assignments[i].task
             /\ assignments'[i].quantity = assignments[i].quantity
             /\ i \in B => assignments'[i].billed
             /\ i \notin B => assignments'[i] = assignments[i]
  <2>1. CASE i \in B
    BY <1>1, <2>1
  <2>2. CASE i \notin B
    <3>1. assignments'[i] = assignments[i]
      BY <2>2
    <3> QED
      BY <2>2, <3>1 DEF RowsInv
  <2> QED
    BY <2>1, <2>2
<1> QED
  BY <1>2

\* The items that CommitCollecting binds to a bill.
Bound(c) ==
  {i \in AssignedTo(c.task) : i.requester \in DOMAIN c.drafts /\ assignments[i].quantity > 0}

LEMMA Collected ==
  ASSUME RowsInv, NEW c \in Call, CommitCollecting(c)
  PROVE  /\ assignments' \in [Items -> Assignment]
         /\ \A i \in Items : /\ assignments'[i].task = assignments[i].task
                             /\ assignments'[i].quantity = assignments[i].quantity
                             /\ i \in Bound(c) => assignments'[i].billed
                             /\ i \notin Bound(c) => assignments'[i] = assignments[i]
<1> DEFINE B == {i \in Items : i \in AssignedTo(c.task) /\ i.requester \in DOMAIN c.drafts /\ assignments[i].quantity > 0}
<1>1. B = Bound(c)
  BY DEF Bound, AssignedTo
<1>2. assignments' = [i \in Items |-> IF i \in B THEN [assignments[i] EXCEPT !.billed = TRUE] ELSE assignments[i]]
  BY DEF CommitCollecting
<1> HIDE DEF B
<1> QED
  BY <1>1, <1>2, AssignmentsBilled

\* A transition, whoever asks for it.
LEMMA MarketAdvance ==
  ASSUME MarketInv, NEW t \in Tasks, NEW to \in TaskStatuses, NEW From, NEW dto \in DemandStatuses,
         dto \notin {"none", "open", "cancelled"}, to # "none", tasks[t].status # "none",
         tasks' \in [Tasks -> TaskRow], tasks'[t].status = to, \A u \in Tasks \ {t} : tasks'[u] = tasks[u],
         demands' = MoveDemands(t, From, dto), items' = MoveItems(t, From, dto),
         \A s \in Following(tasks[t].status) : (IF s \in From THEN dto ELSE s) \in Following(to),
         assignments' \in [Items -> Assignment],
         \A i \in Items : assignments'[i].task = assignments[i].task,
         UNCHANGED <<taskItems, notices, closings>>
  PROVE  MarketInv'
<1>1. /\ MoveDemands(t, From, dto) \in [Demands -> DemandRow]
      /\ MoveItems(t, From, dto) \in [Items -> ItemRow]
  BY Moved DEF MarketInv
<1>2. RowsInv'
  BY <1>1 DEF MarketInv, RowsInv
<1> QED
  BY <1>2, MarketMoved

LEMMA MarketTransitions ==
  ASSUME MarketInv, NEW t \in Tasks,
         \/ TransitionToPendingDistributing(t)
         \/ \E fee \in PackagingFees : TransitionToDistributing(t, fee)
         \/ TransitionToCompleted(t)
         \/ \E c \in Call : c.task = t /\ (CommitCollecting(c) \/ CompleteTaskWithoutBills(c))
  PROVE  MarketInv'
<1> USE DEF MarketInv
<1>0. /\ {"pending_distributing", "distributing", "collecting_payment", "completed"} \subseteq TaskStatuses
      /\ {"pending_distributing", "distributing", "pending_payment", "completed"} \subseteq DemandStatuses
      /\ tasks \in [Tasks -> TaskRow] /\ assignments \in [Items -> Assignment]
  BY DEF TaskStatuses, DemandStatuses, RowsInv
<1>1. CASE TransitionToPendingDistributing(t)
  <2>1. /\ tasks[t].status = "shopping" /\ tasks' = [tasks EXCEPT ![t].status = "pending_distributing"]
        /\ demands' = MoveDemands(t, {"shopping"}, "pending_distributing")
        /\ items' = MoveItems(t, {"shopping"}, "pending_distributing")
        /\ UNCHANGED <<taskItems, assignments, notices, closings>>
    BY <1>1 DEF TransitionToPendingDistributing, Advance, callVars
  <2>2. /\ tasks' \in [Tasks -> TaskRow] /\ tasks'[t].status = "pending_distributing"
        /\ \A u \in Tasks \ {t} : tasks'[u] = tasks[u]
    BY <1>0, <2>1, TaskWritten
  <2> QED
    BY <1>0, <2>1, <2>2, FollowingMoved, MarketAdvance
<1>2. CASE \E fee \in PackagingFees : TransitionToDistributing(t, fee)
  <2>1. PICK fee \in PackagingFees : TransitionToDistributing(t, fee)
    BY <1>2
  <2>2. /\ tasks[t].status = "pending_distributing"
        /\ demands' = MoveDemands(t, {"pending_distributing"}, "distributing")
        /\ items' = MoveItems(t, {"pending_distributing"}, "distributing")
        /\ UNCHANGED <<taskItems, assignments, notices, closings>>
    BY <2>1 DEF TransitionToDistributing, callVars
  <2>3. PICK r : r = [tasks[t] EXCEPT !.status = "distributing", !.packaging = fee]
    OBVIOUS
  <2>4. r \in TaskRow /\ r.status = "distributing"
    <3>1. tasks[t] \in TaskRow
      BY <1>0
    <3>2. "distributing" \in TaskStatuses
      BY <1>0
    <3> QED
      BY <2>3, <3>1, <3>2 DEF TaskRow
  <2>5. tasks' = [tasks EXCEPT ![t] = r]
    BY <2>1, <2>3 DEF TransitionToDistributing
  <2>6. tasks' \in [Tasks -> TaskRow] /\ tasks'[t].status = "distributing" /\ \A u \in Tasks \ {t} : tasks'[u] = tasks[u]
    BY <1>0, <2>4, <2>5
  <2> QED
    BY <1>0, <2>2, <2>6, FollowingMoved, MarketAdvance
<1>3. CASE TransitionToCompleted(t)
  <2>1. /\ tasks[t].status = "collecting_payment" /\ tasks' = [tasks EXCEPT ![t].status = "completed"]
        /\ demands' = MoveDemands(t, {"pending_payment", "completed"}, "completed")
        /\ items' = MoveItems(t, {"pending_payment", "completed"}, "completed")
        /\ UNCHANGED <<taskItems, assignments, notices, closings>>
    BY <1>3 DEF TransitionToCompleted, Advance, callVars
  <2>2. /\ tasks' \in [Tasks -> TaskRow] /\ tasks'[t].status = "completed"
        /\ \A u \in Tasks \ {t} : tasks'[u] = tasks[u]
    BY <1>0, <2>1, TaskWritten
  <2> QED
    BY <1>0, <2>1, <2>2, FollowingMoved, MarketAdvance
<1>4. ASSUME NEW c \in Call, c.task = t, CommitCollecting(c) PROVE MarketInv'
  <2>1. /\ tasks[t].status = "distributing" /\ tasks' = [tasks EXCEPT ![t].status = "collecting_payment"]
        /\ demands' = MoveDemands(t, {"distributing"}, "pending_payment")
        /\ items' = MoveItems(t, {"distributing"}, "pending_payment")
        /\ UNCHANGED <<taskItems, notices, closings>>
    BY <1>4 DEF CommitCollecting, Advance
  <2>2. /\ tasks' \in [Tasks -> TaskRow] /\ tasks'[t].status = "collecting_payment"
        /\ \A u \in Tasks \ {t} : tasks'[u] = tasks[u]
    BY <1>0, <2>1, TaskWritten
  <2>3. assignments' \in [Items -> Assignment] /\ \A i \in Items : assignments'[i].task = assignments[i].task
    BY <1>4, Collected
  <2> QED
    BY <1>0, <2>1, <2>2, <2>3, FollowingMoved, MarketAdvance
<1>5. ASSUME NEW c \in Call, c.task = t, CompleteTaskWithoutBills(c) PROVE MarketInv'
  <2>1. /\ tasks[t].status = "distributing" /\ tasks' = [tasks EXCEPT ![t].status = "completed"]
        /\ demands' = MoveDemands(t, {"pending_payment", "completed"}, "completed")
        /\ items' = MoveItems(t, {"pending_payment", "completed"}, "completed")
        /\ UNCHANGED <<taskItems, assignments, notices, closings>>
    BY <1>5 DEF CompleteTaskWithoutBills, Advance
  <2>2. /\ tasks' \in [Tasks -> TaskRow] /\ tasks'[t].status = "completed"
        /\ \A u \in Tasks \ {t} : tasks'[u] = tasks[u]
    BY <1>0, <2>1, TaskWritten
  <2> QED
    BY <1>0, <2>1, <2>2, FollowingMoved, MarketAdvance
<1> QED
  BY <1>1, <1>2, <1>3, <1>4, <1>5

LEMMA MarketNotices ==
  ASSUME MarketInv, NEW n \in notices,
         NoticeRead(n) \/ NoticeCount(n) \/ NoticeAll(n) \/ NoticeLost(n)
  PROVE  MarketInv'
<1> USE DEF MarketInv
<1>0. /\ notices \subseteq Notice /\ tasks \in [Tasks -> TaskRow]
      /\ n.task \in Tasks /\ n.stage \in {"read", "write", "count", "all"}
  BY DEF RowsInv, Notice
<1>1. ASSUME notices' \subseteq notices \cup Notice, \A m \in notices' : m \in notices \/ FoundOK(m),
             UNCHANGED <<demandVars, taskVars, closings>>
      PROVE  MarketInv'
  <2>1. RowsInv'
    BY <1>0, <1>1 DEF RowsInv, demandVars, taskVars
  <2>2. \A i \in Items : LET t == assignments[i].task
                         IN  t # NoTask => items[i].status \in Following(tasks'[t].status)
    BY <1>1 DEF ItemsInv, ItemOK, taskVars
  <2> QED
    BY <1>1, <2>1, <2>2, MarketKept DEF taskVars
<1>2. ASSUME NEW s \in {"read", "write", "count", "all"}, NEW F \in SUBSET Items, NoticeGoto(n, s, F),
             s = "write" => \A i \in F : /\ items[i].status # "none"
                                         /\ items[i].demand # 0 => ItemsOf(items[i].demand) \subseteq F,
             UNCHANGED <<demandVars, taskVars, closings>>
      PROVE  MarketInv'
  <2>1. PICK m \in Notice : /\ notices' = (notices \ {n}) \cup {m}
                            /\ m.stage = s /\ m.found = F
    BY <1>0, <1>2, NoticeMoved
  <2>2. FoundOK(m)
    BY <1>2, <2>1 DEF FoundOK
  <2> QED
    BY <1>1, <1>2, <2>1, <2>2
<1>3. CASE NoticeRead(n)
  <2>1. UNCHANGED <<demandVars, taskVars, closings>>
    BY <1>3 DEF NoticeRead
  <2>2. CASE tasks[n.task].status = "collecting_payment" /\ ItemsPaid(n) # {} /\ NoticeGoto(n, "write", ItemsPaid(n))
    <3>1. ItemsPaid(n) \in SUBSET Items
      BY DEF ItemsPaid, AssignedTo
    <3>2. n.task # NoTask
      BY <1>0, ErrandAssumption, FS_CardinalityType DEF NoTask
    <3>3. \A i \in ItemsPaid(n) : i \in Items /\ items[i].demand # 0 /\ items[i].status # "none"
      BY <3>2 DEF ItemsPaid, AssignedTo, ItemsInv, ItemOK
    <3>4. ASSUME NEW i \in ItemsPaid(n), NEW j \in ItemsOf(items[i].demand) PROVE j \in ItemsPaid(n)
      BY <3>3, Together DEF ItemsOf, ItemsPaid, AssignedTo
    <3> QED
      BY <1>2, <2>1, <2>2, <3>1, <3>3, <3>4
  <2>3. CASE NoticeGoto(n, "count", {})
    BY <1>2, <2>1, <2>3
  <2>4. CASE notices' = notices \ {n}
    BY <1>1, <2>1, <2>4
  <2> QED
    BY <1>3, <2>2, <2>3, <2>4 DEF NoticeRead
<1>4. CASE NoticeCount(n)
  <2>1. UNCHANGED <<demandVars, taskVars, closings>>
    BY <1>4 DEF NoticeCount
  <2>2. CASE NoticeGoto(n, "all", {})
    BY <1>2, <2>1, <2>2
  <2>3. CASE notices' = notices \ {n}
    BY <1>1, <2>1, <2>3
  <2> QED
    BY <1>4, <2>2, <2>3 DEF NoticeCount
<1>5. CASE NoticeLost(n)
  BY <1>1, <1>5 DEF NoticeLost
<1>6. CASE NoticeAll(n)
  <2>1. UNCHANGED <<demandVars, taskItems, assignments, closings>> /\ notices' = notices \ {n}
    BY <1>6 DEF NoticeAll
  <2>2. CASE tasks' = tasks
    BY <1>1, <2>1, <2>2 DEF taskVars
  <2>3. CASE tasks[n.task].status = "collecting_payment" /\ tasks' = [tasks EXCEPT ![n.task].status = "completed"]
    <3>1. "completed" \in TaskStatuses
      BY DEF TaskStatuses
    <3>2. /\ tasks' \in [Tasks -> TaskRow] /\ tasks'[n.task].status = "completed"
          /\ \A u \in Tasks \ {n.task} : tasks'[u] = tasks[u]
      BY <1>0, <2>3, <3>1, TaskWritten
    <3>3. RowsInv'
      BY <2>1, <3>2 DEF RowsInv, demandVars
    <3>4. ASSUME NEW i \in Items, assignments[i].task # NoTask
          PROVE  items[i].status \in Following(tasks'[assignments[i].task].status)
      <4>1. items[i].status \in Following(tasks[assignments[i].task].status) /\ assignments[i].task \in Tasks
        BY <3>4 DEF ItemsInv, ItemOK, RowsInv, Assignment
      <4> QED
        BY <2>3, <3>2, <4>1, FollowingMoved
    <3> QED
      BY <2>1, <2>3, <3>2, <3>3, <3>4, MarketKept
  <2> QED
    BY <1>6, <2>2, <2>3 DEF NoticeAll
<1> QED
  BY <1>3, <1>4, <1>5, <1>6

\* The inductive step.
LEMMA MarketStep == MarketInv /\ CallsOK /\ [ErrandNext]_errandVars => MarketInv'
<1> SUFFICES ASSUME MarketInv, CallsOK, [ErrandNext]_errandVars PROVE MarketInv'
  OBVIOUS
<1>0. RowsInv /\ ItemsInv
  BY DEF MarketInv
<1>1. ASSUME RowsInv', UNCHANGED <<demandVars, tasks>>,
             \A i \in Items : assignments'[i].task = assignments[i].task,
             \A n \in notices' : n \in notices \/ FoundOK(n)
      PROVE  MarketInv'
  BY <1>0, <1>1, MarketKept DEF ItemsInv, ItemOK
<1>2. ASSUME UNCHANGED <<demandVars, taskVars>>, notices' \subseteq Notice, closings' \subseteq Tasks,
             \A n \in notices' : n \in notices \/ FoundOK(n)
      PROVE  MarketInv'
  <2>1. RowsInv'
    BY <1>0, <1>2 DEF RowsInv, demandVars, taskVars
  <2> QED
    BY <1>1, <1>2, <2>1 DEF taskVars
<1>3. CASE BuyerStep
  BY <1>3, MarketBuyer
<1>4. CASE CaptainStep
  <2>1. ASSUME NEW captain \in Captains, NEW S \in SUBSET Items, CreateTask(captain, S) PROVE MarketInv'
    BY <2>1, MarketCreate
  <2>2. ASSUME NEW t \in Tasks, NEW p \in Products, NEW n,
               SaveShoppingTaskItem(t, p, n) \/ (n \in Prices /\ UpdateActualPrice(t, p, n))
        PROVE  MarketInv'
    <3>1. Entered(t, p, n) /\ UNCHANGED <<demandVars, tasks, assignments, callVars>>
      BY <1>0, <2>2, Enters DEF SaveShoppingTaskItem, UpdateActualPrice
    <3>2. taskItems' \in [Tasks -> [Products -> TaskItemRow]]
      BY <1>0, <3>1, TaskItemWritten
    <3>3. RowsInv'
      BY <1>0, <3>1, <3>2 DEF RowsInv, demandVars, callVars
    <3> QED
      BY <1>1, <3>1, <3>3 DEF callVars
  <2>3. ASSUME NEW i \in Items, NEW n \in {Unset} \cup Nat, SaveDistributingTaskAssignment(i, n) PROVE MarketInv'
    <3>1. /\ assignments' = [assignments EXCEPT ![i].quantity = n]
          /\ UNCHANGED <<demandVars, tasks, taskItems, callVars>>
      BY <2>3 DEF SaveDistributingTaskAssignment
    <3>2. assignments' \in [Items -> Assignment] /\ \A j \in Items : assignments'[j].task = assignments[j].task
      BY <1>0, <3>1, AssignmentWritten
    <3>3. RowsInv'
      BY <1>0, <3>1, <3>2 DEF RowsInv, demandVars, callVars
    <3> QED
      BY <1>1, <3>1, <3>2, <3>3 DEF callVars
  <2>4. ASSUME NEW t \in Tasks, BeginCollecting(t) PROVE MarketInv'
    BY <1>0, <1>2, <2>4 DEF BeginCollecting, RowsInv
  <2>5. \A p \in Products, t \in Tasks : {Unset} \cup 0..taskItems[t][p].required \subseteq Int
    BY DEF Unset
  <2>6. \A i \in Items : {Unset} \cup 0..i.quantity \subseteq {Unset} \cup Nat
    BY ErrandAssumption
  <2>7. Prices \subseteq Int
    BY ErrandAssumption
  <2> QED
    BY <1>4, <2>1, <2>2, <2>3, <2>4, <2>5, <2>6, <2>7, MarketTransitions, MarketCancel DEF CaptainStep, Selections
<1>5. CASE CallStep
  <2>1. ASSUME NEW c \in calls, AskBill(c) \/ BillAnswered(c) \/ EndCall(c) PROVE MarketInv'
    BY <1>0, <1>2, <2>1 DEF AskBill, BillAnswered, EndCall, RowsInv
  <2>2. ASSUME NEW c \in calls, CommitCollecting(c) \/ CompleteTaskWithoutBills(c) PROVE MarketInv'
    BY <2>2, MarketTransitions DEF CallsOK, DraftOK
  <2>3. ASSUME NEW n \in notices,
               NoticeRead(n) \/ NoticeWrite(n) \/ NoticeCount(n) \/ NoticeAll(n) \/ NoticeLost(n)
        PROVE  MarketInv'
    BY <2>3, MarketNotices, MarketConfirmed
  <2>4. ASSUME NEW t \in Tasks, CloseTaskBills(t) \/ ClosingLost(t) PROVE MarketInv'
    BY <1>0, <1>2, <2>4 DEF CloseTaskBills, ClosingLost, RowsInv
  <2> QED
    BY <1>5, <2>1, <2>2, <2>3, <2>4 DEF CallStep
<1>6. CASE BillingStep
  <2> DEFINE paid == {q \in Payers : bills[q].status # "completed" /\ bills'[q].status = "completed"}
             note(p) == [stage |-> "read", task |-> p[1], payer |-> p[2], found |-> {}]
  <2>1. notices' = notices \cup {note(p) : p \in paid} /\ UNCHANGED <<demandVars, taskVars, calls, closings>>
    BY <1>6 DEF BillingStep
  <2>2. \A p \in paid : note(p) \in Notice /\ FoundOK(note(p))
    <3>1. \A p \in paid : p[1] \in Tasks /\ p[2] \in Users
      BY ErrandAssumption
    <3> QED
      BY <3>1 DEF Notice, FoundOK
  <2> HIDE DEF paid, note
  <2>3. notices \subseteq Notice /\ closings \subseteq Tasks
    BY <1>0 DEF RowsInv
  <2> QED
    BY <1>2, <2>1, <2>2, <2>3
<1>7. CASE UNCHANGED errandVars
  BY <1>0, <1>2, <1>7 DEF errandVars, callVars, RowsInv
<1> QED
  BY <1>3, <1>4, <1>5, <1>6, <1>7 DEF ErrandNext

LEMMA MarketStart == ErrandInit => MarketInv
<1> SUFFICES ASSUME ErrandInit PROVE MarketInv
  OBVIOUS
<1>0. SomeUser \in Captains /\ SomeUser \in Users
  BY ErrandAssumption DEF SomeUser
<1>1. /\ demands = [d \in Demands |-> [status |-> "none", requester |-> SomeUser, task |-> NoTask]]
      /\ items = [i \in Items |-> [status |-> "none", demand |-> 0]]
      /\ tasks = [t \in Tasks |-> [status |-> "none", captain |-> SomeUser, packaging |-> 0]]
      /\ taskItems = [t \in Tasks |-> [p \in Products |->
                        [required |-> 0, purchased |-> Unset, price |-> Unset]]]
      /\ assignments = [i \in Items |-> [task |-> NoTask, quantity |-> Unset, billed |-> FALSE]]
      /\ notices = {} /\ closings = {}
  BY DEF ErrandInit
<1>2. RowsInv
  BY <1>0, <1>1 DEF RowsInv, DemandRow, DemandStatuses, ItemRow, TaskRow, TaskStatuses, TaskItemRow,
                    Assignment, Unset
<1>3. UsedDemands = {} /\ UsedTasks = {}
  BY <1>1 DEF UsedDemands, UsedTasks
<1>4. ItemsInv
  BY <1>1 DEF ItemsInv, ItemOK
<1> QED
  BY <1>1, <1>2, <1>3, <1>4 DEF MarketInv, DenseInv, FoundInv

\* The rows of demands, items, tasks and assignments, the bills, calls and notices are
\* of the types declared for them; the sums are numbers.
THEOREM ErrandTypeCorrect == ErrandSpec => []ErrandTypeOK
<1> DEFINE HistoryOK == overtaken \subseteq Tasks /\ strayed \subseteq Items
<1>1. ErrandInit => MarketInv /\ CallsOK /\ HistoryOK
  BY MarketStart DEF ErrandInit, CallsOK
<1>2. /\ MarketInv /\ CallsOK /\ [ErrandNext]_errandVars => MarketInv' /\ CallsOK'
      /\ HistoryOK /\ [ErrandNext]_errandVars => HistoryOK'
  BY MarketStep, ErrandStepBills, HistoryStep DEF KeepsBills, Recorded
<1>3. MarketInv /\ CallsOK /\ OrderTypeOK /\ HistoryOK => ErrandTypeOK
  BY DEF MarketInv, RowsInv, CallsOK, ErrandTypeOK
<1> QED
  BY <1>1, <1>2, <1>3, ErrandRefinesBilling, OrderTypeCorrect, PTL DEF ErrandSpec

\* An item in a task has a demand there, and both are as far as the task is, for every
\* set of items, users and tasks and also when a notification is slow.
THEOREM ItemsWithTask == ErrandSpec => []ItemsFollowTask
<1>1. ErrandInit => MarketInv /\ CallsOK
  BY MarketStart DEF ErrandInit, CallsOK
<1>2. MarketInv /\ CallsOK /\ [ErrandNext]_errandVars => MarketInv' /\ CallsOK'
  BY MarketStep, ErrandStepBills DEF KeepsBills
<1>3. MarketInv => ItemsFollowTask
  BY DEF MarketInv, ItemsInv, ItemOK, ItemsFollowTask, RowsInv, ItemRow
<1> QED
  BY <1>1, <1>2, <1>3, PTL DEF ErrandSpec

\* A demand is on the market as a whole or in one task as a whole.
THEOREM DemandsWhole == ErrandSpec => []DemandInOnePlace
<1>1. ErrandInit => MarketInv /\ CallsOK
  BY MarketStart DEF ErrandInit, CallsOK
<1>2. MarketInv /\ CallsOK /\ [ErrandNext]_errandVars => MarketInv' /\ CallsOK'
  BY MarketStep, ErrandStepBills DEF KeepsBills
<1>3. ASSUME MarketInv, NEW d \in Demands, NEW i \in ItemsOf(d)
      PROVE  /\ i.requester = demands[d].requester
             /\ demands[d].status = "open" => items[i].status = "open" /\ assignments[i].task = NoTask
             /\ demands[d].status \notin {"open", "cancelled"} => assignments[i].task = demands[d].task
  <2>1. i \in Items /\ items[i].demand = d /\ d # 0 /\ ItemOK(i)
    BY <1>3, ErrandAssumption, FS_CardinalityType DEF ItemsOf, MarketInv, ItemsInv
  <2>2. i.requester = demands[d].requester /\ items[i].status = demands[d].status
    BY <2>1 DEF ItemOK
  <2>3. assignments[i].task # NoTask =>
          /\ items[i].status \in Following(tasks[assignments[i].task].status)
          /\ tasks[assignments[i].task].status \in TaskStatuses
          /\ demands[d].task = assignments[i].task
    BY <1>3, <2>1 DEF ItemOK, MarketInv, RowsInv, Assignment, TaskRow
  <2>4. demands[d].status = "open" => assignments[i].task = NoTask
    BY <2>2, <2>3, FollowingRange
  <2>5. demands[d].status \notin {"open", "cancelled"} => assignments[i].task # NoTask
    BY <2>1, <2>2 DEF ItemOK
  <2> QED
    BY <2>2, <2>3, <2>4, <2>5
<1>4. MarketInv => DemandInOnePlace
  BY <1>3 DEF DemandInOnePlace
<1> QED
  BY <1>1, <1>2, <1>4, PTL DEF ErrandSpec

\* A completed item belongs to a task that is past its distribution.
LEMMA CompletedItem ==
  ASSUME RowsInv, ItemsInv, NEW i \in Items, items[i].status = "completed"
  PROVE  /\ items[i].demand # 0 /\ items[i].demand \in Demands
         /\ demands[items[i].demand].status = "completed"
         /\ assignments[i].task \in Tasks
         /\ tasks[assignments[i].task].status \in {"collecting_payment", "completed", "cancelled"}
<1>1. ItemOK(i)
  BY DEF ItemsInv
<1>2. items[i].demand # 0 /\ assignments[i].task # NoTask
  BY <1>1 DEF ItemOK
<1>3. items[i].demand \in Demands /\ assignments[i].task \in Tasks
      /\ tasks[assignments[i].task].status \in TaskStatuses
  BY <1>2 DEF RowsInv, ItemRow, Assignment, TaskRow
<1>4. demands[items[i].demand].status = "completed" /\ "completed" \in Following(tasks[assignments[i].task].status)
  BY <1>1, <1>2 DEF ItemOK
<1> QED
  BY <1>2, <1>3, <1>4, FollowingMoved DEF TaskStatuses

CompletedKept ==
  \A i \in Items : items[i].status = "completed" => items'[i] = items[i] /\ assignments'[i] = assignments[i]

LEMMA CompletedStep == MarketInv /\ CallsOK /\ [ErrandNext]_errandVars => CompletedKept
<1> SUFFICES ASSUME MarketInv, CallsOK, [ErrandNext]_errandVars PROVE CompletedKept
  OBVIOUS
<1>0. RowsInv /\ ItemsInv /\ DenseInv
  BY DEF MarketInv
<1>1. \A i \in Items : items[i].status = "completed" =>
        /\ items[i].demand # 0 /\ items[i].demand \in Demands
        /\ demands[items[i].demand].status = "completed"
        /\ assignments[i].task \in Tasks
        /\ tasks[assignments[i].task].status \in {"collecting_payment", "completed", "cancelled"}
  BY <1>0, CompletedItem
<1>2. ASSUME UNCHANGED <<items, assignments>> PROVE CompletedKept
  BY <1>2 DEF CompletedKept
<1>3. CASE BuyerStep
  <2>1. ASSUME NEW S \in SUBSET Items, Basket(S), NEW d, items' = Publish(d, S), assignments' = assignments,
               \A i \in ItemsOf(d) : items[i].status # "completed"
        PROVE  CompletedKept
    BY <2>1 DEF Basket, Publish, ItemsOf, CompletedKept
  <2>2. ASSUME NEW S \in SUBSET Items, CreateErrandDemand(S) PROVE CompletedKept
    <3>1. \A i \in ItemsOf(NextDemand) : items[i].status # "completed"
      <4>1. NextDemand \in Nat /\ \A d \in UsedDemands : d < NextDemand
        BY <1>0, NextIsFree
      <4>2. NextDemand \notin UsedDemands
        BY <4>1
      <4>3. NextDemand \in Demands => demands[NextDemand].status = "none"
        BY <4>2 DEF UsedDemands
      <4> QED
        BY <1>1, <4>3 DEF ItemsOf
    <3> QED
      BY <2>1, <2>2, <3>1 DEF CreateErrandDemand, taskVars
  <2>3. ASSUME NEW S \in SUBSET Items, NEW d \in Demands, UpdateErrandDemand(d, S) PROVE CompletedKept
    <3>1. \A i \in ItemsOf(d) : items[i].status # "completed"
      BY <1>1, <2>3 DEF ItemsOf, UpdateErrandDemand
    <3> QED
      BY <2>1, <2>3, <3>1 DEF UpdateErrandDemand, taskVars
  <2>4. ASSUME NEW d \in Demands, CancelErrandDemand(d) PROVE CompletedKept
    BY <2>4 DEF CancelErrandDemand, taskVars, CompletedKept
  <2> QED
    BY <1>3, <2>2, <2>3, <2>4 DEF BuyerStep, Selections
<1>4. ASSUME NEW t, NEW From, NEW to \in DemandStatuses, t \in Tasks, items' = MoveItems(t, From, to),
             "completed" \in From => to = "completed",
             \A i \in Items : items[i].status = "completed" => assignments'[i] = assignments[i]
      PROVE  CompletedKept
  <2>1. \A i \in Items : LET e == MoveItems(t, From, to)[i]
                         IN  /\ e.status = IF i \in AssignedTo(t) /\ items[i].status \in From
                                           THEN to ELSE items[i].status
                             /\ e.status = items[i].status => e = items[i]
    BY <1>0, <1>4, Moved
  <2> QED
    BY <1>4, <2>1 DEF CompletedKept
<1>5. {"pending_distributing", "distributing", "pending_payment", "completed"} \subseteq DemandStatuses
  BY DEF DemandStatuses
<1>6. CASE CaptainStep
  <2>1. ASSUME NEW captain \in Captains, NEW S \in SUBSET Items, CreateTask(captain, S) PROVE CompletedKept
    <3>1. \A i \in S : items[i].status = "open"
      BY <1>0, <2>1, Selection
    <3>2. \A i \in Items \ S : items'[i] = items[i]
      BY <1>0, <2>1, Created
    <3>3. \A i \in Items \ S : assignments'[i] = assignments[i]
      BY <1>0, <2>1, RowsCreated
    <3> QED
      BY <3>1, <3>2, <3>3 DEF CompletedKept
  <2>2. ASSUME NEW t, NEW p, NEW n, SaveShoppingTaskItem(t, p, n) \/ UpdateActualPrice(t, p, n) PROVE CompletedKept
    BY <1>2, <2>2 DEF SaveShoppingTaskItem, UpdateActualPrice, demandVars
  <2>3. ASSUME NEW i \in Items, NEW n \in {Unset} \cup Nat, SaveDistributingTaskAssignment(i, n) PROVE CompletedKept
    <3>1. /\ assignments' = [assignments EXCEPT ![i].quantity = n] /\ items' = items
          /\ tasks[assignments[i].task].status = "distributing"
      BY <2>3 DEF SaveDistributingTaskAssignment, demandVars
    <3>2. \A j \in Items \ {i} : assignments'[j] = assignments[j]
      BY <1>0, <3>1, AssignmentWritten
    <3>3. items[i].status # "completed"
      BY <1>1, <3>1
    <3> QED
      BY <3>1, <3>2, <3>3 DEF CompletedKept
  <2>4. ASSUME NEW t \in Tasks, BeginCollecting(t) PROVE CompletedKept
    BY <1>2, <2>4 DEF BeginCollecting, demandVars, taskVars
  <2>5. ASSUME NEW t \in Tasks, TransitionToPendingDistributing(t) PROVE CompletedKept
    BY <1>4, <1>5, <2>5 DEF TransitionToPendingDistributing, Advance
  <2>6. ASSUME NEW t \in Tasks, NEW fee, TransitionToDistributing(t, fee) PROVE CompletedKept
    BY <1>4, <1>5, <2>6 DEF TransitionToDistributing
  <2>7. ASSUME NEW t \in Tasks, TransitionToCompleted(t) PROVE CompletedKept
    BY <1>4, <1>5, <2>7 DEF TransitionToCompleted, Advance
  <2>8. ASSUME NEW t \in Tasks, CancelTask(t) PROVE CompletedKept
    <3>1. \A i \in Items : i \notin Reopened(t) => items'[i] = items[i] /\ assignments'[i] = assignments[i]
      BY <1>0, <2>8, Cancelled
    <3> QED
      BY <3>1 DEF Reopened, CompletedKept
  <2>9. \A i \in Items : {Unset} \cup 0..i.quantity \subseteq {Unset} \cup Nat
    BY ErrandAssumption
  <2> QED
    BY <1>6, <2>1, <2>2, <2>3, <2>4, <2>5, <2>6, <2>7, <2>8, <2>9 DEF CaptainStep, Selections
<1>7. CASE CallStep
  <2>1. ASSUME NEW c \in calls, AskBill(c) \/ BillAnswered(c) \/ EndCall(c) PROVE CompletedKept
    BY <1>2, <2>1 DEF AskBill, BillAnswered, EndCall, demandVars, taskVars
  <2>2. ASSUME NEW c \in calls, CommitCollecting(c) PROVE CompletedKept
    <3>1. c \in Call /\ c.task \in Tasks
      BY DEF CallsOK, DraftOK
    <3>2. tasks[c.task].status = "distributing" /\ items' = MoveItems(c.task, {"distributing"}, "pending_payment")
      BY <2>2 DEF CommitCollecting, Advance
    <3>3. \A i \in Items : i \notin Bound(c) => assignments'[i] = assignments[i]
      BY <1>0, <2>2, <3>1, Collected
    <3>4. \A i \in Items : items[i].status = "completed" => i \notin Bound(c)
      BY <1>1, <3>2 DEF Bound, AssignedTo
    <3> QED
      BY <1>4, <1>5, <3>1, <3>2, <3>3, <3>4
  <2>3. ASSUME NEW c \in calls, CompleteTaskWithoutBills(c) PROVE CompletedKept
    <3>1. c.task \in Tasks
      BY DEF CallsOK, DraftOK
    <3> QED
      BY <1>4, <1>5, <2>3, <3>1 DEF CompleteTaskWithoutBills, Advance
  <2>4. ASSUME NEW n \in notices, NoticeRead(n) \/ NoticeCount(n) \/ NoticeAll(n) \/ NoticeLost(n) PROVE CompletedKept
    BY <1>2, <2>4 DEF NoticeRead, NoticeCount, NoticeAll, NoticeLost, demandVars, taskVars
  <2>5. ASSUME NEW n \in notices, NoticeWrite(n) PROVE CompletedKept
    <3>1. \A i \in Items : /\ items'[i].status = IF i \in n.found /\ items[i].status = "pending_payment"
                                                 THEN "completed" ELSE items[i].status
                           /\ items'[i].status = items[i].status => items'[i] = items[i]
      BY <2>5, Confirmed
    <3>2. assignments' = assignments
      BY <2>5 DEF NoticeWrite, taskVars
    <3> QED
      BY <3>1, <3>2 DEF CompletedKept
  <2>6. ASSUME NEW t \in Tasks, CloseTaskBills(t) \/ ClosingLost(t) PROVE CompletedKept
    BY <1>2, <2>6 DEF CloseTaskBills, ClosingLost, demandVars, taskVars
  <2> QED
    BY <1>7, <2>1, <2>2, <2>3, <2>4, <2>5, <2>6 DEF CallStep
<1>8. CASE BillingStep
  BY <1>2, <1>8 DEF BillingStep, demandVars, taskVars
<1>9. CASE UNCHANGED errandVars
  BY <1>2, <1>9 DEF errandVars, demandVars, taskVars
<1> QED
  BY <1>3, <1>6, <1>7, <1>8, <1>9 DEF ErrandNext

\* A completed item is final.
THEOREM CompletedItemsStay == ErrandSpec => CompletedItemStays
<1>1. ErrandInit => MarketInv /\ CallsOK
  BY MarketStart DEF ErrandInit, CallsOK
<1>2. MarketInv /\ CallsOK /\ [ErrandNext]_errandVars => MarketInv' /\ CallsOK'
  BY MarketStep, ErrandStepBills DEF KeepsBills
<1>3. MarketInv /\ CallsOK /\ [ErrandNext]_errandVars =>
        [\A i \in Items : items[i].status = "completed" =>
           /\ items'[i] = items[i]
           /\ assignments'[i] = assignments[i]]_errandVars
  BY CompletedStep DEF CompletedKept
<1> QED
  BY <1>1, <1>2, <1>3, PTL DEF ErrandSpec, CompletedItemStays
-----------------------------------------------------------------------------
(* The goods of a task: asked for, bought and distributed.                 *)

\* The shopping list of a task is the sum of its demands.
ListOK(t) ==
  \A p \in Products :
    taskItems[t][p].required = Total([i \in {j \in AssignedTo(t) : j.product = p} |-> i.quantity])

\* The distribution is decided, down to the last piece.
Decided(t) ==
  /\ \A i \in AssignedTo(t) : assignments[i].quantity # Unset
  /\ \A p \in Listed(t) : Distributed(t, p, {}) = taskItems[t][p].purchased

PastDistribution == {"collecting_payment", "completed"}

GoodsOK(t) ==
  /\ tasks[t].status \notin {"none", "cancelled"} => ListOK(t)
  /\ tasks[t].status \in PastDistribution => Decided(t)

GoodsInv ==
  /\ \A i \in Items : assignments[i].quantity \in {Unset} \cup 0..i.quantity
  /\ \A t \in Tasks : GoodsOK(t)

\* A step that leaves the goods of task t alone.
SameGoods(t) ==
  /\ AssignedTo(t)' = AssignedTo(t)
  /\ \A i \in AssignedTo(t) : assignments'[i].quantity = assignments[i].quantity
  /\ taskItems'[t] = taskItems[t]

LEMMA SameList ==
  ASSUME NEW t \in Tasks, AssignedTo(t)' = AssignedTo(t), ListOK(t),
         \A p \in Products : taskItems'[t][p].required = taskItems[t][p].required
  PROVE  ListOK(t)'
BY DEF ListOK

LEMMA SameDistributed ==
  ASSUME NEW t \in Tasks, SameGoods(t), NEW p
  PROVE  Distributed(t, p, {})' = Distributed(t, p, {})
<1> DEFINE T == {j \in AssignedTo(t) \ {} : j.product = p}
           F == [i \in T |-> IF assignments[i].quantity = Unset THEN 0 ELSE assignments[i].quantity]
           G == [i \in T |-> IF assignments'[i].quantity = Unset THEN 0 ELSE assignments'[i].quantity]
<1>1. F = G
  BY DEF SameGoods
<1>2. Distributed(t, p, {}) = Total(F)
  BY DEF Distributed
<1>3. Distributed(t, p, {})' = Total(G)
  <2>1. {j \in AssignedTo(t)' \ {} : j.product = p} = T
    BY DEF SameGoods
  <2>2. Distributed(t, p, {})' =
          Total([i \in {j \in AssignedTo(t)' \ {} : j.product = p} |->
                   IF assignments'[i].quantity = Unset THEN 0 ELSE assignments'[i].quantity])
    BY DEF Distributed
  <2> QED
    BY <2>1, <2>2
<1> HIDE DEF F, G
<1> QED
  BY <1>1, <1>2, <1>3

LEMMA SameDecision ==
  ASSUME NEW t \in Tasks, SameGoods(t), Decided(t)
  PROVE  Decided(t)'
<1>1. Listed(t)' = Listed(t)
  BY DEF Listed, SameGoods
<1>2. \A p : Distributed(t, p, {})' = Distributed(t, p, {})
  BY SameDistributed
<1> QED
  BY <1>1, <1>2 DEF Decided, SameGoods

\* A step that changes no quantity and moves the tasks on.
LEMMA GoodsFrame ==
  ASSUME GoodsInv,
         \A i \in Items : assignments'[i].quantity \in {Unset} \cup 0..i.quantity,
         \A t \in Tasks :
           \/ GoodsOK(t)'
           \/ tasks'[t].status = "cancelled"
           \/ /\ SameGoods(t) /\ tasks[t].status \notin {"none", "cancelled"}
              /\ tasks'[t].status \in PastDistribution => tasks[t].status \in PastDistribution \/ Decided(t)
           \/ SameGoods(t) /\ tasks'[t].status = tasks[t].status
  PROVE  GoodsInv'
<1> SUFFICES ASSUME NEW t \in Tasks PROVE GoodsOK(t)'
  BY DEF GoodsInv
<1>1. GoodsOK(t)
  BY DEF GoodsInv
<1>2. CASE tasks'[t].status = "cancelled"
  BY <1>2 DEF GoodsOK, PastDistribution
<1>3. ASSUME SameGoods(t), tasks'[t].status \notin {"none", "cancelled"} => tasks[t].status \notin {"none", "cancelled"},
             tasks'[t].status \in PastDistribution => tasks[t].status \in PastDistribution \/ Decided(t)
      PROVE  GoodsOK(t)'
  <2>1. ListOK(t) => ListOK(t)'
    BY <1>3, SameList DEF SameGoods
  <2>2. Decided(t) => Decided(t)'
    BY <1>3, SameDecision
  <2>3. PastDistribution' = PastDistribution
    BY DEF PastDistribution
  <2> QED
    BY <1>1, <1>3, <2>1, <2>2, <2>3 DEF GoodsOK
<1> QED
  BY <1>1, <1>2, <1>3

LEMMA GoodsCreate ==
  ASSUME MarketInv, GoodsInv, NEW captain \in Captains, NEW S \in SUBSET Items, CreateTask(captain, S)
  PROVE  GoodsInv'
<1>0. RowsInv /\ ItemsInv /\ DenseInv
  BY DEF MarketInv
<1>t. PICK t \in Tasks : t = NextTask
  BY <1>0, Selection
<1>1. /\ t \in Tasks /\ tasks[t].status = "none" /\ \A i \in S : assignments[i].task = NoTask
  BY <1>0, <1>t, Selection
<1>2. /\ tasks'[t].status = "shopping" /\ \A u \in Tasks \ {t} : tasks'[u] = tasks[u]
      /\ \A p \in Products : taskItems'[t][p].required = Total([i \in {j \in S : j.product = p} |-> i.quantity])
      /\ \A u \in Tasks \ {t} : taskItems'[u] = taskItems[u]
      /\ \A i \in S : assignments'[i].task = t /\ assignments'[i].quantity = Unset
      /\ \A i \in Items \ S : assignments'[i] = assignments[i]
  BY <1>0, <1>t, RowsCreated
<1>3. \A u \in Tasks : u # NoTask
  BY ErrandAssumption, FS_CardinalityType DEF NoTask
<1>4. \A i \in Items : assignments[i].task # t
  BY <1>0, <1>1, <1>3, FollowingMoved DEF ItemsInv, ItemOK
<1>5. AssignedTo(t)' = S
  BY <1>2, <1>4 DEF AssignedTo
<1>6. ASSUME NEW u \in Tasks, u # t PROVE SameGoods(u) /\ tasks'[u].status = tasks[u].status
  <2>1. AssignedTo(u)' = AssignedTo(u)
    BY <1>1, <1>2, <1>3, <1>6 DEF AssignedTo
  <2>2. \A i \in AssignedTo(u) : i \in Items \ S
    BY <1>1, <1>3 DEF AssignedTo
  <2> QED
    BY <1>2, <1>6, <2>1, <2>2 DEF SameGoods
<1>7. ListOK(t)'
  BY <1>2, <1>5 DEF ListOK
<1>8. GoodsOK(t)'
  BY <1>2, <1>7 DEF GoodsOK, PastDistribution
<1>9. \A i \in Items : assignments'[i].quantity \in {Unset} \cup 0..i.quantity
  BY <1>2 DEF GoodsInv
<1> QED
  BY <1>6, <1>8, <1>9, GoodsFrame

LEMMA GoodsStep == MarketInv /\ GoodsInv /\ CallsOK /\ [ErrandNext]_errandVars => GoodsInv'
<1> SUFFICES ASSUME MarketInv, GoodsInv, CallsOK, [ErrandNext]_errandVars PROVE GoodsInv'
  OBVIOUS
<1>0. RowsInv /\ ItemsInv /\ \A i \in Items : assignments[i].quantity \in {Unset} \cup 0..i.quantity
  BY DEF MarketInv, GoodsInv
<1>1. CASE UNCHANGED taskVars
  <2>1. \A t \in Tasks : SameGoods(t) /\ tasks'[t].status = tasks[t].status
    BY <1>1 DEF taskVars, SameGoods, AssignedTo
  <2> QED
    BY <1>0, <1>1, <2>1, GoodsFrame DEF taskVars
\* Quantities and lists stay and one task moves on.
<1>2. ASSUME NEW t \in Tasks, tasks[t].status \notin {"none", "cancelled"},
             \A u \in Tasks \ {t} : tasks'[u] = tasks[u],
             \A i \in Items : assignments'[i].task = assignments[i].task
                              /\ assignments'[i].quantity = assignments[i].quantity,
             taskItems' = taskItems,
             tasks'[t].status \in PastDistribution => tasks[t].status \in PastDistribution \/ Decided(t)
      PROVE  GoodsInv'
  <2>1. \A u \in Tasks : SameGoods(u)
    BY <1>2 DEF SameGoods, AssignedTo
  <2> QED
    BY <1>0, <1>2, <2>1, GoodsFrame
<1>3. {"pending_distributing", "collecting_payment", "completed"} \subseteq TaskStatuses /\ tasks \in [Tasks -> TaskRow]
  BY <1>0 DEF TaskStatuses, RowsInv
<1>4. CASE BuyerStep
  BY <1>1, <1>4 DEF BuyerStep, Selections, CreateErrandDemand, UpdateErrandDemand, CancelErrandDemand
<1>5. CASE CaptainStep
  <2>1. ASSUME NEW captain \in Captains, NEW S \in SUBSET Items, CreateTask(captain, S) PROVE GoodsInv'
    BY <2>1, GoodsCreate
  <2>2. ASSUME NEW t \in Tasks, NEW p \in Products, NEW n,
               SaveShoppingTaskItem(t, p, n) \/ (n \in Prices /\ UpdateActualPrice(t, p, n))
        PROVE  GoodsInv'
    <3>1. /\ Entered(t, p, n) /\ UNCHANGED <<tasks, assignments>>
          /\ tasks[t].status \in {"shopping", "pending_distributing", "distributing"}
      BY <1>0, <2>2, Enters DEF SaveShoppingTaskItem, UpdateActualPrice
    <3>2. /\ \A u \in Tasks \ {t} : taskItems'[u] = taskItems[u]
          /\ \A q \in Products : taskItems'[t][q].required = taskItems[t][q].required
      BY <1>0, <3>1, TaskItemWritten
    <3>3. \A u \in Tasks : AssignedTo(u)' = AssignedTo(u)
      BY <3>1 DEF AssignedTo
    <3>4. \A u \in Tasks \ {t} : SameGoods(u)
      BY <3>1, <3>2, <3>3 DEF SameGoods
    <3>5. GoodsOK(t)'
      <4>1. ListOK(t)
        BY <3>1 DEF GoodsInv, GoodsOK
      <4>2. ListOK(t)'
        BY <3>2, <3>3, <4>1, SameList
      <4> QED
        BY <3>1, <4>2 DEF GoodsOK, PastDistribution
    <3> QED
      BY <1>0, <3>1, <3>4, <3>5, GoodsFrame
  <2>3. ASSUME NEW i \in Items, NEW n \in {Unset} \cup 0..i.quantity, SaveDistributingTaskAssignment(i, n)
        PROVE  GoodsInv'
    <3>t. PICK t : t = assignments[i].task
      OBVIOUS
    <3>0. n \in {Unset} \cup Nat
      BY <2>3, ErrandAssumption
    <3>1. /\ assignments' = [assignments EXCEPT ![i].quantity = n]
          /\ t # NoTask /\ tasks[t].status = "distributing" /\ UNCHANGED <<tasks, taskItems>>
      BY <2>3, <3>t DEF SaveDistributingTaskAssignment
    <3>2. /\ assignments'[i].task = t /\ assignments'[i].quantity = n
          /\ \A j \in Items \ {i} : assignments'[j] = assignments[j]
      BY <1>0, <3>t, <3>0, <3>1, AssignmentWritten
    <3>3. t \in Tasks
      BY <1>0, <3>t, <3>1 DEF RowsInv, Assignment
    <3>4. \A u \in Tasks : AssignedTo(u)' = AssignedTo(u)
      BY <3>t, <3>2 DEF AssignedTo
    <3>5. \A u \in Tasks \ {t} : SameGoods(u)
      <4>1. \A u \in Tasks \ {t} : i \notin AssignedTo(u)
        BY <3>t DEF AssignedTo
      <4>2. \A u \in Tasks \ {t} : \A j \in AssignedTo(u) : assignments'[j] = assignments[j]
        BY <3>2, <4>1 DEF AssignedTo
      <4> QED
        BY <3>1, <3>4, <4>2 DEF SameGoods
    <3>6. GoodsOK(t)'
      <4>1. ListOK(t)
        BY <3>1, <3>3 DEF GoodsInv, GoodsOK
      <4>2. ListOK(t)'
        BY <3>1, <3>3, <3>4, <4>1, SameList
      <4> QED
        BY <3>1, <4>2 DEF GoodsOK, PastDistribution
    <3>7. \A j \in Items : assignments'[j].quantity \in {Unset} \cup 0..j.quantity
      BY <1>0, <2>3, <3>2
    <3> QED
      BY <3>1, <3>5, <3>6, <3>7, GoodsFrame
  <2>4. ASSUME NEW t \in Tasks, BeginCollecting(t) PROVE GoodsInv'
    BY <1>1, <2>4 DEF BeginCollecting
  <2>5. ASSUME NEW t \in Tasks, TransitionToPendingDistributing(t) PROVE GoodsInv'
    <3>1. /\ tasks[t].status = "shopping" /\ tasks' = [tasks EXCEPT ![t].status = "pending_distributing"]
          /\ UNCHANGED <<taskItems, assignments>>
      BY <2>5 DEF TransitionToPendingDistributing, Advance
    <3> QED
      BY <1>2, <1>3, <3>1, TaskWritten DEF PastDistribution
  <2>6. ASSUME NEW t \in Tasks, NEW fee, TransitionToDistributing(t, fee) PROVE GoodsInv'
    <3>1. /\ tasks[t].status = "pending_distributing" /\ UNCHANGED <<taskItems, assignments>>
          /\ tasks' = [tasks EXCEPT ![t].status = "distributing", ![t].packaging = fee]
      BY <2>6 DEF TransitionToDistributing
    <3>2. PICK r : r = [tasks[t] EXCEPT !.status = "distributing", !.packaging = fee]
      OBVIOUS
    <3>3. tasks[t] \in TaskRow
      BY <1>3
    <3>4. r.status = "distributing"
      BY <3>2, <3>3 DEF TaskRow
    <3>5. tasks' = [tasks EXCEPT ![t] = r]
      BY <3>1, <3>2
    <3>6. tasks'[t].status = "distributing" /\ \A u \in Tasks \ {t} : tasks'[u] = tasks[u]
      BY <1>3, <3>4, <3>5
    <3> QED
      BY <1>2, <3>1, <3>6 DEF PastDistribution
  <2>7. ASSUME NEW t \in Tasks, TransitionToCompleted(t) PROVE GoodsInv'
    <3>1. /\ tasks[t].status = "collecting_payment" /\ tasks' = [tasks EXCEPT ![t].status = "completed"]
          /\ UNCHANGED <<taskItems, assignments>>
      BY <2>7 DEF TransitionToCompleted, Advance
    <3> QED
      BY <1>2, <1>3, <3>1, TaskWritten DEF PastDistribution
  <2>8. ASSUME NEW t \in Tasks, CancelTask(t) PROVE GoodsInv'
    <3>1. /\ tasks'[t].status = "cancelled" /\ \A u \in Tasks \ {t} : tasks'[u] = tasks[u]
          /\ \A i \in Items : IF i \in Reopened(t)
                              THEN assignments'[i].task = NoTask /\ assignments'[i].quantity = Unset
                              ELSE assignments'[i] = assignments[i]
      BY <1>0, <2>8, Cancelled
    <3>2. \A u \in Tasks : u # NoTask
      BY ErrandAssumption, FS_CardinalityType DEF NoTask
    <3>3. \A u \in Tasks \ {t} : \A i \in AssignedTo(u) : i \notin Reopened(t)
      BY DEF Reopened, AssignedTo
    <3>4. \A u \in Tasks \ {t} : AssignedTo(u)' = AssignedTo(u)
      BY <3>1, <3>2, <3>3 DEF AssignedTo
    <3>5. \A u \in Tasks \ {t} : \A i \in AssignedTo(u) : i \in Items /\ assignments'[i] = assignments[i]
      BY <3>1, <3>3 DEF AssignedTo
    <3>6. \A u \in Tasks \ {t} : SameGoods(u) /\ tasks'[u].status = tasks[u].status
      BY <2>8, <3>1, <3>4, <3>5 DEF SameGoods, CancelTask
    <3>7. \A i \in Items : assignments'[i].quantity \in {Unset} \cup 0..i.quantity
      BY <1>0, <3>1
    <3> QED
      BY <3>1, <3>6, <3>7, GoodsFrame
  <2> QED
    <3>1. \A p \in Products, t \in Tasks : {Unset} \cup 0..taskItems[t][p].required \subseteq Int
      BY DEF Unset
    <3>2. Prices \subseteq Int
      BY ErrandAssumption
    <3> QED
      BY <1>5, <2>1, <2>2, <2>3, <2>4, <2>5, <2>6, <2>7, <2>8, <3>1, <3>2 DEF CaptainStep, Selections
<1>6. CASE CallStep
  <2>1. ASSUME NEW c \in calls, AskBill(c) \/ BillAnswered(c) \/ EndCall(c) PROVE GoodsInv'
    BY <1>1, <2>1 DEF AskBill, BillAnswered, EndCall
  <2>2. ASSUME NEW c \in calls, CommitCollecting(c) PROVE GoodsInv'
    <3>1. c \in Call /\ c.task \in Tasks
      BY DEF CallsOK, DraftOK
    <3>2. /\ tasks[c.task].status = "distributing" /\ taskItems' = taskItems /\ Decided(c.task)
          /\ tasks' = [tasks EXCEPT ![c.task].status = "collecting_payment"]
      BY <2>2 DEF CommitCollecting, Advance, DistributionCompleted, Decided
    <3>3. \A i \in Items : /\ assignments'[i].task = assignments[i].task
                           /\ assignments'[i].quantity = assignments[i].quantity
      BY <1>0, <2>2, <3>1, Collected
    <3>4. \A u \in Tasks \ {c.task} : tasks'[u] = tasks[u]
      BY <1>3, <3>1, <3>2, TaskWritten
    <3> QED
      BY <1>2, <3>1, <3>2, <3>3, <3>4
  <2>3. ASSUME NEW c \in calls, CompleteTaskWithoutBills(c) PROVE GoodsInv'
    <3>1. c.task \in Tasks
      BY DEF CallsOK, DraftOK
    <3>2. /\ tasks[c.task].status = "distributing" /\ UNCHANGED <<taskItems, assignments>> /\ Decided(c.task)
          /\ tasks' = [tasks EXCEPT ![c.task].status = "completed"]
      BY <2>3 DEF CompleteTaskWithoutBills, Advance, DistributionCompleted, Decided
    <3>3. \A u \in Tasks \ {c.task} : tasks'[u] = tasks[u]
      BY <1>3, <3>1, <3>2, TaskWritten
    <3> QED
      BY <1>2, <3>1, <3>2, <3>3
  <2>4. ASSUME NEW n \in notices, NoticeRead(n) \/ NoticeWrite(n) \/ NoticeCount(n) \/ NoticeLost(n) PROVE GoodsInv'
    BY <1>1, <2>4 DEF NoticeRead, NoticeWrite, NoticeCount, NoticeLost
  <2>5. ASSUME NEW n \in notices, NoticeAll(n) PROVE GoodsInv'
    <3>1. n.task \in Tasks /\ UNCHANGED <<taskItems, assignments>>
      BY <1>0, <2>5 DEF RowsInv, Notice, NoticeAll
    <3>2. CASE tasks' = tasks
      BY <1>1, <3>1, <3>2 DEF taskVars
    <3>3. CASE tasks[n.task].status = "collecting_payment" /\ tasks' = [tasks EXCEPT ![n.task].status = "completed"]
      <4>1. \A u \in Tasks \ {n.task} : tasks'[u] = tasks[u]
        BY <1>3, <3>1, <3>3, TaskWritten
      <4> QED
        BY <1>2, <3>1, <3>3, <4>1 DEF PastDistribution
    <3> QED
      BY <2>5, <3>2, <3>3 DEF NoticeAll
  <2>6. ASSUME NEW t \in Tasks, CloseTaskBills(t) \/ ClosingLost(t) PROVE GoodsInv'
    BY <1>1, <2>6 DEF CloseTaskBills, ClosingLost
  <2> QED
    BY <1>6, <2>1, <2>2, <2>3, <2>4, <2>5, <2>6 DEF CallStep
<1>7. CASE BillingStep
  BY <1>1, <1>7 DEF BillingStep
<1>8. CASE UNCHANGED errandVars
  BY <1>1, <1>8 DEF errandVars
<1> QED
  BY <1>4, <1>5, <1>6, <1>7, <1>8 DEF ErrandNext

LEMMA GoodsStart == ErrandInit => GoodsInv
BY DEF ErrandInit, GoodsInv, GoodsOK, PastDistribution

\* When money is collected the books of the goods balance, for every list of items and
\* every way to buy and distribute them.
THEOREM DistributionsAddUp == ErrandSpec => []DistributionAddsUp
<1>1. ErrandInit => MarketInv /\ CallsOK /\ GoodsInv
  BY MarketStart, GoodsStart DEF ErrandInit, CallsOK
<1>2. MarketInv /\ CallsOK /\ GoodsInv /\ [ErrandNext]_errandVars => MarketInv' /\ CallsOK' /\ GoodsInv'
  BY MarketStep, GoodsStep, ErrandStepBills DEF KeepsBills
<1>3. GoodsInv => DistributionAddsUp
  <2> SUFFICES ASSUME GoodsInv, NEW t \in Tasks, tasks[t].status \in {"collecting_payment", "completed"},
                      NEW p \in Listed(t)
               PROVE  /\ Distributed(t, p, {}) = taskItems[t][p].purchased
                      /\ taskItems[t][p].required =
                           Total([i \in {j \in AssignedTo(t) : j.product = p} |-> i.quantity])
                      /\ \A i \in AssignedTo(t) : assignments[i].quantity \in 0..i.quantity
    BY DEF DistributionAddsUp
  <2>1. ListOK(t) /\ Decided(t) /\ p \in Products
    BY DEF GoodsInv, GoodsOK, PastDistribution, Listed
  <2>2. \A i \in AssignedTo(t) : assignments[i].quantity \in 0..i.quantity
    BY <2>1 DEF GoodsInv, Decided, AssignedTo
  <2> QED
    BY <2>1, <2>2 DEF ListOK, Decided
<1> QED
  BY <1>1, <1>2, <1>3, PTL DEF ErrandSpec
-----------------------------------------------------------------------------
(* What a step does to a task, as far as its money is concerned.           *)

\* What the payers of task t owe does not change.
SameMoney(t) ==
  /\ SameGoods(t)
  /\ tasks'[t].captain = tasks[t].captain /\ tasks'[t].packaging = tasks[t].packaging
  /\ \A i \in AssignedTo(t) : assignments[i].billed => assignments'[i].billed

Stays(t) == SameMoney(t) /\ tasks'[t].status = tasks[t].status

Starts(t) == tasks[t].status = "none" /\ tasks'[t].status = "shopping"

Shops(t) ==
  /\ tasks[t].status \in {"shopping", "pending_distributing"}
  /\ tasks'[t].status \in {"shopping", "pending_distributing", "distributing"}
  /\ tasks'[t].captain = tasks[t].captain

Distributes(t) ==
  /\ tasks[t].status = "distributing" /\ tasks'[t].status = "distributing"
  /\ tasks'[t].captain = tasks[t].captain /\ tasks'[t].packaging = tasks[t].packaging
  /\ AssignedTo(t)' = AssignedTo(t)
  /\ \A i \in AssignedTo(t) : assignments[i].billed => assignments'[i].billed

Collects(t) ==
  \E c \in calls : /\ c.task = t /\ c.todo = {}
                   /\ SameMoney(t)
                   /\ tasks[t].status = "distributing" /\ tasks'[t].status \in PastDistribution
                   /\ tasks'[t].status = "completed" => DOMAIN c.drafts = {}
                   /\ \A i \in Bound(c) : assignments'[i].billed

Concludes(t) ==
  /\ SameMoney(t)
  /\ tasks[t].status = "collecting_payment" /\ tasks'[t].status = "completed"
  /\ PaymentsCompleted(t) \/ \E n \in notices : n.task = t /\ n.stage = "all"

Cancels(t) ==
  /\ tasks[t].status \notin {"none", "completed", "cancelled"} /\ tasks'[t].status = "cancelled"
  /\ tasks'[t].captain = tasks[t].captain

TaskMoved(t) ==
  Stays(t) \/ Starts(t) \/ Shops(t) \/ Distributes(t) \/ Collects(t) \/ Concludes(t) \/ Cancels(t)

\* What completes an item.
ItemConcluded(i) ==
  items[i].status # "completed" /\ items'[i].status = "completed" =>
    /\ assignments' = assignments
    /\ \/ PaymentsCompleted(assignments[i].task)
       \/ \E n \in notices \ notices' : n.stage = "write" /\ i \in n.found

TasksMoved == (\A t \in Tasks : TaskMoved(t)) /\ \A i \in Items : ItemConcluded(i)

LEMMA MovedByCaptain ==
  ASSUME MarketInv, CaptainStep
  PROVE  TasksMoved
<1>0. RowsInv /\ ItemsInv /\ DenseInv /\ tasks \in [Tasks -> TaskRow]
  BY DEF MarketInv, RowsInv
<1>1. ASSUME NEW t \in Tasks, UNCHANGED assignments,
             TaskMoved(t), \A u \in Tasks \ {t} : tasks'[u] = tasks[u] /\ taskItems'[u] = taskItems[u],
             \A i \in Items : ItemConcluded(i)
      PROVE  TasksMoved
  <2>1. \A u \in Tasks \ {t} : Stays(u)
    BY <1>1 DEF Stays, SameMoney, SameGoods, AssignedTo
  <2> QED
    BY <1>1, <2>1 DEF TasksMoved, TaskMoved
<1>2. ASSUME NEW captain \in Captains, NEW S \in SUBSET Items, CreateTask(captain, S) PROVE TasksMoved
  <2>t. PICK t \in Tasks : t = NextTask
    BY <1>0, <1>2, Selection
  <2>1. /\ t \in Tasks /\ tasks[t].status = "none"
        /\ \A i \in S : assignments[i].task = NoTask
    BY <1>0, <1>2, <2>t, Selection
  <2>2. /\ tasks'[t].status = "shopping" /\ \A u \in Tasks \ {t} : tasks'[u] = tasks[u]
        /\ \A u \in Tasks \ {t} : taskItems'[u] = taskItems[u]
        /\ \A i \in S : assignments'[i].task = t
        /\ \A i \in Items \ S : assignments'[i] = assignments[i]
    BY <1>0, <1>2, <2>t, RowsCreated
  <2>3. \A u \in Tasks : u # NoTask
    BY ErrandAssumption, FS_CardinalityType DEF NoTask
  <2>4. ASSUME NEW u \in Tasks \ {t} PROVE Stays(u)
    <3>1. AssignedTo(u)' = AssignedTo(u)
      BY <2>1, <2>2, <2>3 DEF AssignedTo
    <3>2. \A i \in AssignedTo(u) : i \in Items \ S
      BY <2>1, <2>3 DEF AssignedTo
    <3> QED
      BY <2>2, <3>1, <3>2 DEF Stays, SameMoney, SameGoods
  <2>5. Starts(t)
    BY <2>1, <2>2 DEF Starts
  <2>6. ASSUME NEW i \in Items PROVE ItemConcluded(i)
    <3>1. \/ items'[i].status = "shopping"
          \/ items'[i] = items[i]
      BY <1>0, <1>2, Created
    <3> QED
      BY <3>1 DEF ItemConcluded
  <2> QED
    BY <2>4, <2>5, <2>6 DEF TasksMoved, TaskMoved
<1>3. ASSUME NEW t \in Tasks, NEW p \in Products, NEW n,
             SaveShoppingTaskItem(t, p, n) \/ (n \in Prices /\ UpdateActualPrice(t, p, n))
      PROVE  TasksMoved
  <2>1. /\ Entered(t, p, n) /\ UNCHANGED <<tasks, assignments, items>>
        /\ \/ tasks[t].status \in {"shopping", "pending_distributing"}
           \/ tasks[t].status = "distributing"
    BY <1>0, <1>3, Enters DEF SaveShoppingTaskItem, UpdateActualPrice, demandVars
  <2>2. \A u \in Tasks \ {t} : taskItems'[u] = taskItems[u]
    BY <1>0, <2>1, TaskItemWritten
  <2>3. Shops(t) \/ Distributes(t)
    BY <2>1 DEF Shops, Distributes, AssignedTo
  <2> QED
    BY <1>1, <2>1, <2>2, <2>3 DEF TaskMoved, ItemConcluded
<1>4. ASSUME NEW i \in Items, NEW n \in {Unset} \cup Nat, SaveDistributingTaskAssignment(i, n)
      PROVE  TasksMoved
  <2>t. PICK t : t = assignments[i].task
    OBVIOUS
  <2>1. /\ assignments' = [assignments EXCEPT ![i].quantity = n]
        /\ t # NoTask /\ tasks[t].status = "distributing" /\ UNCHANGED <<tasks, taskItems, items>>
    BY <1>4, <2>t DEF SaveDistributingTaskAssignment, demandVars
  <2>2. assignments'[i].task = t /\ assignments'[i].billed = assignments[i].billed
        /\ \A j \in Items \ {i} : assignments'[j] = assignments[j]
    BY <1>0, <1>4, <2>t, <2>1, AssignmentWritten
  <2>3. \A u : AssignedTo(u)' = AssignedTo(u)
    BY <2>t, <2>2 DEF AssignedTo
  <2>4. \A u \in Tasks \ {t} : Stays(u)
    <3>1. \A u \in Tasks \ {t} : \A j \in AssignedTo(u) : assignments'[j] = assignments[j]
      BY <2>t, <2>2 DEF AssignedTo
    <3> QED
      BY <2>1, <2>3, <3>1 DEF Stays, SameMoney, SameGoods
  <2>5. Distributes(t)
    BY <2>1, <2>2, <2>3 DEF Distributes, AssignedTo
  <2>6. \A j \in Items : ItemConcluded(j)
    BY <2>t, <2>1, <2>2 DEF ItemConcluded
  <2> QED
    BY <2>4, <2>5, <2>6 DEF TasksMoved, TaskMoved
<1>5. ASSUME NEW t \in Tasks, BeginCollecting(t) PROVE TasksMoved
  BY <1>5 DEF BeginCollecting, demandVars, taskVars, TasksMoved, TaskMoved, Stays, SameMoney, SameGoods,
              AssignedTo, ItemConcluded
<1>6. ASSUME NEW t \in Tasks, NEW From, NEW to \in DemandStatuses, items' = MoveItems(t, From, to),
             to = "completed" => PaymentsCompleted(t), UNCHANGED assignments
      PROVE  \A i \in Items : ItemConcluded(i)
  <2>1. \A i \in Items : LET e == MoveItems(t, From, to)[i]
                         IN  e.status = IF i \in AssignedTo(t) /\ items[i].status \in From
                                        THEN to ELSE items[i].status
    BY <1>0, Moved
  <2> QED
    BY <1>6, <2>1 DEF ItemConcluded, AssignedTo
<1>7. {"pending_distributing", "distributing", "completed"} \subseteq DemandStatuses \cap TaskStatuses
  BY DEF DemandStatuses, TaskStatuses
<1>8. ASSUME NEW t \in Tasks, TransitionToPendingDistributing(t) PROVE TasksMoved
  <2>1. /\ tasks[t].status = "shopping" /\ tasks' = [tasks EXCEPT ![t].status = "pending_distributing"]
        /\ items' = MoveItems(t, {"shopping"}, "pending_distributing")
        /\ UNCHANGED <<taskItems, assignments>>
    BY <1>8 DEF TransitionToPendingDistributing, Advance
  <2>2. /\ tasks'[t].status = "pending_distributing" /\ tasks'[t].captain = tasks[t].captain
        /\ \A u \in Tasks \ {t} : tasks'[u] = tasks[u]
    BY <1>0, <1>7, <2>1, TaskWritten
  <2>3. Shops(t)
    BY <2>1, <2>2 DEF Shops
  <2>4. \A i \in Items : ItemConcluded(i)
    BY <1>6, <1>7, <2>1
  <2> QED
    BY <1>1, <2>1, <2>2, <2>3, <2>4 DEF TaskMoved
<1>9. ASSUME NEW t \in Tasks, NEW fee \in PackagingFees, TransitionToDistributing(t, fee) PROVE TasksMoved
  <2>1. /\ tasks[t].status = "pending_distributing" /\ UNCHANGED <<taskItems, assignments>>
        /\ tasks' = [tasks EXCEPT ![t].status = "distributing", ![t].packaging = fee]
        /\ items' = MoveItems(t, {"pending_distributing"}, "distributing")
    BY <1>9 DEF TransitionToDistributing
  <2>2. PICK r : r = [tasks[t] EXCEPT !.status = "distributing", !.packaging = fee]
    OBVIOUS
  <2>3. tasks[t] \in TaskRow
    BY <1>0
  <2>4. r.status = "distributing" /\ r.captain = tasks[t].captain
    BY <2>2, <2>3 DEF TaskRow
  <2>5. tasks' = [tasks EXCEPT ![t] = r]
    BY <2>1, <2>2
  <2>6. /\ tasks'[t].status = "distributing" /\ tasks'[t].captain = tasks[t].captain
        /\ \A u \in Tasks \ {t} : tasks'[u] = tasks[u]
    BY <1>0, <2>4, <2>5
  <2>7. Shops(t)
    BY <2>1, <2>6 DEF Shops
  <2>8. \A i \in Items : ItemConcluded(i)
    BY <1>6, <1>7, <2>1
  <2> QED
    BY <1>1, <2>1, <2>6, <2>7, <2>8 DEF TaskMoved
<1>10. ASSUME NEW t \in Tasks, TransitionToCompleted(t) PROVE TasksMoved
  <2>1. /\ tasks[t].status = "collecting_payment" /\ tasks' = [tasks EXCEPT ![t].status = "completed"]
        /\ items' = MoveItems(t, {"pending_payment", "completed"}, "completed")
        /\ UNCHANGED <<taskItems, assignments>> /\ PaymentsCompleted(t)
    BY <1>10 DEF TransitionToCompleted, Advance
  <2>2. /\ tasks'[t].status = "completed" /\ tasks'[t].captain = tasks[t].captain
        /\ tasks'[t].packaging = tasks[t].packaging
        /\ \A u \in Tasks \ {t} : tasks'[u] = tasks[u]
    BY <1>0, <1>7, <2>1, TaskWritten
  <2>3. Concludes(t)
    BY <2>1, <2>2 DEF Concludes, SameMoney, SameGoods, AssignedTo
  <2>4. \A i \in Items : ItemConcluded(i)
    BY <1>6, <1>7, <2>1
  <2> QED
    BY <1>1, <2>1, <2>2, <2>3, <2>4 DEF TaskMoved
<1>11. ASSUME NEW t \in Tasks, CancelTask(t) PROVE TasksMoved
  <2>1. /\ tasks'[t].status = "cancelled" /\ tasks'[t].captain = tasks[t].captain
        /\ \A u \in Tasks \ {t} : tasks'[u] = tasks[u]
        /\ \A i \in Items : IF i \in Reopened(t)
                            THEN items'[i].status = "open" /\ assignments'[i].task = NoTask
                            ELSE items'[i] = items[i] /\ assignments'[i] = assignments[i]
    BY <1>0, <1>11, Cancelled
  <2>2. \A u \in Tasks : u # NoTask
    BY ErrandAssumption, FS_CardinalityType DEF NoTask
  <2>3. \A u \in Tasks \ {t} : \A i \in AssignedTo(u) : i \in Items /\ assignments'[i] = assignments[i]
    BY <2>1 DEF AssignedTo, Reopened
  <2>4. \A u \in Tasks \ {t} : AssignedTo(u)' = AssignedTo(u)
    BY <2>1, <2>2, <2>3 DEF AssignedTo
  <2>5. \A u \in Tasks \ {t} : Stays(u)
    BY <1>11, <2>1, <2>3, <2>4 DEF Stays, SameMoney, SameGoods, CancelTask
  <2>6. Cancels(t)
    BY <1>11, <2>1 DEF Cancels, CancelTask
  <2>7. \A i \in Items : ItemConcluded(i)
    BY <2>1 DEF ItemConcluded
  <2> QED
    BY <2>5, <2>6, <2>7 DEF TasksMoved, TaskMoved
<1> QED
  <2>1. \A p \in Products, t \in Tasks : {Unset} \cup 0..taskItems[t][p].required \subseteq Int
    BY DEF Unset
  <2>2. Prices \subseteq Int /\ \A i \in Items : {Unset} \cup 0..i.quantity \subseteq {Unset} \cup Nat
    BY ErrandAssumption
  <2> QED
    BY <1>2, <1>3, <1>4, <1>5, <1>8, <1>9, <1>10, <1>11, <2>1, <2>2 DEF CaptainStep, Selections

LEMMA MovedByStep == MarketInv /\ CallsOK /\ [ErrandNext]_errandVars => TasksMoved
<1> SUFFICES ASSUME MarketInv, CallsOK, [ErrandNext]_errandVars PROVE TasksMoved
  OBVIOUS
<1>0. RowsInv /\ ItemsInv /\ tasks \in [Tasks -> TaskRow]
  BY DEF MarketInv, RowsInv
<1>1. ASSUME UNCHANGED taskVars, \A i \in Items : ItemConcluded(i) PROVE TasksMoved
  BY <1>1 DEF taskVars, TasksMoved, TaskMoved, Stays, SameMoney, SameGoods, AssignedTo
<1>2. ASSUME UNCHANGED <<demandVars, taskVars>> PROVE TasksMoved
  BY <1>1, <1>2 DEF demandVars, ItemConcluded
<1>3. {"pending_payment", "completed"} \subseteq DemandStatuses /\ {"collecting_payment", "completed"} \subseteq TaskStatuses
  BY DEF DemandStatuses, TaskStatuses
<1>4. CASE BuyerStep
  <2>1. ASSUME NEW S, NEW d, items' = Publish(d, S) PROVE \A i \in Items : ItemConcluded(i)
    BY <2>1 DEF Publish, ItemConcluded
  <2>2. ASSUME NEW d \in Demands, CancelErrandDemand(d) PROVE \A i \in Items : ItemConcluded(i)
    <3>1. ASSUME NEW i \in Items PROVE items'[i] = items[i] \/ items'[i].status = "cancelled"
      <4>1. items[i] \in ItemRow /\ "cancelled" \in DemandStatuses
        BY <1>0 DEF RowsInv, DemandStatuses
      <4>2. [items[i] EXCEPT !.status = "cancelled"].status = "cancelled"
        BY <4>1, ItemRowWritten
      <4> QED
        BY <2>2, <4>2 DEF CancelErrandDemand
    <3> QED
      BY <3>1 DEF ItemConcluded
  <2> QED
    BY <1>1, <1>4, <2>1, <2>2 DEF BuyerStep, Selections, CreateErrandDemand, UpdateErrandDemand, CancelErrandDemand
<1>5. CASE CallStep
  <2>1. ASSUME NEW c \in calls, AskBill(c) \/ BillAnswered(c) \/ EndCall(c) PROVE TasksMoved
    BY <1>2, <2>1 DEF AskBill, BillAnswered, EndCall
  <2>2. ASSUME NEW c \in calls, CommitCollecting(c) PROVE TasksMoved
    <3>1. c \in Call /\ c.task \in Tasks
      BY DEF CallsOK, DraftOK
    <3>t. PICK t \in Tasks : t = c.task
      BY <3>1
    <3>2. /\ c.todo = {} /\ tasks[t].status = "distributing" /\ taskItems' = taskItems
          /\ tasks' = [tasks EXCEPT ![t].status = "collecting_payment"]
          /\ items' = MoveItems(t, {"distributing"}, "pending_payment")
      BY <2>2, <3>t DEF CommitCollecting, Advance
    <3>3. \A i \in Items : /\ assignments'[i].task = assignments[i].task
                           /\ assignments'[i].quantity = assignments[i].quantity
                           /\ i \in Bound(c) => assignments'[i].billed
                           /\ i \notin Bound(c) => assignments'[i] = assignments[i]
      BY <1>0, <2>2, <3>1, Collected
    <3>4. /\ tasks'[t].status = "collecting_payment" /\ tasks'[t].captain = tasks[t].captain
          /\ tasks'[t].packaging = tasks[t].packaging /\ \A u \in Tasks \ {t} : tasks'[u] = tasks[u]
      BY <1>0, <1>3, <3>2, TaskWritten
    <3>5. \A u \in Tasks : SameMoney(u)
      BY <3>2, <3>3, <3>4 DEF SameMoney, SameGoods, AssignedTo
    <3>6. Collects(t)
      BY <3>t, <3>2, <3>3, <3>4, <3>5 DEF Collects, PastDistribution, Bound, AssignedTo
    <3>7. \A u \in Tasks \ {t} : Stays(u)
      BY <3>4, <3>5 DEF Stays
    <3>8. \A i \in Items : ItemConcluded(i)
      <4>1. \A i \in Items : LET e == MoveItems(t, {"distributing"}, "pending_payment")[i]
                             IN  e.status = IF i \in AssignedTo(t) /\ items[i].status \in {"distributing"}
                                            THEN "pending_payment" ELSE items[i].status
        BY <1>0, <1>3, Moved
      <4> QED
        BY <3>2, <3>3, <4>1 DEF ItemConcluded
    <3> QED
      BY <3>6, <3>7, <3>8 DEF TasksMoved, TaskMoved
  <2>3. ASSUME NEW c \in calls, CompleteTaskWithoutBills(c) PROVE TasksMoved
    <3>1. c \in Call /\ c.task \in Tasks /\ c.todo \subseteq DOMAIN c.drafts
      BY DEF CallsOK, DraftOK
    <3>t. PICK t \in Tasks : t = c.task
      BY <3>1
    <3>2. /\ c.todo = {} /\ DOMAIN c.drafts = {} /\ tasks[t].status = "distributing"
          /\ UNCHANGED <<taskItems, assignments>>
          /\ tasks' = [tasks EXCEPT ![t].status = "completed"]
          /\ items' = MoveItems(t, {"pending_payment", "completed"}, "completed")
      BY <2>3, <3>1, <3>t DEF CompleteTaskWithoutBills, Advance
    <3>3. Bound(c) = {}
      BY <3>2 DEF Bound
    <3>4. /\ tasks'[t].status = "completed" /\ tasks'[t].captain = tasks[t].captain
          /\ tasks'[t].packaging = tasks[t].packaging /\ \A u \in Tasks \ {t} : tasks'[u] = tasks[u]
      BY <1>0, <1>3, <3>2, TaskWritten
    <3>5. \A u \in Tasks : SameMoney(u)
      BY <3>2, <3>4 DEF SameMoney, SameGoods, AssignedTo
    <3>6. Collects(t)
      BY <3>t, <3>2, <3>3, <3>4, <3>5 DEF Collects, PastDistribution
    <3>7. \A u \in Tasks \ {t} : Stays(u)
      BY <3>4, <3>5 DEF Stays
    <3>8. \A i \in Items : ItemConcluded(i)
      <4>1. \A i \in Items : LET e == MoveItems(t, {"pending_payment", "completed"}, "completed")[i]
                             IN  e.status = IF i \in AssignedTo(t) /\ items[i].status \in {"pending_payment", "completed"}
                                            THEN "completed" ELSE items[i].status
        BY <1>0, <1>3, Moved
      <4>2. t # NoTask
        BY ErrandAssumption, FS_CardinalityType DEF NoTask
      <4>3. \A i \in AssignedTo(t) : items[i].status = "distributing"
        BY <1>0, <3>2, <4>2, FollowingMoved DEF AssignedTo, ItemsInv, ItemOK
      <4> QED
        BY <3>2, <4>1, <4>3 DEF ItemConcluded
    <3> QED
      BY <3>6, <3>7, <3>8 DEF TasksMoved, TaskMoved
  <2>4. ASSUME NEW n \in notices, NoticeRead(n) \/ NoticeCount(n) \/ NoticeLost(n) PROVE TasksMoved
    BY <1>2, <2>4 DEF NoticeRead, NoticeCount, NoticeLost
  <2>5. ASSUME NEW n \in notices, NoticeWrite(n) PROVE TasksMoved
    <3>1. \A i \in Items : items'[i].status = IF i \in n.found /\ items[i].status = "pending_payment"
                                              THEN "completed" ELSE items[i].status
      BY <2>5, Confirmed
    <3>2. n.stage = "write" /\ UNCHANGED taskVars
      BY <2>5 DEF NoticeWrite
    <3>3. n \notin notices'
      <4>1. n \in Notice
        BY <1>0 DEF RowsInv
      <4>2. [n EXCEPT !.stage = "count", !.found = {}].stage = "count"
        BY <4>1 DEF Notice
      <4> QED
        BY <2>5, <3>2, <4>2 DEF NoticeWrite, NoticeGoto
    <3>4. \A i \in Items : ItemConcluded(i)
      BY <3>1, <3>2, <3>3 DEF ItemConcluded, taskVars
    <3> QED
      BY <1>1, <3>2, <3>4
  <2>6. ASSUME NEW n \in notices, NoticeAll(n) PROVE TasksMoved
    <3>1. n.stage = "all" /\ UNCHANGED <<taskItems, assignments, items>>
      BY <2>6 DEF NoticeAll, demandVars
    <3>t. PICK t \in Tasks : t = n.task
      BY <1>0 DEF RowsInv, Notice
    <3>2. CASE tasks' = tasks
      BY <1>1, <3>1, <3>2 DEF taskVars, ItemConcluded
    <3>3. CASE tasks[t].status = "collecting_payment" /\ tasks' = [tasks EXCEPT ![t].status = "completed"]
      <4>1. /\ tasks'[t].status = "completed" /\ tasks'[t].captain = tasks[t].captain
            /\ tasks'[t].packaging = tasks[t].packaging /\ \A u \in Tasks \ {t} : tasks'[u] = tasks[u]
        BY <1>0, <1>3, <3>3, TaskWritten
      <4>2. \A u \in Tasks : SameMoney(u)
        BY <3>1, <4>1 DEF SameMoney, SameGoods, AssignedTo
      <4>3. Concludes(t) /\ \A u \in Tasks \ {t} : Stays(u)
        BY <3>1, <3>t, <3>3, <4>1, <4>2 DEF Concludes, Stays
      <4> QED
        BY <3>1, <4>3 DEF TasksMoved, TaskMoved, ItemConcluded
    <3> QED
      BY <2>6, <3>t, <3>2, <3>3 DEF NoticeAll
  <2>7. ASSUME NEW t \in Tasks, CloseTaskBills(t) \/ ClosingLost(t) PROVE TasksMoved
    BY <1>2, <2>7 DEF CloseTaskBills, ClosingLost
  <2> QED
    BY <1>5, <2>1, <2>2, <2>3, <2>4, <2>5, <2>6, <2>7 DEF CallStep
<1>6. CASE BillingStep
  BY <1>2, <1>6 DEF BillingStep
<1>7. CASE UNCHANGED errandVars
  BY <1>2, <1>7 DEF errandVars
<1> QED
  BY <1>4, <1>5, <1>6, <1>7, MovedByCaptain DEF ErrandNext
-----------------------------------------------------------------------------
(* What a step does to the bills.                                          *)

\* Bills stay, completed ones as completed ones, and only the cancellation of a task
\* closes one.
BillsMoved ==
  /\ RowsKept
  /\ \A p \in Payers : bills[p].status = "completed" => bills'[p].status = "completed"
  /\ \A t \in Tasks, u \in Users :
       bills'[<<t, u>>].status = "closed" => bills[<<t, u>>].status = "closed" \/ t \in closings

LEMMA BillsStep == OrderInv /\ CallsOK /\ [ErrandNext]_errandVars => OrderInv' /\ BillsMoved
<1> SUFFICES ASSUME OrderInv, CallsOK, [ErrandNext]_errandVars PROVE OrderInv' /\ BillsMoved
  OBVIOUS
<1>1. [OrderNext]_orderVars
  BY ErrandStepBills DEF KeepsBills
<1>2. OrderInv' /\ RowsKept
  <2>1. OrderInv' /\ (RowsKept \/ UNCHANGED orderVars)
    BY <1>1, OrderStepInv
  <2>2. UNCHANGED orderVars => RowsKept
    BY DEF orderVars, RowsKept, Exists
  <2> QED
    BY <2>1, <2>2
<1>3. BillInv
  BY DEF OrderInv
<1> DEFINE Fine == /\ \A p \in Payers : bills[p].status = "completed" => bills'[p].status = "completed"
                   /\ \A p \in Payers : bills'[p].status = "closed" => bills[p].status = "closed" \/ p[1] \in closings
<1>4. Fine => BillsMoved
  BY <1>2, ErrandAssumption DEF BillsMoved
<1> SUFFICES Fine
  BY <1>2, <1>4
<1>5. ASSUME bills' = bills PROVE Fine
  BY <1>5
<1>6. CASE BillingStep
  <2>1. ASSUME NEW p \in Payers, RowMoved(p) PROVE Fine
    <3>1. Status' = [Status EXCEPT ![p] = bills'[p].status] /\ <<Status[p], bills'[p].status>> \in UserMoves
      BY <1>3, <2>1, StatusMoved
    <3>2. \A q \in Payers : Status[q] = bills[q].status /\ Status'[q] = bills'[q].status
      BY DEF Status
    <3>3. \A q \in Payers \ {p} : Status'[q] = Status[q]
      BY <3>1
    <3> QED
      BY <3>1, <3>2, <3>3 DEF UserMoves
  <2>2. ASSUME UserStep(TRUE) PROVE Fine
    BY <1>3, <1>5, <2>1, <2>2, UserStepMoves
  <2>3. ASSUME NEW p \in Payers, NEW a, ~Exists(p), bills' = [bills EXCEPT ![p] = NewBill(a)]
        PROVE  Fine
    <3>1. Status' = [Status EXCEPT ![p] = "unpaid"]
      BY <1>3, <2>3, StatusOpened
    <3>2. \A q \in Payers : Status[q] = bills[q].status /\ Status'[q] = bills'[q].status
      BY DEF Status
    <3>3. Status[p] = "none" /\ Status'[p] = "unpaid" /\ \A q \in Payers \ {p} : Status'[q] = Status[q]
      BY <2>3, <3>1, <3>2 DEF Exists, Status
    <3> QED
      BY <3>2, <3>3
  <2>4. ASSUME NEW r \in creates, CreateFallback(r) \/ CreateReturn(r) PROVE Fine
    BY <1>5, <2>4 DEF CreateFallback, CreateReturn, billVars
  <2>5. ASSUME NEW r \in creates, CreateInsert(r) PROVE Fine
    <3>1. r.payer \in Payers
      BY DEF OrderInv, OrderTypeOK, CreateCall
    <3> QED
      BY <1>5, <2>3, <2>5, <3>1 DEF CreateInsert
  <2>6. ASSUME DirectBill PROVE Fine
    BY <2>3, <2>6, OrderBillingAssumption DEF DirectBill, CreateBill
  <2> HIDE DEF Fine
  <2> QED
    BY <1>6, <2>2, <2>4, <2>5, <2>6 DEF BillingStep
<1>7. ASSUME NEW t \in Tasks, CloseTaskBills(t) PROVE Fine
  <2>1. t \in closings /\ bills' = CloseBills({t} \X Users)
    BY <1>7 DEF CloseTaskBills, CancelBillBySource
  <2>2. Status' = [p \in Payers |-> IF p \in {t} \X Users /\ Status[p] \in {"unpaid", "submitted"}
                                    THEN "closed" ELSE Status[p]]
    BY <1>3, <2>1, StatusClosed
  <2>3. \A q \in Payers : Status[q] = bills[q].status /\ Status'[q] = bills'[q].status
    BY DEF Status
  <2>4. \A q \in Payers : \/ Status'[q] = Status[q]
                          \/ q[1] = t /\ Status[q] \in {"unpaid", "submitted"} /\ Status'[q] = "closed"
    BY <2>2
  <2> QED
    BY <2>1, <2>3, <2>4
<1> HIDE DEF Fine
<1>8. CASE BuyerStep
  BY <1>5, <1>8 DEF BuyerStep, Selections, CreateErrandDemand, UpdateErrandDemand, CancelErrandDemand, orderVars
<1>9. CASE CaptainStep
  <2>1. ASSUME NEW t, BeginCollecting(t) \/ TransitionToPendingDistributing(t) \/ TransitionToCompleted(t)
                      \/ CancelTask(t) \/ \E fee : TransitionToDistributing(t, fee)
        PROVE bills' = bills
    BY <2>1 DEF BeginCollecting, TransitionToPendingDistributing, TransitionToCompleted, CancelTask,
                TransitionToDistributing, orderVars
  <2>2. ASSUME NEW t, NEW p, NEW n, SaveShoppingTaskItem(t, p, n) \/ UpdateActualPrice(t, p, n) PROVE bills' = bills
    BY <2>2 DEF SaveShoppingTaskItem, UpdateActualPrice, orderVars
  <2>3. ASSUME NEW i, NEW n, SaveDistributingTaskAssignment(i, n) PROVE bills' = bills
    BY <2>3 DEF SaveDistributingTaskAssignment, orderVars
  <2>4. ASSUME NEW captain, NEW S, CreateTask(captain, S) PROVE bills' = bills
    BY <2>4 DEF CreateTask, orderVars
  <2> QED
    BY <1>5, <1>9, <2>1, <2>2, <2>3, <2>4 DEF CaptainStep, Selections
<1>10. CASE CallStep
  <2>1. ASSUME NEW c, AskBill(c) \/ BillAnswered(c) \/ EndCall(c) \/ CommitCollecting(c) \/ CompleteTaskWithoutBills(c)
        PROVE  bills' = bills
    BY <2>1 DEF AskBill, CreateLookup, BillAnswered, CreateReturn, EndCall, CommitCollecting,
                CompleteTaskWithoutBills, billVars, orderVars
  <2>2. ASSUME NEW n, NoticeRead(n) \/ NoticeWrite(n) \/ NoticeCount(n) \/ NoticeAll(n) \/ NoticeLost(n)
        PROVE  bills' = bills
    BY <2>2 DEF NoticeRead, NoticeWrite, NoticeCount, NoticeAll, NoticeLost, orderVars
  <2>3. ASSUME NEW t \in Tasks, ClosingLost(t) PROVE bills' = bills
    BY <2>3 DEF ClosingLost, orderVars
  <2> QED
    BY <1>5, <1>7, <1>10, <2>1, <2>2, <2>3 DEF CallStep
<1>11. CASE UNCHANGED errandVars
  BY <1>5, <1>11 DEF errandVars, orderVars
<1> QED
  BY <1>6, <1>8, <1>9, <1>10, <1>11 DEF ErrandNext
-----------------------------------------------------------------------------
(* What a step does to the running calls and notifications.                *)

\* A call begins with what the payers of its task owe, and goes on with an answer.
CallBegins(c) ==
  /\ c.task \in Tasks /\ tasks[c.task].status \in {"distributing", "collecting_payment", "completed"}
  /\ c.todo = DOMAIN c.drafts /\ DOMAIN c.drafts = PayersOf(c.task)
  /\ \A u \in PayersOf(c.task) : c.drafts[u] = Owed(c.task, u)

CallGoesOn(c, e) ==
  /\ e.task = c.task /\ e.drafts = c.drafts
  /\ \/ e.todo = c.todo
     \/ \E u \in c.todo : /\ e.todo = c.todo \ {u}
                          /\ Exists(<<c.task, u>>) /\ bills[<<c.task, u>>].amount = c.drafts[u]

CallsMoved ==
  \A e \in calls' : \/ e \in calls
                    \/ UNCHANGED <<bills, taskVars>> /\ (CallBegins(e) \/ \E c \in calls : CallGoesOn(c, e))

\* A notification begins with a confirmed bill, and goes on.
NoticeBegins(m) ==
  /\ m.stage = "read" /\ m.task \in Tasks /\ m.payer \in Users
  /\ bills'[<<m.task, m.payer>>].status = "completed"

NoticeGoesOn(n, m) ==
  /\ m.task = n.task /\ m.payer = n.payer /\ UNCHANGED <<bills, taskVars>>
  /\ \/ m.stage = "write" /\ tasks[n.task].status = "collecting_payment" /\ m.found = ItemsPaid(n)
     \/ m.stage = "count" /\ (n.stage = "write" \/ tasks[n.task].status = "completed")
     \/ m.stage = "all" /\ n.stage = "count" /\ AllPaid(n.task)

NoticesMoved ==
  \A m \in notices' : m \in notices \/ NoticeBegins(m) \/ \E n \in notices : NoticeGoesOn(n, m)

LEMMA CallsStep == OrderInv /\ CallsOK /\ [ErrandNext]_errandVars => CallsMoved
<1> SUFFICES ASSUME OrderInv, CallsOK, [ErrandNext]_errandVars PROVE CallsMoved
  OBVIOUS
<1>1. ASSUME calls' \subseteq calls PROVE CallsMoved
  BY <1>1 DEF CallsMoved
<1>2. ASSUME NEW t \in Tasks, BeginCollecting(t) PROVE CallsMoved
  <2> DEFINE P == PayersOf(t)
             drafts == [u \in P |-> Owed(t, u)]
             c == [task |-> t, drafts |-> drafts, todo |-> P, asked |-> FALSE]
  <2>1. /\ calls' = calls \cup {c} /\ UNCHANGED <<bills, taskVars>>
        /\ tasks[t].status \in {"distributing", "collecting_payment", "completed"}
    BY <1>2 DEF BeginCollecting, orderVars
  <2>2. DOMAIN drafts = P /\ \A u \in P : drafts[u] = Owed(t, u)
    OBVIOUS
  <2>3. P = PayersOf(t)
    OBVIOUS
  <2> HIDE DEF P, drafts
  <2>4. CallBegins(c)
    BY <2>1, <2>2, <2>3 DEF CallBegins
  <2> QED
    BY <2>1, <2>4 DEF CallsMoved
<1>3. ASSUME NEW c \in calls, AskBill(c) PROVE CallsMoved
  <2>1. c \in Call /\ c.todo \in SUBSET c.todo /\ TRUE \in BOOLEAN
    BY DEF CallsOK
  <2>2. CallGoesOn(c, [c EXCEPT !.asked = TRUE])
    BY <2>1, CallFields DEF CallGoesOn
  <2>3. calls' = (calls \ {c}) \cup {[c EXCEPT !.asked = TRUE]} /\ UNCHANGED <<bills, taskVars>>
    BY <1>3 DEF AskBill, CreateLookup, billVars
  <2> QED
    BY <2>2, <2>3 DEF CallsMoved
<1>4. ASSUME NEW c \in calls, BillAnswered(c) PROVE CallsMoved
  <2>u. PICK u : u = Min(c.todo)
    OBVIOUS
  <2>1. c \in Call /\ c.todo \ {u} \in SUBSET c.todo /\ FALSE \in BOOLEAN
    BY DEF CallsOK
  <2>2. /\ Exists(<<c.task, u>>) /\ bills[<<c.task, u>>].amount = c.drafts[u]
        /\ UNCHANGED <<bills, taskVars>>
    BY <1>4, <2>u DEF BillAnswered, CreateReturn, billVars, OrderInv, AnsweredBillMatches
  <2>3. u \in c.todo \/ c.todo \ {u} = c.todo
    OBVIOUS
  <2>4. CallGoesOn(c, [c EXCEPT !.todo = c.todo \ {u}, !.asked = FALSE])
    BY <2>1, <2>2, <2>3, CallFields DEF CallGoesOn
  <2>5. calls' = (calls \ {c}) \cup {[c EXCEPT !.todo = c.todo \ {u}, !.asked = FALSE]}
    BY <1>4, <2>u DEF BillAnswered
  <2> QED
    BY <2>2, <2>4, <2>5 DEF CallsMoved
<1>5. CASE BuyerStep
  BY <1>1, <1>5 DEF BuyerStep, Selections, CreateErrandDemand, UpdateErrandDemand, CancelErrandDemand, callVars
<1>6. CASE CaptainStep
  <2>1. ASSUME NEW t, TransitionToPendingDistributing(t) \/ TransitionToCompleted(t)
                      \/ CancelTask(t) \/ \E fee : TransitionToDistributing(t, fee)
        PROVE CallsMoved
    BY <1>1, <2>1 DEF TransitionToPendingDistributing, TransitionToCompleted, CancelTask,
                      TransitionToDistributing, callVars
  <2>2. ASSUME NEW t, NEW p, NEW n, SaveShoppingTaskItem(t, p, n) \/ UpdateActualPrice(t, p, n) PROVE CallsMoved
    BY <1>1, <2>2 DEF SaveShoppingTaskItem, UpdateActualPrice, callVars
  <2>3. ASSUME NEW i, NEW n, SaveDistributingTaskAssignment(i, n) PROVE CallsMoved
    BY <1>1, <2>3 DEF SaveDistributingTaskAssignment, callVars
  <2>4. ASSUME NEW captain, NEW S, CreateTask(captain, S) PROVE CallsMoved
    BY <1>1, <2>4 DEF CreateTask, callVars
  <2> QED
    BY <1>2, <1>6, <2>1, <2>2, <2>3, <2>4 DEF CaptainStep, Selections
<1>7. CASE CallStep
  <2>1. ASSUME NEW c, EndCall(c) \/ CommitCollecting(c) \/ CompleteTaskWithoutBills(c) PROVE CallsMoved
    BY <1>1, <2>1 DEF EndCall, CommitCollecting, CompleteTaskWithoutBills
  <2>2. ASSUME NEW n, NoticeRead(n) \/ NoticeWrite(n) \/ NoticeCount(n) \/ NoticeAll(n) \/ NoticeLost(n)
        PROVE  CallsMoved
    BY <1>1, <2>2 DEF NoticeRead, NoticeWrite, NoticeCount, NoticeAll, NoticeLost
  <2>3. ASSUME NEW t, CloseTaskBills(t) \/ ClosingLost(t) PROVE CallsMoved
    BY <1>1, <2>3 DEF CloseTaskBills, ClosingLost
  <2> QED
    BY <1>3, <1>4, <1>7, <2>1, <2>2, <2>3 DEF CallStep
<1>8. CASE BillingStep \/ UNCHANGED errandVars
  BY <1>1, <1>8 DEF BillingStep, errandVars, callVars
<1> QED
  BY <1>5, <1>6, <1>7, <1>8 DEF ErrandNext

LEMMA NoticesStep == MarketInv /\ [ErrandNext]_errandVars => NoticesMoved
<1> SUFFICES ASSUME MarketInv, [ErrandNext]_errandVars PROVE NoticesMoved
  OBVIOUS
<1>1. ASSUME notices' \subseteq notices PROVE NoticesMoved
  BY <1>1 DEF NoticesMoved
<1>2. notices \subseteq Notice
  BY DEF MarketInv, RowsInv
<1>3. ASSUME NEW n \in notices, NEW s \in {"read", "write", "count", "all"}, NEW F \in SUBSET Items,
             NoticeGoto(n, s, F), UNCHANGED <<bills, taskVars>>,
             \/ s = "write" /\ tasks[n.task].status = "collecting_payment" /\ F = ItemsPaid(n)
             \/ s = "count" /\ (n.stage = "write" \/ tasks[n.task].status = "completed")
             \/ s = "all" /\ n.stage = "count" /\ AllPaid(n.task)
      PROVE  NoticesMoved
  <2>1. PICK m \in Notice : /\ notices' = (notices \ {n}) \cup {m}
                            /\ m.stage = s /\ m.found = F /\ m.task = n.task /\ m.payer = n.payer
    BY <1>2, <1>3, NoticeMoved
  <2>2. NoticeGoesOn(n, m)
    BY <1>3, <2>1 DEF NoticeGoesOn
  <2> QED
    BY <2>1, <2>2 DEF NoticesMoved
<1>4. \A n : ItemsPaid(n) \in SUBSET Items
  BY DEF ItemsPaid, AssignedTo
<1>5. ASSUME NEW n \in notices, NoticeRead(n) PROVE NoticesMoved
  BY <1>1, <1>3, <1>4, <1>5 DEF NoticeRead, orderVars
<1>6. ASSUME NEW n \in notices, NoticeWrite(n) PROVE NoticesMoved
  BY <1>3, <1>6 DEF NoticeWrite, orderVars
<1>7. ASSUME NEW n \in notices, NoticeCount(n) PROVE NoticesMoved
  BY <1>1, <1>3, <1>7 DEF NoticeCount, orderVars
<1>8. ASSUME NEW n \in notices, NoticeAll(n) \/ NoticeLost(n) PROVE NoticesMoved
  BY <1>1, <1>8 DEF NoticeAll, NoticeLost
<1>9. CASE BuyerStep
  BY <1>1, <1>9 DEF BuyerStep, Selections, CreateErrandDemand, UpdateErrandDemand, CancelErrandDemand, callVars
<1>10. CASE CaptainStep
  <2>1. ASSUME NEW t, \/ TransitionToPendingDistributing(t) \/ TransitionToCompleted(t) \/ BeginCollecting(t)
                      \/ CancelTask(t) \/ \E fee : TransitionToDistributing(t, fee)
        PROVE NoticesMoved
    BY <1>1, <2>1 DEF TransitionToPendingDistributing, TransitionToCompleted, CancelTask, BeginCollecting,
                      TransitionToDistributing, callVars
  <2>2. ASSUME NEW t, NEW p, NEW n, SaveShoppingTaskItem(t, p, n) \/ UpdateActualPrice(t, p, n) PROVE NoticesMoved
    BY <1>1, <2>2 DEF SaveShoppingTaskItem, UpdateActualPrice, callVars
  <2>3. ASSUME NEW i, NEW n, SaveDistributingTaskAssignment(i, n) PROVE NoticesMoved
    BY <1>1, <2>3 DEF SaveDistributingTaskAssignment, callVars
  <2>4. ASSUME NEW captain, NEW S, CreateTask(captain, S) PROVE NoticesMoved
    BY <1>1, <2>4 DEF CreateTask, callVars
  <2> QED
    BY <1>10, <2>1, <2>2, <2>3, <2>4 DEF CaptainStep, Selections
<1>11. CASE CallStep
  <2>1. ASSUME NEW c, \/ AskBill(c) \/ BillAnswered(c) \/ EndCall(c) \/ CommitCollecting(c)
                      \/ CompleteTaskWithoutBills(c)
        PROVE NoticesMoved
    BY <1>1, <2>1 DEF AskBill, BillAnswered, EndCall, CommitCollecting, CompleteTaskWithoutBills
  <2>2. ASSUME NEW t, CloseTaskBills(t) \/ ClosingLost(t) PROVE NoticesMoved
    BY <1>1, <2>2 DEF CloseTaskBills, ClosingLost
  <2> QED
    BY <1>5, <1>6, <1>7, <1>8, <1>11, <2>1, <2>2 DEF CallStep
<1>12. CASE BillingStep
  <2>1. ASSUME NEW m \in notices', m \notin notices PROVE NoticeBegins(m)
    <3>1. PICK p \in Payers : /\ bills'[p].status = "completed"
                              /\ m = [stage |-> "read", task |-> p[1], payer |-> p[2], found |-> {}]
      BY <1>12, <2>1 DEF BillingStep
    <3>2. p[1] \in Tasks /\ p[2] \in Users /\ p = <<p[1], p[2]>>
      BY ErrandAssumption
    <3> QED
      BY <3>1, <3>2 DEF NoticeBegins
  <2> QED
    BY <2>1 DEF NoticesMoved
<1>13. CASE UNCHANGED errandVars
  BY <1>1, <1>13 DEF errandVars, callVars
<1> QED
  BY <1>9, <1>10, <1>11, <1>12, <1>13 DEF ErrandNext
-----------------------------------------------------------------------------
(* The money of a task.                                                    *)

\* The life of a task.
LEMMA TaskGoesOn ==
  ASSUME NEW t \in Tasks, TaskMoved(t)
  PROVE  /\ tasks[t].status = "cancelled" => tasks'[t].status = "cancelled"
         /\ tasks[t].status = "distributing" =>
              /\ tasks'[t].status \in {"distributing", "cancelled"} \cup PastDistribution
              /\ tasks'[t].status = "distributing" => (SameMoney(t) \/ Edited(t))
         /\ tasks[t].status \in PastDistribution =>
              \/ tasks'[t].status = "cancelled"
              \/ SameMoney(t) /\ tasks'[t].status \in PastDistribution
         /\ tasks[t].status \in PastDistribution \cup {"cancelled"} => tasks'[t].captain = tasks[t].captain
         /\ tasks'[t].status \in PastDistribution =>
              SameMoney(t) /\ (Collects(t) \/ tasks[t].status \in PastDistribution)
<1>1. SameMoney(t) => tasks'[t].captain = tasks[t].captain
  BY DEF SameMoney
<1>2. Collects(t) => /\ SameMoney(t)
                     /\ tasks[t].status = "distributing" /\ tasks'[t].status \in PastDistribution
  BY DEF Collects
<1>3. Distributes(t) => SameMoney(t) \/ Edited(t)
  BY DEF Distributes, SameMoney, SameGoods, Edited
<1> QED
  BY <1>1, <1>2, <1>3 DEF TaskMoved, Stays, Starts, Shops, Distributes, Concludes, Cancels, PastDistribution

LEMMA SameOwed ==
  ASSUME NEW t \in Tasks, SameMoney(t)
  PROVE  /\ Payable(t)' = Payable(t) /\ PayersOf(t)' = PayersOf(t)
         /\ \A u : Owed(t, u)' = Owed(t, u)
<1>1. /\ AssignedTo(t)' = AssignedTo(t) /\ taskItems'[t] = taskItems[t]
      /\ \A i \in AssignedTo(t) : assignments'[i].quantity = assignments[i].quantity
      /\ tasks'[t].captain = tasks[t].captain /\ tasks'[t].packaging = tasks[t].packaging
  BY DEF SameMoney, SameGoods
<1>2. Payable(t)' = Payable(t)
  BY <1>1 DEF Payable
<1>3. PayersOf(t)' = PayersOf(t)
  BY <1>2 DEF PayersOf
<1>4. ASSUME NEW u PROVE Owed(t, u)' = Owed(t, u)
  <2> DEFINE T == {j \in Payable(t) : j.requester = u}
             F == [i \in T |-> assignments[i].quantity * (i.fee +
                    (IF taskItems[t][i.product].price = Unset THEN 0 ELSE taskItems[t][i.product].price))]
             G == [i \in T |-> assignments'[i].quantity * (i.fee +
                    (IF taskItems'[t][i.product].price = Unset THEN 0 ELSE taskItems'[t][i.product].price))]
             share == CeilDivide(tasks[t].packaging, Cardinality(PayersOf(t)))
  <2>1. T \subseteq AssignedTo(t)
    BY DEF Payable
  <2>2. F = G
    BY <1>1, <2>1
  <2>3. Owed(t, u) = Total(F) + share
    BY DEF Owed
  <2>4. share' = share
    BY <1>1, <1>3
  <2>5. Owed(t, u)' =
          Total([i \in {j \in Payable(t)' : j.requester = u} |->
                   assignments'[i].quantity * (i.fee + (IF taskItems'[t][i.product].price = Unset THEN 0
                                                        ELSE taskItems'[t][i.product].price))])
          + share'
    BY DEF Owed
  <2>6. {j \in Payable(t)' : j.requester = u} = T
    BY <1>2
  <2>7. Owed(t, u)' = Total(G) + share'
    BY <2>5, <2>6
  <2> HIDE DEF F, G, share
  <2> QED
    BY <2>2, <2>3, <2>4, <2>7
<1> QED
  BY <1>2, <1>3, <1>4

\* A bill is closed only with its task, after the task was cancelled.
ClosedInv ==
  /\ \A t \in closings : t \in Tasks /\ tasks[t].status = "cancelled"
  /\ \A t \in Tasks, u \in Users : bills[<<t, u>>].status = "closed" => tasks[t].status = "cancelled"

\* What the payment service has answered to a running call still holds.
AnsweredOK(c) ==
  /\ tasks[c.task].status \in {"distributing", "cancelled"} \cup PastDistribution
  /\ \A u \in DOMAIN c.drafts \ c.todo :
       Exists(<<c.task, u>>) /\ bills[<<c.task, u>>].amount = c.drafts[u]

\* What a notification says: the payer has paid, and what it is about to write is the
\* payer's.
PaidOK(n) ==
  /\ bills[<<n.task, n.payer>>].status = "completed"
  /\ n.stage # "read" => tasks[n.task].status \in {"cancelled"} \cup PastDistribution
  /\ n.stage = "write" => \A i \in n.found : i.requester = n.payer

PaidInv == ClosedInv /\ (\A c \in calls : AnsweredOK(c)) /\ \A n \in notices : PaidOK(n)

\* Only a cancelled task has its bills closed.
ClosingsMoved ==
  \A t \in closings' : t \in closings \/ (t \in Tasks /\ tasks'[t].status = "cancelled")

\* All that a step does.
Moves == /\ MarketInv /\ MarketInv' /\ GoodsInv /\ OrderInv /\ CallsOK /\ CallsOK'
         /\ TasksMoved /\ BillsMoved /\ CallsMoved /\ NoticesMoved /\ ClosingsMoved
         /\ CompletedKept /\ Recorded

LEMMA PaidStep == Moves /\ PaidInv => PaidInv'
<1> SUFFICES ASSUME Moves, PaidInv PROVE PaidInv'
  OBVIOUS
<1>0. /\ \A t \in Tasks : TaskMoved(t)
      /\ \A p \in Payers : Exists(p) => Exists(p)' /\ bills'[p].amount = bills[p].amount
      /\ \A p \in Payers : bills[p].status = "completed" => bills'[p].status = "completed"
      /\ \A t \in Tasks, u \in Users : <<t, u>> \in Payers
  BY ErrandAssumption DEF Moves, TasksMoved, BillsMoved, RowsKept
<1>1. ClosedInv'
  <2>1. \A t \in closings' : t \in Tasks /\ tasks'[t].status = "cancelled"
    BY <1>0, TaskGoesOn DEF PaidInv, ClosedInv, Moves, ClosingsMoved
  <2>2. ASSUME NEW t \in Tasks, NEW u \in Users, bills'[<<t, u>>].status = "closed"
        PROVE  tasks'[t].status = "cancelled"
    <3>1. bills[<<t, u>>].status = "closed" \/ t \in closings
      BY <2>2 DEF Moves, BillsMoved
    <3>2. tasks[t].status = "cancelled"
      BY <3>1 DEF PaidInv, ClosedInv
    <3> QED
      BY <1>0, <3>2, TaskGoesOn
  <2> QED
    BY <2>1, <2>2 DEF ClosedInv
<1>2. ASSUME NEW e \in calls' PROVE AnsweredOK(e)'
  <2>1. e.task \in Tasks /\ DOMAIN e.drafts \subseteq Users
    BY DEF Moves, CallsOK, DraftOK
  <2>t. PICK t \in Tasks : t = e.task
    BY <2>1
  <2>2. /\ tasks[t].status \in {"distributing", "cancelled"} \cup PastDistribution
        /\ \A u \in DOMAIN e.drafts \ e.todo : Exists(<<t, u>>) /\ bills[<<t, u>>].amount = e.drafts[u]
    <3>1. CASE e \in calls
      BY <2>t, <3>1 DEF PaidInv, AnsweredOK
    <3>2. CASE CallBegins(e)
      BY <2>t, <3>2 DEF CallBegins, PastDistribution
    <3>3. ASSUME NEW c \in calls, CallGoesOn(c, e)
          PROVE  /\ tasks[t].status \in {"distributing", "cancelled"} \cup PastDistribution
                 /\ \A u \in DOMAIN e.drafts \ e.todo :
                      Exists(<<t, u>>) /\ bills[<<t, u>>].amount = e.drafts[u]
      <4>1. AnsweredOK(c) /\ t = c.task
        BY <2>t, <3>3 DEF PaidInv, CallGoesOn
      <4> QED
        BY <3>3, <4>1 DEF AnsweredOK, CallGoesOn
    <3> QED
      BY <3>1, <3>2, <3>3 DEF Moves, CallsMoved
  <2>3. tasks'[t].status \in {"distributing", "cancelled"} \cup PastDistribution
    BY <1>0, <2>2, TaskGoesOn
  <2>4. \A u \in DOMAIN e.drafts \ e.todo : Exists(<<t, u>>)' /\ bills'[<<t, u>>].amount = e.drafts[u]
    BY <1>0, <2>1, <2>2
  <2> QED
    BY <2>t, <2>3, <2>4 DEF AnsweredOK, PastDistribution
<1>3. ASSUME NEW m \in notices' PROVE PaidOK(m)'
  <2>1. m \in Notice
    BY DEF Moves, MarketInv, RowsInv
  <2>2. m.task \in Tasks /\ m.payer \in Users /\ m.found \subseteq Items
    BY <2>1 DEF Notice
  <2>t. PICK t \in Tasks : t = m.task
    BY <2>2
  <2>3. CASE m \in notices
    <3>1. PaidOK(m)
      BY <2>3 DEF PaidInv
    <3>2. bills'[<<t, m.payer>>].status = "completed"
      BY <1>0, <2>2, <2>t, <3>1 DEF PaidOK
    <3>3. m.stage # "read" => tasks'[t].status \in {"cancelled"} \cup PastDistribution
      BY <1>0, <2>t, <3>1, TaskGoesOn DEF PaidOK
    <3> QED
      BY <2>t, <3>1, <3>2, <3>3 DEF PaidOK, PastDistribution
  <2>4. CASE NoticeBegins(m)
    BY <2>4 DEF NoticeBegins, PaidOK
  <2>5. ASSUME NEW n \in notices, NoticeGoesOn(n, m) PROVE PaidOK(m)'
    <3>1. PaidOK(n) /\ m.task = n.task /\ m.payer = n.payer /\ UNCHANGED <<bills, tasks, assignments>>
      BY <2>5 DEF PaidInv, NoticeGoesOn, taskVars
    <3>2. CASE m.stage = "write" /\ tasks[n.task].status = "collecting_payment" /\ m.found = ItemsPaid(n)
      BY <3>1, <3>2 DEF PaidOK, PastDistribution, ItemsPaid, AssignedTo
    <3>3. CASE m.stage = "count" /\ (n.stage = "write" \/ tasks[n.task].status = "completed")
      BY <3>1, <3>3 DEF PaidOK, PastDistribution
    <3>4. CASE m.stage = "all" /\ n.stage = "count"
      BY <3>1, <3>4 DEF PaidOK, PastDistribution
    <3> QED
      BY <2>5, <3>2, <3>3, <3>4 DEF NoticeGoesOn
  <2> QED
    BY <2>3, <2>4, <2>5 DEF Moves, NoticesMoved
<1> QED
  BY <1>1, <1>2, <1>3 DEF PaidInv

\* Unless it was overtaken, a call that can still commit asks what is owed; and a task
\* is concluded when everybody has paid.
DraftsOK(c) ==
  tasks[c.task].status = "distributing" /\ c.task \notin overtaken =>
    /\ DOMAIN c.drafts = PayersOf(c.task)
    /\ \A u \in PayersOf(c.task) : c.drafts[u] = Owed(c.task, u)

AllPaidOK(n) ==
  n.stage = "all" => \/ tasks[n.task].status = "cancelled" \/ n.task \in overtaken
                     \/ \A u \in PayersOf(n.task) : bills[<<n.task, u>>].status = "completed"

TaskPaid(t) ==
  tasks[t].status = "completed" /\ t \notin overtaken =>
    \A u \in PayersOf(t) : bills[<<t, u>>].status = "completed"

MoneyInv ==
  /\ \A c \in calls : DraftsOK(c)
  /\ CollectedAsOwed
  /\ \A n \in notices : AllPaidOK(n)
  /\ \A t \in Tasks : TaskPaid(t)

LEMMA PayersAreUsers == \A t : PayersOf(t) \subseteq Users
BY ErrandAssumption DEF PayersOf, Payable, AssignedTo

LEMMA MoneyStep ==
  ASSUME Moves, PaidInv, MoneyInv PROVE MoneyInv'
<1>0. /\ \A t \in Tasks : TaskMoved(t)
      /\ \A p \in Payers : Exists(p) => Exists(p)' /\ bills'[p].amount = bills[p].amount
      /\ \A p \in Payers : bills[p].status = "completed" => bills'[p].status = "completed"
      /\ \A t \in Tasks, u \in Users : <<t, u>> \in Payers
  BY ErrandAssumption DEF Moves, TasksMoved, BillsMoved, RowsKept
<1>1. ASSUME NEW e \in calls' PROVE DraftsOK(e)'
  <2>1. e.task \in Tasks
    BY DEF Moves, CallsOK, DraftOK
  <2>t. PICK t \in Tasks : t = e.task
    BY <2>1
  <2>2. SUFFICES ASSUME tasks'[t].status = "distributing", t \notin overtaken'
                 PROVE  /\ DOMAIN e.drafts = PayersOf(t)'
                        /\ \A u \in PayersOf(t)' : e.drafts[u] = Owed(t, u)'
    BY <2>t DEF DraftsOK
  <2>c. t \notin overtaken /\ ~(Collecting(t) /\ Edited(t))
    BY <2>t, <2>2 DEF Moves, Recorded, Collecting
  <2>3. CASE e \in calls
    <3>1. AnsweredOK(e) /\ DraftsOK(e)
      BY <2>3 DEF PaidInv, MoneyInv
    <3>2. tasks[t].status = "distributing"
      BY <1>0, <2>t, <2>2, <3>1, TaskGoesOn DEF AnsweredOK, PastDistribution
    <3>3. ~Edited(t)
      BY <2>t, <2>3, <2>c DEF Collecting
    <3>4. SameMoney(t)
      BY <1>0, <2>2, <3>2, <3>3, TaskGoesOn
    <3> QED
      BY <2>t, <2>c, <3>1, <3>2, <3>4, SameOwed DEF DraftsOK
  <2>4. ASSUME UNCHANGED <<bills, taskVars>>, CallBegins(e)
        PROVE  /\ DOMAIN e.drafts = PayersOf(t)'
               /\ \A u \in PayersOf(t)' : e.drafts[u] = Owed(t, u)'
    <3>1. SameMoney(t)
      BY <2>4 DEF taskVars, SameMoney, SameGoods, AssignedTo
    <3> QED
      BY <2>t, <2>4, <3>1, SameOwed DEF CallBegins
  <2>5. ASSUME UNCHANGED <<bills, taskVars>>, NEW c \in calls, CallGoesOn(c, e)
        PROVE  /\ DOMAIN e.drafts = PayersOf(t)'
               /\ \A u \in PayersOf(t)' : e.drafts[u] = Owed(t, u)'
    <3>1. SameMoney(t) /\ tasks'[t].status = tasks[t].status
      BY <2>5 DEF taskVars, SameMoney, SameGoods, AssignedTo
    <3>2. DraftsOK(c) /\ c.task = t /\ c.drafts = e.drafts
      BY <2>t, <2>5 DEF MoneyInv, CallGoesOn
    <3> QED
      BY <2>2, <2>c, <3>1, <3>2, SameOwed DEF DraftsOK
  <2> QED
    BY <2>3, <2>4, <2>5 DEF Moves, CallsMoved
<1>2. ASSUME NEW t \in Tasks \ overtaken', tasks'[t].status \in PastDistribution
      PROVE  /\ \A i \in Payable(t)' : assignments'[i].billed
             /\ \A u \in PayersOf(t)' : Exists(<<t, u>>)' /\ bills'[<<t, u>>].amount = Owed(t, u)'
  <2>1. SameMoney(t) /\ (Collects(t) \/ tasks[t].status \in PastDistribution)
    BY <1>0, <1>2, TaskGoesOn
  <2>c. t \notin overtaken
    BY <1>2 DEF Moves, Recorded, PastDistribution
  <2>2. Payable(t)' = Payable(t) /\ PayersOf(t)' = PayersOf(t) /\ \A u : Owed(t, u)' = Owed(t, u)
    BY <2>1, SameOwed
  <2>3. \A i \in Payable(t) : i \in AssignedTo(t)
    BY DEF Payable
  <2>4. CASE tasks[t].status \in PastDistribution
    <3>1. /\ \A i \in Payable(t) : assignments[i].billed
          /\ \A u \in PayersOf(t) : Exists(<<t, u>>) /\ bills[<<t, u>>].amount = Owed(t, u)
      BY <2>4, <2>c DEF MoneyInv, CollectedAsOwed, PastDistribution
    <3>2. \A i \in Payable(t) : assignments'[i].billed
      BY <2>1, <2>3, <3>1 DEF SameMoney
    <3> QED
      BY <1>0, <2>2, <3>1, <3>2, PayersAreUsers
  <2>5. CASE Collects(t)
    <3>1. PICK c \in calls : /\ c.task = t /\ c.todo = {} /\ tasks[t].status = "distributing"
                             /\ \A i \in Bound(c) : assignments'[i].billed
      BY <2>5 DEF Collects
    <3>2. AnsweredOK(c) /\ DraftsOK(c)
      BY DEF PaidInv, MoneyInv
    <3>3. DOMAIN c.drafts = PayersOf(t) /\ \A u \in PayersOf(t) : c.drafts[u] = Owed(t, u)
      BY <2>c, <3>1, <3>2 DEF DraftsOK
    <3>4. \A u \in PayersOf(t) : Exists(<<t, u>>) /\ bills[<<t, u>>].amount = Owed(t, u)
      BY <3>1, <3>2, <3>3 DEF AnsweredOK
    <3>5. Payable(t) \subseteq Bound(c)
      BY <3>1, <3>3 DEF Payable, PayersOf, Bound
    <3> QED
      BY <1>0, <2>2, <3>1, <3>4, <3>5, PayersAreUsers
  <2> QED
    BY <2>1, <2>4, <2>5
<1>3. CollectedAsOwed'
  BY <1>2 DEF CollectedAsOwed, PastDistribution
<1>4. ASSUME NEW t \in Tasks \ overtaken', tasks'[t].status = "completed"
      PROVE  \A u \in PayersOf(t)' : bills'[<<t, u>>].status = "completed"
  <2>1. SameMoney(t) /\ PayersOf(t)' = PayersOf(t)
    BY <1>0, <1>4, TaskGoesOn, SameOwed DEF PastDistribution
  <2>2. SUFFICES ASSUME NEW u \in PayersOf(t) PROVE bills[<<t, u>>].status = "completed"
    BY <1>0, <2>1, PayersAreUsers
  <2>c. t \notin overtaken
    BY <1>4 DEF Moves, Recorded
  <2>3. CASE tasks[t].status = "completed"
    BY <2>3, <2>c DEF MoneyInv, TaskPaid
  <2>4. CASE Collects(t)
    <3>1. PICK c \in calls : c.task = t /\ tasks[t].status = "distributing" /\ DOMAIN c.drafts = {}
      BY <1>4, <2>4 DEF Collects
    <3>2. PayersOf(t) = {}
      BY <2>c, <3>1 DEF MoneyInv, DraftsOK
    <3> QED
      BY <3>2
  <2>5. CASE Concludes(t) /\ PaymentsCompleted(t)
    BY <2>5 DEF PaymentsCompleted, PayersOf
  <2>6. ASSUME tasks[t].status = "collecting_payment", NEW n \in notices, n.task = t, n.stage = "all"
        PROVE  bills[<<t, u>>].status = "completed"
    BY <2>6, <2>c DEF MoneyInv, AllPaidOK
  <2>7. tasks[t].status = "completed" \/ Collects(t) \/ Concludes(t)
    BY <1>0, <1>4 DEF TaskMoved, Stays, Starts, Shops, Distributes, Cancels
  <2> QED
    BY <2>3, <2>4, <2>5, <2>6, <2>7 DEF Concludes
<1>5. ASSUME NEW m \in notices' PROVE AllPaidOK(m)'
  <2>1. m.task \in Tasks
    BY DEF Moves, MarketInv, RowsInv, Notice
  <2>t. PICK t \in Tasks : t = m.task
    BY <2>1
  <2>2. SUFFICES ASSUME m.stage = "all", tasks'[t].status # "cancelled", t \notin overtaken'
                 PROVE  \A u \in PayersOf(t)' : bills'[<<t, u>>].status = "completed"
    BY <2>t DEF AllPaidOK
  <2>3. ASSUME tasks[t].status # "cancelled" => tasks[t].status \in PastDistribution,
               tasks[t].status # "cancelled" /\ t \notin overtaken => \A u \in PayersOf(t) : bills[<<t, u>>].status = "completed"
        PROVE  \A u \in PayersOf(t)' : bills'[<<t, u>>].status = "completed"
    <3>1. SameMoney(t) /\ tasks[t].status # "cancelled" /\ tasks'[t].status \in PastDistribution
      BY <1>0, <2>2, <2>3, TaskGoesOn
    <3>2. t \notin overtaken
      BY <2>2, <3>1 DEF Moves, Recorded, PastDistribution
    <3> QED
      BY <1>0, <2>3, <3>1, <3>2, SameOwed, PayersAreUsers
  <2>4. CASE m \in notices
    <3>1. AllPaidOK(m) /\ PaidOK(m)
      BY <2>4 DEF MoneyInv, PaidInv
    <3> QED
      BY <2>t, <2>2, <2>3, <3>1 DEF AllPaidOK, PaidOK
  <2>5. ASSUME NEW n \in notices, NoticeGoesOn(n, m)
        PROVE  \A u \in PayersOf(t)' : bills'[<<t, u>>].status = "completed"
    <3>1. n.stage = "count" /\ n.task = t /\ AllPaid(t)
      BY <2>t, <2>2, <2>5 DEF NoticeGoesOn
    <3>2. tasks[t].status \in {"cancelled"} \cup PastDistribution
      BY <3>1 DEF PaidInv, PaidOK
    <3>3. ASSUME tasks[t].status # "cancelled", t \notin overtaken, NEW u \in PayersOf(t) PROVE bills[<<t, u>>].status = "completed"
      <4>1. u \in Users
        BY PayersAreUsers
      <4>2. bills[<<t, u>>].status \in {"none", "closed", "completed"}
        BY <3>1, <4>1 DEF AllPaid
      <4>3. bills[<<t, u>>].status # "none"
        BY <3>2, <3>3 DEF MoneyInv, CollectedAsOwed, PastDistribution, Exists
      <4>4. bills[<<t, u>>].status # "closed"
        BY <3>3, <4>1 DEF PaidInv, ClosedInv
      <4> QED
        BY <4>2, <4>3, <4>4
    <3> QED
      BY <2>3, <3>2, <3>3
  <2> QED
    BY <2>2, <2>4, <2>5 DEF Moves, NoticesMoved, NoticeBegins
<1> QED
  BY <1>1, <1>3, <1>4, <1>5 DEF MoneyInv, TaskPaid

\* A completed item of a payer has been paid, if it was not the notice of another task
\* that completed it.
ItemPaid(i) ==
  LET t == assignments[i].task
  IN  i \notin strayed /\ items[i].status = "completed" /\ i \in Payable(t) =>
        bills[<<t, i.requester>>].status = "completed"

ItemsPaidInv == \A i \in Items : ItemPaid(i)

CompletedItemsInTasks ==
  \A i \in Items : items[i].status = "completed" =>
    /\ assignments[i].task \in Tasks
    /\ tasks[assignments[i].task].status \in {"collecting_payment", "completed", "cancelled"}

LEMMA CompletedItems == RowsInv /\ ItemsInv => CompletedItemsInTasks
BY CompletedItem DEF CompletedItemsInTasks

LEMMA ItemsPaidStep ==
  ASSUME Moves, PaidInv, ItemsPaidInv PROVE ItemsPaidInv'
<1>0. /\ RowsInv' /\ ItemsInv' /\ RowsInv /\ ItemsInv
      /\ \A t \in Tasks : TaskMoved(t)
      /\ \A j \in Items : ItemConcluded(j)
      /\ \A p \in Payers : bills[p].status = "completed" => bills'[p].status = "completed"
      /\ \A t \in Tasks, u \in Users : <<t, u>> \in Payers
  BY ErrandAssumption DEF Moves, MarketInv, TasksMoved, BillsMoved
<1> SUFFICES ASSUME NEW i \in Items PROVE ItemPaid(i)'
  BY DEF ItemsPaidInv
<1>1. SUFFICES ASSUME items'[i].status = "completed", i \in Payable(assignments[i].task)', i \notin strayed'
               PROVE  bills'[<<assignments'[i].task, i.requester>>].status = "completed"
  BY DEF ItemPaid
<1>t. PICK t : t = assignments'[i].task
  OBVIOUS
<1>2. i \in Payable(t)' /\ i.requester \in Users
  BY <1>1, <1>t, ErrandAssumption
<1>3. assignments' = assignments \/ items[i].status = "completed"
  BY <1>0, <1>1 DEF ItemConcluded
<1>4. assignments'[i] = assignments[i]
  BY <1>3 DEF Moves, CompletedKept
<1>5. t \in Tasks /\ tasks'[t].status \in {"collecting_payment", "completed", "cancelled"}
  <2>1. CompletedItemsInTasks'
    BY <1>0, CompletedItems, PTL
  <2> QED
    BY <1>1, <1>t, <2>1 DEF CompletedItemsInTasks
<1>6. i \in Payable(t)
  <2>1. tasks'[t].captain = tasks[t].captain
    BY <1>0, <1>5 DEF TaskMoved, Stays, Starts, Shops, Distributes, Collects, Concludes, Cancels, SameMoney
  <2> QED
    BY <1>t, <1>2, <1>4, <2>1 DEF Payable, AssignedTo
<1>7. SUFFICES bills[<<t, i.requester>>].status = "completed"
  BY <1>0, <1>t, <1>2, <1>5
<1>8. CASE items[i].status = "completed"
  BY <1>1, <1>t, <1>4, <1>6, <1>8 DEF ItemsPaidInv, ItemPaid, Moves, Recorded
<1>9. CASE PaymentsCompleted(t)
  BY <1>6, <1>9 DEF PaymentsCompleted
<1>10. ASSUME items[i].status # "completed", NEW n \in notices \ notices', n.stage = "write", i \in n.found
       PROVE  bills[<<t, i.requester>>].status = "completed"
  <2>1. PaidOK(n)
    BY DEF PaidInv
  <2>2. i.requester = n.payer
    BY <1>10, <2>1 DEF PaidOK
  <2>3. i \notin StraysNow
    BY <1>1 DEF Moves, Recorded
  <2>4. t = n.task
    BY <1>1, <1>t, <1>4, <1>10, <2>3 DEF StraysNow
  <2> QED
    BY <2>1, <2>2, <2>4 DEF PaidOK
<1> QED
  BY <1>0, <1>1, <1>t, <1>4, <1>8, <1>9, <1>10 DEF ItemConcluded
-----------------------------------------------------------------------------
(* The theorems about money.                                               *)

LEMMA ClosingsStep == MarketInv /\ [ErrandNext]_errandVars => ClosingsMoved
<1> SUFFICES ASSUME MarketInv, [ErrandNext]_errandVars PROVE ClosingsMoved
  OBVIOUS
<1>1. ASSUME closings' \subseteq closings PROVE ClosingsMoved
  BY <1>1 DEF ClosingsMoved
<1>2. ASSUME NEW t \in Tasks, CancelTask(t) PROVE ClosingsMoved
  <2>1. tasks'[t].status = "cancelled"
    BY <1>2, Cancelled DEF MarketInv
  <2> QED
    BY <1>2, <2>1 DEF CancelTask, ClosingsMoved
<1>3. CASE BuyerStep
  BY <1>1, <1>3 DEF BuyerStep, Selections, CreateErrandDemand, UpdateErrandDemand, CancelErrandDemand, callVars
<1>4. CASE CaptainStep
  <2>1. ASSUME NEW t, \/ TransitionToPendingDistributing(t) \/ TransitionToCompleted(t) \/ BeginCollecting(t)
                      \/ \E fee : TransitionToDistributing(t, fee)
        PROVE ClosingsMoved
    BY <1>1, <2>1 DEF TransitionToPendingDistributing, TransitionToCompleted, BeginCollecting,
                      TransitionToDistributing, callVars
  <2>2. ASSUME NEW t, NEW p, NEW n, SaveShoppingTaskItem(t, p, n) \/ UpdateActualPrice(t, p, n) PROVE ClosingsMoved
    BY <1>1, <2>2 DEF SaveShoppingTaskItem, UpdateActualPrice, callVars
  <2>3. ASSUME NEW i, NEW n, SaveDistributingTaskAssignment(i, n) PROVE ClosingsMoved
    BY <1>1, <2>3 DEF SaveDistributingTaskAssignment, callVars
  <2>4. ASSUME NEW captain, NEW S, CreateTask(captain, S) PROVE ClosingsMoved
    BY <1>1, <2>4 DEF CreateTask, callVars
  <2> QED
    BY <1>2, <1>4, <2>1, <2>2, <2>3, <2>4 DEF CaptainStep, Selections
<1>5. CASE CallStep
  <2>1. ASSUME NEW c, \/ AskBill(c) \/ BillAnswered(c) \/ EndCall(c) \/ CommitCollecting(c)
                      \/ CompleteTaskWithoutBills(c)
        PROVE ClosingsMoved
    BY <1>1, <2>1 DEF AskBill, BillAnswered, EndCall, CommitCollecting, CompleteTaskWithoutBills
  <2>2. ASSUME NEW n, NoticeRead(n) \/ NoticeWrite(n) \/ NoticeCount(n) \/ NoticeAll(n) \/ NoticeLost(n)
        PROVE  ClosingsMoved
    BY <1>1, <2>2 DEF NoticeRead, NoticeWrite, NoticeCount, NoticeAll, NoticeLost
  <2>3. ASSUME NEW t, CloseTaskBills(t) \/ ClosingLost(t) PROVE ClosingsMoved
    BY <1>1, <2>3 DEF CloseTaskBills, ClosingLost
  <2> QED
    BY <1>5, <2>1, <2>2, <2>3 DEF CallStep
<1>6. CASE BillingStep \/ UNCHANGED errandVars
  BY <1>1, <1>6 DEF BillingStep, errandVars, callVars
<1> QED
  BY <1>3, <1>4, <1>5, <1>6 DEF ErrandNext

\* What holds of every reachable state, whatever the captain does.
ErrandInv == MarketInv /\ GoodsInv /\ OrderInv /\ CallsOK /\ PaidInv

LEMMA ErrandStep == ErrandInv /\ [ErrandNext]_errandVars => ErrandInv' /\ Moves
<1> SUFFICES ASSUME ErrandInv, [ErrandNext]_errandVars PROVE ErrandInv' /\ Moves
  OBVIOUS
<1>1. MarketInv /\ GoodsInv /\ OrderInv /\ CallsOK /\ PaidInv /\ RowsInv
  BY DEF ErrandInv, MarketInv
<1>2. MarketInv' /\ GoodsInv' /\ OrderInv' /\ CallsOK'
  BY <1>1, MarketStep, GoodsStep, BillsStep, ErrandStepBills DEF KeepsBills
<1>3. TasksMoved /\ BillsMoved /\ CallsMoved /\ NoticesMoved /\ ClosingsMoved /\ CompletedKept
      /\ Recorded
  BY <1>1, MovedByStep, BillsStep, CallsStep, NoticesStep, ClosingsStep, CompletedStep, HistoryStep
<1>4. Moves
  BY <1>1, <1>2, <1>3 DEF Moves
<1> QED
  BY <1>1, <1>2, <1>4, PaidStep DEF ErrandInv

LEMMA ErrandStart == ErrandInit => ErrandInv /\ MoneyInv /\ ItemsPaidInv
<1> SUFFICES ASSUME ErrandInit PROVE ErrandInv /\ MoneyInv /\ ItemsPaidInv
  OBVIOUS
<1>1. MarketInv /\ GoodsInv /\ OrderInv /\ CallsOK
  BY MarketStart, GoodsStart, OrderInitInv DEF ErrandInit, CallsOK
<1>2. /\ calls = {} /\ notices = {} /\ closings = {}
      /\ \A t \in Tasks : tasks[t].status = "none"
      /\ \A i \in Items : items[i].status = "none"
      /\ \A t \in Tasks, u \in Users : bills[<<t, u>>].status = "none"
  BY ErrandAssumption DEF ErrandInit, OrderInit, NoBill
<1>3. PaidInv
  BY <1>2 DEF PaidInv, ClosedInv
<1>4. MoneyInv
  BY <1>2 DEF MoneyInv, CollectedAsOwed, TaskPaid
<1>5. ItemsPaidInv
  BY <1>2 DEF ItemsPaidInv, ItemPaid
<1> QED
  BY <1>1, <1>3, <1>4, <1>5 DEF ErrandInv

LEMMA ErrandInvariant == ErrandSpec => []ErrandInv
<1>1. ErrandInit => ErrandInv
  BY ErrandStart
<1>2. ErrandInv /\ [ErrandNext]_errandVars => ErrandInv'
  BY ErrandStep
<1> QED
  BY <1>1, <1>2, PTL DEF ErrandSpec

\* TransitionToCollectingPayment binds each buyer who got goods to a bill of exactly
\* what the final prices and quantities say, whatever earlier calls and the users
\* themselves have left in the payment service, and however calls and edits interleave:
\* but for a task whose prices or quantities were changed beside a call that then
\* commits.
THEOREM MoneyAsOwed == ErrandSpec => []CollectedAsOwed
<1>1. ErrandInit => ErrandInv /\ MoneyInv
  BY ErrandStart
<1>2. ErrandInv /\ MoneyInv /\ [ErrandNext]_errandVars => (ErrandInv /\ MoneyInv)'
  BY ErrandStep, MoneyStep DEF ErrandInv
<1>3. MoneyInv => CollectedAsOwed
  BY DEF MoneyInv
<1> QED
  BY <1>1, <1>2, <1>3, PTL DEF ErrandSpec

\* A bill of a task is closed only after the task was cancelled (CancelTask, and
\* CancelBillBySource behind its transaction), and what the payment service has
\* answered to a call that collects, or told a notification, still holds when it is
\* used: whatever captains do at the same time.
THEOREM AnswersStayTrue == ErrandSpec => []PaidInv
<1>1. ErrandInv => PaidInv
  BY DEF ErrandInv
<1> QED
  BY <1>1, ErrandInvariant, PTL

\* A task is completed, by its captain or by the callbacks of the payment service,
\* only when everybody who got goods has paid, also with notifications that outlive the
\* cancellation of a task; but for an overtaken task, as above.
THEOREM TaskPaidWhenCompleted == ErrandSpec => [](\A t \in Tasks : TaskPaid(t))
<1>1. ErrandInit => ErrandInv /\ MoneyInv
  BY ErrandStart
<1>2. ErrandInv /\ MoneyInv /\ [ErrandNext]_errandVars => (ErrandInv /\ MoneyInv)'
  BY ErrandStep, MoneyStep DEF ErrandInv
<1>3. MoneyInv => \A t \in Tasks : TaskPaid(t)
  BY DEF MoneyInv
<1> QED
  BY <1>1, <1>2, <1>3, PTL DEF ErrandSpec

\* A completed task, and a completed item of any task, has been paid by everybody who
\* got goods, whoever completed it: the captain or the callbacks of the payment
\* service, in any order and however late.  Left out are overtaken tasks and the items
\* that a notice has completed in another task than its own.
THEOREM PaidWhenCompleted == ErrandSpec => []CompletedIsPaid
<1>1. ErrandInit => ErrandInv /\ MoneyInv /\ ItemsPaidInv
  BY ErrandStart
<1>2. ErrandInv /\ MoneyInv /\ ItemsPaidInv /\ [ErrandNext]_errandVars => (ErrandInv /\ MoneyInv /\ ItemsPaidInv)'
  BY ErrandStep, MoneyStep, ItemsPaidStep DEF ErrandInv
<1>3. MoneyInv /\ ItemsPaidInv => CompletedIsPaid
  BY DEF MoneyInv, TaskPaid, ItemsPaidInv, ItemPaid, CompletedIsPaid
<1> QED
  BY <1>1, <1>2, <1>3, PTL DEF ErrandSpec
=============================================================================
