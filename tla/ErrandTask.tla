------------------------------ MODULE ErrandTask ------------------------------
(***************************************************************************)
(* Errand demands and tasks (errandservice) with their payment: buyers     *)
(* publish demands, a captain takes items of open demands into a task,     *)
(* buys, prices and distributes them and collects the money through bills  *)
(* of the payment service (OrderBilling), which calls back when a bill is  *)
(* confirmed.                                                              *)
(*                                                                         *)
(* Every handler but one is a transaction that locks the rows it decides   *)
(* on, hence one action.  TransitionToCollectingPayment opens the bills    *)
(* before its transaction: a running call is a record in calls.  The       *)
(* notification of a confirmed bill is a chain of calls between the two    *)
(* services: a record in notices.                                          *)
(*                                                                         *)
(* The bills of OrderBilling are indexed by task and payer: Payers is      *)
(* Tasks \X Users.  One store; a request for a stale version of a row is   *)
(* refused without effect and is left out.                                 *)
(***************************************************************************)
EXTENDS OrderBilling, Totals

CONSTANTS Items,        \* rows of errand_demand_item, each published at most once:
                        \* [id, requester, product, quantity, fee]
          Users,        \* buyers and captains
          Captains,     \* users who lead tasks
          Demands,      \* ids of errand_demand
          Tasks,        \* ids of errand_task
          Prices,       \* actual unit prices in cents
          PackagingFees,
          MaxCalls      \* bound: TransitionToCollectingPayment calls at one time

Products == {i.product : i \in Items}

ASSUME ErrandAssumption ==
  /\ SourceType = "errand_task"
  /\ Payers = Tasks \X Users
  /\ Users \subseteq Nat /\ Captains \subseteq Users /\ Captains # {}
  /\ IsFiniteSet(Items) /\ IsFiniteSet(Users)
  /\ IsFiniteSet(Demands) /\ Demands = 1..Cardinality(Demands)
  /\ IsFiniteSet(Tasks) /\ Tasks = 1..Cardinality(Tasks)
  /\ \A i \in Items : i.requester \in Users /\ i.quantity \in Nat \ {0} /\ i.fee \in Nat
  /\ Prices \subseteq Nat /\ PackagingFees \subseteq Nat
  /\ MaxCalls \in Nat

VARIABLES demands,      \* demands[d]: the row of errand_demand
          items,        \* items[i]: status and errand_demand_id of errand_demand_item
          tasks,        \* tasks[t]: the row of errand_task
          taskItems,    \* taskItems[t][p]: the row of errand_task_item
          assignments,  \* assignments[i]: the row of errand_task_assignment for item i
          calls,        \* running TransitionToCollectingPayment calls
          notices,      \* running notifyGroupTradePaymentConfirmed calls
          closings,     \* cancelled tasks whose bills are about to be cancelled
          overtaken,    \* history: tasks changed while a call opened their bills
          strayed       \* history: items completed by the notice of another task

demandVars == <<demands, items>>
taskVars == <<tasks, taskItems, assignments>>
callVars == <<calls, notices, closings>>
historyVars == <<overtaken, strayed>>
errandVars == <<orderVars, demandVars, taskVars, callVars, historyVars>>

Unset == -1             \* NULL in a quantity or price column
NoTask == 0

\* Statuses shared by a demand and its items; the item of an updated demand is
\* deleted.
DemandStatuses == {"none", "open", "shopping", "pending_distributing", "distributing",
                   "pending_payment", "completed", "cancelled"}

TaskStatuses == {"none", "shopping", "pending_distributing", "distributing",
                 "collecting_payment", "completed", "cancelled"}

DemandRow == [status : DemandStatuses, requester : Users, task : Tasks \cup {NoTask}]

ItemRow == [status : DemandStatuses \cup {"deleted"}, demand : Demands \cup {0}]

TaskRow == [status : TaskStatuses, captain : Captains, packaging : PackagingFees \cup {0}]

TaskItemRow == [required : Nat, purchased : Nat \cup {Unset}, price : Prices \cup {Unset}]

\* billed: payment_bill_id names the bill of the requester for the task.
Assignment == [task : Tasks \cup {NoTask}, quantity : Nat \cup {Unset}, billed : BOOLEAN]

\* drafts: the amount of each payer; todo: payers whose bill is not there yet.
Call == [task : Tasks, drafts : UNION {[P -> Amounts] : P \in SUBSET Users},
         todo : SUBSET Users, asked : BOOLEAN]

Notice == [stage : {"read", "write", "count", "all"}, task : Tasks, payer : Users,
           found : SUBSET Items]

-----------------------------------------------------------------------------
ItemsOf(d) == {i \in Items : items[i].demand = d}

AssignedTo(t) == {i \in Items : assignments[i].task = t}

DemandsOf(t) == {items[i].demand : i \in AssignedTo(t)}

\* UPDATE the demands (the items) of task t whose status is in From.
MoveDemands(t, From, to) ==
  [d \in Demands |-> IF d \in DemandsOf(t) /\ demands[d].status \in From
                     THEN [demands[d] EXCEPT !.status = to] ELSE demands[d]]

MoveItems(t, From, to) ==
  [i \in Items |-> IF i \in AssignedTo(t) /\ items[i].status \in From
                   THEN [items[i] EXCEPT !.status = to] ELSE items[i]]

\* The task and what hangs on it move on together.
Advance(t, from, to, demandFrom, demandTo) ==
  /\ tasks[t].status = from
  /\ tasks' = [tasks EXCEPT ![t].status = to]
  /\ demands' = MoveDemands(t, demandFrom, demandTo)
  /\ items' = MoveItems(t, demandFrom, demandTo)

\* Identity columns.
NextDemand == Cardinality({d \in Demands : demands[d].status # "none"}) + 1
NextTask == Cardinality({t \in Tasks : tasks[t].status # "none"}) + 1

-----------------------------------------------------------------------------
(* Buyers.                                                                 *)

\* The items of a request: new rows of one buyer, a product once.
Basket(S) ==
  /\ S # {} /\ \A i \in S : items[i].status = "none"
  /\ \A i, j \in S : i.requester = j.requester /\ (i.product = j.product => i = j)

Publish(d, S) ==
  [i \in Items |-> IF i \in S THEN [status |-> "open", demand |-> d]
                   ELSE IF items[i].demand = d THEN [status |-> "deleted", demand |-> 0]
                   ELSE items[i]]

CreateErrandDemand(S) ==
  /\ Basket(S)
  /\ NextDemand \in Demands
  /\ demands' = [demands EXCEPT ![NextDemand] =
       [status |-> "open", requester |-> (CHOOSE i \in S : TRUE).requester, task |-> NoTask]]
  /\ items' = Publish(NextDemand, S)
  /\ UNCHANGED <<orderVars, taskVars, callVars>>

\* The rows of an open demand are deleted and new ones inserted; a row that an
\* assignment refers to cannot be deleted.
UpdateErrandDemand(d, S) ==
  /\ Basket(S) /\ \A i \in S : i.requester = demands[d].requester
  /\ demands[d].status = "open"
  /\ \A i \in ItemsOf(d) : assignments[i].task = NoTask
  /\ items' = Publish(d, S)
  /\ UNCHANGED <<orderVars, demands, taskVars, callVars>>

CancelErrandDemand(d) ==
  /\ demands[d].status = "open"
  /\ demands' = [demands EXCEPT ![d].status = "cancelled"]
  /\ items' = [i \in Items |-> IF i \in ItemsOf(d) /\ items[i].status = "open"
                               THEN [items[i] EXCEPT !.status = "cancelled"] ELSE items[i]]
  /\ UNCHANGED <<orderVars, taskVars, callVars>>

-----------------------------------------------------------------------------
(* The captain, up to the distribution.                                    *)

\* Items that CreateTask accepts; an item is assigned at most once (unique index).
Selectable(S) ==
  /\ S # {}
  /\ \A i \in S : /\ items[i].status = "open"
                  /\ demands[items[i].demand].status = "open"
                  /\ assignments[i].task = NoTask

\* Mutant of Split: the query for unselected items filters on a wrong status.
SplitShopping(S) ==
  {d \in {items[i].demand : i \in S} :
     \E i \in ItemsOf(d) \ S : items[i].status = "shopping"}

\* Demands of which only a part is selected; LoadDemandIDsWithUnselectedItems
\* looks at every other item, whatever its status.
Split(S) == {d \in {items[i].demand : i \in S} : ItemsOf(d) \ S # {}}

\* The selected part of such a demand goes to a new demand.
SplitInto(S, d) == NextDemand + Cardinality({e \in Split(S) : e < d})

CreateTask(captain, S) ==
  /\ Selectable(S)
  /\ NextTask \in Tasks
  /\ \A d \in Split(S) : SplitInto(S, d) \in Demands
  /\ LET t == NextTask
         shopping(d) == [status |-> "shopping", requester |-> demands[d].requester, task |-> t]
         bought(p) == {i \in S : i.product = p}
     IN  /\ tasks' = [tasks EXCEPT ![t] =
              [status |-> "shopping", captain |-> captain, packaging |-> 0]]
         /\ taskItems' = [taskItems EXCEPT ![t] = [p \in Products |->
              [required |-> Total([i \in bought(p) |-> i.quantity]),
               purchased |-> Unset, price |-> Unset]]]
         /\ assignments' = [i \in Items |-> IF i \in S
              THEN [task |-> t, quantity |-> Unset, billed |-> FALSE] ELSE assignments[i]]
         /\ demands' = [d \in Demands |->
              IF \E e \in Split(S) : SplitInto(S, e) = d
              THEN shopping(CHOOSE e \in Split(S) : SplitInto(S, e) = d)
              ELSE IF d \notin Split(S) /\ \E i \in S : items[i].demand = d
              THEN shopping(d) ELSE demands[d]]
         /\ items' = [i \in Items |-> IF i \notin S THEN items[i]
              ELSE [status |-> "shopping",
                    demand |-> IF items[i].demand \in Split(S)
                               THEN SplitInto(S, items[i].demand) ELSE items[i].demand]]
  /\ UNCHANGED <<orderVars, callVars>>

\* Products on the shopping list of the task.
Listed(t) == {p \in Products : taskItems[t][p].required > 0}

\* Quantity Unset takes the decision back.
SaveShoppingTaskItem(t, p, n) ==
  /\ tasks[t].status = "shopping"
  /\ p \in Listed(t) /\ n \in {Unset} \cup 0..taskItems[t][p].required
  /\ taskItems' = [taskItems EXCEPT ![t][p].purchased = n]
  /\ UNCHANGED <<orderVars, demandVars, tasks, assignments, callVars>>

Handled(t) == \A p \in Listed(t) : taskItems[t][p].purchased # Unset

Priced(t) ==
  \A p \in Listed(t) : taskItems[t][p].purchased > 0 => taskItems[t][p].price # Unset

TransitionToPendingDistributing(t) ==
  /\ Handled(t)
  /\ Advance(t, "shopping", "pending_distributing", {"shopping"}, "pending_distributing")
  /\ UNCHANGED <<orderVars, taskItems, assignments, callVars>>

UpdateActualPrice(t, p, price) ==
  /\ tasks[t].status \in {"pending_distributing", "distributing"}
  /\ p \in Listed(t) /\ taskItems[t][p].purchased # Unset
  /\ taskItems[t][p].purchased = 0 => price = 0
  /\ taskItems' = [taskItems EXCEPT ![t][p].price = price]
  /\ UNCHANGED <<orderVars, demandVars, tasks, assignments, callVars>>

TransitionToDistributing(t, fee) ==
  /\ tasks[t].status = "pending_distributing"
  /\ Handled(t) /\ Priced(t)
  /\ tasks' = [tasks EXCEPT ![t].status = "distributing", ![t].packaging = fee]
  /\ demands' = MoveDemands(t, {"pending_distributing"}, "distributing")
  /\ items' = MoveItems(t, {"pending_distributing"}, "distributing")
  /\ UNCHANGED <<orderVars, taskItems, assignments, callVars>>

\* SUM(distributed_quantity) over the assignments of a task item except one,
\* NULL counting as 0.
Distributed(t, p, S) ==
  Total([i \in {j \in AssignedTo(t) \ S : j.product = p} |->
           IF assignments[i].quantity = Unset THEN 0 ELSE assignments[i].quantity])

\* The new quantity of item i fits its demand and what was purchased.
Fits(i, n) ==
  LET t == assignments[i].task
  IN  /\ n <= i.quantity
      /\ Distributed(t, i.product, {i}) + n <= taskItems[t][i.product].purchased

SaveDistributingTaskAssignment(i, n) ==
  /\ assignments[i].task # NoTask
  /\ tasks[assignments[i].task].status = "distributing"
  /\ taskItems[assignments[i].task][i.product].purchased # Unset
  /\ n = Unset \/ Fits(i, n)
  /\ assignments' = [assignments EXCEPT ![i].quantity = n]
  /\ UNCHANGED <<orderVars, demandVars, tasks, taskItems, callVars>>

-----------------------------------------------------------------------------
(* TransitionToCollectingPayment.                                          *)

\* ceilDivide
CeilDivide(value, divisor) ==
  IF value <= 0 \/ divisor <= 0 THEN 0 ELSE 1 + (value - 1) \div divisor

\* Assignments that somebody else than the captain has to pay.
Payable(t) ==
  {i \in AssignedTo(t) : assignments[i].quantity > 0 /\ i.requester # tasks[t].captain}

PayersOf(t) == {i.requester : i \in Payable(t)}

\* buildTaskPaymentBillDrafts: goods, service fees and an equal share of packaging.
Owed(t, u) ==
  Total([i \in {j \in Payable(t) : j.requester = u} |->
           assignments[i].quantity * (i.fee + (IF taskItems[t][i.product].price = Unset THEN 0
                                               ELSE taskItems[t][i.product].price))])
  + CeilDivide(tasks[t].packaging, Cardinality(PayersOf(t)))

\* createPaymentBillsViaRPC reads the assignments, whatever the status of the
\* task.  Other statuses than these are left out: before the distribution there is
\* nothing to bill, and a cancelled task keeps what has a completed bill.
BeginCollecting(t) ==
  /\ tasks[t].status \in {"distributing", "collecting_payment", "completed"}
  /\ Cardinality(calls) < MaxCalls
  /\ \A u \in PayersOf(t) : Owed(t, u) \in Amounts
  /\ calls' = calls \cup {[task |-> t, drafts |-> [u \in PayersOf(t) |-> Owed(t, u)],
                           todo |-> PayersOf(t), asked |-> FALSE]}
  /\ UNCHANGED <<orderVars, demandVars, taskVars, notices, closings>>

\* CreateBillForOrder for the next payer.
AskBill(c) ==
  /\ c.todo # {} /\ ~c.asked
  /\ CreateLookup(<<c.task, Min(c.todo)>>, c.drafts[Min(c.todo)])
  /\ calls' = (calls \ {c}) \cup {[c EXCEPT !.asked = TRUE]}
  /\ UNCHANGED <<demandVars, taskVars, notices, closings>>

BillAnswered(c) ==
  /\ c.asked
  /\ \E r \in creates : /\ r.payer = <<c.task, Min(c.todo)>> /\ r.amount = c.drafts[Min(c.todo)]
                        /\ r.stage = "ok" /\ CreateReturn(r)
  /\ calls' = (calls \ {c}) \cup {[c EXCEPT !.todo = @ \ {Min(c.todo)}, !.asked = FALSE]}
  /\ UNCHANGED <<demandVars, taskVars, notices, closings>>

\* A refusal, a failure or the end of the process; bills and calls to the payment
\* service stay.
EndCall(c) ==
  /\ calls' = calls \ {c}
  /\ UNCHANGED <<orderVars, demandVars, taskVars, notices, closings>>

\* Mutant of DistributionCompleted: assignments may be left undecided.
DistributionDecided(t) == Handled(t) /\ Priced(t)

\* ensureTaskDistributionCompleted
DistributionCompleted(t) ==
  /\ Handled(t) /\ Priced(t)
  /\ \A i \in AssignedTo(t) : assignments[i].quantity # Unset
  /\ \A p \in Listed(t) : Distributed(t, p, {}) = taskItems[t][p].purchased

\* transitionToCollectingPaymentTx: binding finds an assignment for every payer.
CommitCollecting(c) ==
  /\ c.todo = {} /\ DOMAIN c.drafts # {}
  /\ DistributionCompleted(c.task)
  /\ \A u \in DOMAIN c.drafts :
       \E i \in AssignedTo(c.task) : i.requester = u /\ assignments[i].quantity > 0
  /\ Advance(c.task, "distributing", "collecting_payment", {"distributing"}, "pending_payment")
  /\ assignments' = [i \in Items |->
       IF i \in AssignedTo(c.task) /\ i.requester \in DOMAIN c.drafts
            /\ assignments[i].quantity > 0
       THEN [assignments[i] EXCEPT !.billed = TRUE] ELSE assignments[i]]
  /\ calls' = calls \ {c}
  /\ UNCHANGED <<orderVars, taskItems, notices, closings>>

\* completeTaskWithoutBills: the task skips a status, and the two UPDATEs of its
\* demands and items, made for pending payments, match none of them.
CompleteTaskWithoutBills(c) ==
  /\ DOMAIN c.drafts = {}
  /\ DistributionCompleted(c.task)
  /\ Advance(c.task, "distributing", "completed", {"pending_payment", "completed"}, "completed")
  /\ calls' = calls \ {c}
  /\ UNCHANGED <<orderVars, taskItems, assignments, notices, closings>>

-----------------------------------------------------------------------------
(* Payment: confirmations and their notification, completion.              *)

\* What the payment service does on its own: user requests, the public CreateBill,
\* and creation calls going on.  A confirmation that succeeds starts a notification.
BillingStep ==
  /\ \/ UserStep(TRUE) /\ UNCHANGED creates
     \/ DirectBill
     \/ \E r \in creates : CreateInsert(r) \/ CreateFallback(r) \/ CreateReturn(r)
  /\ notices' = notices \cup
       {[stage |-> "read", task |-> p[1], payer |-> p[2], found |-> {}] :
          p \in {q \in Payers : /\ bills[q].status # "completed"
                                /\ bills'[q].status = "completed"}}
  /\ UNCHANGED <<demandVars, taskVars, calls, closings>>

NoticeGoto(n, stage, found) ==
  notices' = (notices \ {n}) \cup {[n EXCEPT !.stage = stage, !.found = found]}

\* Mutant of ItemsPaid: one payment stands for the whole task.
ItemsPaidWholeTask(n) == AssignedTo(n.task)

\* GetAssignmentsByTaskAndPurchaser
ItemsPaid(n) == {i \in AssignedTo(n.task) : i.requester = n.payer}

\* OnErrandTaskPaymentConfirmed reads the task, without a lock, and the payer's
\* assignments.  A completed task is left alone; any other status is an error,
\* and with it the notification ends.
NoticeRead(n) ==
  /\ n.stage = "read"
  /\ CASE tasks[n.task].status = "completed" -> NoticeGoto(n, "count", {})
       [] tasks[n.task].status = "collecting_payment" /\ ItemsPaid(n) # {}
            -> NoticeGoto(n, "write", ItemsPaid(n))
       [] OTHER -> notices' = notices \ {n}
  /\ UNCHANGED <<orderVars, demandVars, taskVars, calls, closings>>

\* Its two UPDATEs, by the ids that were read.
NoticeWrite(n) ==
  /\ n.stage = "write"
  /\ items' = [i \in Items |-> IF i \in n.found /\ items[i].status = "pending_payment"
                               THEN [items[i] EXCEPT !.status = "completed"] ELSE items[i]]
  /\ demands' = [d \in Demands |->
       IF /\ demands[d].status = "pending_payment"
          /\ \E i \in n.found : items[i].demand = d
          /\ \A i \in ItemsOf(d) : items'[i].status = "completed"
       THEN [demands[d] EXCEPT !.status = "completed"] ELSE demands[d]]
  /\ NoticeGoto(n, "count", {})
  /\ UNCHANGED <<orderVars, taskVars, calls, closings>>

\* CountIncompleteBillsBySource is 0.
AllPaid(t) == \A u \in Users : bills[<<t, u>>].status \in {"none", "closed", "completed"}

NoticeCount(n) ==
  /\ n.stage = "count"
  /\ IF AllPaid(n.task) THEN NoticeGoto(n, "all", {}) ELSE notices' = notices \ {n}
  /\ UNCHANGED <<orderVars, demandVars, taskVars, calls, closings>>

\* OnErrandTaskAllPaymentsConfirmed: UPDATE ... WHERE status = 'collecting_payment'.
NoticeAll(n) ==
  /\ n.stage = "all"
  /\ tasks' = IF tasks[n.task].status = "collecting_payment"
              THEN [tasks EXCEPT ![n.task].status = "completed"] ELSE tasks
  /\ notices' = notices \ {n}
  /\ UNCHANGED <<orderVars, demandVars, taskItems, assignments, calls, closings>>

\* An error is logged and nothing is tried again.
NoticeLost(n) ==
  /\ notices' = notices \ {n}
  /\ UNCHANGED <<orderVars, demandVars, taskVars, calls, closings>>

\* ensureTaskPaymentsCompleted
PaymentsCompleted(t) ==
  \A i \in Payable(t) : assignments[i].billed /\ bills[<<t, i.requester>>].status = "completed"

TransitionToCompleted(t) ==
  /\ PaymentsCompleted(t)
  /\ Advance(t, "collecting_payment", "completed", {"pending_payment", "completed"}, "completed")
  /\ UNCHANGED <<orderVars, taskItems, assignments, callVars>>

-----------------------------------------------------------------------------
(* CancelTask.                                                             *)

\* Mutants of Reopened: everything the task had is reopened; only what is still
\* being bought is.
ReopenedAll(t) == AssignedTo(t)

ReopenedShopping(t) == {i \in AssignedTo(t) : items[i].status = "shopping"}

\* Items that go back to the market; what was paid stays.
Reopened(t) == {i \in AssignedTo(t) : items[i].status \notin {"completed", "cancelled"}}

\* The assignments of the reopened items are deleted.  After the transaction, and
\* only if money was being collected, the bills are cancelled.
CancelTask(t) ==
  /\ tasks[t].status \notin {"none", "completed", "cancelled"}
  /\ tasks' = [tasks EXCEPT ![t].status = "cancelled"]
  /\ demands' = [d \in Demands |->
       IF d \in DemandsOf(t) /\ demands[d].status \notin {"completed", "cancelled"}
       THEN [demands[d] EXCEPT !.status = "open", !.task = NoTask] ELSE demands[d]]
  /\ items' = [i \in Items |-> IF i \in Reopened(t)
                               THEN [items[i] EXCEPT !.status = "open"] ELSE items[i]]
  /\ assignments' = [i \in Items |-> IF i \in Reopened(t)
       THEN [task |-> NoTask, quantity |-> Unset, billed |-> FALSE] ELSE assignments[i]]
  /\ closings' = IF tasks[t].status = "collecting_payment" THEN closings \cup {t} ELSE closings
  /\ UNCHANGED <<orderVars, taskItems, calls, notices>>

CloseTaskBills(t) ==
  /\ t \in closings
  /\ CancelBillBySource({t} \X Users)
  /\ closings' = closings \ {t}
  /\ UNCHANGED <<demandVars, taskVars, calls, notices>>

\* The call fails or the process ends; a retry of CancelTask is refused.
ClosingLost(t) ==
  /\ t \in closings
  /\ closings' = closings \ {t}
  /\ UNCHANGED <<orderVars, demandVars, taskVars, calls, notices>>

-----------------------------------------------------------------------------
SomeUser == CHOOSE u \in Captains : TRUE

ErrandInit ==
  /\ OrderInit
  /\ demands = [d \in Demands |-> [status |-> "none", requester |-> SomeUser, task |-> NoTask]]
  /\ items = [i \in Items |-> [status |-> "none", demand |-> 0]]
  /\ tasks = [t \in Tasks |-> [status |-> "none", captain |-> SomeUser, packaging |-> 0]]
  /\ taskItems = [t \in Tasks |-> [p \in Products |->
                    [required |-> 0, purchased |-> Unset, price |-> Unset]]]
  /\ assignments = [i \in Items |-> [task |-> NoTask, quantity |-> Unset, billed |-> FALSE]]
  /\ calls = {} /\ notices = {} /\ closings = {}
  /\ overtaken = {} /\ strayed = {}

\* What a request may name: any items, at least one.
Selections == (SUBSET Items) \ {{}}

BuyerStep ==
  \/ \E S \in Selections :
       \/ CreateErrandDemand(S)
       \/ \E d \in Demands : UpdateErrandDemand(d, S)
  \/ \E d \in Demands : CancelErrandDemand(d)

CaptainStep ==
  \/ \E captain \in Captains, S \in Selections : CreateTask(captain, S)
  \/ \E t \in Tasks, p \in Products :
       \/ \E n \in {Unset} \cup 0..taskItems[t][p].required : SaveShoppingTaskItem(t, p, n)
       \/ \E price \in Prices : UpdateActualPrice(t, p, price)
  \/ \E t \in Tasks :
       \/ TransitionToPendingDistributing(t)
       \/ \E fee \in PackagingFees : TransitionToDistributing(t, fee)
       \/ BeginCollecting(t) \/ TransitionToCompleted(t) \/ CancelTask(t)
  \/ \E i \in Items : \E n \in {Unset} \cup 0..i.quantity : SaveDistributingTaskAssignment(i, n)

CallStep ==
  \/ \E c \in calls : \/ AskBill(c) \/ BillAnswered(c) \/ EndCall(c)
                      \/ CommitCollecting(c) \/ CompleteTaskWithoutBills(c)
  \/ \E n \in notices : \/ NoticeRead(n) \/ NoticeWrite(n) \/ NoticeCount(n)
                        \/ NoticeAll(n) \/ NoticeLost(n)
  \/ \E t \in Tasks : CloseTaskBills(t) \/ ClosingLost(t)

(* What the properties need to know of the past; no action depends on it.  *)

\* A call that opens bills, or has opened them, for task t runs.
Collecting(t) == \E c \in calls : c.task = t

\* The step changes a price or a quantity of a task in distribution.
Edited(t) ==
  /\ tasks[t].status = "distributing"
  /\ \/ taskItems'[t] # taskItems[t]
     \/ \E i \in AssignedTo(t) : assignments'[i].quantity # assignments[i].quantity

\* From an edit beside a running call on: until no call is left that could commit
\* what it had computed before, or, if one did commit, as long as the task lasts.
Overtaken ==
  {t \in Tasks : /\ t \in overtaken \/ (Collecting(t) /\ Edited(t))
                 /\ \/ tasks'[t].status = "distributing" /\ Collecting(t)'
                    \/ tasks'[t].status \in {"collecting_payment", "completed"}}

\* A notice completes an item that is in another task than when it was read.
StraysNow ==
  {i \in Items : /\ items[i].status # "completed" /\ items'[i].status = "completed"
                 /\ \E n \in notices \ notices' : /\ n.stage = "write" /\ i \in n.found
                                                  /\ n.task # assignments[i].task}

History == overtaken' = Overtaken /\ strayed' = strayed \cup StraysNow

ErrandNext == (BuyerStep \/ CaptainStep \/ CallStep \/ BillingStep) /\ History

ErrandSpec == ErrandInit /\ [][ErrandNext]_errandVars

-----------------------------------------------------------------------------
ErrandTypeOK ==
  /\ OrderTypeOK
  /\ demands \in [Demands -> DemandRow]
  /\ items \in [Items -> ItemRow]
  /\ tasks \in [Tasks -> TaskRow]
  /\ taskItems \in [Tasks -> [Products -> TaskItemRow]]
  /\ assignments \in [Items -> Assignment]
  /\ calls \subseteq Call
  /\ notices \subseteq Notice
  /\ closings \subseteq Tasks
  /\ overtaken \subseteq Tasks
  /\ strayed \subseteq Items

\* What the status of a task says of its demands and items.  A completed task may
\* have left some behind; what a cancelled one still has was paid.
Following(status) ==
  CASE status = "collecting_payment" -> {"pending_payment", "completed"}
    [] status = "completed" -> {"distributing", "pending_payment", "completed"}
    [] status = "cancelled" -> {"completed"}
    [] OTHER -> {status}

\* Through splits, transitions, confirmations and cancellations an assigned item,
\* its demand and its task agree: the demand belongs to the same task, and both
\* have a status that goes with the task's.
ItemsFollowTask ==
  \A i \in Items : LET t == assignments[i].task  d == items[i].demand
                   IN  t # NoTask => /\ d \in Demands /\ demands[d].task = t
                                     /\ items[i].status \in Following(tasks[t].status)
                                     /\ demands[d].status \in Following(tasks[t].status)

\* A demand is on the market as a whole or in one task as a whole, never both: all
\* items of an open demand can be taken (or rewritten, see UpdateErrandDemand), and
\* those of a demand in a task are assigned in that task.
DemandInOnePlace ==
  \A d \in Demands : \A i \in ItemsOf(d) :
    /\ i.requester = demands[d].requester
    /\ demands[d].status = "open" => items[i].status = "open" /\ assignments[i].task = NoTask
    /\ demands[d].status \notin {"open", "cancelled"} => assignments[i].task = demands[d].task

\* When money is collected, what was purchased is what was distributed, nobody got
\* more than they asked for, and the shopping list was the sum of the demands.
DistributionAddsUp ==
  \A t \in Tasks : tasks[t].status \in {"collecting_payment", "completed"} =>
    \A p \in Listed(t) :
      /\ Distributed(t, p, {}) = taskItems[t][p].purchased
      /\ taskItems[t][p].required =
           Total([i \in {j \in AssignedTo(t) : j.product = p} |-> i.quantity])
      /\ \A i \in AssignedTo(t) : assignments[i].quantity \in 0..i.quantity

\* The money that is collected is the money that is owed: each buyer who got goods is
\* bound to a bill of exactly what the final prices and quantities say, whatever
\* earlier attempts at the transition, or users who create bills themselves, have left
\* in the payment service.  Not so for an overtaken task: a price or a quantity changed
\* between the computation of the amounts and the transaction, which looks at the
\* updated_at of the task only, is not noticed.
CollectedAsOwed ==
  \A t \in Tasks \ overtaken : tasks[t].status \in {"collecting_payment", "completed"} =>
    /\ \A i \in Payable(t) : assignments[i].billed
    /\ \A u \in PayersOf(t) : Exists(<<t, u>>) /\ bills[<<t, u>>].amount = Owed(t, u)

\* What counts as completed has been paid by everybody who got goods: a task,
\* completed by its captain or by the callbacks of the payment service in any order,
\* and a demand item, also in a task that was cancelled meanwhile.  Not so for an
\* overtaken task, in which a buyer may have got goods and no bill, and for a strayed
\* item: its buyer has paid in the cancelled task of the notice.
CompletedIsPaid ==
  /\ \A t \in Tasks \ overtaken : tasks[t].status = "completed" =>
       \A u \in PayersOf(t) : bills[<<t, u>>].status = "completed"
  /\ \A i \in Items \ strayed :
       LET t == assignments[i].task
       IN  items[i].status = "completed" /\ i \in Payable(t)
             => bills[<<t, i.requester>>].status = "completed"

\* A completed item is final: no cancellation of its task and no change of its demand
\* reopens it, takes it into another task or distributes it again.
CompletedItemStays ==
  [][\A i \in Items : items[i].status = "completed" =>
       /\ items'[i] = items[i]
       /\ assignments'[i] = assignments[i]]_errandVars

\* "When all goods are the captain's own, skip the collection and complete the task
\* and its demands" (comment of completeTaskWithoutBills): the captain's own goods
\* are concluded with the task.
OwnGoodsCompleted ==
  \A t \in Tasks :
    /\ tasks[t].status = "completed"
    /\ \A i \in AssignedTo(t) : i.requester = tasks[t].captain /\ assignments[i].quantity > 0
    => \A i \in AssignedTo(t) : /\ items[i].status = "completed"
                                /\ demands[items[i].demand].status = "completed"
=============================================================================
