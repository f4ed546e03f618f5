---------------------------- MODULE MCErrandTask ----------------------------
(***************************************************************************)
(* Instances of ErrandTask for TLC.  User 1 is one of the buyers and, in   *)
(* some tasks, the captain.                                                *)
(***************************************************************************)
EXTENDS ErrandTask

Row(id, requester, product, quantity) ==
  [id |-> id, requester |-> requester, product |-> product, quantity |-> quantity, fee |-> 0]

OneItem == {Row(1, 1, "a", 1)}

\* Two buyers of one product, one buyer of two products.
Goods == {Row(1, 1, "a", 1), Row(2, 2, "a", 1), Row(3, 1, "b", 1)}

PayersOfOne == {1} \X {1}
PayersOfTwoTasks == {1, 2} \X {1, 2, 3}

\* User 1 may send CreateBill for the first task.
FirstPayer == {<<1, 1>>}

-----------------------------------------------------------------------------
(* Scopes: bounds on the states of a run, beside the constants.            *)

Used(i) == items[i].status # "none"

Begun == {t \in Tasks : tasks[t].status # "none"}

PricedAt(n) == \A t \in Tasks, p \in Products : taskItems[t][p].price \in {Unset, n}

Packaged(n) ==
  \A t \in Begun : tasks[t].packaging = n \/ tasks[t].status \in {"shopping", "pending_distributing"}

LedBy(captains) == \A t \in Begun : tasks[t].captain \in captains

AllBought == \A t \in Tasks, p \in Products : taskItems[t][p].purchased # 0

Billed == {p \in Payers : Exists(p)}

\* No bill by CreateBill, as it is called with an amount that no task has here.
OnlyOrderBills == \A p \in Billed : bills[p].amount # 0

Undisturbed == overtaken = {} /\ OnlyOrderBills

\* Either two buyers, user 1 before user 2, share a task that is led by user 1 or 3
\* and paid for to the end or cancelled ...
OneTaskPaid ==
  /\ ~Used(Row(3, 1, "b", 1)) /\ tasks[2].status = "none"
  /\ demands[1].requester = 1 /\ demands[3].status = "none"
  /\ \A d \in Demands : demands[d].status # "cancelled"
  /\ LedBy({1, 3}) /\ PricedAt(1) /\ Packaged(2) /\ Undisturbed

\* ... or the goods of user 1 go through two tasks of user 2, one after the other or
\* side by side, up to the bills, which are not paid ...
TwoTasksUnpaid ==
  /\ ~Used(Row(2, 2, "a", 1))
  /\ reqs = {} /\ \A p \in Billed : bills[p].status = "unpaid"
  /\ \A p \in Billed : tasks[p[1]].status \notin {"none", "shopping", "pending_distributing"}
  /\ LedBy({2}) /\ PricedAt(0) /\ Packaged(0) /\ AllBought /\ overtaken = {}

\* ... or one item of user 1 goes through one or two tasks of user 2: through two of
\* them paid for, with notices of the first that are late, or through one whose
\* captain edits it at any time and whose payer calls CreateBill.
OneItemRaced ==
  /\ \A i \in Items : Used(i) => i.id = 1
  /\ demands[2].status = "none"
  /\ LedBy({2}) /\ Packaged(2)
  /\ \/ PricedAt(1) /\ Undisturbed
     \/ tasks[2].status = "none"

MCSpec == ErrandInit /\ [][ErrandNext /\ (OneTaskPaid \/ TwoTasksUnpaid \/ OneItemRaced)']_errandVars
=============================================================================
