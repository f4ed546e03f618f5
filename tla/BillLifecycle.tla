--------------------------- MODULE BillLifecycle ---------------------------
(***************************************************************************)
(* What the payment service promises about the bills of ONE source (a spot *)
(* order, an errand task or a West Pocket collection), seen from outside:  *)
(* for every payer at most one bill, which is opened once, may be claimed  *)
(* paid, sent back and claimed again any number of times, and ends either  *)
(* completed or closed.  Completed and closed are final.                   *)
(*                                                                         *)
(* AllOrNothing is the additional promise made to West Pocket: bills are   *)
(* closed only while nobody has claimed or made a payment, and once one    *)
(* bill is closed no further bill is opened.                               *)
(***************************************************************************)
CONSTANTS Payers,        \* users who may owe money to the source
          AllOrNothing   \* TRUE: bills are cancelled together or not at all

VARIABLE st              \* st[p]: status of p's bill, "none" before it exists

Statuses == {"none", "unpaid", "submitted", "completed", "closed"}

AbsInit == st = [p \in Payers |-> "none"]

\* A bill is opened for p.
Open(p) ==
  /\ st[p] = "none"
  /\ AllOrNothing => \A q \in Payers : st[q] # "closed"
  /\ st' = [st EXCEPT ![p] = "unpaid"]

\* p claims to have paid.
Claim(p) ==
  /\ st[p] = "unpaid"
  /\ st' = [st EXCEPT ![p] = "submitted"]

\* The payee sends p's claim back.
SendBack(p) ==
  /\ st[p] = "submitted"
  /\ st' = [st EXCEPT ![p] = "unpaid"]

\* The payee confirms that the money arrived.
Settle(p) ==
  /\ st[p] = "submitted"
  /\ st' = [st EXCEPT ![p] = "completed"]

\* The source withdraws the bills of the payers in S that are still open.
Withdraw(S) ==
  /\ AllOrNothing => /\ S = Payers
                     /\ \A q \in Payers : st[q] \notin {"submitted", "completed"}
  /\ st' = [p \in Payers |-> IF p \in S /\ st[p] \in {"unpaid", "submitted"}
                             THEN "closed" ELSE st[p]]

AbsNext ==
  \/ \E p \in Payers : Open(p) \/ Claim(p) \/ SendBack(p) \/ Settle(p)
  \/ \E S \in SUBSET Payers : Withdraw(S)

AbsSpec == AbsInit /\ [][AbsNext]_st
=============================================================================
