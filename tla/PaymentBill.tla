---------------------------- MODULE PaymentBill ----------------------------
(***************************************************************************)
(* The bills of one source in the payment service and the user requests    *)
(* on them: PayBill, ConfirmBill, TransitionBill and                       *)
(* SupplementSerialNumber (service/bill.go).                               *)
(*                                                                         *)
(* None of these handlers runs in a transaction.  Each reads the bill row, *)
(* then checks it (for a West Pocket bill with an RPC to another service   *)
(* in between), then issues one UPDATE guarded by the updated_at it read.  *)
(* A request in flight is therefore a record in the set reqs that moves    *)
(* from stage "read" to stage "checked" and disappears with its UPDATE, a  *)
(* refusal, or the death of the process; everything else may happen in     *)
(* between.  Two requests with the same record are the same member of      *)
(* reqs: at most one of them could succeed anyway.                         *)
(*                                                                         *)
(* Payload columns (channel, serial number, verify code, timestamps other  *)
(* than updated_at) are left out.                                          *)
(***************************************************************************)
EXTENDS Integers, FiniteSets

CONSTANTS Payers,       \* users who may owe money to the source
          Amounts,      \* bill amounts in cents
          TicksPerMs,   \* updated_at ticks within one millisecond
          MaxWrites,    \* bound: user requests start on a bill with fewer writes
          MaxInFlight   \* bound: user requests in flight at one time

ASSUME PaymentBillAssumption ==
  /\ Amounts # {}
  /\ TicksPerMs \in Nat \ {0}
  /\ MaxWrites \in Nat
  /\ MaxInFlight \in Nat

VARIABLES bills,        \* bills[p]: the row of payment_bill for payer p
          reqs          \* user requests in flight

billVars == <<bills, reqs>>

BillStatuses == {"unpaid", "submitted", "completed", "closed"}

\* "none" stands for the absent row.  updated_at counts the writes of the row:
\* two writes of one row never carry the same timestamp.
BillRow == [status : BillStatuses \cup {"none"}, amount : Amounts, updated_at : Nat]

Ops == {"pay", "confirm", "transition", "supplement"}

Request == [stage : {"read", "checked"}, op : Ops, payer : Payers,
            status : BillStatuses, updated_at : Nat, expected : Nat]

\* The amount column of an absent row has no meaning; it is kept at one value.
NoBill == [status |-> "none", amount |-> CHOOSE a \in Amounts : TRUE, updated_at |-> 0]

NewBill(amount) == [status |-> "unpaid", amount |-> amount, updated_at |-> 1]

\* A row after an UPDATE that sets its status; every UPDATE moves updated_at.
Written(row, status) ==
  [status |-> status, amount |-> row.amount, updated_at |-> row.updated_at + 1]

Exists(p) == bills[p].status # "none"

\* The status a handler requires and the status it writes.
RequiredStatus(op) == IF op = "pay" THEN "unpaid" ELSE "submitted"

\* Mutant of NewStatus: the confirmation writes a status the table does not know.
NewStatusUnknown(op) ==
  CASE op \in {"pay", "supplement"} -> "submitted"
    [] op = "confirm"              -> "confirmed"
    [] op = "transition"           -> "unpaid"

NewStatus(op) ==
  CASE op = "pay"        -> "submitted"
    [] op = "confirm"    -> "completed"
    [] op = "transition" -> "unpaid"
    [] op = "supplement" -> "submitted"

\* sameUpdatedAtVersion: both timestamps are truncated to the millisecond.
SameUpdatedAtVersion(a, b) == a \div TicksPerMs = b \div TicksPerMs

-----------------------------------------------------------------------------
\* A handler starts: GetBillByID.  The client sends the updated_at of the
\* version of the bill it has on its screen, which may be an old one.
ReadBill(op, p, expected) ==
  /\ Exists(p)
  /\ Cardinality(reqs) < MaxInFlight
  /\ bills[p].updated_at < MaxWrites
  /\ expected \in 1..bills[p].updated_at
  /\ reqs' = reqs \cup {[stage |-> "read", op |-> op, payer |-> p,
                         status |-> bills[p].status,
                         updated_at |-> bills[p].updated_at,
                         expected |-> expected]}
  /\ UNCHANGED bills

\* The checks on the row that was read; open is what the source's service
\* answers at this moment (requireWestPocketCollecting), TRUE for a source
\* that is not asked.  A failed check ends the request.
CheckBill(r, open) ==
  /\ r.stage = "read"
  /\ LET accepted == /\ open
                     /\ r.status = RequiredStatus(r.op)
                     /\ SameUpdatedAtVersion(r.updated_at, r.expected)
     IN  reqs' = (reqs \ {r}) \cup
                 (IF accepted THEN {[r EXCEPT !.stage = "checked"]} ELSE {})
  /\ UNCHANGED bills

\* Mutant of UpdateBillStatus: the UPDATE matches on the id alone.
UpdateBillStatusUnguarded(r) ==
  /\ r.stage = "checked"
  /\ reqs' = reqs \ {r}
  /\ bills' = [bills EXCEPT ![r.payer] = Written(bills[r.payer], NewStatus(r.op))]

\* Mutant of UpdateBillStatus: the UPDATE forgets to move updated_at.
UpdateBillStatusSameVersion(r) ==
  /\ r.stage = "checked"
  /\ reqs' = reqs \ {r}
  /\ bills' = IF /\ bills[r.payer].updated_at = r.updated_at
                 /\ bills[r.payer].status # "closed"
             THEN [bills EXCEPT ![r.payer].status = NewStatus(r.op)]
             ELSE bills

\* UpdateBillStatus: one UPDATE ... WHERE id = ? AND updated_at = ? AND
\* status != 'closed'.  No row matched is ErrConcurrencyConflict.
UpdateBillStatus(r) ==
  /\ r.stage = "checked"
  /\ reqs' = reqs \ {r}
  /\ LET row == bills[r.payer]
     IN  bills' = IF row.updated_at = r.updated_at /\ row.status # "closed"
                  THEN [bills EXCEPT ![r.payer] = Written(row, NewStatus(r.op))]
                  ELSE bills

\* The client goes away or the process dies between two statements.
AbandonRequest(r) ==
  /\ reqs' = reqs \ {r}
  /\ UNCHANGED bills

\* One step of one user request.
UserStep(open) ==
  \/ \E op \in Ops, p \in Payers, e \in 1..MaxWrites : ReadBill(op, p, e)
  \/ \E r \in reqs : CheckBill(r, open) \/ UpdateBillStatus(r) \/ AbandonRequest(r)

\* cancelBillsBySource: one UPDATE that closes the unpaid and submitted bills
\* of the payers in S (all payers when the request names none).
CloseBills(S) ==
  [p \in Payers |-> IF p \in S /\ bills[p].status \in {"unpaid", "submitted"}
                    THEN Written(bills[p], "closed")
                    ELSE bills[p]]

-----------------------------------------------------------------------------
BillTypeOK ==
  /\ bills \in [Payers -> BillRow]
  /\ reqs \subseteq Request

\* A request holds the status that belongs to the version it read: while the
\* row's updated_at has not moved, neither has its status.  This is what makes
\* the single guarded UPDATE of UpdateBillStatus a valid transition although
\* the checks before it ran on an old copy of the row.
SnapshotConsistent ==
  \A r \in reqs :
    /\ r.updated_at <= bills[r.payer].updated_at
    /\ r.updated_at = bills[r.payer].updated_at => r.status = bills[r.payer].status
    /\ r.stage = "checked" => r.status = RequiredStatus(r.op)
=============================================================================
