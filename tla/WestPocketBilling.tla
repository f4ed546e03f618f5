------------------------- MODULE WestPocketBilling -------------------------
(***************************************************************************)
(* The payment service's side of a West Pocket collection: the RPCs that   *)
(* open a member's bill (createWestPocketBill) and cancel all of them      *)
(* (CancelWestPocketBillsIfUnpaid).  Both run in a transaction under the   *)
(* advisory lock of the pocket and, once they hold it, ask the West Pocket *)
(* service for the pocket's status.  The status they act on is therefore a *)
(* reading that may be old by the time the transaction commits.            *)
(*                                                                         *)
(* A call lives on its own: if the worker that made it dies or gives up,   *)
(* the call stays in calls (or in body) on behalf of nobody and may still  *)
(* take effect, long after.                                                *)
(***************************************************************************)
EXTENDS PaymentBill

CONSTANTS Callers,      \* workers of the West Pocket service
          Nobody        \* stands in for a caller that no longer waits

ASSUME WestPocketBillingAssumption == Nobody \notin Callers /\ Payers # {}

VARIABLES calls,        \* RPCs that wait for the pocket's lock
          body,         \* the set of at most one RPC that holds the lock
          reply         \* reply[w]: answer that worker w has not consumed

callVars == <<calls, body, reply>>

\* A create call names its payer; a cancel call covers all payers, and its
\* payer field has no meaning.
AnyPayer == CHOOSE p \in Payers : TRUE

Call == [op : {"create", "cancel"}, payer : Payers, from : Callers \cup {Nobody}]

PocketStatuses ==
  {"draft", "publishing", "collecting", "settled", "cancelling", "cancelled"}

\* A call inside the lock, with the pocket status it was told there.
Body == [op : {"create", "cancel"}, payer : Payers, from : Callers \cup {Nobody},
         seen : PocketStatuses]

\* Answers: a bill status for a create, "ok" for a cancel, "refused" for
\* FailedPrecondition, "error" for anything else.
Replies == {"none", "ok", "refused", "error"} \cup BillStatuses

Send(op, p, w) == calls' = calls \cup {[op |-> op, payer |-> p, from |-> w]}

\* The caller goes away; its call does not.
Orphan(c, w) == IF c.from = w THEN [c EXCEPT !.from = Nobody] ELSE c

AbandonCall(w) ==
  /\ calls' = {Orphan(c, w) : c \in calls}
  /\ body' = {Orphan(b, w) : b \in body}
  /\ reply' = [reply EXCEPT ![w] = "none"]

Answer(b, answer) ==
  reply' = IF b.from \in Callers THEN [reply EXCEPT ![b.from] = answer] ELSE reply

-----------------------------------------------------------------------------
\* Mutant of Enter: the status is asked for without waiting for the lock, so
\* that several calls act on readings taken at the same time.
EnterWithoutLock(c, status) ==
  /\ calls' = calls \ {c}
  /\ body' = body \cup {[op |-> c.op, payer |-> c.payer, from |-> c.from, seen |-> status]}
  /\ UNCHANGED <<bills, reqs, reply>>

\* WithWestPocketSourceLock, then getWestPocketCollectionState.
Enter(c, status) ==
  /\ body = {}
  /\ calls' = calls \ {c}
  /\ body' = {[op |-> c.op, payer |-> c.payer, from |-> c.from, seen |-> status]}
  /\ UNCHANGED <<bills, reqs, reply>>

\* The call fails before it commits: the status RPC is unavailable, the
\* statement fails, the process dies.  The transaction is rolled back.
BodyFails(b) ==
  /\ body' = body \ {b}
  /\ Answer(b, "error")
  /\ UNCHANGED <<bills, reqs, calls>>

\* validateWestPocketBill for "publishing"; a closed bill is never reopened.
CreateAllowed(b) == b.seen = "publishing" /\ bills[b.payer].status # "closed"

\* createWestPocketBill: the existing bill or a new one.  The amount is the
\* member's frozen share, the same in every call.
CreateBody(b) ==
  /\ b.op = "create"
  /\ body' = body \ {b}
  /\ \/ /\ ~CreateAllowed(b)
        /\ Answer(b, "refused")
        /\ UNCHANGED bills
     \/ /\ CreateAllowed(b)
        /\ bills' = IF Exists(b.payer) THEN bills
                    ELSE [bills EXCEPT ![b.payer] = NewBill(NoBill.amount)]
        /\ Answer(b, bills'[b.payer].status)
  /\ UNCHANGED <<reqs, calls>>

\* Mutant of CancelAllowed: only a completed payment stands in the way.
CancelAllowedSubmitted(b) ==
  /\ b.seen \in {"cancelling", "cancelled"}
  /\ \A p \in Payers : bills[p].status # "completed"

\* CancelWestPocketBillsIfUnpaid: the pocket is being cancelled and, with all
\* rows locked, no bill is submitted or completed.
CancelAllowed(b) ==
  /\ b.seen \in {"cancelling", "cancelled"}
  /\ \A p \in Payers : bills[p].status \in {"none", "unpaid", "closed"}

\* Mutant of CancelBody: the unpaid bills are closed before the others are
\* looked at, and stay closed when the call is refused.
CancelBodyEager(b) ==
  /\ b.op = "cancel"
  /\ body' = body \ {b}
  /\ Answer(b, IF CancelAllowed(b) THEN "ok" ELSE "refused")
  /\ bills' = [p \in Payers |-> IF bills[p].status = "unpaid" /\ b.seen = "cancelling"
                                THEN Written(bills[p], "closed")
                                ELSE bills[p]]
  /\ UNCHANGED <<reqs, calls>>

CancelBody(b) ==
  /\ b.op = "cancel"
  /\ body' = body \ {b}
  /\ \/ /\ ~CancelAllowed(b)
        /\ Answer(b, "refused")
        /\ UNCHANGED bills
     \/ /\ CancelAllowed(b)
        /\ Answer(b, "ok")
        /\ bills' = CloseBills(Payers)
  /\ UNCHANGED <<reqs, calls>>

\* The call that holds the lock commits.
Commit(b) == CreateBody(b) \/ CancelBody(b)

BillingInit ==
  /\ bills = [p \in Payers |-> NoBill]
  /\ reqs = {}
  /\ calls = {}
  /\ body = {}
  /\ reply = [w \in Callers |-> "none"]

BillingTypeOK ==
  /\ BillTypeOK
  /\ calls \subseteq Call
  /\ body \subseteq Body
  /\ reply \in [Callers -> Replies]
=============================================================================
