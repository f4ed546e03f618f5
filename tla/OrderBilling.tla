---------------------------- MODULE OrderBilling ----------------------------
(***************************************************************************)
(* Billing of a spot order or an errand task: the operations of the        *)
(* payment service that open and cancel the bills of such a source         *)
(* (CreateBill, CreateBillForOrder, CancelBillBySource), running beside    *)
(* the user requests of PaymentBill.                                       *)
(*                                                                         *)
(* CreateBillForOrder is a lookup, an INSERT and, when the INSERT breaks   *)
(* the unique index on (source_type, source_id, payer_id), a second        *)
(* lookup.  A call is a record in creates; its last stages "ok" and        *)
(* "failed" are the replies the caller has not consumed.                   *)
(***************************************************************************)
EXTENDS PaymentBill

CONSTANTS SourceType,   \* "spot_order" or "errand_task"
          DirectPayers, \* bounds: the payers and amounts that users name in the
          DirectAmounts,\* public CreateBill
          MaxCreates    \* bound: CreateBillForOrder calls at one time

ASSUME OrderBillingAssumption ==
  /\ SourceType \in {"spot_order", "errand_task"}
  /\ DirectPayers \subseteq Payers /\ DirectAmounts \subseteq Amounts
  /\ MaxCreates \in Nat

VARIABLE creates        \* CreateBillForOrder calls in flight

orderVars == <<bills, reqs, creates>>

CreateStages == {"insert", "fallback", "ok", "failed"}

CreateCall == [stage : CreateStages, payer : Payers, amount : Amounts]

-----------------------------------------------------------------------------
\* CreateBill, the public RPC, which asks nobody about the source: a plain
\* INSERT; the unique index refuses a second bill for the same source and payer.
CreateBill(p, a) ==
  /\ ~Exists(p)
  /\ bills' = [bills EXCEPT ![p] = NewBill(a)]
  /\ UNCHANGED <<reqs, creates>>

DirectBill == \E p \in DirectPayers, a \in DirectAmounts : CreateBill(p, a)

\* Mutant of Answer: any existing bill answers the call.
AnswerUnchecked(p, a) == IF Exists(p) THEN "ok" ELSE "failed"

\* existingOrderBillToProto: an existing bill answers the call only if it is
\* the bill that was asked for; otherwise ErrDuplicateBill.
Answer(p, a) == IF bills[p].amount = a THEN "ok" ELSE "failed"

\* GetBillBySource, which does not see a closed bill.
Visible(p) == bills[p].status \notin {"none", "closed"}

\* CreateBillForOrder: the first lookup.
CreateLookup(p, a) ==
  /\ Cardinality(creates) < MaxCreates
  /\ creates' = creates \cup
       {[stage |-> IF Visible(p) THEN Answer(p, a) ELSE "insert", payer |-> p, amount |-> a]}
  /\ UNCHANGED billVars

\* Mutant of CreateInsert: an INSERT that overwrites on conflict.
CreateUpsert(c) ==
  /\ c.stage = "insert"
  /\ bills' = [bills EXCEPT ![c.payer] = NewBill(c.amount)]
  /\ creates' = (creates \ {c}) \cup {[c EXCEPT !.stage = "ok"]}
  /\ UNCHANGED reqs

\* The INSERT: refused by the unique index if any row is there, a closed one too.
CreateInsert(c) ==
  /\ c.stage = "insert"
  /\ bills' = IF Exists(c.payer) THEN bills
              ELSE [bills EXCEPT ![c.payer] = NewBill(c.amount)]
  /\ creates' = (creates \ {c}) \cup
       {[c EXCEPT !.stage = IF Exists(c.payer) THEN "fallback" ELSE "ok"]}
  /\ UNCHANGED reqs

\* The second lookup, after a refused INSERT.
CreateFallback(c) ==
  /\ c.stage = "fallback"
  /\ creates' = (creates \ {c}) \cup
       {[c EXCEPT !.stage = IF Visible(c.payer) THEN Answer(c.payer, c.amount) ELSE "failed"]}
  /\ UNCHANGED billVars

\* The caller takes the reply, or the call is cut off at any stage.
CreateReturn(c) ==
  /\ creates' = creates \ {c}
  /\ UNCHANGED billVars

\* Mutant of CancelBillBySource: a spot order's completed bill is skipped, too.
CancelBillBySourceSkips(S) ==
  /\ bills' = CloseBills(S)
  /\ UNCHANGED <<reqs, creates>>

\* CancelBillBySource: for a spot order the rows are locked first and a
\* completed bill among them refuses the call; for an errand task the UPDATE
\* simply skips what is completed.
CancelBillBySource(S) ==
  /\ SourceType = "spot_order" => \A p \in S : bills[p].status # "completed"
  /\ bills' = CloseBills(S)
  /\ UNCHANGED <<reqs, creates>>

-----------------------------------------------------------------------------
OrderInit ==
  /\ bills = [p \in Payers |-> NoBill]
  /\ reqs = {}
  /\ creates = {}

OrderNext ==
  \/ UserStep(TRUE) /\ UNCHANGED creates
  \/ DirectBill
  \/ \E p \in Payers, a \in Amounts : CreateLookup(p, a)
  \/ \E c \in creates : CreateInsert(c) \/ CreateFallback(c) \/ CreateReturn(c)
  \/ \E S \in SUBSET Payers : CancelBillBySource(S)

OrderSpec == OrderInit /\ [][OrderNext]_orderVars

-----------------------------------------------------------------------------
OrderTypeOK ==
  /\ BillTypeOK
  /\ creates \subseteq CreateCall

\* A CreateBillForOrder that answered "ok" stands for a bill of exactly the
\* amount it asked for, whoever inserted it and whatever became of it since.
AnsweredBillMatches ==
  \A c \in creates : c.stage = "ok" => /\ Exists(c.payer)
                                       /\ bills[c.payer].amount = c.amount

\* The amount of a bill never changes once the row exists, whichever of the
\* competing creations wrote it (CreateBill, CreateBillForOrder).
AmountFrozen ==
  [][\A p \in Payers : Exists(p) => bills'[p].amount = bills[p].amount]_orderVars

\* The bills behave as the abstract life cycle says: every guarded UPDATE,
\* INSERT and cancellation is one of its steps, in every interleaving.
Lifecycle == INSTANCE BillLifecycle
               WITH st <- [p \in Payers |-> bills[p].status], AllOrNothing <- FALSE

ImplementsLifecycle == Lifecycle!AbsSpec
=============================================================================
