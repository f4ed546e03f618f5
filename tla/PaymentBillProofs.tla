------------------------- MODULE PaymentBillProofs -------------------------
(***************************************************************************)
(* Facts about PaymentBill that hold whoever opens and cancels the bills:  *)
(* what the user requests and CloseBills do to rows and requests.  The     *)
(* inductive invariant of a specification built on PaymentBill contains    *)
(* BillInv.                                                                *)
(***************************************************************************)
EXTENDS PaymentBill, TLAPS

\* Only an absent row has never been written.
AbsentIsUnwritten ==
  \A p \in Payers : bills[p].status = "none" => bills[p].updated_at = 0

BillInv == BillTypeOK /\ SnapshotConsistent /\ AbsentIsUnwritten

\* The status changes a user request can make.
UserMoves == {<<"unpaid", "submitted">>, <<"submitted", "completed">>,
              <<"submitted", "unpaid">>, <<"submitted", "submitted">>}

\* One row moves by a user request; the others keep their place.
RowMoved(p) ==
  /\ bills' = [bills EXCEPT ![p] = Written(bills[p], bills'[p].status)]
  /\ <<bills[p].status, bills'[p].status>> \in UserMoves

\* The value an absent row has is well typed.
LEMMA NoBillType == NoBill.amount \in Amounts /\ NoBill \in BillRow
BY PaymentBillAssumption DEF NoBill, BillRow

\* What an UPDATE of the status leaves in a row.
LEMMA WrittenRow ==
  ASSUME NEW row \in BillRow, NEW s \in BillStatuses
  PROVE  /\ Written(row, s) \in BillRow
         /\ Written(row, s).status = s
         /\ Written(row, s).amount = row.amount
         /\ Written(row, s).updated_at = row.updated_at + 1
BY DEF Written, BillRow

\* A step of a user request keeps rows and requests well typed.
LEMMA UserStepType ==
  ASSUME BillTypeOK, NEW open \in BOOLEAN, UserStep(open)
  PROVE  BillTypeOK'
<1>1. ASSUME NEW op \in Ops, NEW p \in Payers, NEW e \in 1..MaxWrites, ReadBill(op, p, e)
      PROVE  BillTypeOK'
  <2>1. bills[p] \in BillRow
    BY DEF BillTypeOK
  <2>2. bills[p].status \in BillStatuses /\ bills[p].updated_at \in Nat /\ e \in Nat
    BY <1>1, <2>1, PaymentBillAssumption DEF ReadBill, Exists, BillRow
  <2> QED
    BY <1>1, <2>2 DEF BillTypeOK, ReadBill, Request
<1>2. ASSUME NEW r \in reqs, CheckBill(r, open)
      PROVE  BillTypeOK'
  <2>1. r \in Request /\ [r EXCEPT !.stage = "checked"] \in Request
    BY DEF BillTypeOK, Request
  <2> QED
    BY <1>2, <2>1 DEF BillTypeOK, CheckBill
<1>3. ASSUME NEW r \in reqs, UpdateBillStatus(r)
      PROVE  BillTypeOK'
  <2>1. r.payer \in Payers /\ r.op \in Ops /\ bills[r.payer] \in BillRow
    BY DEF BillTypeOK, Request
  <2>2. NewStatus(r.op) \in BillStatuses
    BY <2>1 DEF NewStatus, Ops, BillStatuses
  <2>3. Written(bills[r.payer], NewStatus(r.op)) \in BillRow
    BY <2>1, <2>2, WrittenRow
  <2> QED
    BY <1>3, <2>1, <2>3 DEF BillTypeOK, UpdateBillStatus
<1>4. ASSUME NEW r \in reqs, AbandonRequest(r)
      PROVE  BillTypeOK'
  BY <1>4 DEF BillTypeOK, AbandonRequest
<1> QED
  BY <1>1, <1>2, <1>3, <1>4 DEF UserStep

\* While a request still holds the version of its row, its UPDATE makes one of
\* the moves of the life cycle: the optimistic check of UpdateBillStatus makes
\* up for the transaction the handlers do not have.
LEMMA UserStepMoves ==
  ASSUME BillInv, NEW open \in BOOLEAN, UserStep(open)
  PROVE  bills' = bills \/ \E p \in Payers : RowMoved(p)
<1>1. ASSUME NEW r \in reqs, UpdateBillStatus(r), bills' # bills
      PROVE  RowMoved(r.payer) /\ r.payer \in Payers
  <2>1. r \in Request /\ r.payer \in Payers /\ r.op \in Ops
    BY DEF BillInv, BillTypeOK, Request
  <2>2. bills[r.payer] \in BillRow
    BY <2>1 DEF BillInv, BillTypeOK
  <2>3. /\ r.stage = "checked"
        /\ bills[r.payer].updated_at = r.updated_at
        /\ bills' = [bills EXCEPT ![r.payer] = Written(bills[r.payer], NewStatus(r.op))]
    BY <1>1 DEF UpdateBillStatus
  <2>4. bills[r.payer].status = RequiredStatus(r.op)
    BY <2>1, <2>3 DEF BillInv, SnapshotConsistent
  <2>5. bills'[r.payer].status = NewStatus(r.op)
    BY <2>1, <2>2, <2>3 DEF BillInv, BillTypeOK, BillRow, Written
  <2>6. <<RequiredStatus(r.op), NewStatus(r.op)>> \in UserMoves
    BY <2>1 DEF RequiredStatus, NewStatus, UserMoves, Ops
  <2> QED
    BY <2>1, <2>3, <2>4, <2>5, <2>6 DEF RowMoved
<1> QED
  BY <1>1 DEF UserStep, ReadBill, CheckBill, AbandonRequest

\* The statuses alone: what the abstract life cycle sees of the bills.
Status == [p \in Payers |-> bills[p].status]

\* The statuses after each of the three kinds of change.
LEMMA StatusMoved ==
  ASSUME BillInv, NEW p \in Payers, RowMoved(p)
  PROVE  /\ Status' = [Status EXCEPT ![p] = bills'[p].status]
         /\ <<Status[p], bills'[p].status>> \in UserMoves
<1>1. \A q \in Payers \ {p} : bills'[q] = bills[q]
  BY DEF RowMoved, BillInv, BillTypeOK
<1> QED
  BY <1>1 DEF RowMoved, Status

LEMMA StatusOpened ==
  ASSUME BillInv, NEW p \in Payers, NEW a, bills' = [bills EXCEPT ![p] = NewBill(a)]
  PROVE  Status' = [Status EXCEPT ![p] = "unpaid"]
<1>1. \A q \in Payers \ {p} : bills'[q] = bills[q]
  BY DEF BillInv, BillTypeOK
<1>2. bills'[p].status = "unpaid"
  BY DEF BillInv, BillTypeOK, NewBill
<1>3. \A q \in Payers : bills'[q].status = IF q = p THEN "unpaid" ELSE bills[q].status
  BY <1>1, <1>2
<1> QED
  BY <1>3 DEF Status

LEMMA StatusClosed ==
  ASSUME BillInv, NEW S, bills' = CloseBills(S)
  PROVE  Status' = [p \in Payers |-> IF p \in S /\ Status[p] \in {"unpaid", "submitted"}
                                     THEN "closed" ELSE Status[p]]
<1>1. \A p \in Payers : Written(bills[p], "closed").status = "closed"
  BY DEF Written
<1> QED
  BY <1>1 DEF CloseBills, Status

\* Any step that leaves the requests alone and, row by row, either changes
\* nothing or advances updated_at and leaves the row present keeps the
\* requests consistent.
LEMMA RowsAdvance ==
  ASSUME BillInv, BillTypeOK', reqs' = reqs,
         \A p \in Payers : \/ bills'[p] = bills[p]
                           \/ /\ bills'[p].updated_at > bills[p].updated_at
                              /\ bills'[p].status # "none"
  PROVE  BillInv'
<1>1. \A p \in Payers : bills[p] \in BillRow /\ bills'[p] \in BillRow
  BY DEF BillInv, BillTypeOK
<1>2. AbsentIsUnwritten'
  BY <1>1 DEF BillInv, AbsentIsUnwritten
<1>3. ASSUME NEW r \in reqs
      PROVE  /\ r.updated_at <= bills'[r.payer].updated_at
             /\ r.updated_at = bills'[r.payer].updated_at => r.status = bills'[r.payer].status
             /\ r.stage = "checked" => r.status = RequiredStatus(r.op)
  <2>1. r.payer \in Payers /\ r.updated_at \in Nat
    BY DEF BillInv, BillTypeOK, Request
  <2>2. bills[r.payer].updated_at \in Nat /\ bills'[r.payer].updated_at \in Nat
    BY <1>1, <2>1 DEF BillRow
  <2> QED
    BY <2>1, <2>2 DEF BillInv, SnapshotConsistent
<1> QED
  BY <1>2, <1>3 DEF BillInv, SnapshotConsistent

\* A step of a user request preserves BillInv.
LEMMA UserStepInv ==
  ASSUME BillInv, NEW open \in BOOLEAN, UserStep(open)
  PROVE  BillInv'
<1>0. BillTypeOK'
  BY UserStepType DEF BillInv
<1>1. ASSUME NEW op \in Ops, NEW p \in Payers, NEW e \in 1..MaxWrites, ReadBill(op, p, e)
      PROVE  BillInv'
  <2>1. bills[p] \in BillRow
    BY DEF BillInv, BillTypeOK
  <2>2. SnapshotConsistent'
    BY <1>1, <2>1 DEF BillInv, SnapshotConsistent, ReadBill, BillRow
  <2> QED
    BY <1>0, <1>1, <2>2 DEF BillInv, AbsentIsUnwritten, ReadBill
<1>2. ASSUME NEW r \in reqs, CheckBill(r, open)
      PROVE  BillInv'
  <2>1. r \in Request
    BY DEF BillInv, BillTypeOK
  <2>2. \A s \in reqs' : s \in reqs \/ (s = [r EXCEPT !.stage = "checked"] /\ r.status = RequiredStatus(r.op))
    BY <1>2 DEF CheckBill
  <2>3. SnapshotConsistent'
    BY <1>2, <2>1, <2>2 DEF BillInv, SnapshotConsistent, CheckBill, Request
  <2> QED
    BY <1>0, <1>2, <2>3 DEF BillInv, AbsentIsUnwritten, CheckBill
<1>3. ASSUME NEW r \in reqs, UpdateBillStatus(r)
      PROVE  BillInv'
  <2>1. r \in Request /\ r.payer \in Payers
    BY DEF BillInv, BillTypeOK, Request
  <2>2. \A p \in Payers : bills[p] \in BillRow /\ bills'[p] \in BillRow
    BY <1>0 DEF BillInv, BillTypeOK
  <2>3. NewStatus(r.op) # "none"
    BY <2>1 DEF NewStatus, Request, Ops
  <2>4. \A p \in Payers : \/ bills'[p] = bills[p]
                          \/ /\ bills'[p].updated_at = bills[p].updated_at + 1
                             /\ bills'[p].status # "none"
    BY <1>3, <2>1, <2>2, <2>3 DEF UpdateBillStatus, BillInv, BillTypeOK, BillRow, Written
  <2>5. AbsentIsUnwritten'
    BY <2>4 DEF BillInv, AbsentIsUnwritten
  <2>6. ASSUME NEW s \in reqs'
        PROVE  /\ s.updated_at <= bills'[s.payer].updated_at
               /\ s.updated_at = bills'[s.payer].updated_at => s.status = bills'[s.payer].status
               /\ s.stage = "checked" => s.status = RequiredStatus(s.op)
    <3>1. s \in reqs /\ s.payer \in Payers /\ s.updated_at \in Nat
      BY <1>3 DEF UpdateBillStatus, BillInv, BillTypeOK, Request
    <3>2. bills[s.payer].updated_at \in Nat
      BY <2>2, <3>1 DEF BillRow
    <3> QED
      BY <2>4, <3>1, <3>2 DEF BillInv, SnapshotConsistent
  <2> QED
    BY <1>0, <2>5, <2>6 DEF BillInv, SnapshotConsistent
<1>4. ASSUME NEW r \in reqs, AbandonRequest(r)
      PROVE  BillInv'
  BY <1>0, <1>4 DEF BillInv, SnapshotConsistent, AbsentIsUnwritten, AbandonRequest
<1> QED
  BY <1>1, <1>2, <1>3, <1>4 DEF UserStep

\* Closing open bills keeps everything well typed and consistent.
LEMMA CloseBillsInv ==
  ASSUME BillInv, NEW S, bills' = CloseBills(S), reqs' = reqs
  PROVE  BillInv'
<1>1. \A p \in Payers : bills[p] \in BillRow
  BY DEF BillInv, BillTypeOK
<1>2. \A p \in Payers : bills'[p] \in BillRow
  <2>1. "closed" \in BillStatuses
    BY DEF BillStatuses
  <2>2. \A p \in Payers : Written(bills[p], "closed") \in BillRow
    BY <1>1, <2>1, WrittenRow
  <2> QED
    BY <1>1, <2>2 DEF CloseBills
<1>3. BillTypeOK'
  BY <1>2 DEF BillInv, BillTypeOK, CloseBills
<1>4. \A p \in Payers : \/ bills'[p] = bills[p]
                        \/ bills'[p].updated_at > bills[p].updated_at /\ bills'[p].status # "none"
  <2>1. "closed" \in BillStatuses
    BY DEF BillStatuses
  <2>2. \A p \in Payers : /\ Written(bills[p], "closed").updated_at = bills[p].updated_at + 1
                          /\ Written(bills[p], "closed").status = "closed"
    BY <1>1, <2>1, WrittenRow
  <2>3. \A p \in Payers : bills[p].updated_at \in Nat
    BY <1>1 DEF BillRow
  <2>4. \A p \in Payers : bills'[p] \in {bills[p], Written(bills[p], "closed")}
    BY DEF CloseBills
  <2> QED
    BY <2>2, <2>3, <2>4
<1> QED
  BY <1>3, <1>4, RowsAdvance

\* Opening an absent bill keeps everything well typed and consistent.
LEMMA OpenBillInv ==
  ASSUME BillInv, NEW p \in Payers, NEW a \in Amounts, ~Exists(p),
         bills' = [bills EXCEPT ![p] = NewBill(a)], reqs' = reqs
  PROVE  BillInv'
<1>1. bills[p].updated_at = 0
  BY DEF BillInv, AbsentIsUnwritten, Exists
<1>2. NewBill(a) \in BillRow
  BY DEF NewBill, BillRow, BillStatuses
<1>3. BillTypeOK'
  BY <1>2 DEF BillInv, BillTypeOK
<1>4. \A q \in Payers : \/ bills'[q] = bills[q]
                        \/ bills'[q].updated_at > bills[q].updated_at /\ bills'[q].status # "none"
  BY <1>1 DEF BillInv, BillTypeOK, NewBill
<1> QED
  BY <1>3, <1>4, RowsAdvance
=============================================================================
