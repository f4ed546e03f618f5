------------------------ MODULE OrderBillingProofs ------------------------
(***************************************************************************)
(* OrderBilling for every set of payers and amounts and any number of      *)
(* concurrent requests: types, the consistency of what the requests read,  *)
(* the answers of CreateBillForOrder, and the refinement of BillLifecycle. *)
(***************************************************************************)
EXTENDS OrderBilling, PaymentBillProofs

\* What a caller of CreateBillForOrder that was answered "ok" relies on, with
\* the row it was told of still there.
OrderInv == BillInv /\ OrderTypeOK /\ AnsweredBillMatches

LEMMA OrderInitInv == OrderInit => OrderInv
<1> SUFFICES ASSUME OrderInit PROVE OrderInv
  OBVIOUS
<1>1. BillTypeOK
  BY NoBillType DEF OrderInit, BillTypeOK
<1>2. SnapshotConsistent
  BY DEF OrderInit, SnapshotConsistent
<1>3. AbsentIsUnwritten
  BY DEF OrderInit, AbsentIsUnwritten, NoBill
<1> QED
  BY <1>1, <1>2, <1>3 DEF OrderInit, OrderInv, BillInv, OrderTypeOK, AnsweredBillMatches

\* No step changes the amount of a row or makes a row disappear.
RowsKept == \A p \in Payers : Exists(p) => Exists(p)' /\ bills'[p].amount = bills[p].amount

LEMMA RowsKeptByUser ==
  ASSUME BillInv, NEW open \in BOOLEAN, UserStep(open)
  PROVE  RowsKept
<1>1. \A p \in Payers : bills[p] \in BillRow
  BY DEF BillInv, BillTypeOK
<1>2. CASE bills' = bills
  BY <1>2 DEF RowsKept, Exists
<1>3. ASSUME NEW p \in Payers, RowMoved(p) PROVE RowsKept
  <2>1. bills'[p].status \in BillStatuses
    BY <1>3 DEF RowMoved, UserMoves, BillStatuses
  <2>2. /\ Written(bills[p], bills'[p].status).amount = bills[p].amount
        /\ bills' = [bills EXCEPT ![p] = Written(bills[p], bills'[p].status)]
    BY <1>1, <1>3, <2>1, WrittenRow DEF RowMoved
  <2>3. bills'[p].amount = bills[p].amount /\ bills'[p].status # "none"
    BY <2>1, <2>2 DEF BillInv, BillTypeOK, BillStatuses
  <2>4. \A q \in Payers \ {p} : bills'[q] = bills[q]
    BY <2>2 DEF BillInv, BillTypeOK
  <2> QED
    BY <2>3, <2>4 DEF RowsKept, Exists
<1> QED
  BY <1>2, <1>3, UserStepMoves

LEMMA RowsKeptByClose ==
  ASSUME BillInv, NEW S, bills' = CloseBills(S)
  PROVE  RowsKept
<1>1. \A p \in Payers : bills[p] \in BillRow
  BY DEF BillInv, BillTypeOK
<1>2. \A p \in Payers : /\ Written(bills[p], "closed").amount = bills[p].amount
                        /\ Written(bills[p], "closed").status # "none"
  BY <1>1, WrittenRow DEF BillStatuses
<1>3. \A p \in Payers : bills'[p] \in {bills[p], Written(bills[p], "closed")}
  BY DEF CloseBills
<1> QED
  BY <1>2, <1>3 DEF RowsKept, Exists

LEMMA RowsKeptByOpen ==
  ASSUME BillInv, NEW p \in Payers, NEW a \in Amounts, ~Exists(p),
         bills' = [bills EXCEPT ![p] = NewBill(a)]
  PROVE  RowsKept
BY DEF BillInv, BillTypeOK, RowsKept, Exists

\* The inductive step.
LEMMA OrderStepInv == OrderInv /\ [OrderNext]_orderVars => OrderInv' /\ (RowsKept \/ UNCHANGED orderVars)
<1> SUFFICES ASSUME OrderInv, [OrderNext]_orderVars
             PROVE  OrderInv' /\ (RowsKept \/ UNCHANGED orderVars)
  OBVIOUS
<1> USE DEF OrderInv
<1>0. creates \subseteq CreateCall
  BY DEF OrderTypeOK
\* The calls in flight keep their answers while rows are kept.
<1>a. ASSUME BillInv', RowsKept, creates' = creates
      PROVE  OrderInv'
  <2>1. AnsweredBillMatches'
    BY <1>0, <1>a DEF AnsweredBillMatches, RowsKept, CreateCall, Exists
  <2> QED
    BY <1>a, <2>1 DEF OrderTypeOK, BillInv
\* The rows and requests keep while only the calls move.
<1>b. ASSUME UNCHANGED billVars, creates' \subseteq CreateCall,
             \A c \in creates' : c \in creates \/ (c.stage = "ok" => /\ Exists(c.payer)
                                                                     /\ bills[c.payer].amount = c.amount)
      PROVE  OrderInv' /\ RowsKept
  <2>1. BillInv' /\ BillTypeOK'
    BY <1>b DEF billVars, BillInv, BillTypeOK, SnapshotConsistent, AbsentIsUnwritten
  <2>2. AnsweredBillMatches' /\ RowsKept
    BY <1>b DEF billVars, AnsweredBillMatches, RowsKept, Exists
  <2> QED
    BY <1>b, <2>1, <2>2 DEF OrderTypeOK
<1>1. CASE UserStep(TRUE) /\ UNCHANGED creates
  <2>1. BillInv' /\ RowsKept
    BY <1>1, UserStepInv, RowsKeptByUser
  <2> QED
    BY <1>1, <1>a, <2>1
<1>2. ASSUME NEW p \in Payers, NEW a \in Amounts, CreateBill(p, a)
      PROVE  OrderInv' /\ RowsKept
  <2>1. BillInv' /\ RowsKept
    BY <1>2, OpenBillInv, RowsKeptByOpen DEF CreateBill
  <2> QED
    BY <1>2, <1>a, <2>1 DEF CreateBill
<1>3. ASSUME NEW p \in Payers, NEW a \in Amounts, CreateLookup(p, a)
      PROVE  OrderInv' /\ RowsKept
  <2> DEFINE c == [stage |-> IF Visible(p) THEN Answer(p, a) ELSE "insert", payer |-> p, amount |-> a]
  <2>1. c \in CreateCall
    BY DEF CreateCall, CreateStages, Answer
  <2>2. c.stage = "ok" => Exists(c.payer) /\ bills[c.payer].amount = c.amount
    BY DEF Answer, Visible, Exists
  <2>3. creates' = creates \cup {c} /\ UNCHANGED billVars
    BY <1>3 DEF CreateLookup
  <2> HIDE DEF c
  <2> QED
    BY <1>0, <1>b, <2>1, <2>2, <2>3
<1>4. ASSUME NEW c \in creates, CreateInsert(c)
      PROVE  OrderInv' /\ RowsKept
  <2>1. c \in CreateCall /\ c.payer \in Payers /\ c.amount \in Amounts
    BY <1>0 DEF CreateCall
  <2>2. CASE Exists(c.payer)
    <3>1. UNCHANGED billVars /\ creates' = (creates \ {c}) \cup {[c EXCEPT !.stage = "fallback"]}
      BY <1>4, <2>2 DEF CreateInsert, billVars
    <3>2. [c EXCEPT !.stage = "fallback"] \in CreateCall /\ [c EXCEPT !.stage = "fallback"].stage # "ok"
      BY <2>1 DEF CreateCall, CreateStages
    <3> QED
      BY <1>0, <1>b, <3>1, <3>2
  <2>3. CASE ~Exists(c.payer)
    <3> DEFINE d == [c EXCEPT !.stage = "ok"]
    <3>1. /\ bills' = [bills EXCEPT ![c.payer] = NewBill(c.amount)]
          /\ reqs' = reqs
          /\ creates' = (creates \ {c}) \cup {d}
      BY <1>4, <2>3 DEF CreateInsert
    <3>2. BillInv' /\ RowsKept
      BY <2>1, <2>3, <3>1, OpenBillInv, RowsKeptByOpen
    <3>3. d \in CreateCall /\ d.payer = c.payer /\ d.amount = c.amount
      BY <2>1 DEF CreateCall, CreateStages
    <3>4. bills'[c.payer] = NewBill(c.amount)
      BY <2>1, <3>1 DEF BillInv, BillTypeOK
    <3>5. Exists(c.payer)' /\ bills'[c.payer].amount = c.amount
      BY <3>4 DEF Exists, NewBill
    <3> HIDE DEF d
    <3>6. AnsweredBillMatches'
      BY <1>0, <3>1, <3>2, <3>3, <3>5 DEF AnsweredBillMatches, RowsKept, CreateCall, Exists
    <3> QED
      BY <1>0, <3>1, <3>2, <3>3, <3>6 DEF OrderTypeOK, BillInv
  <2> QED
    BY <2>2, <2>3
<1>5. ASSUME NEW c \in creates, CreateFallback(c)
      PROVE  OrderInv' /\ RowsKept
  <2> DEFINE d == [c EXCEPT !.stage = IF Visible(c.payer) THEN Answer(c.payer, c.amount) ELSE "failed"]
  <2>1. c \in CreateCall /\ c.payer \in Payers /\ c.amount \in Amounts
    BY <1>0 DEF CreateCall
  <2>2. d \in CreateCall /\ d.payer = c.payer /\ d.amount = c.amount
    BY <2>1 DEF CreateCall, CreateStages, Answer
  <2>3. d.stage = "ok" => Exists(c.payer) /\ bills[c.payer].amount = c.amount
    BY <2>1 DEF CreateCall, Answer, Visible, Exists
  <2>4. creates' = (creates \ {c}) \cup {d} /\ UNCHANGED billVars
    BY <1>5 DEF CreateFallback
  <2> HIDE DEF d
  <2> QED
    BY <1>0, <1>b, <2>2, <2>3, <2>4
<1>6. ASSUME NEW c \in creates, CreateReturn(c)
      PROVE  OrderInv' /\ RowsKept
  BY <1>0, <1>6, <1>b DEF CreateReturn
<1>7. ASSUME NEW S \in SUBSET Payers, CancelBillBySource(S)
      PROVE  OrderInv' /\ RowsKept
  <2>1. BillInv' /\ RowsKept
    BY <1>7, CloseBillsInv, RowsKeptByClose DEF CancelBillBySource
  <2> QED
    BY <1>7, <1>a, <2>1 DEF CancelBillBySource
<1>8. CASE UNCHANGED orderVars
  <2>1. RowsKept
    BY <1>8 DEF orderVars, RowsKept, Exists
  <2>2. BillInv'
    BY <1>8 DEF orderVars, BillInv, BillTypeOK, SnapshotConsistent, AbsentIsUnwritten
  <2> QED
    BY <1>8, <1>a, <2>1, <2>2 DEF orderVars
<1> QED
  BY <1>1, <1>2, <1>3, <1>4, <1>5, <1>6, <1>7, <1>8, OrderBillingAssumption DEF OrderNext, DirectBill

LEMMA OrderInvariant == OrderSpec => []OrderInv
<1>1. OrderInv /\ [OrderNext]_orderVars => OrderInv'
  BY OrderStepInv
<1> QED
  BY <1>1, OrderInitInv, PTL DEF OrderSpec

\* Every step is a step of the abstract life cycle, or invisible to it.
LEMMA OrderStepRefines ==
  ASSUME OrderInv, [OrderNext]_orderVars
  PROVE  [Lifecycle!AbsNext]_Status
<1> USE DEF OrderInv
<1>1. CASE bills' = bills
  BY <1>1 DEF Status
<1>2. ASSUME NEW p \in Payers, RowMoved(p)
      PROVE  [Lifecycle!AbsNext]_Status
  <2>1. /\ Status' = [Status EXCEPT ![p] = bills'[p].status]
        /\ <<Status[p], bills'[p].status>> \in UserMoves
    BY <1>2, StatusMoved
  <2>2. CASE Status[p] = "unpaid" /\ bills'[p].status = "submitted"
    BY <2>1, <2>2 DEF Status, Lifecycle!AbsNext, Lifecycle!Claim
  <2>3. CASE Status[p] = "submitted" /\ bills'[p].status = "completed"
    BY <2>1, <2>3 DEF Status, Lifecycle!AbsNext, Lifecycle!Settle
  <2>4. CASE Status[p] = "submitted" /\ bills'[p].status = "unpaid"
    BY <2>1, <2>4 DEF Status, Lifecycle!AbsNext, Lifecycle!SendBack
  <2>5. CASE Status[p] = "submitted" /\ bills'[p].status = "submitted"
    BY <2>1, <2>5 DEF Status
  <2> QED
    BY <2>1, <2>2, <2>3, <2>4, <2>5 DEF UserMoves
<1>3. ASSUME NEW p \in Payers, NEW a \in Amounts, ~Exists(p),
             bills' = [bills EXCEPT ![p] = NewBill(a)]
      PROVE  [Lifecycle!AbsNext]_Status
  <2>1. Status[p] = "none" /\ Status' = [Status EXCEPT ![p] = "unpaid"]
    BY <1>3, StatusOpened DEF Exists, Status
  <2> QED
    BY <2>1 DEF Status, Lifecycle!AbsNext, Lifecycle!Open
<1>4. ASSUME NEW S \in SUBSET Payers, bills' = CloseBills(S)
      PROVE  [Lifecycle!AbsNext]_Status
  <2>1. Status' = [p \in Payers |-> IF p \in S /\ Status[p] \in {"unpaid", "submitted"}
                                    THEN "closed" ELSE Status[p]]
    BY <1>4, StatusClosed
  <2> QED
    BY <2>1 DEF Status, Lifecycle!AbsNext, Lifecycle!Withdraw
<1>5. CASE UserStep(TRUE) /\ UNCHANGED creates
  BY <1>1, <1>2, <1>5, UserStepMoves
<1>6. ASSUME NEW p \in Payers, NEW a \in Amounts, CreateBill(p, a)
      PROVE  [Lifecycle!AbsNext]_Status
  BY <1>3, <1>6 DEF CreateBill
<1>7. ASSUME NEW c \in creates, CreateInsert(c)
      PROVE  [Lifecycle!AbsNext]_Status
  <2>1. c.payer \in Payers /\ c.amount \in Amounts
    BY DEF OrderTypeOK, CreateCall
  <2> QED
    BY <1>1, <1>3, <1>7, <2>1 DEF CreateInsert
<1>8. ASSUME NEW S \in SUBSET Payers, CancelBillBySource(S)
      PROVE  [Lifecycle!AbsNext]_Status
  BY <1>4, <1>8 DEF CancelBillBySource
<1> QED
  BY <1>1, <1>5, <1>6, <1>7, <1>8, OrderBillingAssumption
  DEF OrderNext, DirectBill, orderVars, billVars, CreateLookup, CreateFallback, CreateReturn

\* The life cycle holds in every instance: no interleaving of requests,
\* creations and cancellations takes a bill back from completed or closed, or
\* past a state of its life cycle.
THEOREM OrderRefinesLifecycle == OrderSpec => ImplementsLifecycle
<1>1. OrderInit => Lifecycle!AbsInit
  BY DEF OrderInit, Lifecycle!AbsInit, NoBill
<1>2. OrderInv /\ [OrderNext]_orderVars => [Lifecycle!AbsNext]_Status
  BY OrderStepRefines
<1>3. OrderInv /\ [OrderNext]_orderVars => [Lifecycle!AbsNext]_[p \in Payers |-> bills[p].status]
  BY <1>2 DEF Status
<1> QED
  BY <1>1, <1>3, OrderInvariant, PTL DEF OrderSpec, ImplementsLifecycle, Lifecycle!AbsSpec

\* Types are kept in every instance.
THEOREM OrderTypeCorrect == OrderSpec => []OrderTypeOK
<1>1. OrderInv => OrderTypeOK
  BY DEF OrderInv
<1> QED
  BY <1>1, OrderInvariant, PTL

\* A request that still holds the version of its row holds its status too, for
\* any number of requests in flight (the handlers of service/bill.go).
THEOREM SnapshotsConsistent == OrderSpec => []SnapshotConsistent
<1>1. OrderInv => SnapshotConsistent
  BY DEF OrderInv, BillInv
<1> QED
  BY <1>1, OrderInvariant, PTL

\* CreateBillForOrder answers only with the bill that was asked for, whoever
\* inserted it and for any number of competing calls.
THEOREM AnswersMatch == OrderSpec => []AnsweredBillMatches
<1>1. OrderInv => AnsweredBillMatches
  BY DEF OrderInv
<1> QED
  BY <1>1, OrderInvariant, PTL

\* No step of any actor changes the amount of an existing bill.
THEOREM AmountsFrozen == OrderSpec => AmountFrozen
<1>1. OrderInv /\ [OrderNext]_orderVars =>
        [\A p \in Payers : Exists(p) => bills'[p].amount = bills[p].amount]_orderVars
  BY OrderStepInv DEF RowsKept
<1> QED
  BY <1>1, OrderInvariant, PTL DEF OrderSpec, AmountFrozen
=============================================================================
