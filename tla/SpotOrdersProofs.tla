-------------------------- MODULE SpotOrdersProofs --------------------------
(***************************************************************************)
(* SpotOrders for every set of listings and orders, any stock and any      *)
(* number of transactions: the ledger, the orders and their bills agree.   *)
(*                                                                         *)
(* The argument is in SpotInv.  Every step of SpotOrders is a step of      *)
(* OrderBilling (SpotStepBills), so the bills keep what OrderBilling       *)
(* proves of them; the rest is what the row locks are for: between the     *)
(* check of a row and the commit that relies on it, no other transaction   *)
(* can touch the row (DraftsInv, CancelsInv).                              *)
(***************************************************************************)
EXTENDS SpotOrders, OrderBillingProofs, FiniteSetTheorems

\* A cancellation that has its locks.
Locked(d) == d.stage # "lock"

\* Drafts: their ids are new and their own, their listings theirs alone, the
\* stock is there, and an attached bill is the bill of the order.
DraftsInv ==
  \A c \in creations : \A m \in c.made :
    /\ m.order < nextOrder
    /\ orders[m.order].status = "none"
    /\ goods[m.listing].stock >= m.quantity
    /\ m.own <=> m.bill = "none"
    /\ m.bill = "attached" => Exists(m.order) /\ bills[m.order].amount = m.amount
    /\ \A e \in creations : \A n \in e.made :
         m.order = n.order \/ m.listing = n.listing => c = e /\ m = n

\* Creation calls are for ids that were handed out, and for the draft's amount.
CallsInv ==
  \A r \in creates :
    /\ r.payer < nextOrder
    /\ \A c \in creations : \A m \in c.made : m.order = r.payer => m.amount = r.amount

\* Locked cancellations: the order is pending, the listing theirs alone, and
\* before the commit the bill is closed.
CancelsInv ==
  \A d \in cancels : Locked(d) =>
    /\ orders[d.order].status = "pending_payment"
    /\ d.stage = "commit" => bills[d.order].status = "closed"
    /\ \A e \in cancels :
         Locked(e) /\ orders[e.order].listing = orders[d.order].listing => d = e
    /\ \A c \in creations : \A m \in c.made : m.listing # orders[d.order].listing

\* Committed orders.
RowsInv ==
  \A o \in Payers :
    /\ orders[o].status # "none" => o < nextOrder
    /\ orders[o].status = "pending_payment" => ~orders[o].own
    /\ o \in syncs => bills[o].status = "completed"

SpotInv ==
  /\ OrderInv /\ SpotTypeOK
  /\ DraftsInv /\ CallsInv /\ CancelsInv /\ RowsInv
  /\ LedgerMatchesStock /\ CancelledOrderUnpaid /\ PaidOrderWasPaid /\ OrderHasItsBill

-----------------------------------------------------------------------------
LEMMA PayersNat == Payers \subseteq Nat \ {0}
BY SpotAssumption, FS_CardinalityType

LEMMA NoOrderType == NoOrder \in OrderRow
BY SpotAssumption, PaymentBillAssumption DEF NoOrder, OrderRow, SpotOrderStatuses

\* What a step of OrderBilling leaves of a bill.
Kept(p) ==
  /\ Exists(p) => Exists(p)' /\ bills'[p].amount = bills[p].amount
  /\ bills[p].status = "completed" => bills'[p].status = "completed"
  /\ bills[p].status = "closed" => bills'[p].status = "closed"

LEMMA BillsKept ==
  ASSUME OrderInv, [OrderNext]_orderVars, NEW p \in Payers
  PROVE  Kept(p)
<1>1. [Lifecycle!AbsNext]_Status
  BY OrderStepRefines
<1>2. /\ Status[p] = "completed" => Status'[p] = "completed"
      /\ Status[p] = "closed" => Status'[p] = "closed"
  BY <1>1 DEF Lifecycle!AbsNext, Lifecycle!Open, Lifecycle!Claim, Lifecycle!SendBack,
              Lifecycle!Settle, Lifecycle!Withdraw, Status
<1>3. RowsKept \/ bills' = bills
  BY OrderStepInv DEF orderVars
<1> QED
  BY <1>2, <1>3 DEF Kept, RowsKept, Status, Exists

\* Every step of SpotOrders is a step of OrderBilling, or does not touch it.
LEMMA SpotStepBills ==
  ASSUME SpotTypeOK, [SpotNext]_spotVars
  PROVE  [OrderNext]_orderVars
<1>1. CASE SellerStep \/ (\E l \in Listings : BuyerReads(l)) \/ Tick
  BY <1>1 DEF SellerStep, UpdateSpotGoodsStock, UpdateSpotGoodsPrice, CloseSpotGoods,
              BuyerReads, Tick
<1>2. CASE CreateStep
  <2>1. ASSUME NEW items \in Requests, BeginCreate(items)
        PROVE  UNCHANGED orderVars
    BY <2>1 DEF BeginCreate
  <2>2. ASSUME NEW c \in creations, TakeItem(c)
        PROVE  [OrderNext]_orderVars
    <3>1. Orderable(Head(c.todo))
      BY <2>2 DEF TakeItem
    <3>2. CASE UNCHANGED orderVars
      BY <3>2
    <3>3. CASE CreateLookup(nextOrder, goods[Head(c.todo).listing].price * Head(c.todo).quantity)
      BY <2>2, <3>1, <3>3 DEF TakeItem, Orderable, OrderNext
    <3> QED
      BY <2>2, <3>2, <3>3 DEF TakeItem
  <2>3. ASSUME NEW c \in creations, CommitCreate(c) \/ RollbackCreate(c)
        PROVE  UNCHANGED orderVars
    BY <2>3 DEF CommitCreate, RollbackCreate
  <2>4. ASSUME NEW c \in creations, NEW m \in c.made, Billed(c, m)
        PROVE  [OrderNext]_orderVars
    BY <2>4 DEF Billed, OrderNext
  <2> QED
    BY <1>2, <2>1, <2>2, <2>3, <2>4 DEF CreateStep
<1>3. CASE CancelStep
  <2>1. ASSUME NEW o \in Payers, LateCancel(o)
        PROVE  [OrderNext]_orderVars
    BY <2>1 DEF LateCancel, OrderNext
  <2>2. ASSUME NEW d \in cancels, CancelBill(d)
        PROVE  [OrderNext]_orderVars
    <3>1. d.order \in Payers
      BY DEF SpotTypeOK, Cancellation
    <3> QED
      BY <2>2, <3>1 DEF CancelBill, OrderNext
  <2>3. ASSUME NEW o \in Payers, BeginCancel(o)
        PROVE  UNCHANGED orderVars
    BY <2>3 DEF BeginCancel
  <2>4. ASSUME NEW d \in cancels,
               LockForCancel(d) \/ CheckForCancel(d) \/ CommitCancel(d) \/ RollbackCancel(d)
        PROVE  UNCHANGED orderVars
    BY <2>4 DEF LockForCancel, CheckForCancel, CommitCancel, RollbackCancel
  <2> QED
    BY <1>3, <2>1, <2>2, <2>3, <2>4 DEF CancelStep
<1>4. CASE PaymentFollowed
  BY <1>4 DEF PaymentFollowed, CompleteSpotOrder, SyncRead, MarkSpotOrderPaid
<1>5. CASE BillingStep
  BY <1>5 DEF BillingStep, OrderNext
<1>6. CASE UNCHANGED spotVars
  BY <1>6 DEF spotVars
<1> QED
  BY <1>1, <1>2, <1>3, <1>4, <1>5, <1>6 DEF SpotNext


-----------------------------------------------------------------------------
\* What the assignments of the actions leave in a row or a transaction.
LEMMA OrderMoved ==
  ASSUME SpotTypeOK, NEW o \in Payers, NEW s \in SpotOrderStatuses,
         orders' = [orders EXCEPT ![o].status = s]
  PROVE  /\ orders' \in [Payers -> OrderRow]
         /\ \A p \in Payers \ {o} : orders'[p] = orders[p]
         /\ \A p \in Payers : /\ orders'[p].listing = orders[p].listing
                              /\ orders'[p].amount = orders[p].amount
                              /\ orders'[p].own = orders[p].own
         /\ orders'[o].status = s
BY DEF SpotTypeOK, OrderRow

LEMMA DraftAttached ==
  ASSUME NEW m \in Draft
  PROVE  LET n == [m EXCEPT !.bill = "attached"]
         IN  /\ n \in Draft /\ n.bill = "attached"
             /\ n.order = m.order /\ n.listing = m.listing /\ n.quantity = m.quantity
             /\ n.own = m.own /\ n.amount = m.amount
BY DEF Draft

LEMMA CreationMoved ==
  ASSUME NEW c \in Creation, NEW made \in SUBSET Draft
  PROVE  /\ [c EXCEPT !.made = made] \in Creation
         /\ [c EXCEPT !.made = made].made = made
BY DEF Creation

LEMMA CreationTook ==
  ASSUME NEW c \in Creation, NEW made \in SUBSET Draft, c.todo # <<>>
  PROVE  /\ Head(c.todo) \in Item
         /\ [start |-> c.start, todo |-> Tail(c.todo), made |-> made] \in Creation
BY DEF Creation

LEMMA CancelMoved ==
  ASSUME NEW d \in Cancellation, NEW s \in {"lock", "getBill", "rpc", "commit"}
  PROVE  /\ [d EXCEPT !.stage = s] \in Cancellation
         /\ [d EXCEPT !.stage = s].order = d.order
         /\ [d EXCEPT !.stage = s].stage = s
BY DEF Cancellation

\* A listing and an order of a transaction.
LEMMA Typed ==
  ASSUME SpotTypeOK
  PROVE  /\ \A l \in Listings : goods[l] \in GoodsRow /\ goods[l].stock \in Int /\ ledger[l] \in Int
         /\ \A o \in Payers : /\ orders[o] \in OrderRow /\ orders[o].listing \in Listings
                              /\ orders[o].quantity \in Nat \ {0} /\ orders[o].amount \in Amounts
         /\ \A c \in creations : /\ c \in Creation /\ c.start \in 0..MaxTime
                                 /\ c.made \subseteq Draft /\ c.todo \in Seq(Item)
         /\ \A d \in cancels : d \in Cancellation /\ d.order \in Payers /\ d.start \in 0..MaxTime
         /\ nextOrder \in Nat
<1>1. \A l \in Listings : goods[l] \in GoodsRow /\ goods[l].stock \in Int /\ ledger[l] \in Int
  BY DEF SpotTypeOK, GoodsRow
<1>2. \A o \in Payers : /\ orders[o] \in OrderRow /\ orders[o].listing \in Listings
                        /\ orders[o].quantity \in Nat \ {0} /\ orders[o].amount \in Amounts
  BY SpotAssumption DEF SpotTypeOK, OrderRow
<1>3. \A c \in creations : /\ c \in Creation /\ c.start \in 0..MaxTime
                           /\ c.made \subseteq Draft /\ c.todo \in Seq(Item)
  BY DEF SpotTypeOK, Creation
<1>4. \A d \in cancels : d \in Cancellation /\ d.order \in Payers /\ d.start \in 0..MaxTime
  BY DEF SpotTypeOK, Cancellation
<1> QED
  BY <1>1, <1>2, <1>3, <1>4 DEF SpotTypeOK

LEMMA DraftTyped ==
  ASSUME NEW m \in Draft
  PROVE  /\ m.order \in Payers /\ m.listing \in Listings /\ m.quantity \in Nat \ {0}
         /\ m.amount \in Amounts /\ m.own \in BOOLEAN
         /\ m.bill \in {"none", "asked", "attached"}
BY SpotAssumption DEF Draft

\* The items of a request become the items of a transaction.
LEMMA RequestType ==
  ASSUME SpotTypeOK, NEW items \in Requests
  PROVE  [i \in DOMAIN items |->
            [listing |-> items[i].listing, quantity |-> items[i].quantity,
             own |-> items[i].own, second |-> page[items[i].listing].second,
             seen |-> page[items[i].listing].price]] \in Seq(Item)
<1>1. PICK n \in 1..MaxItems :
        items \in [1..n -> [listing : Listings, quantity : Quantities, own : Own]]
  BY DEF Requests
<1>2. \A i \in 1..n : /\ items[i].listing \in Listings /\ items[i].quantity \in Quantities
                      /\ items[i].own \in BOOLEAN
  BY <1>1, SpotAssumption
<1>3. \A i \in 1..n : [listing |-> items[i].listing, quantity |-> items[i].quantity,
                       own |-> items[i].own, second |-> page[items[i].listing].second,
                       seen |-> page[items[i].listing].price] \in Item
  BY <1>2 DEF Item, SpotTypeOK
<1>4. DOMAIN items = 1..n /\ n \in Nat
  BY <1>1, SpotAssumption
<1> QED
  BY <1>3, <1>4


-----------------------------------------------------------------------------
\* The commit of a creation: each draft becomes an order, and takes its stock.
LEMMA CommitCreateEffect ==
  ASSUME SpotTypeOK, DraftsInv, NEW c \in creations, CommitCreate(c)
  PROVE  /\ goods' \in [Listings -> GoodsRow] /\ ledger' \in [Listings -> Int]
         /\ orders' \in [Payers -> OrderRow]
         /\ \A m \in c.made :
              /\ orders'[m.order] = Inserted(m)
              /\ goods'[m.listing].stock = goods[m.listing].stock - m.quantity
              /\ ledger'[m.listing] = ledger[m.listing] - m.quantity
         /\ \A o \in Payers : (\A m \in c.made : m.order # o) => orders'[o] = orders[o]
         /\ \A l \in Listings : (\A m \in c.made : m.listing # l) =>
              goods'[l] = goods[l] /\ ledger'[l] = ledger[l]
<1>0. c.made \subseteq Draft /\ c.start \in 0..MaxTime
  BY Typed
<1>1. \A m, n \in c.made : m.order = n.order \/ m.listing = n.listing => m = n
  BY DEF DraftsInv
<1>2. \A m \in c.made : /\ (CHOOSE n \in c.made : n.order = m.order) = m
                        /\ (CHOOSE n \in c.made : n.listing = m.listing) = m
  BY <1>1
<1>3. \A m \in c.made : Inserted(m) \in OrderRow
  BY <1>0 DEF Inserted, OrderRow, SpotOrderStatuses, Draft
<1>4. orders' = [o \in Payers |->
        IF \E m \in c.made : m.order = o
        THEN Inserted(CHOOSE m \in c.made : m.order = o) ELSE orders[o]]
  BY DEF CommitCreate
<1>5. \A m \in c.made : orders'[m.order] = Inserted(m)
  BY <1>0, <1>2, <1>4, DraftTyped
<1>6. \A o \in Payers : (\A m \in c.made : m.order # o) => orders'[o] = orders[o]
  BY <1>4
<1>7. orders' \in [Payers -> OrderRow]
  <2>1. \A o \in Payers : orders'[o] \in OrderRow
    BY <1>3, <1>5, <1>6, Typed
  <2> QED
    BY <1>4, <2>1
<1> DEFINE taken(l) == (CHOOSE m \in c.made : m.listing = l).quantity
           touched == {m.listing : m \in c.made}
           left(l) == [goods[l] EXCEPT !.stock = @ - taken(l), !.second = c.start]
<1>8. /\ goods' = [l \in Listings |-> IF l \in touched THEN left(l) ELSE goods[l]]
      /\ ledger' = [l \in Listings |-> IF l \in touched THEN ledger[l] - taken(l) ELSE ledger[l]]
  BY DEF CommitCreate
<1>9. \A m \in c.made : /\ m.listing \in touched /\ m.listing \in Listings /\ m.quantity \in Int
                        /\ taken(m.listing) = m.quantity
  <2>1. \A m \in c.made : m.listing \in Listings /\ m.quantity \in Int
    BY <1>0, DraftTyped
  <2>2. \A m \in c.made : taken(m.listing) = m.quantity
    <3>1. ASSUME NEW m \in c.made PROVE taken(m.listing) = m.quantity
      <4>1. (CHOOSE n \in c.made : n.listing = m.listing) = m
        BY <1>2
      <4> QED
        BY <4>1
    <3> QED
      BY <3>1
  <2> QED
    BY <2>1, <2>2
<1>10. ASSUME NEW m \in c.made
       PROVE  /\ left(m.listing) \in GoodsRow
              /\ left(m.listing).stock = goods[m.listing].stock - m.quantity
  <2>1. goods[m.listing] \in GoodsRow /\ m.quantity \in Nat /\ goods[m.listing].stock >= m.quantity
    BY <1>0, Typed, DraftTyped DEF DraftsInv
  <2>2. goods[m.listing].stock - m.quantity \in Nat
    BY <2>1 DEF GoodsRow
  <2> QED
    BY <1>0, <1>9, <2>1, <2>2 DEF GoodsRow
<1> HIDE DEF left, taken
<1>11. \A m \in c.made : /\ goods'[m.listing] = left(m.listing)
                         /\ ledger'[m.listing] = ledger[m.listing] - m.quantity
  BY <1>8, <1>9
<1>12. \A l \in Listings : (\A m \in c.made : m.listing # l) =>
              goods'[l] = goods[l] /\ ledger'[l] = ledger[l]
  BY <1>8
<1>13. goods' \in [Listings -> GoodsRow]
  <2>1. \A l \in Listings : goods'[l] \in GoodsRow
    BY <1>10, <1>11, <1>12, Typed
  <2> QED
    BY <1>8, <2>1
<1>14. ledger' \in [Listings -> Int]
  <2>1. \A l \in Listings : ledger[l] \in Int
    BY Typed
  <2>2. \A m \in c.made : ledger'[m.listing] \in Int
    BY <1>9, <1>11, <2>1
  <2>3. \A l \in Listings : ledger'[l] \in Int
    BY <1>12, <2>1, <2>2
  <2> QED
    BY <1>8, <2>3
<1> QED
  BY <1>5, <1>6, <1>7, <1>10, <1>11, <1>12, <1>13, <1>14

\* The commit of a cancellation: the order is cancelled, its stock given back.
LEMMA CommitCancelEffect ==
  ASSUME SpotTypeOK, NEW d \in cancels, CommitCancel(d)
  PROVE  LET l == orders[d.order].listing
             n == Released(l, orders[d.order].quantity)
         IN  /\ n \in Nat /\ l \in Listings
             /\ goods' \in [Listings -> GoodsRow] /\ ledger' \in [Listings -> Int]
             /\ orders' \in [Payers -> OrderRow]
             /\ goods'[l].stock = goods[l].stock + n
             /\ ledger'[l] = ledger[l] + n
             /\ \A k \in Listings \ {l} : goods'[k] = goods[k] /\ ledger'[k] = ledger[k]
<1> DEFINE l == orders[d.order].listing
           n == Released(l, orders[d.order].quantity)
<1>1. d.order \in Payers /\ d.start \in 0..MaxTime
  BY Typed
<1>2. /\ l \in Listings /\ orders[d.order].quantity \in Nat
      /\ goods[l] \in GoodsRow /\ goods[l].stock \in Int /\ ledger[l] \in Int
  BY <1>1, Typed
<1>3. n \in Nat /\ (n # 0 => goods[l].stock >= 0)
  BY <1>2 DEF Released
<1>4. orders' \in [Payers -> OrderRow]
  BY <1>1, OrderMoved DEF CommitCancel, SpotOrderStatuses
<1>5. /\ goods' = IF n = 0 THEN goods
                  ELSE [goods EXCEPT ![l].stock = @ + n, ![l].second = d.start]
      /\ ledger' = [ledger EXCEPT ![l] = @ + n]
  BY DEF CommitCancel
<1> HIDE DEF l, n
<1>6. /\ ledger' \in [Listings -> Int] /\ ledger'[l] = ledger[l] + n
      /\ \A k \in Listings \ {l} : ledger'[k] = ledger[k]
  BY <1>2, <1>3, <1>5 DEF SpotTypeOK
<1>7. /\ goods' \in [Listings -> GoodsRow]
      /\ goods'[l].stock = goods[l].stock + n
      /\ \A k \in Listings \ {l} : goods'[k] = goods[k]
  <2>1. CASE n = 0
    BY <1>2, <1>5, <2>1 DEF SpotTypeOK
  <2>2. CASE n # 0
    <3>1. goods[l].stock + n \in Nat
      BY <1>2, <1>3, <2>2
    <3>2. goods' = [goods EXCEPT ![l].stock = goods[l].stock + n, ![l].second = d.start]
      BY <1>5, <2>2
    <3> QED
      BY <1>1, <1>2, <3>1, <3>2 DEF SpotTypeOK, GoodsRow
  <2> QED
    BY <2>1, <2>2
<1> QED
  BY <1>2, <1>3, <1>4, <1>6, <1>7 DEF l, n

-----------------------------------------------------------------------------
\* The types, operation by operation.
TypeRest == /\ goods \in [Listings -> GoodsRow]
            /\ ledger \in [Listings -> Int]
            /\ orders \in [Payers -> OrderRow]
            /\ nextOrder \in Nat \ {0}
            /\ creations \subseteq Creation
            /\ cancels \subseteq Cancellation
            /\ late \subseteq Payers /\ syncs \subseteq Payers
            /\ page \in [Listings -> [second : 0..MaxTime, price : Prices]]
            /\ clock \in 0..MaxTime

LEMMA SellerType ==
  ASSUME SpotTypeOK, SellerStep \/ (\E l \in Listings : BuyerReads(l)) \/ Tick
  PROVE  TypeRest'
<1> USE DEF TypeRest, txVars
<1>1. ASSUME NEW l \in Listings, NEW n \in -1..MaxStock, UpdateSpotGoodsStock(l, n)
      PROVE  TypeRest'
  <2>1. goods' \in [Listings -> GoodsRow]
    <3>1. n \in Nat \cup {-1}
      BY SpotAssumption
    <3> QED
      BY <1>1, <3>1 DEF UpdateSpotGoodsStock, SpotTypeOK, GoodsRow
  <2>2. AtLeastZero(n) \in Int /\ AtLeastZero(goods[l].stock) \in Int /\ ledger[l] \in Int
    BY Typed, SpotAssumption DEF AtLeastZero
  <2>3. ledger' \in [Listings -> Int]
    BY <1>1, <2>2 DEF UpdateSpotGoodsStock, SpotTypeOK
  <2> QED
    BY <1>1, <2>1, <2>3 DEF UpdateSpotGoodsStock, SpotTypeOK
<1>2. ASSUME NEW l \in Listings, NEW price \in Prices, UpdateSpotGoodsPrice(l, price)
      PROVE  TypeRest'
  <2>1. goods' \in [Listings -> GoodsRow]
    BY <1>2 DEF UpdateSpotGoodsPrice, SpotTypeOK, GoodsRow
  <2> QED
    BY <1>2, <2>1 DEF UpdateSpotGoodsPrice, SpotTypeOK
<1>3. ASSUME NEW l \in Listings, CloseSpotGoods(l)
      PROVE  TypeRest'
  <2>1. goods' \in [Listings -> GoodsRow]
    BY <1>3 DEF CloseSpotGoods, SpotTypeOK, GoodsRow
  <2> QED
    BY <1>3, <2>1 DEF CloseSpotGoods, SpotTypeOK
<1>4. ASSUME NEW l \in Listings, BuyerReads(l)
      PROVE  TypeRest'
  <2>1. page' \in [Listings -> [second : 0..MaxTime, price : Prices]]
    BY <1>4 DEF BuyerReads, SpotTypeOK, GoodsRow
  <2> QED
    BY <1>4, <2>1 DEF BuyerReads, SpotTypeOK
<1>5. CASE Tick
  BY <1>5, SpotAssumption DEF Tick, SpotTypeOK
<1> QED
  BY <1>1, <1>2, <1>3, <1>4, <1>5 DEF SellerStep

LEMMA CreateType ==
  ASSUME SpotTypeOK, DraftsInv, CreateStep
  PROVE  TypeRest'
<1> USE DEF TypeRest, goodsVars
<1>1. ASSUME NEW items \in Requests, BeginCreate(items)
      PROVE  TypeRest'
  <2> DEFINE todo == [i \in DOMAIN items |->
                        [listing |-> items[i].listing, quantity |-> items[i].quantity,
                         own |-> items[i].own, second |-> page[items[i].listing].second,
                         seen |-> page[items[i].listing].price]]
  <2>1. todo \in Seq(Item)
    BY <1>1, RequestType
  <2>2. creations' = creations \cup {[start |-> clock, made |-> {}, todo |-> todo]}
    BY <1>1 DEF BeginCreate
  <2> HIDE DEF todo
  <2>3. creations' \subseteq Creation
    BY <2>1, <2>2 DEF SpotTypeOK, Creation
  <2> QED
    BY <1>1, <2>3 DEF BeginCreate, SpotTypeOK
<1>2. ASSUME NEW c \in creations, TakeItem(c)
      PROVE  TypeRest'
  <2> DEFINE item == Head(c.todo)
             amount == goods[item.listing].price * item.quantity
             draft == [order |-> nextOrder, listing |-> item.listing,
                       quantity |-> item.quantity, own |-> item.own,
                       price |-> goods[item.listing].price, amount |-> amount,
                       seen |-> item.seen, bill |-> IF item.own THEN "none" ELSE "asked"]
             made == c.made \cup {draft}
  <2>1. c \in Creation /\ item \in Item /\ nextOrder \in Payers /\ amount \in Amounts
    BY <1>2, Typed, CreationTook DEF TakeItem, Orderable
  <2>2. goods[item.listing].price \in Prices
    BY <2>1 DEF Item, SpotTypeOK, GoodsRow
  <2>3. draft \in Draft
    BY <2>1, <2>2 DEF Draft, Item
  <2>4. creations' = (creations \ {c}) \cup {[start |-> c.start, todo |-> Tail(c.todo), made |-> made]}
    BY <1>2 DEF TakeItem
  <2>5. made \in SUBSET Draft /\ c.todo # <<>>
    BY <1>2, <2>3, Typed DEF TakeItem
  <2> HIDE DEF made
  <2>6. creations' \subseteq Creation
    BY <2>1, <2>4, <2>5, CreationTook, Typed
  <2>7. nextOrder' \in Nat \ {0}
    BY <1>2, Typed DEF TakeItem
  <2> QED
    BY <1>2, <2>6, <2>7 DEF TakeItem, SpotTypeOK
<1>3. ASSUME NEW c \in creations, NEW m \in c.made, Billed(c, m)
      PROVE  TypeRest'
  <2> DEFINE made == (c.made \ {m}) \cup {[m EXCEPT !.bill = "attached"]}
  <2>1. made \in SUBSET Draft
    BY Typed, DraftAttached
  <2>2. creations' = (creations \ {c}) \cup {[c EXCEPT !.made = made]}
    BY <1>3 DEF Billed, Attached
  <2> HIDE DEF made
  <2>3. creations' \subseteq Creation
    BY <2>1, <2>2, CreationMoved, Typed
  <2> QED
    BY <1>3, <2>3 DEF Billed, SpotTypeOK
<1>4. ASSUME NEW c \in creations, RollbackCreate(c)
      PROVE  TypeRest'
  BY <1>4 DEF RollbackCreate, SpotTypeOK
<1>5. ASSUME NEW c \in creations, CommitCreate(c)
      PROVE  TypeRest'
  <2>1. goods' \in [Listings -> GoodsRow] /\ ledger' \in [Listings -> Int]
    BY <1>5, CommitCreateEffect
  <2>2. orders' \in [Payers -> OrderRow]
    BY <1>5, CommitCreateEffect
  <2> QED
    BY <1>5, <2>1, <2>2 DEF CommitCreate, SpotTypeOK
<1> QED
  BY <1>1, <1>2, <1>3, <1>4, <1>5 DEF CreateStep

LEMMA CancelType ==
  ASSUME SpotTypeOK, CancelsInv, CancelStep
  PROVE  TypeRest'
<1> USE DEF TypeRest, goodsVars
<1>1. ASSUME NEW o \in Payers, BeginCancel(o)
      PROVE  TypeRest'
  <2>1. [start |-> clock, order |-> o, stage |-> "lock"] \in Cancellation
    BY DEF SpotTypeOK, Cancellation
  <2> QED
    BY <1>1, <2>1 DEF BeginCancel, SpotTypeOK
<1>2. ASSUME NEW o \in Payers, LateCancel(o)
      PROVE  TypeRest'
  BY <1>2 DEF LateCancel, SpotTypeOK
<1>3. ASSUME NEW d \in cancels, LockForCancel(d) \/ CheckForCancel(d) \/ CancelBill(d)
      PROVE  TypeRest'
  <2>1. PICK s \in {"lock", "getBill", "rpc", "commit"} :
          cancels' = (cancels \ {d}) \cup {[d EXCEPT !.stage = s]}
    BY <1>3 DEF LockForCancel, CheckForCancel, CancelBill, CancelGoto
  <2>2. cancels' \subseteq Cancellation
    BY <2>1, CancelMoved, Typed
  <2> QED
    BY <1>3, <2>2 DEF LockForCancel, CheckForCancel, CancelBill, SpotTypeOK
<1>4. ASSUME NEW d \in cancels, RollbackCancel(d)
      PROVE  TypeRest'
  <2>1. late' \subseteq Payers
    BY <1>4, Typed DEF RollbackCancel, SpotTypeOK
  <2> QED
    BY <1>4, <2>1 DEF RollbackCancel, SpotTypeOK
<1>5. ASSUME NEW d \in cancels, CommitCancel(d)
      PROVE  TypeRest'
  <2>1. /\ goods' \in [Listings -> GoodsRow] /\ ledger' \in [Listings -> Int]
        /\ orders' \in [Payers -> OrderRow]
    BY <1>5, CommitCancelEffect
  <2> QED
    BY <1>5, <2>1 DEF CommitCancel, SpotTypeOK
<1> QED
  BY <1>1, <1>2, <1>3, <1>4, <1>5 DEF CancelStep

LEMMA FollowType ==
  ASSUME SpotTypeOK, PaymentFollowed
  PROVE  TypeRest'
<1> USE DEF TypeRest, goodsVars, txVars
<1>1. PICK o \in Payers : CompleteSpotOrder(o) \/ SyncRead(o) \/ MarkSpotOrderPaid(o)
  BY DEF PaymentFollowed
<1>2. {"paid", "completed"} \subseteq SpotOrderStatuses
  BY DEF SpotOrderStatuses
<1>3. orders' \in [Payers -> OrderRow]
  BY <1>1, <1>2, OrderMoved DEF CompleteSpotOrder, SyncRead, MarkSpotOrderPaid, SpotTypeOK
<1> QED
  BY <1>1, <1>3 DEF CompleteSpotOrder, SyncRead, MarkSpotOrderPaid, SpotTypeOK

LEMMA SpotTypeStep ==
  ASSUME SpotInv, [SpotNext]_spotVars
  PROVE  OrderInv' /\ SpotTypeOK'
<1>1. OrderInv'
  BY SpotStepBills, OrderStepInv DEF SpotInv
<1>2. TypeRest'
  <2>1. CASE SellerStep \/ (\E l \in Listings : BuyerReads(l)) \/ Tick
    BY <2>1, SellerType DEF SpotInv
  <2>2. CASE CreateStep
    BY <2>2, CreateType DEF SpotInv
  <2>3. CASE CancelStep
    BY <2>3, CancelType DEF SpotInv
  <2>4. CASE PaymentFollowed
    BY <2>4, FollowType DEF SpotInv
  <2>5. CASE BillingStep
    BY <2>5 DEF BillingStep, TypeRest, SpotInv, SpotTypeOK, goodsVars, txVars
  <2>6. CASE UNCHANGED spotVars
    BY <2>6 DEF spotVars, TypeRest, SpotInv, SpotTypeOK, goodsVars, txVars
  <2> QED
    BY <2>1, <2>2, <2>3, <2>4, <2>5, <2>6 DEF SpotNext
<1> QED
  BY <1>1, <1>2 DEF TypeRest, SpotTypeOK, OrderInv

-----------------------------------------------------------------------------
\* What a step leaves alone keeps its part of the invariant.
RowsPart == RowsInv /\ CancelledOrderUnpaid /\ PaidOrderWasPaid /\ OrderHasItsBill

LEMMA RowsFrame ==
  ASSUME RowsPart, \A p \in Payers : Kept(p), orders' = orders, syncs' = syncs,
         nextOrder \in Nat, nextOrder' \in Nat, nextOrder' >= nextOrder
  PROVE  RowsPart'
<1>1. \A o \in Payers : o \in Nat
  BY PayersNat
<1>2. RowsInv'
  BY <1>1 DEF RowsPart, RowsInv, Kept
<1> QED
  BY <1>2 DEF RowsPart, CancelledOrderUnpaid, PaidOrderWasPaid, OrderHasItsBill, Kept

LEMMA DraftsFrame ==
  ASSUME SpotTypeOK, DraftsInv, \A p \in Payers : Kept(p), nextOrder' = nextOrder,
         creations' \subseteq creations,
         \A c \in creations' : \A m \in c.made :
           /\ orders'[m.order].status = "none"
           /\ goods'[m.listing].stock >= m.quantity
  PROVE  DraftsInv'
<1>1. \A c \in creations : \A m \in c.made : m.order \in Payers
  BY Typed, DraftTyped
<1> QED
  BY <1>1 DEF DraftsInv, Kept

LEMMA CallsFrame ==
  ASSUME CallsInv, nextOrder' = nextOrder, creations' \subseteq creations,
         \A r \in creates' : \E q \in creates : r.payer = q.payer /\ r.amount = q.amount
  PROVE  CallsInv'
BY DEF CallsInv

LEMMA CancelsFrame ==
  ASSUME SpotTypeOK, CancelsInv, \A p \in Payers : Kept(p), creations' \subseteq creations,
         \A d \in cancels' : Locked(d) => d \in cancels /\ orders'[d.order] = orders[d.order]
  PROVE  CancelsInv'
<1>1. \A d \in cancels : d.order \in Payers
  BY Typed
<1> QED
  BY <1>1 DEF CancelsInv, Kept

\* The calls of CreateBillForOrder keep their payer and amount.
LEMMA CallsGoOn ==
  ASSUME OrderTypeOK, \/ UNCHANGED creates
                      \/ \E r \in creates : CreateInsert(r) \/ CreateFallback(r) \/ CreateReturn(r)
  PROVE  \A r \in creates' : \E q \in creates : r.payer = q.payer /\ r.amount = q.amount
<1>1. CASE UNCHANGED creates
  BY <1>1
<1>2. ASSUME NEW r \in creates, CreateInsert(r)
      PROVE  \A n \in creates' : \E q \in creates : n.payer = q.payer /\ n.amount = q.amount
  <2> DEFINE moved == [r EXCEPT !.stage = IF Exists(r.payer) THEN "fallback" ELSE "ok"]
  <2>1. moved.payer = r.payer /\ moved.amount = r.amount
    BY DEF OrderTypeOK, CreateCall
  <2>2. creates' = (creates \ {r}) \cup {moved}
    BY <1>2 DEF CreateInsert
  <2> HIDE DEF moved
  <2> QED
    BY <2>1, <2>2
<1>3. ASSUME NEW r \in creates, CreateReturn(r)
      PROVE  \A n \in creates' : \E q \in creates : n.payer = q.payer /\ n.amount = q.amount
  BY <1>3 DEF CreateReturn
<1>4. ASSUME NEW r \in creates, CreateFallback(r)
      PROVE  \A n \in creates' : \E q \in creates : n.payer = q.payer /\ n.amount = q.amount
  <2> DEFINE moved == [r EXCEPT !.stage = IF Visible(r.payer) THEN Answer(r.payer, r.amount) ELSE "failed"]
  <2>1. moved.payer = r.payer /\ moved.amount = r.amount
    BY DEF OrderTypeOK, CreateCall
  <2>2. creates' = (creates \ {r}) \cup {moved}
    BY <1>4 DEF CreateFallback
  <2> HIDE DEF moved
  <2> QED
    BY <2>1, <2>2
<1> QED
  BY <1>1, <1>2, <1>3, <1>4

\* The part of the invariant that is left when the types are known.
Rest == /\ DraftsInv /\ CallsInv /\ CancelsInv
        /\ RowsPart /\ LedgerMatchesStock

\* A listing without a lock is in no draft and in no locked cancellation.
LEMMA Unlocked ==
  ASSUME NEW l, ~GoodsLocked(l)
  PROVE  /\ \A c \in creations : \A m \in c.made : m.listing # l
         /\ \A d \in cancels : Locked(d) => orders[d.order].listing # l
BY DEF GoodsLocked, Locked

LEMMA SellerRest ==
  ASSUME SpotInv, \A p \in Payers : Kept(p),
         SellerStep \/ (\E l \in Listings : BuyerReads(l)) \/ Tick
  PROVE  Rest'
<1> USE DEF SpotInv
<1>1. UNCHANGED <<orderVars, orders, nextOrder, txVars, syncs>>
  BY DEF SellerStep, UpdateSpotGoodsStock, UpdateSpotGoodsPrice, CloseSpotGoods, BuyerReads, Tick
<1>2. \A r \in creates' : \E q \in creates : r.payer = q.payer /\ r.amount = q.amount
  BY <1>1 DEF orderVars
<1>3. CallsInv'
  BY <1>1, <1>2, CallsFrame DEF txVars
<1>4. CancelsInv'
  BY <1>1, CancelsFrame DEF txVars
<1>5. RowsPart'
  <2>1. nextOrder \in Nat
    BY DEF SpotTypeOK
  <2> QED
    BY <1>1, <2>1, RowsFrame DEF RowsPart
<1>6. (\A c \in creations : \A m \in c.made : goods'[m.listing].stock = goods[m.listing].stock)
      => DraftsInv'
  <2> SUFFICES ASSUME \A c \in creations : \A m \in c.made :
                        goods'[m.listing].stock = goods[m.listing].stock
               PROVE  DraftsInv'
    OBVIOUS
  <2>1. \A c \in creations' : \A m \in c.made :
           orders'[m.order].status = "none" /\ goods'[m.listing].stock >= m.quantity
    BY <1>1 DEF DraftsInv, txVars
  <2> QED
    BY <1>1, <2>1, DraftsFrame DEF txVars
<1>7. ASSUME NEW l \in Listings, NEW n \in -1..MaxStock, UpdateSpotGoodsStock(l, n)
      PROVE  DraftsInv' /\ LedgerMatchesStock'
  <2>1. /\ goods'[l].stock = n
        /\ \A k \in Listings \ {l} : goods'[k] = goods[k]
    BY <1>7, Typed, SpotAssumption DEF UpdateSpotGoodsStock, SpotTypeOK, GoodsRow
  <2>2. \A c \in creations : \A m \in c.made : m.listing \in Listings \ {l}
    BY <1>7, Unlocked, Typed, DraftTyped DEF UpdateSpotGoodsStock, Editable
  <2>3. LedgerMatchesStock'
    <3>1. /\ ledger'[l] = ledger[l] + AtLeastZero(n) - AtLeastZero(goods[l].stock)
          /\ \A k \in Listings \ {l} : ledger'[k] = ledger[k]
      BY <1>7 DEF UpdateSpotGoodsStock, SpotTypeOK
    <3>2. ledger[l] = AtLeastZero(goods[l].stock) /\ ledger[l] \in Int /\ AtLeastZero(n) \in Int
      BY Typed, SpotAssumption DEF LedgerMatchesStock, AtLeastZero
    <3>3. ledger'[l] = AtLeastZero(goods'[l].stock)
      BY <2>1, <3>1, <3>2
    <3> QED
      BY <2>1, <3>1, <3>3 DEF LedgerMatchesStock
  <2> QED
    BY <1>6, <2>1, <2>2, <2>3
<1>8. ASSUME ledger' = ledger, \A k \in Listings : goods'[k].stock = goods[k].stock
      PROVE  DraftsInv' /\ LedgerMatchesStock'
  <2>1. \A c \in creations : \A m \in c.made : m.listing \in Listings
    BY Typed, DraftTyped
  <2> QED
    BY <1>6, <1>8, <2>1 DEF LedgerMatchesStock
<1>9. ASSUME NEW l \in Listings, NEW price \in Prices, UpdateSpotGoodsPrice(l, price)
      PROVE  ledger' = ledger /\ \A k \in Listings : goods'[k].stock = goods[k].stock
  BY <1>9 DEF UpdateSpotGoodsPrice, SpotTypeOK, GoodsRow
<1>10. ASSUME NEW l \in Listings, CloseSpotGoods(l)
       PROVE  ledger' = ledger /\ \A k \in Listings : goods'[k].stock = goods[k].stock
  BY <1>10 DEF CloseSpotGoods, SpotTypeOK, GoodsRow
<1>11. CASE (\E l \in Listings : BuyerReads(l)) \/ Tick
  <2>1. ledger' = ledger /\ goods' = goods
    BY <1>11 DEF BuyerReads, Tick
  <2> QED
    BY <1>3, <1>4, <1>5, <1>8, <2>1 DEF Rest
<1> QED
  BY <1>3, <1>4, <1>5, <1>7, <1>8, <1>9, <1>10, <1>11 DEF SellerStep, Rest

LEMMA BillingRest ==
  ASSUME SpotInv, \A p \in Payers : Kept(p), BillingStep
  PROVE  Rest'
<1> USE DEF SpotInv, goodsVars, txVars
<1>1. UNCHANGED <<goodsVars, orders, nextOrder, txVars, syncs>>
  BY DEF BillingStep
<1>2. \A r \in creates' : \E q \in creates : r.payer = q.payer /\ r.amount = q.amount
  BY CallsGoOn DEF BillingStep, DirectBill, CreateBill, SpotTypeOK
<1>3. CallsInv'
  BY <1>1, <1>2, CallsFrame
<1>4. CancelsInv'
  BY <1>1, CancelsFrame
<1>5. RowsPart'
  BY <1>1, RowsFrame DEF RowsPart, SpotTypeOK
<1>6. DraftsInv'
  <2>1. \A c \in creations' : \A m \in c.made :
           orders'[m.order].status = "none" /\ goods'[m.listing].stock >= m.quantity
    BY <1>1 DEF DraftsInv
  <2> QED
    BY <1>1, <2>1, DraftsFrame
<1>7. LedgerMatchesStock'
  BY <1>1 DEF LedgerMatchesStock
<1> QED
  BY <1>3, <1>4, <1>5, <1>6, <1>7 DEF Rest

LEMMA FollowRest ==
  ASSUME SpotInv, \A p \in Payers : Kept(p), PaymentFollowed
  PROVE  Rest'
<1> USE DEF SpotInv, goodsVars, txVars
<1>1. PICK o \in Payers : CompleteSpotOrder(o) \/ SyncRead(o) \/ MarkSpotOrderPaid(o)
  BY DEF PaymentFollowed
<1>2. UNCHANGED <<orderVars, goodsVars, nextOrder, txVars>>
  BY <1>1 DEF CompleteSpotOrder, SyncRead, MarkSpotOrderPaid
\* An order moves only if it is pending or paid, to paid or completed, and
\* only if its bill is completed; the row of a locked order does not move.
<1>3. \/ orders' = orders
      \/ /\ orders[o].status \in {"pending_payment", "paid"} /\ ~OrderLocked(o)
         /\ bills[o].status = "completed"
         /\ \E s \in {"paid", "completed"} : orders' = [orders EXCEPT ![o].status = s]
  BY <1>1 DEF CompleteSpotOrder, SyncRead, MarkSpotOrderPaid, RowsInv
<1>4. \A p \in syncs' : p \in syncs \/ bills[p].status = "completed"
  BY <1>1 DEF CompleteSpotOrder, SyncRead, MarkSpotOrderPaid
<1>5. \A p \in Payers : /\ orders'[p].listing = orders[p].listing
                        /\ orders'[p].amount = orders[p].amount
                        /\ orders'[p].own = orders[p].own
                        /\ \/ orders'[p] = orders[p]
                           \/ /\ orders[p].status \in {"pending_payment", "paid"}
                              /\ ~OrderLocked(p) /\ bills[p].status = "completed"
                              /\ orders'[p].status \in {"paid", "completed"}
  BY <1>3, OrderMoved DEF SpotOrderStatuses
<1>6. CallsInv'
  BY <1>2, CallsFrame DEF orderVars
<1>7. CancelsInv'
  <2>1. \A d \in cancels' : Locked(d) => d \in cancels /\ orders'[d.order] = orders[d.order]
    BY <1>2, <1>5, Typed DEF OrderLocked, Locked
  <2> QED
    BY <1>2, <2>1, CancelsFrame
<1>8. DraftsInv'
  <2>1. \A c \in creations' : \A m \in c.made :
           orders'[m.order].status = "none" /\ goods'[m.listing].stock >= m.quantity
    BY <1>2, <1>5, Typed, DraftTyped DEF DraftsInv
  <2> QED
    BY <1>2, <2>1, DraftsFrame
<1>9. RowsPart'
  <2>1. RowsInv'
    BY <1>2, <1>4, <1>5 DEF RowsInv, Kept, orderVars
  <2>2. CancelledOrderUnpaid' /\ PaidOrderWasPaid'
    BY <1>2, <1>5 DEF CancelledOrderUnpaid, PaidOrderWasPaid, orderVars
  <2>3. OrderHasItsBill'
    BY <1>2, <1>5 DEF OrderHasItsBill, orderVars, Exists
  <2> QED
    BY <2>1, <2>2, <2>3 DEF RowsPart
<1>10. LedgerMatchesStock'
  BY <1>2 DEF LedgerMatchesStock
<1> QED
  BY <1>6, <1>7, <1>8, <1>9, <1>10 DEF Rest

\* CancelBillBySource leaves the bill of an order that has one closed.
LEMMA BillClosed ==
  ASSUME SpotInv, NEW o \in Payers, CancelBillBySource({o}), Exists(o)
  PROVE  bills'[o].status = "closed"
<1>1. bills[o].status \in BillStatuses
  BY DEF SpotInv, SpotTypeOK, OrderTypeOK, BillTypeOK, BillRow, Exists
<1>2. bills[o].status # "completed"
  BY SpotAssumption DEF CancelBillBySource
<1>3. bills'[o] = IF bills[o].status \in {"unpaid", "submitted"} THEN Written(bills[o], "closed") ELSE bills[o]
  BY DEF CancelBillBySource, CloseBills
<1> QED
  BY <1>1, <1>2, <1>3 DEF Written, BillStatuses

LEMMA CancelRest ==
  ASSUME SpotInv, \A p \in Payers : Kept(p), CancelStep
  PROVE  Rest'
<1> USE DEF SpotInv, goodsVars
<1>1. CallsInv'
  <2>1. UNCHANGED <<creates, creations, nextOrder>>
    BY DEF CancelStep, BeginCancel, LateCancel, LockForCancel, CheckForCancel, CancelBill,
           CommitCancel, RollbackCancel, CancelBillBySource, orderVars
  <2> QED
    BY <2>1, CallsFrame
\* All but the commit leave orders and listings alone.
<1>2. ASSUME UNCHANGED <<goodsVars, orders, nextOrder, creations, syncs>>
      PROVE  DraftsInv' /\ RowsPart' /\ LedgerMatchesStock'
  <2>1. \A c \in creations' : \A m \in c.made :
           orders'[m.order].status = "none" /\ goods'[m.listing].stock >= m.quantity
    BY <1>2 DEF DraftsInv
  <2>2. DraftsInv'
    BY <1>2, <2>1, DraftsFrame
  <2>3. RowsPart'
    BY <1>2, RowsFrame DEF RowsPart, SpotTypeOK
  <2> QED
    BY <1>2, <2>2, <2>3 DEF LedgerMatchesStock
<1>3. ASSUME NEW o \in Payers, BeginCancel(o) \/ LateCancel(o)
      PROVE  Rest'
  <2>1. UNCHANGED <<goodsVars, orders, nextOrder, creations, syncs>>
    BY <1>3 DEF BeginCancel, LateCancel
  <2>2. CancelsInv'
    <3>1. \A d \in cancels' : Locked(d) => d \in cancels
      BY <1>3 DEF BeginCancel, LateCancel, Locked
    <3> QED
      BY <2>1, <3>1, CancelsFrame
  <2> QED
    BY <1>1, <1>2, <2>1, <2>2 DEF Rest
<1>4. ASSUME NEW d \in cancels, RollbackCancel(d)
      PROVE  Rest'
  <2>1. UNCHANGED <<goodsVars, orders, nextOrder, creations, syncs>> /\ cancels' \subseteq cancels
    BY <1>4 DEF RollbackCancel
  <2> QED
    BY <1>1, <1>2, <2>1, CancelsFrame DEF Rest
<1>5. ASSUME NEW d \in cancels, LockForCancel(d)
      PROVE  Rest'
  <2> DEFINE moved == [d EXCEPT !.stage = "getBill"]
             l == orders[d.order].listing
  <2>1. UNCHANGED <<orderVars, goodsVars, orders, nextOrder, creations, syncs>>
    BY <1>5 DEF LockForCancel
  <2>2. moved.order = d.order /\ moved.stage = "getBill"
    BY CancelMoved, Typed
  <2>3. /\ orders[d.order].status = "pending_payment"
        /\ cancels' = (cancels \ {d}) \cup {moved}
        /\ \A c \in creations : \A m \in c.made : m.listing # l
        /\ \A e \in cancels : Locked(e) => orders[e.order].listing # l
    BY <1>5, Unlocked DEF LockForCancel, CancelGoto
  <2> HIDE DEF moved
  <2>4. CancelsInv'
    <3> SUFFICES ASSUME NEW e \in cancels', Locked(e)
                 PROVE  /\ orders[e.order].status = "pending_payment"
                        /\ e.stage = "commit" => bills[e.order].status = "closed"
                        /\ \A f \in cancels' :
                             Locked(f) /\ orders[f.order].listing = orders[e.order].listing => e = f
                        /\ \A c \in creations : \A m \in c.made : m.listing # orders[e.order].listing
      BY <2>1 DEF CancelsInv, orderVars
    <3>1. CASE e = moved
      BY <2>2, <2>3, <3>1
    <3>2. CASE e \in cancels
      <4>1. orders[e.order].listing # l
        BY <2>3, <3>2
      <4> QED
        BY <2>2, <2>3, <3>2, <4>1 DEF CancelsInv
    <3> QED
      BY <2>3, <3>1, <3>2
  <2> QED
    BY <1>1, <1>2, <2>1, <2>4 DEF Rest
<1>6. ASSUME NEW d \in cancels, CheckForCancel(d) \/ CancelBill(d)
      PROVE  Rest'
  <2>1. UNCHANGED <<goodsVars, orders, nextOrder, creations, syncs>>
    BY <1>6 DEF CheckForCancel, CancelBill
  <2>2. PICK s \in {"rpc", "commit"} : /\ cancels' = (cancels \ {d}) \cup {[d EXCEPT !.stage = s]}
                                       /\ s = "commit" => CancelBill(d)
    BY <1>6 DEF CheckForCancel, CancelBill, CancelGoto
  <2> DEFINE moved == [d EXCEPT !.stage = s]
  <2>3. moved.order = d.order /\ moved.stage = s /\ d.order \in Payers
    BY CancelMoved, Typed
  <2>4. /\ Locked(d) /\ orders[d.order].status = "pending_payment"
        /\ \A e \in cancels :
             Locked(e) /\ orders[e.order].listing = orders[d.order].listing => d = e
        /\ \A c \in creations : \A m \in c.made : m.listing # orders[d.order].listing
    BY <1>6 DEF CheckForCancel, CancelBill, CancelsInv, Locked
  <2>5. s = "commit" => bills'[d.order].status = "closed"
    <3>1. Exists(d.order)
      BY <2>3, <2>4 DEF OrderHasItsBill, RowsInv
    <3> QED
      BY <2>2, <2>3, <3>1, BillClosed DEF CancelBill
  <2>6. cancels' = (cancels \ {d}) \cup {moved}
    BY <2>2
  <2> HIDE DEF moved
  <2>7. CancelsInv'
    <3> SUFFICES ASSUME NEW e \in cancels', Locked(e)
                 PROVE  /\ orders[e.order].status = "pending_payment"
                        /\ e.stage = "commit" => bills'[e.order].status = "closed"
                        /\ \A f \in cancels' :
                             Locked(f) /\ orders[f.order].listing = orders[e.order].listing => e = f
                        /\ \A c \in creations : \A m \in c.made : m.listing # orders[e.order].listing
      BY <2>1 DEF CancelsInv
    <3>1. CASE e = moved
      <4>1. \A f \in cancels' : f = moved \/ (f \in cancels /\ f # d)
        BY <2>6
      <4> QED
        BY <2>3, <2>4, <2>5, <3>1, <4>1
    <3>2. CASE e \in cancels /\ e # d
      <4>1. /\ orders[e.order].status = "pending_payment"
            /\ e.stage = "commit" => bills[e.order].status = "closed"
            /\ \A f \in cancels :
                 Locked(f) /\ orders[f.order].listing = orders[e.order].listing => e = f
            /\ \A c \in creations : \A m \in c.made : m.listing # orders[e.order].listing
        BY <3>2 DEF CancelsInv
      <4>2. e.stage = "commit" => bills'[e.order].status = "closed"
        BY <3>2, <4>1, Typed DEF Kept
      <4> QED
        BY <2>3, <2>4, <2>6, <3>2, <4>1, <4>2
    <3> QED
      BY <2>6, <3>1, <3>2
  <2> QED
    BY <1>1, <1>2, <2>1, <2>7 DEF Rest
<1>7. ASSUME NEW d \in cancels, CommitCancel(d)
      PROVE  Rest'
  <2> DEFINE l == orders[d.order].listing
             n == Released(l, orders[d.order].quantity)
  <2>1. /\ UNCHANGED <<orderVars, nextOrder, creations, syncs>>
        /\ cancels' = cancels \ {d}
        /\ d.stage = "commit" /\ Locked(d)
    BY <1>7 DEF CommitCancel, Locked
  <2>2. d.order \in Payers /\ orders' = [orders EXCEPT ![d.order].status = "cancelled"]
    BY <1>7, Typed DEF CommitCancel
  <2>3. /\ \A p \in Payers \ {d.order} : orders'[p] = orders[p]
        /\ orders'[d.order].status = "cancelled"
        /\ \A p \in Payers : /\ orders'[p].amount = orders[p].amount
                             /\ orders'[p].own = orders[p].own
    BY <2>2, OrderMoved DEF SpotOrderStatuses
  <2>4. /\ orders[d.order].status = "pending_payment"
        /\ bills[d.order].status = "closed"
        /\ \A e \in cancels : Locked(e) /\ e.order = d.order => e = d
        /\ \A c \in creations : \A m \in c.made : m.listing # l /\ m.order # d.order
    BY <2>1 DEF CancelsInv, DraftsInv
  <2>5. /\ n \in Nat /\ l \in Listings
        /\ goods'[l].stock = goods[l].stock + n
        /\ ledger'[l] = ledger[l] + n
        /\ \A k \in Listings \ {l} : goods'[k] = goods[k] /\ ledger'[k] = ledger[k]
    BY <1>7, CommitCancelEffect
  <2>6. CancelsInv'
    <3>1. \A e \in cancels' : Locked(e) => e \in cancels /\ orders'[e.order] = orders[e.order]
      BY <2>1, <2>3, <2>4, Typed
    <3> QED
      BY <2>1, <3>1, CancelsFrame
  <2>7. DraftsInv'
    <3>1. \A c \in creations' : \A m \in c.made :
             /\ orders'[m.order].status = "none" /\ goods'[m.listing].stock >= m.quantity
      BY <2>1, <2>3, <2>4, <2>5, Typed, DraftTyped DEF DraftsInv
    <3> QED
      BY <2>1, <3>1, DraftsFrame
  <2>8. RowsPart'
    BY <2>1, <2>2, <2>3, <2>4 DEF RowsPart, RowsInv, CancelledOrderUnpaid, PaidOrderWasPaid,
                                  OrderHasItsBill, Exists, orderVars
  <2>9. LedgerMatchesStock'
    <3>1. ledger[l] = AtLeastZero(goods[l].stock) /\ goods[l].stock \in Int
      BY <2>5, Typed DEF LedgerMatchesStock
    <3>2. n # 0 => goods[l].stock >= 0
      BY <3>1 DEF Released
    <3> HIDE DEF n, l
    <3>3. ledger'[l] = AtLeastZero(goods'[l].stock)
      BY <2>5, <3>1, <3>2 DEF AtLeastZero
    <3> QED
      BY <2>5, <3>3 DEF LedgerMatchesStock
  <2> QED
    BY <1>1, <2>6, <2>7, <2>8, <2>9 DEF Rest
<1> QED
  BY <1>3, <1>4, <1>5, <1>6, <1>7 DEF CancelStep

\* TakeItem: the new draft has an id nobody has, a listing nobody has locked.
LEMMA TakeItemRest ==
  ASSUME SpotInv, \A p \in Payers : Kept(p), NEW c \in creations, TakeItem(c)
  PROVE  Rest'
<1> USE DEF SpotInv, goodsVars
<1> DEFINE item == Head(c.todo)
           amount == goods[item.listing].price * item.quantity
           draft == [order |-> nextOrder, listing |-> item.listing,
                     quantity |-> item.quantity, own |-> item.own,
                     price |-> goods[item.listing].price, amount |-> amount,
                     seen |-> item.seen, bill |-> IF item.own THEN "none" ELSE "asked"]
           made == c.made \cup {draft}
           took == [start |-> c.start, todo |-> Tail(c.todo), made |-> made]
<1>1. /\ UNCHANGED <<goodsVars, orders, cancels, syncs>>
      /\ nextOrder \in Payers /\ nextOrder' = nextOrder + 1
      /\ ~GoodsLocked(item.listing) /\ Orderable(item)
      /\ creations' = (creations \ {c}) \cup {took}
      /\ IF item.own THEN UNCHANGED orderVars ELSE CreateLookup(nextOrder, amount)
  BY DEF TakeItem
<1>2. /\ nextOrder \in Nat /\ nextOrder' \in Nat
      /\ item \in Item /\ item.own \in BOOLEAN
  <2>1. c \in Creation /\ c.made \in SUBSET Draft /\ c.todo # <<>> /\ nextOrder \in Nat
    BY Typed DEF TakeItem
  <2>2. item \in Item
    BY <2>1, CreationTook
  <2> QED
    BY <1>1, <2>1, <2>2 DEF Item
<1>3. \A r \in creates' : \/ \E q \in creates : r.payer = q.payer /\ r.amount = q.amount
                          \/ r.payer = nextOrder /\ r.amount = amount
  BY <1>1 DEF CreateLookup, orderVars
<1>4. /\ draft.order = nextOrder /\ draft.listing = item.listing
      /\ draft.quantity = item.quantity /\ draft.amount = amount
      /\ draft.own <=> draft.bill = "none"
      /\ draft.bill # "attached"
  BY <1>2
<1>5. took.made = c.made \cup {draft}
  OBVIOUS
<1> HIDE DEF draft, took, amount, made
\* Every draft is the new one, or an old one in the transaction it was in.
<1>6. \A e \in creations' : \A m \in e.made :
         \/ e = took /\ m = draft
         \/ \E e0 \in creations : m \in e0.made /\ e = (IF e0 = c THEN took ELSE e0)
  BY <1>1, <1>5
<1>7. \A e \in creations : \A m \in e.made : m.order < nextOrder /\ m.listing # item.listing
  BY <1>1, Unlocked DEF DraftsInv
<1>8. orders[nextOrder].status = "none"
  BY <1>1, <1>2 DEF RowsInv
<1>9. DraftsInv'
  <2>1. ASSUME NEW e \in creations', NEW m \in e.made
        PROVE  /\ m.order < nextOrder'
               /\ orders'[m.order].status = "none"
               /\ goods'[m.listing].stock >= m.quantity
               /\ m.own <=> m.bill = "none"
               /\ m.bill = "attached" => Exists(m.order)' /\ bills'[m.order].amount = m.amount
    <3>1. CASE m = draft
      BY <1>1, <1>2, <1>4, <1>8, <3>1 DEF Orderable
    <3>2. CASE \E e0 \in creations : m \in e0.made
      <4>1. PICK e0 \in creations : m \in e0.made
        BY <3>2
      <4>2. m.order \in Payers /\ m.order \in Nat
        BY <4>1, Typed, DraftTyped, PayersNat
      <4> QED
        BY <1>1, <1>2, <4>1, <4>2 DEF DraftsInv, Kept
    <3> QED
      BY <1>6, <3>1, <3>2
  <2>2. ASSUME NEW e \in creations', NEW m \in e.made, NEW f \in creations', NEW n \in f.made,
               m.order = n.order \/ m.listing = n.listing
        PROVE  e = f /\ m = n
    <3>1. CASE m = draft /\ n = draft
      <4>1. \A e0 \in creations : draft \notin e0.made
        BY <1>4, <1>7
      <4> QED
        BY <1>6, <3>1, <4>1
    <3>2. CASE m = draft /\ n # draft
      BY <1>2, <1>4, <1>6, <1>7, <2>2, <3>2
    <3>3. CASE m # draft /\ n = draft
      BY <1>2, <1>4, <1>6, <1>7, <2>2, <3>3
    <3>4. CASE m # draft /\ n # draft
      <4>1. PICK e0 \in creations : m \in e0.made /\ e = (IF e0 = c THEN took ELSE e0)
        BY <1>6, <3>4
      <4>2. PICK f0 \in creations : n \in f0.made /\ f = (IF f0 = c THEN took ELSE f0)
        BY <1>6, <3>4
      <4>3. e0 = f0 /\ m = n
        BY <2>2, <4>1, <4>2 DEF DraftsInv
      <4> QED
        BY <4>1, <4>2, <4>3
    <3> QED
      BY <3>1, <3>2, <3>3, <3>4
  <2> QED
    BY <2>1, <2>2 DEF DraftsInv
<1>10. CallsInv'
  <2>1. ASSUME NEW r \in creates'
        PROVE  r.payer < nextOrder'
    <3>1. \A q \in creates : q.payer \in Payers /\ q.payer \in Nat
      BY PayersNat DEF SpotTypeOK, OrderTypeOK, CreateCall
    <3> QED
      BY <1>1, <1>2, <1>3, <3>1 DEF CallsInv
  <2>2. ASSUME NEW r \in creates', NEW e \in creations', NEW m \in e.made, m.order = r.payer
        PROVE  m.amount = r.amount
    <3>1. CASE m = draft
      <4>1. r.payer = nextOrder
        BY <1>4, <2>2, <3>1
      <4>2. \A q \in creates : q.payer # nextOrder
        BY <1>2 DEF CallsInv
      <4> QED
        BY <1>3, <1>4, <3>1, <4>1, <4>2
    <3>2. CASE \E e0 \in creations : m \in e0.made
      <4>1. r.payer # nextOrder
        BY <1>2, <1>7, <2>2, <3>2
      <4> QED
        BY <1>3, <2>2, <3>2, <4>1 DEF CallsInv
    <3> QED
      BY <1>6, <3>1, <3>2
  <2> QED
    BY <2>1, <2>2 DEF CallsInv
<1>11. CancelsInv'
  <2> SUFFICES ASSUME NEW d \in cancels, Locked(d)
               PROVE  /\ orders[d.order].status = "pending_payment"
                      /\ d.stage = "commit" => bills'[d.order].status = "closed"
                      /\ \A e \in cancels :
                           Locked(e) /\ orders[e.order].listing = orders[d.order].listing => d = e
                      /\ \A e \in creations' : \A m \in e.made : m.listing # orders[d.order].listing
    BY <1>1 DEF CancelsInv
  <2>1. d.order \in Payers
    BY Typed
  <2>2. orders[d.order].listing # item.listing
    BY <1>1, Unlocked
  <2>3. \A e \in creations' : \A m \in e.made : m.listing # orders[d.order].listing
    BY <1>4, <1>6, <2>2 DEF CancelsInv
  <2> QED
    BY <2>1, <2>3 DEF CancelsInv, Kept
<1>12. RowsPart'
  BY <1>1, <1>2, RowsFrame DEF RowsPart
<1>13. LedgerMatchesStock'
  BY <1>1 DEF LedgerMatchesStock
<1> QED
  BY <1>9, <1>10, <1>11, <1>12, <1>13 DEF Rest

\* Billed: the bill that was answered is the draft's.
LEMMA BilledRest ==
  ASSUME SpotInv, SpotTypeOK', \A p \in Payers : Kept(p),
         NEW c \in creations, NEW m \in c.made, Billed(c, m)
  PROVE  Rest'
<1> USE DEF SpotInv, goodsVars
<1> DEFINE n == [m EXCEPT !.bill = "attached"]
           made == (c.made \ {m}) \cup {n}
           done == [c EXCEPT !.made = made]
<1>1. /\ UNCHANGED <<goodsVars, orders, nextOrder, cancels, syncs>>
      /\ creations' = (creations \ {c}) \cup {done}
      /\ m.bill = "asked"
  BY DEF Billed, Attached
<1>2. m \in Draft /\ c \in Creation
  BY Typed
<1>3. /\ n \in Draft /\ n.bill = "attached"
      /\ n.order = m.order /\ n.listing = m.listing /\ n.quantity = m.quantity
      /\ n.own = m.own /\ n.amount = m.amount
  BY <1>2, DraftAttached
<1> HIDE DEF n
<1>4. done.made = (c.made \ {m}) \cup {n}
  <2>1. made \in SUBSET Draft
    BY <1>2, <1>3, Typed
  <2> QED
    BY <1>2, <2>1, CreationMoved
<1> HIDE DEF made, done
<1>5. Exists(m.order) /\ bills[m.order].amount = m.amount /\ UNCHANGED billVars
  <2>1. PICK r \in creates : r.payer = m.order /\ r.stage = "ok" /\ CreateReturn(r)
    BY DEF Billed
  <2>2. m.amount = r.amount
    BY <2>1 DEF CallsInv
  <2> QED
    BY <2>1, <2>2 DEF OrderInv, AnsweredBillMatches, CreateReturn
\* Every draft stands for an old one, in the transaction it was in.
<1>6. ASSUME NEW e \in creations', NEW k \in e.made
      PROVE  \E e0 \in creations : \E k0 \in e0.made :
                /\ e = (IF e0 = c THEN done ELSE e0)
                /\ k = (IF k0 = m THEN n ELSE k0)
  <2>1. CASE e = done /\ k = n
    BY <2>1
  <2>2. CASE e = done /\ k \in c.made \ {m}
    BY <2>2
  <2>3. CASE e \in creations \ {c}
    <3>1. k # m
      BY <2>3 DEF DraftsInv
    <3> QED
      BY <2>3, <3>1
  <2> QED
    BY <1>1, <1>4, <1>6, <2>1, <2>2, <2>3
<1>7. \A e \in creations : \A k \in e.made : k.order \in Payers /\ k.listing \in Listings
  BY Typed, DraftTyped
<1>8. DraftsInv'
  <2>1. ASSUME NEW e \in creations', NEW k \in e.made
        PROVE  /\ k.order < nextOrder'
               /\ orders'[k.order].status = "none"
               /\ goods'[k.listing].stock >= k.quantity
               /\ k.own <=> k.bill = "none"
               /\ k.bill = "attached" => Exists(k.order)' /\ bills'[k.order].amount = k.amount
    <3>1. PICK e0 \in creations : \E k0 \in e0.made :
                /\ e = (IF e0 = c THEN done ELSE e0)
                /\ k = (IF k0 = m THEN n ELSE k0)
      BY <1>6, <2>1
    <3>2. PICK k0 \in e0.made : k = (IF k0 = m THEN n ELSE k0)
      BY <3>1
    <3>3. /\ k0.order < nextOrder /\ orders[k0.order].status = "none"
          /\ goods[k0.listing].stock >= k0.quantity
          /\ k0.own <=> k0.bill = "none"
          /\ k0.bill = "attached" => Exists(k0.order) /\ bills[k0.order].amount = k0.amount
      BY DEF DraftsInv
    <3>4. CASE k0 = m
      <4>1. ~m.own
        BY <1>1, <1>2, <3>3, <3>4, DraftTyped
      <4> QED
        BY <1>1, <1>3, <1>5, <3>2, <3>3, <3>4, <4>1 DEF billVars, Exists
    <3>5. CASE k0 # m
      BY <1>1, <1>5, <3>2, <3>3, <3>5 DEF billVars, Exists
    <3> QED
      BY <3>4, <3>5
  <2>2. ASSUME NEW e \in creations', NEW k \in e.made, NEW f \in creations', NEW j \in f.made,
               k.order = j.order \/ k.listing = j.listing
        PROVE  e = f /\ k = j
    <3>1. PICK e0 \in creations : \E k0 \in e0.made :
             /\ e = (IF e0 = c THEN done ELSE e0)
             /\ k = (IF k0 = m THEN n ELSE k0)
      BY <1>6
    <3>2. PICK k0 \in e0.made : k = (IF k0 = m THEN n ELSE k0)
      BY <3>1
    <3>3. PICK f0 \in creations : \E j0 \in f0.made :
             /\ f = (IF f0 = c THEN done ELSE f0)
             /\ j = (IF j0 = m THEN n ELSE j0)
      BY <1>6
    <3>4. PICK j0 \in f0.made : j = (IF j0 = m THEN n ELSE j0)
      BY <3>3
    <3>5. k0.order = j0.order \/ k0.listing = j0.listing
      BY <1>3, <2>2, <3>2, <3>4
    <3>6. e0 = f0 /\ k0 = j0
      BY <3>5 DEF DraftsInv
    <3> QED
      BY <3>1, <3>2, <3>3, <3>4, <3>6
  <2> QED
    BY <2>1, <2>2 DEF DraftsInv
<1>9. CallsInv'
  <2>1. creates' \subseteq creates
    BY DEF Billed, CreateReturn
  <2>2. ASSUME NEW r \in creates', NEW e \in creations', NEW k \in e.made, k.order = r.payer
        PROVE  k.amount = r.amount
    <3>1. PICK e0 \in creations : \E k0 \in e0.made : k = (IF k0 = m THEN n ELSE k0)
      BY <1>6
    <3>2. PICK k0 \in e0.made : k = (IF k0 = m THEN n ELSE k0)
      BY <3>1
    <3> QED
      BY <1>3, <2>1, <2>2, <3>2 DEF CallsInv
  <2> QED
    BY <1>1, <2>1, <2>2 DEF CallsInv
<1>10. CancelsInv'
  <2>1. \A e \in creations' : \A k \in e.made :
           \E e0 \in creations : \E k0 \in e0.made : k.listing = k0.listing
    <3> SUFFICES ASSUME NEW e \in creations', NEW k \in e.made
                 PROVE  \E e0 \in creations : \E k0 \in e0.made : k.listing = k0.listing
      OBVIOUS
    <3>1. PICK e0 \in creations : \E k0 \in e0.made : k = (IF k0 = m THEN n ELSE k0)
      BY <1>6
    <3>2. PICK k0 \in e0.made : k = (IF k0 = m THEN n ELSE k0)
      BY <3>1
    <3> QED
      BY <1>3, <3>2
  <2> QED
    BY <1>1, <1>5, <2>1 DEF CancelsInv, billVars
<1>11. RowsPart'
  BY <1>1, RowsFrame DEF RowsPart, SpotTypeOK
<1>12. LedgerMatchesStock'
  BY <1>1 DEF LedgerMatchesStock
<1> QED
  BY <1>8, <1>9, <1>10, <1>11, <1>12 DEF Rest

\* CommitCreate: the drafts of c become orders.
LEMMA CommitCreateRest ==
  ASSUME SpotInv, \A p \in Payers : Kept(p), NEW c \in creations, CommitCreate(c)
  PROVE  Rest'
<1> USE DEF SpotInv
<1>1. /\ UNCHANGED <<orderVars, nextOrder, cancels, syncs>>
      /\ creations' = creations \ {c}
      /\ NoneAsked(c)
  BY DEF CommitCreate
<1>2. /\ \A m \in c.made :
              /\ orders'[m.order] = Inserted(m)
              /\ goods'[m.listing].stock = goods[m.listing].stock - m.quantity
              /\ ledger'[m.listing] = ledger[m.listing] - m.quantity
      /\ \A o \in Payers : (\A m \in c.made : m.order # o) => orders'[o] = orders[o]
      /\ \A l \in Listings : (\A m \in c.made : m.listing # l) =>
              goods'[l] = goods[l] /\ ledger'[l] = ledger[l]
  BY CommitCreateEffect
<1>3. \A e \in creations : \A m \in e.made :
         /\ m.order \in Payers /\ m.listing \in Listings /\ m.quantity \in Nat \ {0}
         /\ m.own \in BOOLEAN /\ m.bill \in {"none", "asked", "attached"}
  BY Typed, DraftTyped
<1>4. CallsInv'
  BY <1>1, CallsFrame DEF orderVars
<1>5. DraftsInv'
  <2>1. \A e \in creations' : \A m \in e.made : \A n \in c.made :
           m.order # n.order /\ m.listing # n.listing
    BY <1>1 DEF DraftsInv
  <2>2. \A e \in creations' : \A m \in e.made :
           orders'[m.order].status = "none" /\ goods'[m.listing].stock >= m.quantity
    BY <1>1, <1>2, <1>3, <2>1 DEF DraftsInv
  <2> QED
    BY <1>1, <2>2, DraftsFrame
<1>6. CancelsInv'
  <2>1. \A d \in cancels : Locked(d) => d.order \in Payers /\ orders[d.order].status = "pending_payment"
    BY Typed DEF CancelsInv
  <2>2. \A m \in c.made : orders[m.order].status = "none"
    BY DEF DraftsInv
  <2>3. \A d \in cancels' : Locked(d) => d \in cancels /\ orders'[d.order] = orders[d.order]
    BY <1>1, <1>2, <2>1, <2>2
  <2> QED
    BY <1>1, <2>3, CancelsFrame
<1>7. RowsPart'
  <2> SUFFICES ASSUME NEW o \in Payers
               PROVE  /\ orders'[o].status # "none" => o < nextOrder
                      /\ orders'[o].status = "pending_payment" => ~orders'[o].own
                      /\ o \in syncs => bills[o].status = "completed"
                      /\ orders'[o].status = "cancelled" => bills[o].status = "closed"
                      /\ orders'[o].status \in {"paid", "completed"} /\ ~orders'[o].own
                           => bills[o].status = "completed"
                      /\ orders'[o].status # "none" /\ ~orders'[o].own
                           => Exists(o) /\ bills[o].amount = orders'[o].amount
    BY <1>1 DEF RowsPart, RowsInv, CancelledOrderUnpaid, PaidOrderWasPaid, OrderHasItsBill,
                Exists, orderVars
  <2>1. CASE \A m \in c.made : m.order # o
    BY <1>2, <2>1 DEF RowsInv, CancelledOrderUnpaid, PaidOrderWasPaid, OrderHasItsBill
  <2>2. ASSUME NEW m \in c.made, m.order = o
        PROVE  /\ orders'[o] = Inserted(m)
               /\ o < nextOrder
               /\ o \in syncs => bills[o].status = "completed"
               /\ ~m.own => Exists(o) /\ bills[o].amount = m.amount
    <3>1. ~m.own => m.bill = "attached"
      BY <1>1, <1>3 DEF DraftsInv, NoneAsked
    <3> QED
      BY <1>2, <2>2, <3>1 DEF DraftsInv, RowsInv
  <2>3. CASE \E m \in c.made : m.order = o
    <3>1. PICK m \in c.made : m.order = o
      BY <2>3
    <3>2. /\ orders'[o].status = IF m.own THEN "completed" ELSE "pending_payment"
          /\ orders'[o].own = m.own /\ orders'[o].amount = m.amount /\ m.own \in BOOLEAN
      <4>1. orders'[o] = Inserted(m) /\ m.own \in BOOLEAN
        BY <1>3, <2>2, <3>1
      <4>2. /\ Inserted(m).status = IF m.own THEN "completed" ELSE "pending_payment"
            /\ Inserted(m).own = m.own /\ Inserted(m).amount = m.amount
        BY <4>1 DEF Inserted
      <4> QED
        BY <4>1, <4>2
    <3> QED
      BY <2>2, <3>1, <3>2
  <2> QED
    BY <2>1, <2>3
<1>8. LedgerMatchesStock'
  <2> SUFFICES ASSUME NEW l \in Listings
               PROVE  ledger'[l] = AtLeastZero(goods'[l].stock)
    BY DEF LedgerMatchesStock
  <2>1. CASE \A m \in c.made : m.listing # l
    BY <1>2, <2>1 DEF LedgerMatchesStock
  <2>2. ASSUME NEW m \in c.made, m.listing = l
        PROVE  ledger'[l] = AtLeastZero(goods'[l].stock)
    <3>1. goods[l].stock \in Int /\ goods[l].stock >= m.quantity /\ m.quantity \in Nat
      BY <1>3, <2>2, Typed DEF DraftsInv
    <3>2. ledger[l] = AtLeastZero(goods[l].stock)
      BY DEF LedgerMatchesStock
    <3>3. ledger[l] = goods[l].stock
      BY <3>1, <3>2 DEF AtLeastZero
    <3> QED
      BY <1>2, <2>2, <3>1, <3>3 DEF AtLeastZero
  <2> QED
    BY <2>1, <2>2
<1> QED
  BY <1>4, <1>5, <1>6, <1>7, <1>8 DEF Rest

LEMMA CreateRest ==
  ASSUME SpotInv, SpotTypeOK', \A p \in Payers : Kept(p), CreateStep
  PROVE  Rest'
<1> USE DEF SpotInv, goodsVars
<1>1. ASSUME UNCHANGED <<orderVars, goodsVars, orders, nextOrder, cancels, late, syncs>>,
             \A e \in creations' : e \in creations \/ e.made = {}
      PROVE  Rest'
  <2>1. DraftsInv'
    BY <1>1 DEF DraftsInv, Exists, orderVars
  <2>2. CallsInv'
    BY <1>1 DEF CallsInv, orderVars
  <2>3. CancelsInv'
    BY <1>1 DEF CancelsInv, orderVars
  <2>4. RowsPart'
    BY <1>1, RowsFrame DEF RowsPart, SpotTypeOK
  <2> QED
    BY <1>1, <2>1, <2>2, <2>3, <2>4 DEF Rest, LedgerMatchesStock
<1>2. ASSUME NEW items \in Requests, BeginCreate(items)
      PROVE  Rest'
  <2>1. \A e \in creations' : e \in creations \/ e.made = {}
    BY <1>2 DEF BeginCreate
  <2> QED
    BY <1>1, <1>2, <2>1 DEF BeginCreate
<1>3. ASSUME NEW c \in creations, RollbackCreate(c)
      PROVE  Rest'
  BY <1>1, <1>3 DEF RollbackCreate
<1> QED
  BY <1>2, <1>3, TakeItemRest, BilledRest, CommitCreateRest DEF CreateStep

\* The inductive step.
LEMMA SpotStepInv == SpotInv /\ [SpotNext]_spotVars => SpotInv'
<1> SUFFICES ASSUME SpotInv, [SpotNext]_spotVars
             PROVE  SpotInv'
  OBVIOUS
<1>1. OrderInv' /\ SpotTypeOK'
  BY SpotTypeStep
<1>2. \A p \in Payers : Kept(p)
  BY SpotStepBills, BillsKept DEF SpotInv
<1>3. Rest'
  <2>1. CASE UNCHANGED spotVars
    BY <2>1 DEF spotVars, orderVars, goodsVars, txVars, SpotInv, Rest, RowsPart, DraftsInv, CallsInv,
                CancelsInv, RowsInv, LedgerMatchesStock, CancelledOrderUnpaid, PaidOrderWasPaid,
                OrderHasItsBill, Exists
  <2> QED
    BY <1>1, <1>2, <2>1, SellerRest, CreateRest, CancelRest, FollowRest, BillingRest DEF SpotNext
<1> QED
  BY <1>1, <1>3 DEF Rest, RowsPart, SpotInv

LEMMA SpotInitInv == SpotInit => SpotInv
<1> SUFFICES ASSUME SpotInit PROVE SpotInv
  OBVIOUS
<1>1. OrderInv
  BY OrderInitInv DEF SpotInit
<1>2. /\ goods \in [Listings -> GoodsRow]
      /\ \A l \in Listings : goods[l].stock \in Nat /\ goods[l].price \in Prices
  <2>1. goods \in [Listings -> [price : Prices, stock : 1..MaxStock, closed : {FALSE}, second : {0}]]
    BY DEF SpotInit
  <2>2. \A l \in Listings :
           /\ goods[l] \in [price : Prices, stock : 1..MaxStock, closed : {FALSE}, second : {0}]
           /\ goods[l].price \in Prices /\ goods[l].stock \in Nat
    <3>1. ASSUME NEW row \in [price : Prices, stock : 1..MaxStock, closed : {FALSE}, second : {0}]
          PROVE  row.price \in Prices /\ row.stock \in Nat
      BY SpotAssumption
    <3> QED
      BY <2>1, <3>1
  <2>3. [price : Prices, stock : 1..MaxStock, closed : {FALSE}, second : {0}] \subseteq GoodsRow
    <3>1. 1..MaxStock \subseteq Nat \cup {-1} /\ {FALSE} \subseteq BOOLEAN /\ {0} \subseteq 0..MaxTime
      BY SpotAssumption
    <3> QED
      BY <3>1 DEF GoodsRow
  <2> QED
    BY <2>1, <2>2, <2>3
<1>3. SpotTypeOK
  BY <1>1, <1>2, NoOrderType, SpotAssumption DEF SpotInit, SpotTypeOK, OrderInv
<1>4. DraftsInv /\ CallsInv /\ CancelsInv
  BY DEF SpotInit, OrderInit, DraftsInv, CallsInv, CancelsInv
<1>5. \A o \in Payers : orders[o].status = "none"
  BY DEF SpotInit, NoOrder
<1>6. RowsInv /\ CancelledOrderUnpaid /\ PaidOrderWasPaid /\ OrderHasItsBill
  BY <1>5 DEF SpotInit, RowsInv, CancelledOrderUnpaid, PaidOrderWasPaid, OrderHasItsBill
<1>7. LedgerMatchesStock
  BY <1>2 DEF SpotInit, LedgerMatchesStock, AtLeastZero
<1> QED
  BY <1>1, <1>3, <1>4, <1>6, <1>7 DEF SpotInv

LEMMA SpotInvariant == SpotSpec => []SpotInv
BY SpotInitInv, SpotStepInv, PTL DEF SpotSpec

-----------------------------------------------------------------------------
\* The spot service uses the payment service only as OrderBilling says: what is
\* proved of the bills there holds with all of SpotOrders running on top.
THEOREM SpotRefinesBilling == SpotSpec => OrderSpec
<1>1. SpotInit => OrderInit
  BY DEF SpotInit
<1>2. SpotInv /\ [SpotNext]_spotVars => [OrderNext]_orderVars
  BY SpotStepBills DEF SpotInv
<1> QED
  BY <1>1, <1>2, SpotInvariant, PTL DEF SpotSpec, OrderSpec

\* Types are kept in every instance; in particular no order takes a stock below
\* zero (-1 is written by the seller alone).
THEOREM SpotTypeCorrect == SpotSpec => []SpotTypeOK
<1>1. SpotInv => SpotTypeOK
  BY DEF SpotInv
<1> QED
  BY <1>1, SpotInvariant, PTL

\* The ledger adds up to the stock, for any stock, any request and any number
\* of transactions (service/spot_order.go, service/spot_goods.go).
THEOREM LedgerCorrect == SpotSpec => []LedgerMatchesStock
<1>1. SpotInv => LedgerMatchesStock
  BY DEF SpotInv
<1> QED
  BY <1>1, SpotInvariant, PTL

\* A cancelled order's bill is closed, whatever raced with the cancellation.
THEOREM CancelledUnpaid == SpotSpec => []CancelledOrderUnpaid
<1>1. SpotInv => CancelledOrderUnpaid
  BY DEF SpotInv
<1> QED
  BY <1>1, SpotInvariant, PTL

\* An order that counts as paid has a completed bill.
THEOREM PaidWasPaid == SpotSpec => []PaidOrderWasPaid
<1>1. SpotInv => PaidOrderWasPaid
  BY DEF SpotInv
<1> QED
  BY <1>1, SpotInvariant, PTL

\* A committed order has its bill, of its amount.
THEOREM OrdersHaveBills == SpotSpec => []OrderHasItsBill
<1>1. SpotInv => OrderHasItsBill
  BY DEF SpotInv
<1> QED
  BY <1>1, SpotInvariant, PTL

Forward(o) == \/ orders'[o].status = orders[o].status
              \/ orders[o].status = "none"
              \/ orders[o].status = "pending_payment"
              \/ orders[o].status = "paid" /\ orders'[o].status = "completed"

LEMMA SpotForward ==
  ASSUME SpotInv, [SpotNext]_spotVars, NEW o \in Payers
  PROVE  Forward(o)
<1> USE DEF SpotInv, Forward
<1>1. CASE orders' = orders
  BY <1>1
<1>2. ASSUME NEW c \in creations, CommitCreate(c)
      PROVE  Forward(o)
  <2>1. CASE \A m \in c.made : m.order # o
    BY <1>2, <2>1, CommitCreateEffect
  <2>2. CASE \E m \in c.made : m.order = o
    BY <2>2 DEF DraftsInv
  <2> QED
    BY <2>1, <2>2
<1>3. ASSUME NEW d \in cancels, CommitCancel(d)
      PROVE  Forward(o)
  <2>1. d.order \in Payers /\ orders[d.order].status = "pending_payment"
    BY <1>3, Typed DEF CommitCancel, CancelsInv, Locked
  <2>2. \A p \in Payers \ {d.order} : orders'[p] = orders[p]
    BY <1>3, <2>1, OrderMoved DEF CommitCancel, SpotOrderStatuses
  <2> QED
    BY <2>1, <2>2
<1>4. ASSUME NEW p \in Payers, CompleteSpotOrder(p) \/ MarkSpotOrderPaid(p)
      PROVE  Forward(o)
  <2>1. CASE CompleteSpotOrder(p)
    BY <2>1, OrderMoved DEF CompleteSpotOrder, SpotOrderStatuses
  <2>2. CASE MarkSpotOrderPaid(p)
    BY <1>1, <2>2, OrderMoved DEF MarkSpotOrderPaid, SpotOrderStatuses
  <2> QED
    BY <1>4, <2>1, <2>2
<1>5. CASE SellerStep \/ (\E l \in Listings : BuyerReads(l)) \/ Tick
  BY <1>1, <1>5 DEF SellerStep, UpdateSpotGoodsStock, UpdateSpotGoodsPrice, CloseSpotGoods,
                    BuyerReads, Tick
<1>6. CASE CreateStep
  BY <1>1, <1>2, <1>6 DEF CreateStep, BeginCreate, TakeItem, RollbackCreate, Billed
<1>7. CASE CancelStep
  BY <1>1, <1>3, <1>7 DEF CancelStep, BeginCancel, LateCancel, LockForCancel, CheckForCancel,
                          CancelBill, RollbackCancel
<1>8. CASE PaymentFollowed
  BY <1>1, <1>4, <1>8 DEF PaymentFollowed, SyncRead
<1>9. CASE BillingStep \/ UNCHANGED spotVars
  BY <1>1, <1>9 DEF BillingStep, spotVars
<1> QED
  BY <1>5, <1>6, <1>7, <1>8, <1>9 DEF SpotNext

\* An order only moves forward, although the payment synchronisation decides on
\* old copies (MarkSpotOrderPaid) and cancellations hold their locks for long.
THEOREM OrdersMoveForward == SpotSpec => OrderMovesForward
<1>1. SpotInv /\ [SpotNext]_spotVars =>
        [\A o \in Payers :
           \/ orders'[o].status = orders[o].status
           \/ orders[o].status = "none"
           \/ orders[o].status = "pending_payment"
           \/ orders[o].status = "paid" /\ orders'[o].status = "completed"]_spotVars
  BY SpotForward DEF Forward
<1> QED
  BY <1>1, SpotInvariant, PTL DEF SpotSpec, OrderMovesForward
=============================================================================
