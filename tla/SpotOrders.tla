------------------------------ MODULE SpotOrders ------------------------------
(***************************************************************************)
(* Spot goods and spot orders (spotservice): sellers change stock and      *)
(* price, buyers order and cancel, and orders follow their bills in the    *)
(* payment service (OrderBilling).                                         *)
(*                                                                         *)
(* CreateSpotOrders and CancelSpotOrder are long transactions: they hold   *)
(* row locks while they call the payment service, whose effect stays if    *)
(* they roll back.  A running transaction is a record in creations or      *)
(* cancels; what it has written is invisible until it commits.  All other  *)
(* operations take effect at one moment, when the rows they need are free. *)
(*                                                                         *)
(* An order has one payer, so the bills of OrderBilling are indexed here   *)
(* by order: Payers is the set of order ids.                               *)
(***************************************************************************)
EXTENDS OrderBilling, Sequences

CONSTANTS Listings,     \* rows of spot_goods
          Prices,       \* unit prices in cents
          Quantities,   \* quantities a buyer may order
          Own,          \* whether buyers order from others (FALSE) or themselves (TRUE)
          MaxStock,     \* maxSpotGoodsStock (999)
          MaxItems,     \* bound: items of one CreateSpotOrders request
          MaxTxs,       \* bound: transactions of either kind at one time
          MaxTime,      \* bound: seconds
          SameSecond    \* FALSE: a seller never edits a listing twice in a second

ASSUME SpotAssumption ==
  /\ SourceType = "spot_order"
  /\ IsFiniteSet(Payers) /\ Payers = 1..Cardinality(Payers)
  /\ Amounts \subseteq Nat /\ Listings # {}
  /\ Prices \subseteq Nat \ {0} /\ Prices # {}
  /\ Quantities \subseteq Nat \ {0} /\ Quantities # {}
  /\ Own \subseteq BOOLEAN
  /\ MaxStock \in Nat \ {0} /\ MaxItems \in Nat /\ MaxTxs \in Nat /\ MaxTime \in Nat
  /\ SameSecond \in BOOLEAN

VARIABLES goods,        \* goods[l]: the row of spot_goods
          ledger,       \* ledger[l]: sum of the deltas in spot_stock_ledger
          orders,       \* orders[o]: the committed row of spot_order
          nextOrder,    \* the identity sequence of spot_order.id
          creations,    \* CreateSpotOrders transactions
          cancels,      \* CancelSpotOrder transactions
          late,         \* orders whose CancelBillBySource call outlived its transaction
          syncs,        \* orders whose bill a payment synchronisation saw completed
          page,         \* page[l]: the listing as a buyer last saw it
          clock         \* the time in seconds

goodsVars == <<goods, ledger, page, clock>>
txVars == <<creations, cancels, late>>
spotVars == <<orderVars, goodsVars, orders, nextOrder, txVars, syncs>>

\* stock -1: the listing is taken down.  second: updated_at, cut to the second
\* as CreateSpotOrders compares it.
GoodsRow == [price : Prices, stock : Nat \cup {-1}, closed : BOOLEAN, second : 0..MaxTime]

SpotOrderStatuses == {"none", "pending_payment", "paid", "completed", "cancelled"}

\* own: the buyer is the seller, and there is no bill.
OrderRow == [status : SpotOrderStatuses, listing : Listings, quantity : Quantities,
             amount : Amounts, own : BOOLEAN]

\* An item of a request, with the version and the price the buyer saw.
Item == [listing : Listings, quantity : Quantities, own : BOOLEAN,
         second : 0..MaxTime, seen : Prices]

\* An order that its transaction has inserted and not committed.  bill: whether
\* payment_bill_id is set, or the payment service has been asked for the bill.
Draft == [order : Payers, listing : Listings, quantity : Quantities, own : BOOLEAN,
          price : Prices, amount : Amounts, seen : Prices,
          bill : {"none", "asked", "attached"}]

Creation == [start : 0..MaxTime, todo : Seq(Item), made : SUBSET Draft]

Cancellation == [start : 0..MaxTime, order : Payers,
                 stage : {"lock", "getBill", "rpc", "commit"}]

-----------------------------------------------------------------------------
\* Row locks, held until the transaction ends.
OrderLocked(o) == \E d \in cancels : d.order = o /\ d.stage # "lock"

GoodsLocked(l) ==
  \/ \E c \in creations : \E m \in c.made : m.listing = l
  \/ \E d \in cancels : d.stage # "lock" /\ orders[d.order].listing = l

AtLeastZero(n) == IF n < 0 THEN 0 ELSE n

HasRoom == Cardinality(creations) + Cardinality(cancels) < MaxTxs

(* Sellers and time.                                                       *)

\* A listing the seller may edit now: not closed, its row not locked.  The
\* exact version the seller sends is the current one, or nothing happens.
Editable(l) ==
  /\ ~goods[l].closed
  /\ ~GoodsLocked(l)
  /\ SameSecond \/ goods[l].second < clock

UpdateSpotGoodsStock(l, n) ==
  /\ Editable(l)
  /\ ~(goods[l].stock = -1 /\ n = 0)
  /\ goods' = [goods EXCEPT ![l].stock = n, ![l].second = clock]
  /\ ledger' = [ledger EXCEPT ![l] = @ + AtLeastZero(n) - AtLeastZero(goods[l].stock)]
  /\ UNCHANGED <<orderVars, orders, nextOrder, txVars, syncs, page, clock>>

UpdateSpotGoodsPrice(l, price) ==
  /\ Editable(l)
  /\ goods' = [goods EXCEPT ![l].price = price, ![l].second = clock]
  /\ UNCHANGED <<orderVars, orders, nextOrder, txVars, syncs, ledger, page, clock>>

CloseSpotGoods(l) ==
  /\ Editable(l)
  /\ goods' = [goods EXCEPT ![l].closed = TRUE, ![l].second = clock]
  /\ UNCHANGED <<orderVars, orders, nextOrder, txVars, syncs, ledger, page, clock>>

\* A buyer looks at the listing.
BuyerReads(l) ==
  /\ page' = [page EXCEPT ![l] = [second |-> goods[l].second, price |-> goods[l].price]]
  /\ UNCHANGED <<orderVars, orders, nextOrder, txVars, syncs, goods, ledger, clock>>

Tick ==
  /\ clock < MaxTime
  /\ clock' = clock + 1
  /\ UNCHANGED <<orderVars, orders, nextOrder, txVars, syncs, goods, ledger, page>>

-----------------------------------------------------------------------------
(* CreateSpotOrders.                                                       *)

\* The items of a request; a request names a listing once.
Requests ==
  {s \in UNION {[1..n -> [listing : Listings, quantity : Quantities, own : Own]] :
                  n \in 1..MaxItems} :
     \A i, j \in DOMAIN s : s[i].listing = s[j].listing => i = j}

\* BEGIN; the buyer orders from the page last seen.
BeginCreate(items) ==
  /\ HasRoom
  /\ creations' = creations \cup
       {[start |-> clock, made |-> {},
         todo |-> [i \in DOMAIN items |->
                     [listing |-> items[i].listing, quantity |-> items[i].quantity,
                      own |-> items[i].own, second |-> page[items[i].listing].second,
                      seen |-> page[items[i].listing].price]]]}
  /\ UNCHANGED <<orderVars, goodsVars, orders, nextOrder, cancels, late, syncs>>

\* validateGoodsForCreateSpotOrder and checkedTotalAmount.
Orderable(item) ==
  LET row == goods[item.listing]
  IN  /\ ~row.closed
      /\ row.stock >= 0
      /\ row.second = item.second
      /\ row.stock >= item.quantity
      /\ row.price * item.quantity \in Amounts

\* No call to the payment service is under way.
NoneAsked(c) == \A m \in c.made : m.bill # "asked"

\* The next item: lock and check the listing, take its stock, insert the order
\* and, unless buyer and seller are one, ask the payment service for its bill.
TakeItem(c) ==
  /\ NoneAsked(c) /\ c.todo # <<>>
  /\ nextOrder \in Payers
  /\ LET item == Head(c.todo)
         amount == goods[item.listing].price * item.quantity
         draft == [order |-> nextOrder, listing |-> item.listing, quantity |-> item.quantity,
                   own |-> item.own, price |-> goods[item.listing].price, amount |-> amount,
                   seen |-> item.seen, bill |-> IF item.own THEN "none" ELSE "asked"]
     IN  /\ ~GoodsLocked(item.listing)
         /\ Orderable(item)
         /\ creations' = (creations \ {c}) \cup
              {[start |-> c.start, todo |-> Tail(c.todo), made |-> c.made \cup {draft}]}
         /\ IF item.own THEN UNCHANGED orderVars ELSE CreateLookup(nextOrder, amount)
  /\ nextOrder' = nextOrder + 1
  /\ UNCHANGED <<goodsVars, orders, cancels, late, syncs>>

\* The bill of draft m is attached.
Attached(c, m) ==
  creations' = (creations \ {c}) \cup
    {[c EXCEPT !.made = (@ \ {m}) \cup {[m EXCEPT !.bill = "attached"]}]}

\* Mutant of Billed: the bill is requested, but its answer not awaited.
BilledEarly(c, m) ==
  /\ m.bill = "asked"
  /\ Attached(c, m)
  /\ UNCHANGED <<orderVars, goodsVars, orders, nextOrder, cancels, late, syncs>>

\* The answer of the payment service: the bill is attached to the order.
Billed(c, m) ==
  /\ m.bill = "asked"
  /\ \E r \in creates : r.payer = m.order /\ r.stage = "ok" /\ CreateReturn(r)
  /\ Attached(c, m)
  /\ UNCHANGED <<goodsVars, orders, nextOrder, cancels, late, syncs>>

\* A draft as a committed order; the buyer's own goods need no payment.
Inserted(m) ==
  [status |-> IF m.own THEN "completed" ELSE "pending_payment", listing |-> m.listing,
   quantity |-> m.quantity, amount |-> m.amount, own |-> m.own]

\* COMMIT.  updated_at of the listings becomes now(), the start of the transaction.
CommitCreate(c) ==
  /\ NoneAsked(c) /\ c.todo = <<>>
  /\ creations' = creations \ {c}
  /\ orders' = [o \in Payers |->
       IF \E m \in c.made : m.order = o
       THEN Inserted(CHOOSE m \in c.made : m.order = o) ELSE orders[o]]
  /\ LET taken(l) == (CHOOSE m \in c.made : m.listing = l).quantity
         touched == {m.listing : m \in c.made}
     IN  /\ goods' = [l \in Listings |->
              IF l \in touched
              THEN [goods[l] EXCEPT !.stock = @ - taken(l), !.second = c.start] ELSE goods[l]]
         /\ ledger' = [l \in Listings |->
              IF l \in touched THEN ledger[l] - taken(l) ELSE ledger[l]]
  /\ UNCHANGED <<orderVars, nextOrder, cancels, late, syncs, page, clock>>

\* A check or a statement fails, two requests wait for each other's listings, or
\* the client goes away: the transaction is rolled back at any point.  A call to
\* the payment service goes on, and so does the bill it has made.
RollbackCreate(c) ==
  /\ creations' = creations \ {c}
  /\ UNCHANGED <<orderVars, goodsVars, orders, nextOrder, cancels, late, syncs>>

-----------------------------------------------------------------------------
(* CancelSpotOrder.                                                        *)

BeginCancel(o) ==
  /\ HasRoom
  /\ orders[o].status # "none"
  /\ cancels' = cancels \cup {[start |-> clock, order |-> o, stage |-> "lock"]}
  /\ UNCHANGED <<orderVars, goodsVars, orders, nextOrder, creations, late, syncs>>

CancelGoto(d, stage) == cancels' = (cancels \ {d}) \cup {[d EXCEPT !.stage = stage]}

\* lockOrderAndGoods, validateCancelableSpotOrder.  The version the buyer sent
\* is the current one; with any other the transaction rolls back.
LockForCancel(d) ==
  /\ d.stage = "lock"
  /\ ~OrderLocked(d.order) /\ ~GoodsLocked(orders[d.order].listing)
  /\ orders[d.order].status = "pending_payment"
  /\ CancelGoto(d, "getBill")
  /\ UNCHANGED <<orderVars, goodsVars, orders, nextOrder, creations, late, syncs>>

\* getBill: the bill is the order's, and not completed.
CheckForCancel(d) ==
  /\ d.stage = "getBill"
  /\ bills[d.order].amount = orders[d.order].amount
  /\ bills[d.order].status # "completed"
  /\ CancelGoto(d, "rpc")
  /\ UNCHANGED <<orderVars, goodsVars, orders, nextOrder, creations, late, syncs>>

\* CancelBillBySource succeeds in the payment service.
CancelBill(d) ==
  /\ d.stage = "rpc"
  /\ CancelBillBySource({d.order})
  /\ CancelGoto(d, "commit")
  /\ UNCHANGED <<goodsVars, orders, nextOrder, creations, late, syncs>>

\* Mutant of Released: stock is given back to a listing that was taken down.
ReleasedAlways(l, n) == n

\* releaseSpotOrderStock: a listing that was taken down gets nothing back.
Released(l, n) == IF goods[l].stock < 0 THEN 0 ELSE n

\* releaseSpotOrderStock, markSpotOrderCancelled, COMMIT; updated_at of the
\* listing becomes now(), the start of the transaction.
CommitCancel(d) ==
  /\ d.stage = "commit"
  /\ LET l == orders[d.order].listing
         n == Released(l, orders[d.order].quantity)
     IN  /\ goods' = IF n = 0 THEN goods
                     ELSE [goods EXCEPT ![l].stock = @ + n, ![l].second = d.start]
         /\ ledger' = [ledger EXCEPT ![l] = @ + n]
  /\ orders' = [orders EXCEPT ![d.order].status = "cancelled"]
  /\ cancels' = cancels \ {d}
  /\ UNCHANGED <<orderVars, nextOrder, creations, late, syncs, page, clock>>

\* A check fails, the payment service refuses, or anything else goes wrong; the
\* call to the payment service may still be on its way.
RollbackCancel(d) ==
  /\ cancels' = cancels \ {d}
  /\ late' \in {late, IF d.stage = "rpc" THEN late \cup {d.order} ELSE late}
  /\ UNCHANGED <<orderVars, goodsVars, orders, nextOrder, creations, syncs>>

LateCancel(o) ==
  /\ o \in late
  /\ CancelBillBySource({o})
  /\ late' = late \ {o}
  /\ UNCHANGED <<goodsVars, orders, nextOrder, creations, cancels, syncs>>

-----------------------------------------------------------------------------
(* Completion and payment synchronisation.                                 *)

\* CompleteSpotOrder: with order and listing locked, the bill is read; if it is
\* completed the order becomes paid and then completed.  A completed bill stays
\* so, hence one step.
CompleteSpotOrder(o) ==
  /\ orders[o].status \in {"pending_payment", "paid"}
  /\ ~OrderLocked(o) /\ ~GoodsLocked(orders[o].listing)
  /\ bills[o].status = "completed" /\ bills[o].amount = orders[o].amount
  /\ orders' = [orders EXCEPT ![o].status = "completed"]
  /\ UNCHANGED <<orderVars, goodsVars, nextOrder, txVars, syncs>>

\* Mutant of SyncRead: a payment that was only claimed counts.
SyncReadClaimed(o) ==
  /\ orders[o].status = "pending_payment"
  /\ bills[o].status \in {"submitted", "completed"} /\ bills[o].amount = orders[o].amount
  /\ syncs' = syncs \cup {o}
  /\ UNCHANGED <<orderVars, goodsVars, orders, nextOrder, txVars>>

\* syncPendingSpotOrderPayments, GetSpotOrderDetail: read a pending order and
\* its bill.  Only a completed bill leads anywhere.
SyncRead(o) ==
  /\ orders[o].status = "pending_payment"
  /\ bills[o].status = "completed" /\ bills[o].amount = orders[o].amount
  /\ syncs' = syncs \cup {o}
  /\ UNCHANGED <<orderVars, goodsVars, orders, nextOrder, txVars>>

\* Mutant of MarkSpotOrderPaid: the UPDATE does not look at the status.
MarkSpotOrderPaidUnguarded(o) ==
  /\ o \in syncs
  /\ ~OrderLocked(o)
  /\ orders' = [orders EXCEPT ![o].status = "paid"]
  /\ syncs' = syncs \ {o}
  /\ UNCHANGED <<orderVars, goodsVars, nextOrder, txVars>>

\* MarkSpotOrderPaid, any time later: UPDATE ... WHERE status = 'pending_payment'.
MarkSpotOrderPaid(o) ==
  /\ o \in syncs
  /\ ~OrderLocked(o)
  /\ orders' = IF orders[o].status = "pending_payment"
               THEN [orders EXCEPT ![o].status = "paid"] ELSE orders
  /\ syncs' = syncs \ {o}
  /\ UNCHANGED <<orderVars, goodsVars, nextOrder, txVars>>

-----------------------------------------------------------------------------
NoOrder == [status |-> "none", listing |-> CHOOSE l \in Listings : TRUE,
            quantity |-> CHOOSE q \in Quantities : TRUE,
            amount |-> CHOOSE a \in Amounts : TRUE, own |-> FALSE]

\* The listings have been published (CreateSpotGoods, with a ledger row).
SpotInit ==
  /\ OrderInit
  /\ goods \in [Listings -> [price : Prices, stock : 1..MaxStock, closed : {FALSE},
                             second : {0}]]
  /\ ledger = [l \in Listings |-> goods[l].stock]
  /\ orders = [o \in Payers |-> NoOrder]
  /\ nextOrder = 1
  /\ creations = {} /\ cancels = {} /\ late = {} /\ syncs = {}
  /\ page = [l \in Listings |-> [second |-> 0, price |-> goods[l].price]]
  /\ clock = 0

SellerStep ==
  \E l \in Listings :
    \/ \E n \in -1..MaxStock : UpdateSpotGoodsStock(l, n)
    \/ \E price \in Prices : UpdateSpotGoodsPrice(l, price)
    \/ CloseSpotGoods(l)

CreateStep ==
  \/ \E items \in Requests : BeginCreate(items)
  \/ \E c \in creations : \/ TakeItem(c) \/ CommitCreate(c) \/ RollbackCreate(c)
                          \/ \E m \in c.made : Billed(c, m)

CancelStep ==
  \/ \E o \in Payers : BeginCancel(o) \/ LateCancel(o)
  \/ \E d \in cancels : \/ LockForCancel(d) \/ CheckForCancel(d) \/ CancelBill(d)
                        \/ CommitCancel(d) \/ RollbackCancel(d)

PaymentFollowed == \E o \in Payers : CompleteSpotOrder(o) \/ SyncRead(o) \/ MarkSpotOrderPaid(o)

\* The payment service: user requests, the public CreateBill, which does not ask
\* whether there is such an order, and creation calls going on (also those nobody
\* waits for any more).
BillingStep ==
  /\ \/ UserStep(TRUE) /\ UNCHANGED creates
     \/ DirectBill
     \/ \E r \in creates : CreateInsert(r) \/ CreateFallback(r) \/ CreateReturn(r)
  /\ UNCHANGED <<goodsVars, orders, nextOrder, txVars, syncs>>

SpotNext ==
  \/ SellerStep \/ (\E l \in Listings : BuyerReads(l)) \/ Tick
  \/ CreateStep \/ CancelStep \/ PaymentFollowed \/ BillingStep

SpotSpec == SpotInit /\ [][SpotNext]_spotVars

-----------------------------------------------------------------------------
SpotTypeOK ==
  /\ OrderTypeOK
  /\ goods \in [Listings -> GoodsRow]
  /\ ledger \in [Listings -> Int]
  /\ orders \in [Payers -> OrderRow]
  /\ nextOrder \in Nat \ {0}
  /\ creations \subseteq Creation
  /\ cancels \subseteq Cancellation
  /\ late \subseteq Payers /\ syncs \subseteq Payers
  /\ page \in [Listings -> [second : 0..MaxTime, price : Prices]]
  /\ clock \in 0..MaxTime

\* "The stock ledger records every change of the stock" (comment of the table in
\* 001_init.sql): at any time the ledger adds up to the stock, a listing that is
\* taken down counting as 0, through orders, cancellations and adjustments.
LedgerMatchesStock == \A l \in Listings : ledger[l] = AtLeastZero(goods[l].stock)

\* Nobody has paid, or can still pay, for a cancelled order: whatever raced with
\* the cancellation, its bill is closed.
CancelledOrderUnpaid ==
  \A o \in Payers : orders[o].status = "cancelled" => bills[o].status = "closed"

\* An order that counts as paid or completed was paid, however old the copy of
\* the bill that was decided on.
PaidOrderWasPaid ==
  \A o \in Payers : orders[o].status \in {"paid", "completed"} /\ ~orders[o].own
                    => bills[o].status = "completed"

\* A committed order has its bill, of the order's amount.
OrderHasItsBill ==
  \A o \in Payers : orders[o].status # "none" /\ ~orders[o].own
                    => Exists(o) /\ bills[o].amount = orders[o].amount

\* "MarkSpotOrderPaid never changes a cancelled or completed order, even when the
\* payment snapshot was loaded before a concurrent order transition" (comment in
\* spot_order_payment.go): orders only move forward.
OrderMovesForward ==
  [][\A o \in Payers :
       \/ orders'[o].status = orders[o].status
       \/ orders[o].status = "none"
       \/ orders[o].status = "pending_payment"
       \/ orders[o].status = "paid" /\ orders'[o].status = "completed"]_spotVars

\* updated_at "is used to tell whether the spot good was updated, as the version
\* number of an optimistic lock" (create_spot_order.proto): an order is taken at
\* the price the buyer saw.
BoughtAsSeen == \A c \in creations : \A m \in c.made : ~m.own => m.price = m.seen
=============================================================================
