---------------------------- MODULE OrdersProofs ----------------------------
(***************************************************************************)
(* Proofs about Orders for any number of listings, users, offers, results, *)
(* orders and payment keys.                                                *)
(***************************************************************************)
EXTENDS Orders, TLAPS, SequenceTheorems

-----------------------------------------------------------------------------
(* Type correctness.                                                       *)

\* Recording rows for one order keeps the counts of the table natural numbers.
LEMMA RecordType ==
    ASSUME NEW o \in OrderIds, NEW rows,
           history \in [OrderIds -> Trail],
           Record(o, rows)
    PROVE  history' \in [OrderIds -> Trail]
<1>1. \A h \in Trail : WithRows(h, rows) \in Trail
  BY DEF Trail, WithRows
<1>2. WithRows(history[o], rows) \in Trail
  BY <1>1
<1>3. history' = [history EXCEPT ![o] = WithRows(history[o], rows)]
  BY DEF Record
<1>4. QED
  BY <1>2, <1>3

\* An order row that exists keeps every column but the status.
LEMMA StatusUpdate ==
    ASSUME TypeOK, NEW o \in OrderIds, order[o].status # "NONE",
           NEW to \in OrderStatus, SetStatus(o, to)
    PROVE  /\ order' \in [OrderIds -> OrderRow \cup {Absent}]
           /\ order[o] \in OrderRow
           /\ order'[o].status = to
           /\ order'[o].listing = order[o].listing
           /\ order'[o].buyer = order[o].buyer
           /\ order'[o].source = order[o].source
           /\ \A x \in OrderIds \ {o} : order'[x] = order[x]
<1>1. order[o] \in OrderRow
  BY DEF TypeOK, Absent
<1>2. order' = [order EXCEPT ![o] = [order[o] EXCEPT !.status = to]]
  BY DEF SetStatus
<1>3. [order[o] EXCEPT !.status = to] \in OrderRow
  BY <1>1 DEF OrderRow
<1>4. order \in [OrderIds -> OrderRow \cup {Absent}]
  BY DEF TypeOK
<1>5. /\ order'[o] = [order[o] EXCEPT !.status = to]
      /\ \A x \in OrderIds \ {o} : order'[x] = order[x]
      /\ order' \in [OrderIds -> OrderRow \cup {Absent}]
  BY <1>2, <1>3, <1>4
<1>6. QED
  BY <1>1, <1>5 DEF OrderRow

-----------------------------------------------------------------------------
(* The kinds of transaction, whichever endpoint starts them.               *)

\* An order is created from one of the three sources.
Checkout(o, l, b, source) ==
    /\ CreateOrder(o, l, b, source)
    /\ result' \in {result, [result EXCEPT ![source] = "ORDER_CREATED"]}
    /\ result' # result => source \in Results

LEMMA CheckoutKinds ==
    ASSUME OrdersAssumption, CatalogAssumption, NEW o \in OrderIds, OrderStep(o)
    PROVE  \/ \E l \in Listings, b \in Users, s \in Sources : Checkout(o, l, b, s)
           \/ CancelOrder(o)
           \/ \E k \in Keys : PaySucceeds(o, k)
           \/ \E k \in Keys : PayFails(o, k)
           \/ ShipOrder(o)
           \/ DeliverOrder(o)
<1>1. CASE \E l \in Listings, b \in Users : FixedPriceCheckout(o, l, b)
  BY <1>1 DEF FixedPriceCheckout, Checkout, Sources
<1>2. ASSUME NEW offer \in Offers, AcceptedOfferCheckout(o, offer)
      PROVE  \E l \in Listings, b \in Users, s \in Sources : Checkout(o, l, b, s)
  <2>1. /\ OfferListing[offer] \in Listings
        /\ OfferBuyer[offer] \in Users
        /\ offer \in Sources
    BY DEF OrdersAssumption, Sources
  <2>2. Checkout(o, OfferListing[offer], OfferBuyer[offer], offer)
    BY <1>2 DEF AcceptedOfferCheckout, Checkout
  <2>3. QED
    BY <2>1, <2>2
<1>3. ASSUME NEW r \in Results, AuctionWinnerCheckout(o, r)
      PROVE  \E l \in Listings, b \in Users, s \in Sources : Checkout(o, l, b, s)
  <2>1. /\ ResultListing[r] \in Listings
        /\ ResultWinner[r] \in Users
        /\ r \in Sources
    BY DEF OrdersAssumption, CatalogAssumption, Sources
  <2>2. Checkout(o, ResultListing[r], ResultWinner[r], r)
    BY <1>3 DEF AuctionWinnerCheckout, Checkout
  <2>3. QED
    BY <2>1, <2>2
<1>4. CASE BuyerCancel(o) \/ ReadExpiredOrder(o) \/ \E k \in Keys : PayExpired(o, k)
  BY <1>4 DEF BuyerCancel, ReadExpiredOrder, PayExpired
<1>5. QED
  BY <1>1, <1>2, <1>3, <1>4 DEF OrderStep

LEMMA StepKinds ==
    ASSUME OrdersAssumption, CatalogAssumption, [Next]_vars
    PROVE  \/ CatalogStep
           \/ \E o \in OrderIds, l \in Listings, b \in Users, s \in Sources :
                 Checkout(o, l, b, s)
           \/ \E o \in OrderIds : CancelOrder(o)
           \/ \E o \in OrderIds, k \in Keys : PaySucceeds(o, k)
           \/ \E o \in OrderIds, k \in Keys : PayFails(o, k)
           \/ \E o \in OrderIds : ShipOrder(o)
           \/ \E o \in OrderIds : DeliverOrder(o)
           \/ \E r \in Results : ExpireResult(r)
           \/ \E x \in OrderIds \cup Results : DeadlinePasses(x)
           \/ UNCHANGED vars
<1>1. CASE \E l \in Listings : ReleaseAbandonedOrder(l)
  BY <1>1 DEF ReleaseAbandonedOrder, LiveOrders
<1>2. CASE \E o \in OrderIds : OrderStep(o)
  BY <1>2, CheckoutKinds
<1>3. QED
  BY <1>1, <1>2 DEF Next

\* A payment attempt whatever the clock says: what its effect on the rows rests on.
Owing(o) ==
    /\ order[o].status \in Unpaid
    /\ order[o].status = "PAYMENT_FAILED" =>
          listing[order[o].listing] \in {"ACTIVE", "RESERVED"}

Paid(o, k) ==
    /\ Attempt(o, k) /\ Owing(o)
    /\ Pay(k, o, "SUCCEEDED")
    /\ SetStatus(o, "PAID")
    /\ listing' = [listing EXCEPT ![order[o].listing] = "SOLD"]
    /\ Record(o, AttemptSteps(o, "PAID"))

Declined(o, k) ==
    /\ Attempt(o, k) /\ Owing(o)
    /\ Pay(k, o, "FAILED")
    /\ SetStatus(o, "PAYMENT_FAILED")
    /\ listing' = IF order[o].status = "PAYMENT_FAILED" \/ listing[order[o].listing] = "RESERVED"
                  THEN [listing EXCEPT ![order[o].listing] = "ACTIVE"] ELSE listing
    /\ Record(o, AttemptSteps(o, "PAYMENT_FAILED"))

\* What the trade may do to listings, orders, payments and the audit trail in one
\* transaction, and any transaction with it.
TradeStep ==
    \/ \E o \in OrderIds, l \in Listings, b \in Users, s \in Sources : Checkout(o, l, b, s)
    \/ \E o \in OrderIds : CancelOrder(o)
    \/ \E o \in OrderIds, k \in Keys : Paid(o, k)
    \/ \E o \in OrderIds, k \in Keys : Declined(o, k)
    \/ \E o \in OrderIds : ShipOrder(o)
    \/ \E o \in OrderIds : DeliverOrder(o)
    \/ UNCHANGED <<listing, order, payment, history>>

Transaction == CatalogStep \/ TradeStep

LEMMA NextIsTransaction ==
    ASSUME OrdersAssumption, CatalogAssumption, [Next]_vars
    PROVE  Transaction
<1>1. ASSUME NEW o \in OrderIds, NEW k \in Keys, PaySucceeds(o, k)
      PROVE  Paid(o, k)
  BY <1>1 DEF PaySucceeds, Paid, Payable, Owing
<1>2. ASSUME NEW o \in OrderIds, NEW k \in Keys, PayFails(o, k)
      PROVE  Declined(o, k)
  BY <1>2 DEF PayFails, Declined, Payable, Owing
<1>3. CASE \/ \E r \in Results : ExpireResult(r)
           \/ \E x \in OrderIds \cup Results : DeadlinePasses(x)
           \/ UNCHANGED vars
  BY <1>3, Zenon DEF ExpireResult, DeadlinePasses, vars, Transaction, TradeStep
<1>4. QED
  BY <1>1, <1>2, <1>3, StepKinds DEF Transaction, TradeStep

-----------------------------------------------------------------------------
LEMMA InitTypeOK ==
    ASSUME Init
    PROVE  TypeOK
<1>1. history \in [OrderIds -> Trail]
  BY DEF Init, NoRows, Trail
<1>2. shipment \in [OrderIds -> Seq({"SHIPPED", "DELIVERED"})]
  <2>1. <<>> \in Seq({"SHIPPED", "DELIVERED"})
    BY EmptySeq, Zenon
  <2>2. QED
    BY <2>1 DEF Init
<1>3. QED
  BY <1>1, <1>2 DEF Init, CatalogInit, TypeOK, CatalogTypeOK, ListingStatus

\* A catalog or moderation step moves one listing.
LEMMA CatalogMoves ==
    ASSUME CatalogStep
    PROVE  \E l \in Listings, to \in ListingStatus : listing' = [listing EXCEPT ![l] = to]
<1>1. PICK l \in Listings :
         \/ SubmitListing(l, {ResultListing[r] : r \in Results})
         \/ \E target \in ListingStatus : UpdateListing(l, target)
         \/ RemoveListing(l)
         \/ RestoreListing(l)
  BY Zenon DEF CatalogStep, CatalogNext
<1>2. CASE \E target \in ListingStatus : UpdateListing(l, target)
  BY <1>2, Zenon DEF UpdateListing
<1>3. CASE ~ \E target \in ListingStatus : UpdateListing(l, target)
  <2>1. \E to \in {"ACTIVE", "REMOVED"} : listing' = [listing EXCEPT ![l] = to]
    BY <1>1, <1>3, Zenon DEF SubmitListing, RemoveListing, RestoreListing, Move
  <2>2. QED
    BY <2>1 DEF ListingStatus
<1>4. QED
  BY <1>2, <1>3

\* The latest shipment is marked, and none is added.
LEMMA LatestDeliveredType ==
    ASSUME NEW rows \in Seq({"SHIPPED", "DELIVERED"})
    PROVE  LatestDelivered(rows) \in Seq({"SHIPPED", "DELIVERED"})
<1>1. CASE rows # <<>>
  <2>1. Len(rows) \in 1..Len(rows)
    BY <1>1, EmptySeq
  <2>2. [rows EXCEPT ![Len(rows)] = "DELIVERED"] \in Seq({"SHIPPED", "DELIVERED"})
    BY <2>1, ExceptSeq
  <2>3. QED
    BY <1>1, <2>2 DEF LatestDelivered
<1>2. QED
  BY <1>1 DEF LatestDelivered

\* Every transaction keeps every column within its type.
LEMMA NextTypeOK ==
    ASSUME OrdersAssumption, CatalogAssumption, TypeOK, [Next]_vars
    PROVE  TypeOK'
<1>1. CASE CatalogStep
  <2>1. \E l \in Listings, to \in ListingStatus : listing' = [listing EXCEPT ![l] = to]
    BY <1>1, CatalogMoves
  <2>2. listing' \in [Listings -> ListingStatus]
    BY <2>1 DEF TypeOK, CatalogTypeOK
  <2>3. QED
    BY <1>1, <2>2 DEF CatalogStep, TypeOK, CatalogTypeOK
<1>2. ASSUME NEW o \in OrderIds, NEW l \in Listings, NEW b \in Users, NEW s \in Sources,
             Checkout(o, l, b, s)
      PROVE  TypeOK'
  <2> USE <1>2 DEF Checkout, CreateOrder
  <2>1. order' \in [OrderIds -> OrderRow \cup {Absent}]
    BY DEF TypeOK, OrderRow, OrderStatus
  <2>2. history' \in [OrderIds -> Trail]
    BY RecordType DEF TypeOK
  <2>3. listing' \in [Listings -> ListingStatus]
    BY DEF TypeOK, CatalogTypeOK, ListingStatus
  <2>4. result' \in [Results -> {"AWAITING_CHECKOUT", "ORDER_CREATED",
                                 "PAYMENT_COMPLETED", "PAYMENT_EXPIRED"}]
    BY DEF TypeOK
  <2>5. QED
    BY <2>1, <2>2, <2>3, <2>4 DEF TypeOK, CatalogTypeOK
<1>3. ASSUME NEW o \in OrderIds, CancelOrder(o)
      PROVE  TypeOK'
  <2> USE <1>3 DEF CancelOrder, Cancellable
  <2>1. order' \in [OrderIds -> OrderRow \cup {Absent}]
    BY StatusUpdate DEF Unpaid, OrderStatus
  <2>2. order[o].status \in OrderStatus
    BY DEF Unpaid, OrderStatus
  <2>3. history' \in [OrderIds -> Trail]
    BY RecordType DEF TypeOK
  <2>4. listing' \in [Listings -> ListingStatus]
    BY DEF TypeOK, CatalogTypeOK, ListingStatus, Restored
  <2>5. result' \in [Results -> {"AWAITING_CHECKOUT", "ORDER_CREATED",
                                 "PAYMENT_COMPLETED", "PAYMENT_EXPIRED"}]
    BY DEF TypeOK, Forfeited
  <2>6. QED
    BY <2>1, <2>3, <2>4, <2>5 DEF TypeOK, CatalogTypeOK
<1>4. ASSUME NEW o \in OrderIds, NEW k \in Keys, PaySucceeds(o, k)
      PROVE  TypeOK'
  <2> USE <1>4 DEF PaySucceeds, Payable
  <2>1. order' \in [OrderIds -> OrderRow \cup {Absent}]
    BY StatusUpdate DEF Unpaid, OrderStatus
  <2>2. history' \in [OrderIds -> Trail]
    BY RecordType DEF TypeOK
  <2>3. listing' \in [Listings -> ListingStatus]
    BY DEF TypeOK, CatalogTypeOK, ListingStatus
  <2>4. payment' \in [Keys -> PaymentRow \cup {Absent}]
    BY DEF TypeOK, Pay, PaymentRow
  <2>5. /\ result' \in [Results -> {"AWAITING_CHECKOUT", "ORDER_CREATED",
                                    "PAYMENT_COMPLETED", "PAYMENT_EXPIRED"}]
        /\ auction' \in [Results -> {"ENDED", "SETTLED"}]
    BY DEF TypeOK
  <2>6. QED
    BY <2>1, <2>2, <2>3, <2>4, <2>5 DEF TypeOK, CatalogTypeOK
<1>5. ASSUME NEW o \in OrderIds, NEW k \in Keys, PayFails(o, k)
      PROVE  TypeOK'
  <2> USE <1>5 DEF PayFails, Payable
  <2>1. order' \in [OrderIds -> OrderRow \cup {Absent}]
    BY StatusUpdate DEF Unpaid, OrderStatus
  <2>2. history' \in [OrderIds -> Trail]
    BY RecordType DEF TypeOK
  <2>3. listing' \in [Listings -> ListingStatus]
    BY DEF TypeOK, CatalogTypeOK, ListingStatus
  <2>4. payment' \in [Keys -> PaymentRow \cup {Absent}]
    BY DEF TypeOK, Pay, PaymentRow
  <2>5. QED
    BY <2>1, <2>2, <2>3, <2>4 DEF TypeOK, CatalogTypeOK
<1>6. ASSUME NEW o \in OrderIds, ShipOrder(o)
      PROVE  TypeOK'
  <2> USE <1>6 DEF ShipOrder
  <2>1. order' \in [OrderIds -> OrderRow \cup {Absent}]
    BY StatusUpdate DEF OrderStatus
  <2>2. history' \in [OrderIds -> Trail]
    BY RecordType DEF TypeOK
  <2>3. shipment' \in [OrderIds -> Seq({"SHIPPED", "DELIVERED"})]
    <3>1. Append(shipment[o], "SHIPPED") \in Seq({"SHIPPED", "DELIVERED"})
      BY DEF TypeOK
    <3>2. QED
      BY <3>1 DEF TypeOK
  <2>4. QED
    BY <2>1, <2>2, <2>3 DEF TypeOK, CatalogTypeOK
<1>7. ASSUME NEW o \in OrderIds, DeliverOrder(o)
      PROVE  TypeOK'
  <2> USE <1>7 DEF DeliverOrder
  <2>1. order' \in [OrderIds -> OrderRow \cup {Absent}]
    BY StatusUpdate DEF OrderStatus
  <2>2. history' \in [OrderIds -> Trail]
    BY RecordType DEF TypeOK
  <2>3. shipment' \in [OrderIds -> Seq({"SHIPPED", "DELIVERED"})]
    <3>1. LatestDelivered(shipment[o]) \in Seq({"SHIPPED", "DELIVERED"})
      BY LatestDeliveredType DEF TypeOK
    <3>2. QED
      BY <3>1 DEF TypeOK
  <2>4. QED
    BY <2>1, <2>2, <2>3 DEF TypeOK, CatalogTypeOK
<1>8. CASE \E r \in Results : ExpireResult(r)
  BY <1>8 DEF ExpireResult, TypeOK, CatalogTypeOK
<1>9. CASE \E x \in OrderIds \cup Results : DeadlinePasses(x)
  BY <1>9 DEF DeadlinePasses, TypeOK, CatalogTypeOK
<1>10. CASE UNCHANGED vars
  BY <1>10 DEF vars, TypeOK, CatalogTypeOK
<1>11. QED
  BY <1>1, <1>2, <1>3, <1>4, <1>5, <1>6, <1>7, <1>8, <1>9, <1>10, StepKinds

\* The columns only ever hold the values their types allow, whatever admins,
\* sellers, buyers and the clock do, in any number.
THEOREM TypeCorrect == Spec => []TypeOK
<1>1. Init => TypeOK
  BY InitTypeOK
<1>2. TypeOK /\ [Next]_vars => TypeOK'
  BY NextTypeOK, OrdersAssumption, CatalogAssumption
<1>3. QED
  BY <1>1, <1>2, PTL DEF Spec

-----------------------------------------------------------------------------
(* Money.                                                                  *)

\* A payment that does not succeed charges nobody and frees nobody.
LEMMA SameCharges ==
    ASSUME UNCHANGED payment
    PROVE  \A o \in OrderIds : Charged(o)' <=> Charged(o)
BY DEF Charged

LEMMA NextLedger ==
    ASSUME OrdersAssumption, CatalogAssumption, TypeOK, LedgerInv, Transaction
    PROVE  LedgerInv'
<1> USE DEF LedgerInv
<1>1. CASE UNCHANGED <<order, payment>>
  BY <1>1 DEF OneLiveOrder, Live, MoneyMatchesOrders, OneChargePerOrder, Charged
<1>2. ASSUME NEW o \in OrderIds, NEW l \in Listings, NEW b \in Users, NEW s \in Sources,
             Checkout(o, l, b, s)
      PROVE  LedgerInv'
  <2> USE <1>2 DEF Checkout, CreateOrder
  <2>1. /\ order'[o] = [status |-> "PENDING_PAYMENT", listing |-> l, buyer |-> b, source |-> s]
        /\ \A x \in OrderIds \ {o} : order'[x] = order[x]
    BY DEF TypeOK
  <2>2. OneLiveOrder'
    BY <2>1 DEF OneLiveOrder, Live, Insertable, LiveOrders
  <2>3. MoneyMatchesOrders'
    BY <2>1, SameCharges DEF MoneyMatchesOrders, Sold, Absent
  <2>4. QED
    BY <2>2, <2>3 DEF OneChargePerOrder
<1>3. ASSUME NEW o \in OrderIds, CancelOrder(o)
      PROVE  LedgerInv'
  <2> USE <1>3 DEF CancelOrder, Cancellable
  <2>1. /\ order[o].status \in Unpaid
        /\ order'[o].status = "CANCELLED"
        /\ \A x \in OrderIds \ {o} : order'[x] = order[x]
    BY StatusUpdate DEF Unpaid, OrderStatus
  <2>2. OneLiveOrder'
    BY <2>1 DEF OneLiveOrder, Live, Unpaid, Sold
  <2>3. MoneyMatchesOrders'
    BY <2>1, SameCharges DEF MoneyMatchesOrders, Sold, Unpaid
  <2>4. QED
    BY <2>2, <2>3 DEF OneChargePerOrder
<1>4. ASSUME NEW o \in OrderIds, NEW k \in Keys, Paid(o, k)
      PROVE  LedgerInv'
  <2> USE <1>4 DEF Paid, Owing, Attempt
  <2>1. /\ order[o].status \in Unpaid
        /\ order'[o].status = "PAID"
        /\ order'[o].listing = order[o].listing
        /\ \A x \in OrderIds \ {o} : order'[x] = order[x]
    BY StatusUpdate DEF Unpaid, OrderStatus
  <2>2. /\ payment'[k] = [order |-> o, status |-> "SUCCEEDED"]
        /\ \A j \in Keys \ {k} : payment'[j] = payment[j]
    BY DEF Pay, TypeOK
  <2>3. OneLiveOrder'
    BY <2>1 DEF OneLiveOrder, Live, Unpaid, Sold
  <2>4. \A x \in OrderIds : Charged(x)' <=> (x = o \/ Charged(x))
    BY <2>2 DEF Charged, Absent
  <2>5. MoneyMatchesOrders'
    BY <2>1, <2>4 DEF MoneyMatchesOrders, Sold, Unpaid
  <2>6. OneChargePerOrder'
    BY <2>2 DEF OneChargePerOrder, Charged
  <2>7. QED
    BY <2>3, <2>5, <2>6
<1>5. ASSUME NEW o \in OrderIds, NEW k \in Keys, Declined(o, k)
      PROVE  LedgerInv'
  <2> USE <1>5 DEF Declined, Owing, Attempt
  <2>1. /\ order[o].status \in Unpaid
        /\ order'[o].status = "PAYMENT_FAILED"
        /\ order'[o].listing = order[o].listing
        /\ \A x \in OrderIds \ {o} : order'[x] = order[x]
    BY StatusUpdate DEF Unpaid, OrderStatus
  <2>2. /\ payment'[k] = [order |-> o, status |-> "FAILED"]
        /\ \A j \in Keys \ {k} : payment'[j] = payment[j]
    BY DEF Pay, TypeOK
  <2>3. OneLiveOrder'
    BY <2>1 DEF OneLiveOrder, Live, Unpaid, Sold
  <2>4. \A x \in OrderIds : Charged(x)' <=> Charged(x)
    BY <2>2 DEF Charged, Absent
  <2>5. MoneyMatchesOrders'
    BY <2>1, <2>4 DEF MoneyMatchesOrders, Sold, Unpaid
  <2>6. OneChargePerOrder'
    BY <2>2 DEF OneChargePerOrder
  <2>7. QED
    BY <2>3, <2>5, <2>6
<1>6. ASSUME NEW o \in OrderIds, ShipOrder(o) \/ DeliverOrder(o)
      PROVE  LedgerInv'
  <2> USE <1>6 DEF ShipOrder, DeliverOrder
  <2>1. /\ order[o].status \in Sold
        /\ order'[o].status \in Sold
        /\ order'[o].listing = order[o].listing
        /\ \A x \in OrderIds \ {o} : order'[x] = order[x]
    BY StatusUpdate DEF Sold, OrderStatus
  <2>2. OneLiveOrder'
    BY <2>1 DEF OneLiveOrder, Live
  <2>3. MoneyMatchesOrders'
    BY <2>1, SameCharges DEF MoneyMatchesOrders
  <2>4. QED
    BY <2>2, <2>3 DEF OneChargePerOrder
<1>7. CASE CatalogStep \/ UNCHANGED <<listing, order, payment, history>>
  BY <1>1, <1>7, Zenon DEF CatalogStep
<1>8. QED
  BY <1>2, <1>3, <1>4, <1>5, <1>6, <1>7 DEF Transaction, TradeStep

\* Orders and payments agree in every reachable state, admin overrides included: what
\* pay_order charges and what uq_orders_listing_id admits fit together.
THEOREM LedgerCorrect == Spec => []LedgerInv
<1>1. Init => LedgerInv
  BY DEF Init, LedgerInv, OneLiveOrder, Live, MoneyMatchesOrders, OneChargePerOrder,
         Charged, Absent, Unpaid, Sold
<1>2. TypeOK /\ LedgerInv /\ [Next]_vars => LedgerInv'
  BY NextLedger, NextIsTransaction, OrdersAssumption, CatalogAssumption
<1>3. QED
  BY <1>1, <1>2, TypeCorrect, PTL DEF Spec

\* An order is charged exactly when it is PAID or further (pay_order, ship_order,
\* deliver_order): no cancellation or expiry touches an order that has been charged.
THEOREM MoneyCorrect == Spec => []MoneyMatchesOrders
BY LedgerCorrect, PTL DEF LedgerInv

\* Two successful payments are for two listings: a listing is sold once, for any
\* number of buyers, orders and keys and whatever admins do to its status.
THEOREM SoldOnce == Spec => []NoDoubleSale
<1>1. TypeOK /\ LedgerInv => NoDoubleSale
  <2> SUFFICES ASSUME TypeOK, LedgerInv, NEW j \in Keys, NEW k \in Keys, j # k,
                      payment[j].status = "SUCCEEDED", payment[k].status = "SUCCEEDED"
               PROVE  order[payment[j].order].listing # order[payment[k].order].listing
    BY DEF NoDoubleSale
  <2>1. payment[j].order \in OrderIds /\ payment[k].order \in OrderIds
    BY DEF TypeOK, PaymentRow, Absent
  <2>2. Live(payment[j].order) /\ Live(payment[k].order)
    BY <2>1 DEF LedgerInv, MoneyMatchesOrders, Charged, Live
  <2>3. payment[j].order # payment[k].order
    BY DEF LedgerInv, OneChargePerOrder
  <2>4. QED
    BY <2>1, <2>2, <2>3 DEF LedgerInv, OneLiveOrder
<1>2. QED
  BY <1>1, TypeCorrect, LedgerCorrect, PTL

-----------------------------------------------------------------------------
(* Listings and orders.  An admin override can set any status, so these    *)
(* hold where there is none.                                               *)

\* Some order on listing l has one of the statuses S.
OrderOn(l, S) == \E o \in OrderIds : order[o].status \in S /\ order[o].listing = l

\* ReservationBacked and SoldBacked, one listing at a time.
ShelfInv ==
    \A l \in Listings :
        /\ (listing[l] = "RESERVED") <=> OrderOn(l, {"PENDING_PAYMENT"})
        /\ (listing[l] = "SOLD") <=> OrderOn(l, Sold)

LEMMA ShelfSets ==
    ASSUME TypeOK, ShelfInv
    PROVE  ReservationBacked /\ SoldBacked
<1>1. ASSUME NEW S \in SUBSET OrderStatus, NEW o \in OrderIds, order[o].status \in S
      PROVE  order[o].listing \in Listings
  BY <1>1 DEF TypeOK, OrderRow, Absent, OrderStatus
<1>2. ASSUME NEW S \in SUBSET OrderStatus
      PROVE  ListingsOf(S) = {l \in Listings : OrderOn(l, S)}
  BY <1>1, <1>2 DEF ListingsOf, OrderOn
<1>3. {"PENDING_PAYMENT"} \in SUBSET OrderStatus /\ Sold \in SUBSET OrderStatus
  BY DEF OrderStatus, Sold
<1>4. QED
  BY <1>2, <1>3 DEF ReservationBacked, SoldBacked, ShelfInv

\* The seller and moderators only ever take a listing between the statuses that
\* no order stands behind.
LEMMA CatalogShelf ==
    ASSUME ~AdminOverrides, TypeOK, CatalogStep
    PROVE  \A l \in Listings :
              /\ (listing'[l] = "RESERVED") <=> (listing[l] = "RESERVED")
              /\ (listing'[l] = "SOLD") <=> (listing[l] = "SOLD")
<1>1. PICK l \in Listings :
         \/ SubmitListing(l, {ResultListing[r] : r \in Results})
         \/ \E target \in ListingStatus : UpdateListing(l, target)
         \/ RemoveListing(l)
         \/ RestoreListing(l)
  BY Zenon DEF CatalogStep, CatalogNext
<1>2. CASE \E target \in ListingStatus : UpdateListing(l, target)
  <2>1. PICK target \in ListingStatus :
           /\ <<listing[l], target>> \in SellerTransitions
           /\ listing' = [listing EXCEPT ![l] = target]
    BY <1>2, Zenon DEF UpdateListing
  <2>2. QED
    BY <2>1 DEF SellerTransitions, TypeOK, CatalogTypeOK
<1>3. CASE ~ \E target \in ListingStatus : UpdateListing(l, target)
  <2>1. \E from, to \in {"DRAFT", "ACTIVE", "REMOVED"} :
           listing[l] = from /\ listing' = [listing EXCEPT ![l] = to]
    BY <1>1, <1>3, Zenon DEF SubmitListing, RemoveListing, RestoreListing, Move
  <2>2. QED
    BY <2>1 DEF TypeOK, CatalogTypeOK
<1>4. QED
  BY <1>2, <1>3

LEMMA TradeShelf ==
    ASSUME OrdersAssumption, CatalogAssumption, TypeOK, LedgerInv, ShelfInv, TradeStep
    PROVE  ShelfInv'
<1>1. CASE UNCHANGED <<listing, order>>
  BY <1>1 DEF ShelfInv, OrderOn
<1>2. ASSUME NEW o \in OrderIds, NEW l \in Listings, NEW b \in Users, NEW s \in Sources,
             Checkout(o, l, b, s)
      PROVE  ShelfInv'
  <2> USE <1>2 DEF Checkout, CreateOrder
  <2>1. /\ order'[o] = [status |-> "PENDING_PAYMENT", listing |-> l, buyer |-> b, source |-> s]
        /\ \A x \in OrderIds \ {o} : order'[x] = order[x]
        /\ order[o].status = "NONE"
    BY DEF TypeOK, Absent
  <2>2. /\ listing[l] = "ACTIVE" /\ listing'[l] = "RESERVED"
        /\ \A x \in Listings \ {l} : listing'[x] = listing[x]
    BY DEF TypeOK, CatalogTypeOK
  <2>3. QED
    BY <2>1, <2>2 DEF ShelfInv, OrderOn, Sold
<1>3. ASSUME NEW o \in OrderIds, CancelOrder(o)
      PROVE  ShelfInv'
  <2> USE <1>3 DEF CancelOrder, Cancellable
  <2>1. /\ order[o].status \in Unpaid /\ order[o] \in OrderRow
        /\ order'[o].status = "CANCELLED" /\ order'[o].listing = order[o].listing
        /\ \A x \in OrderIds \ {o} : order'[x] = order[x]
    BY StatusUpdate DEF Unpaid, OrderStatus
  <2>2. PICK l \in Listings : l = order[o].listing
    BY <2>1 DEF OrderRow
  <2>3. \A x \in OrderIds : Live(x) /\ order[x].listing = l => x = o
    BY <2>1, <2>2 DEF LedgerInv, OneLiveOrder, Live
  <2>4. /\ listing'[l] = IF listing[l] = "RESERVED" THEN "ACTIVE" ELSE listing[l]
        /\ \A x \in Listings \ {l} : listing'[x] = listing[x]
    BY <2>2 DEF Restored, TypeOK, CatalogTypeOK
  <2>5. ~OrderOn(l, {"PENDING_PAYMENT"})' /\ ~OrderOn(l, Sold)' /\ ~OrderOn(l, Sold)
    BY <2>1, <2>2, <2>3 DEF OrderOn, Live, Unpaid, Sold
  <2>6. \A x \in Listings \ {l} :
           /\ OrderOn(x, {"PENDING_PAYMENT"})' <=> OrderOn(x, {"PENDING_PAYMENT"})
           /\ OrderOn(x, Sold)' <=> OrderOn(x, Sold)
    BY <2>1, <2>2 DEF OrderOn, Sold
  <2>7. QED
    BY <2>2, <2>4, <2>5, <2>6 DEF ShelfInv
<1>4. ASSUME NEW o \in OrderIds, NEW k \in Keys, Paid(o, k)
      PROVE  ShelfInv'
  <2> USE <1>4 DEF Paid, Owing
  <2>1. /\ order[o].status \in Unpaid /\ order[o] \in OrderRow
        /\ order'[o].status = "PAID" /\ order'[o].listing = order[o].listing
        /\ \A x \in OrderIds \ {o} : order'[x] = order[x]
    BY StatusUpdate DEF Unpaid, OrderStatus
  <2>2. PICK l \in Listings : l = order[o].listing
    BY <2>1 DEF OrderRow
  <2>3. \A x \in OrderIds : Live(x) /\ order[x].listing = l => x = o
    BY <2>1, <2>2 DEF LedgerInv, OneLiveOrder, Live
  <2>4. /\ listing'[l] = "SOLD"
        /\ \A x \in Listings \ {l} : listing'[x] = listing[x]
    BY <2>2 DEF TypeOK, CatalogTypeOK
  <2>5. ~OrderOn(l, {"PENDING_PAYMENT"})' /\ OrderOn(l, Sold)'
    BY <2>1, <2>2, <2>3 DEF OrderOn, Live, Unpaid, Sold
  <2>6. \A x \in Listings \ {l} :
           /\ OrderOn(x, {"PENDING_PAYMENT"})' <=> OrderOn(x, {"PENDING_PAYMENT"})
           /\ OrderOn(x, Sold)' <=> OrderOn(x, Sold)
    BY <2>1, <2>2 DEF OrderOn, Sold
  <2>7. QED
    BY <2>2, <2>4, <2>5, <2>6 DEF ShelfInv
<1>5. ASSUME NEW o \in OrderIds, NEW k \in Keys, Declined(o, k)
      PROVE  ShelfInv'
  <2> USE <1>5 DEF Declined, Owing
  <2>1. /\ order[o].status \in Unpaid /\ order[o] \in OrderRow
        /\ order'[o].status = "PAYMENT_FAILED" /\ order'[o].listing = order[o].listing
        /\ \A x \in OrderIds \ {o} : order'[x] = order[x]
    BY StatusUpdate DEF Unpaid, OrderStatus
  <2>2. PICK l \in Listings : l = order[o].listing
    BY <2>1 DEF OrderRow
  <2>3. \A x \in OrderIds : Live(x) /\ order[x].listing = l => x = o
    BY <2>1, <2>2 DEF LedgerInv, OneLiveOrder, Live
  <2>4. /\ listing'[l] \in {"ACTIVE", listing[l]} /\ listing'[l] \notin {"RESERVED"}
        /\ listing[l] # "SOLD" /\ listing'[l] # "SOLD"
        /\ \A x \in Listings \ {l} : listing'[x] = listing[x]
    BY <2>1, <2>2, <2>3 DEF TypeOK, CatalogTypeOK, ShelfInv, OrderOn, Live, Unpaid, Sold
  <2>5. ~OrderOn(l, {"PENDING_PAYMENT"})' /\ ~OrderOn(l, Sold)'
    BY <2>1, <2>2, <2>3 DEF OrderOn, Live, Unpaid, Sold
  <2>6. \A x \in Listings \ {l} :
           /\ OrderOn(x, {"PENDING_PAYMENT"})' <=> OrderOn(x, {"PENDING_PAYMENT"})
           /\ OrderOn(x, Sold)' <=> OrderOn(x, Sold)
    BY <2>1, <2>2 DEF OrderOn, Sold
  <2>7. QED
    BY <2>2, <2>4, <2>5, <2>6 DEF ShelfInv
<1>6. ASSUME NEW o \in OrderIds, ShipOrder(o) \/ DeliverOrder(o)
      PROVE  ShelfInv'
  <2> USE <1>6 DEF ShipOrder, DeliverOrder
  <2>1. /\ order[o].status \in Sold /\ order'[o].status \in Sold
        /\ order'[o].listing = order[o].listing
        /\ \A x \in OrderIds \ {o} : order'[x] = order[x]
        /\ UNCHANGED listing
    BY StatusUpdate DEF Sold, OrderStatus
  <2>2. \A x \in Listings :
           /\ OrderOn(x, {"PENDING_PAYMENT"})' <=> OrderOn(x, {"PENDING_PAYMENT"})
           /\ OrderOn(x, Sold)' <=> OrderOn(x, Sold)
    BY <2>1 DEF OrderOn, Sold
  <2>3. QED
    BY <2>1, <2>2 DEF ShelfInv
<1>7. QED
  BY <1>1, <1>2, <1>3, <1>4, <1>5, <1>6 DEF TradeStep

LEMMA NextShelf ==
    ASSUME OrdersAssumption, CatalogAssumption, ~AdminOverrides,
           TypeOK, LedgerInv, ShelfInv, Transaction
    PROVE  ShelfInv'
<1>1. CASE CatalogStep
  <2>1. UNCHANGED order
    BY <1>1, Zenon DEF CatalogStep
  <2>2. QED
    BY <1>1, <2>1, CatalogShelf DEF ShelfInv, OrderOn
<1>2. QED
  BY <1>1, TradeShelf DEF Transaction

LEMMA ShelfAlways ==
    ASSUME ~AdminOverrides
    PROVE  Spec => []ShelfInv
<1>1. Init => ShelfInv
  <2> SUFFICES ASSUME Init, NEW l \in Listings
               PROVE  /\ listing[l] \notin {"RESERVED", "SOLD"}
                      /\ ~OrderOn(l, {"PENDING_PAYMENT"}) /\ ~OrderOn(l, Sold)
    BY DEF ShelfInv
  <2>1. \A o \in OrderIds : order[o].status = "NONE"
    BY DEF Init, Absent
  <2>2. QED
    BY <2>1 DEF Init, CatalogInit, OrderOn, Sold
<1>2. TypeOK /\ LedgerInv /\ ShelfInv /\ [Next]_vars => ShelfInv'
  BY NextShelf, NextIsTransaction, OrdersAssumption, CatalogAssumption
<1>3. QED
  BY <1>1, <1>2, TypeCorrect, LedgerCorrect, PTL DEF Spec

\* Without admin overrides, a listing is RESERVED exactly while an order on it
\* awaits payment and SOLD exactly when one has been paid.
THEOREM ShelfCorrect ==
    ASSUME ~AdminOverrides
    PROVE  Spec => [](ReservationBacked /\ SoldBacked)
<1>1. TypeOK /\ ShelfInv => ReservationBacked /\ SoldBacked
  BY ShelfSets
<1>2. QED
  BY <1>1, ShelfAlways, TypeCorrect, PTL

-----------------------------------------------------------------------------
(* Steps that may never happen.                                            *)

\* Without admin overrides, no checkout, payment, cancellation or expiry moves a
\* listing that its seller archived or a moderator removed, although orders on it may
\* be declined, retried or given up meanwhile.
THEOREM ModerationHolds ==
    ASSUME ~AdminOverrides
    PROVE  Spec => TakenDownStaysDown
<1> DEFINE Down(l) == /\ listing[l] = "ARCHIVED" => listing'[l] = "ARCHIVED"
                      /\ listing[l] = "REMOVED" /\ listing'[l] # "REMOVED"
                         => /\ listing'[l] = "ACTIVE"
                            /\ UNCHANGED <<order, payment, result, auction, shipment, history>>
<1>1. ASSUME OrdersAssumption, CatalogAssumption, TypeOK, ShelfInv, [Next]_vars,
             NEW l \in Listings
      PROVE  Down(l)
  <2>1. CASE UNCHANGED listing
    BY <2>1
  <2>2. CASE CatalogStep
    <3>1. PICK x \in Listings :
             \/ SubmitListing(x, {ResultListing[r] : r \in Results})
             \/ \E target \in ListingStatus : UpdateListing(x, target)
             \/ RemoveListing(x)
             \/ RestoreListing(x)
      BY <2>2, Zenon DEF CatalogStep, CatalogNext
    <3>2. ASSUME NEW target \in ListingStatus, UpdateListing(x, target)
          PROVE  Down(l)
      <4>1. /\ <<listing[x], target>> \in SellerTransitions
            /\ listing' = [listing EXCEPT ![x] = target]
        BY <3>2, Zenon DEF UpdateListing
      <4>2. listing[l] \in {"ARCHIVED", "REMOVED"} => listing'[l] = listing[l]
        BY <1>1, <4>1 DEF SellerTransitions, TypeOK, CatalogTypeOK
      <4>3. QED
        BY <4>2
    <3>3. CASE ~ \E target \in ListingStatus : UpdateListing(x, target)
      <4>1. \/ listing[x] \in {"DRAFT", "REMOVED"} /\ listing' = [listing EXCEPT ![x] = "ACTIVE"]
            \/ listing[x] = "ACTIVE" /\ listing' = [listing EXCEPT ![x] = "REMOVED"]
        BY <3>1, <3>3, Zenon DEF SubmitListing, RemoveListing, RestoreListing, Move
      <4>2. UNCHANGED <<order, payment, result, auction, shipment, history>>
        BY <2>2, Zenon DEF CatalogStep
      <4>3. QED
        BY <1>1, <4>1, <4>2 DEF TypeOK, CatalogTypeOK
    <3>4. QED
      BY <3>2, <3>3
  <2>3. ASSUME NEW o \in OrderIds, NEW x \in Listings, NEW b \in Users, NEW s \in Sources,
               Checkout(o, x, b, s)
        PROVE  Down(l)
    BY <1>1, <2>3 DEF Checkout, CreateOrder, TypeOK, CatalogTypeOK
  <2>4. ASSUME NEW o \in OrderIds, CancelOrder(o)
        PROVE  Down(l)
    <3>1. listing' = Restored(order[o].listing)
      BY <2>4 DEF CancelOrder
    <3>2. QED
      BY <1>1, <3>1 DEF Restored, TypeOK, CatalogTypeOK
  <2>5. ASSUME NEW o \in OrderIds, order[o].status \in Unpaid, Payable(o),
               NEW to \in ListingStatus,
               listing' \in {listing, [listing EXCEPT ![order[o].listing] = to]}
        PROVE  Down(l)
    <3>1. order[o].listing \in Listings
      BY <1>1, <2>5 DEF TypeOK, OrderRow, Absent, Unpaid
    <3>2. listing[order[o].listing] \in {"ACTIVE", "RESERVED"}
      BY <1>1, <2>5, <3>1 DEF ShelfInv, OrderOn, Unpaid, Payable
    <3>3. QED
      BY <1>1, <2>5, <3>1, <3>2 DEF TypeOK, CatalogTypeOK
  <2>6. ASSUME NEW o \in OrderIds, NEW k \in Keys, PaySucceeds(o, k) \/ PayFails(o, k)
        PROVE  Down(l)
    <3>1. /\ order[o].status \in Unpaid /\ Payable(o)
          /\ \/ listing' \in {listing, [listing EXCEPT ![order[o].listing] = "SOLD"]}
             \/ listing' \in {listing, [listing EXCEPT ![order[o].listing] = "ACTIVE"]}
      BY <2>6 DEF PaySucceeds, PayFails, Payable
    <3>2. QED
      BY <2>5, <3>1 DEF ListingStatus
  <2>7. QED
    BY <1>1, <2>1, <2>2, <2>3, <2>4, <2>6, StepKinds
       DEF ShipOrder, DeliverOrder, ExpireResult, DeadlinePasses, vars
<1>2. TypeOK /\ ShelfInv /\ [Next]_vars => [\A l \in Listings : Down(l)]_vars
  BY <1>1, OrdersAssumption, CatalogAssumption
<1>3. Spec => []ShelfInv
  BY ShelfAlways
<1>4. QED
  BY <1>2, <1>3, TypeCorrect, PTL DEF Spec, TakenDownStaysDown

-----------------------------------------------------------------------------
(* Orders implements Sale.                                                 *)

\* The abstract sets in terms of the order rows alone.
PairsOf(T) == {<<order[o].listing, order[o].buyer>> :
                  o \in {x \in OrderIds : order[x].status \in T}}

LEMMA PairsMeaning ==
    ASSUME TypeOK, LedgerInv
    PROVE  HeldPairs = PairsOf(Unpaid) /\ ChargedPairs = PairsOf(Sold)
<1>1. \A k \in Keys : payment[k].status = "SUCCEEDED" => payment[k].order \in OrderIds
  BY DEF TypeOK, PaymentRow, Absent
<1>2. \A o \in OrderIds : Charged(o) <=> order[o].status \in Sold
  BY DEF LedgerInv, MoneyMatchesOrders
<1>3. ChargedPairs = PairsOf(Sold)
  <2>1. ASSUME NEW k \in Keys, payment[k].status = "SUCCEEDED"
        PROVE  payment[k].order \in OrderIds /\ order[payment[k].order].status \in Sold
    BY <1>1, <1>2, <2>1 DEF Charged
  <2>2. ASSUME NEW o \in OrderIds, order[o].status \in Sold
        PROVE  \E k \in Keys : payment[k].status = "SUCCEEDED" /\ payment[k].order = o
    BY <1>2, <2>2 DEF Charged
  <2>3. ChargedPairs \subseteq PairsOf(Sold)
    BY <2>1 DEF ChargedPairs, PairsOf
  <2>4. PairsOf(Sold) \subseteq ChargedPairs
    <3>1. ASSUME NEW o \in OrderIds, order[o].status \in Sold
          PROVE  <<order[o].listing, order[o].buyer>> \in ChargedPairs
      BY <2>2, <3>1 DEF ChargedPairs
    <3>2. QED
      BY <3>1 DEF PairsOf
  <2>5. QED
    BY <2>3, <2>4
<1>4. QED
  BY <1>3 DEF HeldPairs, PairsOf

LEMMA InitSale ==
    ASSUME Init
    PROVE  Goods!Init
BY DEF Init, Absent, Goods!Init, HeldPairs, ChargedPairs, Unpaid

LEMMA NextSale ==
    ASSUME OrdersAssumption, CatalogAssumption,
           TypeOK, LedgerInv, TypeOK', LedgerInv', Transaction
    PROVE  [Goods!Next]_<<HeldPairs, ChargedPairs>>
<1>h. HeldPairs = PairsOf(Unpaid) /\ HeldPairs' = PairsOf(Unpaid)'
  BY PairsMeaning DEF HeldPairs, PairsOf
<1>c. ChargedPairs = PairsOf(Sold)
  BY PairsMeaning
<1>d. ChargedPairs' = PairsOf(Sold)'
  <2>1. (TypeOK /\ LedgerInv => ChargedPairs = PairsOf(Sold))'
    BY PairsMeaning, PTL
  <2>2. QED
    BY <2>1
<1>1. CASE UNCHANGED order
  BY <1>1, <1>h, <1>c, <1>d DEF PairsOf
<1>2. ASSUME NEW o \in OrderIds, NEW l \in Listings, NEW b \in Users, NEW s \in Sources,
             Checkout(o, l, b, s)
      PROVE  Goods!Hold(l, b)
  <2>1. /\ order'[o] = [status |-> "PENDING_PAYMENT", listing |-> l, buyer |-> b, source |-> s]
        /\ \A x \in OrderIds \ {o} : order'[x] = order[x]
        /\ order[o].status = "NONE"
    BY <1>2 DEF Checkout, CreateOrder, TypeOK, Absent
  <2>2. \A x \in OrderIds : order[x].status \in Unpaid \cup Sold => order[x].listing # l
    BY <1>2 DEF Checkout, CreateOrder, Insertable, LiveOrders, Live
  <2>3. \A c \in Users : <<l, c>> \notin PairsOf(Unpaid) \cup PairsOf(Sold)
    BY <2>2 DEF PairsOf
  <2>4. PairsOf(Unpaid)' = PairsOf(Unpaid) \cup {<<l, b>>}
    BY <2>1 DEF PairsOf, Unpaid
  <2>5. PairsOf(Sold)' = PairsOf(Sold)
    BY <2>1 DEF PairsOf, Sold
  <2>6. QED
    BY <1>h, <1>c, <1>d, <2>3, <2>4, <2>5 DEF Goods!Hold
<1>3. ASSUME NEW o \in OrderIds, order[o].status \in Unpaid,
             order'[o].status \in {"CANCELLED", "PAID"},
             order'[o].listing = order[o].listing, order'[o].buyer = order[o].buyer,
             \A x \in OrderIds \ {o} : order'[x] = order[x]
      PROVE  LET l == order[o].listing
                 b == order[o].buyer
             IN  /\ l \in Listings /\ b \in Users
                 /\ <<l, b>> \in PairsOf(Unpaid)
                 /\ PairsOf(Unpaid)' = PairsOf(Unpaid) \ {<<l, b>>}
                 /\ PairsOf(Sold)' = IF order'[o].status = "PAID"
                                     THEN PairsOf(Sold) \cup {<<l, b>>} ELSE PairsOf(Sold)
  <2>1. PICK l, b : l = order[o].listing /\ b = order[o].buyer
    OBVIOUS
  <2>2. l \in Listings /\ b \in Users
    BY <1>3, <2>1 DEF TypeOK, OrderRow, Absent, Unpaid
  <2>3. \A x \in OrderIds \ {o} : order[x].status \in Unpaid => order[x].listing # l
    BY <1>3, <2>1 DEF LedgerInv, OneLiveOrder, Live
  <2>4. PairsOf(Unpaid)' = PairsOf(Unpaid) \ {<<l, b>>}
    <3>1. order'[o].status \notin Unpaid
      BY <1>3 DEF Unpaid
    <3>2. ASSUME NEW p
          PROVE  p \in PairsOf(Unpaid)' <=> p \in PairsOf(Unpaid) /\ p # <<l, b>>
      <4>1. p \in PairsOf(Unpaid)' <=>
              \E x \in OrderIds : order'[x].status \in Unpaid /\ p = <<order'[x].listing, order'[x].buyer>>
        BY DEF PairsOf, Unpaid
      <4>2. p \in PairsOf(Unpaid) <=>
              \E x \in OrderIds : order[x].status \in Unpaid /\ p = <<order[x].listing, order[x].buyer>>
        BY DEF PairsOf
      <4>3. QED
        BY <1>3, <2>1, <2>3, <3>1, <4>1, <4>2
    <3>3. QED
      BY <3>2
  <2>5. PairsOf(Sold)' = IF order'[o].status = "PAID"
                         THEN PairsOf(Sold) \cup {<<l, b>>} ELSE PairsOf(Sold)
    BY <1>3, <2>1 DEF PairsOf, Sold, Unpaid
  <2>6. <<l, b>> \in PairsOf(Unpaid)
    BY <1>3, <2>1 DEF PairsOf
  <2>7. QED
    BY <2>1, <2>2, <2>4, <2>5, <2>6
<1>4. ASSUME NEW o \in OrderIds, CancelOrder(o)
      PROVE  \E l \in Listings, b \in Users : Goods!Release(l, b)
  <2>1. /\ order[o].status \in Unpaid
        /\ order'[o].status = "CANCELLED"
        /\ order'[o].listing = order[o].listing /\ order'[o].buyer = order[o].buyer
        /\ \A x \in OrderIds \ {o} : order'[x] = order[x]
    BY <1>4, StatusUpdate DEF CancelOrder, Cancellable, Unpaid, OrderStatus
  <2>2. QED
    BY <1>3, <1>h, <1>c, <1>d, <2>1 DEF Goods!Release
<1>5. ASSUME NEW o \in OrderIds, NEW k \in Keys, Paid(o, k)
      PROVE  \E l \in Listings, b \in Users : Goods!Charge(l, b)
  <2>1. /\ order[o].status \in Unpaid
        /\ order'[o].status = "PAID"
        /\ order'[o].listing = order[o].listing /\ order'[o].buyer = order[o].buyer
        /\ \A x \in OrderIds \ {o} : order'[x] = order[x]
    BY <1>5, StatusUpdate DEF Paid, Owing, Unpaid, OrderStatus
  <2>2. QED
    BY <1>3, <1>h, <1>c, <1>d, <2>1 DEF Goods!Charge
<1>6. ASSUME NEW o \in OrderIds,
             \/ \E k \in Keys : Declined(o, k)
             \/ ShipOrder(o)
             \/ DeliverOrder(o)
      PROVE  UNCHANGED <<HeldPairs, ChargedPairs>>
  <2>1. /\ (order'[o].status \in Unpaid) <=> (order[o].status \in Unpaid)
        /\ (order'[o].status \in Sold) <=> (order[o].status \in Sold)
        /\ order'[o].listing = order[o].listing /\ order'[o].buyer = order[o].buyer
        /\ \A x \in OrderIds \ {o} : order'[x] = order[x]
    BY <1>6, StatusUpdate
       DEF Declined, Owing, ShipOrder, DeliverOrder, Unpaid, Sold, OrderStatus
  <2>2. PairsOf(Unpaid)' = PairsOf(Unpaid)
    BY <2>1 DEF PairsOf, Unpaid
  <2>3. PairsOf(Sold)' = PairsOf(Sold)
    BY <2>1 DEF PairsOf, Sold
  <2>4. QED
    BY <1>h, <1>c, <1>d, <2>2, <2>3
<1>7. CASE CatalogStep \/ UNCHANGED <<listing, order, payment, history>>
  <2>1. UNCHANGED order
    BY <1>7, Zenon DEF CatalogStep
  <2>2. QED
    BY <1>1, <2>1
<1>8. QED
  BY <1>2, <1>4, <1>5, <1>6, <1>7 DEF Transaction, TradeStep, Goods!Next

\* Every behaviour of checkout, payment and cancellation is a behaviour of Sale:
\* one holder at a time, charges only to the holder, charges final.
THEOREM Implementation == Spec => SaleSpec
<1>1. Init => Goods!Init
  BY InitSale
<1>2. /\ TypeOK /\ LedgerInv /\ TypeOK' /\ LedgerInv' /\ [Next]_vars
      => [Goods!Next]_<<HeldPairs, ChargedPairs>>
  BY NextSale, NextIsTransaction, OrdersAssumption, CatalogAssumption
<1>3. QED
  BY <1>1, <1>2, TypeCorrect, LedgerCorrect, PTL DEF Spec, SaleSpec, Goods!Spec

-----------------------------------------------------------------------------
(* Order, auction result and auction.                                      *)

\* An accepted offer or a result is checked out once (uq_orders_offer_id, uq_orders_auction_result_id).
SourceOnce ==
    \A x, y \in OrderIds :
        /\ x # y
        /\ order[x].status # "NONE" /\ order[y].status # "NONE"
        /\ order[x].source = order[y].source
        => order[x].source = "FIXED_PRICE"

\* SettlementConsistent, with the orders of a result spelt out.
Claim(r) ==
    /\ (result[r] = "ORDER_CREATED") <=>
          \E o \in OrderIds : order[o].status \in Unpaid /\ order[o].source = r
    /\ (result[r] = "PAYMENT_COMPLETED") <=>
          \E o \in OrderIds : order[o].status \in Sold /\ order[o].source = r
    /\ (auction[r] = "SETTLED") <=> (result[r] = "PAYMENT_COMPLETED")

SettledInv == SourceOnce /\ \A r \in Results : Claim(r)

LEMMA SettledMeaning ==
    ASSUME SettledInv
    PROVE  SettlementConsistent
BY DEF SettledInv, Claim, SettlementConsistent, Unpaid, Sold

\* A checkout claims the result it comes from and no other one.
Claiming(o, l, b, s) ==
    /\ CreateOrder(o, l, b, s)
    /\ \/ s \in Results /\ result[s] = "AWAITING_CHECKOUT"
                        /\ result' = [result EXCEPT ![s] = "ORDER_CREATED"]
       \/ s \notin Results /\ UNCHANGED result

LEMMA SettlementKinds ==
    ASSUME OrdersAssumption, CatalogAssumption, [Next]_vars
    PROVE  \/ \E o \in OrderIds, l \in Listings, b \in Users, s \in Sources : Claiming(o, l, b, s)
           \/ \E o \in OrderIds : CancelOrder(o)
           \/ \E o \in OrderIds, k \in Keys : PaySucceeds(o, k)
           \/ \E o \in OrderIds, k \in Keys : PayFails(o, k)
           \/ \E o \in OrderIds : ShipOrder(o)
           \/ \E o \in OrderIds : DeliverOrder(o)
           \/ \E r \in Results : ExpireResult(r)
           \/ UNCHANGED <<order, result, auction, history>>
<1>1. ASSUME NEW o \in OrderIds, NEW l \in Listings, NEW b \in Users, FixedPriceCheckout(o, l, b)
      PROVE  Claiming(o, l, b, "FIXED_PRICE") /\ "FIXED_PRICE" \in Sources
  BY <1>1 DEF FixedPriceCheckout, Claiming, Sources, OrdersAssumption
<1>2. ASSUME NEW o \in OrderIds, NEW offer \in Offers, AcceptedOfferCheckout(o, offer)
      PROVE  \E l \in Listings, b \in Users, s \in Sources : Claiming(o, l, b, s)
  <2>1. /\ OfferListing[offer] \in Listings /\ OfferBuyer[offer] \in Users
        /\ offer \in Sources /\ offer \notin Results
    BY DEF OrdersAssumption, Sources
  <2>2. Claiming(o, OfferListing[offer], OfferBuyer[offer], offer)
    BY <1>2, <2>1 DEF AcceptedOfferCheckout, Claiming
  <2>3. QED
    BY <2>1, <2>2
<1>3. ASSUME NEW o \in OrderIds, NEW r \in Results, AuctionWinnerCheckout(o, r)
      PROVE  \E l \in Listings, b \in Users, s \in Sources : Claiming(o, l, b, s)
  <2>1. ResultListing[r] \in Listings /\ ResultWinner[r] \in Users /\ r \in Sources
    BY DEF OrdersAssumption, CatalogAssumption, Sources
  <2>2. Claiming(o, ResultListing[r], ResultWinner[r], r)
    BY <1>3 DEF AuctionWinnerCheckout, Claiming
  <2>3. QED
    BY <2>1, <2>2
<1>4. CASE \E l \in Listings : ReleaseAbandonedOrder(l)
  BY <1>4 DEF ReleaseAbandonedOrder, LiveOrders
<1>5. CASE CatalogStep \/ (\E x \in OrderIds \cup Results : DeadlinePasses(x)) \/ UNCHANGED vars
  BY <1>5, Zenon DEF CatalogStep, DeadlinePasses, vars
<1>6. ASSUME NEW o \in OrderIds, OrderStep(o)
      PROVE  \/ \E l \in Listings, b \in Users, s \in Sources : Claiming(o, l, b, s)
             \/ CancelOrder(o)
             \/ \E k \in Keys : PaySucceeds(o, k)
             \/ \E k \in Keys : PayFails(o, k)
             \/ ShipOrder(o)
             \/ DeliverOrder(o)
  <2>1. CASE BuyerCancel(o) \/ ReadExpiredOrder(o) \/ \E k \in Keys : PayExpired(o, k)
    BY <2>1 DEF BuyerCancel, ReadExpiredOrder, PayExpired
  <2>2. QED
    BY <1>1, <1>2, <1>3, <1>6, <2>1 DEF OrderStep
<1>7. QED
  BY <1>4, <1>5, <1>6 DEF Next

LEMMA NextSettled ==
    ASSUME OrdersAssumption, CatalogAssumption, TypeOK, SettledInv, [Next]_vars
    PROVE  SettledInv'
<1> USE DEF SettledInv
<1>1. CASE UNCHANGED <<order, result, auction>>
  BY <1>1 DEF SourceOnce, Claim
<1>2. ASSUME NEW o \in OrderIds, NEW l \in Listings, NEW b \in Users, NEW s \in Sources,
             Claiming(o, l, b, s)
      PROVE  SettledInv'
  <2>1. /\ order'[o] = [status |-> "PENDING_PAYMENT", listing |-> l, buyer |-> b, source |-> s]
        /\ \A x \in OrderIds \ {o} : order'[x] = order[x]
        /\ order[o].status = "NONE"
        /\ UNCHANGED auction
    BY <1>2 DEF Claiming, CreateOrder, TypeOK, Absent
  <2>2. s # "FIXED_PRICE" => \A x \in OrderIds : order[x].status # "NONE" => order[x].source # s
    BY <1>2 DEF Claiming, CreateOrder, Insertable
  <2>3. SourceOnce'
    BY <2>1, <2>2 DEF SourceOnce
  <2>4. ASSUME NEW r \in Results
        PROVE  Claim(r)'
    <3>1. /\ r = s => result[r] = "AWAITING_CHECKOUT" /\ result'[r] = "ORDER_CREATED"
          /\ r # s => result'[r] = result[r]
      BY <1>2 DEF Claiming, TypeOK
    <3>2. r # "FIXED_PRICE"
      BY DEF OrdersAssumption
    <3>3. CASE r = s
      BY <2>1, <2>2, <3>1, <3>2, <3>3 DEF Claim, Unpaid, Sold
    <3>4. CASE r # s
      BY <2>1, <3>1, <3>4 DEF Claim, Unpaid, Sold
    <3>5. QED
      BY <3>3, <3>4
  <2>5. QED
    BY <2>3, <2>4
<1>3. ASSUME NEW o \in OrderIds, NEW to \in OrderStatus, order[o].status # "NONE", SetStatus(o, to)
      PROVE  /\ SourceOnce'
             /\ order'[o].status = to /\ order'[o].source = order[o].source
             /\ \A x \in OrderIds \ {o} : order'[x] = order[x]
             /\ \A x \in OrderIds \ {o} :
                   order[x].status # "NONE" /\ order[o].source \in Results
                      => order[x].source # order[o].source
  <2>1. /\ order'[o].status = to /\ order'[o].source = order[o].source
        /\ \A x \in OrderIds \ {o} : order'[x] = order[x]
    BY <1>3, StatusUpdate
  <2>2. SourceOnce'
    BY <1>3, <2>1 DEF SourceOnce
  <2>3. QED
    BY <1>3, <2>1, <2>2 DEF SourceOnce, OrdersAssumption
<1>4. ASSUME NEW o \in OrderIds, CancelOrder(o)
      PROVE  SettledInv'
  <2>1. /\ order[o].status \in Unpaid /\ order[o].status # "NONE"
        /\ SetStatus(o, "CANCELLED") /\ UNCHANGED auction
        /\ result' = Forfeited(order[o].source)
    BY <1>4 DEF CancelOrder, Cancellable, Unpaid
  <2>2. "CANCELLED" \in OrderStatus /\ "CANCELLED" \notin Unpaid \cup Sold
    BY DEF OrderStatus, Unpaid, Sold
  <2>3. ASSUME NEW r \in Results
        PROVE  Claim(r)'
    <3>1. CASE r = order[o].source
      <4>1. result[r] = "ORDER_CREATED" /\ result'[r] = "PAYMENT_EXPIRED"
        BY <2>1, <3>1 DEF Claim, Forfeited, TypeOK
      <4>2. QED
        BY <1>3, <2>1, <2>2, <3>1, <4>1 DEF Claim, Unpaid, Sold
    <3>2. CASE r # order[o].source
      <4>1. result'[r] = result[r]
        BY <2>1, <3>2 DEF Forfeited, TypeOK
      <4>2. QED
        BY <1>3, <2>1, <2>2, <3>2, <4>1 DEF Claim
    <3>3. QED
      BY <3>1, <3>2
  <2>4. QED
    BY <1>3, <2>1, <2>2, <2>3
<1>5. ASSUME NEW o \in OrderIds, NEW k \in Keys, PaySucceeds(o, k)
      PROVE  SettledInv'
  <2>1. /\ order[o].status \in Unpaid /\ order[o].status # "NONE"
        /\ SetStatus(o, "PAID")
    BY <1>5 DEF PaySucceeds, Payable, Unpaid
  <2>2. "PAID" \in OrderStatus /\ "PAID" \in Sold /\ "PAID" \notin Unpaid
    BY DEF OrderStatus, Unpaid, Sold
  <2>3. ASSUME NEW r \in Results
        PROVE  Claim(r)'
    <3>1. /\ result'[r] = IF r = order[o].source THEN "PAYMENT_COMPLETED" ELSE result[r]
          /\ auction'[r] = IF r = order[o].source THEN "SETTLED" ELSE auction[r]
      BY <1>5 DEF PaySucceeds
    <3>2. CASE r = order[o].source
      BY <1>3, <2>1, <2>2, <3>1, <3>2 DEF Claim, Unpaid, Sold
    <3>3. CASE r # order[o].source
      BY <1>3, <2>1, <2>2, <3>1, <3>3 DEF Claim
    <3>4. QED
      BY <3>2, <3>3
  <2>4. QED
    BY <1>3, <2>1, <2>2, <2>3
<1>6. ASSUME NEW o \in OrderIds,
             \/ \E k \in Keys : PayFails(o, k)
             \/ ShipOrder(o)
             \/ DeliverOrder(o)
      PROVE  SettledInv'
  <2>1. PICK to \in OrderStatus :
           /\ SetStatus(o, to) /\ order[o].status # "NONE"
           /\ (order[o].status \in Unpaid) <=> (to \in Unpaid)
           /\ (order[o].status \in Sold) <=> (to \in Sold)
    BY <1>6 DEF PayFails, Payable, ShipOrder, DeliverOrder, OrderStatus, Unpaid, Sold
  <2>2. UNCHANGED <<result, auction>>
    BY <1>6 DEF PayFails, ShipOrder, DeliverOrder
  <2>3. QED
    BY <1>3, <2>1, <2>2 DEF Claim
<1>7. ASSUME NEW r \in Results, ExpireResult(r)
      PROVE  SettledInv'
  <2>1. /\ result[r] = "AWAITING_CHECKOUT" /\ result' = [result EXCEPT ![r] = "PAYMENT_EXPIRED"]
        /\ UNCHANGED <<order, auction>>
    BY <1>7 DEF ExpireResult
  <2>2. ASSUME NEW x \in Results
        PROVE  Claim(x)'
    BY <2>1 DEF Claim, TypeOK
  <2>3. QED
    BY <2>1, <2>2 DEF SourceOnce
<1>8. QED
  BY <1>1, <1>2, <1>4, <1>5, <1>6, <1>7, SettlementKinds

\* Order, auction result and auction never disagree on how far the sale to the winner has
\* come, although checkout.py opens the claim, cancel_order (orders/views.py) and the late
\* winner close it and _settle_auction_order (orders.py) settles it, in any sequence.
THEOREM SettlementCorrect == Spec => []SettlementConsistent
<1>1. Init => SettledInv
  BY DEF Init, SettledInv, SourceOnce, Claim, Absent, Unpaid, Sold
<1>2. TypeOK /\ SettledInv /\ [Next]_vars => SettledInv'
  BY NextSettled, OrdersAssumption, CatalogAssumption
<1>3. SettledInv => SettlementConsistent
  BY SettledMeaning
<1>4. QED
  BY <1>1, <1>2, <1>3, TypeCorrect, PTL DEF Spec

-----------------------------------------------------------------------------
(* The shelf, once more: what ShelfCorrect says of paid orders.            *)

\* Without admin overrides, a listing is SOLD exactly when an order on it has been paid:
\* pay_order is the only way in and _restore_listing (orders/views.py) never leads out.
THEOREM SoldCorrect ==
    ASSUME ~AdminOverrides
    PROVE  Spec => []SoldBacked
BY ShelfCorrect, PTL

-----------------------------------------------------------------------------
(* The audit trail.                                                        *)

\* One more row, that leaves the status the order is in.
LEMMA BalancedRow ==
    ASSUME NEW h \in Trail, NEW from \in OrderStatus \cup {"NONE"}, NEW to \in OrderStatus,
           Balanced(h, from)
    PROVE  Balanced(WithRows(h, {<<from, to>>}), to)
<1>1. "NONE" \notin OrderStatus
  BY DEF OrderStatus
<1>2. \A s : (\E x \in {<<from, to>>} : x[1] = s) <=> s = from
  OBVIOUS
<1>3. \A s : (\E x \in {<<from, to>>} : x[2] = s) <=> s = to
  OBVIOUS
<1>4. QED
  BY <1>1, <1>2, <1>3 DEF Balanced, WithRows, Trail

\* The rows of a payment attempt, with the re-arming of a declined order among them.
LEMMA BalancedAttempt ==
    ASSUME NEW o \in OrderIds, NEW h \in Trail, NEW to \in OrderStatus \ {"PENDING_PAYMENT"},
           order[o].status \in Unpaid, Balanced(h, order[o].status)
    PROVE  Balanced(WithRows(h, AttemptSteps(o, to)), to)
<1>1. {"PENDING_PAYMENT", "PAYMENT_FAILED"} \subseteq OrderStatus
  BY DEF OrderStatus
<1>2. CASE order[o].status = "PENDING_PAYMENT"
  <2>1. AttemptSteps(o, to) = {<<"PENDING_PAYMENT", to>>}
    BY <1>2 DEF AttemptSteps
  <2>2. QED
    BY <1>1, <1>2, <2>1, BalancedRow
<1>3. CASE order[o].status = "PAYMENT_FAILED"
  <2> DEFINE rows == {<<"PAYMENT_FAILED", "PENDING_PAYMENT">>, <<"PENDING_PAYMENT", to>>}
  <2>1. AttemptSteps(o, to) = rows
    BY <1>3 DEF AttemptSteps
  <2>2. \A s : (\E x \in rows : x[1] = s) <=> s \in {"PAYMENT_FAILED", "PENDING_PAYMENT"}
    OBVIOUS
  <2>3. \A s : (\E x \in rows : x[2] = s) <=> s \in {"PENDING_PAYMENT", to}
    OBVIOUS
  <2> HIDE DEF rows
  <2>4. Balanced(WithRows(h, rows), to)
    <3> DEFINE g == WithRows(h, rows)
    <3>1. \A s \in OrderStatus \cup {"NONE"} :
             g.from[s] = h.from[s] + IF s \in {"PAYMENT_FAILED", "PENDING_PAYMENT"} THEN 1 ELSE 0
      BY <2>2 DEF WithRows, Trail
    <3>2. \A s \in OrderStatus :
             g.to[s] = h.to[s] + IF s \in {"PENDING_PAYMENT", to} THEN 1 ELSE 0
      BY <2>3 DEF WithRows, Trail
    <3>3. /\ h.from["NONE"] = 1
          /\ \A s \in OrderStatus :
                /\ h.to[s] = h.from[s] + IF s = "PAYMENT_FAILED" THEN 1 ELSE 0
                /\ h.from[s] \in Nat
      BY <1>3 DEF Balanced, Trail
    <3> HIDE DEF g
    <3>4. g.from["NONE"] = 1
      BY <3>1, <3>3 DEF OrderStatus
    <3>5. to # "NONE" /\ to # "PENDING_PAYMENT"
      BY DEF OrderStatus
    <3>6. ASSUME NEW s \in OrderStatus
          PROVE  g.to[s] = g.from[s] + IF s = to THEN 1 ELSE 0
      BY <3>1, <3>2, <3>3, <3>5
    <3>7. Balanced(g, to)
      BY <3>4, <3>5, <3>6 DEF Balanced
    <3>8. QED
      BY <3>7 DEF g
  <2>5. QED
    BY <2>1, <2>4
<1>4. QED
  BY <1>2, <1>3 DEF Unpaid

\* A transaction whose rows account for the change from the old status to the new one.
LEMMA Recorded ==
    ASSUME TypeOK, HistoryBalanced, NEW o \in OrderIds, NEW rows, Record(o, rows),
           Balanced(WithRows(history[o], rows), order'[o].status),
           \A x \in OrderIds \ {o} : order'[x] = order[x]
    PROVE  HistoryBalanced'
<1>1. /\ history'[o] = WithRows(history[o], rows)
      /\ \A x \in OrderIds \ {o} : history'[x] = history[x]
  BY DEF Record, TypeOK
<1>2. ASSUME NEW x \in OrderIds
      PROVE  Balanced(history'[x], order'[x].status)
  BY <1>1 DEF HistoryBalanced
<1>3. QED
  BY <1>2 DEF HistoryBalanced, Balanced

LEMMA NextBalanced ==
    ASSUME OrdersAssumption, CatalogAssumption, TypeOK, HistoryBalanced, Transaction
    PROVE  HistoryBalanced'
<1>h. ASSUME NEW o \in OrderIds
      PROVE  history[o] \in Trail /\ Balanced(history[o], order[o].status)
  BY DEF TypeOK, HistoryBalanced
<1>1. CASE UNCHANGED <<order, history>>
  BY <1>1 DEF HistoryBalanced, Balanced
<1>2. ASSUME NEW o \in OrderIds, NEW l \in Listings, NEW b \in Users, NEW s \in Sources,
             Checkout(o, l, b, s)
      PROVE  HistoryBalanced'
  <2>1. /\ order'[o].status = "PENDING_PAYMENT" /\ order[o].status = "NONE"
        /\ \A x \in OrderIds \ {o} : order'[x] = order[x]
        /\ Record(o, {<<"NONE", "PENDING_PAYMENT">>})
    BY <1>2 DEF Checkout, CreateOrder, TypeOK, Absent
  <2>2. "PENDING_PAYMENT" \in OrderStatus
    BY DEF OrderStatus
  <2>3. Balanced(WithRows(history[o], {<<"NONE", "PENDING_PAYMENT">>}), "PENDING_PAYMENT")
    BY <1>h, <2>1, <2>2, BalancedRow
  <2>4. QED
    BY <2>1, <2>3, Recorded
<1>3. ASSUME NEW o \in OrderIds, NEW from \in OrderStatus, NEW to \in OrderStatus,
             order[o].status = from, SetStatus(o, to), Record(o, {<<from, to>>})
      PROVE  HistoryBalanced'
  <2>1. /\ order'[o].status = to
        /\ \A x \in OrderIds \ {o} : order'[x] = order[x]
    BY <1>3, StatusUpdate DEF OrderStatus
  <2>2. Balanced(WithRows(history[o], {<<from, to>>}), to)
    BY <1>h, <1>3, BalancedRow
  <2>3. QED
    BY <1>3, <2>1, <2>2, Recorded
<1>4. ASSUME NEW o \in OrderIds, CancelOrder(o)
      PROVE  HistoryBalanced'
  <2>1. /\ order[o].status \in OrderStatus /\ "CANCELLED" \in OrderStatus
        /\ SetStatus(o, "CANCELLED") /\ Record(o, {<<order[o].status, "CANCELLED">>})
    BY <1>4 DEF CancelOrder, Cancellable, Unpaid, OrderStatus
  <2>2. QED
    BY <1>3, <2>1
<1>5. ASSUME NEW o \in OrderIds, ShipOrder(o)
      PROVE  HistoryBalanced'
  BY <1>3, <1>5 DEF ShipOrder, OrderStatus
<1>6. ASSUME NEW o \in OrderIds, DeliverOrder(o)
      PROVE  HistoryBalanced'
  BY <1>3, <1>6 DEF DeliverOrder, OrderStatus
<1>7. ASSUME NEW o \in OrderIds, NEW to \in OrderStatus \ {"PENDING_PAYMENT"},
             order[o].status \in Unpaid, SetStatus(o, to), Record(o, AttemptSteps(o, to))
      PROVE  HistoryBalanced'
  <2>1. /\ order'[o].status = to
        /\ \A x \in OrderIds \ {o} : order'[x] = order[x]
    BY <1>7, StatusUpdate DEF Unpaid
  <2>2. Balanced(WithRows(history[o], AttemptSteps(o, to)), to)
    BY <1>h, <1>7, BalancedAttempt
  <2>3. QED
    BY <1>7, <2>1, <2>2, Recorded
<1>8. ASSUME NEW o \in OrderIds, NEW k \in Keys, Paid(o, k) \/ Declined(o, k)
      PROVE  HistoryBalanced'
  BY <1>7, <1>8 DEF Paid, Declined, Owing, OrderStatus
<1>9. CASE CatalogStep
  BY <1>1, <1>9, Zenon DEF CatalogStep
<1>10. QED
  BY <1>1, <1>2, <1>4, <1>5, <1>6, <1>8, <1>9 DEF Transaction, TradeStep

\* The audit trail of every order (OrderStatusHistory) accounts for its present status: the
\* writers in checkout.py, orders.py and orders/views.py all add the row of the change they
\* make, and the re-arming of a declined order adds one of its own.
THEOREM HistoryCorrect == Spec => []HistoryBalanced
<1>1. Init => HistoryBalanced
  BY DEF Init, HistoryBalanced, Balanced, NoRows, Absent, OrderStatus
<1>2. TypeOK /\ HistoryBalanced /\ [Next]_vars => HistoryBalanced'
  BY NextBalanced, NextIsTransaction, OrdersAssumption, CatalogAssumption
<1>3. QED
  BY <1>1, <1>2, TypeCorrect, PTL DEF Spec

=============================================================================
