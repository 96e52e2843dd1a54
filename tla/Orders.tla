------------------------------- MODULE Orders -------------------------------
(***************************************************************************)
(* Checkout, payment, cancellation, lazy expiry and fulfilment             *)
(* (api/v1/checkout.py, api/v1/orders.py, orders/views.py).                *)
(*                                                                         *)
(* Grain: one action per committed database transaction, as if requests    *)
(* ran one after the other.  The row locks that are supposed to make that  *)
(* true, and the places where they do not, are the subject of OrderTx.     *)
(*                                                                         *)
(* Accepted offers and decided auctions are constants here: an ACCEPTED    *)
(* offer never leaves that status, and a result AWAITING_CHECKOUT is how   *)
(* an auction enters this component.                                       *)
(***************************************************************************)
EXTENDS Catalog, Naturals, Sequences

CONSTANTS
    OrderIds,         \* bounds the orders ever created
    Keys,             \* payment idempotency keys; bounds the payment attempts
    Offers,           \* ACCEPTED offers
    OfferListing, OfferBuyer,
    Results,          \* auction results with a winner, one per auction
    ResultListing,    \* the listing of the auction of a result
    ResultWinner      \* AuctionResult.winner_id

ASSUME OrdersAssumption ==
    /\ OfferListing \in [Offers -> Listings]
    /\ OfferBuyer \in [Offers -> Users]
    /\ ResultListing \in [Results -> AuctionListings]
    /\ ResultWinner \in [Results -> Users]
    /\ "FIXED_PRICE" \notin Offers \cup Results
    /\ Offers \cap Results = {}
    /\ OrderIds \cap Results = {}

VARIABLES
    order,            \* order rows
    payment,          \* payment rows, by idempotency key
    result,           \* AuctionResult.status
    auction,          \* Auction.status of the auction of a result
    shipment,         \* the shipment rows of an order, oldest first
    history,          \* order_status_history of an order, counted by column
    late              \* rows whose checkout_expires_at has passed

vars == <<listing, order, payment, result, auction, shipment, history, late>>

-----------------------------------------------------------------------------
OrderStatus == {"PENDING_PAYMENT", "PAYMENT_FAILED", "PAID", "SHIPPED",
                "DELIVERED", "CANCELLED"}
Unpaid == {"PENDING_PAYMENT", "PAYMENT_FAILED"}
Sold   == {"PAID", "SHIPPED", "DELIVERED"}

\* Order.source together with the foreign key that goes with it.
Sources == {"FIXED_PRICE"} \cup Offers \cup Results

OrderRow == [status : OrderStatus, listing : Listings, buyer : Users,
             source : Sources]
PaymentRow == [order : OrderIds, status : {"SUCCEEDED", "FAILED"}]
Absent == [status |-> "NONE"]

\* How many rows leave a status (from_status) and how many lead to it (to_status).
\* The table orders nothing more: created_at is the start of the transaction and
\* the id is random, so the rows a retry writes have no first and second.
Trail == [from : [OrderStatus \cup {"NONE"} -> Nat], to : [OrderStatus -> Nat]]
NoRows == [from |-> [s \in OrderStatus \cup {"NONE"} |-> 0], to |-> [s \in OrderStatus |-> 0]]

TypeOK ==
    /\ CatalogTypeOK
    /\ order \in [OrderIds -> OrderRow \cup {Absent}]
    /\ payment \in [Keys -> PaymentRow \cup {Absent}]
    /\ result \in [Results -> {"AWAITING_CHECKOUT", "ORDER_CREATED",
                               "PAYMENT_COMPLETED", "PAYMENT_EXPIRED"}]
    /\ auction \in [Results -> {"ENDED", "SETTLED"}]
    /\ shipment \in [OrderIds -> Seq({"SHIPPED", "DELIVERED"})]
    /\ history \in [OrderIds -> Trail]
    /\ late \subseteq OrderIds \cup Results

Init ==
    /\ CatalogInit
    /\ order = [o \in OrderIds |-> Absent]
    /\ payment = [k \in Keys |-> Absent]
    /\ result = [r \in Results |-> "AWAITING_CHECKOUT"]
    /\ auction = [r \in Results |-> "ENDED"]
    /\ shipment = [o \in OrderIds |-> <<>>]
    /\ history = [o \in OrderIds |-> NoRows]
    /\ late = {}

-----------------------------------------------------------------------------
\* The rows of a listing that uq_orders_listing_id counts.
Live(o) == order[o].status \in Unpaid \cup Sold

LiveOrders(l) == {o \in OrderIds : Live(o) /\ order[o].listing = l}

\* Seeded bug: the partial unique index on listing_id is missing.
InsertableWithoutIndex(l, source) ==
    source # "FIXED_PRICE" =>
        \A o \in OrderIds : order[o].status # "NONE" => order[o].source # source

\* The unique indexes of the orders table let a new row in.
Insertable(l, source) ==
    /\ LiveOrders(l) = {}
    /\ source # "FIXED_PRICE" =>
         \A o \in OrderIds : order[o].status # "NONE" => order[o].source # source

SetStatus(o, to) == order' = [order EXCEPT ![o].status = to]

\* A history row is <<from, to>>; no transaction writes two with the same from or
\* the same to.
WithRows(h, rows) ==
    [from |-> [s \in DOMAIN h.from |-> h.from[s] + IF \E x \in rows : x[1] = s THEN 1 ELSE 0],
     to   |-> [s \in DOMAIN h.to |-> h.to[s] + IF \E x \in rows : x[2] = s THEN 1 ELSE 0]]

Record(o, rows) == history' = [history EXCEPT ![o] = WithRows(@, rows)]

Charged(o) == \E k \in Keys : payment[k].status = "SUCCEEDED" /\ payment[k].order = o

\* Seeded bug: a payment is stored with the status of its order.
PayMixed(k, o, outcome) ==
    payment' = [payment EXCEPT ![k] =
        [order |-> o, status |-> IF outcome = "FAILED" THEN "PAYMENT_FAILED" ELSE "PAID"]]

Pay(k, o, outcome) ==
    payment' = [payment EXCEPT ![k] = [order |-> o, status |-> outcome]]

-----------------------------------------------------------------------------
(* Checkout.                                                               *)

\* What the three checkouts do once their guards hold.
CreateOrder(o, l, buyer, source) ==
    /\ order[o] = Absent
    /\ listing[l] = "ACTIVE"
    /\ buyer # SellerOf[l]
    /\ Insertable(l, source)
    /\ order' = [order EXCEPT ![o] = [status |-> "PENDING_PAYMENT", listing |-> l,
                                      buyer |-> buyer, source |-> source]]
    /\ Record(o, {<<"NONE", "PENDING_PAYMENT">>})
    /\ listing' = [listing EXCEPT ![l] = "RESERVED"]
    /\ UNCHANGED <<payment, auction, shipment, late>>

FixedPriceCheckout(o, l, buyer) ==
    /\ l \notin AuctionListings
    /\ CreateOrder(o, l, buyer, "FIXED_PRICE")
    /\ UNCHANGED result

AcceptedOfferCheckout(o, offer) ==
    /\ OfferListing[offer] \notin AuctionListings
    /\ CreateOrder(o, OfferListing[offer], OfferBuyer[offer], offer)
    /\ UNCHANGED result

AuctionWinnerCheckout(o, r) ==
    /\ result[r] = "AWAITING_CHECKOUT"
    /\ r \notin late
    /\ auction[r] = "ENDED"
    /\ CreateOrder(o, ResultListing[r], ResultWinner[r], r)
    /\ result' = [result EXCEPT ![r] = "ORDER_CREATED"]

\* The winner comes too late: the window closes and the 409 is committed.
ExpireResult(r) ==
    /\ result[r] = "AWAITING_CHECKOUT"
    /\ r \in late
    /\ \A o \in OrderIds : order[o].status # "NONE" => order[o].source # r
    /\ result' = [result EXCEPT ![r] = "PAYMENT_EXPIRED"]
    /\ UNCHANGED <<listing, order, payment, auction, shipment, history, late>>

-----------------------------------------------------------------------------
(* Cancellation and lazy expiry, which share cancel_order.                 *)

\* Seeded bugs: the reservation is not released; it is released whatever the
\* listing has become; the claim stays open, or gets a status of its own; the
\* order is not checked to be unpaid.
RestoredNever(l) == listing

RestoredAlways(l) == [listing EXCEPT ![l] = "ACTIVE"]

ForfeitedNever(r) == result

ForfeitedAsExpired(r) ==
    IF r \in Results THEN [result EXCEPT ![r] = "EXPIRED"] ELSE result

CancellableAlways(o) == order[o].status \notin {"NONE", "CANCELLED"}

\* _restore_listing: whatever else happened to the listing is left alone.
Restored(l) ==
    IF listing[l] = "RESERVED" THEN [listing EXCEPT ![l] = "ACTIVE"] ELSE listing

\* An AUCTION_WIN order gives up the winner's claim with it.
Forfeited(r) ==
    IF r \in Results /\ result[r] = "ORDER_CREATED"
    THEN [result EXCEPT ![r] = "PAYMENT_EXPIRED"] ELSE result

Cancellable(o) == order[o].status \in Unpaid

CancelOrder(o) ==
    /\ Cancellable(o)
    /\ SetStatus(o, "CANCELLED")
    /\ listing' = Restored(order[o].listing)
    /\ result' = Forfeited(order[o].source)
    /\ Record(o, {<<order[o].status, "CANCELLED">>})
    /\ UNCHANGED <<payment, auction, shipment, late>>

BuyerCancel(o) == CancelOrder(o)

\* GET /orders/{id} by a party to the order.
ReadExpiredOrder(o) == o \in late /\ CancelOrder(o)

\* Either fixed-price or offer checkout meets a listing that is off the market
\* because of an abandoned order.  The release commits on its own, whatever
\* becomes of the checkout that asked for it.
ReleaseAbandonedOrder(l) ==
    /\ listing[l] # "ACTIVE"
    /\ \E o \in LiveOrders(l) \cap late :
          order[o].status = "PENDING_PAYMENT" /\ CancelOrder(o)

-----------------------------------------------------------------------------
(* Payment: one attempt by the buyer of order o under a fresh key k.       *)

\* Past the idempotency and already-paid answers.
Attempt(o, k) == payment[k] = Absent /\ ~Charged(o)

PayExpired(o, k) == Attempt(o, k) /\ o \in late /\ CancelOrder(o)

\* A declined order is re-armed only while its listing is reservable.
Payable(o) ==
    /\ order[o].status \in Unpaid
    /\ o \notin late
    /\ order[o].status = "PAYMENT_FAILED" =>
          listing[order[o].listing] \in {"ACTIVE", "RESERVED"}

\* _settle_auction_order, and the status check that follows it.
Settleable(o) ==
    LET r == order[o].source
    IN  r \in Results =>
          /\ ResultListing[r] = order[o].listing
          /\ ResultWinner[r] = order[o].buyer
          /\ result[r] = "ORDER_CREATED"

\* Seeded bug: the re-arming of a declined order leaves no history row.
AttemptStepsSilent(o, to) == {<<"PENDING_PAYMENT", to>>}

\* The history rows of an attempt that ends in status "to".
AttemptSteps(o, to) ==
    IF order[o].status = "PAYMENT_FAILED"
    THEN {<<"PAYMENT_FAILED", "PENDING_PAYMENT">>, <<"PENDING_PAYMENT", to>>}
    ELSE {<<"PENDING_PAYMENT", to>>}

PaySucceeds(o, k) ==
    /\ Attempt(o, k) /\ Payable(o) /\ Settleable(o)
    /\ Pay(k, o, "SUCCEEDED")
    /\ SetStatus(o, "PAID")
    /\ listing' = [listing EXCEPT ![order[o].listing] = "SOLD"]
    /\ result' = [r \in Results |->
                    IF r = order[o].source THEN "PAYMENT_COMPLETED" ELSE result[r]]
    /\ auction' = [r \in Results |->
                     IF r = order[o].source THEN "SETTLED" ELSE auction[r]]
    /\ Record(o, AttemptSteps(o, "PAID"))
    /\ UNCHANGED <<shipment, late>>

\* A retry reserves the listing and the decline releases it again.
PayFails(o, k) ==
    LET l == order[o].listing
    IN  /\ Attempt(o, k) /\ Payable(o) /\ Settleable(o)
        /\ Pay(k, o, "FAILED")
        /\ SetStatus(o, "PAYMENT_FAILED")
        /\ listing' = IF order[o].status = "PAYMENT_FAILED" \/ listing[l] = "RESERVED"
                      THEN [listing EXCEPT ![l] = "ACTIVE"] ELSE listing
        /\ Record(o, AttemptSteps(o, "PAYMENT_FAILED"))
        /\ UNCHANGED <<result, auction, shipment, late>>

-----------------------------------------------------------------------------
(* Fulfilment.                                                             *)

\* The most recent shipment row is the one that gets delivered.
LatestDelivered(rows) ==
    IF rows = <<>> THEN rows ELSE [rows EXCEPT ![Len(rows)] = "DELIVERED"]

ShipOrder(o) ==
    /\ order[o].status = "PAID"
    /\ SetStatus(o, "SHIPPED")
    /\ shipment' = [shipment EXCEPT ![o] = Append(@, "SHIPPED")]
    /\ Record(o, {<<"PAID", "SHIPPED">>})
    /\ UNCHANGED <<listing, payment, result, auction, late>>

DeliverOrder(o) ==
    /\ order[o].status = "SHIPPED"
    /\ SetStatus(o, "DELIVERED")
    /\ shipment' = [shipment EXCEPT ![o] = LatestDelivered(@)]
    /\ Record(o, {<<"SHIPPED", "DELIVERED">>})
    /\ UNCHANGED <<listing, payment, result, auction, late>>

-----------------------------------------------------------------------------
\* Wall-clock time passes the deadline of an order or of a result.
DeadlinePasses(x) ==
    /\ x \in OrderIds => order[x].status # "NONE"
    /\ x \notin late
    /\ late' = late \cup {x}
    /\ UNCHANGED <<listing, order, payment, result, auction, shipment, history>>

CatalogStep ==
    /\ CatalogNext({ResultListing[r] : r \in Results})
    /\ UNCHANGED <<order, payment, result, auction, shipment, history, late>>

OrderStep(o) ==
    \/ \E l \in Listings, b \in Users : FixedPriceCheckout(o, l, b)
    \/ \E offer \in Offers : AcceptedOfferCheckout(o, offer)
    \/ \E r \in Results : AuctionWinnerCheckout(o, r)
    \/ BuyerCancel(o)
    \/ ReadExpiredOrder(o)
    \/ \E k \in Keys : PayExpired(o, k)
    \/ \E k \in Keys : PaySucceeds(o, k)
    \/ \E k \in Keys : PayFails(o, k)
    \/ ShipOrder(o)
    \/ DeliverOrder(o)

Next ==
    \/ CatalogStep
    \/ \E o \in OrderIds : OrderStep(o)
    \/ \E l \in Listings : ReleaseAbandonedOrder(l)
    \/ \E r \in Results : ExpireResult(r)
    \/ \E x \in OrderIds \cup Results : DeadlinePasses(x)

Spec == Init /\ [][Next]_vars

-----------------------------------------------------------------------------
(* Properties.                                                             *)

\* The listings of the orders whose status is one of S.
ListingsOf(S) == {order[o].listing : o \in {x \in OrderIds : order[x].status \in S}}

\* A listing is RESERVED exactly while some order on it waits for its payment:
\* no reservation outlives its order (checkout.py, views.py _restore_listing)
\* and no buyer is in mid-payment on a listing that others can still buy.
ReservationBacked == {l \in Listings : listing[l] = "RESERVED"} = ListingsOf({"PENDING_PAYMENT"})

\* A listing is SOLD exactly when an order on it has been paid: pay_order is the
\* only way in, and no cancellation or expiry of another order undoes it.
SoldBacked == {l \in Listings : listing[l] = "SOLD"} = ListingsOf(Sold)

\* A successful payment and a paid order go together: nobody is charged for an
\* order that is unpaid or CANCELLED, and nothing ships without a charge.
MoneyMatchesOrders == \A o \in OrderIds : Charged(o) <=> order[o].status \in Sold

\* No listing is paid for twice, by two keys of one order or by two orders,
\* although a declined order leaves its listing ACTIVE for everybody.
NoDoubleSale ==
    \A j, k \in Keys :
        /\ j # k
        /\ payment[j].status = "SUCCEEDED" /\ payment[k].status = "SUCCEEDED"
        => order[payment[j].order].listing # order[payment[k].order].listing

\* What makes NoDoubleSale inductive: at most one live order per listing, at most
\* one SUCCEEDED payment per order (uq_payments_order_succeeded).
OneLiveOrder ==
    \A x, y \in OrderIds :
        x # y /\ Live(x) /\ Live(y) => order[x].listing # order[y].listing

OneChargePerOrder ==
    \A j, k \in Keys :
        /\ j # k
        /\ payment[j].status = "SUCCEEDED" /\ payment[k].status = "SUCCEEDED"
        => payment[j].order # payment[k].order

LedgerInv == OneLiveOrder /\ MoneyMatchesOrders /\ OneChargePerOrder

\* Order, auction result and auction agree on how far the sale to the winner has
\* come: a claim is open while its order is unpaid, settled once it is paid.
SettlementConsistent ==
    \A r \in Results :
        LET of == {o \in OrderIds : order[o].status # "NONE" /\ order[o].source = r}
        IN  /\ (result[r] = "ORDER_CREATED") <=> \E o \in of : order[o].status \in Unpaid
            /\ (result[r] = "PAYMENT_COMPLETED") <=> \E o \in of : order[o].status \in Sold
            /\ (auction[r] = "SETTLED") <=> (result[r] = "PAYMENT_COMPLETED")

\* The audit trail accounts for the present status: an order enters every status as
\* often as it leaves it, and the status it is in once more, from its one creation
\* on.  A missing row, or one with a wrong from_status, leaves the account open.
Balanced(h, status) ==
    /\ h.from["NONE"] = IF status = "NONE" THEN 0 ELSE 1
    /\ \A s \in OrderStatus : h.to[s] = h.from[s] + IF s = status THEN 1 ELSE 0

HistoryBalanced == \A o \in OrderIds : Balanced(history[o], order[o].status)

\* What a moderator removed or a seller archived stays off the market through every
\* cancellation, expiry, decline and retry of the orders on it: an archived listing
\* never comes back, and a removed one only in a step that touches no other table.
TakenDownStaysDown ==
    [][\A l \in Listings :
          /\ listing[l] = "ARCHIVED" => listing'[l] = "ARCHIVED"
          /\ listing[l] = "REMOVED" /\ listing'[l] # "REMOVED"
             => /\ listing'[l] = "ACTIVE"
                /\ UNCHANGED <<order, payment, result, auction, shipment, history>>]_vars

\* Checkout and payment implement the promise of Sale, where a hold is an unpaid
\* order and a charge is a SUCCEEDED payment row.
HeldPairs == {<<order[o].listing, order[o].buyer>> :
                 o \in {x \in OrderIds : order[x].status \in Unpaid}}
ChargedPairs == {<<order[payment[k].order].listing, order[payment[k].order].buyer>> :
                    k \in {x \in Keys : payment[x].status = "SUCCEEDED"}}

Goods == INSTANCE Sale WITH held <- HeldPairs, charged <- ChargedPairs

SaleSpec == Goods!Spec
=============================================================================
