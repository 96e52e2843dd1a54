------------------------------- MODULE OrderTx -------------------------------
(***************************************************************************)
(* The tables of Orders, with each request a database session whose steps  *)
(* interleave with those of the others.  PostgreSQL runs READ COMMITTED: a *)
(* plain read sees the last commit; SELECT ... FOR UPDATE, and the UPDATEs *)
(* of a flush, wait for the row; a commit publishes the writes and drops   *)
(* the locks.  A SQLAlchemy session loads a row once: when it selects the  *)
(* row again, FOR UPDATE or not, it waits for the lock but hands back the  *)
(* object it has, its columns as they were (views.py release_expired_order)*)
(*                                                                         *)
(* The writes of a request and its commit are one step, since nobody sees  *)
(* a write before the commit.  What matters is the age of the copies on    *)
(* which the write was decided: seen (of the order) and shelf (of the      *)
(* listing).  Orders here are fixed-price ones.                            *)
(***************************************************************************)
EXTENDS Orders

CONSTANTS
    Requests,     \* concurrent sessions, one task each
    Tasks,        \* Tasks[p]: the tasks request p may be given
    Expiring,     \* the orders whose deadline may pass
    FirstListing, FirstOrder, FirstBuyer   \* the checkout everybody meets

Ops == {"read", "pay", "decline", "cancel", "ship", "deliver",
        "checkout", "archive", "remove", "restore"}

Task == [op : Ops, order : OrderIds, listing : Listings, buyer : Users, key : Keys]

\* A checkout is one that the first guards let through, and its order gets an id of its own.
ASSUME OrderTxAssumption ==
    /\ "free" \notin Requests
    /\ OrderIds \cap Listings = {}
    /\ \A p \in Requests : Tasks[p] \subseteq Task
    /\ \A p \in Requests : \A x \in Tasks[p] : x.op = "checkout" =>
          /\ x.order # FirstOrder
          /\ x.buyer # SellerOf[x.listing] /\ x.listing \notin AuctionListings
          /\ \A q \in Requests \ {p} : \A y \in Tasks[q] : y.op = "checkout" => y.order # x.order
    /\ Expiring \subseteq OrderIds
    /\ FirstListing \in Listings /\ FirstOrder \in OrderIds /\ FirstBuyer \in Users

VARIABLES
    task,      \* what each request was asked to do
    session,   \* how far it has come and the copies it holds
    lock       \* the request that holds the row lock of an order or listing

txVars == <<vars, task, session, lock>>

Free == "free"

\* act: what the commit in preparation does; order: the order row in hand.
Session == [pc : {"begin", "lockOrder", "readListing", "commit", "findAbandoned",
                  "refresh", "insert", "done"},
            act : Ops, order : OrderIds,
            seen : OrderStatus \cup {"NONE"}, shelf : ListingStatus \cup {"NONE"}]

TxTypeOK ==
    /\ TypeOK
    /\ task \in [Requests -> Task]
    /\ session \in [Requests -> Session]
    /\ lock \in [OrderIds \cup Listings -> Requests \cup {Free}]

\* One unpaid order holds FirstListing, and no request has begun.
TxInit ==
    /\ listing = [l \in Listings |-> IF l = FirstListing THEN "RESERVED" ELSE "ACTIVE"]
    /\ order = [o \in OrderIds |->
                  IF o = FirstOrder
                  THEN [status |-> "PENDING_PAYMENT", listing |-> FirstListing,
                        buyer |-> FirstBuyer, source |-> "FIXED_PRICE"]
                  ELSE Absent]
    /\ payment = [k \in Keys |-> Absent]
    /\ result = [r \in Results |-> "AWAITING_CHECKOUT"]
    /\ auction = [r \in Results |-> "ENDED"]
    /\ shipment = [o \in OrderIds |-> <<>>]
    /\ history = [o \in OrderIds |->
                    IF o = FirstOrder
                    THEN WithRows(NoRows, {<<"NONE", "PENDING_PAYMENT">>}) ELSE NoRows]
    /\ late = {}
    /\ task \in [Requests -> UNION {Tasks[p] : p \in Requests}]
    /\ \A p \in Requests : task[p] \in Tasks[p]
    /\ session = [p \in Requests |->
                    [pc |-> "begin", act |-> task[p].op, order |-> task[p].order,
                     seen |-> "NONE", shelf |-> "NONE"]]
    /\ lock = [x \in OrderIds \cup Listings |-> Free]

-----------------------------------------------------------------------------
At(p, pc, acts) == session[p].pc = pc /\ session[p].act \in acts

Shelf(p) == IF task[p].op \in {"checkout", "archive", "remove", "restore"}
            THEN task[p].listing ELSE order[session[p].order].listing

\* Seeded bugs: rows are read without FOR UPDATE; the session is left open.
AvailableAlways(p, x) == TRUE

DropLocksNever(p) == UNCHANGED lock

Available(p, x) == lock[x] \in {Free, p}

Acquire(p, x) == Available(p, x) /\ lock' = [lock EXCEPT ![x] = p]

DropLocks(p) ==
    lock' = [x \in DOMAIN lock |-> IF lock[x] = p THEN Free ELSE lock[x]]

Goto(p, pc) == session' = [session EXCEPT ![p].pc = pc]

\* The answer is sent and the session closed, which drops its locks.
Answer(p) == Goto(p, "done") /\ DropLocks(p)

\* The request answers 404, 409 or 500 and changes nothing.
Refuse(p) == Answer(p) /\ UNCHANGED <<vars, task>>

-----------------------------------------------------------------------------
(* First reads.                                                            *)

\* Seeded bug: ship and deliver take an order in any state.
ActionableAlways(p, o) == order[o].status # "NONE"

\* get_order, ship_order and deliver_order load the order with no lock; the
\* reader goes on only when it finds an abandoned order, which it will cancel.
Actionable(p, o) ==
    CASE task[p].op = "read" -> order[o].status \in Unpaid /\ o \in late
      [] task[p].op = "ship" -> order[o].status = "PAID"
      [] OTHER               -> order[o].status = "SHIPPED"

LoadOrder(p) ==
    LET o == task[p].order
        reading == task[p].op = "read"
    IN  /\ At(p, "begin", {"read", "ship", "deliver"})
        /\ IF Actionable(p, o)
           THEN /\ session' = [session EXCEPT ![p] =
                      [@ EXCEPT !.pc = IF reading THEN "lockOrder" ELSE "commit",
                                !.act = IF reading THEN "cancel" ELSE task[p].op,
                                !.seen = order[o].status]]
                /\ UNCHANGED <<vars, task, lock>>
           ELSE Refuse(p)

\* Seeded bug: payment without the expiry gate.
DecisionsLate(p, o) ==
    {act \in {task[p].op} :
       /\ Cancellable(o)
       /\ act # "cancel" => Attempt(o, task[p].key)}

\* What the row lock lets pay_order and cancel_order_endpoint decide: to cancel a
\* past-due order, to go on as asked, or (no decision) to answer at once.
Decisions(p, o) ==
    {act \in {"pay", "decline", "cancel"} :
       /\ act = IF o \in late THEN "cancel" ELSE task[p].op
       /\ Cancellable(o)
       /\ task[p].op # "cancel" => Attempt(o, task[p].key)}

\* pay_order and cancel_order_endpoint begin with SELECT ... FOR UPDATE.
LockOrder(p) ==
    LET o == task[p].order
    IN  /\ At(p, "begin", {"pay", "decline", "cancel"})
        /\ Available(p, o)
        /\ \/ /\ Decisions(p, o) = {}
              /\ Refuse(p)
           \/ \E act \in Decisions(p, o) :
                 /\ Acquire(p, o)
                 /\ session' = [session EXCEPT ![p] =
                       [@ EXCEPT !.pc = "readListing", !.act = act, !.seen = order[o].status]]
                 /\ UNCHANGED <<vars, task>>

\* The lock of release_expired_order, on an order that this session has loaded
\* before: whatever the row has become, the copy in hand is still unpaid.
RelockOrder(p) ==
    /\ At(p, "lockOrder", {"cancel"})
    /\ Acquire(p, session[p].order)
    /\ Goto(p, IF task[p].op = "checkout" THEN "commit" ELSE "readListing")
    /\ UNCHANGED <<vars, task>>

\* db.get(Listing): no lock.  A retry of a declined order needs it reservable.
ReadListing(p) ==
    LET l == Shelf(p)
        retrying == session[p].act # "cancel" /\ session[p].seen = "PAYMENT_FAILED"
    IN  /\ At(p, "readListing", {"pay", "decline", "cancel"})
        /\ IF retrying => listing[l] \in {"ACTIVE", "RESERVED"}
           THEN /\ session' = [session EXCEPT ![p] = [@ EXCEPT !.pc = "commit",
                                                               !.shelf = listing[l]]]
                /\ UNCHANGED <<vars, task, lock>>
           ELSE Refuse(p)

\* The Listing dependency of update_listing: no lock.
LoadListing(p) ==
    /\ At(p, "begin", {"archive"})
    /\ IF listing[Shelf(p)] = "ACTIVE"
       THEN /\ session' = [session EXCEPT ![p] = [@ EXCEPT !.pc = "commit", !.shelf = "ACTIVE"]]
            /\ UNCHANGED <<vars, task, lock>>
       ELSE Refuse(p)

-----------------------------------------------------------------------------
(* Checkout: it holds the listing first and may come to an order later.    *)

LockListing(p) ==
    LET l == Shelf(p)
    IN  /\ At(p, "begin", {"checkout"})
        /\ Acquire(p, l)
        /\ session' = [session EXCEPT ![p] =
              [@ EXCEPT !.pc = IF listing[l] = "ACTIVE" THEN "insert" ELSE "findAbandoned",
                        !.shelf = listing[l]]]
        /\ UNCHANGED <<vars, task>>

\* _release_abandoned_order looks the order up without locking it.
FindAbandoned(p) ==
    LET found == {o \in LiveOrders(Shelf(p)) \cap late : order[o].status = "PENDING_PAYMENT"}
    IN  /\ At(p, "findAbandoned", {"checkout"})
        /\ \/ /\ found = {}
              /\ Refuse(p)
           \/ \E o \in found :
                 /\ session' = [session EXCEPT ![p] =
                       [@ EXCEPT !.pc = "lockOrder", !.act = "cancel", !.order = o,
                                 !.seen = "PENDING_PAYMENT"]]
                 /\ UNCHANGED <<vars, task, lock>>

\* db.refresh(listing) after the release has committed: the lock is gone.
RefreshListing(p) ==
    /\ At(p, "refresh", {"checkout"})
    /\ IF listing[Shelf(p)] = "ACTIVE"
       THEN /\ session' = [session EXCEPT ![p] = [@ EXCEPT !.pc = "insert", !.shelf = "ACTIVE"]]
            /\ UNCHANGED <<vars, task, lock>>
       ELSE Refuse(p)

\* The new order and the reservation, written whatever the listing now is.
CommitCheckout(p) ==
    LET o == task[p].order
        l == Shelf(p)
    IN  /\ At(p, "insert", {"checkout"})
        /\ Available(p, l)
        /\ IF Insertable(l, "FIXED_PRICE")
           THEN /\ order' = [order EXCEPT ![o] = [status |-> "PENDING_PAYMENT", listing |-> l,
                                                  buyer |-> task[p].buyer,
                                                  source |-> "FIXED_PRICE"]]
                /\ listing' = [listing EXCEPT ![l] = "RESERVED"]
                /\ Record(o, {<<"NONE", "PENDING_PAYMENT">>})
                /\ UNCHANGED <<payment, result, auction, shipment, late, task>>
                /\ Answer(p)
           ELSE Refuse(p)

-----------------------------------------------------------------------------
(* Commits.  An UPDATE waits for its row and sets the columns the session  *)
(* has changed, whatever the row has become.                               *)

\* cancel_order decides by its copies; the release of a checkout goes on.
CommitCancel(p) ==
    LET o == session[p].order
        l == order[o].listing
        releases == session[p].shelf = "RESERVED"
    IN  /\ At(p, "commit", {"cancel"})
        /\ releases => Available(p, l)
        /\ SetStatus(o, "CANCELLED")
        /\ listing' = IF releases THEN [listing EXCEPT ![l] = "ACTIVE"] ELSE listing
        /\ Record(o, {<<session[p].seen, "CANCELLED">>})
        /\ DropLocks(p)
        /\ session' = [session EXCEPT ![p] =
              IF task[p].op = "checkout"
              THEN [@ EXCEPT !.pc = "refresh", !.act = "checkout"]
              ELSE [@ EXCEPT !.pc = "done"]]
        /\ UNCHANGED <<payment, result, auction, shipment, late, task>>

\* Seeded bug: the re-arming leaves no history row.
AttemptRowsSilent(p, to) == {<<"PENDING_PAYMENT", to>>}

\* The history rows of an attempt, from the copy of the order.
AttemptRows(p, to) ==
    IF session[p].seen = "PAYMENT_FAILED"
    THEN {<<"PAYMENT_FAILED", "PENDING_PAYMENT">>, <<"PENDING_PAYMENT", to>>}
    ELSE {<<"PENDING_PAYMENT", to>>}

\* The unique indexes of payments: one row per key, one SUCCEEDED row per order.
PaymentFits(k, o, ok) == payment[k] = Absent /\ (ok => ~Charged(o))

\* A decline leaves a listing alone that was not reserved for it.
CommitPayment(p) ==
    LET o == session[p].order
        k == task[p].key
        l == order[o].listing
        ok == session[p].act = "pay"
        to == IF ok THEN "PAID" ELSE "PAYMENT_FAILED"
        touches == \/ ok /\ session[p].shelf # "SOLD"
                   \/ session[p].seen = "PAYMENT_FAILED"
                   \/ session[p].shelf = "RESERVED"
    IN  /\ At(p, "commit", {"pay", "decline"})
        /\ touches => Available(p, l)
        /\ IF PaymentFits(k, o, ok)
           THEN /\ Pay(k, o, IF ok THEN "SUCCEEDED" ELSE "FAILED")
                /\ SetStatus(o, to)
                /\ listing' = IF touches
                              THEN [listing EXCEPT ![l] = IF ok THEN "SOLD" ELSE "ACTIVE"]
                              ELSE listing
                /\ Record(o, AttemptRows(p, to))
                /\ UNCHANGED <<result, auction, shipment, late, task>>
                /\ Answer(p)
           ELSE Refuse(p)

\* An UPDATE that makes the row live again has to pass uq_orders_listing_id too.
Revivable(o) == LiveOrders(order[o].listing) \subseteq {o}

CommitFulfilment(p) ==
    LET o == session[p].order
        shipping == session[p].act = "ship"
        to == IF shipping THEN "SHIPPED" ELSE "DELIVERED"
    IN  /\ At(p, "commit", {"ship", "deliver"})
        /\ Available(p, o)
        /\ IF Revivable(o)
           THEN /\ SetStatus(o, to)
                /\ shipment' = [shipment EXCEPT ![o] =
                                  IF shipping THEN Append(@, "SHIPPED") ELSE LatestDelivered(@)]
                /\ Record(o, {<<session[p].seen, to>>})
                /\ UNCHANGED <<listing, payment, result, auction, late, task>>
                /\ Answer(p)
           ELSE Refuse(p)

CommitArchive(p) ==
    /\ At(p, "commit", {"archive"})
    /\ Available(p, Shelf(p))
    /\ listing' = [listing EXCEPT ![Shelf(p)] = "ARCHIVED"]
    /\ UNCHANGED <<order, payment, result, auction, shipment, history, late, task>>
    /\ Answer(p)

\* _moderate_listing holds the listing from its read to its commit.
Moderate(p) ==
    LET l == Shelf(p)
        from == IF session[p].act = "remove" THEN "ACTIVE" ELSE "REMOVED"
    IN  /\ At(p, "begin", {"remove", "restore"})
        /\ Available(p, l)
        /\ IF listing[l] = from
           THEN /\ RemoveListing(l) \/ RestoreListing(l)
                /\ UNCHANGED <<order, payment, result, auction, shipment, history, late, task>>
                /\ Answer(p)
           ELSE Refuse(p)

-----------------------------------------------------------------------------
\* The worker process dies, or PostgreSQL gives up on the transaction.
Abort(p) ==
    /\ session[p].pc \notin {"begin", "done"}
    /\ Refuse(p)

\* p holds the order and waits for the listing; q, a checkout in its release, holds
\* the listing and waits for the order.
Deadlocked(p, q) ==
    /\ session[p].pc = "commit" /\ session[p].act \in {"pay", "decline", "cancel"}
    /\ session[q].pc = "lockOrder"
    /\ lock[session[p].order] = p /\ session[q].order = session[p].order
    /\ lock[order[session[p].order].listing] = q

\* PostgreSQL finds the cycle and aborts one of the two.
BreakDeadlock(p, q) ==
    /\ Deadlocked(p, q)
    /\ Refuse(p) \/ Refuse(q)

Step(p) ==
    \/ LoadOrder(p) \/ LockOrder(p) \/ RelockOrder(p) \/ ReadListing(p) \/ LoadListing(p)
    \/ LockListing(p) \/ FindAbandoned(p) \/ RefreshListing(p) \/ CommitCheckout(p)
    \/ CommitCancel(p) \/ CommitPayment(p) \/ CommitFulfilment(p)
    \/ CommitArchive(p) \/ Moderate(p)

Elapse(o) == DeadlinePasses(o) /\ UNCHANGED <<task, session, lock>>

TxNext ==
    \/ \E p \in Requests : Step(p) \/ Abort(p)
    \/ \E p, q \in Requests : BreakDeadlock(p, q)
    \/ \E o \in Expiring : Elapse(o)

\* The server runs every request, and the deadlock detector always wakes up.
TxFairness ==
    /\ \A p \in Requests : WF_txVars(Step(p))
    /\ \A p, q \in Requests : WF_txVars(BreakDeadlock(p, q))

TxSpec == TxInit /\ [][TxNext]_txVars /\ TxFairness

-----------------------------------------------------------------------------
(* Properties, beside those of Orders.                                     *)

\* Every request is answered, although checkout takes the listing before the order
\* and payment and cancellation the order before the listing.
EveryRequestAnswers == \A p \in Requests : <>(session[p].pc = "done")

\* A payment succeeds only on an order that is unpaid at that very moment, whatever
\* unlocked writers did since the handler looked: the row lock covers the decision.
ChargedWhileUnpaid ==
    [][\A k \in Keys :
          payment[k] = Absent /\ payment'[k].status = "SUCCEEDED"
          => LET o == payment'[k].order
             IN  order[o].status \in Unpaid /\ order'[o].status = "PAID"]_txVars

\* An order whose window closes while nobody holds its row is never charged again,
\* whatever requests wait for the row, hold older copies of it or retry a declined
\* attempt (the expiry gate of pay_order).  A payment that decided before the
\* deadline holds the row, and may still commit after it.
Lapsed(o) == o \in late /\ lock[o] = Free /\ ~Charged(o)

LapsedIsFinal == \A o \in Expiring : [](Lapsed(o) => []~Charged(o))

\* Nothing is shipped that was not charged, however old the copy is on which ship and
\* deliver decide, and whoever cancels the order meanwhile.
ShippedIsCharged ==
    \A o \in OrderIds : order[o].status \in {"SHIPPED", "DELIVERED"} => Charged(o)

\* Every request in play takes row locks before it decides.
AllLock ==
    \A p \in Requests : task[p].op \in {"pay", "decline", "cancel", "checkout"}

\* Locks make overlapping requests as good as sequential: listings, orders, payments
\* and the audit trail agree after every commit (see Orders).
LockedRowsAgree ==
    AllLock => ReservationBacked /\ SoldBacked /\ MoneyMatchesOrders /\ HistoryBalanced

\* From the open checkout on, every step of a session that locks is a step of the
\* abstract sale: no pair of them holds or charges a listing twice.
LockedSaleSteps == [][AllLock => Goods!Next]_<<HeldPairs, ChargedPairs>>

\* "Re-check under row lock so a concurrent payment/cancel wins cleanly." (views.py)
PaymentWins ==
    [][\A o \in OrderIds : order[o].status \in Sold => order'[o].status # "CANCELLED"]_txVars
=============================================================================
