------------------------------ MODULE OfferBook ------------------------------
(***************************************************************************)
(* Offers on fixed-price listings (api/v1/offers.py): creation, the answer *)
(* of the seller or an ADMIN, withdrawal and lazy expiry.                  *)
(*                                                                         *)
(* Requests overlap.  respond_to_offer and withdraw_offer refresh the offer*)
(* under its row lock, so they decide on current columns; respond_to_offer *)
(* takes the listing, and get_offer the offer, as they were when the       *)
(* request began.  A request slot serves one request after another.        *)
(***************************************************************************)
EXTENDS Catalog

CONSTANTS
    OfferIds,     \* bounds the offers ever made
    Slots,        \* requests that may overlap
    Ops           \* the operations in play

Free == "free"    \* in place of the holder of a row that nobody has locked

ASSUME OfferAssumption ==
    /\ Ops \subseteq {"accept", "reject", "cancel", "withdraw", "read"}
    /\ Free \notin Slots

VARIABLES
    offer,        \* offer rows
    due,          \* offers whose expires_at has passed
    ordered,      \* offers that some order row refers to (orders.accepted_offer_id)
    lock,         \* the slot that holds the row lock of an offer
    session       \* what each slot is doing

vars == <<listing, offer, due, ordered, lock, session>>

OfferStatus == {"PENDING", "ACCEPTED", "REJECTED", "CANCELLED", "WITHDRAWN", "EXPIRED"}
OfferRow == [status : OfferStatus, listing : Listings, buyer : Users]
Absent == [status |-> "NONE"]

\* onSale: an acceptance found the listing ACTIVE when the request began.
Session == [pc : {"lock", "siblings", "commit", "expire"},
            op : Ops, offer : OfferIds, onSale : BOOLEAN]
Idle == [pc |-> "idle"]

TypeOK ==
    /\ CatalogTypeOK
    /\ offer \in [OfferIds -> OfferRow \cup {Absent}]
    /\ due \subseteq OfferIds
    /\ ordered \subseteq OfferIds
    /\ lock \in [OfferIds -> Slots \cup {Free}]
    /\ session \in [Slots -> Session \cup {Idle}]

Init ==
    /\ listing = [l \in Listings |-> "ACTIVE"]
    /\ offer = [x \in OfferIds |-> Absent]
    /\ due = {}
    /\ ordered = {}
    /\ lock = [x \in OfferIds |-> Free]
    /\ session = [p \in Slots |-> Idle]

-----------------------------------------------------------------------------
With(status) == {x \in OfferIds : offer[x].status = status}

On(l) == {x \in OfferIds : offer[x].status # "NONE" /\ offer[x].listing = l}

Expired(x) == offer[x].status = "PENDING" /\ x \in due

Available(x) == lock[x] = Free

Unlock(p) == lock' = [x \in OfferIds |-> IF lock[x] = p THEN Free ELSE lock[x]]

\* Answer the request, commit or no commit, and close its session.
Close(p) == Unlock(p) /\ session' = [session EXCEPT ![p] = Idle]

Refuse(p) == Close(p) /\ UNCHANGED <<listing, offer, due, ordered>>

\* The lookup of create_offer and uq_offers_pending_buyer_listing behind it.
Unanswered(l, b) == {x \in With("PENDING") \cap On(l) : offer[x].buyer = b}

\* POST /offers: the listing is locked from the check to the commit.
CreateOffer(x, l, b) ==
    /\ offer[x] = Absent
    /\ listing[l] = "ACTIVE"
    /\ l \notin AuctionListings
    /\ b # SellerOf[l]
    /\ Unanswered(l, b) = {}
    /\ offer' = [offer EXCEPT ![x] = [status |-> "PENDING", listing |-> l, buyer |-> b]]
    /\ UNCHANGED <<listing, due, ordered, lock, session>>

-----------------------------------------------------------------------------
(* A request on offer x.                                                   *)

\* The dependencies load offer and listing without a lock.  A reader that finds an
\* expired offer goes on to say so; any other reader changes nothing.
Begin(p, op, x) ==
    /\ session[p] = Idle
    /\ offer[x] # Absent
    /\ op = "read" => Expired(x)
    /\ session' = [session EXCEPT ![p] =
                     [pc |-> IF op = "read" THEN "expire" ELSE "lock", op |-> op,
                      offer |-> x,
                      onSale |-> op = "accept" /\ listing[offer[x].listing] = "ACTIVE"]]
    /\ UNCHANGED <<listing, offer, due, ordered, lock>>

\* _expire_if_due in get_offer: decided before, written now.
CommitExpiry(p) ==
    LET x == session[p].offer
    IN  /\ session[p].pc = "expire"
        /\ Available(x)
        /\ offer' = [offer EXCEPT ![x].status = "EXPIRED"]
        /\ UNCHANGED <<listing, due, ordered>>
        /\ Close(p)

\* Seeded bug: an offer that has been answered may be answered again.
AnswerableAgain(p, x) ==
    session[p].op = "accept" => session[p].onSale

\* The guards after the refresh; acceptance needs the listing to have been ACTIVE.
Answerable(p, x) ==
    /\ offer[x].status = "PENDING"
    /\ session[p].op = "accept" => session[p].onSale

\* db.refresh(offer, with_for_update=True): an expired offer is closed on the spot.
LockOffer(p) ==
    LET x == session[p].offer
    IN  /\ session[p].pc = "lock"
        /\ Available(x)
        /\ \/ /\ Expired(x)
              /\ offer' = [offer EXCEPT ![x].status = "EXPIRED"]
              /\ UNCHANGED <<listing, due, ordered>>
              /\ Close(p)
           \/ /\ ~Expired(x) /\ Answerable(p, x)
              /\ lock' = [lock EXCEPT ![x] = p]
              /\ session' = [session EXCEPT ![p].pc =
                               IF session[p].op = "accept" THEN "siblings" ELSE "commit"]
              /\ UNCHANGED <<listing, offer, due, ordered>>
           \/ /\ ~Expired(x) /\ ~Answerable(p, x)
              /\ Refuse(p)

\* Seeded bug: without skip_locked the select waits for the rows of others.
PassOverNone(p, rivals) == \A y \in rivals : Available(y)

\* skip_locked=True: rows that others hold are passed over.
PassOver(p, rivals) == TRUE

\* The other PENDING offers on the listing, as far as nobody holds them.
LockSiblings(p) ==
    LET x == session[p].offer
        rivals == (With("PENDING") \cap On(offer[x].listing)) \ {x}
    IN  /\ session[p].pc = "siblings"
        /\ PassOver(p, rivals)
        /\ lock' = [y \in OfferIds |-> IF y \in rivals /\ Available(y) THEN p ELSE lock[y]]
        /\ session' = [session EXCEPT ![p].pc = "commit"]
        /\ UNCHANGED <<listing, offer, due, ordered>>

\* Seeded bug: a status that the column does not know.
DecisionUnknown == [op \in Ops |-> IF op = "accept" THEN "ACCEPTED" ELSE "DECLINED"]

Decision == [accept |-> "ACCEPTED", reject |-> "REJECTED", cancel |-> "CANCELLED",
             withdraw |-> "WITHDRAWN"]

\* The decision, and with an acceptance the rejection of the siblings.
CommitAnswer(p) ==
    LET x == session[p].offer
    IN  /\ session[p].pc = "commit"
        /\ offer' = [y \in OfferIds |->
              IF y = x THEN [offer[y] EXCEPT !.status = Decision[session[p].op]]
              ELSE IF lock[y] = p THEN [offer[y] EXCEPT !.status = "REJECTED"]
              ELSE offer[y]]
        /\ UNCHANGED <<listing, due, ordered>>
        /\ Close(p)

Abort(p) == session[p] # Idle /\ Refuse(p)

-----------------------------------------------------------------------------
(* The rest of the system.                                                 *)

\* POST /checkout/offer: one order row per offer for ever.
CheckoutOffer(x) ==
    /\ Available(x)
    /\ offer[x].status = "ACCEPTED"
    /\ x \notin ordered
    /\ listing[offer[x].listing] = "ACTIVE"
    /\ ordered' = ordered \cup {x}
    /\ listing' = [listing EXCEPT ![offer[x].listing] = "RESERVED"]
    /\ UNCHANGED <<offer, due, lock, session>>

\* Checkout, cancellation and payment by others, and moderation.
ListingMoves(l) ==
    /\ \/ Move(l, "ACTIVE", "RESERVED")
       \/ Move(l, "RESERVED", "ACTIVE")
       \/ Move(l, "RESERVED", "SOLD")
       \/ RemoveListing(l)
       \/ RestoreListing(l)
    /\ UNCHANGED <<offer, due, ordered, lock, session>>

\* Wall-clock time passes expires_at, which not every offer has; it matters only
\* to an offer that is still PENDING.
Elapse(x) ==
    /\ offer[x].status = "PENDING" /\ x \notin due
    /\ due' = due \cup {x}
    /\ UNCHANGED <<listing, offer, ordered, lock, session>>

Step(p) ==
    \/ CommitExpiry(p) \/ LockOffer(p) \/ LockSiblings(p) \/ CommitAnswer(p)

Next ==
    \/ \E x \in OfferIds, l \in Listings, b \in Users : CreateOffer(x, l, b)
    \/ \E p \in Slots, op \in Ops, x \in OfferIds : Begin(p, op, x)
    \/ \E p \in Slots : Step(p) \/ Abort(p)
    \/ \E x \in OfferIds : CheckoutOffer(x) \/ Elapse(x)
    \/ \E l \in Listings : ListingMoves(l)

\* The server runs every request it has begun, and PostgreSQL hands a row lock on
\* in the order of arrival: whoever waits for a row gets its turn, however many
\* requests come after it.
Fairness ==
    \A p \in Slots : /\ SF_vars(LockOffer(p)) /\ SF_vars(CommitExpiry(p))
                     /\ WF_vars(LockSiblings(p)) /\ WF_vars(CommitAnswer(p))

Spec == Init /\ [][Next]_vars /\ Fairness

-----------------------------------------------------------------------------
(* Properties.                                                             *)

\* An order that comes from an offer comes from one that is ACCEPTED and stays so,
\* whatever answers, withdrawals and sibling rejections are still under way.  Only a
\* past-due offer can lose its acceptance, to a reader with an old copy.
OrderedIsAccepted ==
    \A x \in ordered :
        \/ offer[x].status = "ACCEPTED"
        \/ offer[x].status = "EXPIRED" /\ x \in due

\* Somebody loaded x before it was answered, with its time already up.
LateReader(x) ==
    x \in due /\ \E p \in Slots : session[p].pc = "expire" /\ session[p].offer = x

\* An answer is given once: no later request, and no rejection that was decided
\* before the answer, gives another one.  get_offer does overwrite it, with EXPIRED,
\* but only in a request that was under way before the answer.
AnswerStands ==
    [][\A x \in OfferIds : offer[x].status \notin {"NONE", "PENDING"} =>
          \/ offer'[x].status = offer[x].status
          \/ offer'[x].status = "EXPIRED" /\ LateReader(x)]_vars

\* Every request comes to its end, although acceptances of two offers on one listing
\* each hold an offer that the other one looks for.
RequestsEnd == \A p \in Slots : session[p] # Idle ~> session[p] = Idle

\* "At most one offer can ever be ACCEPTED/checked out per listing" (offers.py).
OneAccepted ==
    \A x, y \in With("ACCEPTED") : x # y => offer[x].listing # offer[y].listing
=============================================================================
