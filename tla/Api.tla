-------------------------------- MODULE Api --------------------------------
(***************************************************************************)
(* The API as a page of the web client meets it: rows of one kind, each    *)
(* with a status, and for each kind the moves <<from, action, to>> that    *)
(* one request commits.  An action with no move from the status of its row *)
(* is answered with 409; a few are refused for other reasons too, or       *)
(* repeated without a commit.  How the handlers reach those commits, and what   *)
(* their races do to the rows, is what Orders, OrderTx, OfferBook and      *)
(* Auctions are about; the status names are theirs.                        *)
(***************************************************************************)
EXTENDS Naturals, FiniteSets

\* The same action from several statuses.
From(S, a, to) == {<<s, a, to>> : s \in S}
Stays(S, a) == {<<s, a, s>> : s \in S}
AnyOf(S) == {<<s, t, t>> : s \in S, t \in S}

\* A listing as its seller, a buyer and moderation move it.
ListingMoves ==
    From({"DRAFT"}, "publish", "ACTIVE") \cup From({"DRAFT", "ACTIVE", "ARCHIVED"}, "archive", "ARCHIVED")
    \cup From({"ACTIVE"}, "remove", "REMOVED") \cup From({"REMOVED"}, "restore", "ACTIVE")
    \cup From({"ACTIVE"}, "place", "RESERVED") \cup From({"RESERVED"}, "pay", "SOLD")
    \cup From({"RESERVED"}, "cancel", "ACTIVE")

\* An order; REVIEWED is a delivered order the buyer has reviewed.
OrderMoves ==
    From({"PENDING_PAYMENT", "PAYMENT_FAILED"}, "pay", "PAID")
    \cup From({"PENDING_PAYMENT", "PAYMENT_FAILED"}, "pay", "PAYMENT_FAILED")
    \cup From({"PENDING_PAYMENT", "PAYMENT_FAILED"}, "cancel", "CANCELLED")
    \cup From({"PAID"}, "ship", "SHIPPED") \cup From({"SHIPPED"}, "deliver", "DELIVERED")
    \cup From({"DELIVERED"}, "review", "REVIEWED")

\* An offer; ORDERED is an accepted offer that an order refers to.
OfferMoves ==
    From({"ABSENT"}, "offer", "PENDING") \cup From({"PENDING"}, "accept", "ACCEPTED")
    \cup From({"PENDING"}, "reject", "REJECTED") \cup From({"PENDING"}, "withdraw", "WITHDRAWN")
    \cup From({"PENDING"}, "expire", "EXPIRED") \cup From({"ACCEPTED"}, "place", "ORDERED")

\* An auction with its result.
AuctionMoves ==
    From({"SCHEDULED"}, "start", "LIVE") \cup Stays({"LIVE"}, "bid")
    \cup From({"LIVE"}, "close", "AWAITING_CHECKOUT") \cup From({"LIVE"}, "close", "ENDED")
    \cup From({"AWAITING_CHECKOUT"}, "place", "ORDER_CREATED")
    \cup From({"AWAITING_CHECKOUT"}, "expire", "PAYMENT_EXPIRED")

UserMoves ==
    From({"ACTIVE", "PENDING_VERIFICATION"}, "suspend", "SUSPENDED")
    \cup From({"SUSPENDED"}, "reactivate", "ACTIVE") \cup From({"PENDING_VERIFICATION"}, "verify", "ACTIVE")

\* A support ticket: the user may write to it until it is closed, the staff may set any status.
OpenTicket == {"OPEN", "IN_PROGRESS", "WAITING_FOR_CUSTOMER"}

TicketMoves ==
    From({"ABSENT"}, "create", "OPEN") \cup AnyOf(OpenTicket \cup {"RESOLVED", "CLOSED"})
    \cup Stays({"OPEN", "IN_PROGRESS"}, "reply") \cup From({"WAITING_FOR_CUSTOMER"}, "reply", "IN_PROGRESS")
    \cup From(OpenTicket, "answer", "WAITING_FOR_CUSTOMER")

ReportMoves ==
    From({"ABSENT"}, "report", "OPEN") \cup AnyOf({"OPEN", "UNDER_REVIEW", "RESOLVED", "DISMISSED"})

ReviewMoves == From({"ACTIVE"}, "remove", "REMOVED")

\* Whether the user saved the listing.
FavoriteMoves == From({"OUT"}, "add", "IN") \cup From({"IN"}, "drop", "OUT")

NoticeMoves == From({"UNREAD", "READ"}, "read", "READ")

\* A conversation: every message is a new version of it.
ThreadMoves == From({"NEW", "OPEN"}, "send", "OPEN")

AddressMoves == From({"NONE", "SAVED"}, "add", "SAVED")

ProfileMoves == Stays({"SET"}, "save")

Moves ==
    [listing |-> ListingMoves, order |-> OrderMoves, offer |-> OfferMoves, auction |-> AuctionMoves,
     user |-> UserMoves, ticket |-> TicketMoves, report |-> ReportMoves, review |-> ReviewMoves,
     favorite |-> FavoriteMoves, notice |-> NoticeMoves, thread |-> ThreadMoves,
     address |-> AddressMoves, profile |-> ProfileMoves]

Statuses == [kind \in DOMAIN Moves |-> {m[1] : m \in Moves[kind]} \cup {m[3] : m \in Moves[kind]}]

\* Where the status of the row allows an action and the handler may refuse it all the same: the
\* listing of an offer or of a result is not for sale any more, a bid comes before or after the
\* window, a checkout is past its deadline, a key was spent on another order.
Conditional ==
    {<<"offer", "PENDING", "accept">>, <<"offer", "ACCEPTED", "place">>, <<"auction", "LIVE", "bid">>,
     <<"auction", "AWAITING_CHECKOUT", "place">>, <<"order", "PENDING_PAYMENT", "pay">>,
     <<"order", "PAYMENT_FAILED", "pay">>}

\* Where a request that was made before is answered with what is there, and nothing is committed: a
\* payment with its key, the checkout of an offer or a result, a message with the same words.
Repeatable ==
    ({"order"} \X (Statuses["order"] \ {"PENDING_PAYMENT"}) \X {"pay"})
    \cup {<<"offer", "ORDERED", "place">>, <<"auction", "ORDER_CREATED", "place">>, <<"thread", "OPEN", "send">>}
    \cup ({"ticket"} \X OpenTicket \X {"reply"})

-----------------------------------------------------------------------------
(* What a page is, to the machine of module Pages.                         *)

\* A page that lists rows and offers nothing; every page differs from it in a few fields.
Reader ==
    [kind |-> "listing",  \* the rows it shows
     gate |-> "auth",     \* who waits for the session: RequireAuth or AdminApp ("auth"), the page
                          \* ("own"), a part that stays empty without one ("silent"), nobody ("open")
     detail |-> FALSE,    \* it shows the one row its query names
     keyed |-> FALSE,     \* another query mounts another component
     guarded |-> FALSE,   \* the answer of an overtaken load is dropped
     keeps |-> FALSE,     \* what it shows stays while it loads
     polls |-> FALSE,     \* it also loads on a timer or an event
     offers |-> {},       \* pairs <<status shown, action>>
     blind |-> {},        \* the actions it offers without a look at the status
     target |-> "row",    \* an action is sent for the row shown, or for the "query" of the render
     busy |-> "page",     \* what an action under way disables: the page, its "row", "nothing"
     loses |-> TRUE,      \* a failed load leaves nothing on the screen
     done |-> {"reload"}, \* after success, one of: "reload", "answer" (show the answer), "leave",
                          \* "remount" (the session is loaded again, and the page mounted anew), "stay",
                          \* "apart" (show the answer in place of what was loaded, until the next press)
     refused |-> {"stay"},\* after a 409, one of: "reload", "answer" (as if done), "leave", "stay", "error"
     failed |-> {"stay"}] \* after any other failure, one of: "reload", "leave", "stay", "error"

\* What a page may be: it offers actions that its kind of rows has, in statuses that kind can have.
WellFormed(p) ==
    /\ p.kind \in DOMAIN Moves
    /\ p.gate \in {"auth", "own", "silent", "open"}
    /\ {p.detail, p.keyed, p.guarded, p.keeps, p.polls, p.loses} \subseteq BOOLEAN
    /\ \A o \in p.offers : o[1] \in Statuses[p.kind] /\ \E m \in Moves[p.kind] : m[2] = o[2]
    /\ p.target \in {"row", "query"}
    /\ p.target = "query" => p.detail
    /\ p.busy \in {"page", "row", "nothing"}
    /\ p.done \subseteq {"reload", "answer", "leave", "remount", "stay", "apart"}
    /\ "apart" \in p.done => /\ p.detail /\ p.target = "query" /\ ~p.guarded
                            /\ p.done = {"apart"} /\ p.refused \cup p.failed = {"stay"}
    /\ p.refused \subseteq {"reload", "answer", "leave", "stay", "error"}
    /\ p.failed \subseteq {"reload", "leave", "stay", "error"}

=============================================================================
