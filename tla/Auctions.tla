------------------------------ MODULE Auctions ------------------------------
(***************************************************************************)
(* Auctions from creation to settlement (api/v1/auctions.py) and the thread*)
(* that closes them (auctions/scheduler.py).                               *)
(*                                                                         *)
(* place_bid and the scheduler's close_auction hold the lock of the auction*)
(* row from their first read to their commit, so each is one step.         *)
(* schedule, start and the close endpoint read the row with no lock first, *)
(* and what they saw is what they go by later: a slot serves one such      *)
(* request after another.  Bid rows are numbered as they are created; a    *)
(* repeated request id finds its row and changes nothing.                  *)
(***************************************************************************)
EXTENDS Naturals, FiniteSets

CONSTANTS
    AuctionIds,
    Users,
    SellerOf,     \* the seller of the listing of an auction
    MaxBids,      \* bounds the bids ever placed
    Amounts,      \* the amounts anyone bids
    StartingBid, Increment,
    Reserve,      \* reserve_minor, 0 for an auction without one
    BidCap,       \* max_bids_per_user_per_auction
    Nobody,       \* NULL in current_winner_id
    Slots         \* requests of a seller or ADMIN that may overlap

ASSUME AuctionAssumption ==
    /\ SellerOf \in [AuctionIds -> Users]
    /\ Amounts \subseteq Nat
    /\ StartingBid \in Nat
    /\ Increment \in Nat \ {0}
    /\ Reserve \in [AuctionIds -> Nat]
    /\ MaxBids \in Nat /\ BidCap \in Nat
    /\ Nobody \notin Users

VARIABLES
    status,     \* Auction.status, "NONE" before the row exists
    price,      \* Auction.current_bid_minor, 0 for NULL
    top,        \* Auction.current_winning_bid_id; current_winner_id is its bidder
    bid,        \* bid rows
    result,     \* AuctionResult rows
    clock,      \* where wall-clock time is in the window of the auction
    session,    \* what each slot is doing
    sweep       \* due_ids of the scheduler's cycle, those still to be closed

vars == <<status, price, top, bid, result, clock, session, sweep>>

BidIds == 1..MaxBids
NoBid == 0
Absent == [status |-> "NONE"]
Idle == [op |-> "none"]

Ops == {"schedule", "start", "close"}

AuctionStatus == {"DRAFT", "SCHEDULED", "LIVE", "ENDED", "SETTLED"}
BidRow == [auction : AuctionIds, bidder : Users, amount : Amounts,
           status : {"WINNING", "OUTBID", "WON"}]
ResultRow == [status : {"NO_BIDS", "AWAITING_CHECKOUT", "ORDER_CREATED",
                        "PAYMENT_COMPLETED", "PAYMENT_EXPIRED"},
              bid : BidIds \cup {NoBid}]

TypeOK ==
    /\ status \in [AuctionIds -> AuctionStatus \cup {"NONE"}]
    /\ price \in [AuctionIds -> Amounts \cup {0}]
    /\ top \in [AuctionIds -> BidIds \cup {NoBid}]
    /\ bid \in [BidIds -> BidRow \cup {Absent}]
    /\ result \in [AuctionIds -> ResultRow \cup {Absent}]
    /\ clock \in [AuctionIds -> {"before", "open", "over"}]
    /\ session \in [Slots -> [op : Ops, auction : AuctionIds] \cup {Idle}]
    /\ sweep \subseteq AuctionIds

Init ==
    /\ status = [a \in AuctionIds |-> "NONE"]
    /\ price = [a \in AuctionIds |-> 0]
    /\ top = [a \in AuctionIds |-> NoBid]
    /\ bid = [x \in BidIds |-> Absent]
    /\ result = [a \in AuctionIds |-> Absent]
    /\ clock = [a \in AuctionIds |-> "before"]
    /\ session = [p \in Slots |-> Idle]
    /\ sweep = {}

-----------------------------------------------------------------------------
(* The seller prepares the auction.                                        *)

\* POST /auctions: one per listing (uq_auctions_listing_id).
CreateAuction(a) ==
    /\ status[a] = "NONE"
    /\ status' = [status EXCEPT ![a] = "DRAFT"]
    /\ UNCHANGED <<price, top, bid, result, clock, session, sweep>>

\* What each request wants to see, in a row read with no lock.
Movable(op, a) ==
    \/ op = "schedule" /\ status[a] = "DRAFT"
    \/ op = "start" /\ status[a] = "SCHEDULED" /\ clock[a] = "open"
    \/ op = "close" /\ status[a] = "LIVE"

LoadAuction(p, op, a) ==
    /\ session[p] = Idle
    /\ Movable(op, a)
    /\ session' = [session EXCEPT ![p] = [op |-> op, auction |-> a]]
    /\ UNCHANGED <<status, price, top, bid, result, clock, sweep>>

\* The UPDATE waits for the row and sets the status whatever it has become.
CommitMove(p) ==
    /\ session[p].op \in {"schedule", "start"}
    /\ status' = [status EXCEPT ![session[p].auction] =
                    IF session[p].op = "schedule" THEN "SCHEDULED" ELSE "LIVE"]
    /\ session' = [session EXCEPT ![p] = Idle]
    /\ UNCHANGED <<price, top, bid, result, clock, sweep>>

-----------------------------------------------------------------------------
(* Bids.                                                                   *)

BidsOn(a) == {x \in BidIds : bid[x] # Absent /\ bid[x].auction = a}

\* Seeded bugs: the floor forgets the increment; bids are taken after the end; the
\* earlier winner keeps its status, or gets one that the column does not know, or
\* the winners of other auctions are demoted with it.
FloorFlat(a) == IF top[a] = NoBid THEN StartingBid ELSE price[a]

BiddableLate(a) == status[a] = "LIVE" /\ clock[a] # "before"

DemotedNever(a, y) == bid[y]

DemotedLost(a, y) ==
    IF y \in BidsOn(a) /\ bid[y].status = "WINNING"
    THEN [bid[y] EXCEPT !.status = "LOST"] ELSE bid[y]

DemotedEverywhere(a, y) ==
    IF bid[y].status = "WINNING" THEN [bid[y] EXCEPT !.status = "OUTBID"] ELSE bid[y]

Floor(a) == IF top[a] = NoBid THEN StartingBid ELSE price[a] + Increment

Biddable(a) == status[a] = "LIVE" /\ clock[a] = "open"

\* Any earlier WINNING bid on the auction becomes OUTBID.
Demoted(a, y) ==
    IF y \in BidsOn(a) /\ bid[y].status = "WINNING"
    THEN [bid[y] EXCEPT !.status = "OUTBID"] ELSE bid[y]

PlaceBid(x, a, b, amount) ==
    /\ \A y \in BidIds : y < x <=> bid[y] # Absent
    /\ b # SellerOf[a]
    /\ Cardinality({y \in BidsOn(a) : bid[y].bidder = b}) < BidCap
    /\ Biddable(a)
    /\ amount >= Floor(a)
    /\ bid' = [y \in BidIds |->
                 IF y = x THEN [auction |-> a, bidder |-> b, amount |-> amount,
                                status |-> "WINNING"]
                 ELSE Demoted(a, y)]
    /\ price' = [price EXCEPT ![a] = amount]
    /\ top' = [top EXCEPT ![a] = x]
    /\ UNCHANGED <<status, result, clock, session, sweep>>

-----------------------------------------------------------------------------
(* Closing: by the seller or an ADMIN, or by the scheduler.                *)

\* Seeded bugs: the reserve is ignored, or has to be exceeded.
MeetsReserveAlways(a, x) == TRUE

MeetsReserveAbove(a, x) == bid[x].amount > Reserve[a]

MeetsReserve(a, x) == bid[x].amount >= Reserve[a]

\* The first of the highest bids, if it wins at all.
Winners(a) ==
    LET live == {x \in BidsOn(a) : bid[x].status \in {"WINNING", "OUTBID"}}
    IN  {x \in live :
           /\ MeetsReserve(a, x)
           /\ \A y \in live \ {x} :
                \/ bid[y].amount < bid[x].amount
                \/ bid[y].amount = bid[x].amount /\ x < y}

\* Seeded bugs: a close of an auction that has a result writes another one; the
\* comparison with ends_at is the wrong way round.
DecidableAgain(a) == clock[a] = "over"

DecidableEarly(a) == result[a] = Absent /\ clock[a] # "over"

\* An auction with a result is answered from it and not touched; none is decided early.
Decidable(a) == result[a] = Absent /\ clock[a] = "over"

Decide(a) ==
    /\ Decidable(a)
    /\ \/ /\ Winners(a) = {}
          /\ result' = [result EXCEPT ![a] = [status |-> "NO_BIDS", bid |-> NoBid]]
          /\ UNCHANGED bid
       \/ \E x \in Winners(a) :
             /\ result' = [result EXCEPT ![a] = [status |-> "AWAITING_CHECKOUT", bid |-> x]]
             /\ bid' = [bid EXCEPT ![x].status = "WON"]
    /\ status' = [status EXCEPT ![a] = "ENDED"]
    /\ UNCHANGED <<price, top, clock>>

\* POST /close goes by the status it saw before it had the lock.
CloseByHand(p) ==
    LET a == session[p].auction
    IN  /\ session[p].op = "close"
        /\ session' = [session EXCEPT ![p] = Idle]
        /\ UNCHANGED sweep
        /\ \/ Decide(a)
           \/ ~Decidable(a) /\ UNCHANGED <<status, price, top, bid, result, clock>>

Due == {a \in AuctionIds : status[a] = "LIVE" /\ clock[a] = "over"}

\* A cycle of the scheduler begins; if nothing is due it is over at once.
BeginSweep ==
    /\ sweep = {} /\ Due # {}
    /\ sweep' = Due
    /\ UNCHANGED <<status, price, top, bid, result, clock, session>>

SweepCloses(a) ==
    /\ a \in sweep
    /\ sweep' = sweep \ {a}
    /\ status[a] = "LIVE"
    /\ Decide(a)
    /\ UNCHANGED session

\* The auction has a result by now, or the attempt fails and is logged: the cycle
\* goes on with the next one.
SweepSkips(a) ==
    /\ a \in sweep
    /\ sweep' = sweep \ {a}
    /\ UNCHANGED <<status, price, top, bid, result, clock, session>>

\* The process restarts: requests and cycle are gone, the rows stay.
Restart ==
    /\ sweep' = {}
    /\ session' = [p \in Slots |-> Idle]
    /\ UNCHANGED <<status, price, top, bid, result, clock>>

-----------------------------------------------------------------------------
(* The winner's checkout and payment, see Orders.                          *)

SetResult(a, from, to) ==
    /\ result[a].status \in from
    /\ result' = [result EXCEPT ![a].status = to]
    /\ UNCHANGED <<price, top, bid, clock, session, sweep>>

\* auction_winner_checkout, cancellation and expiry, and _settle_auction_order.
ClaimOrder(a) ==
    /\ status[a] = "ENDED"
    /\ SetResult(a, {"AWAITING_CHECKOUT"}, "ORDER_CREATED")
    /\ UNCHANGED status

Forfeit(a) ==
    /\ SetResult(a, {"AWAITING_CHECKOUT", "ORDER_CREATED"}, "PAYMENT_EXPIRED")
    /\ UNCHANGED status

Settle(a) ==
    /\ SetResult(a, {"ORDER_CREATED"}, "PAYMENT_COMPLETED")
    /\ status' = [status EXCEPT ![a] = "SETTLED"]

\* Wall-clock time passes starts_at, then ends_at.
Tick(a) ==
    /\ clock[a] # "over"
    /\ clock' = [clock EXCEPT ![a] = IF @ = "before" THEN "open" ELSE "over"]
    /\ UNCHANGED <<status, price, top, bid, result, session, sweep>>

-----------------------------------------------------------------------------
Next ==
    \/ \E a \in AuctionIds : \/ CreateAuction(a)
                             \/ SweepCloses(a)
                             \/ SweepSkips(a)
                             \/ ClaimOrder(a)
                             \/ Forfeit(a)
                             \/ Settle(a)
                             \/ Tick(a)
    \/ \E p \in Slots, op \in Ops, a \in AuctionIds : LoadAuction(p, op, a)
    \/ \E p \in Slots : CommitMove(p) \/ CloseByHand(p)
    \/ \E x \in BidIds, a \in AuctionIds, b \in Users, n \in Amounts : PlaceBid(x, a, b, n)
    \/ BeginSweep
    \/ Restart

\* The thread wakes up every 30 seconds; attempts may fail, but not for ever.
Fairness ==
    /\ WF_vars(BeginSweep)
    /\ \A a \in AuctionIds : SF_vars(SweepCloses(a)) /\ WF_vars(SweepSkips(a))

Spec == Init /\ [][Next]_vars /\ Fairness

-----------------------------------------------------------------------------
(* Properties.                                                             *)

\* The denormalised columns of the auction, the status of its bids and their amounts
\* tell the same story: one leading bid, the current one, and nobody bid more.
LeaderAgrees ==
    \A a \in AuctionIds :
        LET leading == {x \in BidsOn(a) : bid[x].status \in {"WINNING", "WON"}}
        IN  IF top[a] = NoBid
            THEN BidsOn(a) = {}
            ELSE /\ leading = {top[a]}
                 /\ price[a] = bid[top[a]].amount
                 /\ \A y \in BidsOn(a) : bid[y].amount <= price[a]

\* Bids keep their distance: no two bids on an auction are closer than the increment,
\* so that no bid is ever matched, and the tie-break of the close decides nothing.
BidsApart ==
    \A a \in AuctionIds : \A x, y \in BidsOn(a) :
        x # y => \/ bid[x].amount + Increment <= bid[y].amount
                 \/ bid[y].amount + Increment <= bid[x].amount

\* The result is right: whoever is called the winner bid most and met the reserve,
\* and nobody goes empty-handed who did.
OutcomeFair ==
    \A a \in AuctionIds :
        LET best == {x \in BidsOn(a) : \A y \in BidsOn(a) : bid[y].amount <= bid[x].amount}
        IN  result[a] # Absent =>
              IF result[a].status = "NO_BIDS"
              THEN \A x \in best : bid[x].amount < Reserve[a]
              ELSE /\ result[a].bid \in best
                   /\ bid[result[a].bid].status = "WON"
                   /\ bid[result[a].bid].amount >= Reserve[a]

\* The promise of Ascending, whoever closes the auction and how often, and although
\* the rows say it in five places.
LeaderOf == [a \in AuctionIds |-> IF top[a] = NoBid THEN Nobody ELSE bid[top[a]].bidder]

Outcome ==
    [a \in AuctionIds |-> IF result[a] = Absent THEN "open"
                          ELSE IF result[a].status = "NO_BIDS" THEN "unsold" ELSE "won"]

Promise == INSTANCE Ascending WITH
    Auctions <- AuctionIds, Bidders <- Users, NoOne <- Nobody,
    leader <- LeaderOf, outcome <- Outcome

AscendingSpec == Promise!Spec

\* An auction that is over stays over: docs/FLOW.md, the state diagram, leaves ENDED
\* for SETTLED only.
EndedIsFinal ==
    [][\A a \in AuctionIds : status[a] \in {"ENDED", "SETTLED"}
                                 => status'[a] \in {"ENDED", "SETTLED"}]_vars

\* No auction stays LIVE past its end without a result, through failing attempts,
\* restarts and overlapping requests, and without anybody asking for one.
DueIsDecided ==
    \A a \in AuctionIds :
        status[a] = "LIVE" /\ clock[a] = "over" ~> result[a] # Absent \/ status[a] # "LIVE"
=============================================================================
