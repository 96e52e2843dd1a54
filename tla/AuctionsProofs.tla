--------------------------- MODULE AuctionsProofs ---------------------------
(***************************************************************************)
(* Proofs about Auctions for any number of auctions, bids, users, amounts  *)
(* and overlapping requests.                                               *)
(***************************************************************************)
EXTENDS Auctions, TLAPS

-----------------------------------------------------------------------------
(* What the steps do to bids and results.                                  *)

\* Closing either calls nobody the winner or marks the winning bid.
LEMMA DecideKinds ==
    ASSUME NEW a \in AuctionIds, Decide(a)
    PROVE  /\ result[a] = Absent /\ clock[a] = "over"
           /\ status' = [status EXCEPT ![a] = "ENDED"]
           /\ UNCHANGED <<price, top, clock>>
           /\ \/ /\ Winners(a) = {}
                 /\ result' = [result EXCEPT ![a] = [status |-> "NO_BIDS", bid |-> NoBid]]
                 /\ bid' = bid
              \/ \E x \in Winners(a) :
                    /\ result' = [result EXCEPT ![a] = [status |-> "AWAITING_CHECKOUT",
                                                        bid |-> x]]
                    /\ bid' = [bid EXCEPT ![x].status = "WON"]
BY DEF Decide, Decidable

\* Demotion touches nothing of a bid but its status.
LEMMA DemotedMeaning ==
    ASSUME TypeOK, NEW a \in AuctionIds, NEW y \in BidIds
    PROVE  /\ bid[y] = Absent => Demoted(a, y) = Absent
           /\ bid[y] # Absent =>
                /\ bid[y] \in BidRow
                /\ Demoted(a, y) \in BidRow
                /\ Demoted(a, y).auction = bid[y].auction
                /\ Demoted(a, y).bidder = bid[y].bidder
                /\ Demoted(a, y).amount = bid[y].amount
                /\ bid[y].auction # a => Demoted(a, y) = bid[y]
                /\ bid[y].auction = a =>
                     Demoted(a, y).status = IF bid[y].status = "WINNING" THEN "OUTBID"
                                            ELSE bid[y].status
<1>1. CASE bid[y] = Absent
  BY <1>1 DEF Demoted, BidsOn, Absent
<1>2. CASE bid[y] # Absent
  <2>1. bid[y] \in BidRow
    BY <1>2 DEF TypeOK
  <2>2. CASE bid[y].auction = a /\ bid[y].status = "WINNING"
    <3>1. Demoted(a, y) = [bid[y] EXCEPT !.status = "OUTBID"]
      BY <1>2, <2>2 DEF Demoted, BidsOn
    <3>2. QED
      BY <1>2, <2>1, <2>2, <3>1 DEF BidRow
  <2>3. CASE ~(bid[y].auction = a /\ bid[y].status = "WINNING")
    <3>1. Demoted(a, y) = bid[y]
      BY <2>3 DEF Demoted, BidsOn
    <3>2. QED
      BY <1>2, <2>1, <2>3, <3>1
  <2>4. QED
    BY <2>2, <2>3
<1>3. QED
  BY <1>1, <1>2

-----------------------------------------------------------------------------
(* Type correctness.                                                       *)

LEMMA PlaceBidType ==
    ASSUME AuctionAssumption, TypeOK, NEW x \in BidIds, NEW a \in AuctionIds,
           NEW b \in Users, NEW amount \in Amounts, PlaceBid(x, a, b, amount)
    PROVE  TypeOK'
<1>1. bid' \in [BidIds -> BidRow \cup {Absent}]
  <2>1. ASSUME NEW y \in BidIds
        PROVE  Demoted(a, y) \in BidRow \cup {Absent}
    BY DemotedMeaning
  <2>2. [auction |-> a, bidder |-> b, amount |-> amount, status |-> "WINNING"] \in BidRow
    BY DEF BidRow
  <2>3. QED
    BY <2>1, <2>2 DEF PlaceBid
<1>2. price' \in [AuctionIds -> Amounts \cup {0}] /\ top' \in [AuctionIds -> BidIds \cup {NoBid}]
  BY DEF PlaceBid, TypeOK
<1>3. QED
  BY <1>1, <1>2 DEF PlaceBid, TypeOK

LEMMA DecideType ==
    ASSUME TypeOK, NEW a \in AuctionIds, Decide(a)
    PROVE  /\ status' \in [AuctionIds -> AuctionStatus \cup {"NONE"}]
           /\ bid' \in [BidIds -> BidRow \cup {Absent}]
           /\ result' \in [AuctionIds -> ResultRow \cup {Absent}]
<1>1. status' \in [AuctionIds -> AuctionStatus \cup {"NONE"}]
  BY DecideKinds DEF TypeOK, AuctionStatus
<1>2. CASE Winners(a) = {}
  <2>1. [status |-> "NO_BIDS", bid |-> NoBid] \in ResultRow
    BY DEF ResultRow
  <2>2. QED
    BY <1>1, <1>2, <2>1, DecideKinds DEF TypeOK
<1>3. ASSUME NEW x \in Winners(a),
             result' = [result EXCEPT ![a] = [status |-> "AWAITING_CHECKOUT", bid |-> x]],
             bid' = [bid EXCEPT ![x].status = "WON"]
      PROVE  /\ bid' \in [BidIds -> BidRow \cup {Absent}]
             /\ result' \in [AuctionIds -> ResultRow \cup {Absent}]
  <2>1. x \in BidIds /\ bid[x] # Absent
    BY DEF Winners, BidsOn
  <2>2. bid[x] \in BidRow
    BY <2>1 DEF TypeOK
  <2>3. [bid[x] EXCEPT !.status = "WON"] \in BidRow
    BY <2>2 DEF BidRow
  <2>4. [status |-> "AWAITING_CHECKOUT", bid |-> x] \in ResultRow
    BY <2>1 DEF ResultRow
  <2>5. QED
    BY <1>3, <2>1, <2>3, <2>4 DEF TypeOK
<1>4. QED
  BY <1>1, <1>2, <1>3, DecideKinds

LEMMA SetResultType ==
    ASSUME TypeOK, NEW a \in AuctionIds, NEW from \in SUBSET {"AWAITING_CHECKOUT", "ORDER_CREATED"},
           NEW to \in {"ORDER_CREATED", "PAYMENT_EXPIRED", "PAYMENT_COMPLETED"},
           SetResult(a, from, to)
    PROVE  /\ result' \in [AuctionIds -> ResultRow \cup {Absent}]
           /\ result[a] \in ResultRow /\ result'[a] \in ResultRow
           /\ result'[a].status = to /\ result'[a].bid = result[a].bid
           /\ \A c \in AuctionIds \ {a} : result'[c] = result[c]
<1>1. result[a] \in ResultRow
  BY DEF TypeOK, SetResult, Absent
<1>2. [result[a] EXCEPT !.status = to] \in ResultRow
  BY <1>1 DEF ResultRow
<1>3. /\ result'[a] = [result[a] EXCEPT !.status = to]
      /\ \A c \in AuctionIds \ {a} : result'[c] = result[c]
  BY DEF TypeOK, SetResult
<1>4. result'[a].status = to /\ result'[a].bid = result[a].bid
  BY <1>1, <1>3 DEF ResultRow
<1>5. result' \in [AuctionIds -> ResultRow \cup {Absent}]
  BY <1>2 DEF TypeOK, SetResult
<1>6. QED
  BY <1>1, <1>2, <1>3, <1>4, <1>5

LEMMA NextType == AuctionAssumption /\ TypeOK /\ [Next]_vars => TypeOK'
<1> SUFFICES ASSUME AuctionAssumption, TypeOK, [Next]_vars
             PROVE  TypeOK'
  OBVIOUS
<1>1. ASSUME NEW a \in AuctionIds, CreateAuction(a)
      PROVE  TypeOK'
  BY <1>1 DEF CreateAuction, TypeOK, AuctionStatus
<1>2. ASSUME NEW p \in Slots, NEW op \in Ops, NEW a \in AuctionIds, LoadAuction(p, op, a)
      PROVE  TypeOK'
  BY <1>2 DEF LoadAuction, TypeOK
<1>3. ASSUME NEW p \in Slots, CommitMove(p)
      PROVE  TypeOK'
  <2>1. session[p].auction \in AuctionIds
    BY <1>3 DEF CommitMove, TypeOK, Idle
  <2>2. status' \in [AuctionIds -> AuctionStatus \cup {"NONE"}]
    BY <1>3, <2>1 DEF CommitMove, TypeOK, AuctionStatus
  <2>3. QED
    BY <1>3, <2>2 DEF CommitMove, TypeOK
<1>4. ASSUME NEW x \in BidIds, NEW a \in AuctionIds, NEW b \in Users, NEW n \in Amounts,
             PlaceBid(x, a, b, n)
      PROVE  TypeOK'
  BY <1>4, PlaceBidType
<1>5. ASSUME NEW p \in Slots, CloseByHand(p)
      PROVE  TypeOK'
  <2>1. session[p].auction \in AuctionIds
    BY <1>5 DEF CloseByHand, TypeOK, Idle
  <2>2. CASE Decide(session[p].auction)
    BY <1>5, <2>1, <2>2, DecideType, DecideKinds DEF CloseByHand, TypeOK
  <2>3. CASE UNCHANGED <<status, price, top, bid, result, clock>>
    BY <1>5, <2>3 DEF CloseByHand, TypeOK
  <2>4. QED
    BY <1>5, <2>2, <2>3 DEF CloseByHand
<1>6. ASSUME NEW a \in AuctionIds, SweepCloses(a)
      PROVE  TypeOK'
  BY <1>6, DecideType, DecideKinds DEF SweepCloses, TypeOK
<1>7. ASSUME NEW a \in AuctionIds, SweepSkips(a)
      PROVE  TypeOK'
  BY <1>7 DEF SweepSkips, TypeOK
<1>8. CASE BeginSweep \/ Restart
  BY <1>8 DEF BeginSweep, Restart, Due, TypeOK
<1>9. ASSUME NEW a \in AuctionIds, ClaimOrder(a) \/ Forfeit(a) \/ Settle(a)
      PROVE  TypeOK'
  <2>1. result' \in [AuctionIds -> ResultRow \cup {Absent}]
    BY <1>9, SetResultType DEF ClaimOrder, Forfeit, Settle
  <2>2. status' \in [AuctionIds -> AuctionStatus \cup {"NONE"}]
    BY <1>9 DEF ClaimOrder, Forfeit, Settle, TypeOK, AuctionStatus
  <2>3. QED
    BY <1>9, <2>1, <2>2 DEF ClaimOrder, Forfeit, Settle, SetResult, TypeOK
<1>10. ASSUME NEW a \in AuctionIds, Tick(a)
       PROVE  TypeOK'
  BY <1>10 DEF Tick, TypeOK
<1>11. CASE UNCHANGED vars
  BY <1>11 DEF vars, TypeOK
<1>12. QED
  BY <1>1, <1>2, <1>3, <1>4, <1>5, <1>6, <1>7, <1>8, <1>9, <1>10, <1>11 DEF Next

\* Every column of every auction, bid and result stays within its domain, and every
\* request and cycle refers to auctions that exist in the model.
THEOREM TypeCorrect == Spec => []TypeOK
<1>1. Init => TypeOK
  BY DEF Init, TypeOK
<1>2. TypeOK /\ [Next]_vars => TypeOK'
  BY NextType, AuctionAssumption
<1>3. QED
  BY <1>1, <1>2, PTL DEF Spec

-----------------------------------------------------------------------------
(* The book of an auction: what its columns, its bids and its result say   *)
(* of each other.  LeaderAgrees, BidsApart and OutcomeFair follow from it; *)
(* none of them is inductive alone.                                        *)

\* The denormalised columns describe the leading bid.
Leads(a) ==
    top[a] # NoBid => /\ bid[top[a]] # Absent
                      /\ bid[top[a]].auction = a
                      /\ bid[top[a]].status \in {"WINNING", "WON"}
                      /\ price[a] = bid[top[a]].amount

\* Every other bid is OUTBID and at least an increment below.
Trails(a) ==
    \A y \in BidsOn(a) :
        /\ top[a] # NoBid
        /\ y # top[a] => bid[y].status = "OUTBID" /\ bid[y].amount + Increment <= price[a]

Apart(a) ==
    \A x, y \in BidsOn(a) :
        x # y => \/ bid[x].amount + Increment <= bid[y].amount
                 \/ bid[y].amount + Increment <= bid[x].amount

\* A result exists only after the end, when no bid can come any more, and names the
\* leading bid or says why it does not win.
Decided(a) ==
    /\ result[a] = Absent => \A y \in BidsOn(a) : bid[y].status # "WON"
    /\ result[a] # Absent =>
         /\ clock[a] = "over"
         /\ IF result[a].status = "NO_BIDS"
            THEN top[a] = NoBid \/ price[a] < Reserve[a]
            ELSE /\ top[a] # NoBid /\ result[a].bid = top[a]
                 /\ bid[top[a]].status = "WON"
                 /\ price[a] >= Reserve[a]

Book(a) == Leads(a) /\ Trails(a) /\ Apart(a) /\ Decided(a)

BookInv == \A a \in AuctionIds : Book(a)

\* What a bid changes, in terms of the book.
LEMMA PlaceBidEffect ==
    ASSUME AuctionAssumption, TypeOK, NEW x \in BidIds, NEW a \in AuctionIds,
           NEW b \in Users, NEW amount \in Amounts, PlaceBid(x, a, b, amount)
    PROVE  /\ bid[x] = Absent
           /\ bid'[x] = [auction |-> a, bidder |-> b, amount |-> amount,
                         status |-> "WINNING"]
           /\ \A y \in BidIds \ {x} : bid'[y] = Demoted(a, y)
           /\ BidsOn(a)' = BidsOn(a) \cup {x}
           /\ \A c \in AuctionIds \ {a} : /\ BidsOn(c)' = BidsOn(c)
                                          /\ x \notin BidsOn(c)
           /\ x \notin BidsOn(a)
<1>1. bid[x] = Absent
  BY DEF PlaceBid, BidIds
<1>2. bid'[x] = [auction |-> a, bidder |-> b, amount |-> amount, status |-> "WINNING"]
  BY DEF PlaceBid
<1>3. \A y \in BidIds \ {x} : bid'[y] = Demoted(a, y)
  BY DEF PlaceBid
<1>4. bid'[x] # Absent /\ bid'[x].auction = a
  BY <1>2 DEF Absent
<1>5. ASSUME NEW y \in BidIds \ {x}
      PROVE  /\ bid'[y] # Absent <=> bid[y] # Absent
             /\ bid[y] # Absent => bid'[y].auction = bid[y].auction
  <2>1. \A r \in BidRow : r # Absent
    BY DEF BidRow, Absent
  <2>2. QED
    BY <1>3, <2>1, DemotedMeaning
<1>6. \A c \in AuctionIds : x \notin BidsOn(c)
  BY <1>1 DEF BidsOn
<1>7. BidsOn(a)' = BidsOn(a) \cup {x}
  BY <1>4, <1>5 DEF BidsOn
<1>8. \A c \in AuctionIds \ {a} : BidsOn(c)' = BidsOn(c)
  BY <1>1, <1>4, <1>5 DEF BidsOn
<1>9. QED
  BY <1>1, <1>2, <1>3, <1>6, <1>7, <1>8

LEMMA BidAmounts ==
    ASSUME AuctionAssumption, TypeOK
    PROVE  /\ \A a \in AuctionIds : price[a] \in Nat /\ Reserve[a] \in Nat
           /\ \A a \in AuctionIds : \A y \in BidsOn(a) :
                 y \in BidIds /\ bid[y] \in BidRow /\ bid[y].amount \in Nat
           /\ Increment \in Nat \ {0}
<1>1. \A y \in BidIds : bid[y] # Absent => bid[y] \in BidRow
  BY DEF TypeOK
<1>2. \A r \in BidRow : r.amount \in Nat
  BY DEF AuctionAssumption, BidRow
<1>3. \A a \in AuctionIds : price[a] \in Nat /\ Reserve[a] \in Nat
  <2>1. Amounts \cup {0} \subseteq Nat
    BY DEF AuctionAssumption
  <2>2. QED
    BY <2>1 DEF AuctionAssumption, TypeOK
<1>4. \A a \in AuctionIds : \A y \in BidsOn(a) : y \in BidIds /\ bid[y] # Absent
  BY DEF BidsOn
<1>5. QED
  BY <1>1, <1>2, <1>3, <1>4 DEF AuctionAssumption

\* A bid keeps the book of its auction ...
LEMMA PlaceBidBook ==
    ASSUME AuctionAssumption, TypeOK, TypeOK', NEW x \in BidIds, NEW a \in AuctionIds,
           NEW b \in Users, NEW amount \in Amounts, PlaceBid(x, a, b, amount), Book(a)
    PROVE  Book(a)'
<1>0. /\ bid'[x] = [auction |-> a, bidder |-> b, amount |-> amount, status |-> "WINNING"]
      /\ \A y \in BidIds \ {x} : bid'[y] = Demoted(a, y)
      /\ BidsOn(a)' = BidsOn(a) \cup {x}
      /\ x \notin BidsOn(a)
  BY PlaceBidEffect, Zenon
<1>1. /\ price'[a] = amount /\ top'[a] = x /\ x # NoBid
      /\ UNCHANGED <<result, clock>> /\ clock[a] = "open"
      /\ amount \in Nat
  <2>1. price' = [price EXCEPT ![a] = amount] /\ top' = [top EXCEPT ![a] = x]
    BY DEF PlaceBid
  <2>2. UNCHANGED <<result, clock>> /\ clock[a] = "open"
    BY DEF PlaceBid, Biddable
  <2>3. x # NoBid /\ amount \in Nat
    BY DEF BidIds, NoBid, AuctionAssumption
  <2>4. QED
    BY <2>1, <2>2, <2>3 DEF TypeOK
<1>2. /\ bid'[x] # Absent /\ bid'[x].auction = a
      /\ bid'[x].status = "WINNING" /\ bid'[x].amount = amount
  BY <1>0 DEF Absent
<1>3. result[a] = Absent
  BY <1>1 DEF Book, Decided
<1>4. ASSUME NEW y \in BidsOn(a)
      PROVE  /\ y \in BidIds \ {x}
             /\ bid'[y].amount = bid[y].amount /\ bid[y].amount \in Nat
             /\ bid'[y].status = "OUTBID"
             /\ bid[y].amount + Increment <= amount
  <2>1. /\ y \in BidIds \ {x} /\ bid[y] # Absent /\ bid[y].auction = a
        /\ bid'[y] = Demoted(a, y)
    BY <1>0 DEF BidsOn
  <2>2. /\ bid'[y].amount = bid[y].amount
        /\ bid'[y].status = IF bid[y].status = "WINNING" THEN "OUTBID" ELSE bid[y].status
    BY <2>1, DemotedMeaning
  <2>3. top[a] # NoBid /\ amount >= price[a] + Increment
    BY DEF Book, Trails, PlaceBid, Floor
  <2>4. bid[y].status \in {"WINNING", "OUTBID"} /\ bid[y].amount <= price[a]
    <3>1. CASE y = top[a]
      BY <2>3, <3>1, <1>3, BidAmounts DEF Book, Leads, Decided
    <3>2. CASE y # top[a]
      BY <3>2, BidAmounts DEF Book, Trails
    <3>3. QED
      BY <3>1, <3>2
  <2>5. QED
    BY <1>1, <2>1, <2>2, <2>3, <2>4, BidAmounts
<1>5. BidsOn(a)' = BidsOn(a) \cup {x}
  BY <1>0
<1>6. Leads(a)'
  BY <1>1, <1>2 DEF Leads
<1>7. Trails(a)'
  BY <1>1, <1>4, <1>5 DEF Trails
<1>8. Apart(a)'
  <2>1. ASSUME NEW y \in BidsOn(a), NEW z \in BidsOn(a), y # z
        PROVE  \/ bid'[y].amount + Increment <= bid'[z].amount
               \/ bid'[z].amount + Increment <= bid'[y].amount
    BY <1>4, <2>1 DEF Book, Apart
  <2>2. ASSUME NEW y \in BidsOn(a)
        PROVE  bid'[y].amount + Increment <= bid'[x].amount
    BY <1>2, <1>4
  <2>3. QED
    BY <1>5, <2>1, <2>2 DEF Apart
<1>9. Decided(a)'
  BY <1>1, <1>2, <1>3, <1>4, <1>5 DEF Decided
<1>10. QED
  BY <1>6, <1>7, <1>8, <1>9 DEF Book

\* ... and leaves those of the others alone.
LEMMA PlaceBidElsewhere ==
    ASSUME AuctionAssumption, TypeOK, NEW x \in BidIds, NEW a \in AuctionIds,
           NEW b \in Users, NEW amount \in Amounts, PlaceBid(x, a, b, amount),
           NEW c \in AuctionIds \ {a}, Book(c)
    PROVE  Book(c)'
<1>1. price'[c] = price[c] /\ top'[c] = top[c] /\ UNCHANGED <<result, clock>>
  BY DEF PlaceBid, TypeOK
<1>2. BidsOn(c)' = BidsOn(c)
  BY PlaceBidEffect
<1>3. \A y \in BidsOn(c) : bid'[y] = bid[y]
  <2>1. x \notin BidsOn(c) /\ \A y \in BidIds \ {x} : bid'[y] = Demoted(a, y)
    BY PlaceBidEffect, Zenon
  <2>2. ASSUME NEW y \in BidsOn(c)
        PROVE  bid'[y] = bid[y]
    <3>1. y \in BidIds \ {x} /\ bid[y] # Absent /\ bid[y].auction # a
      BY <2>1 DEF BidsOn
    <3>2. Demoted(a, y) = bid[y]
      BY <3>1, DemotedMeaning, Zenon
    <3>3. QED
      BY <2>1, <3>1, <3>2
  <2>3. QED
    BY <2>2
<1>4. top[c] # NoBid => top[c] \in BidsOn(c)
  BY DEF Book, Leads, BidsOn, TypeOK
<1>5. QED
  BY <1>1, <1>2, <1>3, <1>4 DEF Book, Leads, Trails, Apart, Decided

\* While there is no result, the leading bid is the only one that can win.
LEMMA WinnerIsTop ==
    ASSUME AuctionAssumption, TypeOK, NEW a \in AuctionIds, Book(a), result[a] = Absent
    PROVE  Winners(a) = IF top[a] # NoBid /\ price[a] >= Reserve[a] THEN {top[a]} ELSE {}
<1> DEFINE live == {x \in BidsOn(a) : bid[x].status \in {"WINNING", "OUTBID"}}
<1>1. /\ price[a] \in Nat /\ Reserve[a] \in Nat /\ Increment \in Nat \ {0}
      /\ \A y \in BidsOn(a) : y \in BidIds /\ bid[y].amount \in Nat
  BY BidAmounts, Zenon
<1>2. \A y \in BidsOn(a) :
         /\ top[a] # NoBid
         /\ y # top[a] => bid[y].status = "OUTBID" /\ bid[y].amount < price[a]
  BY <1>1 DEF Book, Trails
<1>3. top[a] # NoBid => /\ top[a] \in BidsOn(a)
                        /\ bid[top[a]].amount = price[a]
                        /\ bid[top[a]].status \in {"WINNING", "WON"}
  BY DEF Book, Leads, BidsOn, TypeOK
<1>4. \A y \in BidsOn(a) : bid[y].status # "WON"
  BY DEF Book, Decided
<1>5. live = BidsOn(a)
  BY <1>2, <1>3, <1>4
<1>6. \A x \in BidsOn(a) : MeetsReserve(a, x) <=> bid[x].amount >= Reserve[a]
  BY DEF MeetsReserve
<1>7. ASSUME NEW x \in Winners(a)
      PROVE  top[a] # NoBid /\ price[a] >= Reserve[a] /\ x = top[a]
  <2>1. /\ x \in BidsOn(a) /\ MeetsReserve(a, x)
        /\ \A y \in BidsOn(a) \ {x} : bid[y].amount <= bid[x].amount
    BY <1>1, <1>5 DEF Winners
  <2>2. top[a] # NoBid
    BY <1>2, <2>1
  <2>3. x = top[a]
    BY <1>1, <1>2, <1>3, <2>1, <2>2
  <2>4. QED
    BY <1>3, <1>6, <2>1, <2>2, <2>3
<1>8. ASSUME top[a] # NoBid, price[a] >= Reserve[a]
      PROVE  top[a] \in Winners(a)
  <2>1. top[a] \in live /\ MeetsReserve(a, top[a])
    BY <1>3, <1>5, <1>6, <1>8
  <2>2. \A y \in live \ {top[a]} : bid[y].amount < bid[top[a]].amount
    BY <1>2, <1>3, <1>5, <1>8
  <2>3. QED
    BY <2>1, <2>2 DEF Winners
<1>9. QED
  BY <1>7, <1>8

\* Closing an auction keeps every book.
LEMMA DecideBook ==
    ASSUME AuctionAssumption, TypeOK, BookInv, NEW a \in AuctionIds, Decide(a)
    PROVE  BookInv'
<1>1. /\ result[a] = Absent /\ clock[a] = "over"
      /\ UNCHANGED <<price, top, clock>>
  BY DecideKinds, Zenon
<1>2. Winners(a) = IF top[a] # NoBid /\ price[a] >= Reserve[a] THEN {top[a]} ELSE {}
  BY <1>1, WinnerIsTop, Zenon DEF BookInv
<1>3. price[a] \in Nat /\ Reserve[a] \in Nat
  BY BidAmounts
<1>4. ASSUME Winners(a) = {}, bid' = bid,
             result' = [result EXCEPT ![a] = [status |-> "NO_BIDS", bid |-> NoBid]]
      PROVE  BookInv'
  <2>1. /\ result'[a] # Absent /\ result'[a].status = "NO_BIDS"
        /\ \A c \in AuctionIds \ {a} : result'[c] = result[c]
    BY <1>4 DEF TypeOK, Absent
  <2>2. top[a] = NoBid \/ price[a] < Reserve[a]
    BY <1>2, <1>3, <1>4
  <2>3. \A c \in AuctionIds : BidsOn(c)' = BidsOn(c)
    BY <1>4 DEF BidsOn
  <2>4. \A c \in AuctionIds : Decided(c)'
    BY <1>1, <1>4, <2>1, <2>2, <2>3 DEF BookInv, Book, Decided
  <2>5. QED
    BY <1>1, <1>4, <2>3, <2>4 DEF BookInv, Book, Leads, Trails, Apart
<1>5. ASSUME NEW x \in Winners(a), bid' = [bid EXCEPT ![x].status = "WON"],
             result' = [result EXCEPT ![a] = [status |-> "AWAITING_CHECKOUT", bid |-> x]]
      PROVE  BookInv'
  <2>1. x = top[a] /\ top[a] # NoBid /\ price[a] >= Reserve[a]
    BY <1>2
  <2>2. x \in BidIds /\ bid[x] \in BidRow /\ bid[x] # Absent /\ bid[x].auction = a
    BY <2>1 DEF BookInv, Book, Leads, TypeOK
  <2>3. /\ bid'[x] = [bid[x] EXCEPT !.status = "WON"]
        /\ \A y \in BidIds \ {x} : bid'[y] = bid[y]
    BY <1>5, <2>2 DEF TypeOK
  <2>4. /\ bid'[x] # Absent /\ bid'[x].auction = a
        /\ bid'[x].amount = bid[x].amount /\ bid'[x].status = "WON"
    BY <2>2, <2>3 DEF BidRow, Absent
  <2>5. /\ result'[a] # Absent /\ result'[a].status = "AWAITING_CHECKOUT"
        /\ result'[a].bid = x
        /\ \A c \in AuctionIds \ {a} : result'[c] = result[c]
    BY <1>5 DEF TypeOK, Absent
  <2>6. \A c \in AuctionIds : BidsOn(c)' = BidsOn(c)
    BY <2>2, <2>3, <2>4 DEF BidsOn
  <2>7. /\ \A c \in AuctionIds \ {a} : x \notin BidsOn(c) /\ x # top[c]
        /\ \A c \in AuctionIds : BidsOn(c) \subseteq BidIds
        /\ \A c \in AuctionIds : top[c] # NoBid => top[c] \in BidIds
    BY <2>1, <2>2 DEF BookInv, Book, Leads, BidsOn, TypeOK
  <2>8. Book(a)'
    <3>1. Leads(a)'
      BY <1>1, <2>1, <2>4 DEF BookInv, Book, Leads
    <3>2. Trails(a)' /\ Apart(a)'
      <4>1. \A y \in BidsOn(a) : /\ bid'[y].amount = bid[y].amount
                                 /\ y # x => bid'[y] = bid[y]
        BY <2>3, <2>4, <2>7
      <4>2. Trails(a) /\ Apart(a)
        BY DEF BookInv, Book
      <4>3. Trails(a)'
        BY <1>1, <2>1, <2>6, <4>1, <4>2 DEF Trails
      <4>4. Apart(a)'
        BY <2>6, <4>1, <4>2 DEF Apart
      <4>5. QED
        BY <4>3, <4>4
    <3>3. Decided(a)'
      BY <1>1, <2>1, <2>4, <2>5 DEF Decided
    <3>4. QED
      BY <3>1, <3>2, <3>3 DEF Book
  <2>9. ASSUME NEW c \in AuctionIds \ {a}
        PROVE  Book(c)'
    <3>1. \A y \in BidsOn(c) : bid'[y] = bid[y]
      BY <2>3, <2>7
    <3>2. top[c] # NoBid => bid'[top[c]] = bid[top[c]]
      BY <2>3, <2>7
    <3>3. result'[c] = result[c] /\ BidsOn(c)' = BidsOn(c)
      BY <2>5, <2>6
    <3>4. Book(c)
      BY DEF BookInv
    <3>5. Leads(c)' /\ Trails(c)' /\ Apart(c)'
      BY <1>1, <3>1, <3>2, <3>3, <3>4 DEF Book, Leads, Trails, Apart
    <3>6. Decided(c)'
      BY <1>1, <3>1, <3>2, <3>3, <3>4 DEF Book, Decided
    <3>7. QED
      BY <3>5, <3>6 DEF Book
  <2>10. QED
    BY <2>8, <2>9 DEF BookInv
<1>6. QED
  BY <1>4, <1>5, DecideKinds

\* Checkout and payment move a result on, never to or from NO_BIDS.
LEMMA SetResultStatus ==
    ASSUME TypeOK, NEW a \in AuctionIds,
           NEW from \in SUBSET {"AWAITING_CHECKOUT", "ORDER_CREATED"},
           NEW to \in {"ORDER_CREATED", "PAYMENT_EXPIRED", "PAYMENT_COMPLETED"},
           SetResult(a, from, to)
    PROVE  /\ result[a] # Absent /\ result[a].status # "NO_BIDS"
           /\ result'[a] # Absent /\ result'[a].status # "NO_BIDS"
           /\ result'[a].bid = result[a].bid
<1>1. \A r \in ResultRow : r # Absent
  BY DEF ResultRow, Absent
<1>2. result[a].status \in from
  BY DEF SetResult
<1>3. QED
  BY <1>1, <1>2, SetResultType

\* So do the steps of checkout and payment, which know nothing of bids.
LEMMA SetResultBook ==
    ASSUME TypeOK, BookInv, NEW a \in AuctionIds,
           NEW from \in SUBSET {"AWAITING_CHECKOUT", "ORDER_CREATED"},
           NEW to \in {"ORDER_CREATED", "PAYMENT_EXPIRED", "PAYMENT_COMPLETED"},
           SetResult(a, from, to)
    PROVE  BookInv'
<1>1. \A c \in AuctionIds \ {a} : result'[c] = result[c]
  BY SetResultType
<1>2. /\ result[a] # Absent /\ result[a].status # "NO_BIDS"
      /\ result'[a] # Absent /\ result'[a].status # "NO_BIDS"
      /\ result'[a].bid = result[a].bid
  BY SetResultStatus, Zenon
<1>3. UNCHANGED <<price, top, bid, clock>>
  BY DEF SetResult
<1>4. \A c \in AuctionIds : BidsOn(c)' = BidsOn(c)
  BY <1>3 DEF BidsOn
<1>5. ASSUME NEW c \in AuctionIds
      PROVE  Decided(c)'
  <2>1. Decided(c)
    BY DEF BookInv, Book
  <2>2. CASE c = a
    BY <1>2, <1>3, <2>1, <2>2 DEF Decided
  <2>3. CASE c # a
    BY <1>1, <1>3, <1>4, <2>1, <2>3 DEF Decided
  <2>4. QED
    BY <2>2, <2>3
<1>6. \A c \in AuctionIds : Leads(c)' /\ Trails(c)' /\ Apart(c)'
  BY <1>3, <1>4 DEF BookInv, Book, Leads, Trails, Apart
<1>7. QED
  BY <1>5, <1>6 DEF BookInv, Book

LEMMA QuietBook ==
    ASSUME BookInv, UNCHANGED <<price, top, bid, result>>,
           \A a \in AuctionIds : clock[a] = "over" => clock'[a] = "over"
    PROVE  BookInv'
<1>1. \A c \in AuctionIds : BidsOn(c)' = BidsOn(c)
  BY DEF BidsOn
<1>2. QED
  BY <1>1 DEF BookInv, Book, Leads, Trails, Apart, Decided

LEMMA NextBook ==
    AuctionAssumption /\ TypeOK /\ TypeOK' /\ BookInv /\ [Next]_vars => BookInv'
<1> SUFFICES ASSUME AuctionAssumption, TypeOK, TypeOK', BookInv, [Next]_vars
             PROVE  BookInv'
  OBVIOUS
<1>1. ASSUME NEW x \in BidIds, NEW a \in AuctionIds, NEW b \in Users, NEW n \in Amounts,
             PlaceBid(x, a, b, n)
      PROVE  BookInv'
  <2>1. Book(a)'
    BY <1>1, PlaceBidBook, Zenon DEF BookInv
  <2>2. \A c \in AuctionIds \ {a} : Book(c)'
    BY <1>1, PlaceBidElsewhere, Zenon DEF BookInv
  <2>3. QED
    BY <2>1, <2>2 DEF BookInv
<1>2. ASSUME NEW p \in Slots, CloseByHand(p)
      PROVE  BookInv'
  <2>1. CASE Decide(session[p].auction)
    <3>1. session[p].auction \in AuctionIds
      BY <1>2 DEF CloseByHand, TypeOK, Idle
    <3>2. QED
      BY <2>1, <3>1, DecideBook, Zenon
  <2>2. CASE UNCHANGED <<status, price, top, bid, result, clock>>
    BY <2>2, QuietBook
  <2>3. QED
    BY <1>2, <2>1, <2>2 DEF CloseByHand
<1>3. ASSUME NEW a \in AuctionIds, SweepCloses(a)
      PROVE  BookInv'
  BY <1>3, DecideBook, Zenon DEF SweepCloses
<1>4. ASSUME NEW a \in AuctionIds, ClaimOrder(a) \/ Forfeit(a) \/ Settle(a)
      PROVE  BookInv'
  BY <1>4, SetResultBook DEF ClaimOrder, Forfeit, Settle
<1>5. ASSUME NEW a \in AuctionIds, Tick(a)
      PROVE  BookInv'
  <2>1. UNCHANGED <<price, top, bid, result>>
    BY <1>5 DEF Tick
  <2>2. \A c \in AuctionIds : clock[c] = "over" => clock'[c] = "over"
    BY <1>5 DEF Tick, TypeOK
  <2>3. QED
    BY <2>1, <2>2, QuietBook, Zenon
<1>6. CASE \/ \E a \in AuctionIds : CreateAuction(a) \/ SweepSkips(a)
           \/ \E p \in Slots, op \in Ops, a \in AuctionIds : LoadAuction(p, op, a)
           \/ \E p \in Slots : CommitMove(p)
           \/ BeginSweep \/ Restart \/ UNCHANGED vars
  <2>1. UNCHANGED <<price, top, bid, result, clock>>
    BY <1>6 DEF CreateAuction, SweepSkips, LoadAuction, CommitMove, BeginSweep, Restart, vars
  <2>2. QED
    BY <2>1, QuietBook
<1>7. QED
  BY <1>1, <1>2, <1>3, <1>4, <1>5, <1>6 DEF Next

\* The columns of an auction, its bids and its result never contradict each other,
\* whatever requests, sweeps, restarts and payments overlap.
THEOREM BookCorrect == Spec => []BookInv
<1>1. Init => BookInv
  BY DEF Init, BookInv, Book, Leads, Trails, Apart, Decided, BidsOn
<1>2. TypeOK /\ TypeOK' /\ BookInv /\ [Next]_vars => BookInv'
  BY NextBook, AuctionAssumption
<1>3. QED
  BY <1>1, <1>2, TypeCorrect, PTL DEF Spec

-----------------------------------------------------------------------------
(* What bidders rely on.                                                   *)

\* The columns that place_bid keeps on the auction agree with the bid rows: one leader,
\* who bid most.
THEOREM LeaderCorrect == Spec => []LeaderAgrees
<1>1. TypeOK /\ BookInv => LeaderAgrees
  <2> SUFFICES ASSUME TypeOK, BookInv, NEW a \in AuctionIds
               PROVE  LET leading == {x \in BidsOn(a) : bid[x].status \in {"WINNING", "WON"}}
                      IN  IF top[a] = NoBid
                          THEN BidsOn(a) = {}
                          ELSE /\ leading = {top[a]}
                               /\ price[a] = bid[top[a]].amount
                               /\ \A y \in BidsOn(a) : bid[y].amount <= price[a]
    BY DEF LeaderAgrees
  <2>1. Leads(a) /\ Trails(a)
    BY DEF BookInv, Book
  <2>2. /\ price[a] \in Nat /\ Increment \in Nat
        /\ \A y \in BidsOn(a) : bid[y].amount \in Nat
    BY BidAmounts, AuctionAssumption
  <2>3. CASE top[a] = NoBid
    BY <2>1, <2>3 DEF Trails
  <2>4. CASE top[a] # NoBid
    <3>1. top[a] \in BidsOn(a)
      BY <2>1, <2>4 DEF Leads, BidsOn, TypeOK
    <3>2. \A y \in BidsOn(a) : y # top[a] => bid[y].status = "OUTBID"
      BY <2>1 DEF Trails
    <3>3. {x \in BidsOn(a) : bid[x].status \in {"WINNING", "WON"}} = {top[a]}
      BY <2>1, <2>4, <3>1, <3>2 DEF Leads
    <3>4. \A y \in BidsOn(a) : bid[y].amount <= price[a]
      BY <2>1, <2>2, <2>4 DEF Leads, Trails
    <3>5. QED
      BY <2>1, <2>4, <3>3, <3>4 DEF Leads
  <2>5. QED
    BY <2>3, <2>4
<1>2. QED
  BY <1>1, TypeCorrect, BookCorrect, PTL

\* No two bids that place_bid took are closer than the minimum increment.
THEOREM IncrementKept == Spec => []BidsApart
<1>1. BookInv => BidsApart
  BY DEF BookInv, Book, Apart, BidsApart
<1>2. QED
  BY <1>1, BookCorrect, PTL

\* Whoever close_auction names, by hand or for the scheduler, bid most and met the
\* reserve; without a winner, nobody met it.
THEOREM OutcomeCorrect == Spec => []OutcomeFair
<1>1. TypeOK /\ BookInv => OutcomeFair
  <2> SUFFICES ASSUME TypeOK, BookInv, NEW a \in AuctionIds, result[a] # Absent
               PROVE  LET best == {x \in BidsOn(a) :
                                     \A y \in BidsOn(a) : bid[y].amount <= bid[x].amount}
                      IN  IF result[a].status = "NO_BIDS"
                          THEN \A x \in best : bid[x].amount < Reserve[a]
                          ELSE /\ result[a].bid \in best
                               /\ bid[result[a].bid].status = "WON"
                               /\ bid[result[a].bid].amount >= Reserve[a]
    BY DEF OutcomeFair
  <2>1. Leads(a) /\ Trails(a) /\ Decided(a)
    BY DEF BookInv, Book
  <2>2. /\ price[a] \in Nat /\ Reserve[a] \in Nat /\ Increment \in Nat
        /\ \A y \in BidsOn(a) : bid[y].amount \in Nat
    BY BidAmounts, AuctionAssumption
  <2>3. \A y \in BidsOn(a) : top[a] # NoBid /\ bid[y].amount <= price[a]
    BY <2>1, <2>2 DEF Leads, Trails
  <2>4. CASE result[a].status = "NO_BIDS"
    BY <2>1, <2>2, <2>3, <2>4 DEF Decided
  <2>5. CASE result[a].status # "NO_BIDS"
    <3>1. top[a] # NoBid /\ result[a].bid = top[a] /\ bid[top[a]].status = "WON"
      BY <2>1, <2>5 DEF Decided
    <3>2. top[a] \in BidsOn(a) /\ bid[top[a]].amount = price[a]
      BY <2>1, <3>1 DEF Leads, BidsOn, TypeOK
    <3>3. price[a] >= Reserve[a]
      BY <2>1, <2>5 DEF Decided
    <3>4. QED
      BY <2>3, <2>5, <3>1, <3>2, <3>3
  <2>6. QED
    BY <2>4, <2>5
<1>2. QED
  BY <1>1, TypeCorrect, BookCorrect, PTL

-----------------------------------------------------------------------------
(* The promise of Ascending.                                               *)

\* What the mapped variables are made of.
LEMMA PromiseView ==
    ASSUME UNCHANGED <<price, top, bid>>, UNCHANGED Outcome
    PROVE  UNCHANGED <<price, LeaderOf, Outcome>>
BY DEF LeaderOf

LEMMA PlaceBidRaises ==
    ASSUME AuctionAssumption, TypeOK, TypeOK', BookInv, NEW x \in BidIds, NEW a \in AuctionIds,
           NEW b \in Users, NEW amount \in Amounts, PlaceBid(x, a, b, amount)
    PROVE  Promise!Raise(a, b, amount)
<1>1. /\ price' = [price EXCEPT ![a] = amount] /\ top' = [top EXCEPT ![a] = x]
      /\ result' = result /\ amount >= Floor(a) /\ clock[a] = "open" /\ x # NoBid
  BY DEF PlaceBid, Biddable, BidIds, NoBid
<1>2. Outcome[a] = "open"
  BY <1>1 DEF Outcome, BookInv, Book, Decided
<1>3. LeaderOf[a] # Nobody => amount >= price[a] + Increment
  BY <1>1 DEF LeaderOf, Floor
<1>4. LeaderOf' = [LeaderOf EXCEPT ![a] = b]
  <2>1. /\ bid'[x] = [auction |-> a, bidder |-> b, amount |-> amount,
                      status |-> "WINNING"]
        /\ bid[x] = Absent
        /\ \A y \in BidIds \ {x} : bid'[y] = Demoted(a, y)
    BY PlaceBidEffect, Zenon
  <2>2. top'[a] = x /\ \A c \in AuctionIds \ {a} : top'[c] = top[c]
    BY <1>1 DEF TypeOK
  <2>3. ASSUME NEW c \in AuctionIds \ {a}, top[c] # NoBid
        PROVE  bid'[top[c]].bidder = bid[top[c]].bidder
    <3>1. top[c] \in BidIds \ {x} /\ bid[top[c]] # Absent
      BY <2>1, <2>3 DEF BookInv, Book, Leads, TypeOK
    <3>2. QED
      BY <2>1, <3>1, DemotedMeaning
  <2>4. QED
    <3>1. bid'[x].bidder = b
      BY <2>1
    <3>2. \A c \in AuctionIds :
             (IF top'[c] = NoBid THEN Nobody ELSE bid'[top'[c]].bidder) =
             (IF c = a THEN b ELSE IF top[c] = NoBid THEN Nobody ELSE bid[top[c]].bidder)
      BY <1>1, <2>2, <2>3, <3>1
    <3>3. QED
      BY <3>2 DEF LeaderOf
<1>5. Outcome' = Outcome
  BY <1>1 DEF Outcome
<1>6. QED
  BY <1>1, <1>2, <1>3, <1>4, <1>5 DEF Promise!Raise

LEMMA DecideDecides ==
    ASSUME AuctionAssumption, TypeOK, BookInv, NEW a \in AuctionIds, Decide(a)
    PROVE  Promise!Decide(a)
<1>1. /\ result[a] = Absent /\ UNCHANGED <<price, top, clock>>
  BY DecideKinds, Zenon
<1>2. Winners(a) = IF top[a] # NoBid /\ price[a] >= Reserve[a] THEN {top[a]} ELSE {}
  BY <1>1, WinnerIsTop, Zenon DEF BookInv
<1>3. LeaderOf[a] # Nobody <=> top[a] # NoBid
  <2>1. CASE top[a] # NoBid
    <3>1. bid[top[a]] \in BidRow
      BY <2>1 DEF BookInv, Book, Leads, TypeOK
    <3>2. LeaderOf[a] \in Users
      BY <2>1, <3>1 DEF LeaderOf, BidRow
    <3>3. QED
      BY <2>1, <3>2 DEF AuctionAssumption
  <2>2. CASE top[a] = NoBid
    BY <2>2 DEF LeaderOf
  <2>3. QED
    BY <2>1, <2>2
<1>4. LeaderOf' = LeaderOf
  <2>1. CASE bid' = bid
    BY <1>1, <2>1 DEF LeaderOf
  <2>2. ASSUME NEW x \in Winners(a), bid' = [bid EXCEPT ![x].status = "WON"]
        PROVE  LeaderOf' = LeaderOf
    <3>1. x \in BidIds /\ bid[x] # Absent
      BY DEF Winners, BidsOn
    <3>2. bid[x] \in BidRow
      BY <3>1 DEF TypeOK
    <3>3. bid'[x].bidder = bid[x].bidder
      BY <2>2, <3>1, <3>2 DEF TypeOK, BidRow
    <3>4. \A c \in AuctionIds : top[c] # NoBid => bid'[top[c]].bidder = bid[top[c]].bidder
      BY <2>2, <3>1, <3>3 DEF TypeOK
    <3>5. QED
      BY <1>1, <3>4 DEF LeaderOf
  <2>3. QED
    BY <2>1, <2>2, DecideKinds
<1>5. Outcome[a] = "open"
  BY <1>1 DEF Outcome
<1>6. Outcome' = [Outcome EXCEPT ![a] = IF LeaderOf[a] # Nobody /\ price[a] >= Reserve[a]
                                        THEN "won" ELSE "unsold"]
  <2>1. CASE Winners(a) = {}
    <3>1. result' = [result EXCEPT ![a] = [status |-> "NO_BIDS", bid |-> NoBid]]
      BY <2>1, DecideKinds
    <3>2. /\ result'[a] # Absent /\ result'[a].status = "NO_BIDS"
          /\ \A c \in AuctionIds \ {a} : result'[c] = result[c]
      BY <3>1 DEF TypeOK, Absent
    <3>3. ~(LeaderOf[a] # Nobody /\ price[a] >= Reserve[a])
      BY <1>2, <1>3, <2>1
    <3>4. QED
      BY <3>2, <3>3 DEF Outcome
  <2>2. ASSUME NEW x \in Winners(a),
               result' = [result EXCEPT ![a] = [status |-> "AWAITING_CHECKOUT", bid |-> x]]
        PROVE  Outcome' = [Outcome EXCEPT ![a] = IF LeaderOf[a] # Nobody /\ price[a] >= Reserve[a]
                                                 THEN "won" ELSE "unsold"]
    <3>1. /\ result'[a] # Absent /\ result'[a].status = "AWAITING_CHECKOUT"
          /\ \A c \in AuctionIds \ {a} : result'[c] = result[c]
      BY <2>2 DEF TypeOK, Absent
    <3>2. LeaderOf[a] # Nobody /\ price[a] >= Reserve[a]
      BY <1>2, <1>3
    <3>3. QED
      BY <3>1, <3>2 DEF Outcome
  <2>3. QED
    BY <2>1, <2>2, DecideKinds
<1>7. QED
  BY <1>1, <1>3, <1>4, <1>5, <1>6 DEF Promise!Decide

LEMMA SetResultKeeps ==
    ASSUME TypeOK, NEW a \in AuctionIds,
           NEW from \in SUBSET {"AWAITING_CHECKOUT", "ORDER_CREATED"},
           NEW to \in {"ORDER_CREATED", "PAYMENT_EXPIRED", "PAYMENT_COMPLETED"},
           SetResult(a, from, to)
    PROVE  UNCHANGED <<price, LeaderOf, Outcome>>
<1>1. \A c \in AuctionIds \ {a} : result'[c] = result[c]
  BY SetResultType
<1>2. /\ result[a] # Absent /\ result[a].status # "NO_BIDS"
      /\ result'[a] # Absent /\ result'[a].status # "NO_BIDS"
  BY <1>1, SetResultStatus
<1>3. Outcome' = Outcome
  BY <1>1, <1>2 DEF Outcome
<1>4. QED
  BY <1>3, PromiseView DEF SetResult

LEMMA NextPromise ==
    AuctionAssumption /\ TypeOK /\ TypeOK' /\ BookInv /\ [Next]_vars
        => [Promise!Next]_<<price, LeaderOf, Outcome>>
<1> SUFFICES ASSUME AuctionAssumption, TypeOK, TypeOK', BookInv, [Next]_vars
             PROVE  Promise!Next \/ UNCHANGED <<price, LeaderOf, Outcome>>
  OBVIOUS
<1>1. ASSUME NEW x \in BidIds, NEW a \in AuctionIds, NEW b \in Users, NEW n \in Amounts,
             PlaceBid(x, a, b, n)
      PROVE  Promise!Next
  BY <1>1, PlaceBidRaises DEF Promise!Next
<1>2. ASSUME NEW a \in AuctionIds, Decide(a)
      PROVE  Promise!Next
  BY <1>2, DecideDecides DEF Promise!Next
<1>3. ASSUME NEW p \in Slots, CloseByHand(p), Decide(session[p].auction)
      PROVE  Promise!Next
  BY <1>2, <1>3 DEF CloseByHand, TypeOK, Idle
<1>4. ASSUME NEW a \in AuctionIds, SweepCloses(a)
      PROVE  Promise!Next
  BY <1>2, <1>4 DEF SweepCloses
<1>5. ASSUME NEW a \in AuctionIds, ClaimOrder(a) \/ Forfeit(a) \/ Settle(a)
      PROVE  UNCHANGED <<price, LeaderOf, Outcome>>
  BY <1>5, SetResultKeeps DEF ClaimOrder, Forfeit, Settle
<1>6. CASE \/ \E a \in AuctionIds : CreateAuction(a) \/ SweepSkips(a) \/ Tick(a)
           \/ \E p \in Slots, op \in Ops, a \in AuctionIds : LoadAuction(p, op, a)
           \/ \E p \in Slots : CommitMove(p)
           \/ \E p \in Slots : CloseByHand(p) /\ ~Decide(session[p].auction)
           \/ BeginSweep \/ Restart \/ UNCHANGED vars
  <2>1. UNCHANGED <<price, top, bid, result>>
    BY <1>6 DEF CreateAuction, SweepSkips, Tick, LoadAuction, CommitMove, CloseByHand,
                BeginSweep, Restart, vars
  <2>2. UNCHANGED Outcome
    BY <2>1 DEF Outcome
  <2>3. QED
    BY <2>1, <2>2, PromiseView
<1>7. QED
  BY <1>1, <1>3, <1>4, <1>5, <1>6 DEF Next

\* Bids and closes implement the abstract auction: the price only rises, each time for
\* the one who raised it, and the outcome is decided once, by the reserve.
THEOREM Implementation == Spec => AscendingSpec
<1>1. Init => Promise!Init
  BY DEF Init, Promise!Init, LeaderOf, Outcome
<1>2. TypeOK /\ TypeOK' /\ BookInv /\ [Next]_vars
          => [Promise!Next]_<<price, LeaderOf, Outcome>>
  BY NextPromise, AuctionAssumption
<1>3. QED
  BY <1>1, <1>2, TypeCorrect, BookCorrect, PTL DEF Spec, AscendingSpec, Promise!Spec

-----------------------------------------------------------------------------
(* Requests one at a time.                                                 *)

\* What a request saw is still so, if there is only one; an auction that has a result is over,
\* one that is settled has been paid.
Alone ==
    /\ \A p \in Slots :
          /\ session[p].op = "schedule" => status[session[p].auction] = "DRAFT"
          /\ session[p].op = "start" => status[session[p].auction] = "SCHEDULED"
    /\ \A a \in AuctionIds :
          /\ result[a] # Absent => status[a] \in {"ENDED", "SETTLED"}
          /\ status[a] \in {"ENDED", "SETTLED"} => result[a] # Absent

LEMMA NextAlone ==
    ASSUME AuctionAssumption, \A p, q \in Slots : p = q, TypeOK, Alone, [Next]_vars
    PROVE  /\ Alone'
           /\ \A a \in AuctionIds : status[a] \in {"ENDED", "SETTLED"}
                                       => status'[a] \in {"ENDED", "SETTLED"}
<1> DEFINE Final == \A a \in AuctionIds : status[a] \in {"ENDED", "SETTLED"}
                                             => status'[a] \in {"ENDED", "SETTLED"}
<1>1. ASSUME UNCHANGED <<status, result>>, session' \in {session, [p \in Slots |-> Idle]}
      PROVE  Alone' /\ Final
  BY <1>1 DEF Alone, Idle
<1>2. ASSUME NEW a \in AuctionIds, CreateAuction(a)
      PROVE  Alone' /\ Final
  <2>1. status'[a] = "DRAFT" /\ status[a] = "NONE" /\ \A c \in AuctionIds \ {a} : status'[c] = status[c]
    BY <1>2 DEF CreateAuction, TypeOK
  <2>2. \A p \in Slots : session[p] # Idle => session[p].auction \in AuctionIds
    BY DEF TypeOK
  <2> QED BY <1>2, <2>1, <2>2 DEF CreateAuction, Alone, Idle
<1>3. ASSUME NEW p \in Slots, NEW op \in Ops, NEW a \in AuctionIds, LoadAuction(p, op, a)
      PROVE  Alone' /\ Final
  <2>1. /\ UNCHANGED <<status, result>>
        /\ session'[p] = [op |-> op, auction |-> a] /\ \A q \in Slots \ {p} : session'[q] = session[q]
    BY <1>3 DEF LoadAuction, TypeOK
  <2>2. /\ op = "schedule" => status[a] = "DRAFT"
        /\ op = "start" => status[a] = "SCHEDULED"
    BY <1>3 DEF LoadAuction, Movable
  <2> QED BY <2>1, <2>2 DEF Alone
<1>4. ASSUME NEW p \in Slots, CommitMove(p)
      PROVE  Alone' /\ Final
  <2> DEFINE a == session[p].auction
             to == IF session[p].op = "schedule" THEN "SCHEDULED" ELSE "LIVE"
  <2>1. a \in AuctionIds /\ status[a] \in {"DRAFT", "SCHEDULED"}
    BY <1>4 DEF CommitMove, Alone, TypeOK, Idle
  <2>2. /\ status'[a] \in {"SCHEDULED", "LIVE"} /\ \A c \in AuctionIds \ {a} : status'[c] = status[c]
        /\ session' = [session EXCEPT ![p] = Idle] /\ UNCHANGED result
    BY <1>4, <2>1 DEF CommitMove, TypeOK
  <2>3. \A q \in Slots : session'[q] = Idle
    BY <2>2 DEF TypeOK
  <2> QED BY <2>1, <2>2, <2>3 DEF Alone, Idle
<1>5. ASSUME NEW a \in AuctionIds, Decide(a)
      PROVE  /\ status'[a] = "ENDED" /\ result[a] = Absent /\ result'[a] # Absent
             /\ \A c \in AuctionIds \ {a} : status'[c] = status[c] /\ result'[c] = result[c]
  BY <1>5, DecideKinds DEF TypeOK, Absent
<1>6. ASSUME NEW p \in Slots, CloseByHand(p)
      PROVE  Alone' /\ Final
  <2>1. session[p].auction \in AuctionIds /\ \A q \in Slots : session'[q] = Idle
    BY <1>6 DEF CloseByHand, TypeOK, Idle
  <2> QED BY <1>5, <1>6, <2>1 DEF CloseByHand, Alone, Idle
<1>7. ASSUME NEW a \in AuctionIds, SweepCloses(a)
      PROVE  Alone' /\ Final
  <2>1. \A p \in Slots : session[p] # Idle => session[p].auction \in AuctionIds
    BY DEF TypeOK
  <2> QED BY <1>5, <1>7, <2>1 DEF SweepCloses, Alone, Idle
<1>8. ASSUME NEW a \in AuctionIds, ClaimOrder(a) \/ Forfeit(a)
      PROVE  Alone' /\ Final
  <2>1. /\ result[a] # Absent /\ result'[a] # Absent
        /\ \A c \in AuctionIds \ {a} : result'[c] = result[c]
    BY <1>8, SetResultStatus DEF ClaimOrder, Forfeit, SetResult, TypeOK
  <2> QED BY <1>8, <2>1 DEF ClaimOrder, Forfeit, SetResult, Alone
<1>9. ASSUME NEW a \in AuctionIds, Settle(a)
      PROVE  Alone' /\ Final
  <2>1. /\ result[a] # Absent /\ result'[a] # Absent
        /\ \A c \in AuctionIds \ {a} : result'[c] = result[c]
    BY <1>9, SetResultStatus DEF Settle, SetResult, TypeOK
  <2>2. status'[a] = "SETTLED" /\ \A c \in AuctionIds \ {a} : status'[c] = status[c]
    BY <1>9 DEF Settle, TypeOK
  <2>3. status[a] \in {"ENDED", "SETTLED"} /\ UNCHANGED session
    BY <1>9, <2>1 DEF Settle, SetResult, Alone
  <2>4. \A p \in Slots : session[p] # Idle => session[p].auction \in AuctionIds
    BY DEF TypeOK
  <2> QED BY <2>1, <2>2, <2>3, <2>4 DEF Alone, Idle
<1>10. ASSUME NEW x \in BidIds, NEW a \in AuctionIds, NEW b \in Users, NEW n \in Amounts,
              PlaceBid(x, a, b, n)
       PROVE  Alone' /\ Final
  BY <1>1, <1>10 DEF PlaceBid
<1>11. CASE \/ \E a \in AuctionIds : SweepSkips(a) \/ Tick(a)
            \/ BeginSweep \/ Restart \/ UNCHANGED vars
  BY <1>1, <1>11 DEF SweepSkips, Tick, BeginSweep, Restart, vars
<1> QED
  BY <1>2, <1>3, <1>4, <1>6, <1>7, <1>8, <1>9, <1>10, <1>11 DEF Next

\* docs/FLOW.md leaves ENDED for SETTLED only.  So it is, whatever the scheduler, bidders and
\* winners do, while seller and ADMIN have one request at a time: it takes two that overlap to
\* bring an auction back (the run on EndedIsFinal has two).
THEOREM EndedIsFinalAlone ==
    ASSUME \A p, q \in Slots : p = q
    PROVE  Spec => EndedIsFinal
<1>1. Init => Alone
  BY DEF Init, Alone, Idle, Absent
<1>2. TypeOK /\ Alone /\ [Next]_vars => Alone'
  BY NextAlone, AuctionAssumption
<1>3. TypeOK /\ Alone /\ [Next]_vars =>
        [\A a \in AuctionIds : status[a] \in {"ENDED", "SETTLED"}
                                 => status'[a] \in {"ENDED", "SETTLED"}]_vars
  BY NextAlone, AuctionAssumption
<1>4. QED
  BY <1>1, <1>2, <1>3, TypeCorrect, PTL DEF Spec, EndedIsFinal
=============================================================================
