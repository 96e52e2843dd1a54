------------------------------ MODULE Ascending ------------------------------
(***************************************************************************)
(* What an auction promises its bidders: the price only rises, each time   *)
(* in favour of the one who raised it, until the outcome is decided once   *)
(* and for all: the last to raise wins if the reserve is met.              *)
(***************************************************************************)
EXTENDS Naturals

CONSTANTS Auctions, Bidders, Amounts, Increment, Reserve, NoOne

VARIABLES
    price,    \* the highest bid so far, 0 before the first
    leader,   \* who made it
    outcome   \* "open", "won" or "unsold"

Init ==
    /\ price = [a \in Auctions |-> 0]
    /\ leader = [a \in Auctions |-> NoOne]
    /\ outcome = [a \in Auctions |-> "open"]

Raise(a, b, amount) ==
    /\ outcome[a] = "open"
    /\ leader[a] # NoOne => amount >= price[a] + Increment
    /\ price' = [price EXCEPT ![a] = amount]
    /\ leader' = [leader EXCEPT ![a] = b]
    /\ UNCHANGED outcome

Decide(a) ==
    /\ outcome[a] = "open"
    /\ outcome' = [outcome EXCEPT ![a] =
                     IF leader[a] # NoOne /\ price[a] >= Reserve[a] THEN "won" ELSE "unsold"]
    /\ UNCHANGED <<price, leader>>

Next ==
    \E a \in Auctions :
        Decide(a) \/ \E b \in Bidders, amount \in Amounts : Raise(a, b, amount)

Spec == Init /\ [][Next]_<<price, leader, outcome>>
=============================================================================
