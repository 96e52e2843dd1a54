------------------------------ MODULE MCOrders ------------------------------
(* Orders on a small market: a fixed-price listing f with one accepted     *)
(* offer, and an auctioned listing a whose winner is decided.              *)
EXTENDS Orders, TLC

CONSTANTS f, a, seller, ann, bob, offer1, result1

MCSellerOf == [l \in {f, a} |-> seller]
MCAuctionListings == {a}
MCOfferListing == [x \in Offers |-> f]
MCOfferBuyer == [x \in Offers |-> bob]
MCResultListing == [r \in Results |-> a]
MCResultWinner == [r \in Results |-> bob]

\* Order ids and idempotency keys are interchangeable.
MCSymmetry == Permutations(OrderIds) \cup Permutations(Keys)
=============================================================================
