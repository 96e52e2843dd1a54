----------------------------- MODULE MCOfferBook -----------------------------
(* OfferBook with one fixed-price listing f and two bidders.                *)
EXTENDS OfferBook

CONSTANTS f, seller, ann, bob

MCSellerOf == [l \in Listings |-> seller]
=============================================================================
