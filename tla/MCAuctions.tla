----------------------------- MODULE MCAuctions -----------------------------
(* Auctions of one seller, two bidders.                                     *)
EXTENDS Auctions

CONSTANTS seller, ann, bob

MCSellerOf == [a \in AuctionIds |-> seller]
MCReserve == [a \in AuctionIds |-> 3]
=============================================================================
