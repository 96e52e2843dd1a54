------------------------------ MODULE Catalog ------------------------------
(***************************************************************************)
(* The lifecycle status of the listings: the row that checkout, payment,   *)
(* offers, auctions and moderation all read and write.  Modelled from      *)
(* catalog/models.py, api/v1/catalog.py and the listing half of            *)
(* api/v1/admin.py.  Each action is one committed transaction; a request   *)
(* that is rejected leaves every row alone and is a stuttering step.       *)
(***************************************************************************)

CONSTANTS
    Listings,         \* listing ids
    Users,            \* user ids, all of them ACTIVE accounts
    SellerOf,         \* Listing.seller_id, fixed when the row is created
    AuctionListings,  \* the listings whose sale_type is AUCTION; no PATCH field changes it
    AdminOverrides    \* TRUE when an ADMIN may PATCH a listing to any status

ASSUME CatalogAssumption ==
    /\ SellerOf \in [Listings -> Users]
    /\ AuctionListings \subseteq Listings
    /\ AdminOverrides \in BOOLEAN

VARIABLE listing      \* listing[l] is the status column of row l

ListingStatus ==
    {"DRAFT", "PENDING_REVIEW", "ACTIVE", "RESERVED", "SOLD", "EXPIRED",
     "ARCHIVED", "REJECTED", "REMOVED"}

\* What a seller may ask of PATCH /listings/{id}, beside repeating the status.
SellerTransitions ==
    { <<"DRAFT", "ARCHIVED">>, <<"REJECTED", "DRAFT">>, <<"ACTIVE", "ARCHIVED">> }

CatalogTypeOK == listing \in [Listings -> ListingStatus]

\* POST /listings creates every row as a DRAFT.
CatalogInit == listing = [l \in Listings |-> "DRAFT"]

Move(l, from, to) ==
    /\ listing[l] = from
    /\ listing' = [listing EXCEPT ![l] = to]

\* POST /listings/{id}/submit: an AUCTION listing needs its auction row first.
SubmitListing(l, auctioned) ==
    /\ l \in AuctionListings => l \in auctioned
    /\ Move(l, "DRAFT", "ACTIVE")

\* PATCH /listings/{id} with a status, by the seller or by an ADMIN.
UpdateListing(l, target) ==
    /\ AdminOverrides \/ <<listing[l], target>> \in SellerTransitions
    /\ listing' = [listing EXCEPT ![l] = target]

\* POST /admin/listings/{id}/remove and /restore.
RemoveListing(l) == Move(l, "ACTIVE", "REMOVED")

RestoreListing(l) == Move(l, "REMOVED", "ACTIVE")

CatalogNext(auctioned) ==
    \E l \in Listings :
        \/ SubmitListing(l, auctioned)
        \/ \E target \in ListingStatus : UpdateListing(l, target)
        \/ RemoveListing(l)
        \/ RestoreListing(l)

=============================================================================
