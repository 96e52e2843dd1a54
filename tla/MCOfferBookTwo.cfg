SPECIFICATION Spec
CONSTANTS
    f = f
    seller = seller
    ann = ann
    bob = bob
    Listings = {f}
    Users = {seller, ann, bob}
    SellerOf <- MCSellerOf
    AuctionListings = {}
    AdminOverrides = FALSE
    OfferIds = {x1, x2, x3}
    Slots = {p1, p2}
    Ops = {"accept"}
INVARIANT OneAccepted
CHECK_DEADLOCK FALSE
