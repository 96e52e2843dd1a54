SPECIFICATION Spec
CONSTANTS
    f = f
    seller = seller
    ann = ann
    bob = bob
    Listings = {f}
    Users = {seller, ann, bob}
    SellerOf <- MCSellerOf
    AuctionListings = {}
    AdminOverrides = FALSE
    OfferIds = {x1, x2}
    Slots = {p1, p2}
    Ops = {"accept", "cancel", "withdraw", "read"}
INVARIANTS
    TypeOK
    OrderedIsAccepted
PROPERTIES
    AnswerStands
    RequestsEnd
CHECK_DEADLOCK FALSE
