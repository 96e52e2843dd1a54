SPECIFICATION Spec
CONSTANTS
    seller = seller
    ann = ann
    bob = bob
    AuctionIds = {a1, a2}
    Users = {seller, ann, bob}
    SellerOf <- MCSellerOf
    MaxBids = 2
    Amounts = {1, 3, 4}
    StartingBid = 1
    Increment = 2
    Reserve <- MCReserve
    BidCap = 2
    Nobody = Nobody
    Slots = {p1, p2}
INVARIANTS
    TypeOK
    LeaderAgrees
    BidsApart
    OutcomeFair
PROPERTIES
    AscendingSpec
    DueIsDecided
