SPECIFICATION Spec
CONSTANTS
    seller = seller
    ann = ann
    bob = bob
    AuctionIds = {a1}
    Users = {seller, ann, bob}
    SellerOf <- MCSellerOf
    MaxBids = 1
    Amounts = {1, 3}
    StartingBid = 1
    Increment = 2
    Reserve <- MCReserve
    BidCap = 2
    Nobody = Nobody
    Slots = {p1, p2}
PROPERTY EndedIsFinal
