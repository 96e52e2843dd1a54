SPECIFICATION TxSpec
CONSTANTS
    f = f
    seller = seller
    ann = ann
    bob = bob
    cid = cid
    p1 = p1
    p2 = p2
    p3 = p3
    p4 = p4
    o1 = o1
    o2 = o2
    o3 = o3
    k1 = k1
    k2 = k2
    k3 = k3
    k4 = k4
    Listings = {f}
    Users = {seller, ann, bob, cid}
    SellerOf <- MCSellerOf
    AuctionListings = {}
    AdminOverrides = FALSE
    OrderIds = {o1}
    Keys = {k1, k2}
    Offers = {}
    OfferListing <- NoOffers
    OfferBuyer <- NoOffers
    Results = {}
    ResultListing <- NoOffers
    ResultWinner <- NoOffers
    Requests = {p1, p2}
    Tasks <- PaymentAndRead
    Expiring = {o1}
    FirstListing = f
    FirstOrder = o1
    FirstBuyer = ann
PROPERTY PaymentWins
CHECK_DEADLOCK FALSE
