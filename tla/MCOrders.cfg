SPECIFICATION Spec
CONSTANTS
    f = f
    a = a
    seller = seller
    ann = ann
    bob = bob
    offer1 = offer1
    result1 = result1
    Listings = {f, a}
    Users = {seller, ann, bob}
    SellerOf <- MCSellerOf
    AuctionListings <- MCAuctionListings
    AdminOverrides = FALSE
    OrderIds = {o1, o2, o3}
    Keys = {k1, k2, k3}
    Offers = {offer1}
    OfferListing <- MCOfferListing
    OfferBuyer <- MCOfferBuyer
    Results = {result1}
    ResultListing <- MCResultListing
    ResultWinner <- MCResultWinner
INVARIANTS
    TypeOK
    ReservationBacked
    SoldBacked
    LedgerInv
    NoDoubleSale
    SettlementConsistent
    HistoryBalanced
PROPERTIES
    TakenDownStaysDown
    SaleSpec
CHECK_DEADLOCK FALSE
SYMMETRY MCSymmetry
