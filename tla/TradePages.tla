----------------------------- MODULE TradePages -----------------------------
(***************************************************************************)
(* The pages on which members buy and sell (apps/web/src/pages and the     *)
(* components they are made of): what each shows, when it offers which     *)
(* action, and what it does with an answer.                                *)
(***************************************************************************)
EXTENDS Api

PublicListing == {"ACTIVE", "RESERVED", "SOLD"}

\* The form of a listing does not look at its status.
CheckoutOffers == PublicListing \X {"place"}

Checkout ==
    [Reader EXCEPT !.detail = TRUE, !.target = "query", !.offers = CheckoutOffers, !.blind = {"place"},
                   !.done = {"leave"}]

\* The addresses of a checkout page are rows of their own.
AddressPanel ==
    [Reader EXCEPT !.kind = "address", !.offers = Statuses["address"] \X {"add"}]

OfferAddresses == AddressPanel

AuctionAddresses == AddressPanel

\* The form stays there when an order exists already; a 409 leads to that order if it is found.
OfferCheckoutOffers == {"ACCEPTED", "ORDERED"} \X {"place"}

OfferCheckout ==
    [Reader EXCEPT !.kind = "offer", !.detail = TRUE, !.target = "query", !.offers = OfferCheckoutOffers,
                   !.blind = {"place"}, !.done = {"leave"}, !.refused = {"leave", "stay"}]

AuctionCheckoutOffers == {"AWAITING_CHECKOUT"} \X {"place"}

AuctionCheckout ==
    [Reader EXCEPT !.kind = "auction", !.detail = TRUE, !.guarded = TRUE, !.target = "query",
                   !.offers = AuctionCheckoutOffers, !.done = {"leave"}, !.refused = {"leave", "stay"}]

\* Every order that is not paid has the button, a cancelled or shipped one too.
PaymentOffers == (Statuses["order"] \ {"PAID"}) \X {"pay"}

\* The result of a payment covers the order that was loaded; the next press drops it first.
Payment ==
    [Reader EXCEPT !.kind = "order", !.detail = TRUE, !.target = "query", !.offers = PaymentOffers,
                   !.blind = {"pay"}, !.done = {"apart"}]

\* The reviews of the user are loaded apart from the orders: until they are here, a reviewed order
\* has the button too.
ReviewOffers == {"DELIVERED", "REVIEWED"} \X {"review"}

Reviewable(page) ==
    [page EXCEPT !.kind = "order", !.offers = ReviewOffers, !.blind = {"review"}, !.done = {"answer"},
                 !.refused = {"answer"}]

OrderList == Reviewable(Reader)

OrderDetail == Reviewable([Reader EXCEPT !.detail = TRUE])

\* The purchases of the account pages only show.
MyPurchases == [Reader EXCEPT !.kind = "order"]

BuyerOffers == [Reader EXCEPT !.kind = "offer"]

SellerOffers == BuyerOffers

MyBids == BuyerOffers

\* The buyer may withdraw, the seller answer: the dialog of either.
OfferActions == {"PENDING"} \X {"accept", "reject", "withdraw"}

OfferDetailModal ==
    [Reader EXCEPT !.kind = "offer", !.detail = TRUE, !.keyed = TRUE, !.target = "query",
                   !.offers = OfferActions]

OfferModal ==
    [Reader EXCEPT !.kind = "offer", !.offers = {"ABSENT"} \X {"offer"}, !.detail = TRUE, !.keyed = TRUE,
                   !.guarded = TRUE, !.done = {"leave"}]

BidOffers == {"LIVE"} \X {"bid"}

AuctionPanel ==
    [Reader EXCEPT !.kind = "auction", !.gate = "open", !.detail = TRUE, !.keyed = TRUE, !.keeps = TRUE,
                   !.polls = TRUE, !.offers = BidOffers, !.refused = {"reload"}, !.failed = {"reload", "leave"}]

MyListingActions == {<<"DRAFT", "publish">>, <<"DRAFT", "archive">>, <<"ACTIVE", "archive">>}

MyListings ==
    [Reader EXCEPT !.offers = MyListingActions, !.busy = "row", !.refused = {"error"}, !.failed = {"error"}]

Trade ==
    [checkout |-> Checkout, addresses |-> AddressPanel, offerAddresses |-> OfferAddresses,
     auctionAddresses |-> AuctionAddresses, offerCheckout |-> OfferCheckout,
     auctionCheckout |-> AuctionCheckout, payment |-> Payment, orders |-> OrderList,
     order |-> OrderDetail, myPurchases |-> MyPurchases, buyerOffers |-> BuyerOffers,
     sellerOffers |-> SellerOffers, myBids |-> MyBids, offerDetail |-> OfferDetailModal,
     offerModal |-> OfferModal, auctionPanel |-> AuctionPanel, myListings |-> MyListings]

=============================================================================
