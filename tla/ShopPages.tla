----------------------------- MODULE ShopPages ------------------------------
(***************************************************************************)
(* The catalog, the saved listings and the account pages of the web        *)
(* client: apps/web/src/App.jsx with its hooks, the seller profile, and    *)
(* what a member sees of the own account.                                  *)
(***************************************************************************)
EXTENDS Api

\* useListings numbers its loads and keeps the rows of the page before.
Catalog ==
    [Reader EXCEPT !.gate = "open", !.guarded = TRUE, !.keeps = TRUE]

\* useListingDetail and the view it is shown in, mounted anew for every listing.
ListingDetail ==
    [Reader EXCEPT !.gate = "open", !.detail = TRUE, !.keyed = TRUE, !.guarded = TRUE]

Categories == [Reader EXCEPT !.gate = "open"]

SellerProfile == [Reader EXCEPT !.gate = "open", !.detail = TRUE, !.guarded = TRUE]

\* The reviews of a member, for those who are signed in.
ReviewsSection ==
    [Reader EXCEPT !.kind = "review", !.gate = "silent", !.detail = TRUE, !.guarded = TRUE]

\* The hearts: useFavorites of the application, with the set of saved ids it keeps.  A press adds or
\* drops by what that set says; nothing is disabled meanwhile.
HeartActions == {<<"OUT", "add">>, <<"IN", "drop">>}

Hearts ==
    [Reader EXCEPT !.kind = "favorite", !.gate = "silent", !.keeps = TRUE, !.loses = FALSE,
                   !.offers = HeartActions, !.busy = "nothing", !.refused = {"reload"}]

FavoritesPage == [Reader EXCEPT !.kind = "favorite"]

\* Whatever comes of a removal, the list is loaded again.
MySavedItems ==
    [FavoritesPage EXCEPT !.offers = {<<"IN", "drop">>}, !.busy = "nothing", !.refused = {"reload"},
                          !.failed = {"reload"}]

AccountOverview == [Reader EXCEPT !.kind = "order", !.guarded = TRUE]

AccountListings == [Reader EXCEPT !.guarded = TRUE]

\* The counts and the recent activity of the account home.
MyAccount == [Reader EXCEPT !.kind = "order"]

\* Saving the profile ends with reloadUser.
ProfileForm ==
    [Reader EXCEPT !.kind = "profile", !.offers = {"SET"} \X {"save"}, !.done = {"remount"}]

AccountSettings == ProfileForm

AccountSettingsPage == ProfileForm

EditProfileModal == ProfileForm

\* The unread count beside the sections of the account.
AccountWorkspace == [Reader EXCEPT !.kind = "notice", !.guarded = TRUE]

Shop ==
    [catalog |-> Catalog, listing |-> ListingDetail, categories |-> Categories, seller |-> SellerProfile,
     reviews |-> ReviewsSection, hearts |-> Hearts, favorites |-> FavoritesPage, saved |-> MySavedItems,
     overview |-> AccountOverview, accountListings |-> AccountListings, myAccount |-> MyAccount,
     settings |-> AccountSettings, settingsPage |-> AccountSettingsPage,
     editProfile |-> EditProfileModal, workspace |-> AccountWorkspace]

=============================================================================
