------------------------------ MODULE DeskPages ------------------------------
(***************************************************************************)
(* The pages of the administration (apps/web/src/admin): lists and details *)
(* over useAdminData, which neither numbers its loads nor keeps what it    *)
(* showed.  A detail page builds the path of its actions from the id in    *)
(* the address; a row of a list from the row.                              *)
(***************************************************************************)
EXTENDS Api

\* useAdminData, with AdminApp in front of it, which waits for the session as RequireAuth does.
AdminReader == Reader

AdminDetail == [AdminReader EXCEPT !.detail = TRUE, !.target = "query"]

\* An action that the ModerationDialog confirms: 401 and 409 close it and reload, others stay in it.
Moderated(page, table) ==
    [page EXCEPT !.offers = table, !.refused = {"reload"}, !.failed = {"stay", "reload"}]

\* Seeded bug: the button of a listing that is sold already.
AdminListingActionsSold == {<<"ACTIVE", "remove">>, <<"SOLD", "remove">>, <<"REMOVED", "restore">>}

AdminListingActions == {<<"ACTIVE", "remove">>, <<"REMOVED", "restore">>}

AdminListings == Moderated(AdminReader, AdminListingActions)

AdminListing == Moderated(AdminDetail, AdminListingActions)

CanSuspend == {"ACTIVE", "PENDING_VERIFICATION"}

AdminUserActions == (CanSuspend \X {"suspend"}) \cup ({"SUSPENDED"} \X {"reactivate"})

AdminUsers == [Moderated(AdminReader, AdminUserActions) EXCEPT !.kind = "user"]

AdminUser == [Moderated(AdminDetail, AdminUserActions) EXCEPT !.kind = "user"]

AdminReviewActions == {<<"ACTIVE", "remove">>}

AdminReviews == [Moderated(AdminReader, AdminReviewActions) EXCEPT !.kind = "review"]

\* A select without the current value: any other status may be chosen.
OtherThan(S) == {o \in S \X S : o[1] # o[2]}

TicketStatus == OpenTicket \cup {"RESOLVED", "CLOSED"}

AdminTickets == [AdminReader EXCEPT !.kind = "ticket"]

AdminTicketActions == OtherThan(TicketStatus) \cup ((TicketStatus \ {"RESOLVED", "CLOSED"}) \X {"answer"})

AdminTicket == [AdminDetail EXCEPT !.kind = "ticket", !.offers = AdminTicketActions]

AdminReports == [AdminReader EXCEPT !.kind = "report"]

AdminReportActions == OtherThan({"OPEN", "UNDER_REVIEW", "RESOLVED", "DISMISSED"})

AdminReport == [AdminDetail EXCEPT !.kind = "report", !.offers = AdminReportActions]

AdminOrders == [AdminReader EXCEPT !.kind = "order"]

AdminOrder == [AdminDetail EXCEPT !.kind = "order"]

AdminAuctions == [AdminReader EXCEPT !.kind = "auction"]

AdminAuction == [AdminDetail EXCEPT !.kind = "auction"]

\* The payments, the dashboard and the moderation log only load and show.
AdminPayments == [AdminReader EXCEPT !.kind = "order"]

AdminDashboard == [AdminReader EXCEPT !.kind = "order"]

AdminModeration == [AdminReader EXCEPT !.kind = "listing"]

AdminAction == [AdminDetail EXCEPT !.kind = "listing"]

Desk ==
    [adminListings |-> AdminListings, adminListing |-> AdminListing, adminUsers |-> AdminUsers,
     adminUser |-> AdminUser, adminReviews |-> AdminReviews, adminTickets |-> AdminTickets,
     adminTicket |-> AdminTicket, adminReports |-> AdminReports, adminReport |-> AdminReport,
     adminOrders |-> AdminOrders, adminOrder |-> AdminOrder, adminAuctions |-> AdminAuctions,
     adminAuction |-> AdminAuction, adminPayments |-> AdminPayments,
     adminDashboard |-> AdminDashboard, adminModeration |-> AdminModeration, adminAction |-> AdminAction]

=============================================================================
