---------------------------- MODULE ContactPages ----------------------------
(***************************************************************************)
(* The pages on which members write to each other and to the support:      *)
(* tickets, reports, conversations and notifications.                      *)
(***************************************************************************)
EXTENDS Api

\* Routed without RequireAuth: the page itself sends a visitor away, and it does not look whether
\* the session is still loading.
OwnGate == [Reader EXCEPT !.gate = "own"]

SupportOffers == {"ABSENT"} \X {"create"}

Support == [OwnGate EXCEPT !.kind = "ticket", !.offers = SupportOffers]

\* The orders, listings and conversations of a category, to choose the subject of the ticket from.
CategoryObjects == [Reader EXCEPT !.kind = "order", !.gate = "silent", !.guarded = TRUE]

ReplyOffers == OpenTicket \X {"reply"}

\* The ticket is loaded again as part of the reply: when that fails, it counts as an error of the
\* reply and the ticket stays as it was.
SupportDetail ==
    [OwnGate EXCEPT !.kind = "ticket", !.detail = TRUE, !.target = "query", !.offers = ReplyOffers,
                    !.done = {"reload", "stay"}]

Reports == [OwnGate EXCEPT !.kind = "report"]

ReportModal ==
    [Reader EXCEPT !.kind = "report", !.offers = {"ABSENT"} \X {"report"}, !.done = {"leave"}]

\* The thread on the right is loaded for the conversation chosen on the left, and again by a timer.
ThreadOffers == {"OPEN"} \X {"send"}

MessageThread ==
    [Reader EXCEPT !.kind = "thread", !.detail = TRUE, !.polls = TRUE, !.target = "query",
                   !.offers = ThreadOffers, !.done = {"answer"}]

MessageList == [Reader EXCEPT !.kind = "thread", !.polls = TRUE, !.keeps = TRUE]

\* The first message to somebody starts the conversation, which is looked up in the list then.
MessageCompose == [Reader EXCEPT !.kind = "thread", !.offers = {"NEW"} \X {"send"}]

NoticeOffers == {"UNREAD"} \X {"read"}

NotificationsPage == [Reader EXCEPT !.kind = "notice", !.offers = NoticeOffers, !.done = {"answer"}]

\* The panel under the bell loads again when the socket announces a notification.
NotificationPanel ==
    [NotificationsPage EXCEPT !.gate = "silent", !.keeps = TRUE, !.polls = TRUE]

NotificationBell ==
    [Reader EXCEPT !.kind = "notice", !.gate = "silent", !.keeps = TRUE, !.loses = FALSE, !.polls = TRUE]

Contact ==
    [support |-> Support, categoryObjects |-> CategoryObjects, supportDetail |-> SupportDetail,
     reports |-> Reports, reportModal |-> ReportModal, thread |-> MessageThread,
     conversations |-> MessageList, compose |-> MessageCompose, notifications |-> NotificationsPage,
     noticePanel |-> NotificationPanel, bell |-> NotificationBell]

=============================================================================
