------------------------------- MODULE Session -------------------------------
(***************************************************************************)
(* The session of the web client (auth/auth.js, auth/AuthContext.jsx): the *)
(* tabs of one browser share the stored tokens, each tab keeps its own     *)
(* user, and each runs several requests that answer in any order.          *)
(*                                                                         *)
(* A tab has five jobs: "load" (loadMe), "form" (the login and register    *)
(* pages), "call" (an authFetch), "out" (logout) and "flight" (refreshOnce,*)
(* which load and call share).  A job is at a request until its answer     *)
(* comes back; JavaScript runs the rest of the handler in one step.        *)
(***************************************************************************)
EXTENDS Tokens

CONSTANTS
    Tabs,
    MaxBusy,       \* bounds the jobs under way at a time, in all tabs
    None

ASSUME SessionAssumption == None \notin UserStatus \cup {"ok", "no", "401"}

VARIABLES
    storage,       \* localStorage: mp_access_token and mp_refresh_token
    user,          \* AuthContext: user
    loading,       \* AuthContext: loading
    job

vars == <<account, rows, storage, user, loading, job>>
tabVars == <<storage, user, loading, job>>

Jobs == {"load", "form", "call", "out", "flight"}
Stage == {"idle", "me", "again", "wait", "login", "counted", "register", "verify",
          "call", "retry", "logout", "refresh"}
AccessToken == [user : Users, live : BOOLEAN]
Pair == [access : AccessToken, refresh : Nat]
Empty == [access |-> None, refresh |-> None]
Idle == [at |-> "idle", cred |-> None, res |-> None, got |-> None]

SessionTypeOK ==
    /\ TokensTypeOK
    /\ storage \in Pair \cup {Empty}
    /\ user \in [Tabs -> Users \cup {None}]
    /\ loading \in [Tabs -> BOOLEAN]
    /\ \A t \in Tabs, k \in Jobs : job[t][k].at \in Stage

Init ==
    /\ TokensInit
    /\ storage = Empty
    /\ user = [t \in Tabs |-> None]
    /\ loading = [t \in Tabs |-> FALSE]
    /\ job = [t \in Tabs |-> [k \in Jobs |-> Idle]]

-----------------------------------------------------------------------------
Busy == {tk \in Tabs \X Jobs : job[tk[1]][tk[2]].at # "idle"}
Room == Cardinality(Busy) < MaxBusy

Sent(at, cred) == [at |-> at, cred |-> cred, res |-> None, got |-> None]
Waiting == Sent("wait", None)

Answered(t, k, at) == job[t][k].at = at /\ job[t][k].res # None

Do(t, k, next) == job' = [job EXCEPT ![t][k] = next]

SignedInAs(t, u) == user' = [user EXCEPT ![t] = u]

\* clearToken() and setUser(null)
SignOut(t) == storage' = Empty /\ SignedInAs(t, None)

Loaded(t) == loading' = [loading EXCEPT ![t] = FALSE]

\* get_current_user: what an access token is worth.
Verdict(access) ==
    IF access = None \/ ~access.live THEN "401"
    ELSE IF ~MayAuthenticate(access.user) THEN "no" ELSE account[access.user]

\* Seeded bug: whoever finds no flight waits for one that nobody starts.
JoinNothing(t, k) == Do(t, k, Waiting)

\* refreshOnce, as job k begins to wait for it: one request for all that wait.
JoinFlight(t, k) ==
    job' = [job EXCEPT ![t][k] = Waiting,
                       ![t]["flight"] = IF @ = Idle THEN Sent("refresh", storage.refresh) ELSE @]

-----------------------------------------------------------------------------
(* The jobs of a tab.                                                      *)

\* loadMe, in a tab whose jobs are kept and whose user is who until the profile comes.
\* (A reload of a page that still loads starts it over; the guard keeps the user from
\* doing so forever.)
StartLoad(t, kept, who) ==
    /\ Room
    /\ ~loading[t]
    /\ loading' = [loading EXCEPT ![t] = (storage # Empty)]
    /\ job' = [job EXCEPT ![t] = IF storage = Empty THEN kept
                                 ELSE [kept EXCEPT !["load"] = Sent("me", storage.access)]]
    /\ SignedInAs(t, IF storage = Empty THEN None ELSE who)
    /\ UNCHANGED <<account, rows, storage>>

\* The page is loaded or reloaded: what the tab was doing is gone.
Mount(t) == StartLoad(t, [k \in Jobs |-> Idle], None)

\* A profile was saved: reloadUser.
ReloadUser(t) == user[t] # None /\ StartLoad(t, job[t], user[t])

\* What loadMe and login do with the profile: an unverified account gets no session.
Welcome(t, k) ==
    /\ job[t][k].res \in UserStatus
    /\ IF job[t][k].res = "PENDING_VERIFICATION"
         THEN SignOut(t)
         ELSE SignedInAs(t, job[t][k].cred.user) /\ UNCHANGED storage

LoadReturns(t) ==
    /\ \/ Answered(t, "load", "me")
       \/ Answered(t, "load", "again")
    /\ \/ /\ Welcome(t, "load")
          /\ Loaded(t)
          /\ Do(t, "load", Idle)
       \/ /\ job[t]["load"].at = "me"
          /\ job[t]["load"].res = "401"
          /\ storage.refresh # None
          /\ JoinFlight(t, "load")
          /\ UNCHANGED <<storage, user, loading>>
       \/ /\ job[t]["load"].res \notin UserStatus
          /\ job[t]["load"].at = "again" \/ job[t]["load"].res # "401" \/ storage.refresh = None
          /\ SignOut(t)
          /\ Loaded(t)
          /\ Do(t, "load", Idle)
    /\ UNCHANGED <<account, rows>>

\* The refresh answered: store the pair and let everyone who waits go on.
FlightReturns(t) ==
    /\ Answered(t, "flight", "refresh")
    /\ LET won == job[t]["flight"].res = "ok"
           pair == job[t]["flight"].got
           waits(k) == job[t][k] = Waiting
           loadFails == ~won /\ waits("load")
       IN /\ job' = [job EXCEPT ![t] = [k \in Jobs |->
                       IF k = "flight" \/ (waits(k) /\ ~won) THEN Idle
                       ELSE IF waits(k) THEN Sent(IF k = "load" THEN "again" ELSE "retry", pair.access)
                       ELSE job[t][k]]]
          /\ loading' = [loading EXCEPT ![t] = @ /\ ~loadFails]
          /\ IF won THEN storage' = pair /\ UNCHANGED user
             ELSE IF \E k \in Jobs : waits(k) THEN SignOut(t) ELSE UNCHANGED <<storage, user>>
    /\ UNCHANGED <<account, rows>>

\* A page of a signed-in user calls the API through authFetch.
Call(t) ==
    /\ Room
    /\ user[t] # None
    /\ job[t]["call"] = Idle
    /\ Do(t, "call", Sent("call", storage.access))
    /\ UNCHANGED <<account, rows, storage, user, loading>>

\* The stage whose 401 is followed by one refresh.
RefreshesAt == {"call"}

\* The call is answered or lost (no other step depends on when it is served).
\* One refresh and one retry, and the second answer is final.
CallReturns(t) ==
    LET c == job[t]["call"] IN
    /\ c.at \in {"call", "retry"}
    /\ \/ /\ c.at \in RefreshesAt
          /\ Verdict(c.cred) = "401"
          /\ storage.refresh # None
          /\ JoinFlight(t, "call")
       \/ /\ Verdict(c.cred) = "401" => (c.at \notin RefreshesAt \/ storage.refresh = None)
          /\ Do(t, "call", Idle)
       \/ /\ c.at \in RefreshesAt
          /\ Do(t, "call", Idle)
    /\ UNCHANGED <<account, rows, storage, user, loading>>

Submit(t, at, u, raw) ==
    /\ Room
    /\ job[t]["form"] = Idle
    /\ Do(t, "form", Sent(at, [user |-> u, raw |-> raw, seen |-> {}]))
    /\ UNCHANGED <<account, rows, storage, user, loading>>

SubmitLogin(t, u) == Submit(t, "login", u, FALSE)

SubmitRegister(t, u) == Submit(t, "register", u, FALSE)

\* The verification code, entered on the login page, which goes on to log in, or where the
\* registration showed it (raw): there the tokens are stored and the context is not told.
SubmitCode(t, u, raw) == account[u] # "NONE" /\ Submit(t, "verify", u, raw)

FormReturns(t) ==
    LET f == job[t]["form"] IN
    /\ f.res # None
    /\ \/ /\ f.at = "counted"
          /\ f.res = "ok"
          /\ storage' = f.got
          /\ Do(t, "form", IF f.cred.raw THEN Idle ELSE Sent("me", f.got.access))
          /\ UNCHANGED user
       \/ /\ f.at = "me"
          /\ Welcome(t, "form")
          /\ Do(t, "form", Idle)
       \/ /\ f.at = "register"
          /\ f.res = "ok"
          /\ SignOut(t)
          /\ Do(t, "form", Idle)
       \/ /\ f.at = "verify"
          /\ f.res = "ok"
          /\ Do(t, "form", Sent("login", f.cred))
          /\ UNCHANGED <<storage, user>>
       \/ /\ f.res = "no"
          /\ Do(t, "form", Idle)
          /\ UNCHANGED <<storage, user>>
    /\ UNCHANGED <<account, rows, loading>>

\* The account menu: revoke the refresh token if the browser has a pair, then tear down.
Logout(t) ==
    /\ Room
    /\ user[t] # None
    /\ job[t]["out"] = Idle
    /\ IF storage = Empty
         THEN SignOut(t) /\ UNCHANGED job
         ELSE Do(t, "out", Sent("logout", storage)) /\ UNCHANGED <<storage, user>>
    /\ UNCHANGED <<account, rows, loading>>

LogoutReturns(t) ==
    /\ Answered(t, "out", "logout")
    /\ SignOut(t)
    /\ Do(t, "out", Idle)
    /\ UNCHANGED <<account, rows, loading>>

-----------------------------------------------------------------------------
(* The network and the server.                                             *)

Answer(t, k, res) ==
    /\ job' = [job EXCEPT ![t][k].res = res]
    /\ UNCHANGED <<storage, user, loading>>

\* The token pair that the server issues in this step, on its way to job k.
Hand(t, k, u) ==
    /\ job' = [job EXCEPT ![t][k].res = "ok",
                          ![t][k].got = [access |-> [user |-> u, live |-> TRUE], refresh |-> Len(rows')]]
    /\ UNCHANGED <<storage, user, loading>>

\* GET /auth/me, as loadMe and login ask for it.
ServeGuarded(t, k) ==
    /\ job[t][k].at \in {"me", "again"}
    /\ Answer(t, k, Verdict(job[t][k].cred))
    /\ UNCHANGED serverVars

ServeRefresh(t) ==
    LET i == job[t]["flight"].cred IN
    /\ job[t]["flight"].at = "refresh"
    /\ \/ Rotate(i) /\ Hand(t, "flight", rows[i].user)
       \/ ExpireToken(i) /\ Answer(t, "flight", "no")
       \/ Reuse(i) /\ Answer(t, "flight", "no")
       \/ /\ rows[i].status = "EXPIRED" \/ (rows[i].status = "ACTIVE" /\ ~MayAuthenticate(rows[i].user))
          /\ Answer(t, "flight", "no")
          /\ UNCHANGED serverVars

\* The login request reads the sessions of the account, and commits in a later step.
CountSessions(t) ==
    LET f == job[t]["form"] IN
    /\ f.at = "login"
    /\ IF account[f.cred.user] = "NONE" THEN Answer(t, "form", "no")
       ELSE IF MayAuthenticate(f.cred.user)
         THEN /\ Do(t, "form", Sent("counted", [f.cred EXCEPT !.seen = ActiveOf(f.cred.user)]))
              /\ UNCHANGED <<storage, user, loading>>
         ELSE Answer(t, "form", "no")
    /\ UNCHANGED serverVars

ServeForm(t) ==
    LET f == job[t]["form"] IN
    \/ /\ f.at = "counted"
       /\ CommitLogin(f.cred.user, f.cred.seen)
       /\ Hand(t, "form", f.cred.user)
    \/ /\ f.at = "register"
       /\ \/ Register(f.cred.user) /\ Answer(t, "form", "ok")
          \/ /\ account[f.cred.user] # "NONE"
             /\ Answer(t, "form", "no")
             /\ UNCHANGED serverVars
    \/ /\ f.at = "verify"
       /\ \/ VerifyEmail(f.cred.user) /\ Answer(t, "form", "ok")
          \/ /\ account[f.cred.user] # "PENDING_VERIFICATION"
             /\ Answer(t, "form", "no")
             /\ UNCHANGED serverVars

ServeLogout(t) ==
    LET pair == job[t]["out"].cred IN
    /\ job[t]["out"].at = "logout"
    /\ IF Verdict(pair.access) \in UserStatus
         THEN RevokeOne(pair.refresh) /\ Answer(t, "out", "ok")
         ELSE Answer(t, "out", "no") /\ UNCHANGED serverVars

\* A request reaches the server and is served.
Serve(t, k) ==
    /\ job[t][k].res = None
    /\ \/ k \in {"load", "form"} /\ ServeGuarded(t, k)
       \/ k = "flight" /\ ServeRefresh(t)
       \/ k = "form" /\ (CountSessions(t) \/ ServeForm(t))
       \/ k = "out" /\ ServeLogout(t)

\* The connection fails, before or after the server acted: no usable answer.
Lose(t, k) ==
    /\ job[t][k].at \notin {"idle", "wait", "call", "retry"}
    /\ job[t][k].res # "no"
    /\ k = "load" => job[t][k].res = None
    /\ Answer(t, k, "no")
    /\ UNCHANGED serverVars

Returns(t) ==
    \/ LoadReturns(t) \/ FlightReturns(t) \/ CallReturns(t)
    \/ FormReturns(t) \/ LogoutReturns(t)

\* The access token of the browser runs out.
AccessExpires ==
    /\ storage # Empty
    /\ storage.access.live
    /\ storage' = [storage EXCEPT !.access.live = FALSE]
    /\ UNCHANGED <<account, rows, user, loading, job>>

AdminStep ==
    /\ \E u \in Users : Suspend(u) \/ Reactivate(u)
    /\ UNCHANGED tabVars

Next ==
    \/ \E t \in Tabs :
          \/ Mount(t) \/ ReloadUser(t) \/ Call(t) \/ Logout(t) \/ Returns(t)
          \/ \E u \in Users : \/ SubmitLogin(t, u) \/ SubmitRegister(t, u)
                              \/ \E raw \in BOOLEAN : SubmitCode(t, u, raw)
          \/ \E k \in Jobs : Serve(t, k) \/ Lose(t, k)
    \/ AccessExpires
    \/ AdminStep

Settles(t, k) == job[t][k].res = None /\ (Serve(t, k) \/ Lose(t, k))

\* Any tab: they are alike.
Watched == CHOOSE t \in Tabs : TRUE

\* A request of the watched tab is answered or lost in the end, and the tab handles what came back.
\* The other tabs, the users and the administrators owe nothing: they may stop anywhere.
Fairness ==
    /\ WF_vars(Settles(Watched, "load")) /\ WF_vars(Settles(Watched, "flight"))
    /\ WF_vars(LoadReturns(Watched)) /\ WF_vars(FlightReturns(Watched)) /\ WF_vars(CallReturns(Watched))

Spec == Init /\ [][Next]_vars /\ Fairness

-----------------------------------------------------------------------------
(* "One refresh + one retry, then give up (no loops)": every page load and *)
(* every API call of a tab comes to an end, however tokens expire, get lost*)
(* or are rotated by another tab meanwhile.                                *)
RequestsSettle ==
    /\ loading[Watched] ~> ~loading[Watched]
    /\ job[Watched]["call"] # Idle ~> job[Watched]["call"] = Idle
=============================================================================
