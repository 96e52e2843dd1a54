---------------------------- MODULE SessionProofs ----------------------------
(***************************************************************************)
(* Theorems about Session, for any number of accounts, tabs, tokens and    *)
(* requests under way, and their proofs.                                   *)
(***************************************************************************)
EXTENDS Session, SequenceTheorems, FiniteSetTheorems, TLAPS

-----------------------------------------------------------------------------
(* The inductive invariant.                                                *)

FormCred == [user : Users, raw : BOOLEAN, seen : SUBSET Nat]
Creds == {None} \cup Nat \cup AccessToken \cup Pair \cup FormCred
Answers == {None, "ok", "no", "401"} \cup UserStatus
JobRow == [at : Stage, cred : Creds, res : Answers, got : Pair \cup {None}]

\* What job k may rely on when n tokens have been issued.
JobOK(k, r, n) ==
    /\ (k \in {"load", "form"} /\ r.at \in {"me", "again"}) => r.cred \in AccessToken
    /\ (k = "form" /\ r.at \in {"login", "counted", "register", "verify"}) => r.cred \in FormCred
    /\ (k = "flight" /\ r.at = "refresh") => r.cred \in 1..n
    /\ (r.res = "ok" /\ r.at \in {"refresh", "counted"}) => (r.got \in Pair /\ r.got.refresh \in 1..n)

JobsOK(j, n) ==
    /\ j \in [Tabs -> [Jobs -> JobRow]]
    /\ \A t \in Tabs, k \in Jobs : JobOK(k, j[t][k], n)

StorageOK(s, n) ==
    /\ s \in Pair \cup {Empty}
    /\ s # Empty => s.refresh \in 1..n

RowsOK ==
    /\ TokensTypeOK
    /\ OneActivePerFamily

\* Every token that a tab stores or presents was issued, and no family has two that work.
SessionInv ==
    /\ RowsOK
    /\ user \in [Tabs -> Users \cup {None}]
    /\ loading \in [Tabs -> BOOLEAN]
    /\ StorageOK(storage, Len(rows))
    /\ JobsOK(job, Len(rows))

-----------------------------------------------------------------------------
(* The server.                                                             *)

\* Revoking keeps every row in its place and its family, and wakes none.
LEMMA RevokedKeeps ==
    ASSUME rows \in Seq(TokenRow), NEW S
    PROVE  /\ Revoked(S) \in Seq(TokenRow)
           /\ Len(Revoked(S)) = Len(rows)
           /\ DOMAIN Revoked(S) = DOMAIN rows
           /\ \A i \in DOMAIN rows :
                 /\ Revoked(S)[i].family = rows[i].family
                 /\ Revoked(S)[i].status = (IF i \in S THEN "REVOKED" ELSE rows[i].status)
<1>1. Len(rows) \in Nat /\ DOMAIN rows = 1..Len(rows) /\ \A i \in DOMAIN rows : rows[i] \in TokenRow
  OBVIOUS
<1>2. Revoked(S) \in [1..Len(rows) -> TokenRow]
  BY <1>1 DEF Revoked, TokenRow, TokenStatus
<1>3. Revoked(S) \in Seq(TokenRow) /\ Len(Revoked(S)) = Len(rows)
  BY <1>1, <1>2, IsASeq
<1>4. \A i \in DOMAIN rows :
         /\ Revoked(S)[i].family = rows[i].family
         /\ Revoked(S)[i].status = (IF i \in S THEN "REVOKED" ELSE rows[i].status)
  BY <1>1 DEF Revoked, TokenRow
<1> QED
  BY <1>1, <1>2, <1>3, <1>4

\* A revocation of whatever rows.
LEMMA RevokeStep ==
    ASSUME RowsOK, account' \in [Users -> UserStatus \cup {"NONE"}],
           NEW S, rows' = Revoked(S)
    PROVE  RowsOK' /\ Len(rows') = Len(rows)
<1>1. /\ rows' \in Seq(TokenRow)
      /\ Len(rows') = Len(rows)
      /\ DOMAIN rows' = DOMAIN rows
      /\ \A i \in DOMAIN rows :
            /\ rows'[i].family = rows[i].family
            /\ rows'[i].status = "ACTIVE" => rows[i].status = "ACTIVE"
  BY RevokedKeeps DEF RowsOK, TokensTypeOK
<1>2. TokensTypeOK'
  BY <1>1 DEF RowsOK, TokensTypeOK
<1>3. OneActivePerFamily'
  BY <1>1 DEF RowsOK, OneActivePerFamily
<1> QED
  BY <1>1, <1>2, <1>3 DEF RowsOK

\* A new token at the end of its family: every other member of the family is revoked already.
LEMMA IssueStep ==
    ASSUME RowsOK, UNCHANGED account, Len(rows) < MaxTokens,
           NEW S, NEW u \in Users, NEW f \in Nat \ {0}, f <= Len(rows) + 1,
           \A i \in DOMAIN rows : (rows[i].family = f /\ rows[i].status = "ACTIVE") => i \in S,
           Issue(Revoked(S), u, f)
    PROVE  RowsOK' /\ Len(rows') = Len(rows) + 1
<1> DEFINE new == [user |-> u, family |-> f, status |-> "ACTIVE"]
           kept == Revoked(S)
<1>1. /\ kept \in Seq(TokenRow)
      /\ Len(kept) = Len(rows)
      /\ DOMAIN kept = DOMAIN rows
      /\ \A i \in DOMAIN rows :
            /\ kept[i].family = rows[i].family
            /\ kept[i].status = (IF i \in S THEN "REVOKED" ELSE rows[i].status)
  BY RevokedKeeps DEF RowsOK, TokensTypeOK
<1>2. new \in TokenRow
  BY DEF TokenRow, TokenStatus
<1> HIDE DEF kept
<1>3. /\ rows' = Append(kept, new)
      /\ rows' \in Seq(TokenRow)
      /\ Len(rows') = Len(rows) + 1
      /\ DOMAIN rows' = 1..(Len(rows) + 1)
      /\ \A i \in 1..Len(rows) : rows'[i] = kept[i]
      /\ rows'[Len(rows) + 1] = new
  BY <1>1, <1>2 DEF Issue, kept
<1>4. Len(rows) \in Nat /\ DOMAIN rows = 1..Len(rows)
  BY DEF RowsOK, TokensTypeOK
<1>5. TokensTypeOK'
  <2>1. Len(rows') <= MaxTokens
    BY <1>3, <1>4, TokensAssumption
  <2>2. \A i \in DOMAIN rows' : rows'[i].family <= i
    BY <1>1, <1>3, <1>4 DEF RowsOK, TokensTypeOK
  <2> QED
    BY <2>1, <2>2, <1>3 DEF RowsOK, TokensTypeOK
<1>6. OneActivePerFamily'
  <2> SUFFICES ASSUME NEW i \in DOMAIN rows', NEW k \in DOMAIN rows',
                      rows'[i].family = rows'[k].family,
                      rows'[i].status = "ACTIVE", rows'[k].status = "ACTIVE"
               PROVE  i = k
    BY DEF OneActivePerFamily
  <2>1. ASSUME NEW m \in 1..Len(rows), rows'[m].status = "ACTIVE"
        PROVE  rows'[m].family # f
    <3>1. kept[m].status = "ACTIVE" /\ kept[m].family = rows'[m].family
      BY <2>1, <1>3
    <3>2. m \notin S /\ rows[m].status = "ACTIVE" /\ kept[m].family = rows[m].family
      BY <3>1, <1>1, <1>4
    <3> QED
      BY <3>1, <3>2, <1>4
  <2>2. CASE i \in 1..Len(rows) /\ k \in 1..Len(rows)
    BY <2>2, <1>1, <1>3, <1>4 DEF RowsOK, OneActivePerFamily
  <2>3. CASE i = Len(rows) + 1 \/ k = Len(rows) + 1
    BY <2>1, <2>3, <1>3, <1>4
  <2> QED
    BY <2>2, <2>3, <1>3, <1>4
<1> QED
  BY <1>3, <1>5, <1>6 DEF RowsOK

LEMMA LoginStep ==
    ASSUME RowsOK, NEW u \in Users, NEW seen, CommitLogin(u, seen)
    PROVE  RowsOK' /\ Len(rows') = Len(rows) + 1
<1>1. Len(rows) \in Nat /\ DOMAIN rows = 1..Len(rows)
  BY DEF RowsOK, TokensTypeOK
<1>2. \A i \in DOMAIN rows : rows[i].family # Len(rows) + 1
  BY <1>1 DEF RowsOK, TokensTypeOK, TokenRow
<1> QED
  BY <1>1, <1>2, IssueStep DEF CommitLogin

LEMMA RotateStep ==
    ASSUME RowsOK, NEW i \in DOMAIN rows, Rotate(i)
    PROVE  /\ RowsOK'
           /\ Len(rows') = Len(rows) + 1
           /\ rows[i].user \in Users
<1>1. Len(rows) \in Nat /\ DOMAIN rows = 1..Len(rows) /\ rows[i] \in TokenRow
  BY DEF RowsOK, TokensTypeOK
<1>2. rows[i].user \in Users /\ rows[i].family \in Nat \ {0} /\ rows[i].family <= Len(rows) + 1
  BY <1>1 DEF TokenRow, RowsOK, TokensTypeOK
<1>3. \A k \in DOMAIN rows :
         (rows[k].family = rows[i].family /\ rows[k].status = "ACTIVE") => k \in Spent(i)
  BY DEF Rotate, RowsOK, OneActivePerFamily, Spent
<1> QED
  BY <1>2, <1>3, IssueStep DEF Rotate

LEMMA ExpireStep ==
    ASSUME RowsOK, NEW i \in DOMAIN rows, ExpireToken(i)
    PROVE  RowsOK' /\ Len(rows') = Len(rows)
<1>1. Len(rows) \in Nat /\ DOMAIN rows = 1..Len(rows) /\ \A k \in DOMAIN rows : rows[k] \in TokenRow
  BY DEF RowsOK, TokensTypeOK
<1>2. rows' \in [1..Len(rows) -> TokenRow]
  BY <1>1 DEF ExpireToken, TokenRow, TokenStatus
<1>3. rows' \in Seq(TokenRow) /\ Len(rows') = Len(rows)
  BY <1>1, <1>2, IsASeq
<1>4. \A k \in DOMAIN rows :
         /\ rows'[k].family = rows[k].family
         /\ rows'[k].status = "ACTIVE" => rows[k].status = "ACTIVE"
  BY <1>1 DEF ExpireToken, TokenRow
<1>5. TokensTypeOK'
  BY <1>1, <1>3, <1>4 DEF RowsOK, TokensTypeOK, ExpireToken
<1>6. OneActivePerFamily'
  BY <1>1, <1>3, <1>4 DEF RowsOK, OneActivePerFamily
<1> QED
  BY <1>3, <1>5, <1>6 DEF RowsOK

\* A step that leaves the tokens alone.
LEMMA AccountStep ==
    ASSUME RowsOK, UNCHANGED rows, account' \in [Users -> UserStatus \cup {"NONE"}]
    PROVE  RowsOK' /\ Len(rows') = Len(rows)
BY DEF RowsOK, TokensTypeOK, OneActivePerFamily

-----------------------------------------------------------------------------
(* The jobs of the tabs.                                                   *)

LEMMA SentIsRow ==
    ASSUME NEW at \in Stage, NEW cred \in Creds
    PROVE  /\ Sent(at, cred) \in JobRow
           /\ Sent(at, cred).at = at
           /\ Sent(at, cred).cred = cred
           /\ Sent(at, cred).res # "ok"
BY SessionAssumption DEF Sent, JobRow, Answers

LEMMA IdleIsRow ==
    ASSUME NEW k, NEW n
    PROVE  /\ Idle \in JobRow
           /\ JobOK(k, Idle, n)
BY SessionAssumption DEF Idle, JobRow, Creds, Answers, Stage, JobOK

LEMMA JobMonotone ==
    ASSUME NEW j, NEW n \in Nat, NEW m \in Nat, n <= m, JobsOK(j, n)
    PROVE  JobsOK(j, m)
BY DEF JobsOK, JobOK

LEMMA StorageMonotone ==
    ASSUME NEW s, NEW n \in Nat, NEW m \in Nat, n <= m, StorageOK(s, n)
    PROVE  StorageOK(s, m)
BY DEF StorageOK

\* One job goes on.
LEMMA DoKeeps ==
    ASSUME NEW n, JobsOK(job, n), NEW t \in Tabs, NEW k \in Jobs,
           NEW next \in JobRow, JobOK(k, next, n), Do(t, k, next)
    PROVE  JobsOK(job', n)
<1>1. job' \in [Tabs -> [Jobs -> JobRow]]
  BY DEF JobsOK, Do
<1>2. ASSUME NEW v \in Tabs, NEW l \in Jobs
      PROVE  JobOK(l, job'[v][l], n)
  <2>1. CASE v = t /\ l = k
    <3>1. job'[v][l] = next
      BY <2>1 DEF JobsOK, Do
    <3> QED
      BY <2>1, <3>1
  <2>2. CASE ~(v = t /\ l = k)
    <3>1. job'[v][l] = job[v][l]
      BY <2>2 DEF JobsOK, Do
    <3> QED
      BY <3>1 DEF JobsOK
  <2> QED
    BY <2>1, <2>2
<1> QED
  BY <1>1, <1>2 DEF JobsOK

\* One job is answered with anything but success.
LEMMA AnswerKeeps ==
    ASSUME NEW n, JobsOK(job, n), NEW t \in Tabs, NEW k \in Jobs,
           NEW res \in Answers,
           res = "ok" => job[t][k].at \notin {"refresh", "counted"},
           Answer(t, k, res)
    PROVE  JobsOK(job', n)
<1> DEFINE next == [job[t][k] EXCEPT !.res = res]
<1>1. job[t][k] \in JobRow /\ JobOK(k, job[t][k], n)
  BY DEF JobsOK
<1>2. next \in JobRow /\ next.at = job[t][k].at /\ next.cred = job[t][k].cred
         /\ next.got = job[t][k].got /\ next.res = res
  BY <1>1 DEF JobRow
<1>3. JobOK(k, next, n)
  <2> HIDE DEF next
  <2> QED
    BY <1>1, <1>2 DEF JobOK
<1>4. Do(t, k, next)
  BY DEF Answer, Do, JobsOK
<1> HIDE DEF next
<1> QED
  BY <1>2, <1>3, <1>4, DoKeeps

\* One job is given the pair of the token issued last.
LEMMA HandKeeps ==
    ASSUME NEW n, JobsOK(job, n), NEW t \in Tabs, NEW k \in Jobs, NEW u \in Users,
           Len(rows') \in 1..n, Hand(t, k, u), n \in Nat
    PROVE  JobsOK(job', n)
<1> DEFINE got == [access |-> [user |-> u, live |-> TRUE], refresh |-> Len(rows')]
           next == [job[t][k] EXCEPT !.res = "ok", !.got = got]
<1>1. job[t][k] \in JobRow /\ JobOK(k, job[t][k], n)
  BY DEF JobsOK
<1>2. got \in Pair /\ got.refresh = Len(rows')
  BY DEF Pair, AccessToken
<1>3. Do(t, k, next)
  BY DEF Hand, Do, JobsOK
<1> HIDE DEF got
<1>4. next \in JobRow /\ next.at = job[t][k].at /\ next.cred = job[t][k].cred
         /\ next.got = got
  BY <1>1, <1>2 DEF JobRow, Answers
<1> HIDE DEF next
<1>5. JobOK(k, next, n)
  BY <1>1, <1>2, <1>4 DEF JobOK
<1> QED
  BY <1>3, <1>4, <1>5, DoKeeps

-----------------------------------------------------------------------------
(* The steps.                                                              *)

\* What a step has to show when it only moves one job and what the tab knows.
TabStep ==
    /\ user' \in [Tabs -> Users \cup {None}]
    /\ loading' \in [Tabs -> BOOLEAN]
    /\ StorageOK(storage', Len(rows))
    /\ JobsOK(job', Len(rows))

LEMMA TabStepKeeps ==
    ASSUME SessionInv, UNCHANGED <<account, rows>>, TabStep
    PROVE  SessionInv'
BY DEF SessionInv, TabStep, RowsOK, TokensTypeOK, OneActivePerFamily

\* What follows from the shapes of the invariant, for one job.
LEMMA JobFacts ==
    ASSUME SessionInv, NEW t \in Tabs, NEW k \in Jobs
    PROVE  /\ job[t][k] \in JobRow
           /\ JobOK(k, job[t][k], Len(rows))
           /\ Len(rows) \in Nat
BY DEF SessionInv, JobsOK, RowsOK, TokensTypeOK

LEMMA JobNames ==
    /\ "load" \in Jobs /\ "form" \in Jobs /\ "call" \in Jobs /\ "out" \in Jobs /\ "flight" \in Jobs
    /\ None \in Creds
BY DEF Jobs, Creds

LEMMA EmptyIsOK ==
    ASSUME NEW n
    PROVE  StorageOK(Empty, n)
BY DEF StorageOK

LEMMA SignOutKeeps ==
    ASSUME SessionInv, NEW t \in Tabs, SignOut(t)
    PROVE  /\ StorageOK(storage', Len(rows))
           /\ user' \in [Tabs -> Users \cup {None}]
BY EmptyIsOK DEF SignOut, SignedInAs, SessionInv

LEMMA WelcomeKeeps ==
    ASSUME SessionInv, NEW t \in Tabs, NEW k \in Jobs,
           job[t][k].cred \in AccessToken, Welcome(t, k)
    PROVE  /\ StorageOK(storage', Len(rows))
           /\ user' \in [Tabs -> Users \cup {None}]
BY SignOutKeeps DEF Welcome, SignedInAs, SessionInv, AccessToken

\* Whoever joins a flight presents the refresh token that is stored.
LEMMA JoinKeeps ==
    ASSUME SessionInv, NEW t \in Tabs, NEW k \in {"load", "call"},
           storage.refresh # None, JoinFlight(t, k)
    PROVE  JobsOK(job', Len(rows))
<1> DEFINE flight == IF job[t]["flight"] = Idle THEN Sent("refresh", storage.refresh)
                     ELSE job[t]["flight"]
<1>1. storage.refresh \in Nat /\ storage.refresh \in 1..Len(rows)
  BY DEF SessionInv, StorageOK, Empty, Pair
<1>2. Sent("refresh", storage.refresh) \in JobRow /\ JobOK("flight", Sent("refresh", storage.refresh), Len(rows))
  <2>1. storage.refresh \in Creds /\ "refresh" \in Stage
    BY <1>1 DEF Creds, Stage
  <2> QED
    BY <2>1, <1>1, SentIsRow DEF JobOK
<1>3. flight \in JobRow /\ JobOK("flight", flight, Len(rows))
  BY <1>2, JobFacts, JobNames
<1>4. Waiting \in JobRow /\ Waiting.at = "wait"
  BY SentIsRow, JobNames DEF Waiting, Stage
<1>5. \A l : JobOK(l, Waiting, Len(rows))
  BY <1>4 DEF JobOK
<1> HIDE DEF flight
<1>6. job' = [job EXCEPT ![t] = [job[t] EXCEPT ![k] = Waiting, !["flight"] = flight]]
  BY JobNames DEF JoinFlight, flight, SessionInv, JobsOK
<1>7. job' \in [Tabs -> [Jobs -> JobRow]]
  BY <1>3, <1>4, <1>6, JobNames DEF SessionInv, JobsOK, Jobs
<1>8. ASSUME NEW v \in Tabs, NEW l \in Jobs
      PROVE  JobOK(l, job'[v][l], Len(rows))
  <2>1. CASE v = t /\ l = "flight"
    <3>1. job'[v][l] = flight
      BY <2>1, <1>6, JobNames DEF SessionInv, JobsOK
    <3> QED
      BY <2>1, <3>1, <1>3
  <2>2. CASE v = t /\ l = k /\ l # "flight"
    <3>1. job'[v][l] = Waiting
      BY <2>2, <1>6, JobNames DEF SessionInv, JobsOK
    <3> QED
      BY <3>1, <1>5
  <2>3. CASE v # t \/ (l # k /\ l # "flight")
    <3>1. job'[v][l] = job[v][l]
      BY <2>3, <1>6, JobNames DEF SessionInv, JobsOK
    <3> QED
      BY <3>1 DEF SessionInv, JobsOK
  <2> QED
    BY <2>1, <2>2, <2>3
<1> QED
  BY <1>7, <1>8 DEF JobsOK

\* A job of tab t that becomes idle, or sends a request of its own.
LEMMA IdleKeeps ==
    ASSUME SessionInv, NEW t \in Tabs, NEW k \in Jobs, Do(t, k, Idle)
    PROVE  JobsOK(job', Len(rows))
BY IdleIsRow, DoKeeps, JobFacts DEF SessionInv

LEMMA StartLoadStep ==
    ASSUME SessionInv, NEW t \in Tabs, NEW kept \in [Jobs -> JobRow],
           \A k \in Jobs : JobOK(k, kept[k], Len(rows)),
           NEW who \in Users \cup {None}, StartLoad(t, kept, who)
    PROVE  SessionInv'
<1> DEFINE next == IF storage = Empty THEN kept
                   ELSE [kept EXCEPT !["load"] = Sent("me", storage.access)]
<1>1. next \in [Jobs -> JobRow] /\ \A k \in Jobs : JobOK(k, next[k], Len(rows))
  <2>1. CASE storage = Empty
    BY <2>1
  <2>2. CASE storage # Empty
    <3>1. storage.access \in AccessToken /\ storage.access \in Creds /\ "me" \in Stage
      BY <2>2 DEF SessionInv, StorageOK, Pair, Creds, Stage
    <3>2. Sent("me", storage.access) \in JobRow /\ JobOK("load", Sent("me", storage.access), Len(rows))
      BY <3>1, SentIsRow DEF JobOK
    <3> QED
      BY <2>2, <3>2, JobNames
  <2> QED
    BY <2>1, <2>2
<1> HIDE DEF next
<1>2. job' = [job EXCEPT ![t] = next]
  BY DEF StartLoad, next
<1>3. JobsOK(job', Len(rows))
  BY <1>1, <1>2 DEF SessionInv, JobsOK
<1>4. user' \in [Tabs -> Users \cup {None}] /\ loading' \in [Tabs -> BOOLEAN]
  BY DEF StartLoad, SignedInAs, SessionInv
<1>5. UNCHANGED <<account, rows, storage>>
  BY DEF StartLoad
<1> QED
  BY <1>3, <1>4, <1>5, TabStepKeeps DEF TabStep, SessionInv

LEMMA MountStep ==
    ASSUME SessionInv, NEW t \in Tabs, Mount(t)
    PROVE  SessionInv'
<1>1. [k \in Jobs |-> Idle] \in [Jobs -> JobRow]
      /\ \A k \in Jobs : JobOK(k, [l \in Jobs |-> Idle][k], Len(rows))
  BY IdleIsRow
<1> QED
  BY <1>1, StartLoadStep DEF Mount

LEMMA ReloadUserStep ==
    ASSUME SessionInv, NEW t \in Tabs, ReloadUser(t)
    PROVE  SessionInv'
BY StartLoadStep DEF ReloadUser, SessionInv, JobsOK

LEMMA LoadReturnsStep ==
    ASSUME SessionInv, NEW t \in Tabs, LoadReturns(t)
    PROVE  SessionInv'
<1>1. job[t]["load"].at \in {"me", "again"} /\ job[t]["load"].cred \in AccessToken
  BY JobFacts, JobNames DEF LoadReturns, Answered, JobOK
<1>2. UNCHANGED <<account, rows>>
  BY DEF LoadReturns
<1>3. CASE Welcome(t, "load") /\ Loaded(t) /\ Do(t, "load", Idle)
  BY <1>1, <1>2, <1>3, WelcomeKeeps, IdleKeeps, JobNames, TabStepKeeps DEF TabStep, Loaded, SessionInv
<1>4. CASE storage.refresh # None /\ JoinFlight(t, "load") /\ UNCHANGED <<storage, user, loading>>
  BY <1>2, <1>4, JoinKeeps, TabStepKeeps DEF TabStep, SessionInv
<1>5. CASE SignOut(t) /\ Loaded(t) /\ Do(t, "load", Idle)
  BY <1>2, <1>5, SignOutKeeps, IdleKeeps, JobNames, TabStepKeeps DEF TabStep, Loaded, SessionInv
<1> QED
  BY <1>3, <1>4, <1>5 DEF LoadReturns

LEMMA FlightReturnsStep ==
    ASSUME SessionInv, NEW t \in Tabs, FlightReturns(t)
    PROVE  SessionInv'
<1> DEFINE won == job[t]["flight"].res = "ok"
           pair == job[t]["flight"].got
           next == [k \in Jobs |->
                      IF k = "flight" \/ (job[t][k] = Waiting /\ ~won) THEN Idle
                      ELSE IF job[t][k] = Waiting
                             THEN Sent(IF k = "load" THEN "again" ELSE "retry", pair.access)
                             ELSE job[t][k]]
<1>1. won => pair \in Pair /\ pair.refresh \in 1..Len(rows)
  BY JobFacts, JobNames DEF FlightReturns, Answered, JobOK
<1>2. ASSUME NEW k \in Jobs
      PROVE  next[k] \in JobRow /\ JobOK(k, next[k], Len(rows))
  <2>1. CASE k = "flight" \/ (job[t][k] = Waiting /\ ~won)
    BY <2>1, IdleIsRow
  <2>2. CASE k # "flight" /\ job[t][k] = Waiting /\ won
    <3> DEFINE at == IF k = "load" THEN "again" ELSE "retry"
    <3>1. pair.access \in AccessToken /\ pair.access \in Creds
      BY <1>1, <2>2 DEF Pair, Creds
    <3>2. at \in Stage
      BY DEF Stage
    <3>3. next[k] = Sent(at, pair.access)
      BY <2>2
    <3> HIDE DEF next, at, pair
    <3>4. Sent(at, pair.access) \in JobRow
      BY <3>1, <3>2, SentIsRow
    <3>5. /\ Sent(at, pair.access).at = at
          /\ Sent(at, pair.access).cred = pair.access
          /\ Sent(at, pair.access).res # "ok"
      BY <3>1, <3>2, SentIsRow
    <3>6. at \in {"again", "retry"}
      BY DEF at
    <3> QED
      BY <3>1, <3>3, <3>4, <3>5, <3>6 DEF JobOK
  <2>3. CASE k # "flight" /\ job[t][k] # Waiting
    BY <2>3, JobFacts
  <2> QED
    BY <2>1, <2>2, <2>3
<1>3. job' = [job EXCEPT ![t] = next]
  BY DEF FlightReturns
<1>4. next \in [Jobs -> JobRow]
  BY <1>2
<1>5. JobsOK(job', Len(rows))
  <2> HIDE DEF next
  <2> QED
    BY <1>2, <1>3, <1>4 DEF SessionInv, JobsOK
<1>6. StorageOK(storage', Len(rows)) /\ user' \in [Tabs -> Users \cup {None}]
  <2>1. CASE won
    <3>1. storage' = pair /\ UNCHANGED user
      BY <2>1 DEF FlightReturns
    <3> HIDE DEF pair
    <3> QED
      BY <3>1, <2>1, <1>1 DEF StorageOK, SessionInv
  <2>2. CASE ~won
    <3>1. SignOut(t) \/ UNCHANGED <<storage, user>>
      BY <2>2 DEF FlightReturns
    <3> QED
      BY <3>1, SignOutKeeps DEF SessionInv
  <2> QED
    BY <2>1, <2>2
<1>7. loading' \in [Tabs -> BOOLEAN]
  BY DEF FlightReturns, SessionInv
<1> QED
  BY <1>5, <1>6, <1>7, TabStepKeeps DEF TabStep, FlightReturns

LEMMA CallStep ==
    ASSUME SessionInv, NEW t \in Tabs, Call(t)
    PROVE  SessionInv'
<1>1. storage.access \in Creds /\ "call" \in Stage
  BY DEF SessionInv, StorageOK, Pair, Empty, Creds, Stage
<1>2. Sent("call", storage.access) \in JobRow /\ JobOK("call", Sent("call", storage.access), Len(rows))
  BY <1>1, SentIsRow DEF JobOK
<1>3. JobsOK(job', Len(rows))
  BY <1>2, DoKeeps, JobNames DEF Call, SessionInv
<1> QED
  BY <1>3, TabStepKeeps DEF TabStep, Call, SessionInv

LEMMA CallReturnsStep ==
    ASSUME SessionInv, NEW t \in Tabs, CallReturns(t)
    PROVE  SessionInv'
<1>1. CASE storage.refresh # None /\ JoinFlight(t, "call")
  BY <1>1, JoinKeeps, TabStepKeeps DEF TabStep, CallReturns, SessionInv
<1>2. CASE Do(t, "call", Idle)
  BY <1>2, IdleKeeps, JobNames, TabStepKeeps DEF TabStep, CallReturns, SessionInv
<1> QED
  BY <1>1, <1>2 DEF CallReturns

\* A request of the login or registration page.
LEMMA FormIsOK ==
    ASSUME NEW at \in {"login", "counted", "register", "verify"}, NEW cred \in FormCred, NEW n
    PROVE  Sent(at, cred) \in JobRow /\ JobOK("form", Sent(at, cred), n)
<1>1. cred \in Creds /\ at \in Stage
  BY DEF Creds, Stage
<1> QED
  BY <1>1, SentIsRow DEF JobOK

LEMMA SubmitStep ==
    ASSUME SessionInv, NEW t \in Tabs, NEW at \in {"login", "register", "verify"},
           NEW u \in Users, NEW raw \in BOOLEAN, Submit(t, at, u, raw)
    PROVE  SessionInv'
<1>1. [user |-> u, raw |-> raw, seen |-> {}] \in FormCred
  BY DEF FormCred
<1>2. JobsOK(job', Len(rows))
  BY <1>1, FormIsOK, DoKeeps, JobNames DEF Submit, SessionInv
<1> QED
  BY <1>2, TabStepKeeps DEF TabStep, Submit, SessionInv

LEMMA FormReturnsStep ==
    ASSUME SessionInv, NEW t \in Tabs, FormReturns(t)
    PROVE  SessionInv'
<1> DEFINE f == job[t]["form"]
<1>1. f \in JobRow /\ JobOK("form", f, Len(rows)) /\ UNCHANGED <<account, rows, loading>>
  BY JobFacts, JobNames DEF FormReturns
<1> SUFFICES /\ StorageOK(storage', Len(rows))
             /\ user' \in [Tabs -> Users \cup {None}]
             /\ JobsOK(job', Len(rows))
  BY <1>1, TabStepKeeps DEF TabStep, SessionInv
<1>2. CASE /\ f.at = "counted"
           /\ f.res = "ok"
           /\ storage' = f.got
           /\ Do(t, "form", IF f.cred.raw THEN Idle ELSE Sent("me", f.got.access))
           /\ UNCHANGED user
  <2>1. f.got \in Pair /\ f.got.refresh \in 1..Len(rows)
    BY <1>1, <1>2 DEF JobOK
  <2>2. f.got.access \in AccessToken /\ f.got.access \in Creds /\ "me" \in Stage
    BY <2>1 DEF Pair, Creds, Stage
  <2>3. Sent("me", f.got.access) \in JobRow /\ JobOK("form", Sent("me", f.got.access), Len(rows))
    BY <2>2, SentIsRow DEF JobOK
  <2>4. JobsOK(job', Len(rows))
    <3>1. CASE f.cred.raw
      BY <3>1, <1>2, IdleKeeps, JobNames
    <3>2. CASE ~f.cred.raw
      BY <3>2, <1>2, <2>3, DoKeeps, JobNames DEF SessionInv
    <3> QED
      BY <3>1, <3>2
  <2> QED
    BY <1>2, <2>1, <2>4 DEF StorageOK, SessionInv
<1>3. CASE f.at = "me" /\ Welcome(t, "form") /\ Do(t, "form", Idle)
  <2>1. f.cred \in AccessToken
    BY <1>1, <1>3 DEF JobOK
  <2> QED
    BY <2>1, <1>3, WelcomeKeeps, IdleKeeps, JobNames
<1>4. CASE SignOut(t) /\ Do(t, "form", Idle)
  BY <1>4, SignOutKeeps, IdleKeeps, JobNames
<1>5. CASE f.at = "verify" /\ Do(t, "form", Sent("login", f.cred)) /\ UNCHANGED <<storage, user>>
  <2>1. f.cred \in FormCred
    BY <1>1, <1>5 DEF JobOK
  <2>2. JobsOK(job', Len(rows))
    BY <2>1, <1>5, FormIsOK, DoKeeps, JobNames DEF SessionInv
  <2> QED
    BY <2>2, <1>5 DEF SessionInv
<1>6. CASE Do(t, "form", Idle) /\ UNCHANGED <<storage, user>>
  BY <1>6, IdleKeeps, JobNames DEF SessionInv
<1> QED
  BY <1>2, <1>3, <1>4, <1>5, <1>6 DEF FormReturns

LEMMA LogoutStep ==
    ASSUME SessionInv, NEW t \in Tabs, Logout(t)
    PROVE  SessionInv'
<1>1. CASE storage = Empty
  BY <1>1, SignOutKeeps, TabStepKeeps DEF TabStep, Logout, SessionInv
<1>2. CASE storage # Empty
  <2>1. storage \in Creds /\ "logout" \in Stage
    BY <1>2 DEF SessionInv, StorageOK, Creds, Stage
  <2>2. Sent("logout", storage) \in JobRow /\ JobOK("out", Sent("logout", storage), Len(rows))
    BY <2>1, SentIsRow DEF JobOK
  <2>3. JobsOK(job', Len(rows))
    BY <1>2, <2>2, DoKeeps, JobNames DEF Logout, SessionInv
  <2> QED
    BY <1>2, <2>3, TabStepKeeps DEF TabStep, Logout, SessionInv
<1> QED
  BY <1>1, <1>2

LEMMA LogoutReturnsStep ==
    ASSUME SessionInv, NEW t \in Tabs, LogoutReturns(t)
    PROVE  SessionInv'
BY SignOutKeeps, IdleKeeps, JobNames, TabStepKeeps DEF TabStep, LogoutReturns, SessionInv

-----------------------------------------------------------------------------
(* The server's steps.                                                     *)

\* The rows change, no job does but the one that is answered.
LEMMA ServerStepKeeps ==
    ASSUME SessionInv, RowsOK', Len(rows) <= Len(rows'),
           UNCHANGED <<storage, user, loading>>, JobsOK(job', Len(rows'))
    PROVE  SessionInv'
<1>1. Len(rows) \in Nat /\ Len(rows') \in Nat
  BY DEF SessionInv, RowsOK, TokensTypeOK
<1> QED
  BY <1>1, StorageMonotone DEF SessionInv

\* A step of the server that answers with a verdict.
LEMMA ServedStep ==
    ASSUME SessionInv, NEW t \in Tabs, NEW k \in Jobs, NEW res \in Answers,
           res = "ok" => job[t][k].at \notin {"refresh", "counted"},
           Answer(t, k, res), RowsOK', Len(rows') = Len(rows)
    PROVE  SessionInv'
<1>1. JobsOK(job', Len(rows))
  BY AnswerKeeps DEF SessionInv
<1> QED
  BY <1>1, JobFacts, ServerStepKeeps DEF Answer

\* A step of the server that issues a token.
LEMMA HandedStep ==
    ASSUME SessionInv, NEW t \in Tabs, NEW k \in Jobs, NEW u \in Users,
           Hand(t, k, u), RowsOK', Len(rows') = Len(rows) + 1
    PROVE  SessionInv'
<1>1. Len(rows) \in Nat
  BY JobFacts
<1>2. JobsOK(job, Len(rows'))
  BY <1>1, JobMonotone DEF SessionInv
<1>3. JobsOK(job', Len(rows'))
  BY <1>1, <1>2, HandKeeps
<1> QED
  BY <1>1, <1>3, ServerStepKeeps DEF Hand

LEMMA VerdictIsAnswer ==
    ASSUME SessionInv, NEW access \in AccessToken
    PROVE  Verdict(access) \in Answers /\ Verdict(access) # "ok"
<1>1. account[access.user] \in UserStatus \cup {"NONE"}
  BY DEF SessionInv, RowsOK, TokensTypeOK, AccessToken
<1> QED
  BY <1>1 DEF Verdict, Answers, MayAuthenticate, UserStatus

LEMMA SameRows ==
    ASSUME SessionInv, UNCHANGED serverVars
    PROVE  RowsOK' /\ Len(rows') = Len(rows)
BY AccountStep DEF serverVars, SessionInv, RowsOK, TokensTypeOK

LEMMA ServeGuardedStep ==
    ASSUME SessionInv, NEW t \in Tabs, NEW k \in {"load", "form"}, ServeGuarded(t, k)
    PROVE  SessionInv'
<1>1. k \in Jobs /\ job[t][k].cred \in AccessToken
  BY JobFacts, JobNames DEF ServeGuarded, JobOK
<1>2. Verdict(job[t][k].cred) \in Answers /\ Verdict(job[t][k].cred) # "ok"
  BY <1>1, VerdictIsAnswer
<1>3. Answer(t, k, Verdict(job[t][k].cred)) /\ UNCHANGED serverVars
  BY DEF ServeGuarded
<1> QED
  BY <1>1, <1>2, <1>3, SameRows, ServedStep

LEMMA ServeRefreshStep ==
    ASSUME SessionInv, NEW t \in Tabs, ServeRefresh(t)
    PROVE  SessionInv'
<1> DEFINE i == job[t]["flight"].cred
<1>1. i \in DOMAIN rows /\ RowsOK /\ account \in [Users -> UserStatus \cup {"NONE"}]
  BY JobFacts, JobNames DEF ServeRefresh, JobOK, SessionInv, RowsOK, TokensTypeOK
<1>2. "no" \in Answers /\ "no" # "ok"
  BY DEF Answers
<1>3. CASE Rotate(i) /\ Hand(t, "flight", rows[i].user)
  BY <1>1, <1>3, RotateStep, HandedStep, JobNames
<1>4. CASE ExpireToken(i) /\ Answer(t, "flight", "no")
  BY <1>1, <1>2, <1>4, ExpireStep, ServedStep, JobNames
<1>5. CASE Reuse(i) /\ Answer(t, "flight", "no")
  <2>1. RowsOK' /\ Len(rows') = Len(rows)
    BY <1>1, <1>5, RevokeStep DEF Reuse, Revokes
  <2> QED
    BY <2>1, <1>2, <1>5, ServedStep, JobNames
<1>6. CASE Answer(t, "flight", "no") /\ UNCHANGED serverVars
  BY <1>2, <1>6, SameRows, ServedStep, JobNames
<1> QED
  BY <1>3, <1>4, <1>5, <1>6 DEF ServeRefresh

LEMMA CountSessionsStep ==
    ASSUME SessionInv, NEW t \in Tabs, CountSessions(t)
    PROVE  SessionInv'
<1> DEFINE f == job[t]["form"]
           cred == [f.cred EXCEPT !.seen = ActiveOf(f.cred.user)]
<1>1. f.cred \in FormCred /\ UNCHANGED serverVars
  BY JobFacts, JobNames DEF CountSessions, JobOK
<1>2. CASE Answer(t, "form", "no")
  BY <1>1, <1>2, SameRows, ServedStep, JobNames DEF Answers
<1>3. CASE Do(t, "form", Sent("counted", cred)) /\ UNCHANGED <<storage, user, loading>>
  <2>1. cred \in FormCred
    BY <1>1 DEF FormCred, ActiveOf, SessionInv, RowsOK, TokensTypeOK
  <2> HIDE DEF cred
  <2>2. JobsOK(job', Len(rows))
    BY <2>1, <1>3, FormIsOK, DoKeeps, JobNames DEF SessionInv
  <2> QED
    BY <2>2, <1>1, <1>3, TabStepKeeps DEF TabStep, serverVars, SessionInv
<1> QED
  BY <1>2, <1>3 DEF CountSessions

LEMMA ServeFormStep ==
    ASSUME SessionInv, NEW t \in Tabs, ServeForm(t)
    PROVE  SessionInv'
<1> DEFINE f == job[t]["form"]
           u == f.cred.user
<1>1. f.at \in {"counted", "register", "verify"} /\ f.cred \in FormCred /\ u \in Users
  BY JobFacts, JobNames DEF ServeForm, JobOK, FormCred
<1>2. RowsOK /\ account \in [Users -> UserStatus \cup {"NONE"}] /\ "ok" \in Answers /\ "no" \in Answers
  BY DEF SessionInv, RowsOK, TokensTypeOK, Answers
<1>3. CASE CommitLogin(u, f.cred.seen) /\ Hand(t, "form", u)
  BY <1>1, <1>2, <1>3, LoginStep, HandedStep, JobNames
<1>4. CASE f.at \in {"register", "verify"} /\ (Register(u) \/ VerifyEmail(u)) /\ Answer(t, "form", "ok")
  <2>1. account' \in [Users -> UserStatus \cup {"NONE"}] /\ UNCHANGED rows
    BY <1>2, <1>4 DEF Register, VerifyEmail, UserStatus
  <2> QED
    BY <2>1, <1>2, <1>4, AccountStep, ServedStep, JobNames
<1>5. CASE Answer(t, "form", "no") /\ UNCHANGED serverVars
  BY <1>2, <1>5, SameRows, ServedStep, JobNames
<1> QED
  BY <1>3, <1>4, <1>5 DEF ServeForm

LEMMA ServeLogoutStep ==
    ASSUME SessionInv, NEW t \in Tabs, ServeLogout(t)
    PROVE  SessionInv'
<1> DEFINE pair == job[t]["out"].cred
<1>1. /\ RowsOK /\ account \in [Users -> UserStatus \cup {"NONE"}]
      /\ "ok" \in Answers /\ "no" \in Answers
      /\ job[t]["out"].at = "logout"
  BY DEF ServeLogout, SessionInv, RowsOK, TokensTypeOK, Answers
<1>2. CASE RevokeOne(pair.refresh) /\ Answer(t, "out", "ok")
  <2>1. RowsOK' /\ Len(rows') = Len(rows)
    BY <1>1, <1>2, RevokeStep DEF RevokeOne
  <2> QED
    BY <2>1, <1>1, <1>2, ServedStep, JobNames
<1>3. CASE Answer(t, "out", "no") /\ UNCHANGED serverVars
  BY <1>1, <1>3, SameRows, ServedStep, JobNames
<1> QED
  BY <1>2, <1>3 DEF ServeLogout

LEMMA ServeStep ==
    ASSUME SessionInv, NEW t \in Tabs, NEW k \in Jobs, Serve(t, k)
    PROVE  SessionInv'
BY ServeGuardedStep, ServeRefreshStep, CountSessionsStep, ServeFormStep, ServeLogoutStep DEF Serve

LEMMA LoseStep ==
    ASSUME SessionInv, NEW t \in Tabs, NEW k \in Jobs, Lose(t, k)
    PROVE  SessionInv'
BY SameRows, ServedStep DEF Lose, Answers

LEMMA AccessExpiresStep ==
    ASSUME SessionInv, AccessExpires
    PROVE  SessionInv'
<1>1. storage \in Pair /\ storage.refresh \in 1..Len(rows)
  BY DEF AccessExpires, SessionInv, StorageOK
<1>2. storage' \in Pair /\ storage'.refresh = storage.refresh
  BY <1>1 DEF AccessExpires, Pair, AccessToken
<1> QED
  BY <1>1, <1>2, TabStepKeeps DEF TabStep, AccessExpires, StorageOK, SessionInv

LEMMA AdminStepStep ==
    ASSUME SessionInv, AdminStep
    PROVE  SessionInv'
<1>1. PICK u \in Users : Suspend(u) \/ Reactivate(u)
  BY DEF AdminStep
<1>2. account' \in [Users -> UserStatus \cup {"NONE"}]
  BY <1>1 DEF Suspend, Reactivate, SessionInv, RowsOK, TokensTypeOK, UserStatus
<1>3. RowsOK' /\ Len(rows') = Len(rows)
  <2>1. CASE Suspend(u)
    BY <2>1, <1>2, RevokeStep DEF Suspend, Revokes, SessionInv
  <2>2. CASE Reactivate(u)
    BY <2>2, <1>2, AccountStep DEF Reactivate, SessionInv
  <2> QED
    BY <1>1, <2>1, <2>2
<1> QED
  BY <1>3, JobFacts, ServerStepKeeps DEF AdminStep, tabVars, SessionInv, RowsOK, TokensTypeOK

-----------------------------------------------------------------------------
(* The theorems.                                                           *)

LEMMA InitHolds ==
    ASSUME Init
    PROVE  SessionInv
<1>1. RowsOK
  BY TokensAssumption DEF Init, TokensInit, RowsOK, TokensTypeOK, OneActivePerFamily
<1>2. JobsOK(job, Len(rows))
  BY IdleIsRow DEF Init, JobsOK
<1> QED
  BY <1>1, <1>2, EmptyIsOK DEF Init, SessionInv

LEMMA NextKeeps ==
    ASSUME SessionInv, [Next]_vars
    PROVE  SessionInv'
<1>1. CASE UNCHANGED vars
  BY <1>1, TabStepKeeps DEF vars, TabStep, SessionInv
<1>2. ASSUME NEW t \in Tabs, Mount(t) \/ ReloadUser(t) \/ Call(t) \/ Logout(t) \/ Returns(t)
      PROVE  SessionInv'
  BY <1>2, MountStep, ReloadUserStep, CallStep, LogoutStep, LoadReturnsStep, FlightReturnsStep,
     CallReturnsStep, FormReturnsStep, LogoutReturnsStep DEF Returns
<1>3. ASSUME NEW t \in Tabs, NEW u \in Users, NEW raw \in BOOLEAN,
             SubmitLogin(t, u) \/ SubmitRegister(t, u) \/ SubmitCode(t, u, raw)
      PROVE  SessionInv'
  BY <1>3, SubmitStep DEF SubmitLogin, SubmitRegister, SubmitCode
<1>4. ASSUME NEW t \in Tabs, NEW k \in Jobs, Serve(t, k) \/ Lose(t, k)
      PROVE  SessionInv'
  BY <1>4, ServeStep, LoseStep
<1>5. CASE AccessExpires \/ AdminStep
  BY <1>5, AccessExpiresStep, AdminStepStep
<1> QED
  BY <1>1, <1>2, <1>3, <1>4, <1>5 DEF Next

(* Every refresh token that a tab holds or presents was issued by the      *)
(* server (auth/AuthContext.jsx), and no login chain has two tokens that   *)
(* work (api/v1/auth.py): the inductive invariant.                         *)
THEOREM TokensTracked == Spec => []SessionInv
<1>1. Init => SessionInv
  BY InitHolds
<1>2. SessionInv /\ [Next]_vars => SessionInv'
  BY NextKeeps
<1> QED
  BY <1>1, <1>2, PTL DEF Spec

(* Accounts, tokens, the storage of the browser and the jobs of its tabs   *)
(* stay well typed (identity/models.py, auth/auth.js).                     *)
THEOREM TypeCorrect == Spec => []SessionTypeOK
<1>1. SessionInv => SessionTypeOK
  BY DEF SessionInv, RowsOK, StorageOK, JobsOK, JobRow, SessionTypeOK
<1> QED
  BY <1>1, TokensTracked, PTL

(* A login chain has at most one token that works, for any number of tabs, *)
(* accounts and tokens (POST /auth/refresh in api/v1/auth.py).             *)
THEOREM ChainCorrect == Spec => []OneActivePerFamily
<1>1. SessionInv => OneActivePerFamily
  BY DEF SessionInv, RowsOK
<1> QED
  BY <1>1, TokensTracked, PTL

-----------------------------------------------------------------------------
(* Nobody waits in vain.                                                   *)

StageFits(k, at) ==
    /\ k = "load" => at \in {"idle", "me", "again", "wait"}
    /\ k = "call" => at \in {"idle", "call", "retry", "wait"}
    /\ k = "flight" => at \in {"idle", "refresh"}
    /\ k = "out" => at \in {"idle", "logout"}
    /\ k = "form" => at \in {"idle", "login", "counted", "register", "verify", "me"}

\* A tab with jobs j: it says that it loads (l) while it does, and who waits, waits for a refresh
\* that is under way.
AttendedIn(l, j) ==
    /\ l <=> j["load"].at # "idle"
    /\ \A k \in Jobs :
          /\ StageFits(k, j[k].at)
          /\ j[k].at = "idle" => j[k] = Idle
          /\ j[k].at = "wait" => j[k] = Waiting /\ j["flight"].at = "refresh"

Attended == \A t \in Tabs : AttendedIn(loading[t], job[t])

LEMMA OneTab ==
    ASSUME Attended, NEW t \in Tabs,
           \A v \in Tabs \ {t} : job'[v] = job[v] /\ loading'[v] = loading[v],
           AttendedIn(loading'[t], job'[t])
    PROVE  Attended'
BY DEF Attended

\* One job goes on, and does not begin to wait.
LEMMA GoesOn ==
    ASSUME SessionInv, Attended, NEW t \in Tabs, NEW k \in Jobs, NEW next, Do(t, k, next),
           StageFits(k, next.at), next.at = "idle" => next = Idle, next.at # "wait",
           k = "flight" => next.at = "refresh",
           \A v \in Tabs \ {t} : loading'[v] = loading[v],
           loading'[t] <=> (IF k = "load" THEN next.at # "idle" ELSE loading[t])
    PROVE  Attended'
<1>1. /\ job'[t][k] = next
      /\ \A l \in Jobs \ {k} : job'[t][l] = job[t][l]
      /\ \A v \in Tabs \ {t} : job'[v] = job[v]
  BY DEF Do, SessionInv, JobsOK
<1>2. AttendedIn(loading[t], job[t])
  BY DEF Attended
<1>3. AttendedIn(loading'[t], job'[t])
  BY <1>1, <1>2, JobNames DEF AttendedIn
<1> QED
  BY <1>1, <1>3, OneTab

\* An answer arrives.
LEMMA Arrives ==
    ASSUME SessionInv, Attended, NEW t \in Tabs, NEW k \in Jobs, NEW res, NEW got,
           job[t][k].at \notin {"idle", "wait"}, UNCHANGED loading,
           Do(t, k, [job[t][k] EXCEPT !.res = res, !.got = got])
    PROVE  Attended'
<1> DEFINE next == [job[t][k] EXCEPT !.res = res, !.got = got]
<1>1. next.at = job[t][k].at
  BY JobFacts DEF JobRow
<1>2. AttendedIn(loading[t], job[t])
  BY DEF Attended
<1> HIDE DEF next
<1>3. Do(t, k, next)
  BY DEF next
<1> QED
  BY <1>1, <1>2, <1>3, GoesOn DEF AttendedIn, StageFits

LEMMA AnswerArrives ==
    ASSUME SessionInv, Attended, NEW t \in Tabs, NEW k \in Jobs, NEW res,
           job[t][k].at \notin {"idle", "wait"}, Answer(t, k, res)
    PROVE  Attended'
<1>1. job[t][k] \in JobRow /\ job \in [Tabs -> [Jobs -> JobRow]]
  BY JobFacts DEF SessionInv, JobsOK
<1>2. Do(t, k, [job[t][k] EXCEPT !.res = res, !.got = job[t][k].got])
  BY <1>1 DEF Answer, Do, JobRow
<1> QED
  BY <1>2, Arrives DEF Answer

LEMMA PairArrives ==
    ASSUME SessionInv, Attended, NEW t \in Tabs, NEW k \in Jobs, NEW u,
           job[t][k].at \notin {"idle", "wait"}, Hand(t, k, u)
    PROVE  Attended'
<1> DEFINE pair == [access |-> [user |-> u, live |-> TRUE], refresh |-> Len(rows')]
<1>1. Do(t, k, [job[t][k] EXCEPT !.res = "ok", !.got = pair])
  BY DEF Hand, Do, SessionInv, JobsOK
<1> QED
  BY <1>1, Arrives DEF Hand

\* The job ends.
LEMMA Ends ==
    ASSUME SessionInv, Attended, NEW t \in Tabs, NEW k \in {"load", "form", "call", "out"},
           Do(t, k, Idle), IF k = "load" THEN Loaded(t) ELSE UNCHANGED loading
    PROVE  Attended'
<1>1. k \in Jobs /\ k # "flight" /\ Idle.at = "idle" /\ StageFits(k, "idle")
  BY DEF Jobs, Idle, StageFits
<1>2. \A v \in Tabs \ {t} : loading'[v] = loading[v]
  BY DEF Loaded, SessionInv
<1>3. loading'[t] <=> (IF k = "load" THEN FALSE ELSE loading[t])
  BY DEF Loaded, SessionInv
<1> HIDE DEF Idle
<1> QED
  BY <1>1, <1>2, <1>3, GoesOn

\* The job sends its next request.
LEMMA Sends ==
    ASSUME SessionInv, Attended, NEW t \in Tabs, NEW k \in {"form", "call", "out"}, NEW at, NEW cred,
           Do(t, k, Sent(at, cred)), StageFits(k, at), at \notin {"idle", "wait"}, UNCHANGED loading
    PROVE  Attended'
<1>1. k \in Jobs /\ Sent(at, cred).at = at
  BY DEF Jobs, Sent
<1> HIDE DEF Sent
<1> QED
  BY <1>1, GoesOn

LEMMA Joins ==
    ASSUME SessionInv, Attended, NEW t \in Tabs, NEW k \in {"load", "call"}, JoinFlight(t, k),
           k = "load" => job[t]["load"].at = "me", UNCHANGED loading
    PROVE  Attended'
<1> DEFINE flight == IF job[t]["flight"] = Idle THEN Sent("refresh", storage.refresh)
                     ELSE job[t]["flight"]
<1>1. /\ job'[t][k] = Waiting /\ job'[t]["flight"] = flight
      /\ \A l \in Jobs \ {k, "flight"} : job'[t][l] = job[t][l]
      /\ \A v \in Tabs \ {t} : job'[v] = job[v]
  BY JobNames DEF JoinFlight, SessionInv, JobsOK
<1>2. AttendedIn(loading[t], job[t])
  BY DEF Attended
<1>3. flight.at = "refresh"
  BY <1>2, JobNames DEF AttendedIn, StageFits, Sent, Idle
<1>4. Waiting.at = "wait"
  BY DEF Waiting, Sent
<1> HIDE DEF flight, Waiting
<1>5. AttendedIn(loading[t], job'[t])
  BY <1>1, <1>2, <1>3, <1>4, JobNames DEF AttendedIn, StageFits
<1> QED
  BY <1>1, <1>5, OneTab

LEMMA FlightAttended ==
    ASSUME SessionInv, Attended, NEW t \in Tabs, FlightReturns(t)
    PROVE  Attended'
<1> DEFINE won == job[t]["flight"].res = "ok"
           access == job[t]["flight"].got.access
           l == loading[t] /\ ~(~won /\ job[t]["load"] = Waiting)
<1>1. /\ \A k \in Jobs : job'[t][k] =
             IF k = "flight" \/ (job[t][k] = Waiting /\ ~won) THEN Idle
             ELSE IF job[t][k] = Waiting THEN Sent(IF k = "load" THEN "again" ELSE "retry", access)
             ELSE job[t][k]
      /\ \A v \in Tabs \ {t} : job'[v] = job[v] /\ loading'[v] = loading[v]
      /\ loading'[t] = l
  BY DEF FlightReturns, SessionInv, JobsOK
<1>2. AttendedIn(loading[t], job[t])
  BY DEF Attended
<1>3. /\ Waiting.at = "wait" /\ Idle.at = "idle"
      /\ Sent("again", access).at = "again" /\ Sent("retry", access).at = "retry"
  BY DEF Waiting, Sent, Idle
<1> HIDE DEF won, access, Waiting, Idle, Sent
<1>4. job'[t]["load"].at # "idle" <=> l
  BY <1>1, <1>2, <1>3, JobNames DEF AttendedIn
<1>5. ASSUME NEW k \in Jobs
      PROVE  /\ StageFits(k, job'[t][k].at)
             /\ job'[t][k].at = "idle" => job'[t][k] = Idle
             /\ job'[t][k].at # "wait"
  <2>1. k = "flight" \/ k \in Jobs \ {"flight"}
    OBVIOUS
  <2>2. StageFits(k, job[t][k].at) /\ StageFits(k, "idle")
    BY <1>2 DEF AttendedIn, StageFits
  <2>3. job[t][k] = Waiting => k \in {"load", "call"}
    BY <1>3, <2>2 DEF StageFits, Jobs
  <2> QED BY <1>1, <1>2, <1>3, <2>2, <2>3 DEF AttendedIn, StageFits
<1>6. AttendedIn(loading'[t], job'[t])
  BY <1>1, <1>4, <1>5 DEF AttendedIn
<1> QED
  BY <1>1, <1>6, OneTab

LEMMA StartAttended ==
    ASSUME SessionInv, Attended, NEW t \in Tabs, NEW kept \in [Jobs -> JobRow],
           AttendedIn(FALSE, kept), NEW who, StartLoad(t, kept, who)
    PROVE  Attended'
<1> DEFINE me == Sent("me", storage.access)
<1>1. /\ \A v \in Tabs \ {t} : job'[v] = job[v] /\ loading'[v] = loading[v]
      /\ loading'[t] = (storage # Empty)
      /\ job'[t] = IF storage = Empty THEN kept ELSE [kept EXCEPT !["load"] = me]
  BY DEF StartLoad, SessionInv, JobsOK
<1>2. me.at = "me"
  BY DEF Sent
<1> HIDE DEF me
<1>3. CASE storage = Empty
  BY <1>1, <1>3, OneTab
<1>4. CASE storage # Empty
  <2>1. job'[t]["load"] = me /\ \A k \in Jobs \ {"load"} : job'[t][k] = kept[k]
    BY <1>1, <1>4, JobNames
  <2>2. AttendedIn(TRUE, job'[t])
    BY <1>2, <2>1, JobNames DEF AttendedIn, StageFits
  <2> QED BY <1>1, <1>4, <2>2, OneTab
<1> QED
  BY <1>3, <1>4

LEMMA TabAttended ==
    ASSUME SessionInv, Attended, NEW t \in Tabs, Mount(t) \/ ReloadUser(t) \/ Call(t) \/ Logout(t)
    PROVE  Attended'
<1>1. CASE Mount(t)
  <2>1. [k \in Jobs |-> Idle] \in [Jobs -> JobRow]
    BY IdleIsRow
  <2>2. AttendedIn(FALSE, [k \in Jobs |-> Idle])
    BY JobNames DEF AttendedIn, StageFits, Idle
  <2> QED BY <1>1, <2>1, <2>2, StartAttended DEF Mount
<1>2. CASE ReloadUser(t)
  <2>1. AttendedIn(loading[t], job[t]) /\ job[t] \in [Jobs -> JobRow] /\ ~loading[t]
    BY <1>2 DEF Attended, SessionInv, JobsOK, ReloadUser, StartLoad
  <2>2. AttendedIn(FALSE, job[t])
    BY <2>1 DEF AttendedIn
  <2> QED BY <1>2, <2>1, <2>2, StartAttended DEF ReloadUser
<1>3. CASE Call(t)
  BY <1>3, Sends DEF Call, StageFits
<1>4. CASE Logout(t)
  <2>1. CASE UNCHANGED job
    BY <1>4, <2>1 DEF Logout, Attended
  <2>2. CASE Do(t, "out", Sent("logout", storage))
    BY <1>4, <2>2, Sends DEF Logout, StageFits
  <2> QED BY <1>4, <2>1, <2>2 DEF Logout
<1> QED
  BY <1>1, <1>2, <1>3, <1>4

LEMMA ReturnAttended ==
    ASSUME SessionInv, Attended, NEW t \in Tabs, Returns(t)
    PROVE  Attended'
<1>1. CASE LoadReturns(t)
  <2>1. CASE Loaded(t) /\ Do(t, "load", Idle)
    BY <2>1, Ends
  <2>2. CASE job[t]["load"].at = "me" /\ JoinFlight(t, "load") /\ UNCHANGED loading
    BY <2>2, Joins
  <2> QED BY <1>1, <2>1, <2>2 DEF LoadReturns
<1>2. CASE FlightReturns(t)
  BY <1>2, FlightAttended
<1>3. CASE CallReturns(t)
  BY <1>3, Joins, Ends DEF CallReturns
<1>4. CASE FormReturns(t)
  <2>1. CASE Do(t, "form", Idle)
    BY <1>4, <2>1, Ends DEF FormReturns
  <2>2. ASSUME NEW at \in {"me", "login"}, NEW cred, Do(t, "form", Sent(at, cred))
        PROVE  Attended'
    BY <1>4, <2>2, Sends DEF FormReturns, StageFits
  <2> QED BY <1>4, <2>1, <2>2 DEF FormReturns
<1>5. CASE LogoutReturns(t)
  BY <1>5, Ends DEF LogoutReturns
<1> QED
  BY <1>1, <1>2, <1>3, <1>4, <1>5 DEF Returns

LEMMA SubmitAttended ==
    ASSUME SessionInv, Attended, NEW t \in Tabs, NEW at \in {"login", "register", "verify"},
           NEW u, NEW raw, Submit(t, at, u, raw)
    PROVE  Attended'
BY Sends DEF Submit, StageFits

LEMMA ServeAttended ==
    ASSUME SessionInv, Attended, NEW t \in Tabs, NEW k \in Jobs, Serve(t, k)
    PROVE  Attended'
<1>1. CASE ServeGuarded(t, k)
  BY <1>1, AnswerArrives DEF ServeGuarded
<1>2. CASE ServeRefresh(t)
  BY <1>2, AnswerArrives, PairArrives, JobNames DEF ServeRefresh
<1>3. CASE CountSessions(t)
  <2>1. CASE Answer(t, "form", "no")
    BY <1>3, <2>1, AnswerArrives, JobNames DEF CountSessions
  <2>2. ASSUME NEW cred, Do(t, "form", Sent("counted", cred)), UNCHANGED loading
        PROVE  Attended'
    BY <2>2, Sends DEF StageFits
  <2> QED BY <1>3, <2>1, <2>2 DEF CountSessions
<1>4. CASE ServeForm(t)
  BY <1>4, AnswerArrives, PairArrives, JobNames DEF ServeForm
<1>5. CASE ServeLogout(t)
  BY <1>5, AnswerArrives, JobNames DEF ServeLogout
<1> QED
  BY <1>1, <1>2, <1>3, <1>4, <1>5 DEF Serve

LEMMA NextAttended ==
    ASSUME SessionInv, Attended, [Next]_vars
    PROVE  Attended'
<1>1. CASE UNCHANGED <<loading, job>>
  BY <1>1 DEF Attended
<1>2. ASSUME NEW t \in Tabs, Mount(t) \/ ReloadUser(t) \/ Call(t) \/ Logout(t) \/ Returns(t)
      PROVE  Attended'
  BY <1>2, TabAttended, ReturnAttended
<1>3. ASSUME NEW t \in Tabs, NEW u \in Users, NEW raw \in BOOLEAN,
             SubmitLogin(t, u) \/ SubmitRegister(t, u) \/ SubmitCode(t, u, raw)
      PROVE  Attended'
  BY <1>3, SubmitAttended DEF SubmitLogin, SubmitRegister, SubmitCode
<1>4. ASSUME NEW t \in Tabs, NEW k \in Jobs, Serve(t, k) \/ Lose(t, k)
      PROVE  Attended'
  BY <1>4, ServeAttended, AnswerArrives DEF Lose
<1> QED
  BY <1>1, <1>2, <1>3, <1>4 DEF Next, AccessExpires, AdminStep, tabVars, vars

LEMMA AttendedAlways == Spec => []Attended
<1>1. Init => Attended
  BY JobNames DEF Init, Attended, AttendedIn, StageFits, Idle
<1>2. SessionInv /\ Attended /\ [Next]_vars => Attended'
  BY NextAttended
<1> QED
  BY <1>1, <1>2, TokensTracked, PTL DEF Spec

(* A tab shows that it loads exactly while the profile is on its way, and  *)
(* whatever waits in it waits for a refresh that is under way: what a reload*)
(* or a lost answer could strand (auth/auth.js, auth/AuthContext.jsx).     *)
THEOREM NobodyWaitsInVain ==
    Spec => [](\A t \in Tabs :
                  /\ loading[t] <=> job[t]["load"] # Idle
                  /\ \A k \in Jobs : job[t][k] = Waiting => job[t]["flight"] # Idle)
<1>1. Attended => \A t \in Tabs :
                     /\ loading[t] <=> job[t]["load"] # Idle
                     /\ \A k \in Jobs : job[t][k] = Waiting => job[t]["flight"] # Idle
  BY JobNames DEF Attended, AttendedIn, Waiting, Sent, Idle
<1> QED
  BY <1>1, AttendedAlways, PTL

-----------------------------------------------------------------------------
(* No loops.                                                               *)

\* Who begins to wait for a refresh, waits for its first.
FirstWait ==
    \A t \in Tabs, k \in {"load", "call"} :
        job'[t][k].at = "wait" => job[t][k].at \in {"me", "call", "wait"}

LEMMA DoNoWait ==
    ASSUME SessionInv, NEW t \in Tabs, NEW k \in Jobs, NEW next, Do(t, k, next), next.at # "wait"
    PROVE  FirstWait
BY JobNames DEF FirstWait, Do, SessionInv, JobsOK

LEMMA SentNoWait ==
    ASSUME SessionInv, NEW t \in Tabs, NEW k \in Jobs, NEW at, NEW cred,
           Do(t, k, Sent(at, cred)), at # "wait"
    PROVE  FirstWait
<1>1. Sent(at, cred).at = at
  BY DEF Sent
<1> QED
  BY <1>1, DoNoWait

LEMMA IdleNoWait ==
    ASSUME SessionInv, NEW t \in Tabs, NEW k \in Jobs, Do(t, k, Idle)
    PROVE  FirstWait
BY DoNoWait DEF Idle

LEMMA KeepsStage ==
    ASSUME SessionInv, NEW t \in Tabs, NEW k \in Jobs, NEW next, Do(t, k, next),
           next.at = job[t][k].at
    PROVE  FirstWait
BY JobNames DEF FirstWait, Do, SessionInv, JobsOK

LEMMA AnswerNoWait ==
    ASSUME SessionInv, NEW t \in Tabs, NEW k \in Jobs, NEW res, NEW u,
           Answer(t, k, res) \/ Hand(t, k, u)
    PROVE  FirstWait
<1>1. job[t][k] \in JobRow
  BY JobFacts
<1>2. CASE Answer(t, k, res)
  <2>1. Do(t, k, [job[t][k] EXCEPT !.res = res])
    BY <1>2 DEF Answer, Do
  <2> QED BY <1>1, <2>1, KeepsStage DEF JobRow
<1>3. CASE Hand(t, k, u)
  <2> DEFINE pair == [access |-> [user |-> u, live |-> TRUE], refresh |-> Len(rows')]
             next == [job[t][k] EXCEPT !.res = "ok", !.got = pair]
  <2>1. job' = [job EXCEPT ![t][k] = next]
    BY <1>3 DEF Hand, SessionInv, JobsOK
  <2>2. next.at = job[t][k].at
    BY <1>1 DEF JobRow
  <2> HIDE DEF next
  <2> QED BY <2>1, <2>2, KeepsStage DEF Do
<1> QED
  BY <1>2, <1>3

LEMMA JoinFirstWait ==
    ASSUME SessionInv, NEW t \in Tabs, NEW k \in {"load", "call"}, JoinFlight(t, k),
           job[t][k].at \in {"me", "call"}
    PROVE  FirstWait
<1>1. /\ \A l \in Jobs \ {k, "flight"} : job'[t][l] = job[t][l]
      /\ \A v \in Tabs \ {t} : job'[v] = job[v]
  BY JobNames DEF JoinFlight, SessionInv, JobsOK
<1> QED
  BY <1>1, JobNames DEF FirstWait

LEMMA FlightNoWait ==
    ASSUME SessionInv, NEW t \in Tabs, FlightReturns(t)
    PROVE  FirstWait
<1> DEFINE access == job[t]["flight"].got.access
<1>1. /\ \A k \in Jobs : job'[t][k] \in {Idle, Sent("again", access), Sent("retry", access), job[t][k]}
      /\ \A v \in Tabs \ {t} : job'[v] = job[v]
  BY DEF FlightReturns, SessionInv, JobsOK
<1>2. Idle.at = "idle" /\ Sent("again", access).at = "again" /\ Sent("retry", access).at = "retry"
  BY DEF Sent, Idle
<1> HIDE DEF access, Sent, Idle
<1> QED
  BY <1>1, <1>2, JobNames DEF FirstWait

LEMMA StartNoWait ==
    ASSUME SessionInv, NEW t \in Tabs, NEW kept \in [Jobs -> JobRow], NEW who, StartLoad(t, kept, who),
           \A k \in Jobs : kept[k] \in {Idle, job[t][k]}
    PROVE  FirstWait
<1>1. Sent("me", storage.access).at = "me" /\ Idle.at = "idle"
  BY DEF Sent, Idle
<1>2. /\ \A v \in Tabs \ {t} : job'[v] = job[v]
      /\ \A k \in Jobs : job'[t][k] \in {kept[k], Sent("me", storage.access)}
  BY DEF StartLoad, SessionInv, JobsOK
<1> HIDE DEF Sent, Idle
<1> QED
  BY <1>1, <1>2, JobNames DEF FirstWait

LEMMA TabNoLoop ==
    ASSUME SessionInv, NEW t \in Tabs,
           Mount(t) \/ ReloadUser(t) \/ Call(t) \/ Logout(t) \/ Returns(t)
    PROVE  FirstWait
<1>1. CASE Mount(t)
  <2>1. [k \in Jobs |-> Idle] \in [Jobs -> JobRow]
    BY IdleIsRow
  <2> QED BY <1>1, <2>1, StartNoWait DEF Mount
<1>2. CASE ReloadUser(t)
  BY <1>2, StartNoWait DEF ReloadUser, SessionInv, JobsOK
<1>3. CASE Call(t)
  BY <1>3, SentNoWait, JobNames DEF Call
<1>4. CASE Logout(t)
  BY <1>4, SentNoWait, JobNames DEF Logout, FirstWait
<1>5. CASE LoadReturns(t)
  BY <1>5, IdleNoWait, JoinFirstWait, JobNames DEF LoadReturns
<1>6. CASE FlightReturns(t)
  BY <1>6, FlightNoWait
<1>7. CASE CallReturns(t)
  BY <1>7, IdleNoWait, JoinFirstWait, JobNames DEF CallReturns, RefreshesAt
<1>8. CASE FormReturns(t)
  <2>1. CASE Do(t, "form", Idle)
    BY <2>1, IdleNoWait, JobNames
  <2>2. ASSUME NEW at \in {"me", "login"}, NEW cred, Do(t, "form", Sent(at, cred))
        PROVE  FirstWait
    BY <2>2, SentNoWait, JobNames
  <2> QED BY <1>8, <2>1, <2>2 DEF FormReturns
<1>9. CASE LogoutReturns(t)
  BY <1>9, IdleNoWait, JobNames DEF LogoutReturns
<1> QED
  BY <1>1, <1>2, <1>3, <1>4, <1>5, <1>6, <1>7, <1>8, <1>9 DEF Returns

LEMMA ServedNoLoop ==
    ASSUME SessionInv, NEW t \in Tabs, NEW k \in Jobs, Serve(t, k) \/ Lose(t, k)
    PROVE  FirstWait
<1>1. CASE \E res, u, l \in Jobs : Answer(t, l, res) \/ Hand(t, l, u)
  BY <1>1, AnswerNoWait
<1>2. ASSUME NEW cred, Do(t, "form", Sent("counted", cred))
      PROVE  FirstWait
  BY <1>2, SentNoWait, JobNames
<1> QED
  BY <1>1, <1>2, AnswerNoWait, JobNames DEF Serve, Lose, ServeGuarded, ServeRefresh, CountSessions,
     ServeForm, ServeLogout

(* "One refresh + one retry, then give up (no loops)" (auth/auth.js): the  *)
(* second try of a call, or of the profile, is never followed by a refresh.*)
THEOREM NoLoops ==
    Spec => [][\A t \in Tabs :
                  /\ job[t]["call"].at = "retry" => job'[t]["call"].at # "wait"
                  /\ job[t]["load"].at = "again" => job'[t]["load"].at # "wait"]_vars
<1>1. ASSUME SessionInv, [Next]_vars
      PROVE  FirstWait
  <2>1. CASE UNCHANGED job
    BY <2>1 DEF FirstWait
  <2>2. ASSUME NEW t \in Tabs, NEW u \in Users, NEW raw \in BOOLEAN,
               SubmitLogin(t, u) \/ SubmitRegister(t, u) \/ SubmitCode(t, u, raw)
        PROVE  FirstWait
    BY <1>1, <2>2, SentNoWait, JobNames DEF SubmitLogin, SubmitRegister, SubmitCode, Submit
  <2> QED BY <1>1, <2>1, <2>2, TabNoLoop, ServedNoLoop DEF Next, AccessExpires, AdminStep, tabVars, vars
<1>2. SessionInv /\ [Next]_vars =>
        [\A t \in Tabs :
            /\ job[t]["call"].at = "retry" => job'[t]["call"].at # "wait"
            /\ job[t]["load"].at = "again" => job'[t]["load"].at # "wait"]_vars
  BY <1>1 DEF FirstWait
<1> QED
  BY <1>2, TokensTracked, PTL DEF Spec

-----------------------------------------------------------------------------
(* Rotations and the session cap.                                          *)

\* This step was a rotation for u: the new token continues a login chain.
RotatesFor(u) ==
    /\ Len(rows') = Len(rows) + 1
    /\ rows'[Len(rows')].user = u
    /\ rows'[Len(rows')].family <= Len(rows)

LEMMA ActiveFinite ==
    ASSUME RowsOK, NEW u
    PROVE  IsFiniteSet(ActiveOf(u)) /\ Cardinality(ActiveOf(u)) \in Nat
<1>1. DOMAIN rows = 1..Len(rows) /\ Len(rows) \in Nat
  BY DEF RowsOK, TokensTypeOK
<1>2. ActiveOf(u) \subseteq 1..Len(rows) /\ IsFiniteSet(1..Len(rows))
  BY <1>1, FS_Interval DEF ActiveOf
<1> QED
  BY <1>2, FS_Subset, FS_CardinalityType

\* Below the cap there is nothing to end.
LEMMA NoExcess ==
    ASSUME NEW S, IsFiniteSet(S), Cardinality(S) < MaxSessions
    PROVE  Excess(S) = {}
<1>1. Cardinality(S) \in Nat
  BY FS_CardinalityType
<1>2. ASSUME NEW i
      PROVE  Cardinality(Older(S, i)) \in Nat
  BY FS_Subset, FS_CardinalityType DEF Older
<1> QED
  BY <1>1, <1>2, TokensAssumption DEF Excess

\* A rotation puts one token in the place of another, and may end more.
LEMMA RotateActive ==
    ASSUME RowsOK, NEW i \in DOMAIN rows, Rotate(i), NEW u, u = rows[i].user
    PROVE  /\ i \in ActiveOf(u) /\ Len(rows) + 1 \notin ActiveOf(u)
           /\ ActiveOf(u)' = (ActiveOf(u) \ Spent(i)) \cup {Len(rows) + 1}
<1>1. /\ Len(rows) \in Nat /\ DOMAIN rows = 1..Len(rows) /\ rows \in Seq(TokenRow)
      /\ \A k \in DOMAIN rows : rows[k] \in TokenRow
  BY DEF RowsOK, TokensTypeOK
<1> DEFINE kept == Revoked(Spent(i))
           new == [user |-> u, family |-> rows[i].family, status |-> "ACTIVE"]
<1>2. /\ kept \in Seq(TokenRow) /\ Len(kept) = Len(rows)
      /\ \A k \in DOMAIN rows : kept[k].status = IF k \in Spent(i) THEN "REVOKED" ELSE rows[k].status
  BY <1>1, RevokedKeeps
<1>3. \A k \in DOMAIN rows : kept[k].user = rows[k].user
  BY <1>1 DEF Revoked, TokenRow
<1>4. rows' = Append(kept, new)
  BY DEF Rotate, Issue
<1>5. new \in TokenRow /\ new.user = u /\ new.status = "ACTIVE"
  BY <1>1 DEF TokenRow, TokenStatus
<1> HIDE DEF kept, new
<1>6. /\ DOMAIN rows' = 1..(Len(rows) + 1)
      /\ \A k \in 1..Len(rows) : rows'[k] = kept[k]
      /\ rows'[Len(rows) + 1] = new
  BY <1>1, <1>2, <1>4, <1>5
<1>7. ActiveOf(u)' = {k \in 1..(Len(rows) + 1) : rows'[k].user = u /\ rows'[k].status = "ACTIVE"}
  BY <1>6 DEF ActiveOf
<1>8. ASSUME NEW k \in 1..Len(rows)
      PROVE  k \in ActiveOf(u)' <=> k \in ActiveOf(u) \ Spent(i)
  BY <1>1, <1>2, <1>3, <1>6, <1>7 DEF ActiveOf
<1>9. Len(rows) + 1 \in ActiveOf(u)'
  BY <1>1, <1>5, <1>6, <1>7
<1>10. ActiveOf(u) \subseteq 1..Len(rows) /\ i \in ActiveOf(u)
  BY <1>1 DEF ActiveOf, Rotate
<1> QED
  BY <1>1, <1>7, <1>8, <1>9, <1>10

LEMMA RotateCounts ==
    ASSUME RowsOK, NEW i \in DOMAIN rows, Rotate(i), NEW u, u = rows[i].user
    PROVE  /\ Cardinality(ActiveOf(u)') <= Cardinality(ActiveOf(u))
           /\ Cardinality(ActiveOf(u)) < MaxSessions => Cardinality(ActiveOf(u)') = Cardinality(ActiveOf(u))
<1> DEFINE A == ActiveOf(u)
           n == Len(rows) + 1
           B == (A \ {i}) \cup {n}
<1>1. IsFiniteSet(A) /\ Cardinality(A) \in Nat
  BY ActiveFinite
<1>2. i \in A /\ n \notin A /\ ActiveOf(u)' = (A \ Spent(i)) \cup {n}
  BY RotateActive
<1>3. Spent(i) = {i} \cup Excess(A)
  BY DEF Spent
<1> HIDE DEF A, n
<1>4. IsFiniteSet(A \ {i}) /\ Cardinality(A \ {i}) = Cardinality(A) - 1
  BY <1>1, <1>2, FS_RemoveElement
<1>5. IsFiniteSet(B) /\ Cardinality(B) = Cardinality(A)
  <2> DEFINE rest == A \ {i}
  <2>1. n \notin rest /\ IsFiniteSet(rest) /\ Cardinality(rest) = Cardinality(A) - 1
    BY <1>2, <1>4
  <2> HIDE DEF rest
  <2>2. IsFiniteSet(rest \cup {n}) /\ Cardinality(rest \cup {n}) = Cardinality(rest) + 1
    BY <2>1, FS_AddElement
  <2> QED
    BY <1>1, <2>1, <2>2 DEF rest
<1>6. ActiveOf(u)' \subseteq B
  BY <1>2, <1>3
<1>7. Cardinality(ActiveOf(u)') <= Cardinality(A)
  BY <1>5, <1>6, FS_Subset
<1>8. Cardinality(A) < MaxSessions => ActiveOf(u)' = B
  BY <1>1, <1>2, <1>3, NoExcess
<1> QED
  BY <1>5, <1>7, <1>8 DEF A

\* Only a rotation adds a token to a chain that exists.
LEMMA RotationIsRotate ==
    ASSUME SessionInv, [Next]_vars, NEW u \in Users, RotatesFor(u)
    PROVE  \E i \in DOMAIN rows : Rotate(i) /\ rows[i].user = u
<1>1. Len(rows) \in Nat /\ rows \in Seq(TokenRow) /\ RowsOK
  BY DEF SessionInv, RowsOK, TokensTypeOK
<1>2. Len(rows') # Len(rows) /\ rows' # rows
  BY <1>1 DEF RotatesFor
<1>3. ASSUME NEW S
      PROVE  rows' # Revoked(S)
  BY <1>1, <1>2, RevokedKeeps
<1>4. ASSUME NEW t \in Tabs, NEW k \in Jobs, Serve(t, k)
      PROVE  \E i \in DOMAIN rows : Rotate(i) /\ rows[i].user = u
  <2>1. CASE k = "flight" /\ ServeRefresh(t)
    <3> DEFINE i == job[t]["flight"].cred
    <3>1. i \in DOMAIN rows
      BY <1>1, <2>1, JobFacts, JobNames DEF ServeRefresh, JobOK
    <3>2. ~ExpireToken(i)
      BY <1>1, <1>2, <3>1, ExpireStep
    <3>3. Rotate(i)
      BY <1>2, <1>3, <2>1, <3>2 DEF ServeRefresh, Reuse, Revokes, serverVars
    <3>4. rows[i].user = u
      <4>1. Revoked(Spent(i)) \in Seq(TokenRow) /\ Len(Revoked(Spent(i))) = Len(rows)
        BY <1>1, RevokedKeeps
      <4> QED
        BY <1>1, <3>3, <4>1 DEF Rotate, Issue, RotatesFor
    <3> QED
      BY <3>1, <3>3, <3>4
  <2>2. CASE ServeForm(t)
    <3> DEFINE f == job[t]["form"].cred
    <3>1. CommitLogin(f.user, f.seen)
      BY <1>2, <2>2 DEF ServeForm, Register, VerifyEmail, serverVars
    <3>2. Revoked(Excess(f.seen)) \in Seq(TokenRow) /\ Len(Revoked(Excess(f.seen))) = Len(rows)
      BY <1>1, RevokedKeeps
    <3> QED
      BY <1>1, <3>1, <3>2 DEF CommitLogin, Issue, RotatesFor
  <2>3. ~ServeGuarded(t, k) /\ ~CountSessions(t) /\ ~ServeLogout(t)
    BY <1>2, <1>3 DEF ServeGuarded, CountSessions, ServeLogout, RevokeOne, serverVars
  <2> QED
    BY <1>4, <2>1, <2>2, <2>3 DEF Serve
<1>5. ~AdminStep /\ ~AccessExpires
  BY <1>2, <1>3 DEF AdminStep, Suspend, Revokes, Reactivate, AccessExpires
<1>6. \A t \in Tabs, k \in Jobs : ~Lose(t, k)
  BY <1>2 DEF Lose, serverVars
<1>7. ASSUME NEW t \in Tabs
      PROVE  /\ ~(Mount(t) \/ ReloadUser(t) \/ Call(t) \/ Logout(t) \/ Returns(t))
             /\ \A v \in Users, raw \in BOOLEAN :
                   ~(SubmitLogin(t, v) \/ SubmitRegister(t, v) \/ SubmitCode(t, v, raw))
  BY <1>2 DEF Mount, ReloadUser, StartLoad, Call, Logout, Returns, LoadReturns, FlightReturns, CallReturns,
     FormReturns, LogoutReturns, SubmitLogin, SubmitRegister, SubmitCode, Submit, serverVars
<1> QED
  BY <1>2, <1>4, <1>5, <1>6, <1>7 DEF Next, vars

(* A refresh never adds a session, and below the cap it ends none but its  *)
(* own: what _enforce_session_cap says is wrong at the cap only, where the *)
(* run on RotationEvictsNobody finds the loss.                             *)
THEOREM RotationBelowCap ==
    Spec => [][\A u \in Users : RotatesFor(u) =>
                  /\ Cardinality(ActiveOf(u)') <= Cardinality(ActiveOf(u))
                  /\ Cardinality(ActiveOf(u)) < MaxSessions
                        => Cardinality(ActiveOf(u)') = Cardinality(ActiveOf(u))]_serverVars
<1>1. SessionInv /\ [Next]_vars =>
         [\A u \in Users : RotatesFor(u) =>
            /\ Cardinality(ActiveOf(u)') <= Cardinality(ActiveOf(u))
            /\ Cardinality(ActiveOf(u)) < MaxSessions
                  => Cardinality(ActiveOf(u)') = Cardinality(ActiveOf(u))]_serverVars
  <2> SUFFICES ASSUME SessionInv, [Next]_vars, NEW u \in Users, RotatesFor(u)
               PROVE  /\ Cardinality(ActiveOf(u)') <= Cardinality(ActiveOf(u))
                      /\ Cardinality(ActiveOf(u)) < MaxSessions
                            => Cardinality(ActiveOf(u)') = Cardinality(ActiveOf(u))
    OBVIOUS
  <2>1. PICK i \in DOMAIN rows : Rotate(i) /\ rows[i].user = u
    BY RotationIsRotate
  <2> QED
    BY <2>1, RotateCounts DEF SessionInv
<1> QED
  BY <1>1, TokensTracked, PTL DEF Spec
=============================================================================
