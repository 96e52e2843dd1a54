------------------------------- MODULE Tokens -------------------------------
(***************************************************************************)
(* Accounts and refresh tokens on the server (api/v1/auth.py, and the      *)
(* suspension of api/v1/admin.py).                                         *)
(*                                                                         *)
(* A login starts a token family; a refresh revokes the token it presents  *)
(* and appends a successor to the family; a revoked token that comes back  *)
(* revokes the family.  Row numbers stand for created_at.  A refresh is one*)
(* step, under the lock of its row, at the point of its commit; a login    *)
(* counts the sessions first and commits later, because nothing locks what *)
(* it counted.  What revokes the rows of others locks none of them first:  *)
(* the successor that a refresh under way is about to commit escapes it,   *)
(* and so does that refresh, which read the account before a suspension.   *)
(***************************************************************************)
EXTENDS Integers, Sequences, FiniteSets

CONSTANTS
    Users,
    MaxSessions,   \* max_active_refresh_tokens_per_user
    MaxTokens      \* bounds the refresh tokens ever issued

ASSUME TokensAssumption == MaxSessions \in Nat \ {0} /\ MaxTokens \in Nat

VARIABLES
    account,       \* users.status, "NONE" before the registration
    rows           \* auth_refresh_tokens

serverVars == <<account, rows>>

UserStatus == {"PENDING_VERIFICATION", "ACTIVE", "SUSPENDED"}
TokenStatus == {"ACTIVE", "REVOKED", "EXPIRED"}
TokenRow == [user : Users, family : Nat \ {0}, status : TokenStatus]

TokensTypeOK ==
    /\ account \in [Users -> UserStatus \cup {"NONE"}]
    /\ rows \in Seq(TokenRow)
    /\ Len(rows) <= MaxTokens
    /\ \A i \in DOMAIN rows : rows[i].family <= i

TokensInit ==
    /\ account = [u \in Users |-> "NONE"]
    /\ rows = << >>

-----------------------------------------------------------------------------
MayAuthenticate(u) == account[u] \in {"PENDING_VERIFICATION", "ACTIVE"}

ActiveOf(u) == {i \in DOMAIN rows : rows[i].user = u /\ rows[i].status = "ACTIVE"}

Older(S, i) == {j \in S : j < i}

\* _enforce_session_cap: the oldest of the sessions counted, so that one more fits.
Excess(S) == {i \in S : Cardinality(Older(S, i)) < Cardinality(S) - (MaxSessions - 1)}

Revoked(S) == [i \in DOMAIN rows |-> IF i \in S THEN [rows[i] EXCEPT !.status = "REVOKED"]
                                     ELSE rows[i]]

\* UPDATE ... SET status = REVOKED: a refresh that holds one of the rows makes it wait, and the
\* successor committed meanwhile is not among the rows it found.
Revokes(S) ==
    \E missed \in SUBSET {j \in S : rows[j].family # j} : rows' = Revoked(S \ missed)

\* Seeded bug: a token is stored in a state the enum does not have.
IssueUnset(kept, u, family) ==
    rows' = Append(kept, [user |-> u, family |-> family, status |-> "NONE"])

Issue(kept, u, family) ==
    rows' = Append(kept, [user |-> u, family |-> family, status |-> "ACTIVE"])

\* POST /auth/register
Register(u) ==
    /\ account[u] = "NONE"
    /\ account' = [account EXCEPT ![u] = "PENDING_VERIFICATION"]
    /\ UNCHANGED rows

\* POST /auth/verify-email
VerifyEmail(u) ==
    /\ account[u] = "PENDING_VERIFICATION"
    /\ account' = [account EXCEPT ![u] = "ACTIVE"]
    /\ UNCHANGED rows

\* POST /admin/users/{id}/suspend: the sessions it finds end with it.
Suspend(u) ==
    /\ account[u] \in {"PENDING_VERIFICATION", "ACTIVE"}
    /\ account' = [account EXCEPT ![u] = "SUSPENDED"]
    /\ Revokes(ActiveOf(u))

Reactivate(u) ==
    /\ account[u] = "SUSPENDED"
    /\ account' = [account EXCEPT ![u] = "ACTIVE"]
    /\ UNCHANGED rows

\* The end of POST /auth/login, which counted the sessions in seen.
CommitLogin(u, seen) ==
    /\ Len(rows) < MaxTokens
    /\ Issue(Revoked(Excess(seen)), u, Len(rows) + 1)
    /\ UNCHANGED account

\* Seeded bug: the presented token is left as it is.
SpentNot(i) == Excess(ActiveOf(rows[i].user))

\* The session flushes nothing before the commit: the count includes the presented token.
Spent(i) == {i} \cup Excess(ActiveOf(rows[i].user))

\* POST /auth/refresh with a token that is still good.
Rotate(i) ==
    /\ rows[i].status = "ACTIVE"
    /\ MayAuthenticate(rows[i].user)
    /\ Len(rows) < MaxTokens
    /\ Issue(Revoked(Spent(i)), rows[i].user, rows[i].family)
    /\ UNCHANGED account

\* The same past expires_at.
ExpireToken(i) ==
    /\ rows[i].status = "ACTIVE"
    /\ rows' = [rows EXCEPT ![i].status = "EXPIRED"]
    /\ UNCHANGED account

\* The same with a token that was rotated or revoked: _revoke_family.
Reuse(i) ==
    /\ rows[i].status = "REVOKED"
    /\ Revokes({j \in DOMAIN rows : rows[j].family = rows[i].family /\ rows[j].status = "ACTIVE"})
    /\ UNCHANGED account

\* POST /auth/logout
RevokeOne(i) ==
    /\ rows' = Revoked({i})
    /\ UNCHANGED account

TokensNext ==
    \/ \E u \in Users : \/ Register(u) \/ VerifyEmail(u) \/ Suspend(u) \/ Reactivate(u)
                        \/ \E S \in SUBSET DOMAIN rows : CommitLogin(u, S)
    \/ \E i \in DOMAIN rows : Rotate(i) \/ ExpireToken(i) \/ Reuse(i) \/ RevokeOne(i)

-----------------------------------------------------------------------------
(* However refreshes, logins, logouts and replays of old tokens interleave,*)
(* a login chain has at most one token that still works: what the row lock *)
(* of POST /auth/refresh and the rotation are for.                         *)
OneActivePerFamily ==
    \A i, j \in DOMAIN rows :
        (rows[i].family = rows[j].family /\ rows[i].status = "ACTIVE"
            /\ rows[j].status = "ACTIVE") => i = j

(* Rotating a token at or below the session cap ends no other session:     *)
(* _enforce_session_cap speaks of the oldest tokens "beyond the cap".      *)
RotationEvictsNobody ==
    [][\A u \in Users :
          (/\ Cardinality(ActiveOf(u)) <= MaxSessions
           /\ Len(rows') = Len(rows) + 1
           /\ rows'[Len(rows')].user = u
           /\ rows'[Len(rows')].family <= Len(rows))
          => Cardinality(ActiveOf(u)') = Cardinality(ActiveOf(u))]_serverVars
=============================================================================
