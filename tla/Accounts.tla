------------------------------ MODULE Accounts ------------------------------
(***************************************************************************)
(* Accounts, the cookies and API tokens their owners sign in with, and the  *)
(* settings page. A request loads its user when it signs in and writes the  *)
(* row later; a token not used for an hour is stamped on the way in.        *)
(***************************************************************************)
CONSTANTS
  User,      \* ids of users, each registered once
  Email,
  Password,
  Token,     \* ids of API tokens, each issued once
  Request,   \* requests that can be in flight at once
  Null

VARIABLES
  account,  \* user: a row for each who has registered
  cookie,   \* whose session cookies browsers hold
  token,    \* api_token: Null before a token is issued and once its row is deleted
  issued,   \* tokens that have been issued
  req       \* where each request stands and what it has read

vars == <<account, cookie, token, issued, req>>

----------------------------------------------------------------------------
Nullable(S) == S \union {Null}

\* A deleted account has no address and no password of its own.
Account == [email : Nullable(Email), password : Nullable(Password), active : BOOLEAN]

\* stale: last_used_at is more than an hour ago
TokenRow == [user : User, scope : {"read", "write"}, revoked : BOOLEAN,
             expired : BOOLEAN, stale : BOOLEAN]

Idle == [at |-> "idle"]

RequestState ==
  {Idle}
  \union [at : {"touch"}, token : Token, loaded : TokenRow, writes : BOOLEAN]
  \union [at : {"signed.in"}, user : User, loaded : Account]
  \union [at : {"revoke"}, token : Token, loaded : TokenRow]

At(r, point) == req[r].at = point

Goto(r, there) == req' = [req EXCEPT ![r] = there]

Finish(r) == Goto(r, Idle)

Registered == {u \in User : account[u] # Null}

\* The unique constraint on user.email
Free(u, e) == \A v \in Registered \ {u} : account[v].email # e

\* A column after the ORM's UPDATE: it is written only where the attribute
\* differs from the value loaded, over whatever the row holds by then.
Column(now, loaded, edited) == IF edited = loaded THEN now ELSE edited

----------------------------------------------------------------------------
Init ==
  /\ account = [u \in User |-> Null]
  /\ cookie = {}
  /\ token = [k \in Token |-> Null]
  /\ issued = {}
  /\ req = [r \in Request |-> Idle]

\* A check or a constraint fails, or the row to update is gone.
Refuse(r) ==
  /\ req[r] # Idle
  /\ Finish(r)
  /\ UNCHANGED <<account, cookie, token, issued>>

----------------------------------------------------------------------------
(* Signing in *)

\* register_user: looking for the address first only improves the message.
Register ==
  /\ \E u \in User \ Registered, e \in Email, p \in Password :
       /\ Free(u, e)
       /\ account' = [account EXCEPT ![u] = [email |-> e, password |-> p, active |-> TRUE]]
       /\ cookie' = cookie \union {u}
  /\ UNCHANGED <<token, issued, req>>

Login ==
  /\ \E u \in Registered, e \in Email, p \in Password :
       /\ account[u].active
       /\ account[u].email = e
       /\ account[u].password = p
       /\ cookie' = cookie \union {u}
  /\ UNCHANGED <<account, token, issued, req>>

\* On logging out, or two weeks after signing in
LoseCookie ==
  /\ \E u \in cookie : cookie' = cookie \ {u}
  /\ UNCHANGED <<account, token, issued, req>>

\* The row is loaded when the request is let in.
SignedIn(u) == [at |-> "signed.in", user |-> u, loaded |-> account[u]]

ByCookie(r) ==
  /\ req[r] = Idle
  /\ \E u \in cookie : account[u].active /\ Goto(r, SignedIn(u))
  /\ UNCHANGED <<account, cookie, token, issued>>

Usable(k) ==
  /\ token[k] # Null
  /\ ~token[k].revoked
  /\ ~token[k].expired
  /\ account[token[k].user].active

\* A request that only reads is done once it is let in.
LetIn(r, u, writes) == Goto(r, IF writes THEN SignedIn(u) ELSE Idle)

ByToken(r) ==
  /\ req[r] = Idle
  /\ \E k \in Token, writes \in BOOLEAN :
       /\ Usable(k)
       /\ writes => token[k].scope = "write"
       /\ IF token[k].stale
          THEN Goto(r, [at |-> "touch", token |-> k, loaded |-> token[k], writes |-> writes])
          ELSE LetIn(r, token[k].user, writes)
  /\ UNCHANGED <<account, cookie, token, issued>>

MutTouched(now, loaded) == [loaded EXCEPT !.stale = FALSE]

Touched(now, loaded) == [now EXCEPT !.stale = Column(@, loaded.stale, FALSE)]

\* The user is not looked at again.
TouchToken(r) ==
  LET k == req[r].token IN
  /\ At(r, "touch")
  /\ token[k] # Null
  /\ token' = [token EXCEPT ![k] = Touched(@, req[r].loaded)]
  /\ LetIn(r, req[r].loaded.user, req[r].writes)
  /\ UNCHANGED <<account, cookie, issued>>

\* An hour without use, or the ninety days of a token, pass.
TokenAges ==
  /\ \E k \in Token :
       /\ token[k] # Null
       /\ \/ token' = [token EXCEPT ![k].stale = TRUE]
          \/ token' = [token EXCEPT ![k].expired = TRUE]
  /\ UNCHANGED <<account, cookie, issued, req>>

----------------------------------------------------------------------------
(* Settings *)

UpdateProfile(r) ==
  LET u == req[r].user IN
  /\ At(r, "signed.in")
  /\ \E e \in Email :
       /\ Free(u, e)
       /\ account' = [account EXCEPT ![u].email = Column(@, req[r].loaded.email, e)]
  /\ Finish(r)
  /\ UNCHANGED <<cookie, token, issued>>

\* _require_current_password compares with the row that was loaded.
HasPassword(r) == req[r].loaded.password # Null

\* A new hash has a new salt and always differs from the one that was loaded.
ChangePassword(r) ==
  /\ At(r, "signed.in")
  /\ HasPassword(r)
  /\ \E p \in Password : account' = [account EXCEPT ![req[r].user].password = p]
  /\ Finish(r)
  /\ UNCHANGED <<cookie, token, issued>>

\* issue_api_token
NewToken(u, scope) ==
  [user |-> u, scope |-> scope, revoked |-> FALSE, expired |-> FALSE, stale |-> TRUE]

IssueToken(r) ==
  /\ At(r, "signed.in")
  /\ \E k \in Token \ issued, scope \in {"read", "write"} :
       /\ token' = [token EXCEPT ![k] = NewToken(req[r].user, scope)]
       /\ issued' = issued \union {k}
  /\ Finish(r)
  /\ UNCHANGED <<account, cookie>>

FindToken(r) ==
  /\ At(r, "signed.in")
  /\ \E k \in Token :
       /\ token[k] # Null
       /\ token[k].user = req[r].user
       /\ ~token[k].revoked
       /\ Goto(r, [at |-> "revoke", token |-> k, loaded |-> token[k]])
  /\ UNCHANGED <<account, cookie, token, issued>>

RevokeToken(r) ==
  LET k == req[r].token IN
  /\ At(r, "revoke")
  /\ token[k] # Null
  /\ token' = [token EXCEPT ![k].revoked = Column(@, req[r].loaded.revoked, TRUE)]
  /\ Finish(r)
  /\ UNCHANGED <<account, cookie, issued>>

MutTokensLeft(u) == token

TokensLeft(u) ==
  [k \in Token |-> IF token[k] # Null /\ token[k].user = u THEN Null ELSE token[k]]

\* That it may not be the only owner of a project is Membership's MayLeave.
DeleteAccount(r) ==
  LET u == req[r].user IN
  /\ At(r, "signed.in")
  /\ HasPassword(r)
  /\ token' = TokensLeft(u)
  /\ account' = [account EXCEPT ![u] = [email |-> Null, password |-> Null, active |-> FALSE]]
  /\ Finish(r)
  /\ UNCHANGED <<cookie, issued>>

----------------------------------------------------------------------------
Step(r) ==
  \/ Refuse(r)
  \/ ByCookie(r) \/ ByToken(r) \/ TouchToken(r)
  \/ UpdateProfile(r) \/ ChangePassword(r) \/ DeleteAccount(r)
  \/ IssueToken(r) \/ FindToken(r) \/ RevokeToken(r)

Next == Register \/ Login \/ LoseCookie \/ TokenAges \/ \E r \in Request : Step(r)

Spec == Init /\ [][Next]_vars

----------------------------------------------------------------------------
(* Properties *)

\* Rows keep their schema, and cookies and tokens belong to registered users.
TypeOK ==
  /\ account \in [User -> Nullable(Account)]
  /\ cookie \subseteq Registered
  /\ token \in [Token -> Nullable(TokenRow)]
  /\ issued \subseteq Token
  /\ req \in [Request -> RequestState]
  /\ \A k \in Token : token[k] # Null => k \in issued /\ token[k].user \in Registered

\* A revoked token stays revoked, also when a request that was let in with it
\* before stamps last_used_at afterwards.
RevocationIsFinal ==
  [][\A k \in Token : token[k] # Null /\ token'[k] # Null
                        => (token[k].revoked => token'[k].revoked)]_vars

\* No request signs in as an account that has been deleted, also when it was
\* deleted while the request stamped its token.
SignedInAreActive ==
  [][\A r \in Request :
       req'[r].at = "signed.in" /\ req[r].at # "signed.in"
         => account[req'[r].user].active]_vars
=============================================================================
