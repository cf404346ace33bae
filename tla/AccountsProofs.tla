--------------------------- MODULE AccountsProofs ---------------------------
(* What Accounts guarantees for any number of users, tokens and requests.   *)
EXTENDS Accounts, TLAPS

\* SQL NULL is not a row.
NullIsNoRow == Null \notin Account \union TokenRow

\* The columns nobody but a registration and a deletion writes.
TablesOK ==
  /\ account \in [User -> Nullable(Account)]
  /\ cookie \subseteq Registered
  /\ token \in [Token -> Nullable(TokenRow)]
  /\ issued \subseteq Token
  /\ \A k \in Token : token[k] # Null => k \in issued /\ token[k].user \in Registered

\* A request that is about to stamp a token was let in by it: as long as the row
\* is there, its user has not been deleted.
RequestOK(r) ==
  /\ At(r, "signed.in") => req[r].user \in Registered
  /\ At(r, "touch") => req[r].token \in issued
  /\ At(r, "touch") /\ token[req[r].token] # Null =>
       /\ token[req[r].token].user = req[r].loaded.user
       /\ account[req[r].loaded.user].active

IInv ==
  /\ TablesOK
  /\ req \in [Request -> RequestState]
  /\ \A r \in Request : RequestOK(r)

\* What happens to rows: users stay, an account is deleted with its tokens, and
\* a token that is there stays its user's.
Kept ==
  /\ \A u \in Registered : account'[u] # Null
  /\ \A k \in issued : token'[k] # Null =>
       /\ token[k] # Null
       /\ token'[k].user = token[k].user
       /\ account[token[k].user].active => account'[token[k].user].active
  /\ issued \subseteq issued'

RowStep == TablesOK' /\ Kept

----------------------------------------------------------------------------
(* Lemmas *)

LEMMA RowsUnchanged ==
  ASSUME IInv, UNCHANGED <<account, cookie, token, issued>>
  PROVE  RowStep
BY DEF IInv, RowStep, TablesOK, Kept, Registered

\* The steps of others do not disturb a request.
LEMMA Undisturbed ==
  ASSUME IInv, RowStep, NEW q \in Request, req'[q] = req[q]
  PROVE  RequestOK(q)'
<1>1. RequestOK(q)
  BY DEF IInv
<1>2. CASE At(q, "signed.in")
  BY <1>1, <1>2 DEF RequestOK, At, RowStep, Kept, Registered
<1>3. CASE At(q, "touch")
  BY <1>1, <1>3 DEF RequestOK, At, RowStep, Kept
<1>4. CASE ~At(q, "signed.in") /\ ~At(q, "touch")
  BY <1>4 DEF RequestOK, At
<1> QED
  BY <1>2, <1>3, <1>4

LEMMA Proceed ==
  ASSUME IInv, RowStep, NEW r \in Request, NEW there \in RequestState, Goto(r, there),
         RequestOK(r)'
  PROVE  IInv'
<1>1. /\ req' \in [Request -> RequestState]
      /\ \A q \in Request \ {r} : req'[q] = req[q]
  BY DEF Goto, IInv
<1>2. \A q \in Request : RequestOK(q)'
  BY <1>1, Undisturbed
<1> QED
  BY <1>1, <1>2 DEF IInv, RowStep

LEMMA FinishStep ==
  ASSUME IInv, RowStep, NEW r \in Request, Finish(r)
  PROVE  IInv'
<1>1. Idle \in RequestState /\ Idle.at = "idle"
  BY DEF RequestState, Idle
<1>2. RequestOK(r)'
  BY <1>1 DEF Finish, Goto, IInv, RequestOK, At
<1> QED
  BY <1>1, <1>2, Proceed DEF Finish

\* A user who is let in has an account.
LEMMA SignedInStep ==
  ASSUME IInv, RowStep, NEW r \in Request, NEW u \in Registered, Goto(r, SignedIn(u))
  PROVE  IInv'
<1> DEFINE there == SignedIn(u)
<1>1. u \in User /\ account[u] \in Account
  BY DEF IInv, TablesOK, Registered, Nullable
<1>2. there \in RequestState /\ there.at = "signed.in" /\ there.user = u
  BY <1>1 DEF RequestState, SignedIn
<1> HIDE DEF there
<1>3. Goto(r, there)
  BY DEF there
<1>4. req'[r] = there
  BY <1>3 DEF Goto, IInv
<1>5. RequestOK(r)'
  BY <1>2, <1>4 DEF RequestOK, At, RowStep, Kept, Registered
<1> QED
  BY <1>2, <1>3, <1>5, Proceed

LEMMA LetInStep ==
  ASSUME IInv, RowStep, NEW r \in Request, NEW u \in Registered, NEW writes, LetIn(r, u, writes)
  PROVE  IInv'
BY FinishStep, SignedInStep DEF LetIn, Finish

\* A signed-in request knows its user, and what it has loaded.
LEMMA Settings ==
  ASSUME IInv, NEW r \in Request, At(r, "signed.in")
  PROVE  /\ req[r].user \in Registered /\ req[r].user \in User
         /\ req[r].loaded \in Account
         /\ account[req[r].user] \in Account
<1>1. req[r].user \in User /\ req[r].loaded \in Account
  BY DEF IInv, At, RequestState, Idle
<1>2. req[r].user \in Registered
  BY DEF IInv, RequestOK
<1> QED
  BY <1>1, <1>2 DEF IInv, TablesOK, Registered, Nullable

\* One row of an account is written over: its token rows stay as they are.
LEMMA AccountStep ==
  ASSUME IInv, NullIsNoRow, NEW u \in Registered, NEW new \in Account,
         new.active = account[u].active,
         account' = [account EXCEPT ![u] = new], UNCHANGED <<cookie, token, issued>>
  PROVE  RowStep
<1>1. u \in User /\ new # Null
  BY DEF Registered, NullIsNoRow
<1>2. /\ account' \in [User -> Nullable(Account)]
      /\ account'[u] = new
      /\ \A v \in User \ {u} : account'[v] = account[v]
  BY <1>1 DEF IInv, TablesOK, Nullable
<1>3. Registered' = Registered
  BY <1>1, <1>2 DEF Registered
<1> QED
  BY <1>1, <1>2, <1>3 DEF IInv, RowStep, TablesOK, Kept, Registered

\* One row of a token is written over: it stays its user's.
LEMMA TokenStep ==
  ASSUME IInv, NullIsNoRow, NEW k \in Token, NEW new \in TokenRow, token[k] # Null,
         new.user = token[k].user,
         token' = [token EXCEPT ![k] = new], UNCHANGED <<account, cookie, issued>>
  PROVE  RowStep
<1>1. /\ token' \in [Token -> Nullable(TokenRow)]
      /\ token'[k] = new
      /\ \A j \in Token \ {k} : token'[j] = token[j]
  BY DEF IInv, TablesOK, Nullable
<1> QED
  BY <1>1 DEF IInv, RowStep, TablesOK, Kept, Registered

\* What is left of a token row after a stamp, after a revocation, and with time
LEMMA TokenColumns ==
  ASSUME NEW row \in TokenRow, NEW loaded \in TokenRow
  PROVE  /\ Touched(row, loaded) \in TokenRow
         /\ Touched(row, loaded).user = row.user
         /\ Touched(row, loaded).revoked = row.revoked
         /\ LET new == [row EXCEPT !.revoked = Column(@, loaded.revoked, TRUE)] IN
              new \in TokenRow /\ new.user = row.user /\ (row.revoked => new.revoked)
         /\ LET new == [row EXCEPT !.stale = TRUE] IN
              new \in TokenRow /\ new.user = row.user /\ new.revoked = row.revoked
         /\ LET new == [row EXCEPT !.expired = TRUE] IN
              new \in TokenRow /\ new.user = row.user /\ new.revoked = row.revoked
BY DEF Touched, Column, TokenRow

\* What a request that is about to write a token has loaded
LEMMA LoadedRow ==
  ASSUME IInv, NEW r \in Request, At(r, "touch") \/ At(r, "revoke")
  PROVE  req[r].token \in Token /\ req[r].loaded \in TokenRow
BY DEF IInv, At, RequestState, Idle

----------------------------------------------------------------------------
(* The inductive invariant *)

LEMMA SignInSteps ==
  ASSUME IInv, NullIsNoRow, NEW r \in Request,
         Refuse(r) \/ ByCookie(r) \/ ByToken(r) \/ TouchToken(r)
  PROVE  IInv'
<1>1. CASE Refuse(r)
  BY <1>1, RowsUnchanged, FinishStep DEF Refuse
<1>2. CASE ByCookie(r)
  <2>1. RowStep
    BY <1>2, RowsUnchanged DEF ByCookie
  <2>2. PICK u \in cookie : Goto(r, SignedIn(u))
    BY <1>2 DEF ByCookie
  <2>3. u \in Registered
    BY DEF IInv, TablesOK
  <2> QED
    BY <2>1, <2>2, <2>3, SignedInStep
<1>3. CASE ByToken(r)
  <2>1. RowStep /\ UNCHANGED <<account, cookie, token, issued>>
    BY <1>3, RowsUnchanged DEF ByToken
  <2>2. PICK k \in Token, writes \in BOOLEAN :
          /\ Usable(k)
          /\ IF token[k].stale
             THEN Goto(r, [at |-> "touch", token |-> k, loaded |-> token[k], writes |-> writes])
             ELSE LetIn(r, token[k].user, writes)
    BY <1>3 DEF ByToken
  <2>3. /\ token[k] # Null /\ token[k] \in TokenRow
        /\ token[k].user \in Registered /\ k \in issued
        /\ account[token[k].user].active
    BY <2>2 DEF Usable, IInv, TablesOK, Nullable
  <2>4. CASE ~token[k].stale
    BY <2>1, <2>2, <2>3, <2>4, LetInStep
  <2>5. CASE token[k].stale
    <3> DEFINE there == [at |-> "touch", token |-> k, loaded |-> token[k], writes |-> writes]
    <3>1. there \in RequestState
      BY <2>3 DEF RequestState
    <3>2. there.at = "touch" /\ there.token = k /\ there.loaded = token[k]
      OBVIOUS
    <3>3. Goto(r, there)
      BY <2>2, <2>5
    <3> HIDE DEF there
    <3>4. req'[r] = there
      BY <3>3 DEF Goto, IInv
    <3>5. RequestOK(r)'
      BY <2>1, <2>3, <3>2, <3>4 DEF RequestOK, At
    <3> QED
      BY <2>1, <3>1, <3>3, <3>5, Proceed
  <2> QED
    BY <2>4, <2>5
<1>4. CASE TouchToken(r)
  <2> DEFINE k == req[r].token
             loaded == req[r].loaded
             new == Touched(token[k], loaded)
  <2>1. k \in Token /\ loaded \in TokenRow
    BY <1>4, LoadedRow DEF TouchToken
  <2>2. /\ token[k] # Null /\ token' = [token EXCEPT ![k] = new]
        /\ LetIn(r, loaded.user, req[r].writes)
        /\ UNCHANGED <<account, cookie, issued>>
    BY <1>4 DEF TouchToken
  <2>3. token[k] \in TokenRow
    BY <2>1, <2>2 DEF IInv, TablesOK, Nullable
  <2>4. new \in TokenRow /\ new.user = token[k].user
    BY <2>1, <2>3, TokenColumns
  <2>5. loaded.user = token[k].user /\ token[k].user \in Registered
    BY <1>4, <2>1, <2>2 DEF TouchToken, IInv, RequestOK, TablesOK
  <2> HIDE DEF new
  <2>6. RowStep
    BY <2>1, <2>2, <2>4, TokenStep
  <2> QED
    BY <2>2, <2>5, <2>6, LetInStep
<1> QED
  BY <1>1, <1>2, <1>3, <1>4

LEMMA ProfileSteps ==
  ASSUME IInv, NullIsNoRow, NEW r \in Request,
         UpdateProfile(r) \/ ChangePassword(r) \/ DeleteAccount(r)
  PROVE  IInv'
<1> DEFINE u == req[r].user
<1>1. /\ u \in Registered /\ u \in User
      /\ req[r].loaded \in Account /\ account[u] \in Account
  BY Settings DEF UpdateProfile, ChangePassword, DeleteAccount
<1>2. CASE UpdateProfile(r)
  <2>1. PICK e \in Email :
          account' = [account EXCEPT ![u].email = Column(@, req[r].loaded.email, e)]
    BY <1>2 DEF UpdateProfile
  <2> DEFINE new == [account[u] EXCEPT !.email = Column(@, req[r].loaded.email, e)]
  <2>2. new \in Account /\ new.active = account[u].active
    BY <1>1 DEF Account, Column, Nullable
  <2>3. account' = [account EXCEPT ![u] = new]
    BY <2>1
  <2> HIDE DEF new, u
  <2>4. RowStep
    BY <1>1, <1>2, <2>2, <2>3, AccountStep DEF UpdateProfile
  <2> QED
    BY <1>2, <2>4, FinishStep DEF UpdateProfile
<1>3. CASE ChangePassword(r)
  <2>1. PICK p \in Password : account' = [account EXCEPT ![u].password = p]
    BY <1>3 DEF ChangePassword
  <2> DEFINE new == [account[u] EXCEPT !.password = p]
  <2>2. new \in Account /\ new.active = account[u].active
    BY <1>1 DEF Account, Nullable
  <2>3. account' = [account EXCEPT ![u] = new]
    BY <2>1
  <2> HIDE DEF new, u
  <2>4. RowStep
    BY <1>1, <1>3, <2>2, <2>3, AccountStep DEF ChangePassword
  <2> QED
    BY <1>3, <2>4, FinishStep DEF ChangePassword
<1>4. CASE DeleteAccount(r)
  <2> DEFINE gone == [email |-> Null, password |-> Null, active |-> FALSE]
  <2>0. gone \in Account
    BY DEF Account, Nullable
  <2>2. /\ account' = [account EXCEPT ![u] = gone]
        /\ token' = TokensLeft(u) /\ UNCHANGED <<cookie, issued>> /\ Finish(r)
    BY <1>4 DEF DeleteAccount
  <2> HIDE DEF gone
  <2>1. gone \in Account /\ gone # Null
    BY <2>0 DEF NullIsNoRow
  <2>3. /\ account' \in [User -> Nullable(Account)]
        /\ account'[u] = gone
        /\ \A v \in User \ {u} : account'[v] = account[v]
    BY <1>1, <2>1, <2>2 DEF IInv, TablesOK, Nullable
  <2>4. Registered' = Registered
    BY <1>1, <2>1, <2>3 DEF Registered
  <2>5. /\ token' \in [Token -> Nullable(TokenRow)]
        /\ \A k \in Token : token'[k] # Null => token'[k] = token[k] /\ token[k].user # u
    BY <2>2 DEF TokensLeft, IInv, TablesOK, Nullable
  <2>6. \A k \in issued : token'[k] # Null =>
          /\ token[k] # Null /\ token'[k].user = token[k].user
          /\ token[k].user \in User \ {u}
    BY <2>5 DEF IInv, TablesOK, Registered
  <2>7. Kept
    BY <2>1, <2>2, <2>3, <2>6 DEF Kept, Registered
  <2>8. TablesOK'
    BY <2>2, <2>3, <2>4, <2>5 DEF IInv, TablesOK
  <2> QED
    BY <2>2, <2>7, <2>8, FinishStep DEF RowStep
<1> QED
  BY <1>2, <1>3, <1>4

LEMMA TokenSteps ==
  ASSUME IInv, NullIsNoRow, NEW r \in Request,
         IssueToken(r) \/ FindToken(r) \/ RevokeToken(r)
  PROVE  IInv'
<1>1. CASE IssueToken(r)
  <2> DEFINE u == req[r].user
  <2>1. PICK k \in Token \ issued, scope \in {"read", "write"} :
          /\ token' = [token EXCEPT ![k] = NewToken(u, scope)]
          /\ issued' = issued \union {k}
    BY <1>1 DEF IssueToken
  <2>2. u \in Registered /\ u \in User
    BY <1>1, Settings DEF IssueToken
  <2>3. NewToken(u, scope) \in TokenRow /\ NewToken(u, scope).user = u
    BY <2>2 DEF NewToken, TokenRow
  <2> DEFINE new == NewToken(u, scope)
  <2> HIDE DEF new, u
  <2>4. /\ token' \in [Token -> Nullable(TokenRow)]
        /\ token'[k] = new /\ new \in TokenRow /\ new.user \in Registered
        /\ \A j \in Token \ {k} : token'[j] = token[j]
    BY <2>1, <2>2, <2>3 DEF IInv, TablesOK, Nullable, new
  <2>5. UNCHANGED <<account, cookie>> /\ Finish(r)
    BY <1>1 DEF IssueToken
  <2>6. RowStep
    BY <2>1, <2>4, <2>5 DEF IInv, RowStep, TablesOK, Kept, Registered
  <2> QED
    BY <2>5, <2>6, FinishStep
<1>2. CASE FindToken(r)
  <2>1. PICK k \in Token :
          token[k] # Null /\ Goto(r, [at |-> "revoke", token |-> k, loaded |-> token[k]])
    BY <1>2 DEF FindToken
  <2> DEFINE there == [at |-> "revoke", token |-> k, loaded |-> token[k]]
  <2>2. token[k] \in TokenRow
    BY <2>1 DEF IInv, TablesOK, Nullable
  <2>3. there \in RequestState /\ there.at = "revoke"
    BY <2>2 DEF RequestState
  <2>4. Goto(r, there)
    BY <2>1
  <2> HIDE DEF there
  <2>5. RequestOK(r)'
    BY <2>3, <2>4 DEF Goto, IInv, RequestOK, At
  <2> QED
    BY <1>2, <2>3, <2>4, <2>5, RowsUnchanged, Proceed DEF FindToken
<1>3. CASE RevokeToken(r)
  <2> DEFINE k == req[r].token
             new == [token[k] EXCEPT !.revoked = Column(@, req[r].loaded.revoked, TRUE)]
  <2>1. k \in Token /\ req[r].loaded \in TokenRow
    BY <1>3, LoadedRow DEF RevokeToken
  <2>2. token[k] # Null /\ token' = [token EXCEPT ![k] = new]
    BY <1>3 DEF RevokeToken
  <2>3. token[k] \in TokenRow
    BY <2>1, <2>2 DEF IInv, TablesOK, Nullable
  <2>4. new \in TokenRow /\ new.user = token[k].user
    BY <2>1, <2>3, TokenColumns
  <2> HIDE DEF new
  <2>5. RowStep
    BY <1>3, <2>1, <2>2, <2>4, TokenStep DEF RevokeToken
  <2> QED
    BY <1>3, <2>5, FinishStep DEF RevokeToken
<1> QED
  BY <1>1, <1>2, <1>3

LEMMA OtherSteps ==
  ASSUME IInv, NullIsNoRow, Register \/ Login \/ LoseCookie \/ TokenAges
  PROVE  RowStep /\ UNCHANGED req
<1>1. CASE Register
  <2>1. PICK u \in User \ Registered, e \in Email, p \in Password :
          /\ account' = [account EXCEPT ![u] = [email |-> e, password |-> p, active |-> TRUE]]
          /\ cookie' = cookie \union {u}
    BY <1>1 DEF Register
  <2> DEFINE new == [email |-> e, password |-> p, active |-> TRUE]
  <2>0. new \in Account /\ new.active
    BY DEF Account, Nullable
  <2> HIDE DEF new
  <2>2. new # Null
    BY <2>0 DEF NullIsNoRow
  <2>3. /\ account' \in [User -> Nullable(Account)]
        /\ account'[u] = new
        /\ \A v \in User \ {u} : account'[v] = account[v]
    BY <2>0, <2>1 DEF IInv, TablesOK, Nullable, new
  <2>4. Registered' = Registered \union {u}
    BY <2>2, <2>3 DEF Registered
  <2>5. UNCHANGED <<token, issued, req>>
    BY <1>1 DEF Register
  <2>6. \A k \in issued : token[k] # Null => token[k].user \in User \ {u}
    BY DEF IInv, TablesOK, Registered
  <2>7. Kept
    BY <2>1, <2>2, <2>3, <2>5, <2>6 DEF Kept, Registered
  <2>8. TablesOK'
    BY <2>1, <2>3, <2>4, <2>5 DEF IInv, TablesOK
  <2> QED
    BY <2>5, <2>7, <2>8 DEF RowStep
<1>2. CASE Login
  BY <1>2 DEF Login, IInv, RowStep, TablesOK, Kept, Registered
<1>3. CASE LoseCookie
  BY <1>3 DEF LoseCookie, IInv, RowStep, TablesOK, Kept, Registered
<1>4. CASE TokenAges
  <2>1. PICK k \in Token :
          /\ token[k] # Null
          /\ \/ token' = [token EXCEPT ![k] = [token[k] EXCEPT !.stale = TRUE]]
             \/ token' = [token EXCEPT ![k] = [token[k] EXCEPT !.expired = TRUE]]
    BY <1>4 DEF TokenAges
  <2>2. token[k] \in TokenRow
    BY <2>1 DEF IInv, TablesOK, Nullable
  <2> QED
    BY <1>4, <2>1, <2>2, TokenColumns, TokenStep DEF TokenAges
<1> QED
  BY <1>1, <1>2, <1>3, <1>4

LEMMA IInvInit == Init => IInv
BY DEF Init, IInv, TablesOK, Registered, RequestOK, RequestState, Idle, At, Nullable

LEMMA IInvStep ==
  ASSUME IInv, NullIsNoRow, [Next]_vars
  PROVE  IInv'
<1>1. ASSUME RowStep, UNCHANGED req
      PROVE  IInv'
  BY <1>1, Undisturbed DEF IInv, RowStep
<1>2. CASE UNCHANGED vars
  BY <1>1, <1>2, RowsUnchanged DEF vars
<1>3. CASE Register \/ Login \/ LoseCookie \/ TokenAges
  BY <1>1, <1>3, OtherSteps
<1>4. ASSUME NEW r \in Request, Step(r)
      PROVE  IInv'
  BY <1>4, SignInSteps, ProfileSteps, TokenSteps DEF Step
<1> QED
  BY <1>2, <1>3, <1>4 DEF Next

----------------------------------------------------------------------------
(* The properties *)

\* Rows keep their schema, and cookies and tokens belong to registered users.
THEOREM TypeCorrect ==
  ASSUME NullIsNoRow
  PROVE  Spec => []TypeOK
<1>1. IInv => TypeOK
  BY DEF IInv, TypeOK, TablesOK
<1>2. IInv /\ [Next]_vars => IInv'
  BY IInvStep
<1> QED
  BY <1>1, <1>2, IInvInit, PTL DEF Spec

\* Requests that were let in before a revocation write other columns only, so no
\* stamp gives a token back.
THEOREM RevokedForGood ==
  ASSUME NullIsNoRow
  PROVE  Spec => RevocationIsFinal
<1>1. ASSUME IInv, [Next]_vars, NEW k \in Token, token[k] # Null, token'[k] # Null,
             token[k].revoked
      PROVE  token'[k].revoked
  <2>0. token[k] \in TokenRow /\ k \in issued
    BY <1>1 DEF IInv, TablesOK, Nullable
  <2>1. ASSUME NEW r \in Request, TouchToken(r) \/ RevokeToken(r)
        PROVE  token'[k].revoked
    <3>1. req[r].token \in Token /\ req[r].loaded \in TokenRow
      BY <1>1, <2>1, LoadedRow DEF TouchToken, RevokeToken
    <3>2. token \in [Token -> Nullable(TokenRow)]
      BY <1>1 DEF IInv, TablesOK
    <3>3. CASE k # req[r].token
      BY <1>1, <2>1, <3>2, <3>3 DEF TouchToken, RevokeToken
    <3>4. CASE k = req[r].token /\ TouchToken(r)
      <4>1. token'[k] = Touched(token[k], req[r].loaded)
        BY <3>2, <3>4 DEF TouchToken
      <4>2. token'[k].revoked = token[k].revoked
        BY <2>0, <4>1 DEF Touched, TokenRow
      <4> QED
        BY <1>1, <4>2
    <3>5. CASE k = req[r].token /\ RevokeToken(r)
      <4>1. token'[k] = [token[k] EXCEPT !.revoked = Column(@, req[r].loaded.revoked, TRUE)]
        BY <3>2, <3>5 DEF RevokeToken
      <4> QED
        BY <1>1, <2>0, <3>1, <4>1, TokenColumns
    <3> QED
      BY <2>1, <3>3, <3>4, <3>5
  <2>2. ASSUME NEW r \in Request, IssueToken(r)
        PROVE  token'[k].revoked
    <3>1. PICK j \in Token \ issued, scope \in {"read", "write"} :
            token' = [token EXCEPT ![j] = NewToken(req[r].user, scope)]
      BY <2>2 DEF IssueToken
    <3> QED
      BY <1>1, <2>0, <3>1 DEF IInv, TablesOK
  <2>3. ASSUME NEW r \in Request, DeleteAccount(r)
        PROVE  token'[k].revoked
    BY <1>1, <2>3 DEF DeleteAccount, TokensLeft
  <2>4. CASE TokenAges
    <3>1. PICK j \in Token :
            \/ token' = [token EXCEPT ![j] = [token[j] EXCEPT !.stale = TRUE]]
            \/ token' = [token EXCEPT ![j] = [token[j] EXCEPT !.expired = TRUE]]
      BY <2>4 DEF TokenAges
    <3>2. token \in [Token -> Nullable(TokenRow)]
      BY <1>1 DEF IInv, TablesOK
    <3>3. CASE j # k
      BY <1>1, <3>1, <3>2, <3>3
    <3>4. CASE j = k
      <4>1. \/ token'[k] = [token[k] EXCEPT !.stale = TRUE]
            \/ token'[k] = [token[k] EXCEPT !.expired = TRUE]
        BY <3>1, <3>2, <3>4
      <4> QED
        BY <1>1, <2>0, <4>1, TokenColumns
    <3> QED
      BY <3>3, <3>4
  <2>5. ASSUME NEW r \in Request,
               \/ Refuse(r) \/ ByCookie(r) \/ ByToken(r) \/ UpdateProfile(r)
               \/ ChangePassword(r) \/ FindToken(r)
        PROVE  UNCHANGED token
    BY <2>5 DEF Refuse, ByCookie, ByToken, UpdateProfile, ChangePassword, FindToken
  <2>6. CASE Register \/ Login \/ LoseCookie \/ UNCHANGED vars
    BY <1>1, <2>6 DEF Register, Login, LoseCookie, vars
  <2> QED
    BY <1>1, <2>1, <2>2, <2>3, <2>4, <2>5, <2>6 DEF Next, Step
<1>2. IInv /\ [Next]_vars => IInv'
  BY IInvStep
<1>3. IInv /\ [Next]_vars =>
        [\A k \in Token : token[k] # Null /\ token'[k] # Null
                            => (token[k].revoked => token'[k].revoked)]_vars
  BY <1>1
<1> QED
  BY <1>2, <1>3, IInvInit, PTL DEF Spec, RevocationIsFinal

\* The stamp of a token fails once its row is gone, and the row goes with the
\* account: whoever gets past it has not been deleted.
THEOREM ActiveWhenLetIn ==
  ASSUME NullIsNoRow
  PROVE  Spec => SignedInAreActive
<1>1. ASSUME IInv, [Next]_vars, NEW r \in Request,
             req'[r].at = "signed.in", req[r].at # "signed.in"
      PROVE  account[req'[r].user].active
  <2>1. ASSUME NEW q \in Request, Step(q)
        PROVE  r = q
    <3>1. \E there : Goto(q, there)
      BY <2>1, Zenon DEF Step, Refuse, ByCookie, ByToken, TouchToken, UpdateProfile, ChangePassword,
         DeleteAccount, IssueToken, FindToken, RevokeToken, LetIn, Finish
    <3> QED
      BY <1>1, <3>1 DEF Goto, IInv
  <2>2. ASSUME NEW u \in User, NEW writes, LetIn(r, u, writes)
        PROVE  req'[r].user = u
    BY <1>1, <2>2 DEF LetIn, Goto, SignedIn, Idle, IInv
  <2>3. CASE ByCookie(r)
    BY <1>1, <2>3 DEF ByCookie, Goto, SignedIn, IInv
  <2>4. CASE ByToken(r)
    <3>1. PICK k \in Token, writes \in BOOLEAN :
            /\ Usable(k)
            /\ IF token[k].stale
               THEN Goto(r, [at |-> "touch", token |-> k, loaded |-> token[k], writes |-> writes])
               ELSE LetIn(r, token[k].user, writes)
      BY <2>4 DEF ByToken
    <3>2. ~token[k].stale
      <4> SUFFICES ASSUME token[k].stale
                   PROVE  FALSE
        OBVIOUS
      <4> DEFINE there == [at |-> "touch", token |-> k, loaded |-> token[k], writes |-> writes]
      <4>1. Goto(r, there) /\ there.at = "touch"
        BY <3>1
      <4> HIDE DEF there
      <4> QED
        BY <1>1, <4>1 DEF Goto, IInv
    <3>3. token[k].user \in User /\ account[token[k].user].active
      BY <1>1, <3>1 DEF Usable, IInv, TablesOK, Registered
    <3> QED
      BY <2>2, <3>1, <3>2, <3>3
  <2>5. CASE TouchToken(r)
    <3>1. /\ At(r, "touch") /\ token[req[r].token] # Null
          /\ LetIn(r, req[r].loaded.user, req[r].writes)
      BY <2>5 DEF TouchToken
    <3>0. req[r].loaded \in TokenRow
      BY <1>1, <3>1, LoadedRow
    <3>2. account[req[r].loaded.user].active
      BY <1>1, <3>1 DEF IInv, RequestOK
    <3>3. req[r].loaded.user \in User
      BY <3>0 DEF TokenRow
    <3> QED
      BY <2>2, <3>1, <3>2, <3>3
  <2>6. CASE Refuse(r) \/ UpdateProfile(r) \/ ChangePassword(r) \/ DeleteAccount(r)
               \/ IssueToken(r) \/ RevokeToken(r)
    <3>1. req'[r] = Idle
      <4>1. Finish(r)
        BY <2>6, Zenon DEF Refuse, UpdateProfile, ChangePassword, DeleteAccount, IssueToken,
           RevokeToken
      <4> QED
        BY <1>1, <4>1 DEF Finish, Goto, IInv
    <3> QED
      BY <1>1, <3>1 DEF Idle
  <2>7. CASE FindToken(r)
    BY <1>1, <2>7 DEF FindToken, Goto, IInv
  <2>8. CASE Register \/ Login \/ LoseCookie \/ TokenAges \/ UNCHANGED vars
    BY <1>1, <2>8 DEF Register, Login, LoseCookie, TokenAges, vars
  <2> QED
    BY <1>1, <2>1, <2>3, <2>4, <2>5, <2>6, <2>7, <2>8 DEF Next, Step
<1>2. IInv /\ [Next]_vars => IInv'
  BY IInvStep
<1>3. IInv /\ [Next]_vars =>
        [\A r \in Request :
           req'[r].at = "signed.in" /\ req[r].at # "signed.in"
             => account[req'[r].user].active]_vars
  BY <1>1
<1> QED
  BY <1>2, <1>3, IInvInit, PTL DEF Spec, SignedInAreActive
=============================================================================
