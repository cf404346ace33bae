----------------------------- MODULE PagesProofs -----------------------------
(* Connecting GitHub for any number of projects, installations and requests,   *)
(* then what else is behind the project's pages: reports, chat and files.       *)
EXTENDS Pages, TLAPS

\* SQL NULL is not a row, an installation or a state.
NullIsNothing == Null \notin Row \union Installation \union ConnectState

TablesOK ==
  /\ owners \in [Project -> SUBSET User]
  /\ state \in [State -> Nullable(ConnectState)]
  /\ known \subseteq Installation
  /\ binding \in [Project -> Nullable(Installation)]
  /\ repo \in [Project -> [Repo -> Nullable(Row)]]

\* Every row belongs to the installation its project is bound to.
RowsOfBinding ==
  \A p \in Project, g \in Repo : repo[p][g] # Null => repo[p][g].installation = binding[p]

\* What a request has loaded is still there.
StillThere(r, p) == \A g \in Repo : req[r].loaded[g] # Null => repo[p][g] # Null

RequestOK(r) ==
  /\ At(r, "claim") \/ PastClaim(r) => Of(r) # Null
  /\ PastClaim(r) => Of(r).life = "used"
  /\ req[r].at \in {"bind", "save"} => Of(r).pending \in known
  /\ At(r, "save") => binding[Of(r).project] = Of(r).pending /\ StillThere(r, Of(r).project)
  /\ At(r, "disconnect") => StillThere(r, req[r].project)

IInv ==
  /\ TablesOK
  /\ RowsOfBinding
  /\ req \in [Request -> RequestState]
  /\ \A r \in Request : RequestOK(r)
  /\ \A r, q \in Request : PastClaim(r) /\ PastClaim(q) /\ r # q => req[r].state # req[q].state

\* What no step takes back.
Kept ==
  /\ \A s \in State : state[s] # Null =>
       /\ state'[s] # Null
       /\ state'[s].project = state[s].project
       /\ state'[s].pending = state[s].pending
       /\ state[s].life = "used" => state'[s].life = "used"
  /\ known \subseteq known'
  /\ \A p \in Project : binding[p] # Null => binding'[p] = binding[p]
  /\ \A p \in Project, g \in Repo : repo[p][g] # Null => repo'[p][g] # Null

\* What a step does to the tables.
TableStep == TablesOK' /\ RowsOfBinding' /\ Kept

----------------------------------------------------------------------------
(* Lemmas *)

LEMMA TablesUnchanged ==
  ASSUME IInv, UNCHANGED tables
  PROVE  TableStep
BY DEF IInv, TableStep, tables, TablesOK, RowsOfBinding, Kept

\* The state a request carries has been issued, with a project of its own.
LEMMA Carried ==
  ASSUME IInv, NEW r \in Request, At(r, "claim") \/ PastClaim(r)
  PROVE  /\ req[r].state \in State
         /\ Of(r) \in ConnectState /\ Of(r).project \in Project
<1>1. req[r].state \in State
  BY DEF IInv, At, PastClaim, RequestState, Endpoint, Idle
<1>2. Of(r) # Null
  BY DEF IInv, RequestOK
<1>3. Of(r) \in ConnectState
  BY <1>1, <1>2 DEF IInv, TablesOK, Of, Nullable
<1> QED
  BY <1>1, <1>3 DEF ConnectState

\* The steps of others do not disturb a request.
LEMMA Undisturbed ==
  ASSUME IInv, NullIsNothing, TableStep, NEW q \in Request, req'[q] = req[q]
  PROVE  RequestOK(q)'
<1>1. RequestOK(q)
  BY DEF IInv
<1>2. req[q] \in RequestState
  BY DEF IInv
<1>3. CASE At(q, "claim") \/ PastClaim(q)
  <2>1. /\ req[q].state \in State /\ Of(q) # Null
        /\ Of(q) \in ConnectState /\ Of(q).project \in Project
    BY <1>1, <1>3, Carried DEF RequestOK
  <2>2. /\ Of(q)' # Null /\ Of(q)'.project = Of(q).project
        /\ Of(q)'.pending = Of(q).pending
        /\ Of(q).life = "used" => Of(q)'.life = "used"
    BY <2>1 DEF TableStep, Kept, Of
  <2>3. CASE At(q, "save")
    <3>1. Of(q).pending \in known /\ binding[Of(q).project] = Of(q).pending
      BY <1>1, <2>3 DEF RequestOK, At
    <3>2. Of(q).pending # Null
      BY <3>1 DEF NullIsNothing, IInv, TablesOK
    <3>3. binding'[Of(q).project] = Of(q).pending
      BY <2>1, <3>1, <3>2 DEF TableStep, Kept
    <3>4. StillThere(q, Of(q).project)
      BY <1>1, <2>3 DEF RequestOK
    <3>5. \A g \in Repo : req'[q].loaded[g] # Null => repo'[Of(q).project][g] # Null
      BY <2>1, <3>4 DEF StillThere, TableStep, Kept
    <3> QED
      BY <1>1, <2>2, <2>3, <3>1, <3>3, <3>5 DEF RequestOK, At, PastClaim, StillThere, TableStep,
         Kept, Endpoint
  <2>4. CASE ~At(q, "save")
    BY <1>1, <1>3, <2>2, <2>4 DEF RequestOK, At, PastClaim, TableStep, Kept, Endpoint
  <2> QED
    BY <2>3, <2>4
<1>4. CASE At(q, "disconnect")
  <2>1. req[q].project \in Project
    BY <1>2, <1>4 DEF RequestState, At, Endpoint, Idle
  <2>2. StillThere(q, req[q].project)'
    BY <1>1, <1>4, <2>1 DEF RequestOK, StillThere, TableStep, Kept
  <2> QED
    BY <1>4, <2>2 DEF RequestOK, At, PastClaim, Endpoint
<1>5. CASE ~(At(q, "claim") \/ PastClaim(q)) /\ ~At(q, "disconnect")
  BY <1>5 DEF RequestOK, At, PastClaim, Endpoint
<1> QED
  BY <1>3, <1>4, <1>5

\* A request goes on with the state it has claimed, or with none.
LEMMA Proceed ==
  ASSUME IInv, NullIsNothing, TableStep, NEW r \in Request, NEW there \in RequestState,
         Goto(r, there), RequestOK(r)',
         there.at \in Endpoint \union {"recorded", "bind", "save"} =>
           \A q \in Request \ {r} : PastClaim(q) => req[q].state # there.state
  PROVE  IInv'
<1>1. /\ req' \in [Request -> RequestState]
      /\ req'[r] = there
      /\ \A q \in Request \ {r} : req'[q] = req[q]
  BY DEF Goto, IInv
<1>2. \A q \in Request : RequestOK(q)'
  BY <1>1, Undisturbed
<1>3. \A q \in Request \ {r} : PastClaim(q)' = PastClaim(q)
  BY <1>1 DEF PastClaim
<1>4. PastClaim(r)' <=> there.at \in Endpoint \union {"recorded", "bind", "save"}
  BY <1>1 DEF PastClaim
<1>5. ASSUME NEW p \in Request, NEW q \in Request, p # q, PastClaim(p)', PastClaim(q)'
      PROVE  req'[p].state # req'[q].state
  <2>1. CASE p # r /\ q # r
    BY <1>1, <1>3, <1>5, <2>1 DEF IInv
  <2>2. CASE p = r \/ q = r
    BY <1>1, <1>3, <1>4, <1>5, <2>2
  <2> QED
    BY <2>1, <2>2
<1> QED
  BY <1>1, <1>2, <1>5 DEF IInv, TableStep

LEMMA IdleOK ==
  ASSUME IInv, NullIsNothing, TableStep, NEW r \in Request, Finish(r)
  PROVE  IInv'
<1>1. Idle \in RequestState /\ Idle.at = "idle"
  BY DEF RequestState, Idle
<1>2. req'[r] = Idle
  BY DEF Finish, Goto, IInv
<1>3. RequestOK(r)'
  BY <1>1, <1>2 DEF RequestOK, At, PastClaim, Endpoint
<1> QED
  BY <1>1, <1>3, Proceed DEF Finish, Endpoint

LEMMA OthersStep ==
  ASSUME IInv, NullIsNothing, TableStep, UNCHANGED req
  PROVE  IInv'
BY Undisturbed DEF IInv, TableStep, PastClaim

\* A new state, and nothing else.
LEMMA IssueStep ==
  ASSUME IInv, NullIsNothing, NEW p \in Project, NEW u \in User,
         NEW pending \in Nullable(Installation), Issue(p, u, pending),
         UNCHANGED <<owners, known, binding, repo>>
  PROVE  TableStep
<1>1. [project |-> p, user |-> u, pending |-> pending, life |-> "fresh"] \in ConnectState
  BY DEF ConnectState
<1> QED
  BY <1>1 DEF Issue, IInv, TableStep, TablesOK, RowsOfBinding, Kept, Nullable

\* What a row becomes when its column active is written.
LEMMA StaysRow ==
  ASSUME NEW now \in Row, NEW loaded, NEW on \in BOOLEAN
  PROVE  /\ SetActive(now, loaded, on) \in Row
         /\ SetActive(now, loaded, on).installation = now.installation
BY DEF SetActive, Column, Row

----------------------------------------------------------------------------
(* The inductive invariant *)

LEMMA StateSteps ==
  ASSUME IInv, NullIsNothing, NEW r \in Request,
         StartConnect(r) \/ Bring(r) \/ Claim(r) \/ Refuse(r)
  PROVE  IInv'
<1>1. CASE StartConnect(r)
  <2>1. PICK p \in Project : \E u \in owners[p] : Issue(p, u, Null)
    BY <1>1 DEF StartConnect
  <2>2. PICK u \in User : Issue(p, u, Null)
    BY <2>1 DEF IInv, TablesOK
  <2>3. Null \in Nullable(Installation)
    BY DEF Nullable
  <2>4. TableStep
    BY <1>1, <2>2, <2>3, IssueStep DEF StartConnect
  <2> QED
    BY <1>1, <2>4, OthersStep DEF StartConnect
<1>2. CASE Bring(r)
  <2>1. TableStep
    BY <1>2, TablesUnchanged DEF Bring
  <2>2. PICK s \in State, for \in Endpoint :
          Valid(s) /\ Goto(r, [at |-> "claim", state |-> s, for |-> for])
    BY <1>2 DEF Bring
  <2> DEFINE there == [at |-> "claim", state |-> s, for |-> for]
  <2>3. there \in RequestState /\ there.at = "claim" /\ there.state = s
    BY DEF RequestState
  <2> HIDE DEF there
  <2>4. req'[r] = there /\ Goto(r, there)
    BY <2>2 DEF Goto, IInv, there
  <2>5. state'[s] # Null
    BY <1>2, <2>2 DEF Bring, Valid, tables
  <2>6. RequestOK(r)'
    BY <2>3, <2>4, <2>5 DEF RequestOK, At, PastClaim, Of, Endpoint
  <2> QED
    BY <2>1, <2>3, <2>4, <2>6, Proceed DEF Endpoint
<1>3. CASE Claim(r)
  <2> DEFINE s == req[r].state
             there == [at |-> req[r].for, state |-> s]
  <2>1. s \in State /\ state[s] \in ConnectState
    BY <1>3, Carried DEF Claim, Of
  <2>2. req[r].for \in Endpoint
    BY <1>3 DEF Claim, At, IInv, RequestState, Endpoint, Idle
  <2>3. /\ [state[s] EXCEPT !.life = "used"] \in ConnectState
        /\ state'[s] = [state[s] EXCEPT !.life = "used"]
        /\ state' = [state EXCEPT ![s].life = "used"]
    BY <1>3, <2>1 DEF Claim, IInv, TablesOK, ConnectState
  <2>4. /\ state'[s].project = state[s].project
        /\ state'[s].pending = state[s].pending
        /\ state'[s].life = "used"
        /\ state'[s] # Null
    BY <2>1, <2>3 DEF ConnectState, NullIsNothing
  <2>5. \A x \in State \ {s} : state'[x] = state[x]
    BY <2>3 DEF IInv, TablesOK
  <2>6. state' \in [State -> Nullable(ConnectState)]
    BY <2>1, <2>3 DEF IInv, TablesOK, Nullable
  <2>7. TableStep
    BY <1>3, <2>4, <2>5, <2>6 DEF Claim, IInv, TableStep, TablesOK, RowsOfBinding, Kept
  <2>8. there \in RequestState /\ there.at \in Endpoint /\ there.state = s
    BY <2>1, <2>2 DEF RequestState
  <2>9. Goto(r, there) /\ Unused(s)
    BY <1>3 DEF Claim
  <2>10. \A q \in Request \ {r} : PastClaim(q) => req[q].state # s
    BY <2>9 DEF IInv, RequestOK, Unused, Of
  <2> HIDE DEF there, s
  <2>11. req'[r] = there
    BY <2>9 DEF Goto, IInv
  <2>12. RequestOK(r)'
    BY <2>4, <2>8, <2>11 DEF RequestOK, At, PastClaim, Of, Endpoint
  <2> QED
    BY <2>7, <2>8, <2>9, <2>10, <2>12, Proceed
<1>4. CASE Refuse(r)
  BY <1>4, TablesUnchanged, IdleOK DEF Refuse
<1> QED
  BY <1>1, <1>2, <1>3, <1>4

LEMMA ReturnSteps ==
  ASSUME IInv, NullIsNothing, NEW r \in Request,
         Setup(r) \/ RecordInstallation(r) \/ IssueSelection(r) \/ Choose(r)
  PROVE  IInv'
<1> DEFINE s == req[r].state
<1>0. /\ PastClaim(r) /\ s \in State /\ Of(r) \in ConnectState /\ Of(r) # Null
      /\ Of(r).life = "used"
      /\ \A q \in Request \ {r} : PastClaim(q) => req[q].state # s
  <2>1. PastClaim(r)
    BY DEF Setup, RecordInstallation, IssueSelection, Choose, At, PastClaim, Endpoint
  <2> QED
    BY <2>1, Carried DEF IInv, RequestOK
<1>typ. Of(r).project \in Project /\ Of(r).user \in User /\ Of(r).pending \in Nullable(Installation)
  BY <1>0 DEF ConnectState
<1>1. CASE Setup(r)
  <2>1. PICK i \in Installation : Issue(Of(r).project, Of(r).user, i)
    BY <1>1 DEF Setup
  <2>2. i \in Nullable(Installation)
    BY DEF Nullable
  <2>3. TableStep
    BY <1>1, <1>typ, <2>1, <2>2, IssueStep DEF Setup
  <2> QED
    BY <1>1, <2>3, IdleOK DEF Setup
<1>2. CASE RecordInstallation(r)
  <2> DEFINE there == [at |-> "recorded", state |-> s]
  <2>1. TableStep
    BY <1>2, <1>typ DEF RecordInstallation, Recorded, IInv, TableStep, TablesOK, RowsOfBinding,
       Kept, Nullable
  <2>2. there \in RequestState /\ there.at = "recorded" /\ there.state = s
    BY <1>0 DEF RequestState
  <2>3. Goto(r, there)
    BY <1>2 DEF RecordInstallation
  <2> HIDE DEF there, s
  <2>4. req'[r] = there
    BY <2>3 DEF Goto, IInv
  <2>5. RequestOK(r)'
    BY <1>0, <1>2, <2>2, <2>4 DEF RecordInstallation, RequestOK, At, PastClaim, Of, Endpoint, s
  <2> QED
    BY <1>0, <2>1, <2>2, <2>3, <2>5, Proceed
<1>3. CASE IssueSelection(r)
  <2>1. TableStep
    BY <1>3, <1>typ, IssueStep DEF IssueSelection
  <2> QED
    BY <1>3, <2>1, IdleOK DEF IssueSelection
<1>4. CASE Choose(r)
  <2>1. PICK chosen \in SUBSET Repo :
          Goto(r, [at |-> "bind", state |-> s, chosen |-> chosen])
    BY <1>4 DEF Choose
  <2> DEFINE there == [at |-> "bind", state |-> s, chosen |-> chosen]
  <2>2. TableStep
    BY <1>4, TablesUnchanged DEF Choose
  <2>3. there \in RequestState /\ there.at = "bind" /\ there.state = s
    BY <1>0 DEF RequestState
  <2>4. Goto(r, there)
    BY <2>1
  <2> HIDE DEF there, s
  <2>5. req'[r] = there
    BY <2>4 DEF Goto, IInv
  <2>6. Of(r).pending \in known /\ UNCHANGED tables
    BY <1>4 DEF Choose, Selectable
  <2>7. RequestOK(r)'
    BY <1>0, <2>3, <2>5, <2>6 DEF RequestOK, At, PastClaim, Of, Endpoint, tables, s
  <2> QED
    BY <1>0, <2>2, <2>3, <2>4, <2>7, Proceed
<1> QED
  BY <1>1, <1>2, <1>3, <1>4

LEMMA BindingSteps ==
  ASSUME IInv, NullIsNothing, NEW r \in Request,
         FirstBinding(r) \/ FindBinding(r) \/ SaveSelection(r)
  PROVE  IInv'
<1> DEFINE s == req[r].state
           p == Of(r).project
           i == Of(r).pending
<1>0. /\ PastClaim(r) /\ req[r].at \in {"bind", "save"}
      /\ s \in State /\ Of(r) \in ConnectState /\ Of(r) # Null
      /\ p \in Project /\ i \in known /\ i \in Installation /\ i # Null
      /\ Of(r).life = "used"
      /\ \A q \in Request \ {r} : PastClaim(q) => req[q].state # s
  <2>1. PastClaim(r) /\ req[r].at \in {"bind", "save"}
    BY DEF FirstBinding, FindBinding, SaveSelection, At, PastClaim, Endpoint
  <2>2. i \in known
    BY <2>1 DEF IInv, RequestOK
  <2> QED
    BY <2>1, <2>2, Carried DEF IInv, RequestOK, TablesOK, NullIsNothing
<1>chosen. req[r].chosen \in SUBSET Repo
  BY <1>0 DEF IInv, RequestState, Endpoint, Idle
<1>1. CASE FirstBinding(r)
  <2> DEFINE chosen == req[r].chosen
             rows == [g \in Repo |->
                IF g \in chosen THEN [installation |-> i, active |-> TRUE]
                ELSE IF repo[p][g] = Null THEN Null ELSE [repo[p][g] EXCEPT !.active = FALSE]]
  <2>1. /\ binding[p] = Null
        /\ binding' = [binding EXCEPT ![p] = i]
        /\ repo' = [repo EXCEPT ![p] = rows]
        /\ UNCHANGED <<owners, state, known>> /\ Finish(r)
    BY <1>1 DEF FirstBinding, Unbound
  <2>2. \A g \in Repo : repo[p][g] = Null
    <3> SUFFICES ASSUME NEW g \in Repo, repo[p][g] # Null
                 PROVE  FALSE
      OBVIOUS
    <3>1. repo[p][g] \in Row
      BY <1>0 DEF IInv, TablesOK, Nullable
    <3>2. repo[p][g].installation = Null
      BY <1>0, <2>1 DEF IInv, RowsOfBinding
    <3> QED
      BY <3>1, <3>2 DEF Row, NullIsNothing
  <2>3. \A g \in Repo : rows[g] = IF g \in chosen THEN [installation |-> i, active |-> TRUE] ELSE Null
    BY <2>2
  <2>4. [installation |-> i, active |-> TRUE] \in Row
    BY <1>0 DEF Row
  <2>5. rows \in [Repo -> Nullable(Row)]
    BY <2>3, <2>4 DEF Nullable
  <2>6. \A g \in Repo : rows[g] # Null => rows[g].installation = i
    BY <2>3
  <2> HIDE DEF rows
  <2>7. TablesOK' /\ binding'[p] = i /\ repo'[p] = rows
    BY <1>0, <2>1, <2>5 DEF IInv, TablesOK, Nullable
  <2>8. \A x \in Project \ {p} : binding'[x] = binding[x] /\ repo'[x] = repo[x]
    BY <2>1 DEF IInv, TablesOK
  <2>9. RowsOfBinding'
    <3> SUFFICES ASSUME NEW x \in Project, NEW g \in Repo, repo'[x][g] # Null
                 PROVE  repo'[x][g].installation = binding'[x]
      BY DEF RowsOfBinding
    <3>1. CASE x = p
      BY <2>6, <2>7, <3>1
    <3>2. CASE x # p
      BY <2>8, <3>2 DEF IInv, RowsOfBinding
    <3> QED
      BY <3>1, <3>2
  <2>10. Kept
    BY <2>1, <2>2, <2>8 DEF Kept
  <2>11. TableStep
    BY <2>7, <2>9, <2>10 DEF TableStep
  <2> QED
    BY <2>1, <2>11, IdleOK
<1>2. CASE FindBinding(r)
  <2> DEFINE there == [at |-> "save", state |-> s, chosen |-> req[r].chosen,
                       loaded |-> repo[p]]
  <2>1. TableStep
    BY <1>2, TablesUnchanged DEF FindBinding
  <2>2. repo[p] \in [Repo -> Nullable(Row)]
    BY <1>0 DEF IInv, TablesOK
  <2>3. there \in RequestState
    BY <1>0, <1>chosen, <2>2 DEF RequestState
  <2>4. there.at = "save" /\ there.state = s /\ there.loaded = repo[p]
    OBVIOUS
  <2>5. Goto(r, there) /\ binding[p] = i /\ UNCHANGED tables
    BY <1>2 DEF FindBinding, Agrees
  <2> HIDE DEF there
  <2>6. req'[r] = there
    BY <2>5 DEF Goto, IInv
  <2>7. RequestOK(r)'
    BY <1>0, <2>4, <2>5, <2>6 DEF RequestOK, At, PastClaim, Of, Endpoint, tables, StillThere
  <2> HIDE DEF s, p, i
  <2> QED
    BY <1>0, <2>1, <2>3, <2>4, <2>5, <2>7, Proceed
<1>3. CASE SaveSelection(r)
  <2> DEFINE chosen == req[r].chosen
             loaded == req[r].loaded
             rows == [g \in Repo |->
                IF loaded[g] # Null THEN SetActive(repo[p][g], loaded[g], g \in chosen)
                ELSE IF g \in chosen THEN [installation |-> i, active |-> TRUE]
                ELSE repo[p][g]]
  <2>1. /\ repo' = [repo EXCEPT ![p] = rows]
        /\ UNCHANGED <<owners, state, known, binding>> /\ Finish(r)
    BY <1>3 DEF SaveSelection
  <2>2. binding[p] = i /\ \A g \in Repo : loaded[g] # Null => repo[p][g] # Null
    BY <1>3 DEF SaveSelection, IInv, RequestOK, StillThere
  <2>3. ASSUME NEW g \in Repo
        PROVE  /\ rows[g] \in Nullable(Row)
               /\ rows[g] # Null => rows[g].installation = i
               /\ repo[p][g] # Null => rows[g] # Null
    <3>1. /\ repo[p][g] \in Nullable(Row)
          /\ repo[p][g] # Null => repo[p][g].installation = i
      BY <1>0, <2>2 DEF IInv, TablesOK, RowsOfBinding
    <3>2. ASSUME loaded[g] # Null
          PROVE  rows[g] \in Row /\ rows[g].installation = i
      <4>1. repo[p][g] \in Row /\ repo[p][g].installation = i
        BY <2>2, <3>1, <3>2 DEF Nullable
      <4>2. rows[g] = SetActive(repo[p][g], loaded[g], g \in chosen)
        BY <3>2
      <4>3. (g \in chosen) \in BOOLEAN
        OBVIOUS
      <4> QED
        BY <4>1, <4>2, <4>3, StaysRow
    <3>3. ASSUME loaded[g] = Null, g \in chosen
          PROVE  rows[g] \in Row /\ rows[g].installation = i
      BY <1>0, <3>3 DEF Row
    <3>4. ASSUME loaded[g] = Null, g \notin chosen
          PROVE  rows[g] = repo[p][g]
      BY <3>4
    <3>5. (rows[g] \in Row /\ rows[g].installation = i) \/ rows[g] = repo[p][g]
      BY <3>2, <3>3, <3>4
    <3> HIDE DEF rows
    <3> QED
      BY <3>1, <3>5 DEF Nullable, NullIsNothing
  <2>4. rows \in [Repo -> Nullable(Row)]
    BY <2>3
  <2> HIDE DEF rows
  <2>5. TablesOK' /\ repo'[p] = rows
    BY <1>0, <2>1, <2>4 DEF IInv, TablesOK
  <2>6. \A x \in Project \ {p} : repo'[x] = repo[x]
    BY <2>1 DEF IInv, TablesOK
  <2>7. RowsOfBinding'
    <3> SUFFICES ASSUME NEW x \in Project, NEW g \in Repo, repo'[x][g] # Null
                 PROVE  repo'[x][g].installation = binding'[x]
      BY DEF RowsOfBinding
    <3>1. CASE x = p
      BY <2>1, <2>2, <2>3, <2>5, <3>1
    <3>2. CASE x # p
      BY <2>1, <2>6, <3>2 DEF IInv, RowsOfBinding
    <3> QED
      BY <3>1, <3>2
  <2>8. Kept
    BY <2>1, <2>3, <2>5, <2>6 DEF Kept
  <2> QED
    BY <2>1, <2>5, <2>7, <2>8, IdleOK DEF TableStep
<1> QED
  BY <1>1, <1>2, <1>3

LEMMA DisconnectSteps ==
  ASSUME IInv, NullIsNothing, NEW r \in Request, Disconnect(r) \/ WriteDisconnect(r)
  PROVE  IInv'
<1>1. CASE Disconnect(r)
  <2>1. PICK p \in Project :
          Goto(r, [at |-> "disconnect", project |-> p, loaded |-> repo[p]])
    BY <1>1 DEF Disconnect
  <2> DEFINE there == [at |-> "disconnect", project |-> p, loaded |-> repo[p]]
  <2>2. TableStep
    BY <1>1, TablesUnchanged DEF Disconnect
  <2>3. repo[p] \in [Repo -> Nullable(Row)]
    BY DEF IInv, TablesOK
  <2>4. there \in RequestState
    BY <2>3 DEF RequestState
  <2>5. there.at = "disconnect" /\ there.project = p /\ there.loaded = repo[p]
    OBVIOUS
  <2>6. Goto(r, there) /\ UNCHANGED tables
    BY <1>1, <2>1 DEF Disconnect
  <2> HIDE DEF there
  <2>7. req'[r] = there
    BY <2>4, <2>6 DEF Goto, IInv
  <2>8. RequestOK(r)'
    BY <2>5, <2>6, <2>7 DEF RequestOK, At, PastClaim, Endpoint, tables, StillThere
  <2> QED
    BY <2>2, <2>4, <2>5, <2>6, <2>8, Proceed DEF Endpoint
<1>2. CASE WriteDisconnect(r)
  <2> DEFINE p == req[r].project
             loaded == req[r].loaded
             rows == [g \in Repo |->
               IF loaded[g] = Null THEN repo[p][g] ELSE SetActive(repo[p][g], loaded[g], FALSE)]
  <2>1. /\ repo' = [repo EXCEPT ![p] = rows]
        /\ UNCHANGED <<owners, state, known, binding>> /\ Finish(r)
    BY <1>2 DEF WriteDisconnect
  <2>2. p \in Project /\ \A g \in Repo : loaded[g] # Null => repo[p][g] # Null
    <3>1. At(r, "disconnect") /\ req[r] \in RequestState
      BY <1>2 DEF WriteDisconnect, IInv
    <3> QED
      BY <3>1 DEF At, IInv, RequestOK, RequestState, StillThere, Endpoint, Idle
  <2>3. ASSUME NEW g \in Repo
        PROVE  /\ rows[g] \in Nullable(Row)
               /\ rows[g] # Null => rows[g].installation = binding[p]
               /\ repo[p][g] # Null => rows[g] # Null
    <3>1. /\ repo[p][g] \in Nullable(Row)
          /\ repo[p][g] # Null => repo[p][g].installation = binding[p]
      BY <2>2 DEF IInv, TablesOK, RowsOfBinding
    <3>2. ASSUME loaded[g] # Null
          PROVE  rows[g] \in Row /\ rows[g].installation = binding[p]
      <4>1. repo[p][g] \in Row /\ repo[p][g].installation = binding[p]
        BY <2>2, <3>1, <3>2 DEF Nullable
      <4>2. rows[g] = SetActive(repo[p][g], loaded[g], FALSE)
        BY <3>2
      <4> QED
        BY <4>1, <4>2, StaysRow
    <3>3. (rows[g] \in Row /\ rows[g].installation = binding[p]) \/ rows[g] = repo[p][g]
      BY <3>2
    <3> HIDE DEF rows
    <3> QED
      BY <3>1, <3>3 DEF Nullable, NullIsNothing
  <2>4. rows \in [Repo -> Nullable(Row)]
    BY <2>3
  <2> HIDE DEF rows
  <2>5. TablesOK' /\ repo'[p] = rows
    BY <2>1, <2>2, <2>4 DEF IInv, TablesOK
  <2>6. \A x \in Project \ {p} : repo'[x] = repo[x]
    BY <2>1 DEF IInv, TablesOK
  <2>7. RowsOfBinding'
    <3> SUFFICES ASSUME NEW x \in Project, NEW g \in Repo, repo'[x][g] # Null
                 PROVE  repo'[x][g].installation = binding'[x]
      BY DEF RowsOfBinding
    <3>1. CASE x = p
      BY <2>1, <2>3, <2>5, <3>1
    <3>2. CASE x # p
      BY <2>1, <2>6, <3>2 DEF IInv, RowsOfBinding
    <3> QED
      BY <3>1, <3>2
  <2>8. Kept
    BY <2>1, <2>3, <2>5, <2>6 DEF Kept
  <2> QED
    BY <2>1, <2>5, <2>7, <2>8, IdleOK DEF TableStep
<1> QED
  BY <1>1, <1>2

LEMMA OtherSteps ==
  ASSUME IInv, NullIsNothing, ChangeOwner \/ Expire \/ Removed
  PROVE  IInv'
<1>1. CASE ChangeOwner
  BY <1>1, OthersStep DEF ChangeOwner, IInv, TableStep, TablesOK, RowsOfBinding, Kept
<1>2. CASE Expire
  <2>1. PICK s \in State :
          /\ state[s] # Null /\ state[s].life = "fresh"
          /\ state' = [state EXCEPT ![s].life = "expired"]
    BY <1>2 DEF Expire
  <2>2. state[s] \in ConnectState
    BY <2>1 DEF IInv, TablesOK, Nullable
  <2>3. [state[s] EXCEPT !.life = "expired"] \in ConnectState
    BY <2>2 DEF ConnectState
  <2>4. /\ state'[s] = [state[s] EXCEPT !.life = "expired"]
        /\ \A x \in State \ {s} : state'[x] = state[x]
        /\ state' \in [State -> Nullable(ConnectState)]
    BY <2>1, <2>3 DEF IInv, TablesOK, Nullable
  <2>5. Kept
    BY <1>2, <2>1, <2>2, <2>3, <2>4 DEF Expire, Kept, ConnectState, NullIsNothing
  <2>6. TableStep
    BY <1>2, <2>4, <2>5 DEF Expire, IInv, TableStep, TablesOK, RowsOfBinding
  <2> QED
    BY <1>2, <2>6, OthersStep DEF Expire
<1>3. CASE Removed
  <2>1. PICK i \in Installation, R \in SUBSET Repo :
          repo' = [p \in Project |-> [g \in Repo |->
            IF g \in R /\ repo[p][g] # Null /\ repo[p][g].installation = i
            THEN [repo[p][g] EXCEPT !.active = FALSE]
            ELSE repo[p][g]]]
    BY <1>3 DEF Removed
  <2>2. ASSUME NEW p \in Project, NEW g \in Repo
        PROVE  \/ repo'[p][g] = repo[p][g]
               \/ /\ repo[p][g] # Null
                  /\ repo'[p][g] \in Row
                  /\ repo'[p][g].installation = repo[p][g].installation
    <3>1. repo[p][g] # Null => repo[p][g] \in Row
      BY DEF IInv, TablesOK, Nullable
    <3>2. repo'[p][g] \in {repo[p][g], [repo[p][g] EXCEPT !.active = FALSE]}
      BY <2>1
    <3>3. repo[p][g] = Null => repo'[p][g] = repo[p][g]
      BY <2>1
    <3> QED
      BY <3>1, <3>2, <3>3 DEF Row
  <2>3. repo' \in [Project -> [Repo -> Nullable(Row)]]
    <3>1. \A p \in Project, g \in Repo : repo'[p][g] \in Nullable(Row)
      BY <2>2 DEF IInv, TablesOK, Nullable
    <3> QED
      BY <2>1, <3>1
  <2>4. TableStep
    BY <1>3, <2>2, <2>3 DEF Removed, IInv, TableStep, TablesOK, RowsOfBinding, Kept, NullIsNothing
  <2> QED
    BY <1>3, <2>4, OthersStep DEF Removed
<1> QED
  BY <1>1, <1>2, <1>3

LEMMA IInvInit == Init => IInv
BY DEF Init, IInv, TablesOK, RowsOfBinding, RequestOK, RequestState, Idle, At, PastClaim,
   Endpoint, Nullable

LEMMA IInvStep ==
  ASSUME IInv, NullIsNothing, [Next]_vars
  PROVE  IInv'
<1>1. CASE UNCHANGED vars
  BY <1>1, TablesUnchanged, OthersStep DEF vars
<1>2. CASE Next
  BY <1>2, StateSteps, ReturnSteps, BindingSteps, DisconnectSteps, OtherSteps DEF Next, Step
<1> QED
  BY <1>1, <1>2

----------------------------------------------------------------------------
(* The properties *)

\* Rows and requests keep their types; SQL NULL is no row, installation or state.
THEOREM ConnectTyped ==
  ASSUME NullIsNothing
  PROVE  Spec => []TypeOK
<1>1. IInv => TypeOK
  BY DEF IInv, TypeOK, TablesOK, RequestOK
<1>2. IInv /\ [Next]_vars => IInv'
  BY IInvStep
<1> QED
  BY <1>1, <1>2, IInvInit, PTL DEF Spec

\* The conditional UPDATE lets one request through with each state, however many
\* bring it and whatever else happens to it.
THEOREM ServeOnce ==
  ASSUME NullIsNothing
  PROVE  Spec => []StatesServeOnce
<1>1. IInv => StatesServeOnce
  BY DEF IInv, StatesServeOnce, RequestOK
<1>2. IInv /\ [Next]_vars => IInv'
  BY IInvStep
<1> QED
  BY <1>1, <1>2, IInvInit, PTL DEF Spec

\* All rows of a project belong to one installation, the one that bound it.
THEOREM RowsOfOne ==
  ASSUME NullIsNothing
  PROVE  Spec => []OneInstallation
<1>1. IInv => OneInstallation
  BY DEF IInv, OneInstallation, RowsOfBinding, RequestOK
<1>2. IInv /\ [Next]_vars => IInv'
  BY IInvStep
<1> QED
  BY <1>1, <1>2, IInvInit, PTL DEF Spec

\* No selection or disconnection unbinds a project or binds it to another
\* installation.
THEOREM BoundForGood ==
  ASSUME NullIsNothing
  PROVE  Spec => BindingIsFinal
<1>1. ASSUME IInv, [Next]_vars, NEW p \in Project, binding[p] # Null
      PROVE  binding'[p] = binding[p]
  <2>1. ASSUME NEW r \in Request, FirstBinding(r)
        PROVE  binding'[p] = binding[p]
    <3>1. binding[Of(r).project] = Null
      BY <2>1 DEF FirstBinding, Unbound
    <3>2. binding' = [binding EXCEPT ![Of(r).project] = Of(r).pending]
      BY <2>1 DEF FirstBinding
    <3> QED
      BY <1>1, <3>1, <3>2 DEF IInv, TablesOK
  <2>2. ASSUME NEW r \in Request, Step(r), ~FirstBinding(r)
        PROVE  UNCHANGED binding
    BY <2>2 DEF Step, Refuse, StartConnect, Bring, Claim, Setup, RecordInstallation,
       IssueSelection,
       Choose, FindBinding, SaveSelection, Disconnect, WriteDisconnect, tables
  <2>3. CASE ChangeOwner \/ Expire \/ Removed \/ UNCHANGED vars
    BY <2>3 DEF ChangeOwner, Expire, Removed, vars, tables
  <2> QED
    BY <1>1, <2>1, <2>2, <2>3 DEF Next
<1>2. IInv /\ [Next]_vars => IInv'
  BY IInvStep
<1>3. IInv /\ [Next]_vars =>
        [\A p \in Project : binding[p] # Null => binding'[p] = binding[p]]_vars
  BY <1>1
<1> QED
  BY <1>2, <1>3, IInvInit, PTL DEF Spec, BindingIsFinal

----------------------------------------------------------------------------
(* Sprint reports *)

\* A sprint that is not closed has no report, and nobody has looked for one.
OnceClosed ==
  /\ report # Null => closed
  /\ \A r \in Request : Reports!At(r, "missing") => closed

ReportInv == Reports!TypeOK /\ OnceClosed

----------------------------------------------------------------------------
(* Lemmas *)

\* A new row is a report, and the marks of an author leave it one.
LEMMA NewReportType == Reports!NewReport \in Reports!Report
BY DEF Reports!NewReport, Reports!Report, Reports!Nullable

LEMMA MarkedType ==
  ASSUME NEW now \in Reports!Report, NEW author \in Reports!Author
  PROVE  /\ Reports!Marked(now, author) \in Reports!Report
         /\ Reports!Marked(now, author).text = now.text
         /\ Reports!Marked(now, author).finalized_by = now.finalized_by
BY DEF Reports!Marked, Reports!Report, Reports!Author, Reports!Nullable

\* What a save leaves in the report.
SavedText(changes, author) ==
  [f \in Field |-> IF f \in DOMAIN changes THEN [cites |-> changes[f], author |-> author]
                   ELSE report.text[f]]

LEMMA SavedReport ==
  ASSUME report \in Reports!Report, NEW changes \in Reports!Changes,
         NEW author \in Reports!Author,
         report' = [Reports!Marked(report, author) EXCEPT !.text = [f \in Field |->
            IF f \in DOMAIN changes THEN [cites |-> changes[f], author |-> author] ELSE @[f]]]
  PROVE  /\ report' \in Reports!Report
         /\ report'.text = SavedText(changes, author)
         /\ report'.generated_by = Reports!Marked(report, author).generated_by
         /\ report'.status = Reports!Marked(report, author).status
<1> DEFINE m == Reports!Marked(report, author)
           new == SavedText(changes, author)
<1>1. m \in Reports!Report /\ m.text = report.text
  BY MarkedType
<1>2. report' = [m EXCEPT !.text = new]
  BY <1>1 DEF Reports!Report, SavedText
<1>3. new \in [Field -> Reports!Nullable(Reports!Text)]
  <2>1. ASSUME NEW f \in Field
        PROVE  new[f] \in Reports!Nullable(Reports!Text)
    <3>1. CASE f \in DOMAIN changes
      <4>1. changes[f] \in SUBSET Fact
        BY <3>1 DEF Reports!Changes
      <4> QED
        BY <3>1, <4>1 DEF SavedText, Reports!Text, Reports!Nullable
    <3>2. CASE f \notin DOMAIN changes
      BY <3>2 DEF SavedText, Reports!Report
    <3> QED
      BY <3>1, <3>2
  <2> QED
    BY <2>1 DEF SavedText
<1> HIDE DEF m, new
<1> QED
  BY <1>1, <1>2, <1>3 DEF Reports!Report, m, new

\* The row looked at under the lock is a report that is not finalised yet.
LEMMA UnderLock ==
  ASSUME Reports!TypeOK, NEW r \in Request, Reports!Unfinalized(r)
  PROVE  report \in Reports!Report /\ report # Null /\ report.finalized_by = Null
BY DEF Reports!TypeOK, Reports!Unfinalized, Reports!Locked, Reports!Nullable

----------------------------------------------------------------------------
(* The inductive invariant *)

LEMMA EditingType ==
  ASSUME editing \in [Request -> Reports!RequestState], NEW r \in Request,
         NEW there \in Reports!RequestState,
         Reports!Goto(r, there)
  PROVE  /\ editing' \in [Request -> Reports!RequestState]
         /\ editing'[r] = there
         /\ \A q \in Request \ {r} : editing'[q] = editing[q]
BY DEF Reports!Goto

\* Requests go from point to point, and a report that is there stays there.
LEMMA StepTypes ==
  ASSUME ReportInv, Null \notin Reports!Report, NEW r \in Request, Reports!Step(r)
  PROVE  ReportInv'
<1> USE DEF ReportInv, Reports!TypeOK, OnceClosed
<1>idle. Reports!Idle \in Reports!RequestState /\ Reports!Idle.at = "idle"
  BY DEF Reports!RequestState, Reports!Idle
<1>1. CASE Reports!Load(r)
  <2>1. CASE report # Null
    <3> DEFINE there == [at |-> "loaded", report |-> report]
    <3>1. there \in Reports!RequestState /\ there.at = "loaded"
      BY <2>1 DEF Reports!RequestState, Reports!Nullable
    <3> HIDE DEF there
    <3> QED
      BY <1>1, <2>1, <3>1, EditingType DEF Reports!Load, Reports!At, there
  <2>2. CASE report = Null
    <3> DEFINE there == [at |-> "missing"]
    <3>1. there \in Reports!RequestState /\ there.at = "missing"
      BY DEF Reports!RequestState
    <3> HIDE DEF there
    <3> QED
      BY <1>1, <2>2, <3>1, EditingType DEF Reports!Load, Reports!At, there
  <2> QED
    BY <2>1, <2>2
<1>2. CASE Reports!Fill(r)
  <2> DEFINE there == [at |-> "loaded", report |-> report']
  <2>1. report' \in Reports!Report /\ report' # Null
    BY <1>2, NewReportType DEF Reports!Fill, Reports!Nullable
  <2>2. there \in Reports!RequestState /\ there.at = "loaded"
    BY <2>1 DEF Reports!RequestState
  <2> HIDE DEF there
  <2>3. closed /\ Reports!Goto(r, there) /\ UNCHANGED <<closed, facts>>
    BY <1>2 DEF Reports!Fill, Reports!At, there
  <2> QED
    BY <2>1, <2>2, <2>3, EditingType DEF Reports!At, Reports!Nullable
<1>3. ASSUME Reports!Unfinalized(r), Reports!Finish(r), report' \in Reports!Report, UNCHANGED <<closed, facts>>
      PROVE  ReportInv'
  BY <1>idle, <1>3, EditingType, UnderLock DEF Reports!Finish, Reports!At, Reports!Nullable
<1>4. CASE Reports!Save(r)
  <2>1. PICK changes \in Reports!Changes, author \in Reports!Author :
          report' = [Reports!Marked(Reports!Locked(r), author) EXCEPT !.text = [f \in Field |->
            IF f \in DOMAIN changes THEN [cites |-> changes[f], author |-> author] ELSE @[f]]]
    BY <1>4 DEF Reports!Save
  <2>2. report \in Reports!Report
    BY <1>4, UnderLock DEF Reports!Save
  <2>3. report' \in Reports!Report
    BY <2>1, <2>2, SavedReport DEF Reports!Locked
  <2> QED
    BY <1>3, <1>4, <2>3 DEF Reports!Save
<1>5. CASE Reports!Finalize(r)
  <2>1. report \in Reports!Report
    BY <1>5, UnderLock DEF Reports!Finalize
  <2>2. report' \in Reports!Report
    BY <1>5, <2>1 DEF Reports!Finalize, Reports!Locked, Reports!Report, Reports!Nullable
  <2> QED
    BY <1>3, <1>5, <2>2 DEF Reports!Finalize
<1>6. CASE Reports!Refuse(r)
  BY <1>idle, <1>6, EditingType DEF Reports!Refuse, Reports!Finish, Reports!At
<1> QED
  BY <1>1, <1>2, <1>4, <1>5, <1>6 DEF Reports!Step

LEMMA ReportStep ==
  ASSUME ReportInv, Null \notin Reports!Report, [Reports!Next]_(Reports!vars)
  PROVE  ReportInv'
<1>1. CASE Reports!Close
  BY <1>1, NewReportType DEF Reports!Close, ReportInv, Reports!TypeOK, OnceClosed,
     Reports!Nullable, Reports!At
<1>2. CASE Reports!ChangeFacts
  BY <1>2 DEF Reports!ChangeFacts, ReportInv, Reports!TypeOK, OnceClosed, Reports!At
<1>3. ASSUME NEW r \in Request, Reports!Step(r)
      PROVE  ReportInv'
  BY <1>3, StepTypes
<1>4. CASE UNCHANGED Reports!vars
  BY <1>4 DEF Reports!vars, ReportInv, Reports!TypeOK, OnceClosed, Reports!At
<1> QED
  BY <1>1, <1>2, <1>3, <1>4 DEF Reports!Next

LEMMA ReportInit == Reports!Init => ReportInv
BY DEF Reports!Init, ReportInv, Reports!TypeOK, OnceClosed, Reports!Nullable,
   Reports!RequestState, Reports!Idle, Reports!At

\* The report and the copies that requests hold keep their types; SQL NULL is no
\* report.
LEMMA ReportTyped ==
  ASSUME Null \notin Reports!Report
  PROVE  Reports!Spec => []Reports!TypeOK
<1>1. ReportInv /\ [Reports!Next]_(Reports!vars) => ReportInv'
  BY ReportStep
<1>2. ReportInv => Reports!TypeOK
  BY DEF ReportInv
<1> QED
  BY <1>1, <1>2, ReportInit, PTL DEF Reports!Spec

----------------------------------------------------------------------------
(* The properties *)

\* A finalised report never changes, whichever copies were loaded before: it is
\* read again under the lock, and closing the sprint comes before any report.
LEMMA ReportFrozen ==
  ASSUME Null \notin Reports!Report
  PROVE  Reports!Spec => Reports!FinalizedFrozen
<1>1. ASSUME ReportInv, [Reports!Next]_(Reports!vars), report # Null, report.finalized_by # Null
      PROVE  report' = report
  <2>1. CASE Reports!Close
    BY <1>1, <2>1 DEF Reports!Close, ReportInv, OnceClosed
  <2>2. CASE Reports!ChangeFacts
    BY <2>2 DEF Reports!ChangeFacts
  <2>3. ASSUME NEW r \in Request, Reports!Step(r)
        PROVE  report' = report
    <3>1. ~Reports!Unfinalized(r)
      BY <1>1, UnderLock DEF ReportInv
    <3>2. Reports!Load(r) \/ Reports!Fill(r) \/ Reports!Refuse(r)
      BY <2>3, <3>1 DEF Reports!Step, Reports!Save, Reports!Finalize
    <3> QED
      BY <1>1, <3>2 DEF Reports!Load, Reports!Fill, Reports!Refuse
  <2>4. CASE UNCHANGED Reports!vars
    BY <2>4 DEF Reports!vars
  <2> QED
    BY <1>1, <2>1, <2>2, <2>3, <2>4 DEF Reports!Next
<1>2. ReportInv /\ [Reports!Next]_(Reports!vars) => ReportInv'
  BY ReportStep
<1>3. ReportInv /\ [Reports!Next]_(Reports!vars) => [report # Null /\ report.finalized_by # Null => report' = report]_(Reports!vars)
  BY <1>1
<1> QED
  BY <1>2, <1>3, ReportInit, PTL DEF Reports!Spec, Reports!FinalizedFrozen

\* The mark of a text that a model drafted stays, whichever saves overlap.
LEMMA MarkedStep ==
  ASSUME ReportInv, Null \notin Reports!Report, Null \notin Reports!Author,
         Reports!DraftsAreMarked, [Reports!Next]_(Reports!vars)
  PROVE  Reports!DraftsAreMarked'
<1>1. ASSUME UNCHANGED report
      PROVE  Reports!DraftsAreMarked'
  BY <1>1 DEF Reports!DraftsAreMarked
<1>2. ASSUME report' = Reports!NewReport
      PROVE  Reports!DraftsAreMarked'
  BY <1>2 DEF Reports!DraftsAreMarked, Reports!NewReport
<1>3. ASSUME NEW r \in Request, Reports!Save(r)
      PROVE  Reports!DraftsAreMarked'
  <2>1. PICK changes \in Reports!Changes, author \in Reports!Author :
          report' = [Reports!Marked(Reports!Locked(r), author) EXCEPT !.text = [f \in Field |->
            IF f \in DOMAIN changes THEN [cites |-> changes[f], author |-> author] ELSE @[f]]]
    BY <1>3 DEF Reports!Save
  <2>2. report \in Reports!Report /\ report # Null
    BY <1>3, UnderLock DEF Reports!Save, ReportInv
  <2>3. /\ report'.text = SavedText(changes, author)
        /\ report'.generated_by = Reports!Marked(report, author).generated_by
        /\ report'.status = Reports!Marked(report, author).status
    BY <2>1, <2>2, SavedReport DEF Reports!Locked
  <2>4. CASE author = "MCP_CLIENT"
    BY <2>2, <2>3, <2>4 DEF Reports!DraftsAreMarked, Reports!Marked, Reports!Report
  <2>5. CASE author = "HUMAN"
    <3>1. ASSUME NEW f \in Field, report'.text[f] # Null,
                 report'.text[f].author = "MCP_CLIENT"
          PROVE  report.generated_by = "MCP_CLIENT" /\ report.status = "OK"
      <4>1. f \notin DOMAIN changes
        BY <2>3, <2>5, <3>1 DEF SavedText
      <4>2. report'.text[f] = report.text[f]
        BY <2>3, <4>1 DEF SavedText
      <4> QED
        BY <2>2, <3>1, <4>2 DEF Reports!DraftsAreMarked
    <3>2. report.generated_by = "MCP_CLIENT" => Reports!Marked(report, author) = report
      BY <2>5 DEF Reports!Marked, Reports!Author
    <3> QED
      BY <2>3, <3>1, <3>2 DEF Reports!DraftsAreMarked
  <2> QED
    BY <2>4, <2>5 DEF Reports!Author
<1>4. ASSUME NEW r \in Request, Reports!Finalize(r)
      PROVE  Reports!DraftsAreMarked'
  <2>1. report \in Reports!Report /\ report # Null
    BY <1>4, UnderLock DEF Reports!Finalize, ReportInv
  <2>2. /\ report'.text = report.text
        /\ report'.generated_by = report.generated_by
        /\ report'.status = report.status
    BY <1>4, <2>1 DEF Reports!Finalize, Reports!Locked, Reports!Report
  <2> QED
    BY <2>1, <2>2 DEF Reports!DraftsAreMarked
<1>5. CASE Reports!Close \/ Reports!ChangeFacts
  BY <1>1, <1>2, <1>5 DEF Reports!Close, Reports!ChangeFacts
<1>6. ASSUME NEW r \in Request, Reports!Load(r) \/ Reports!Fill(r) \/ Reports!Refuse(r)
      PROVE  Reports!DraftsAreMarked'
  BY <1>1, <1>2, <1>6 DEF Reports!Load, Reports!Fill, Reports!Refuse
<1>7. CASE UNCHANGED Reports!vars
  BY <1>1, <1>7 DEF Reports!vars
<1> QED
  BY <1>3, <1>4, <1>5, <1>6, <1>7 DEF Reports!Next, Reports!Step

LEMMA ReportMarked ==
  ASSUME Null \notin Reports!Report, Null \notin Reports!Author
  PROVE  Reports!Spec => []Reports!DraftsAreMarked
<1>1. ReportInv /\ [Reports!Next]_(Reports!vars) => ReportInv'
  BY ReportStep
<1>2. Reports!Init => Reports!DraftsAreMarked
  BY DEF Reports!Init, Reports!DraftsAreMarked
<1>3. ReportInv /\ Reports!DraftsAreMarked /\ [Reports!Next]_(Reports!vars) => Reports!DraftsAreMarked'
  BY MarkedStep
<1> QED
  BY <1>1, <1>2, <1>3, ReportInit, PTL DEF Reports!Spec

\* What a draft adds to the report cites the payload of that moment only.
LEMMA ReportCites ==
  ASSUME Null \notin Reports!Report
  PROVE  Reports!Spec => Reports!DraftsCiteThePayload
<1> DEFINE Cites ==
      report # Null /\ report'.text # report.text =>
        \A f \in Field :
          report'.text[f] \notin {report.text[f], Null} /\ report'.text[f].author = "MCP_CLIENT" =>
            report'.text[f].cites \subseteq facts
<1>1. ASSUME ReportInv, [Reports!Next]_(Reports!vars)
      PROVE  Cites
  <2>1. ASSUME UNCHANGED report
        PROVE  Cites
    BY <2>1
  <2>2. CASE Reports!Close
    BY <1>1, <2>2 DEF Reports!Close, ReportInv, OnceClosed
  <2>3. ASSUME NEW r \in Request, Reports!Save(r)
        PROVE  Cites
    <3>1. PICK changes \in Reports!Changes, author \in Reports!Author :
            /\ author = "MCP_CLIENT" => Reports!Grounded(changes)
            /\ report' = [Reports!Marked(Reports!Locked(r), author) EXCEPT !.text = [f \in Field |->
                 IF f \in DOMAIN changes THEN [cites |-> changes[f], author |-> author]
                 ELSE @[f]]]
      BY <2>3 DEF Reports!Save
    <3>2. report \in Reports!Report
      BY <1>1, <2>3, UnderLock DEF Reports!Save, ReportInv
    <3>3. report'.text = SavedText(changes, author)
      BY <3>1, <3>2, SavedReport DEF Reports!Locked
    <3>4. ASSUME NEW f \in Field, report'.text[f] \notin {report.text[f], Null},
                 report'.text[f].author = "MCP_CLIENT"
          PROVE  report'.text[f].cites \subseteq facts
      <4>1. f \in DOMAIN changes
        BY <3>3, <3>4 DEF SavedText
      <4>2. report'.text[f] = [cites |-> changes[f], author |-> author]
        BY <3>3, <4>1 DEF SavedText
      <4> QED
        BY <3>1, <3>4, <4>1, <4>2 DEF Reports!Grounded, Reports!Payload
    <3> QED
      BY <3>4
  <2>4. ASSUME NEW r \in Request, Reports!Finalize(r)
        PROVE  Cites
    <3>1. report \in Reports!Report
      BY <1>1, <2>4, UnderLock DEF Reports!Finalize, ReportInv
    <3>2. report'.text = report.text
      BY <2>4, <3>1 DEF Reports!Finalize, Reports!Locked, Reports!Report
    <3> QED
      BY <3>2
  <2>5. ASSUME NEW r \in Request, Reports!Load(r) \/ Reports!Fill(r) \/ Reports!Refuse(r)
        PROVE  Cites
    BY <2>1, <2>5 DEF Reports!Load, Reports!Fill, Reports!Refuse
  <2>6. CASE Reports!ChangeFacts
    BY <2>1, <2>6 DEF Reports!ChangeFacts
  <2>7. CASE UNCHANGED Reports!vars
    BY <2>1, <2>7 DEF Reports!vars
  <2> QED
    BY <1>1, <2>2, <2>3, <2>4, <2>5, <2>6, <2>7 DEF Reports!Next, Reports!Step
<1>2. ReportInv /\ [Reports!Next]_(Reports!vars) => ReportInv'
  BY ReportStep
<1>3. ReportInv /\ [Reports!Next]_(Reports!vars) => [Cites]_(Reports!vars)
  BY <1>1
<1> QED
  BY <1>2, <1>3, ReportInit, PTL DEF Reports!Spec, Reports!DraftsCiteThePayload

----------------------------------------------------------------------------
(* Chat *)

----------------------------------------------------------------------------
\* What a request holds at each point
LEMMA MessageTypes ==
  ASSUME Chat!TypeOK, NEW r \in Request
  PROVE  /\ Chat!At(r, "edit") => sending[r].mentions \in Chat!Mentions /\ sending[r].previous \in Chat!Mentions
         /\ Chat!At(r, "saved") => sending[r].about \in Chat!Mentions
         /\ sending[r].at \in {"respond", "tasks"} => sending[r].queue \subseteq Hook
         /\ Chat!At(r, "sending") =>
                   sending[r] \in [at : {"sending"}, queue : SUBSET Hook, hook : Hook, attempt : 1 .. Attempts]
<1> DEFINE c == sending[r]
<1>1. c \in Chat!RequestState
  BY DEF Chat!TypeOK
<1> HIDE DEF c
<1>2. /\ c.at = "edit" => c.mentions \in Chat!Mentions /\ c.previous \in Chat!Mentions
      /\ c.at = "saved" => c.about \in Chat!Mentions
      /\ c.at \in {"respond", "tasks"} => c.queue \subseteq Hook
  BY <1>1 DEF Chat!RequestState
<1>3. c.at = "sending" =>
        c \in [at : {"sending"}, queue : SUBSET Hook, hook : Hook, attempt : 1 .. Attempts]
  BY <1>1 DEF Chat!RequestState
<1> QED
  BY <1>2, <1>3 DEF Chat!At, c

LEMMA MessageMove ==
  ASSUME Chat!TypeOK, NEW r \in Request, NEW there \in Chat!RequestState, Chat!Goto(r, there)
  PROVE  /\ sending' \in [Request -> Chat!RequestState]
         /\ sending'[r] = there
         /\ \A q \in Request : q # r => sending'[q] = sending[q]
BY DEF Chat!TypeOK, Chat!Goto

LEMMA MessageStates ==
  /\ Chat!Idle \in Chat!RequestState
  /\ \A M, N \in Chat!Mentions : [at |-> "edit", mentions |-> M, previous |-> N] \in Chat!RequestState
  /\ \A M \in Chat!Mentions : [at |-> "saved", about |-> M] \in Chat!RequestState
  /\ \A Q \in SUBSET Hook :
       /\ [at |-> "respond", queue |-> Q] \in Chat!RequestState
       /\ [at |-> "tasks", queue |-> Q] \in Chat!RequestState
  /\ \A Q \in SUBSET Hook, h \in Hook, n \in 1 .. Attempts :
       [at |-> "sending", queue |-> Q, hook |-> h, attempt |-> n] \in Chat!RequestState
BY DEF Chat!RequestState, Chat!Idle

\* A dispatch in its next attempt
LEMMA NextAttempt ==
  ASSUME Chat!TypeOK, NEW r \in Request, Chat!At(r, "sending"), sending[r].attempt < Attempts,
         Attempts \in Nat \ {0}
  PROVE  /\ [sending[r] EXCEPT !.attempt = @ + 1] \in Chat!RequestState
         /\ [sending[r] EXCEPT !.attempt = @ + 1].at = "sending"
         /\ [sending[r] EXCEPT !.attempt = @ + 1].queue = sending[r].queue
         /\ [sending[r] EXCEPT !.attempt = @ + 1].hook = sending[r].hook
<1> DEFINE c == sending[r]
           R == [at : {"sending"}, queue : SUBSET Hook, hook : Hook, attempt : 1 .. Attempts]
<1>1. c \in R /\ c.attempt + 1 \in 1 .. Attempts
  BY MessageTypes
<1> HIDE DEF c
<1>2. [c EXCEPT !.attempt = @ + 1] \in R
  BY <1>1
<1>3. R \subseteq Chat!RequestState
  BY DEF Chat!RequestState
<1> QED
  BY <1>1, <1>2, <1>3 DEF c

LEMMA MessageTypeStep ==
  ASSUME Chat!TypeOK, [Chat!Next]_(Chat!vars), Attempts \in Nat \ {0}
  PROVE  Chat!TypeOK'
<1>1. CASE UNCHANGED Chat!vars
  BY <1>1 DEF Chat!vars, Chat!TypeOK
<1>2. CASE Chat!SetHooks \/ Chat!DeleteComment
  BY <1>2 DEF Chat!SetHooks, Chat!DeleteComment, Chat!TypeOK
<1>3. CASE Chat!Crash
  <2>1. told' \subseteq Person
    BY <1>3, MessageTypes DEF Chat!Crash, Chat!TypeOK, Chat!Mentions
  <2> QED
    BY <1>3, <2>1, MessageStates DEF Chat!Crash, Chat!TypeOK
<1>4. ASSUME NEW r \in Request, Chat!AddComment(r) \/ Chat!EditComment(r) \/ Chat!WriteComment(r) \/ Chat!CommentGone(r)
      PROVE  Chat!TypeOK'
  <2>1. sending' \in [Request -> Chat!RequestState]
    <3>1. CASE Chat!AddComment(r)
      BY <3>1, MessageStates, MessageMove DEF Chat!AddComment
    <3>2. CASE Chat!EditComment(r)
      BY <3>2, MessageStates, MessageMove DEF Chat!EditComment, Chat!Exists, Chat!TypeOK
    <3>3. CASE Chat!WriteComment(r)
      <4>1. Chat!New(sending[r].mentions, sending[r].previous) \in Chat!Mentions
        BY <3>3, MessageTypes DEF Chat!WriteComment, Chat!New, Chat!Mentions
      <4> QED
        BY <3>3, <4>1, MessageStates, MessageMove DEF Chat!WriteComment
    <3>4. CASE Chat!CommentGone(r)
      BY <3>4, MessageStates, MessageMove DEF Chat!CommentGone, Chat!Finish
    <3> QED
      BY <1>4, <3>1, <3>2, <3>3, <3>4
  <2>2. comment' \in Chat!Mentions \union {Null, Deleted}
    BY <1>4, MessageTypes DEF Chat!AddComment, Chat!EditComment, Chat!WriteComment,
       Chat!CommentGone, Chat!TypeOK
  <2> QED
    BY <1>4, <2>1, <2>2 DEF Chat!AddComment, Chat!EditComment, Chat!WriteComment,
       Chat!CommentGone, Chat!TypeOK
<1>5. ASSUME NEW r \in Request, Chat!ScheduleMention(r) \/ Chat!ScheduleTicket(r)
      PROVE  Chat!TypeOK'
  <2>1. PICK Q \in SUBSET Hook : Chat!Goto(r, [at |-> "respond", queue |-> Q])
    BY <1>5 DEF Chat!ScheduleMention, Chat!ScheduleTicket, Chat!TypeOK
  <2>2. told' \subseteq Person
    BY <1>5, MessageTypes DEF Chat!ScheduleMention, Chat!ScheduleTicket, Chat!TypeOK,
       Chat!Mentions
  <2>3. sending' \in [Request -> Chat!RequestState]
    BY <2>1, MessageStates, MessageMove
  <2> QED
    BY <1>5, <2>2, <2>3 DEF Chat!ScheduleMention, Chat!ScheduleTicket, Chat!TypeOK
<1>7. ASSUME NEW r \in Request, Chat!Respond(r) \/ Chat!ResponseFails(r)
      PROVE  Chat!TypeOK'
  <2>1. CASE Chat!Respond(r)
    <3>1. sending[r].queue \in SUBSET Hook
      BY <2>1, MessageTypes DEF Chat!Respond, Chat!At
    <3>2. sending' \in [Request -> Chat!RequestState]
      BY <2>1, <3>1, MessageStates, MessageMove DEF Chat!Respond
    <3> QED
      BY <2>1, <3>1, <3>2 DEF Chat!Respond, Chat!TypeOK
  <2>2. CASE Chat!ResponseFails(r)
    <3>1. told' \subseteq Person
      BY <2>2, MessageTypes DEF Chat!ResponseFails, Chat!TypeOK, Chat!Mentions
    <3>2. sending' \in [Request -> Chat!RequestState]
      BY <2>2, MessageStates, MessageMove DEF Chat!ResponseFails, Chat!Finish
    <3> QED
      BY <2>2, <3>1, <3>2 DEF Chat!ResponseFails, Chat!TypeOK
  <2> QED
    BY <1>7, <2>1, <2>2
<1>6. ASSUME NEW r \in Request, Chat!NextTask(r) \/ Chat!Post(r) \/ Chat!DispatchError(r)
      PROVE  Chat!TypeOK'
  <2>1. sending' \in [Request -> Chat!RequestState]
    <3>1. CASE Chat!NextTask(r)
      <4>1. sending[r].queue \subseteq Hook /\ 1 \in 1 .. Attempts
        BY <3>1, MessageTypes DEF Chat!NextTask, Chat!At
      <4>2. CASE sending[r].queue = {}
        BY <3>1, <4>2, MessageStates, MessageMove DEF Chat!NextTask, Chat!Finish
      <4>3. CASE sending[r].queue # {}
        <5>1. PICK h \in sending[r].queue :
                Chat!Goto(r, [at |-> "sending", queue |-> sending[r].queue \ {h}, hook |-> h, attempt |-> 1])
          BY <3>1, <4>3 DEF Chat!NextTask
        <5>2. [at |-> "sending", queue |-> sending[r].queue \ {h}, hook |-> h, attempt |-> 1] \in Chat!RequestState
          BY <4>1, MessageStates
        <5> QED
          BY <5>1, <5>2, MessageMove
      <4> QED
        BY <4>2, <4>3
    <3>2. CASE Chat!Post(r) \/ Chat!DispatchError(r)
      <4>1. [at |-> "tasks", queue |-> sending[r].queue] \in Chat!RequestState
        BY <3>2, MessageTypes, MessageStates DEF Chat!Post, Chat!DispatchError
      <4> QED
        BY <3>2, <4>1, NextAttempt, MessageMove DEF Chat!Post, Chat!DispatchError, Chat!AfterError
    <3> QED
      BY <1>6, <3>1, <3>2
  <2>2. owed' \in [Request -> SUBSET Hook]
    BY <1>6 DEF Chat!NextTask, Chat!Post, Chat!DispatchError, Chat!Tried, Chat!TypeOK
  <2> QED
    BY <1>6, <2>1, <2>2 DEF Chat!NextTask, Chat!Post, Chat!DispatchError, Chat!TypeOK
<1> QED
  BY <1>1, <1>2, <1>3, <1>4, <1>5, <1>6, <1>7 DEF Chat!Next, Chat!Step

----------------------------------------------------------------------------
(* No message is dropped *)

\* What a request still has to try
Waiting(c) ==
  IF c.at = "tasks" THEN c.queue ELSE IF c.at = "sending" THEN c.queue \union {c.hook} ELSE {}

LEMMA WaitingIs ==
  Chat!AnsweredIsTried <=> \A r \in Request : owed[r] \subseteq Waiting(sending[r])
<1>1. ASSUME NEW r \in Request
      PROVE  (CASE Chat!At(r, "tasks") -> sending[r].queue
                [] Chat!At(r, "sending") -> sending[r].queue \union {sending[r].hook}
                [] OTHER -> {}) = Waiting(sending[r])
  BY DEF Chat!At, Waiting
<1> QED
  BY <1>1 DEF Chat!AnsweredIsTried

LEMMA DroppedStep ==
  ASSUME Chat!TypeOK, \A r \in Request : owed[r] \subseteq Waiting(sending[r]),
         [Chat!Next]_(Chat!vars), Attempts \in Nat \ {0}
  PROVE  \A r \in Request : owed'[r] \subseteq Waiting(sending'[r])
<1>1. CASE UNCHANGED Chat!vars \/ Chat!SetHooks \/ Chat!DeleteComment
  BY <1>1 DEF Chat!vars, Chat!SetHooks, Chat!DeleteComment
<1>2. CASE Chat!Crash
  BY <1>2 DEF Chat!Crash
<1>3. ASSUME NEW r \in Request, Chat!Step(r)
      PROVE  owed'[r] \subseteq Waiting(sending'[r]) /\ \A q \in Request : q # r => UNCHANGED <<owed[q], sending[q]>>
  <2>1. \A there : Chat!Goto(r, there) => sending'[r] = there /\ \A q \in Request : q # r => sending'[q] = sending[q]
    BY DEF Chat!Goto, Chat!TypeOK
  <2>2. CASE Chat!AddComment(r) \/ Chat!EditComment(r) \/ Chat!WriteComment(r) \/ Chat!CommentGone(r)
    <3>1. owed[r] = {}
      BY <2>2 DEF Chat!AddComment, Chat!EditComment, Chat!WriteComment, Chat!CommentGone,
         Chat!Idle, Chat!At, Waiting
    <3> QED
      BY <2>1, <2>2, <3>1 DEF Chat!AddComment, Chat!EditComment, Chat!WriteComment,
         Chat!CommentGone, Chat!Finish
  <2>3. CASE Chat!ScheduleMention(r) \/ Chat!ScheduleTicket(r) \/ Chat!ResponseFails(r)
    <3>1. owed[r] = {} /\ owed' = owed
      BY <2>3 DEF Chat!ScheduleMention, Chat!ScheduleTicket, Chat!ResponseFails, Chat!Idle,
         Chat!At, Waiting
    <3> QED
      BY <2>1, <2>3, <3>1 DEF Chat!ScheduleMention, Chat!ScheduleTicket, Chat!ResponseFails,
         Chat!Finish
  <2>6. CASE Chat!Respond(r)
    BY <2>1, <2>6 DEF Chat!Respond, Waiting, Chat!TypeOK
  <2>4. CASE Chat!NextTask(r)
    <3>1. owed[r] \subseteq sending[r].queue /\ owed' = owed
      BY <2>4 DEF Chat!NextTask, Chat!At, Waiting
    <3>2. CASE sending[r].queue = {}
      BY <2>1, <2>4, <3>1, <3>2 DEF Chat!NextTask, Chat!Finish
    <3>3. CASE sending[r].queue # {}
      <4>1. PICK h \in sending[r].queue :
              Chat!Goto(r, [at |-> "sending", queue |-> sending[r].queue \ {h}, hook |-> h, attempt |-> 1])
        BY <2>4, <3>3 DEF Chat!NextTask
      <4>2. Waiting(sending'[r]) = (sending[r].queue \ {h}) \union {h}
        BY <2>1, <4>1 DEF Waiting
      <4> QED
        BY <2>1, <3>1, <4>1, <4>2
    <3> QED
      BY <3>2, <3>3
  <2>5. CASE Chat!Post(r) \/ Chat!DispatchError(r)
    <3>1. owed[r] \subseteq sending[r].queue \union {sending[r].hook} /\ Chat!At(r, "sending")
      BY <2>5 DEF Chat!Post, Chat!DispatchError, Chat!At, Waiting
    <3>2. owed'[r] = owed[r] \ {sending[r].hook} /\ \A q \in Request : q # r => owed'[q] = owed[q]
      BY <2>5 DEF Chat!Post, Chat!DispatchError, Chat!Tried, Chat!TypeOK
    <3>3. CASE Chat!Goto(r, [at |-> "tasks", queue |-> sending[r].queue])
      BY <2>1, <3>1, <3>2, <3>3 DEF Waiting
    <3>4. CASE sending[r].attempt < Attempts /\ Chat!Goto(r, [sending[r] EXCEPT !.attempt = @ + 1])
      <4> DEFINE again == [sending[r] EXCEPT !.attempt = @ + 1]
      <4>2. again.at = "sending" /\ again.queue = sending[r].queue /\ again.hook = sending[r].hook
        BY <3>1, <3>4, NextAttempt
      <4>3. Chat!Goto(r, again)
        BY <3>4
      <4> HIDE DEF again
      <4>4. sending'[r] = again
        BY <2>1, <4>3
      <4>1. Waiting(sending'[r]) = sending[r].queue \union {sending[r].hook}
        BY <4>2, <4>4 DEF Waiting
      <4> QED
        BY <2>1, <3>1, <3>2, <3>4, <4>1
    <3> QED
      BY <2>5, <3>3, <3>4 DEF Chat!Post, Chat!DispatchError, Chat!AfterError
  <2> QED
    BY <1>3, <2>2, <2>3, <2>4, <2>5, <2>6 DEF Chat!Step
<1> QED
  BY <1>1, <1>2, <1>3 DEF Chat!Next

----------------------------------------------------------------------------
(* Whoever is mentioned is told *)

\* A person has been named in a message, or is about to be.
Covered(u) == u \in told \/ \E r \in Request : Chat!At(r, "saved") /\ u \in sending[r].about

\* What an edit has loaded was in the comment once.
LoadedAreCovered == \A r \in Request : Chat!At(r, "edit") => \A u \in sending[r].previous : Covered(u)

\* Nobody is forgotten once covered: the request about to name them does so, or
\* is lost with them.
LEMMA StaysCovered ==
  ASSUME Chat!TypeOK, [Chat!Next]_(Chat!vars), NEW u, Covered(u)
  PROVE  Covered(u)'
<1>1. CASE UNCHANGED <<told, sending>>
  BY <1>1 DEF Covered, Chat!At
<1>2. CASE Chat!Crash
  BY <1>2 DEF Covered, Chat!Crash
<1>3. ASSUME NEW r \in Request, Chat!Step(r) PROVE Covered(u)'
  <2>1. \A there : Chat!Goto(r, there) => \A q \in Request : q # r => sending'[q] = sending[q]
    BY DEF Chat!Goto, Chat!TypeOK
  <2>2. \A q \in Request : q # r => sending'[q] = sending[q]
    BY <1>3, <2>1 DEF Chat!Step, Chat!AddComment, Chat!EditComment, Chat!WriteComment,
       Chat!CommentGone, Chat!ScheduleMention, Chat!Respond, Chat!ResponseFails,
       Chat!ScheduleTicket, Chat!NextTask, Chat!Post, Chat!DispatchError, Chat!Finish
  <2>3. told \subseteq told' /\ (Chat!At(r, "saved") => sending[r].about \subseteq told')
    BY <1>3 DEF Chat!Step, Chat!AddComment, Chat!EditComment, Chat!WriteComment,
       Chat!CommentGone, Chat!ScheduleMention, Chat!Respond, Chat!ResponseFails,
       Chat!ScheduleTicket, Chat!NextTask, Chat!Post, Chat!DispatchError, Chat!At, Chat!Idle
  <2> QED
    BY <2>2, <2>3 DEF Covered, Chat!At
<1> QED
  BY <1>1, <1>2, <1>3 DEF Chat!Next, Chat!SetHooks, Chat!DeleteComment, Chat!vars

\* A comment only gains people whom its own request announces: the others were in
\* what it loaded.
LEMMA CoveredStep ==
  ASSUME Chat!TypeOK, Chat!MentionedAreTold, LoadedAreCovered, [Chat!Next]_(Chat!vars)
  PROVE  Chat!MentionedAreTold' /\ LoadedAreCovered'
<1>0. Chat!Exists => \A u \in comment : Covered(u)
  BY DEF Chat!MentionedAreTold, Covered
<1>1. ASSUME UNCHANGED sending \/ Chat!Crash
      PROVE  LoadedAreCovered'
  BY <1>1, StaysCovered DEF LoadedAreCovered, Chat!At, Chat!Crash, Chat!Idle
<1>2. ASSUME comment' = comment
      PROVE  Chat!MentionedAreTold'
  BY <1>0, <1>2, StaysCovered DEF Chat!MentionedAreTold, Chat!Exists, Covered
<1>3. CASE UNCHANGED Chat!vars \/ Chat!SetHooks \/ Chat!Crash
  BY <1>1, <1>2, <1>3 DEF Chat!vars, Chat!SetHooks, Chat!Crash
<1>4. CASE Chat!DeleteComment
  BY <1>1, <1>4 DEF Chat!DeleteComment, Chat!MentionedAreTold, Chat!Exists
<1>5. ASSUME NEW r \in Request, Chat!Step(r)
      PROVE  Chat!MentionedAreTold' /\ LoadedAreCovered'
  <2>1. \A there : Chat!Goto(r, there) => sending'[r] = there /\ \A q \in Request : q # r => sending'[q] = sending[q]
    BY DEF Chat!Goto, Chat!TypeOK
  <2>2. ASSUME NEW there, Chat!Goto(r, there), there.at # "edit" PROVE LoadedAreCovered'
    BY <2>1, <2>2, StaysCovered DEF LoadedAreCovered, Chat!At
  <2>3. CASE Chat!AddComment(r)
    <3>1. PICK M \in Chat!Mentions : comment' = M /\ Chat!Goto(r, [at |-> "saved", about |-> M])
      BY <2>3 DEF Chat!AddComment
    <3>2. \A u \in comment' : Covered(u)'
      BY <2>1, <3>1 DEF Covered, Chat!At
    <3> QED
      BY <2>2, <3>1, <3>2 DEF Chat!MentionedAreTold, Covered
  <2>4. CASE Chat!EditComment(r)
    <3>1. PICK M \in Chat!Mentions : Chat!Goto(r, [at |-> "edit", mentions |-> M, previous |-> comment])
      BY <2>4 DEF Chat!EditComment
    <3>2. \A u \in comment : Covered(u)'
      BY <1>0, <2>4, StaysCovered DEF Chat!EditComment
    <3>3. LoadedAreCovered'
      BY <2>1, <3>1, <3>2, StaysCovered DEF LoadedAreCovered, Chat!At
    <3> QED
      BY <1>2, <2>4, <3>3 DEF Chat!EditComment
  <2>5. CASE Chat!WriteComment(r)
    <3> DEFINE c == sending[r]
    <3>1. /\ comment' = IF c.mentions = c.previous THEN comment ELSE c.mentions
          /\ Chat!Goto(r, [at |-> "saved", about |-> c.mentions \ c.previous])
          /\ Chat!Exists /\ Chat!At(r, "edit")
      BY <2>5 DEF Chat!WriteComment, Chat!New
    <3>2. \A u \in comment : Covered(u)'
      BY <1>0, <3>1, StaysCovered
    <3>3. \A u \in c.previous : Covered(u)'
      BY <3>1, StaysCovered DEF LoadedAreCovered
    <3>4. \A u \in c.mentions \ c.previous : Covered(u)'
      BY <2>1, <3>1 DEF Covered, Chat!At
    <3>5. \A u \in comment' : Covered(u)'
      BY <3>1, <3>2, <3>3, <3>4
    <3>6. LoadedAreCovered'
      BY <2>2, <3>1
    <3> QED
      BY <3>5, <3>6 DEF Chat!MentionedAreTold, Covered
  <2>6. CASE \/ Chat!CommentGone(r) \/ Chat!ScheduleMention(r) \/ Chat!ScheduleTicket(r)
             \/ Chat!Respond(r) \/ Chat!ResponseFails(r)
    <3>1. PICK there : Chat!Goto(r, there) /\ there.at # "edit"
      BY <2>6 DEF Chat!CommentGone, Chat!ScheduleMention, Chat!ScheduleTicket, Chat!Respond,
         Chat!ResponseFails, Chat!Finish, Chat!Idle
    <3> QED
      BY <1>2, <2>2, <2>6, <3>1 DEF Chat!CommentGone, Chat!ScheduleMention, Chat!ScheduleTicket,
         Chat!Respond, Chat!ResponseFails
  <2>7. CASE Chat!NextTask(r)
    <3>1. CASE sending[r].queue = {}
      <4>1. Chat!Goto(r, Chat!Idle) /\ Chat!Idle.at # "edit" /\ comment' = comment
        BY <2>7, <3>1 DEF Chat!NextTask, Chat!Finish, Chat!Idle
      <4> QED
        BY <1>2, <2>2, <4>1
    <3>2. CASE sending[r].queue # {}
      <4>1. PICK h \in sending[r].queue :
              Chat!Goto(r, [at |-> "sending", queue |-> sending[r].queue \ {h}, hook |-> h, attempt |-> 1])
        BY <2>7, <3>2 DEF Chat!NextTask
      <4>2. comment' = comment
        BY <2>7 DEF Chat!NextTask
      <4> QED
        BY <1>2, <2>2, <4>1, <4>2
    <3> QED
      BY <3>1, <3>2
  <2>8. CASE Chat!Post(r) \/ Chat!DispatchError(r)
    <3> DEFINE again == [sending[r] EXCEPT !.attempt = @ + 1]
    <3>1. comment' = comment /\ Chat!At(r, "sending")
      BY <2>8 DEF Chat!Post, Chat!DispatchError
    <3>2. CASE Chat!Goto(r, [at |-> "tasks", queue |-> sending[r].queue])
      BY <1>2, <2>2, <3>1, <3>2
    <3>3. CASE Chat!Goto(r, again)
      <4>1. again.at # "edit"
        BY <3>1, MessageTypes
      <4> HIDE DEF again
      <4> QED
        BY <1>2, <2>2, <3>1, <3>3, <4>1
    <3> QED
      BY <2>8, <3>2, <3>3 DEF Chat!Post, Chat!DispatchError, Chat!AfterError
  <2> QED
    BY <1>5, <2>3, <2>4, <2>5, <2>6, <2>7, <2>8 DEF Chat!Step
<1> QED
  BY <1>3, <1>4, <1>5 DEF Chat!Next

LEMMA MessagesHold ==
  ASSUME Attempts \in Nat \ {0}
  PROVE  Chat!Spec => [](Chat!TypeOK /\ Chat!MentionedAreTold /\ LoadedAreCovered /\ Chat!AnsweredIsTried)
<1> DEFINE I == Chat!TypeOK /\ Chat!MentionedAreTold /\ LoadedAreCovered /\ Chat!AnsweredIsTried
<1>1. Chat!Init => I
  <2> SUFFICES ASSUME Chat!Init PROVE I
    OBVIOUS
  <2>1. Chat!TypeOK
    BY MessageStates DEF Chat!Init, Chat!TypeOK
  <2>2. Chat!MentionedAreTold /\ LoadedAreCovered
    BY DEF Chat!Init, Chat!MentionedAreTold, LoadedAreCovered, Chat!Exists, Chat!At, Chat!Idle
  <2>3. Chat!AnsweredIsTried
    BY WaitingIs DEF Chat!Init
  <2> QED
    BY <2>1, <2>2, <2>3
<1>2. I /\ [Chat!Next]_(Chat!vars) => I'
  <2> SUFFICES ASSUME I, [Chat!Next]_(Chat!vars) PROVE I'
    OBVIOUS
  <2>1. Chat!TypeOK'
    BY MessageTypeStep
  <2>2. Chat!MentionedAreTold' /\ LoadedAreCovered'
    BY CoveredStep
  <2>3. Chat!AnsweredIsTried'
    <3>1. \A r \in Request : owed'[r] \subseteq Waiting(sending'[r])
      BY WaitingIs, DroppedStep
    <3>2. ASSUME NEW r \in Request
          PROVE  (CASE Chat!At(r, "tasks") -> sending[r].queue
                    [] Chat!At(r, "sending") -> sending[r].queue \union {sending[r].hook}
                    [] OTHER -> {})' = Waiting(sending'[r])
      BY DEF Chat!At, Waiting
    <3> QED
      BY <3>1, <3>2 DEF Chat!AnsweredIsTried
  <2> QED
    BY <2>1, <2>2, <2>3
<1> HIDE DEF I
<1>3. Chat!Spec => []I
  BY <1>1, <1>2, PTL DEF Chat!Spec
<1> QED
  BY <1>3 DEF I

----------------------------------------------------------------------------
(* Every component runs by itself in the specification of the pages *)

Shelf == INSTANCE AttachmentsProofs WITH Worker <- Request

LEMMA PageParts ==
  /\ PagesInit => Init /\ Reports!Init /\ Chat!Init /\ Storage!Init
  /\ [PagesNext]_pageVars =>
       /\ [Next]_vars
       /\ [Reports!Next]_(Reports!vars)
       /\ [Chat!Next]_(Chat!vars)
       /\ [Storage!Next]_(Storage!vars)
BY DEF PagesInit, PagesNext, Alone, pageVars, storageVars, reportVars, chatVars, vars, tables,
   Reports!vars, Chat!vars, Storage!vars, Storage!tables, Storage!files

\* AttachmentsProofs is about its own copy of Attachments, which is this one.
LEMMA SameStorage ==
  /\ Shelf!Init <=> Storage!Init
  /\ [Shelf!Next]_(Shelf!vars) <=> [Storage!Next]_(Storage!vars)
  /\ Shelf!TypeOK <=> Storage!TypeOK
  /\ Shelf!UploadsHaveFiles <=> Storage!UploadsHaveFiles
  /\ Shelf!LeftoversHaveACause <=> Storage!LeftoversHaveACause
  /\ Shelf!UploadsWithinQuota <=> Storage!UploadsWithinQuota
BY DEF Shelf!At, Storage!At, Shelf!CommitImport, Storage!CommitImport, Shelf!CommitUpload,
   Storage!CommitUpload, Shelf!Crash, Storage!Crash, Shelf!CreateTicket, Storage!CreateTicket,
   Shelf!DeleteAttachment, Storage!DeleteAttachment, Shelf!DeleteProject,
   Storage!DeleteProject, Shelf!DeleteTicket, Storage!DeleteTicket, Shelf!Detach,
   Storage!Detach, Shelf!Discard, Storage!Discard, Shelf!Discarded, Storage!Discarded,
   Shelf!DropTicket, Storage!DropTicket, Shelf!Fail, Storage!Fail, Shelf!Finish,
   Storage!Finish, Shelf!Fits, Storage!Fits, Shelf!Goto, Storage!Goto, Shelf!Idle,
   Storage!Idle, Shelf!Import, Storage!Import, Shelf!InHand, Storage!InHand, Shelf!Init,
   Storage!Init, Shelf!Next, Storage!Next, Shelf!LeftoversHaveACause, Storage!LeftoversHaveACause,
   Shelf!WriteFails, Storage!WriteFails, Shelf!UnlinkFails, Storage!UnlinkFails,
   Shelf!Interrupted, Storage!Interrupted, Shelf!Writing, Storage!Writing,
   Shelf!NothingToUnlink, Storage!NothingToUnlink, Shelf!Record, Storage!Record,
   Shelf!Refreshed, Storage!Refreshed, Shelf!RejectImport, Storage!RejectImport,
   Shelf!RejectUpload, Storage!RejectUpload, Shelf!Rmtree, Storage!Rmtree, Shelf!Row,
   Storage!Row, Shelf!Rows, Storage!Rows, Shelf!UploadsHaveFiles, Storage!UploadsHaveFiles,
   Shelf!Step, Storage!Step, Shelf!StoreImport, Storage!StoreImport, Shelf!StoreUpload,
   Storage!StoreUpload, Shelf!TypeOK, Storage!TypeOK, Shelf!Unlink, Storage!Unlink,
   Shelf!Upload, Storage!Upload, Shelf!UploadsWithinQuota, Storage!UploadsWithinQuota,
   Shelf!Usage, Storage!Usage, Shelf!WorkState, Storage!WorkState, Shelf!files, Storage!files,
   Shelf!tables, Storage!tables, Shelf!vars, Storage!vars, Shelf!SumFunctionOnSet,
   Storage!SumFunctionOnSet, Shelf!FoldFunctionOnSet, Storage!FoldFunctionOnSet,
   Shelf!MapThenFoldSet, Storage!MapThenFoldSet

LEMMA PagesRun == PagesSpec => Spec /\ Reports!Spec /\ Chat!Spec /\ Shelf!Spec
BY PageParts, SameStorage, PTL DEF PagesSpec, Spec, Reports!Spec, Chat!Spec, Shelf!Spec

LEMMA FilesAssumption == Shelf!FilesAreFinite /\ Null \notin Shelf!Row /\ Quota \in Nat
BY PagesAssumption DEF Shelf!FilesAreFinite, Shelf!IsFiniteSet, IsFiniteSet, Shelf!Row,
   Storage!Row

\* The tables, the disk and what requests and workers hold keep their types.
THEOREM PagesTyped == PagesSpec => []TypesOK
<1>1. Spec => []TypeOK
  BY PagesAssumption, ConnectTyped DEF NullIsNothing
<1>2. Reports!Spec => []Reports!TypeOK
  BY PagesAssumption, ReportTyped
<1>3. Chat!Spec => []Chat!TypeOK
  <2>1. Chat!Spec => [](Chat!TypeOK /\ Chat!MentionedAreTold /\ LoadedAreCovered /\ Chat!AnsweredIsTried)
    BY PagesAssumption, MessagesHold
  <2> QED
    BY <2>1, PTL
<1>4. Shelf!Spec => []Shelf!TypeOK
  BY FilesAssumption, Shelf!TypeCorrect
<1>5. TypeOK /\ Reports!TypeOK /\ Chat!TypeOK /\ Shelf!TypeOK => TypesOK
  BY SameStorage DEF TypesOK
<1> QED
  BY <1>1, <1>2, <1>3, <1>4, <1>5, PagesRun, PTL

\* The row of an upload has its file, and every row its ticket, whatever fails or
\* stops between storing a file and committing its row, or after it.
THEOREM FilesOfUploads == PagesSpec => []UploadsHaveFiles
<1>1. Shelf!Spec => []Shelf!UploadsHaveFiles
  BY FilesAssumption, Shelf!FilesOfUploads
<1>2. Shelf!UploadsHaveFiles => UploadsHaveFiles
  BY SameStorage DEF UploadsHaveFiles
<1> QED
  BY <1>1, <1>2, PagesRun, PTL

\* A file without a row is one that a worker will still settle, or a write, a
\* removal or the process failed on it, or its ticket was deleted under an upload.
THEOREM LeftoversExplained == PagesSpec => []LeftoversHaveACause
<1>1. Shelf!Spec => []Shelf!LeftoversHaveACause
  BY FilesAssumption, Shelf!LeftoversExplained
<1>2. Shelf!LeftoversHaveACause => LeftoversHaveACause
  BY SameStorage DEF LeftoversHaveACause
<1> QED
  BY <1>1, <1>2, PagesRun, PTL

\* However many uploads run at once, beside imports that are not recounted, the
\* uploaded files alone never exceed the quota.
THEOREM QuotaHolds == PagesSpec => []UploadsWithinQuota
<1>1. Shelf!Spec => []Shelf!UploadsWithinQuota
  BY FilesAssumption, Shelf!QuotaHolds
<1>2. Shelf!UploadsWithinQuota => UploadsWithinQuota
  BY SameStorage DEF UploadsWithinQuota
<1> QED
  BY <1>1, <1>2, PagesRun, PTL

\* A report with a text that a model drafted says so: a person's save that began
\* before the draft never takes the mark away.
THEOREM DraftsMarked == PagesSpec => []DraftsAreMarked
<1>1. Reports!Spec => []Reports!DraftsAreMarked
  BY PagesAssumption, ReportMarked
<1> QED
  BY <1>1, PagesRun, PTL DEF DraftsAreMarked

\* Nothing changes a finalised report, not even a request that loaded it before.
THEOREM Frozen == PagesSpec => FinalizedFrozen
<1>1. Reports!Spec => Reports!FinalizedFrozen
  BY PagesAssumption, ReportFrozen
<1> QED
  BY <1>1, PagesRun, PTL DEF FinalizedFrozen

\* Whatever a draft adds to a report cites facts that are true when it is added.
THEOREM DraftsCite == PagesSpec => DraftsCiteThePayload
<1>1. Reports!Spec => Reports!DraftsCiteThePayload
  BY PagesAssumption, ReportCites
<1> QED
  BY <1>1, PagesRun, PTL DEF DraftsCiteThePayload

\* Whoever a comment mentions has been named in a message that was queued, is about
\* to be, or was lost with a request that failed or a process that stopped: an edit
\* only leaves out whom it found mentioned, and they were announced by whoever
\* mentioned them.
THEOREM MentionedTold == PagesSpec => []MentionedAreTold
<1>1. Chat!Spec => [](Chat!TypeOK /\ Chat!MentionedAreTold /\ LoadedAreCovered /\ Chat!AnsweredIsTried)
  BY PagesAssumption, MessagesHold
<1>2. Chat!MentionedAreTold => MentionedAreTold
  BY DEF MentionedAreTold
<1> QED
  BY <1>1, <1>2, PagesRun, PTL

\* Once a request has answered, a message it queued and has not tried yet is in a
\* queue that is still being worked on, until the process stops.
THEOREM AnsweredTried == PagesSpec => []AnsweredIsTried
<1>1. Chat!Spec => [](Chat!TypeOK /\ Chat!MentionedAreTold /\ LoadedAreCovered /\ Chat!AnsweredIsTried)
  BY PagesAssumption, MessagesHold
<1>2. Chat!AnsweredIsTried => AnsweredIsTried
  BY DEF AnsweredIsTried
<1> QED
  BY <1>1, <1>2, PagesRun, PTL
=============================================================================
