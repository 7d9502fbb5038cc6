---- MODULE AuthTokens_proofs ----
(***************************************************************************)
(* Proofs about AuthTokens, for any browsers, requests and lives of the    *)
(* tokens.                                                                 *)
(***************************************************************************)
EXTENDS AuthTokens, TLAPS

\* Only r's request changes.
Only(r) == req' = [req EXCEPT ![r] = req'[r]]

Begins(r) == \E b \in Browsers :
    Login(r, b) \/ Logout(r, b) \/ Refresh(r, b) \/ UseApi(r, b)

\* A step of r that makes no tokens: its time of issue stays or is forgotten,
\* and it comes to no step that uses it anew.
Passes(r) ==
    /\ Only(r)
    /\ req'[r].issue \in {0, req[r].issue}
    /\ req'[r].pc \notin {"add", "update"}
    /\ req'[r].issue = 0 \/ req[r].pc # "add"
    /\ UNCHANGED <<now, tables, cookie>>

\* A step of r that makes its tokens now.
Issues(r) ==
    /\ Only(r)
    /\ req'[r].issue = now
    /\ UNCHANGED <<now, tokens, cookie, revoked>>
    /\ \/ tokens = {} /\ req'[r].pc = "add" /\ signed' = now
       \/ tokens # {} /\ req'[r].pc = "update" /\ signed' = now
       \/ /\ \E t \in tokens : now < t.expires
          /\ req'[r].pc \in {"authorize", "answer"}
          /\ signed' = signed

LEMMA TypeInit == Init => TypeOK
<1> SUFFICES ASSUME Init PROVE TypeOK
  OBVIOUS
<1>1. Idle \in Request
  BY AuthTokensAssumption DEF Idle, Request, Times
<1>2. 0 \in Times
  BY AuthTokensAssumption DEF Times
<1> QED BY <1>1, <1>2 DEF Init, TypeOK

LEMMA TypeStep ==
    ASSUME TypeOK, NEW r \in Requests, Only(r), req'[r] \in Request
    PROVE  req' \in [Requests -> Request]
BY DEF TypeOK, Only

LEMMA OverlapType ==
    ASSUME TypeOK, NEW kind
    PROVE  Overlapping(kind) \in {"none", "requests", "logins"}
BY DEF TypeOK, Overlapping

----
(***************************************************************************)
(* Types, and what each step is.                                           *)
(***************************************************************************)

LEMMA CloseStep ==
    ASSUME TypeOK, NEW r \in Requests, Close(r)
    PROVE  Only(r) /\ req'[r] \in Request /\ req'[r].pc = "closed" /\ req'[r].issue = 0
BY AuthTokensAssumption DEF TypeOK, Close, Only, Idle, Request, Times

LEMMA BeginStep ==
    ASSUME TypeOK, NEW r \in Requests, NEW b \in Browsers,
           NEW kind \in {"login", "logout", "refresh", "api"},
           NEW pc \in {"find", "lookup", "authorize"},
           Begin(r, b, kind, None, pc) \/ Begin(r, b, kind, cookie[b], pc)
    PROVE  TypeOK' /\ Passes(r)
<1>1. PICK token \in AccessToken \cup {None} : Begin(r, b, kind, token, pc)
  BY DEF TypeOK
<1> DEFINE new == [pc |-> pc, kind |-> kind, browser |-> b, token |-> token, issue |-> 0]
<1>2. new \in Request /\ new.issue = 0 /\ new.pc = pc
  <2>1. 0 \in Times
    BY AuthTokensAssumption DEF Times
  <2> QED BY <2>1 DEF Request, Steps, Logins
<1>3. req' = [req EXCEPT ![r] = new]
  BY <1>1 DEF Begin
<1> HIDE DEF new
<1>4. Only(r) /\ req'[r] = new
  BY <1>3 DEF TypeOK, Only
<1>5. Passes(r)
  BY <1>1, <1>2, <1>4 DEF Begin, Passes
<1>6. req' \in [Requests -> Request]
  BY <1>2, <1>4, TypeStep
<1>7. overlap' \in {"none", "requests", "logins"}
  BY <1>1, OverlapType DEF Begin
<1>8. UNCHANGED <<now, tokens, cookie, state, signed, revoked>>
  BY <1>1 DEF Begin, tables
<1> QED BY <1>5, <1>6, <1>7, <1>8 DEF TypeOK

LEMMA TypeBegins ==
    ASSUME TypeOK, NEW r \in Requests, Begins(r)
    PROVE  TypeOK' /\ Passes(r)
BY BeginStep DEF Begins, Login, Logout, Refresh, UseApi

LEMMA TypeGoogle ==
    ASSUME TypeOK, NEW r \in Requests,
           (\E b \in Browsers : GoogleLogin(r, b)) \/ GoogleCallback(r)
    PROVE  TypeOK' /\ Passes(r)
<1>1. CASE \E b \in Browsers : GoogleLogin(r, b)
  <2>1. PICK b \in Browsers : GoogleLogin(r, b)
    BY <1>1
  <2>2. Only(r) /\ req'[r] = [Idle EXCEPT !.pc = "consent", !.kind = "google", !.browser = b]
    BY <2>1 DEF GoogleLogin, Only, TypeOK
  <2>3. req'[r] \in Request /\ req'[r].issue = 0 /\ req'[r].pc = "consent"
    <3>1. req'[r] = [pc |-> "consent", kind |-> "google", browser |-> b,
                     token |-> None, issue |-> 0]
      BY <2>2 DEF Idle
    <3>2. 0 \in Times
      BY AuthTokensAssumption DEF Times
    <3> QED BY <3>1, <3>2 DEF Request, Logins
  <2>4. req' \in [Requests -> Request]
    BY <2>2, <2>3, TypeStep
  <2> QED BY <2>1, <2>2, <2>3, <2>4 DEF GoogleLogin, Passes, TypeOK, tables
<1>2. CASE GoogleCallback(r)
  <2>1. CASE state = r
    <3>1. Goto(r, "find") /\ overlap' = Overlapping("google")
      BY <1>2, <2>1 DEF GoogleCallback
    <3>2. Only(r) /\ req'[r] \in Request /\ req'[r].pc = "find"
          /\ req'[r].issue = req[r].issue
      BY <3>1 DEF Goto, Only, TypeOK, Request, Steps
    <3>3. req' \in [Requests -> Request]
      BY <3>2, TypeStep
    <3>4. overlap' \in {"none", "requests", "logins"}
      BY <3>1, OverlapType
    <3> QED BY <1>2, <3>2, <3>3, <3>4 DEF GoogleCallback, Passes, TypeOK, tables
  <2>2. CASE state # r
    <3>1. Close(r) /\ UNCHANGED overlap
      BY <1>2, <2>2 DEF GoogleCallback
    <3>2. Only(r) /\ req'[r] \in Request /\ req'[r].pc = "closed" /\ req'[r].issue = 0
      BY <3>1, CloseStep
    <3>3. req' \in [Requests -> Request]
      BY <3>2, TypeStep
    <3> QED BY <1>2, <3>1, <3>2, <3>3 DEF GoogleCallback, Passes, TypeOK, tables
  <2> QED BY <2>1, <2>2
<1> QED BY <1>1, <1>2

LEMMA IssueStep ==
    ASSUME TypeOK, NEW r \in Requests, NEW pc \in Steps, Issue(r, pc)
    PROVE  /\ Only(r) /\ req'[r] \in Request
           /\ req'[r].pc = pc /\ req'[r].issue = now
BY DEF TypeOK, Issue, Only, Request

LEMMA GotoStep ==
    ASSUME TypeOK, NEW r \in Requests, NEW pc \in Steps, Goto(r, pc)
    PROVE  /\ Only(r) /\ req'[r] \in Request
           /\ req'[r].pc = pc /\ req'[r].issue = req[r].issue
BY DEF TypeOK, Goto, Only, Request

LEMMA TypeReads ==
    ASSUME TypeOK, NEW r \in Requests,
           FindToken(r) \/ Lookup(r) \/ Authorize(r) \/ Fail(r)
    PROVE  TypeOK' /\ (Passes(r) \/ Issues(r))
<1>1. CASE FindToken(r)
  <2>1. CASE tokens = {} /\ Issue(r, "add") /\ signed' = now
    <3>1. /\ Only(r) /\ req'[r] \in Request
          /\ req'[r].pc = "add" /\ req'[r].issue = now
      BY <2>1, IssueStep DEF Steps
    <3> QED BY <1>1, <2>1, <3>1, TypeStep DEF FindToken, Issues, TypeOK
  <2>2. CASE tokens # {} /\ Issue(r, "update") /\ signed' = now
    <3>1. /\ Only(r) /\ req'[r] \in Request
          /\ req'[r].pc = "update" /\ req'[r].issue = now
      BY <2>2, IssueStep DEF Steps
    <3> QED BY <1>1, <2>2, <3>1, TypeStep DEF FindToken, Issues, TypeOK
  <2>3. CASE Close(r) /\ UNCHANGED signed
    <3>1. Only(r) /\ req'[r] \in Request /\ req'[r].pc = "closed" /\ req'[r].issue = 0
      BY <2>3, CloseStep
    <3> QED BY <1>1, <2>3, <3>1, TypeStep DEF FindToken, Passes, TypeOK, tables
  <2> QED BY <1>1, <2>1, <2>2, <2>3 DEF FindToken, Finds
<1>2. CASE Lookup(r)
  <2>1. CASE Close(r)
    <3>1. Only(r) /\ req'[r] \in Request /\ req'[r].pc = "closed" /\ req'[r].issue = 0
      BY <2>1, CloseStep
    <3> QED BY <1>2, <3>1, TypeStep DEF Lookup, Passes, TypeOK, tables
  <2>2. CASE \E t \in tokens : Finds(t) /\ Valid(t.expires)
    <3>1. PICK pc \in {"authorize", "answer"} : Issue(r, pc)
      BY <1>2, <2>2 DEF Lookup
    <3>2. /\ Only(r) /\ req'[r] \in Request
          /\ req'[r].pc = pc /\ req'[r].issue = now
      BY <3>1, IssueStep DEF Steps
    <3>3. \E t \in tokens : now < t.expires
      BY <2>2 DEF Valid
    <3> QED BY <1>2, <3>2, <3>3, TypeStep DEF Lookup, Issues, TypeOK, tables
  <2> QED BY <1>2, <2>1, <2>2 DEF Lookup
<1>3. CASE Authorize(r)
  <2>1. CASE Close(r)
    <3>1. Only(r) /\ req'[r] \in Request /\ req'[r].pc = "closed" /\ req'[r].issue = 0
      BY <2>1, CloseStep
    <3> QED BY <1>3, <3>1, TypeStep DEF Authorize, Passes, TypeOK, tables
  <2>2. CASE Valid(req[r].token)
    <3>1. PICK pc \in {"revoke", "answer"} :
             req' = [req EXCEPT ![r].pc = pc, ![r].token = None]
      BY <1>3, <2>2 DEF Authorize
    <3>2. /\ Only(r) /\ req'[r] \in Request
          /\ req'[r].pc = pc /\ req'[r].issue = req[r].issue
      BY <3>1 DEF TypeOK, Only, Request, Steps
    <3>3. req[r].pc = "authorize"
      BY <1>3 DEF Authorize
    <3> QED BY <1>3, <3>2, <3>3, TypeStep DEF Authorize, Passes, TypeOK, tables
  <2> QED BY <1>3, <2>1, <2>2 DEF Authorize
<1>4. CASE Fail(r)
  <2>1. Only(r) /\ req'[r] \in Request /\ req'[r].pc = "closed" /\ req'[r].issue = 0
    BY <1>4, CloseStep DEF Fail
  <2> QED BY <1>4, <2>1, TypeStep DEF Fail, Passes, TypeOK, tables
<1> QED BY <1>1, <1>2, <1>3, <1>4

LEMMA TypeWrites ==
    ASSUME TypeOK, NEW r \in Requests,
           AddToken(r) \/ UpdateToken(r) \/ DeleteTokens(r)
    PROVE  /\ TypeOK' /\ Only(r)
           /\ req'[r].pc = "answer" /\ req'[r].issue = req[r].issue
<1>1. /\ Only(r) /\ req'[r] \in Request
      /\ req'[r].pc = "answer" /\ req'[r].issue = req[r].issue
  BY GotoStep DEF AddToken, UpdateToken, DeleteTokens, Steps
<1>2. req' \in [Requests -> Request]
  BY <1>1, TypeStep
<1>3. req[r].issue + RefreshLife \in 0..(MaxTime + RefreshLife)
  BY AuthTokensAssumption DEF TypeOK, Request, Times
<1>4. tokens' \subseteq RefreshToken
  BY <1>3 DEF AddToken, UpdateToken, DeleteTokens, RefreshToken, TypeOK
<1> QED BY <1>1, <1>2, <1>4 DEF AddToken, UpdateToken, DeleteTokens, TypeOK

LEMMA TypeAnswer ==
    ASSUME TypeOK, NEW r \in Requests, Answer(r)
    PROVE  TypeOK' /\ Only(r) /\ req'[r].pc = "closed" /\ req'[r].issue = 0
<1>1. Only(r) /\ req'[r] \in Request /\ req'[r].pc = "closed" /\ req'[r].issue = 0
  BY CloseStep DEF Answer
<1>2. AccessExpires(req[r].issue) \in AccessToken
  BY AuthTokensAssumption DEF TypeOK, Request, Times, AccessToken, AccessExpires
<1>3. cookie' \in [Browsers -> AccessToken \cup {None}]
  BY <1>2 DEF Answer, TypeOK
<1> QED BY <1>1, <1>3, TypeStep DEF Answer, TypeOK, tables

LEMMA TypeTick == TypeOK /\ Tick => TypeOK'
BY AuthTokensAssumption DEF TypeOK, Tick, Times, tables

LEMMA TypeNext == TypeOK /\ [Next]_vars => TypeOK'
<1> SUFFICES ASSUME TypeOK, [Next]_vars PROVE TypeOK'
  OBVIOUS
<1>1. CASE \E r \in Requests : Begins(r) \/ \E b \in Browsers : GoogleLogin(r, b)
  BY <1>1, TypeBegins, TypeGoogle
<1>2. CASE \E r \in Requests : Advance(r)
  BY <1>2, TypeGoogle, TypeReads, TypeWrites, TypeAnswer DEF Advance
<1>3. CASE OtherGoogleLogin
  BY <1>3 DEF OtherGoogleLogin, TypeOK, tables
<1>4. CASE UNCHANGED vars
  BY <1>4 DEF vars, tables, TypeOK
<1> QED BY <1>1, <1>2, <1>3, <1>4, TypeTick DEF Next, Finished, Begins

----
(***************************************************************************)
(* How long tokens last.  Nothing that is in a request, a row or a cookie  *)
(* was made later than now; renewals are bounded by the latest login, and, *)
(* while there is no row, by the latest logout, but for a login that is    *)
(* about to add one.                                                       *)
(***************************************************************************)

Past(r) ==
    /\ req[r].issue <= now
    /\ req[r].issue <= signed + RefreshLife
    /\ req[r].pc \in {"add", "update"} => req[r].issue <= signed

Bounded(b) ==
    cookie[b] # None => /\ cookie[b] <= now + AccessLife
                        /\ cookie[b] <= signed + RefreshLife + AccessLife

Ended(r) == req[r].pc # "add" => req[r].issue <= revoked

LifeInv ==
    /\ TypeOK
    /\ signed <= now
    /\ \A t \in tokens : t.expires <= signed + RefreshLife
    /\ \A r \in Requests : Past(r)
    /\ \A b \in Browsers : Bounded(b)
    /\ tokens = {} => \A r \in Requests : Ended(r)
    /\ LogoutEndsSessions

LEMMA LifeInit == Init => LifeInv
<1> SUFFICES ASSUME Init PROVE LifeInv
  OBVIOUS
<1>1. ASSUME NEW r \in Requests PROVE req[r].issue = 0 /\ req[r].pc = "idle"
  BY DEF Init, Idle
<1>2. ASSUME NEW r \in Requests PROVE Past(r) /\ Ended(r)
  BY <1>1, AuthTokensAssumption DEF Init, Past, Ended
<1>3. ASSUME NEW b \in Browsers PROVE cookie[b] = None
  BY DEF Init
<1> QED BY <1>2, <1>3, TypeInit DEF Init, LifeInv, Bounded, LogoutEndsSessions

\* The numbers, and the other requests, for the lemmas that follow.
LEMMA Numbers ==
    ASSUME LifeInv
    PROVE  /\ now \in Nat /\ signed \in Nat /\ revoked \in Nat
           /\ AccessLife \in Nat /\ RefreshLife \in Nat
           /\ \A r \in Requests : req[r].issue \in Nat
           /\ \A t \in tokens : t.expires \in Nat
           /\ \A b \in Browsers : cookie[b] # None => cookie[b] \in Nat
BY AuthTokensAssumption
   DEF LifeInv, TypeOK, Times, Request, RefreshToken, AccessToken

LEMMA Others ==
    ASSUME LifeInv, NEW r \in Requests, Only(r), NEW q \in Requests, q # r
    PROVE  req'[q] = req[q]
BY DEF LifeInv, TypeOK, Only

LEMMA LifePasses ==
    ASSUME LifeInv, TypeOK', NEW r \in Requests, Passes(r)
    PROVE  LifeInv'
<1>1. UNCHANGED <<now, tokens, cookie, signed, revoked>>
  BY DEF Passes, tables
<1>2. ASSUME NEW q \in Requests
      PROVE  Past(q)' /\ (tokens = {} => Ended(q)')
  <2>1. CASE q = r
    BY <1>1, <2>1, Numbers DEF Passes, LifeInv, Past, Ended
  <2>2. CASE q # r
    <3>1. req'[q] = req[q]
      BY <2>2, Others DEF Passes
    <3> QED BY <1>1, <3>1 DEF LifeInv, Past, Ended
  <2> QED BY <2>1, <2>2
<1> QED BY <1>1, <1>2 DEF LifeInv, Bounded, LogoutEndsSessions

LEMMA LifeIssues ==
    ASSUME LifeInv, TypeOK', NEW r \in Requests, Issues(r)
    PROVE  LifeInv'
<1>1. UNCHANGED <<now, tokens, cookie, revoked>> /\ Only(r) /\ req'[r].issue = now
  BY DEF Issues
<1>2. signed' \in Nat /\ signed <= signed' /\ signed' <= now
  BY Numbers DEF Issues, LifeInv
<1>3. Past(r)'
  <2>1. CASE signed' = now
    BY <1>1, <2>1, Numbers DEF Past
  <2>2. CASE (\E t \in tokens : now < t.expires) /\ req'[r].pc \in {"authorize", "answer"}
             /\ signed' = signed
    BY <1>1, <2>2, Numbers DEF Past, LifeInv
  <2> QED BY <2>1, <2>2 DEF Issues
<1>4. tokens = {} => Ended(r)'
  BY DEF Issues, Ended
<1>5. ASSUME NEW q \in Requests
      PROVE  Past(q)' /\ (tokens = {} => Ended(q)')
  <2>1. CASE q # r
    <3>1. req'[q] = req[q]
      BY <1>1, <2>1, Others
    <3> QED BY <1>1, <1>2, <3>1, Numbers DEF LifeInv, Past, Ended
  <2> QED BY <1>3, <1>4, <2>1
<1>6. \A t \in tokens' : t.expires <= signed' + RefreshLife
  BY <1>1, <1>2, Numbers DEF LifeInv
<1>7. \A b \in Browsers : Bounded(b)'
  BY <1>1, <1>2, Numbers DEF LifeInv, Bounded
<1> QED BY <1>1, <1>2, <1>5, <1>6, <1>7 DEF LifeInv, LogoutEndsSessions

LEMMA LifeWrites ==
    ASSUME LifeInv, NEW r \in Requests,
           AddToken(r) \/ UpdateToken(r) \/ DeleteTokens(r)
    PROVE  LifeInv'
<1>1. /\ TypeOK' /\ Only(r)
      /\ req'[r].pc = "answer" /\ req'[r].issue = req[r].issue
  BY TypeWrites DEF LifeInv
<1>2. UNCHANGED <<now, cookie, signed>>
  BY DEF AddToken, UpdateToken, DeleteTokens
<1>3. ASSUME NEW q \in Requests
      PROVE  Past(q)' /\ req'[q].issue = req[q].issue
  <2>1. CASE q = r
    BY <1>1, <1>2, <2>1 DEF LifeInv, Past
  <2>2. CASE q # r
    BY <1>1, <1>2, <2>2, Others DEF LifeInv, Past
  <2> QED BY <2>1, <2>2
<1>4. \A b \in Browsers : Bounded(b)'
  BY <1>2 DEF LifeInv, Bounded
<1>5. \A t \in tokens' : t.expires <= signed' + RefreshLife
  <2>1. CASE AddToken(r)
    BY <1>2, <2>1, Numbers DEF AddToken, LifeInv, Past
  <2>2. CASE UpdateToken(r)
    <3>1. req[r].issue + RefreshLife <= signed + RefreshLife
      BY <2>2, Numbers DEF UpdateToken, LifeInv, Past
    <3>2. \A t \in tokens : [t EXCEPT !.expires = req[r].issue + RefreshLife].expires
                              = req[r].issue + RefreshLife
      BY DEF LifeInv, TypeOK, RefreshToken
    <3> QED BY <1>2, <2>2, <3>1, <3>2 DEF UpdateToken
  <2>3. CASE DeleteTokens(r)
    BY <2>3 DEF DeleteTokens
  <2> QED BY <2>1, <2>2, <2>3
<1>6. tokens' = {} => (\A q \in Requests : Ended(q)') /\ LogoutEndsSessions'
  <2>1. CASE AddToken(r)
    BY <2>1 DEF AddToken
  <2>2. CASE UpdateToken(r)
    <3>1. tokens' = {} => tokens = {}
      BY <2>2 DEF UpdateToken
    <3>2. ASSUME tokens = {}, NEW q \in Requests PROVE Ended(q)'
      <4>1. CASE q = r
        BY <1>1, <2>2, <3>2, <4>1 DEF UpdateToken, LifeInv, Ended
      <4>2. CASE q # r
        BY <1>1, <2>2, <3>2, <4>2, Others DEF UpdateToken, LifeInv, Ended
      <4> QED BY <4>1, <4>2
    <3>3. UNCHANGED <<cookie, revoked>>
      BY <2>2 DEF UpdateToken
    <3> QED BY <3>1, <3>2, <3>3 DEF LifeInv, LogoutEndsSessions
  <2>3. CASE DeleteTokens(r)
    <3>1. revoked' = now /\ cookie' = cookie
      BY <2>3 DEF DeleteTokens
    <3>2. \A q \in Requests : Ended(q)'
      BY <1>2, <1>3, <3>1 DEF Ended, Past
    <3>3. LogoutEndsSessions'
      BY <3>1 DEF LifeInv, Bounded, LogoutEndsSessions
    <3> QED BY <3>2, <3>3
  <2> QED BY <2>1, <2>2, <2>3
<1>7. LogoutEndsSessions'
  BY <1>6 DEF LogoutEndsSessions
<1> QED BY <1>1, <1>2, <1>3, <1>4, <1>5, <1>6, <1>7 DEF LifeInv

LEMMA LifeAnswer ==
    ASSUME LifeInv, NEW r \in Requests, Answer(r)
    PROVE  LifeInv'
<1>1. TypeOK' /\ Only(r) /\ req'[r].pc = "closed" /\ req'[r].issue = 0
  BY TypeAnswer DEF LifeInv
<1>2. UNCHANGED <<now, tokens, signed, revoked>> /\ req[r].pc = "answer"
  BY DEF Answer, tables
<1>3. ASSUME NEW q \in Requests
      PROVE  Past(q)' /\ (tokens = {} => Ended(q)')
  <2>1. CASE q = r
    BY <1>1, <1>2, <2>1, Numbers DEF Past, Ended
  <2>2. CASE q # r
    <3>1. req'[q] = req[q]
      BY <1>1, <2>2, Others
    <3> QED BY <1>2, <3>1 DEF LifeInv, Past, Ended
  <2> QED BY <2>1, <2>2
<1>4. ASSUME NEW b \in Browsers
      PROVE  cookie'[b] \in {cookie[b], None, req[r].issue + AccessLife}
  BY DEF Answer, AccessExpires, LifeInv, TypeOK
<1>5. ASSUME NEW b \in Browsers
      PROVE  /\ Bounded(b)'
             /\ tokens = {} /\ cookie'[b] # None => cookie'[b] <= revoked + AccessLife
  <2>1. CASE cookie'[b] = cookie[b] \/ cookie'[b] = None
    BY <1>2, <2>1 DEF LifeInv, Bounded, LogoutEndsSessions
  <2>2. CASE cookie'[b] = req[r].issue + AccessLife
    <3>1. /\ req[r].issue <= now /\ req[r].issue <= signed + RefreshLife
          /\ tokens = {} => req[r].issue <= revoked
      BY <1>2 DEF LifeInv, Past, Ended
    <3>2. /\ req[r].issue + AccessLife <= now + AccessLife
          /\ req[r].issue + AccessLife <= signed + RefreshLife + AccessLife
          /\ tokens = {} => req[r].issue + AccessLife <= revoked + AccessLife
      BY <3>1, Numbers
    <3> QED BY <1>2, <2>2, <3>2 DEF Bounded
  <2> QED BY <1>4, <2>1, <2>2
<1> QED BY <1>1, <1>2, <1>3, <1>5 DEF LifeInv, LogoutEndsSessions

LEMMA LifeTick == LifeInv /\ Tick => LifeInv'
<1> SUFFICES ASSUME LifeInv, Tick PROVE LifeInv'
  OBVIOUS
<1>1. TypeOK'
  BY TypeTick DEF LifeInv
<1>2. UNCHANGED <<tokens, signed, revoked, cookie, req>> /\ now' = now + 1
  BY DEF Tick, tables
<1>3. \A q \in Requests : Past(q)' /\ (tokens = {} => Ended(q)')
  BY <1>2, Numbers DEF LifeInv, Past, Ended
<1>4. \A b \in Browsers : Bounded(b)'
  BY <1>2, Numbers DEF LifeInv, Bounded
<1> QED BY <1>1, <1>2, <1>3, <1>4, Numbers DEF LifeInv, LogoutEndsSessions

LEMMA LifeNext == LifeInv /\ [Next]_vars => LifeInv'
<1> SUFFICES ASSUME LifeInv, [Next]_vars PROVE LifeInv'
  OBVIOUS
<1>a. TypeOK /\ TypeOK'
  BY TypeNext DEF LifeInv
<1>1. CASE \E r \in Requests : Begins(r) \/ \E b \in Browsers : GoogleLogin(r, b)
  BY <1>a, <1>1, TypeBegins, TypeGoogle, LifePasses
<1>2. CASE \E r \in Requests : Advance(r)
  BY <1>a, <1>2, TypeGoogle, TypeReads, LifePasses, LifeIssues, LifeWrites, LifeAnswer
     DEF Advance
<1>3. CASE OtherGoogleLogin \/ UNCHANGED vars
  <2>1. UNCHANGED <<now, tokens, cookie, req, signed, revoked>>
    BY <1>3 DEF OtherGoogleLogin, vars, tables
  <2> QED BY <1>a, <2>1 DEF LifeInv, Past, Bounded, Ended, LogoutEndsSessions
<1> QED BY <1>1, <1>2, <1>3, LifeTick DEF Next, Finished, Begins

LEMMA LifeInvariant == Spec => []LifeInv
BY LifeInit, LifeNext, PTL DEF Spec

\* Every variable keeps its shape, for any browsers, requests and lives.
THEOREM TokensTypeCorrect == Spec => []TypeOK
<1>1. LifeInv => TypeOK
  BY DEF LifeInv
<1> QED BY <1>1, LifeInvariant, PTL

\* No access token outlives the refresh token of the latest login by more than
\* its own life (auth.py:36-45, dependencies.py:54-60).
THEOREM SessionsAreBounded == Spec => []SessionIsBounded
<1>1. LifeInv => SessionIsBounded
  BY DEF LifeInv, Bounded, SessionIsBounded
<1> QED BY <1>1, LifeInvariant, PTL

\* A logout in one browser ends the sessions of all, although renewals and
\* logins may be under way (user/router.py:93-94, auth.py:51-59).
THEOREM LogoutsEndSessions == Spec => []LogoutEndsSessions
<1>1. LifeInv => LogoutEndsSessions
  BY DEF LifeInv
<1> QED BY <1>1, LifeInvariant, PTL

----
(***************************************************************************)
(* How many refresh tokens there are.                                      *)
(***************************************************************************)

\* The row of r is not yet looked for, or not yet written.
SigningIn(r) == req[r].pc \in {"find", "add", "update"}

LoginRuns(r) == Running(r) /\ req[r].kind \in Logins

\* Without overlapping logins one runs, and a login about to insert a row has
\* still none.
OneRowInv ==
    /\ \A r \in Requests :
         req[r].pc = "consent" \/ SigningIn(r) => req[r].kind \in Logins
    /\ overlap # "logins" =>
         /\ OneTokenRow
         /\ \A q, r \in Requests : LoginRuns(q) /\ LoginRuns(r) => q = r
         /\ \A r \in Requests : req[r].pc = "add" => tokens = {}

\* A step of r that begins no login.
LEMMA OneRowReads ==
    ASSUME TypeOK, OneRowInv, NEW r \in Requests, Only(r), tokens' = tokens,
           overlap' # "logins" => overlap # "logins",
           req'[r].pc = "consent" \/ SigningIn(r)' => req'[r].kind \in Logins,
           LoginRuns(r)' => LoginRuns(r), req'[r].pc = "add" => tokens = {}
    PROVE  OneRowInv'
<1>1. \A q \in Requests \ {r} : req'[q] = req[q]
  BY DEF Only, TypeOK
<1>2. \A q \in Requests : LoginRuns(q)' => LoginRuns(q)
  BY <1>1 DEF LoginRuns, Running
<1>3. \A q \in Requests : req'[q].pc = "consent" \/ SigningIn(q)' => req'[q].kind \in Logins
  BY <1>1 DEF OneRowInv, SigningIn
<1>4. overlap' # "logins" => \A q \in Requests : req'[q].pc = "add" => tokens' = {}
  BY <1>1 DEF OneRowInv
<1> QED BY <1>2, <1>3, <1>4 DEF OneRowInv, OneTokenRow

\* A request begins to run.
LEMMA OneRowStarts ==
    ASSUME TypeOK, OneRowInv, NEW r \in Requests, Only(r), UNCHANGED tokens,
           ~Running(r), overlap' = Overlapping(req'[r].kind),
           req'[r].pc \in {"find", "lookup", "authorize"},
           req'[r].pc = "find" => req'[r].kind \in Logins
    PROVE  OneRowInv'
<1>1. \A q \in Requests \ {r} : req'[q] = req[q]
  BY DEF Only, TypeOK
<1>2. overlap' # "logins" => overlap # "logins"
  BY DEF Overlapping
<1>3. overlap' # "logins" /\ req'[r].kind \in Logins => \A q \in Requests : ~LoginRuns(q)
  BY DEF Overlapping, LoginRuns
<1>4. \A q \in Requests : LoginRuns(q)' =>
          LoginRuns(q) \/ (q = r /\ req'[r].kind \in Logins)
  BY <1>1 DEF LoginRuns, Running
<1>5. overlap' # "logins" => \A p, q \in Requests : LoginRuns(p)' /\ LoginRuns(q)' => p = q
  BY <1>2, <1>3, <1>4 DEF OneRowInv
<1>6. \A q \in Requests : req'[q].pc = "consent" \/ SigningIn(q)' => req'[q].kind \in Logins
  BY <1>1 DEF OneRowInv, SigningIn
<1>7. overlap' # "logins" => \A q \in Requests : req'[q].pc = "add" => tokens' = {}
  BY <1>1, <1>2 DEF OneRowInv
<1> QED BY <1>2, <1>5, <1>6, <1>7 DEF OneRowInv, OneTokenRow

\* Rows are written.
LEMMA OneRowWrites ==
    ASSUME TypeOK, OneRowInv, NEW r \in Requests,
           AddToken(r) \/ UpdateToken(r) \/ DeleteTokens(r)
    PROVE  OneRowInv'
<1>1. Only(r) /\ req'[r].pc = "answer" /\ req'[r].kind = req[r].kind /\ overlap' = overlap
  BY DEF AddToken, UpdateToken, DeleteTokens, Goto, Only, TypeOK, Request
<1>2. \A q \in Requests \ {r} : req'[q] = req[q]
  BY <1>1 DEF Only, TypeOK
<1>3. \A q \in Requests : LoginRuns(q)' => LoginRuns(q)
  BY <1>1, <1>2 DEF LoginRuns, Running, Steps, AddToken, UpdateToken, DeleteTokens
<1>4. \A q \in Requests : req'[q].pc = "consent" \/ SigningIn(q)' => req'[q].kind \in Logins
  BY <1>1, <1>2 DEF OneRowInv, SigningIn
<1>5. ASSUME overlap # "logins"
      PROVE  /\ \A t, u \in tokens' : t = u
             /\ \A q \in Requests : req'[q].pc = "add" => tokens' = {}
  <2>1. CASE DeleteTokens(r)
    BY <2>1 DEF DeleteTokens
  <2>2. CASE AddToken(r) \/ UpdateToken(r)
    <3>1. LoginRuns(r)
      BY <2>2 DEF AddToken, UpdateToken, OneRowInv, SigningIn, LoginRuns, Running, Steps
    <3>2. \A q \in Requests : req'[q].pc # "add"
      <4>1. \A q \in Requests \ {r} : ~LoginRuns(q)
        BY <1>5, <3>1 DEF OneRowInv
      <4>2. \A q \in Requests \ {r} : req[q].pc # "add"
        BY <4>1 DEF OneRowInv, SigningIn, LoginRuns, Running, Steps
      <4> QED BY <1>1, <1>2, <4>2
    <3>3. CASE AddToken(r)
      <4>1. tokens = {}
        BY <1>5, <3>3 DEF AddToken, OneRowInv
      <4> QED BY <3>2, <3>3, <4>1 DEF AddToken
    <3>4. CASE UpdateToken(r)
      <4>1. \A t, u \in tokens : t = u
        BY <1>5 DEF OneRowInv, OneTokenRow
      <4> QED BY <3>2, <3>4, <4>1 DEF UpdateToken
    <3> QED BY <2>2, <3>3, <3>4
  <2> QED BY <2>1, <2>2
<1> QED BY <1>1, <1>3, <1>4, <1>5 DEF OneRowInv, OneTokenRow

LEMMA OneRowNext == TypeOK /\ OneRowInv /\ [Next]_vars => OneRowInv'
<1> SUFFICES ASSUME TypeOK, OneRowInv, [Next]_vars PROVE OneRowInv'
  OBVIOUS
\* A step of r that keeps the kind of its request, or ends it.
<1>k. ASSUME NEW r \in Requests, Only(r), UNCHANGED <<tokens, overlap>>,
             Running(r), req'[r].kind = req[r].kind \/ req'[r].pc = "closed",
             req'[r].pc \in {"closed", "authorize", "revoke", "answer", "add", "update"},
             req'[r].pc = "add" => tokens = {},
             req'[r].pc \in {"add", "update"} => req[r].pc = "find"
      PROVE  OneRowInv'
  <2>1. LoginRuns(r)' => LoginRuns(r)
    BY <1>k DEF LoginRuns, Running, Steps
  <2>2. req'[r].pc = "consent" \/ SigningIn(r)' => req'[r].kind \in Logins
    BY <1>k DEF OneRowInv, SigningIn
  <2> QED BY <1>k, <2>1, <2>2, OneRowReads
<1>c. ASSUME NEW r \in Requests, Close(r), UNCHANGED <<tokens, overlap>> PROVE OneRowInv'
  <2>1. Only(r) /\ req'[r].pc = "closed"
    BY <1>c, CloseStep
  <2> QED BY <1>c, <2>1, OneRowReads DEF SigningIn, LoginRuns, Running, Steps
<1>1. ASSUME NEW r \in Requests, NEW b \in Browsers, NEW kind, NEW token, NEW pc,
             Begin(r, b, kind, token, pc), pc \in {"find", "lookup", "authorize"},
             pc = "find" => kind \in Logins
      PROVE  OneRowInv'
  <2> DEFINE new == [pc |-> pc, kind |-> kind, browser |-> b, token |-> token, issue |-> 0]
  <2>1. new.pc = pc /\ new.kind = kind
    OBVIOUS
  <2>2. req' = [req EXCEPT ![r] = new]
    BY <1>1 DEF Begin
  <2> HIDE DEF new
  <2>3. Only(r) /\ req'[r] = new
    BY <2>2 DEF TypeOK, Only
  <2>4. ~Running(r) /\ overlap' = Overlapping(kind) /\ UNCHANGED tokens
    BY <1>1 DEF Begin, Running, Steps, tables
  <2> QED BY <1>1, <2>1, <2>3, <2>4, OneRowStarts
<1>2. ASSUME NEW r \in Requests, NEW b \in Browsers,
             Login(r, b) \/ Logout(r, b) \/ Refresh(r, b) \/ UseApi(r, b)
      PROVE  OneRowInv'
  BY <1>1, <1>2 DEF Login, Logout, Refresh, UseApi, Logins
<1>3. ASSUME NEW r \in Requests, NEW b \in Browsers, GoogleLogin(r, b) PROVE OneRowInv'
  <2>1. Only(r) /\ req'[r].pc = "consent" /\ req'[r].kind = "google"
        /\ UNCHANGED <<tokens, overlap>>
    BY <1>3 DEF GoogleLogin, Only, TypeOK, Idle, tables
  <2> QED BY <2>1, OneRowReads DEF SigningIn, LoginRuns, Running, Steps, Logins
<1>4. ASSUME NEW r \in Requests, GoogleCallback(r) PROVE OneRowInv'
  <2>1. CASE state = r
    <3>1. /\ Goto(r, "find") /\ overlap' = Overlapping("google") /\ UNCHANGED tokens
          /\ req[r].pc = "consent"
      BY <1>4, <2>1 DEF GoogleCallback, tables
    <3>2. Only(r) /\ req'[r].pc = "find" /\ req'[r].kind = req[r].kind
      BY <3>1 DEF Goto, Only, TypeOK, Request
    <3>3. req[r].kind \in Logins
      BY <3>1 DEF OneRowInv
    <3>4. Overlapping("google") = Overlapping(req[r].kind)
      BY <3>3 DEF Overlapping, Logins
    <3>5. ~Running(r)
      BY <3>1 DEF Running, Steps
    <3> QED BY <3>1, <3>2, <3>3, <3>4, <3>5, OneRowStarts
  <2>2. CASE state # r
    BY <1>4, <1>c, <2>2 DEF GoogleCallback, tables
  <2> QED BY <2>1, <2>2
<1>i. ASSUME NEW r \in Requests, NEW pc \in Steps, Issue(r, pc)
      PROVE  Only(r) /\ req'[r].pc = pc /\ req'[r].kind = req[r].kind
  BY <1>i DEF Issue, Only, TypeOK, Request
<1>5. ASSUME NEW r \in Requests, FindToken(r) PROVE OneRowInv'
  <2>0. Running(r) /\ req[r].pc = "find" /\ UNCHANGED <<tokens, overlap>>
    BY <1>5 DEF FindToken, Running, Steps
  <2>1. CASE Close(r)
    BY <1>c, <2>0, <2>1
  <2>2. ASSUME NEW pc \in {"add", "update"}, Issue(r, pc), pc = "add" => tokens = {}
        PROVE  OneRowInv'
    BY <1>i, <1>k, <2>0, <2>2 DEF Steps
  <2> QED BY <1>5, <2>1, <2>2 DEF FindToken
<1>6. ASSUME NEW r \in Requests, Lookup(r) PROVE OneRowInv'
  <2>0. Running(r) /\ UNCHANGED <<tokens, overlap>>
    BY <1>6 DEF Lookup, Running, Steps, tables
  <2>1. CASE Close(r)
    BY <1>c, <2>0, <2>1
  <2>2. ASSUME NEW pc \in {"authorize", "answer"}, Issue(r, pc) PROVE OneRowInv'
    BY <1>i, <1>k, <2>0, <2>2 DEF Steps
  <2> QED BY <1>6, <2>1, <2>2 DEF Lookup
<1>7. ASSUME NEW r \in Requests, Authorize(r) PROVE OneRowInv'
  <2>0. Running(r) /\ UNCHANGED <<tokens, overlap>>
    BY <1>7 DEF Authorize, Running, Steps, tables
  <2>1. CASE Close(r)
    BY <1>c, <2>0, <2>1
  <2>2. ASSUME NEW pc \in {"revoke", "answer"},
               req' = [req EXCEPT ![r].pc = pc, ![r].token = None]
        PROVE  OneRowInv'
    <3>1. Only(r) /\ req'[r].pc = pc /\ req'[r].kind = req[r].kind
      BY <2>2 DEF Only, TypeOK, Request
    <3> QED BY <1>k, <2>0, <2>2, <3>1
  <2> QED BY <1>7, <2>1, <2>2 DEF Authorize
<1>8. ASSUME NEW r \in Requests, Answer(r) \/ Fail(r) PROVE OneRowInv'
  BY <1>8, <1>c DEF Answer, Fail, tables
<1>9. CASE OtherGoogleLogin \/ Tick \/ UNCHANGED vars
  BY <1>9 DEF OtherGoogleLogin, Tick, vars, tables, OneRowInv, OneTokenRow, SigningIn,
       LoginRuns, Running
<1> QED BY <1>2, <1>3, <1>4, <1>5, <1>6, <1>7, <1>8, <1>9, OneRowWrites
        DEF Next, Advance, Finished

\* The lookups find at most one row unless two logins have overlapped, whatever
\* other requests and failures there are in between (auth.py:50-59).
THEOREM OneRowUnlessLoginsOverlap == Spec => []OneTokenRow
<1>1. Init => OneRowInv
  BY DEF Init, OneRowInv, OneTokenRow, SigningIn, LoginRuns, Running, Idle, Steps
<1>2. OneRowInv => OneTokenRow
  BY DEF OneRowInv, OneTokenRow
<1> QED BY <1>1, <1>2, OneRowNext, TypeInit, TypeNext, PTL DEF Spec

----
(***************************************************************************)
(* What a successful request leaves when no other has run beside it.       *)
(***************************************************************************)

\* The request has a browser, and its kind comes to this step.
Serves(r) ==
    /\ req[r].pc \in Steps \cup {"consent"} => req[r].browser \in Browsers
    /\ req[r].pc = "lookup" => req[r].kind \in {"refresh", "api"}
    /\ req[r].pc = "authorize" => req[r].kind \in {"logout", "api"}
    /\ req[r].pc = "revoke" => req[r].kind = "logout"

\* The rows are as the request, which alone runs, has found or left them.
Settled(r) ==
    /\ req[r].pc = "add" => tokens = {}
    /\ req[r].pc = "update" => \E t \in tokens : Finds(t)
    /\ req[r].pc = "answer" /\ req[r].kind = "logout" => tokens = {}
    /\ \/ req[r].pc = "answer" /\ req[r].kind # "logout"
       \/ req[r].pc = "authorize" /\ req[r].kind = "api"
       => \E t \in tokens : Finds(t) /\ t.expires > req[r].issue

SoloInv ==
    /\ \A r \in Requests : Serves(r)
    /\ overlap = "none" =>
         /\ \A q, r \in Requests : Running(q) /\ Running(r) => q = r
         /\ \A r \in Requests : Settled(r)

\* A step of r that changes no row: it goes on, or begins while none runs.
LEMMA SoloReads ==
    ASSUME TypeOK, SoloInv, NEW r \in Requests, Only(r), UNCHANGED tokens,
           Serves(r)',
           overlap' = "none" =>
             /\ overlap = "none"
             /\ Running(r)' => \A q \in Requests \ {r} : ~Running(q)
             /\ Settled(r)'
    PROVE  SoloInv'
<1>1. \A q \in Requests \ {r} : req'[q] = req[q]
  BY DEF Only, TypeOK
<1>2. \A q \in Requests : Serves(q)'
  BY <1>1 DEF SoloInv, Serves
<1>3. ASSUME overlap' = "none"
      PROVE  /\ \A p, q \in Requests : Running(p)' /\ Running(q)' => p = q
             /\ \A q \in Requests : Settled(q)'
  <2>1. \A q \in Requests \ {r} : (Running(q)' <=> Running(q)) /\ (Settled(q) => Settled(q)')
    BY <1>1 DEF Running, Settled, Finds
  <2>2. \A p, q \in Requests : Running(p)' /\ Running(q)' => p = q
    BY <1>3, <2>1 DEF SoloInv
  <2>3. \A q \in Requests : Settled(q)'
    BY <1>3, <2>1 DEF SoloInv
  <2> QED BY <2>2, <2>3
<1> QED BY <1>2, <1>3 DEF SoloInv

\* A request begins to run.
LEMMA SoloStarts ==
    ASSUME TypeOK, SoloInv, NEW r \in Requests, Only(r), UNCHANGED tokens, Serves(r)',
           NEW kind, overlap' = Overlapping(kind),
           \/ req'[r].pc \in {"find", "lookup"}
           \/ req'[r].pc = "authorize" /\ req'[r].kind = "logout"
    PROVE  SoloInv'
<1>1. overlap' = "none" => overlap = "none" /\ \A q \in Requests : ~Running(q)
  BY DEF Overlapping
<1>2. Settled(r)'
  BY DEF Settled
<1> QED BY <1>1, <1>2, SoloReads

\* A running request goes on without changing a row, or ends.
LEMMA SoloGoesOn ==
    ASSUME TypeOK, SoloInv, NEW r \in Requests, Only(r), UNCHANGED <<tokens, overlap>>,
           Running(r), Serves(r)', overlap = "none" => Settled(r)'
    PROVE  SoloInv'
<1>1. overlap = "none" => \A q \in Requests \ {r} : ~Running(q)
  BY DEF SoloInv
<1> QED BY <1>1, SoloReads

LEMMA SoloCloses ==
    ASSUME TypeOK, SoloInv, NEW r \in Requests, Close(r), UNCHANGED <<tokens, overlap>>
    PROVE  SoloInv'
<1>1. Only(r) /\ req'[r].pc = "closed"
  BY CloseStep
<1>2. Serves(r)' /\ Settled(r)' /\ ~Running(r)'
  BY <1>1 DEF Serves, Settled, Running, Steps
<1> QED BY <1>1, <1>2, SoloReads

LEMMA SoloBegins ==
    ASSUME TypeOK, SoloInv, NEW r \in Requests, Begins(r)
    PROVE  SoloInv'
<1>1. ASSUME NEW b \in Browsers, NEW kind, NEW token, NEW pc, Begin(r, b, kind, token, pc),
             \/ pc = "find"
             \/ pc = "lookup" /\ kind \in {"refresh", "api"}
             \/ pc = "authorize" /\ kind = "logout"
      PROVE  SoloInv'
  <2> DEFINE new == [pc |-> pc, kind |-> kind, browser |-> b, token |-> token, issue |-> 0]
  <2>1. new.pc = pc /\ new.kind = kind /\ new.browser = b
    OBVIOUS
  <2>2. req' = [req EXCEPT ![r] = new]
    BY <1>1 DEF Begin
  <2> HIDE DEF new
  <2>3. Only(r) /\ req'[r] = new
    BY <2>2 DEF TypeOK, Only
  <2>4. Serves(r)'
    BY <1>1, <2>1, <2>3 DEF Serves
  <2>5. overlap' = Overlapping(kind) /\ UNCHANGED tokens
    BY <1>1 DEF Begin, tables
  <2> QED BY <1>1, <2>1, <2>3, <2>4, <2>5, SoloStarts
<1> QED BY <1>1 DEF Begins, Login, Logout, Refresh, UseApi

LEMMA SoloGoogle ==
    ASSUME TypeOK, SoloInv, NEW r \in Requests,
           (\E b \in Browsers : GoogleLogin(r, b)) \/ GoogleCallback(r)
    PROVE  SoloInv'
<1>1. ASSUME NEW b \in Browsers, GoogleLogin(r, b) PROVE SoloInv'
  <2>1. /\ Only(r) /\ req'[r].pc = "consent" /\ req'[r].browser = b
        /\ UNCHANGED <<tokens, overlap>>
    BY <1>1 DEF GoogleLogin, Only, TypeOK, Idle, tables
  <2>2. Serves(r)' /\ Settled(r)' /\ ~Running(r)'
    BY <2>1 DEF Serves, Settled, Running, Steps
  <2> QED BY <2>1, <2>2, SoloReads
<1>2. CASE GoogleCallback(r)
  <2>1. CASE state = r
    <3>1. /\ Goto(r, "find") /\ overlap' = Overlapping("google") /\ UNCHANGED tokens
          /\ req[r].pc = "consent"
      BY <1>2, <2>1 DEF GoogleCallback, tables
    <3>2. Only(r) /\ req'[r].pc = "find" /\ req'[r].browser = req[r].browser
      BY <3>1 DEF Goto, Only, TypeOK, Request
    <3>3. Serves(r)'
      BY <3>1, <3>2 DEF Serves, SoloInv
    <3> QED BY <3>1, <3>2, <3>3, SoloStarts
  <2>2. CASE state # r
    BY <1>2, <2>2, SoloCloses DEF GoogleCallback, tables
  <2> QED BY <2>1, <2>2
<1> QED BY <1>1, <1>2

LEMMA IssueKeeps ==
    ASSUME TypeOK, NEW r \in Requests, NEW pc \in Steps, Issue(r, pc)
    PROVE  /\ Only(r) /\ req'[r].pc = pc /\ req'[r].issue = now
           /\ req'[r].kind = req[r].kind /\ req'[r].browser = req[r].browser
BY DEF Issue, Only, TypeOK, Request

LEMMA GotoKeeps ==
    ASSUME TypeOK, NEW r \in Requests, NEW pc \in Steps, Goto(r, pc)
    PROVE  /\ Only(r) /\ req'[r].pc = pc /\ req'[r].issue = req[r].issue
           /\ req'[r].kind = req[r].kind /\ req'[r].browser = req[r].browser
BY DEF Goto, Only, TypeOK, Request

LEMMA SoloReadsOn ==
    ASSUME TypeOK, OneRowInv, SoloInv, NEW r \in Requests,
           FindToken(r) \/ Lookup(r) \/ Authorize(r)
    PROVE  SoloInv'
<1>0. Running(r) /\ UNCHANGED <<tokens, overlap>> /\ req[r].browser \in Browsers
  BY DEF FindToken, Lookup, Authorize, Running, Steps, tables, SoloInv, Serves
<1>1. CASE Close(r)
  BY <1>0, <1>1, SoloCloses
<1>2. CASE FindToken(r) /\ ~Close(r)
  <2>1. PICK pc \in {"add", "update"} :
          /\ Issue(r, pc)
          /\ pc = "add" => tokens = {}
          /\ pc = "update" => \E t \in tokens : Finds(t)
    BY <1>2 DEF FindToken
  <2>2. /\ Only(r) /\ req'[r].pc = pc /\ req'[r].browser = req[r].browser
    BY <2>1, IssueKeeps DEF Steps
  <2>3. Serves(r)' /\ Settled(r)'
    BY <1>0, <2>1, <2>2 DEF Serves, Settled, Finds
  <2> QED BY <1>0, <2>2, <2>3, SoloGoesOn
<1>3. CASE Lookup(r) /\ ~Close(r)
  <2>1. PICK t \in tokens : Finds(t) /\ now < t.expires
    BY <1>3 DEF Lookup, Valid
  <2>2. req[r].pc = "lookup" /\ req[r].kind \in {"refresh", "api"}
    BY <1>3 DEF Lookup, SoloInv, Serves
  <2>3. PICK pc \in {"authorize", "answer"} :
          Issue(r, pc) /\ (pc = "authorize" => req[r].kind = "api")
    BY <1>3, <2>1 DEF Lookup
  <2>4. /\ Only(r) /\ req'[r].pc = pc /\ req'[r].issue = now
        /\ req'[r].kind = req[r].kind /\ req'[r].browser = req[r].browser
    BY <2>3, IssueKeeps DEF Steps
  <2>5. t \in tokens' /\ Finds(t)' /\ t.expires > req'[r].issue
    <3>1. t.expires > now
      BY <2>1 DEF TypeOK, RefreshToken, Times
    <3> QED BY <1>0, <2>1, <2>4, <3>1 DEF Finds
  <2>6. Serves(r)' /\ Settled(r)'
    BY <1>0, <2>2, <2>3, <2>4, <2>5 DEF Serves, Settled
  <2> QED BY <1>0, <2>4, <2>6, SoloGoesOn
<1>4. CASE Authorize(r) /\ ~Close(r)
  <2>1. req[r].pc = "authorize" /\ req[r].kind \in {"logout", "api"}
    BY <1>4 DEF Authorize, SoloInv, Serves
  <2>2. PICK pc \in {"revoke", "answer"} :
          /\ req' = [req EXCEPT ![r].pc = pc, ![r].token = None]
          /\ pc = "revoke" <=> req[r].kind = "logout"
    BY <1>4 DEF Authorize
  <2>3. /\ Only(r) /\ req'[r].pc = pc /\ req'[r].issue = req[r].issue
        /\ req'[r].kind = req[r].kind /\ req'[r].browser = req[r].browser
    BY <2>2 DEF Only, TypeOK, Request
  <2>4. Serves(r)'
    BY <1>0, <2>2, <2>3 DEF Serves
  <2>5. Settled(r) => Settled(r)'
    BY <1>0, <2>1, <2>2, <2>3 DEF Settled, Finds
  <2> QED BY <1>0, <2>3, <2>4, <2>5, SoloGoesOn DEF SoloInv
<1> QED BY <1>1, <1>2, <1>3, <1>4

LEMMA SoloWrites ==
    ASSUME TypeOK, OneRowInv, SoloInv, NEW r \in Requests,
           AddToken(r) \/ UpdateToken(r) \/ DeleteTokens(r)
    PROVE  SoloInv'
<1>1. Goto(r, "answer") /\ overlap' = overlap
  BY DEF AddToken, UpdateToken, DeleteTokens
<1>2. /\ Only(r) /\ req'[r].pc = "answer" /\ req'[r].issue = req[r].issue
      /\ req'[r].kind = req[r].kind /\ req'[r].browser = req[r].browser
  BY <1>1, GotoKeeps DEF Steps
<1>3. Running(r) /\ req[r].browser \in Browsers
  BY DEF AddToken, UpdateToken, DeleteTokens, Running, Steps, SoloInv, Serves
<1>4. \A q \in Requests \ {r} : req'[q] = req[q]
  BY <1>2 DEF Only, TypeOK
<1>5. \A q \in Requests : Serves(q)'
  BY <1>2, <1>3, <1>4 DEF SoloInv, Serves
<1>6. ASSUME overlap = "none" PROVE Settled(r)'
  <2>1. CASE AddToken(r) \/ UpdateToken(r)
    <3> DEFINE life == req[r].issue + RefreshLife
    <3>1. req[r].kind # "logout"
      BY <2>1 DEF AddToken, UpdateToken, OneRowInv, SigningIn, Logins
    <3>2. life > req[r].issue
      BY AuthTokensAssumption DEF TypeOK, Request, Times
    <3> HIDE DEF life
    <3>3. \E t : tokens' = {t} /\ t.expires = life
      <4>1. CASE AddToken(r)
        <5>1. tokens = {}
          BY <1>6, <4>1 DEF AddToken, SoloInv, Settled
        <5> DEFINE new == [id |-> r, expires |-> life]
        <5>2. tokens' = {new}
          BY <4>1, <5>1 DEF AddToken, life
        <5>3. new.expires = life
          OBVIOUS
        <5> QED BY <5>2, <5>3
      <4>2. CASE UpdateToken(r)
        <5>1. PICK t \in tokens : tokens = {t}
          BY <1>6, <4>2 DEF UpdateToken, SoloInv, Settled, Finds
        <5>2. tokens' = {[t EXCEPT !.expires = life]}
          BY <4>2, <5>1 DEF UpdateToken, life
        <5>3. t \in RefreshToken
          BY DEF TypeOK
        <5>4. [t EXCEPT !.expires = life].expires = life
          BY <5>3 DEF RefreshToken
        <5> QED BY <5>2, <5>4
      <4> QED BY <2>1, <4>1, <4>2
    <3> QED BY <1>2, <3>1, <3>2, <3>3 DEF Settled, Finds
  <2>2. CASE DeleteTokens(r)
    <3>1. req[r].kind = "logout" /\ tokens' = {}
      BY <2>2 DEF DeleteTokens, SoloInv, Serves
    <3> QED BY <1>2, <3>1 DEF Settled
  <2> QED BY <2>1, <2>2
<1>7. ASSUME overlap = "none", NEW q \in Requests \ {r} PROVE ~Running(q)' /\ Settled(q)'
  <2>1. ~Running(q)
    BY <1>3, <1>7 DEF SoloInv
  <2>2. req'[q].pc \notin Steps
    BY <1>4, <2>1 DEF Running
  <2> QED BY <2>2 DEF Running, Settled, Steps
<1> QED BY <1>1, <1>5, <1>6, <1>7 DEF SoloInv

LEMMA SoloNext == TypeOK /\ OneRowInv /\ SoloInv /\ [Next]_vars => SoloInv'
<1> SUFFICES ASSUME TypeOK, OneRowInv, SoloInv, [Next]_vars PROVE SoloInv'
  OBVIOUS
<1>1. CASE \E r \in Requests : Begins(r) \/ \E b \in Browsers : GoogleLogin(r, b)
  BY <1>1, SoloBegins, SoloGoogle
<1>2. CASE \E r \in Requests : Advance(r)
  <2>1. PICK r \in Requests : Advance(r)
    BY <1>2
  <2>2. CASE Answer(r) \/ Fail(r)
    BY <2>2, SoloCloses DEF Answer, Fail, tables
  <2> QED BY <2>1, <2>2, SoloGoogle, SoloReadsOn, SoloWrites DEF Advance
<1>3. CASE OtherGoogleLogin \/ Tick \/ UNCHANGED vars
  <2>1. UNCHANGED <<tokens, req, overlap>>
    BY <1>3 DEF OtherGoogleLogin, Tick, vars, tables
  <2> QED BY <2>1 DEF SoloInv, Serves, Settled, Running, Finds
<1> QED BY <1>1, <1>2, <1>3 DEF Next, Finished, Begins

\* When requests are made one at a time, also after failed ones, a successful
\* logout leaves the browser without a cookie and no row, and every other
\* successful request leaves a new access token and the row to renew it
\* (user/router.py:71-94, 155-171).
THEOREM AnswersAgreeAlone == Spec => AnswersAgree
<1> DEFINE Agrees(r) ==
             overlap' = "none" /\ Answer(r) =>
             IF req[r].kind = "logout"
               THEN tokens' = {} /\ cookie'[req[r].browser] = None
               ELSE /\ cookie'[req[r].browser] = AccessExpires(req[r].issue)
                    /\ \E t \in tokens' : tokens' = {t} /\ t.expires > req[r].issue
<1>1. Init => OneRowInv /\ SoloInv
  BY DEF Init, OneRowInv, OneTokenRow, SigningIn, LoginRuns, SoloInv, Serves, Settled,
     Running, Idle, Steps
<1>2. ASSUME TypeOK, SoloInv PROVE \A r \in Requests : Agrees(r)
  <2> SUFFICES ASSUME NEW r \in Requests, overlap' = "none", Answer(r)
               PROVE  IF req[r].kind = "logout"
                        THEN tokens' = {} /\ cookie'[req[r].browser] = None
                        ELSE /\ cookie'[req[r].browser] = AccessExpires(req[r].issue)
                             /\ \E t \in tokens' : tokens' = {t} /\ t.expires > req[r].issue
    OBVIOUS
  <2>1. /\ req[r].pc = "answer" /\ overlap = "none" /\ tokens' = tokens
        /\ req[r].browser \in Browsers /\ Settled(r)
    BY <1>2 DEF Answer, tables, SoloInv, Serves, Steps
  <2>2. cookie'[req[r].browser] = IF req[r].kind = "logout" THEN None
                                  ELSE AccessExpires(req[r].issue)
    BY <1>2, <2>1 DEF Answer, TypeOK
  <2> QED BY <2>1, <2>2 DEF Settled, Finds
<1>3. [][\A r \in Requests : Agrees(r)]_vars => AnswersAgree
  BY DEF AnswersAgree
<1> QED BY <1>1, <1>2, <1>3, TypeInit, TypeNext, OneRowNext, SoloNext, PTL DEF Spec

====
