---- MODULE AuthTokens ----
(***************************************************************************)
(* The tokens of one user.  Each of the user's browsers keeps an access    *)
(* token in a cookie; the refresh token is a row of the database that all  *)
(* of them share.  A login, with the password or through Google, creates   *)
(* or overwrites the row, requests of the API renew the access token while *)
(* the row lasts, and a logout deletes the row.                            *)
(*                                                                         *)
(* A token is the time at which it expires.  Requests interleave at every  *)
(* await, and their answers reach the browsers in any order.               *)
(* Definitions named ...Mutant are plausible bugs, as in Submissions.      *)
(***************************************************************************)
EXTENDS Integers

CONSTANTS
    Browsers,      \* the user's browsers
    Requests,      \* requests they make, each once
    AccessLife,    \* ACCESS_TOKEN_EXPIRE_MINUTES
    RefreshLife,   \* REFRESH_TOKEN_EXPIRE_DAYS
    MaxTime,       \* bound on the clock
    None           \* no token, no request, no browser

ASSUME AuthTokensAssumption ==
    /\ AccessLife \in Nat \ {0}
    /\ RefreshLife \in Nat \ {0}
    /\ MaxTime \in Nat
    /\ None \notin Nat /\ None \notin Browsers /\ None \notin Requests

VARIABLES
    now,      \* the clock
    tokens,   \* the user's rows of refresh_token
    cookie,   \* the access token in each browser
    state,    \* state_storage["google_state"], one for the whole process
    req,      \* the requests: program counter and locals
    signed,   \* when a login last made its tokens (history)
    revoked,  \* when a logout last deleted the rows (history)
    overlap   \* have requests overlapped, and have logins? (history)

tables == <<tokens, signed, revoked>>
vars == <<now, tokens, cookie, state, req, signed, revoked, overlap>>

Times == 0..MaxTime

Logins == {"login", "google"}

Steps == {"find", "add", "update", "lookup", "authorize", "revoke", "answer"}

RefreshToken == [id: Requests, expires: 0..(MaxTime + RefreshLife)]

AccessToken == 0..(MaxTime + AccessLife)

Request == [pc: Steps \cup {"idle", "consent", "closed"},
            kind: Logins \cup {"logout", "refresh", "api", None},
            browser: Browsers \cup {None}, token: AccessToken \cup {None},
            issue: Times]

Idle == [pc |-> "idle", kind |-> None, browser |-> None, token |-> None,
         issue |-> 0]

Running(r) == req[r].pc \in Steps

SwappedLifeMutant(time) == time + RefreshLife

\* create_access_token
AccessExpires(time) == time + AccessLife

Valid(token) == now < token

\* find_one_or_none returns t, rather than nothing, or raising for two rows.
Finds(t) == tokens = {t}

Goto(r, pc) == req' = [req EXCEPT ![r].pc = pc]

\* The tokens of r are made now.
Issue(r, pc) == req' = [req EXCEPT ![r].pc = pc, ![r].issue = now]

\* The answer is sent or the error raised; the locals are gone.
Close(r) == req' = [req EXCEPT ![r] = [Idle EXCEPT !.pc = "closed"]]

\* The kind of overlap when a request of this kind begins to run.
Overlapping(kind) ==
    IF kind \in Logins /\ \E q \in Requests : Running(q) /\ req[q].kind \in Logins
      THEN "logins"
    ELSE IF overlap = "none" /\ \E q \in Requests : Running(q) THEN "requests"
    ELSE overlap

----
(***************************************************************************)
(* The endpoints.                                                          *)
(***************************************************************************)

Begin(r, b, kind, token, pc) ==
    /\ req[r].pc = "idle"
    /\ req' = [req EXCEPT ![r] = [pc |-> pc, kind |-> kind, browser |-> b,
                                  token |-> token, issue |-> 0]]
    /\ overlap' = Overlapping(kind)
    /\ UNCHANGED <<now, tables, cookie, state>>

Login(r, b) == Begin(r, b, "login", None, "find")

\* The other requests are refused at once without a cookie, and leave no trace.
Logout(r, b) == cookie[b] # None /\ Begin(r, b, "logout", cookie[b], "authorize")

\* Of the token of this one only the user matters.
Refresh(r, b) == cookie[b] # None /\ Begin(r, b, "refresh", None, "lookup")

\* An endpoint that depends on refresh_token and on get_current_user, such as
\* GET /auth/me, and answers with data (a page's own response drops the cookie).
UseApi(r, b) == cookie[b] # None /\ Begin(r, b, "api", cookie[b], "lookup")

\* The browser goes to Google with the state of this login ...
GoogleLogin(r, b) ==
    /\ req[r].pc = "idle"
    /\ state' = r
    /\ req' = [req EXCEPT ![r] = [Idle EXCEPT !.pc = "consent", !.kind = "google",
                                              !.browser = b]]
    /\ UNCHANGED <<now, tables, cookie, overlap>>

\* ... and comes back; another login may have replaced the state meanwhile.
GoogleCallback(r) ==
    /\ req[r].pc = "consent"
    /\ IF state = r THEN Goto(r, "find") /\ overlap' = Overlapping("google")
                    ELSE Close(r) /\ UNCHANGED overlap
    /\ UNCHANGED <<now, tables, cookie, state>>

\* Another user goes to Google.
OtherGoogleLogin ==
    /\ state' = None
    /\ UNCHANGED <<now, tables, cookie, req, overlap>>

----
(***************************************************************************)
(* create_refresh_token                                                    *)
(***************************************************************************)

AlwaysAddMutant(r) ==
    /\ req[r].pc = "find"
    /\ Issue(r, "add")
    /\ signed' = now
    /\ UNCHANGED <<now, tokens, cookie, state, revoked, overlap>>

\* Both tokens are made, then the row is looked for; two rows raise.
FindToken(r) ==
    /\ req[r].pc = "find"
    /\ \/ tokens = {} /\ Issue(r, "add") /\ signed' = now
       \/ (\E t \in tokens : Finds(t)) /\ Issue(r, "update") /\ signed' = now
       \/ tokens # {} /\ (~\E t \in tokens : Finds(t)) /\ Close(r) /\ UNCHANGED signed
    /\ UNCHANGED <<now, tokens, cookie, state, revoked, overlap>>

NotCommittedMutant(r) ==
    /\ req[r].pc = "add"
    /\ Goto(r, "answer")
    /\ UNCHANGED <<now, tables, cookie, state, overlap>>

\* The row is inserted, and visible to others with the commit.
AddToken(r) ==
    /\ req[r].pc = "add"
    /\ tokens' = tokens \cup {[id |-> r, expires |-> req[r].issue + RefreshLife]}
    /\ Goto(r, "answer")
    /\ UNCHANGED <<now, cookie, state, signed, revoked, overlap>>

\* update_token commits in a session of its own; it updates all rows, and none
\* if they have been deleted meanwhile.
UpdateToken(r) ==
    /\ req[r].pc = "update"
    /\ tokens' = {[t EXCEPT !.expires = req[r].issue + RefreshLife] : t \in tokens}
    /\ Goto(r, "answer")
    /\ UNCHANGED <<now, cookie, state, signed, revoked, overlap>>

----
(***************************************************************************)
(* The dependencies of the other endpoints.                                *)
(***************************************************************************)

AnyRowMutant(r) ==
    /\ req[r].pc = "lookup"
    /\ IF tokens = {} \/ \E t \in tokens : Valid(t.expires)
         THEN Issue(r, IF req[r].kind = "api" THEN "authorize" ELSE "answer")
         ELSE Close(r)
    /\ UNCHANGED <<now, tables, cookie, state, overlap>>

ExpiredRowMutant(r) ==
    /\ req[r].pc = "lookup"
    /\ IF \E t \in tokens : Finds(t)
         THEN Issue(r, IF req[r].kind = "api" THEN "authorize" ELSE "answer")
         ELSE Close(r)
    /\ UNCHANGED <<now, tables, cookie, state, overlap>>

\* get_refresh_token and refresh_token: an access token that may have expired
\* names the user, and a row that has not gives a new one.
Lookup(r) ==
    /\ req[r].pc = "lookup"
    /\ IF \E t \in tokens : Finds(t) /\ Valid(t.expires)
         THEN Issue(r, IF req[r].kind = "api" THEN "authorize" ELSE "answer")
         ELSE Close(r)
    /\ UNCHANGED <<now, tables, cookie, state, overlap>>

\* get_current_user decodes the token that the request came with, not the new
\* one; an error answer does not carry the new one either.
Authorize(r) ==
    /\ req[r].pc = "authorize"
    /\ IF Valid(req[r].token)
         THEN req' = [req EXCEPT ![r].pc = IF req[r].kind = "logout" THEN "revoke"
                                           ELSE "answer",
                                 ![r].token = None]
         ELSE Close(r)
    /\ UNCHANGED <<now, tables, cookie, state, overlap>>

\* logout_user deletes the user's rows; the other browsers keep their cookies.
DeleteTokens(r) ==
    /\ req[r].pc = "revoke"
    /\ tokens' = {}
    /\ revoked' = now
    /\ Goto(r, "answer")
    /\ UNCHANGED <<now, cookie, state, signed, overlap>>

\* The answer arrives at the browser.
Answer(r) ==
    /\ req[r].pc = "answer"
    /\ cookie' = [cookie EXCEPT ![req[r].browser] =
                    IF req[r].kind = "logout" THEN None ELSE AccessExpires(req[r].issue)]
    /\ Close(r)
    /\ UNCHANGED <<now, tables, state, overlap>>

\* Any error: a wrong password, the database, Google, a crash, a lost answer.
Fail(r) ==
    /\ Running(r)
    /\ Close(r)
    /\ UNCHANGED <<now, tables, cookie, state, overlap>>

Tick ==
    /\ now < MaxTime
    /\ now' = now + 1
    /\ UNCHANGED <<tables, cookie, state, req, overlap>>

Init ==
    /\ now = 0
    /\ tokens = {}
    /\ cookie = [b \in Browsers |-> None]
    /\ state = None
    /\ req = [r \in Requests |-> Idle]
    /\ signed = 0
    /\ revoked = 0
    /\ overlap = "none"

Advance(r) ==
    \/ GoogleCallback(r)
    \/ FindToken(r) \/ AddToken(r) \/ UpdateToken(r)
    \/ Lookup(r) \/ Authorize(r) \/ DeleteTokens(r)
    \/ Answer(r) \/ Fail(r)

\* The clock and the requests have come to their bounds.
Finished ==
    /\ now = MaxTime /\ \A r \in Requests : req[r].pc = "closed"
    /\ UNCHANGED vars

Next ==
    \/ \E r \in Requests, b \in Browsers :
         Login(r, b) \/ Logout(r, b) \/ Refresh(r, b) \/ UseApi(r, b) \/ GoogleLogin(r, b)
    \/ \E r \in Requests : Advance(r)
    \/ OtherGoogleLogin \/ Tick
    \/ Finished

Spec == Init /\ [][Next]_vars

----
\* Every variable has its declared shape.
TypeOK ==
    /\ now \in Times
    /\ tokens \subseteq RefreshToken
    /\ cookie \in [Browsers -> AccessToken \cup {None}]
    /\ state \in Requests \cup {None}
    /\ req \in [Requests -> Request]
    /\ signed \in Times
    /\ revoked \in Times
    /\ overlap \in {"none", "requests", "logins"}

\* The lookups of the refresh token find at most one row, so neither the requests
\* nor the next login raise, unless two logins have overlapped, whatever other
\* requests and failures there were in between (auth.py:50-59).
OneTokenRow == overlap # "logins" => \A t, u \in tokens : t = u

\* However often a browser renews its access token, and however late the answers
\* arrive, no access token outlives the refresh token of the latest login by more
\* than its own life (auth.py:36-45, dependencies.py:54-60).
SessionIsBounded ==
    \A b \in Browsers :
      cookie[b] # None => cookie[b] <= signed + RefreshLife + AccessLife

\* A logout in one browser ends the sessions of all: until the next login no
\* browser has an access token made after the logout, although renewals and
\* logins may have been under way (user/router.py:93-94, auth.py:51-59).
LogoutEndsSessions ==
    \A b \in Browsers :
      tokens = {} /\ cookie[b] # None => cookie[b] <= revoked + AccessLife

\* When requests are made one at a time, also after failed ones, a successful
\* logout leaves the browser without a cookie and no row, and every other
\* successful request leaves a new access token and the row to renew it
\* (user/router.py:71-94, 155-171).
AnswersAgree ==
    [][\A r \in Requests :
         overlap' = "none" /\ Answer(r) =>
         IF req[r].kind = "logout"
           THEN tokens' = {} /\ cookie'[req[r].browser] = None
           ELSE /\ cookie'[req[r].browser] = AccessExpires(req[r].issue)
                /\ \E t \in tokens' : tokens' = {t} /\ t.expires > req[r].issue]_vars

====
