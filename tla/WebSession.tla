----------------------------- MODULE WebSession -----------------------------
(***************************************************************************)
(* Signing in, and the token handling every call of the web client goes    *)
(* through.  All pages of a browser share the three keys in localStorage;  *)
(* who a page shows is state of that page, set when it signs in or loads.  *)
(*                                                                         *)
(* A token is known by the account it was issued to.  Whether it has       *)
(* expired is the server's answer: any authenticated request may be        *)
(* refused with a 401, whenever its token was issued.                      *)
(***************************************************************************)
EXTENDS Naturals

CONSTANTS
  User,    \* accounts
  Page,    \* pages (tabs) of one browser
  Req,     \* requests that may be under way at the same time
  None     \* null

ASSUME WebSessionAssumption == None \notin User

VARIABLES
  store,   \* localStorage: access token, refresh token, username
  user,    \* AuthContext's user, per page
  req,     \* requests, with the token each was sent with
  crossed  \* history: the latest sign-in met another account's page or request

vars == <<store, user, req, crossed>>

Owner == User \cup {None}

NoStore == [access |-> None, refresh |-> None, username |-> None]

IdleReq(r) == [req[r] EXCEPT !.pc = "idle", !.kind = "call", !.for = None,
                             !.token = None, !.refresh = None]

Init ==
  /\ store = NoStore
  /\ user = [p \in Page |-> None]
  /\ crossed = FALSE
  /\ \E p \in Page :
       req = [r \in Req |-> [pc |-> "idle", kind |-> "call", page |-> p,
                             for |-> None, token |-> None, refresh |-> None]]

-----------------------------------------------------------------------------
(* The stored session *)

readStoredUser ==
  IF None \in {store.access, store.refresh, store.username} THEN None ELSE store.username

\* Mutant of storeUser: the refresh token is not kept.
storeUserPartly(u) == store' = [access |-> u, username |-> u]

\* Mutant of storeUser: an access token that is still there is kept.
storeUserKeeping(u) ==
  store' = [access |-> IF store.access = None THEN u ELSE store.access,
            refresh |-> u, username |-> u]

storeUser(u) == store' = [access |-> u, refresh |-> u, username |-> u]

\* Mutant of clearTokens: the listener is not called.
clearTokensSilently(p) == store' = NoStore /\ UNCHANGED user

\* The listener AuthContext registered is the page's own.
clearTokens(p) ==
  /\ store' = NoStore
  /\ user' = [user EXCEPT ![p] = None]

-----------------------------------------------------------------------------
(* Sending *)

Idle(r) == req[r].pc = "idle"

Calling(r) == ~Idle(r) /\ req[r].kind = "call"

\* The token is the one stored at this moment, whoever the page shows.
Send(r, p, kind, u) ==
  req' = [req EXCEPT ![r] = [pc |-> "sent", kind |-> kind, page |-> p, for |-> u,
                             token |-> store.access, refresh |-> None]]

Call(p, r) ==
  /\ user[p] # None /\ Idle(r)
  /\ Send(r, p, "call", user[p])
  /\ UNCHANGED <<store, user, crossed>>

Submitting(p) == \E r \in Req : ~Idle(r) /\ req[r].kind # "call" /\ req[r].page = p

Submit(p, r, u, mode) ==
  /\ user[p] = None /\ Idle(r) /\ ~Submitting(p)
  /\ Send(r, p, mode, u)
  /\ UNCHANGED <<store, user, crossed>>

-----------------------------------------------------------------------------
(* Answers *)

Waiting(r) == req[r].pc \in {"sent", "retried"}

Finish(r) == req' = [req EXCEPT ![r] = IdleReq(r)]

\* Any answer that is not refreshed ends a call; an error ends a sign-in.
Answered(r) ==
  /\ Waiting(r)
  /\ Finish(r)
  /\ UNCHANGED <<store, user, crossed>>

Registered(r) ==
  /\ Waiting(r) /\ req[r].kind = "register"
  /\ Send(r, req[r].page, "login", req[r].for)
  /\ UNCHANGED <<store, user, crossed>>

\* A page still shows another account, or a request other than r is a call of
\* another, was sent with its token, or refreshes with its refresh token.
Crossing(r, u) ==
  \/ \E p \in Page : user[p] \notin {None, u}
  \/ \E s \in Req \ {r} :
       \/ Calling(s) /\ (req[s].for # u \/ req[s].token \notin {None, u})
       \/ req[s].refresh \notin {None, u}

LoggedIn(r) ==
  /\ Waiting(r) /\ req[r].kind = "login"
  /\ storeUser(req[r].for)
  /\ crossed' = Crossing(r, req[r].for)
  /\ user' = [user EXCEPT ![req[r].page] = req[r].for]
  /\ Finish(r)

\* Mutant of MayRefresh: the retry may be refreshed and retried again.
MayRefreshAgain(r) == Waiting(r) /\ req[r].token # None

\* Only a request that had a token, and only its first 401.
MayRefresh(r) == req[r].pc = "sent" /\ req[r].token # None

Unauthorized(r) ==
  /\ MayRefresh(r)
  /\ IF store.refresh = None
     THEN clearTokens(req[r].page) /\ Finish(r) /\ UNCHANGED crossed
     ELSE /\ req' = [req EXCEPT ![r].pc = "refreshing", ![r].refresh = store.refresh]
          /\ UNCHANGED <<store, user, crossed>>

\* The new access token is stored whatever happened to the session meanwhile.
Refreshed(r) ==
  /\ req[r].pc = "refreshing"
  /\ store' = [store EXCEPT !.access = req[r].refresh]
  /\ req' = [req EXCEPT ![r].pc = "retried", ![r].token = req[r].refresh,
                        ![r].refresh = None]
  /\ UNCHANGED <<user, crossed>>

\* Refused, or the network failed: the session is given up either way.
RefreshFailed(r) ==
  /\ req[r].pc = "refreshing"
  /\ clearTokens(req[r].page)
  /\ Finish(r)
  /\ UNCHANGED crossed

-----------------------------------------------------------------------------
(* The user *)

Logout(p) ==
  /\ user[p] # None
  /\ clearTokens(p)
  /\ UNCHANGED <<req, crossed>>

\* What was under way is dropped with the page that waited for it.
Reload(p) ==
  /\ user' = [user EXCEPT ![p] = readStoredUser]
  /\ req' = [r \in Req |-> IF req[r].page = p THEN IdleReq(r) ELSE req[r]]
  /\ UNCHANGED <<store, crossed>>

-----------------------------------------------------------------------------

Answer(r) ==
  \/ Answered(r) \/ Registered(r) \/ LoggedIn(r)
  \/ Unauthorized(r) \/ Refreshed(r) \/ RefreshFailed(r)

Next ==
  \/ \E p \in Page, r \in Req :
       \/ Call(p, r)
       \/ \E u \in User, mode \in {"login", "register"} : Submit(p, r, u, mode)
  \/ \E r \in Req : Answer(r)
  \/ \E p \in Page : Logout(p) \/ Reload(p)

Spec == Init /\ [][Next]_vars

\* Every request is answered or fails: the server bounds its own time, and the
\* browser reports a connection that broke.
FairSpec == Spec /\ \A r \in Req : WF_vars(Answer(r))

-----------------------------------------------------------------------------
(* Properties *)

Store == [access: Owner, refresh: Owner, username: Owner]

Request == [pc: {"idle", "sent", "refreshing", "retried"},
            kind: {"call", "login", "register"}, page: Page,
            for: Owner, token: Owner, refresh: Owner]

\* The stored session, the pages' users and the requests keep their shape.
TypeOK ==
  /\ store \in Store
  /\ user \in [Page -> Owner]
  /\ req \in [Req -> Request]
  /\ crossed \in BOOLEAN

\* Unless the latest sign-in met another account (a page that still showed it,
\* a call it had under way, or a refresh with its token), every call reaches the
\* server under the account whose page made it, or under none: whoever used the
\* browser before, and however the calls, refreshes, logouts and reloads of all
\* pages met since, at the first try and after a refresh alike.
OwnAccountOnly ==
  ~crossed => \A r \in Req : Calling(r) =>
    req[r].token \in {None, req[r].for} /\ req[r].refresh \in {None, req[r].for}

\* When the session is gone, whichever request lost it, some page shows the
\* login form: not all pages go on as if somebody were signed in.
SignedOutIsSeen == store.refresh = None => \E p \in Page : user[p] = None

\* No request is refreshed and retried for ever: every one comes to an end.
RequestsEnd == \A r \in Req : ~Idle(r) ~> Idle(r)
=============================================================================
