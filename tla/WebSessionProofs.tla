-------------------------- MODULE WebSessionProofs --------------------------
(* Signing in and out for any number of accounts, pages and requests.        *)
EXTENDS WebSession, TLAPS

\* A session in the store is complete, and some page shows its user.
StoreShown ==
  store.refresh # None =>
    /\ store.access # None /\ store.username # None
    /\ \E p \in Page : user[p] # None

\* Where a request stands tells which tokens it holds.
Shape(r) ==
  /\ Idle(r) => req[r].kind = "call" /\ req[r].token = None /\ req[r].refresh = None
  /\ ~Idle(r) => req[r].for \in User
  /\ req[r].pc = "refreshing" => req[r].refresh # None

SessionInv == TypeOK /\ StoreShown /\ \A r \in Req : Shape(r)

\* Whatever is kept anywhere, one account's traces at a time.
OneAccount(u) ==
  /\ store.access \in {None, u} /\ store.refresh \in {None, u}
  /\ store.username \in {None, u}
  /\ \A p \in Page : user[p] \in {None, u}
  /\ \A r \in Req : Calling(r) => req[r].for = u /\ req[r].token \in {None, u}
  /\ \A r \in Req : req[r].refresh \in {None, u}

AccountInv == ~crossed => \E u \in Owner : OneAccount(u)

-----------------------------------------------------------------------------

LEMMA SessionInit == Init => SessionInv /\ AccountInv
<1> SUFFICES ASSUME Init PROVE SessionInv /\ AccountInv
  OBVIOUS
<1>1. PICK p \in Page : req = [r \in Req |-> [pc |-> "idle", kind |-> "call", page |-> p,
                                 for |-> None, token |-> None, refresh |-> None]]
  BY DEF Init
<1>2. TypeOK
  BY <1>1 DEF Init, TypeOK, Store, Request, Owner, NoStore
<1>3. StoreShown /\ \A r \in Req : Shape(r)
  BY <1>1 DEF Init, NoStore, StoreShown, Shape, Idle
<1>4. OneAccount(None)
  BY <1>1 DEF Init, NoStore, OneAccount, Calling, Idle
<1> QED
  BY <1>2, <1>3, <1>4 DEF SessionInv, AccountInv, Owner

\* What a step does to one request, the others staying as they are.
LEMMA Sends ==
  ASSUME SessionInv, NEW r \in Req, NEW p \in Page,
         NEW kind \in {"call", "login", "register"}, NEW u \in User, Send(r, p, kind, u)
  PROVE  /\ req' \in [Req -> Request]
         /\ \A s \in Req : s # r => req'[s] = req[s]
         /\ req'[r] = [pc |-> "sent", kind |-> kind, page |-> p, for |-> u,
                       token |-> store.access, refresh |-> None]
<1> DEFINE new == [pc |-> "sent", kind |-> kind, page |-> p, for |-> u,
                   token |-> store.access, refresh |-> None]
<1>1. new \in Request
  BY DEF SessionInv, TypeOK, Store, Request, Owner
<1>2. req' = [req EXCEPT ![r] = new]
  BY DEF Send
<1> HIDE DEF new
<1>3. /\ req' \in [Req -> Request] /\ req'[r] = new
      /\ \A s \in Req : s # r => req'[s] = req[s]
  BY <1>1, <1>2 DEF SessionInv, TypeOK
<1> QED
  BY <1>3 DEF new

LEMMA IdleTyped ==
  ASSUME SessionInv, NEW r \in Req
  PROVE  /\ IdleReq(r) \in Request
         /\ IdleReq(r).pc = "idle" /\ IdleReq(r).kind = "call"
         /\ IdleReq(r).token = None /\ IdleReq(r).refresh = None
  BY DEF SessionInv, TypeOK, Request, Owner, IdleReq

LEMMA Finishes ==
  ASSUME SessionInv, NEW r \in Req, Finish(r)
  PROVE  /\ req' \in [Req -> Request]
         /\ \A s \in Req : s # r => req'[s] = req[s]
         /\ req'[r].pc = "idle" /\ req'[r].kind = "call"
         /\ req'[r].token = None /\ req'[r].refresh = None
<1>1. req' = [req EXCEPT ![r] = IdleReq(r)]
  BY DEF Finish
<1>2. /\ req' \in [Req -> Request] /\ req'[r] = IdleReq(r)
      /\ \A s \in Req : s # r => req'[s] = req[s]
  BY <1>1, IdleTyped DEF SessionInv, TypeOK
<1> QED
  BY <1>2, IdleTyped

LEMMA ClearsStore ==
  ASSUME SessionInv, NEW p \in Page, clearTokens(p)
  PROVE  /\ store' \in Store /\ user' \in [Page -> Owner] /\ StoreShown'
         /\ store' = NoStore /\ user'[p] = None
         /\ \A q \in Page : user'[q] \in {None, user[q]}
  BY DEF SessionInv, TypeOK, Store, Owner, clearTokens, NoStore, StoreShown

LEMMA Fields ==
  ASSUME TypeOK
  PROVE  /\ store.access \in Owner /\ store.refresh \in Owner /\ store.username \in Owner
         /\ \A p \in Page : user[p] \in Owner
         /\ \A r \in Req : /\ req[r].page \in Page /\ req[r].for \in Owner
                           /\ req[r].token \in Owner /\ req[r].refresh \in Owner
                           /\ req[r].kind \in {"call", "login", "register"}
                           /\ req[r].pc \in {"idle", "sent", "refreshing", "retried"}
  BY DEF TypeOK, Store, Request

-----------------------------------------------------------------------------
(* SessionInv, whoever signs in over whom *)

LEMMA SendsInv ==
  ASSUME SessionInv, NEW r \in Req, NEW p \in Page,
         NEW kind \in {"call", "login", "register"}, NEW u \in User, Send(r, p, kind, u),
         UNCHANGED <<store, user, crossed>>
  PROVE  SessionInv'
<1>1. /\ req' \in [Req -> Request]
      /\ \A s \in Req : s # r => req'[s] = req[s]
      /\ req'[r] = [pc |-> "sent", kind |-> kind, page |-> p, for |-> u,
                    token |-> store.access, refresh |-> None]
  BY Sends
<1>2. TypeOK' /\ StoreShown'
  BY <1>1 DEF SessionInv, TypeOK, StoreShown
<1>3. Shape(r)'
  <2>1. req'[r].pc = "sent" /\ req'[r].for = u
    BY <1>1
  <2> QED
    BY <2>1 DEF Shape, Idle
<1>4. \A s \in Req : s # r => Shape(s)'
  BY <1>1 DEF SessionInv, Shape, Idle
<1> QED
  BY <1>2, <1>3, <1>4 DEF SessionInv

LEMMA FinishInv ==
  ASSUME SessionInv, NEW r \in Req, Finish(r),
         store' \in Store, user' \in [Page -> Owner], StoreShown', crossed' \in BOOLEAN
  PROVE  SessionInv'
<1>1. TypeOK'
  BY Finishes DEF TypeOK
<1>2. \A s \in Req : Shape(s)'
  BY Finishes DEF SessionInv, Shape, Idle
<1> QED
  BY <1>1, <1>2 DEF SessionInv

LEMMA LoginInv ==
  ASSUME SessionInv, NEW r \in Req, LoggedIn(r)
  PROVE  /\ SessionInv'
         /\ req[r].for \in User /\ store' = [access |-> req[r].for, refresh |-> req[r].for,
                                             username |-> req[r].for]
         /\ user'[req[r].page] = req[r].for
         /\ \A p \in Page : user'[p] \in {user[p], req[r].for}
<1>1. req[r].for \in User /\ req[r].page \in Page /\ req[r].for # None
  BY Fields, WebSessionAssumption DEF SessionInv, LoggedIn, Waiting, Shape, Idle
<1>2. store' \in Store /\ user' \in [Page -> Owner] /\ user'[req[r].page] = req[r].for
  BY <1>1 DEF LoggedIn, storeUser, SessionInv, TypeOK, Store, Owner
<1>3. StoreShown'
  BY <1>1, <1>2 DEF LoggedIn, storeUser, StoreShown
<1>4. crossed' \in BOOLEAN
  BY DEF LoggedIn, Crossing
<1>5. SessionInv'
  BY <1>2, <1>3, <1>4, FinishInv DEF LoggedIn
<1> QED
  BY <1>1, <1>2, <1>5 DEF LoggedIn, storeUser, SessionInv, TypeOK

LEMMA UnauthorizedInv ==
  ASSUME SessionInv, NEW r \in Req, Unauthorized(r)
  PROVE  SessionInv'
<1>1. CASE store.refresh = None
  BY <1>1, Fields, ClearsStore, FinishInv DEF Unauthorized, SessionInv, TypeOK
<1>2. CASE store.refresh # None
  <2>1. /\ req' = [req EXCEPT ![r].pc = "refreshing", ![r].refresh = store.refresh]
        /\ UNCHANGED <<store, user, crossed>>
    BY <1>2 DEF Unauthorized
  <2> DEFINE new == [req[r] EXCEPT !.pc = "refreshing", !.refresh = store.refresh]
  <2>2. new \in Request /\ req' = [req EXCEPT ![r] = new]
    BY <2>1, Fields DEF SessionInv, TypeOK, Request
  <2>3. TypeOK' /\ StoreShown'
    <3> HIDE DEF new
    <3> QED
      BY <2>1, <2>2 DEF SessionInv, TypeOK, StoreShown
  <2>4. \A s \in Req : Shape(s)'
    BY <2>1, <1>2 DEF SessionInv, TypeOK, Request, Shape, Idle, Unauthorized, MayRefresh
  <2> QED
    BY <2>3, <2>4 DEF SessionInv
<1> QED
  BY <1>1, <1>2

LEMMA RefreshedInv ==
  ASSUME SessionInv, NEW r \in Req, Refreshed(r)
  PROVE  SessionInv'
<1>1. req[r].refresh # None /\ req[r].refresh \in Owner
  BY Fields DEF SessionInv, Shape, Refreshed
<1>2. TypeOK'
  BY <1>1 DEF SessionInv, TypeOK, Store, Request, Owner, Refreshed
<1>3. StoreShown'
  BY <1>1 DEF SessionInv, TypeOK, Store, Refreshed, StoreShown
<1>4. \A s \in Req : Shape(s)'
  BY DEF SessionInv, TypeOK, Request, Shape, Idle, Refreshed
<1> QED
  BY <1>2, <1>3, <1>4 DEF SessionInv

LEMMA ReloadInv ==
  ASSUME SessionInv, NEW p \in Page, Reload(p)
  PROVE  /\ SessionInv'
         /\ \A q \in Page : user'[q] \in {user[q], readStoredUser}
         /\ \A r \in Req : req'[r] = req[r]
                           \/ /\ req'[r].pc = "idle" /\ req'[r].kind = "call"
                              /\ req'[r].token = None /\ req'[r].refresh = None
<1>1. readStoredUser \in Owner /\ (store.refresh # None => readStoredUser # None)
  BY Fields DEF readStoredUser, SessionInv, StoreShown, Owner
<1>2. /\ user' \in [Page -> Owner] /\ user'[p] = readStoredUser /\ store' = store
      /\ \A q \in Page : q # p => user'[q] = user[q]
  BY <1>1 DEF Reload, SessionInv, TypeOK
<1>3. \A r \in Req : req'[r] = IF req[r].page = p THEN IdleReq(r) ELSE req[r]
  BY DEF Reload
<1>4. \A r \in Req : /\ req'[r] \in Request /\ Shape(r)'
                     /\ \/ req'[r] = req[r]
                        \/ /\ req'[r].pc = "idle" /\ req'[r].kind = "call"
                           /\ req'[r].token = None /\ req'[r].refresh = None
  <2> SUFFICES ASSUME NEW r \in Req
               PROVE  /\ req'[r] \in Request /\ Shape(r)'
                      /\ \/ req'[r] = req[r]
                         \/ /\ req'[r].pc = "idle" /\ req'[r].kind = "call"
                            /\ req'[r].token = None /\ req'[r].refresh = None
    OBVIOUS
  <2>1. CASE req[r].page = p
    BY <2>1, <1>3, IdleTyped DEF Shape, Idle
  <2>2. CASE req[r].page # p
    BY <2>2, <1>3 DEF SessionInv, TypeOK, Shape, Idle
  <2> QED
    BY <2>1, <2>2
<1>5. TypeOK'
  BY <1>2, <1>4 DEF TypeOK, SessionInv, Reload
<1>6. StoreShown'
  BY <1>1, <1>2 DEF StoreShown, SessionInv
<1> QED
  BY <1>2, <1>4, <1>5, <1>6 DEF SessionInv

LEMMA SessionStep == SessionInv /\ [Next]_vars => SessionInv'
<1> SUFFICES ASSUME SessionInv, [Next]_vars PROVE SessionInv'
  OBVIOUS
<1>1. CASE UNCHANGED vars
  BY <1>1 DEF vars, SessionInv, TypeOK, StoreShown, Shape, Idle
<1>2. ASSUME NEW p \in Page, NEW r \in Req, Call(p, r) PROVE SessionInv'
  <2>1. user[p] \in User
    BY <1>2, Fields DEF Call, SessionInv, Owner
  <2> QED
    BY <1>2, <2>1, SendsInv DEF Call
<1>3. ASSUME NEW p \in Page, NEW r \in Req, NEW u \in User,
             NEW mode \in {"login", "register"}, Submit(p, r, u, mode)
      PROVE  SessionInv'
  BY <1>3, SendsInv DEF Submit
<1>4. ASSUME NEW r \in Req, Answered(r) PROVE SessionInv'
  BY <1>4, FinishInv DEF Answered, SessionInv, TypeOK, StoreShown
<1>5. ASSUME NEW r \in Req, Registered(r) PROVE SessionInv'
  <2>1. req[r].for \in User /\ req[r].page \in Page
    BY <1>5, Fields DEF Registered, Waiting, SessionInv, Shape, Idle
  <2> QED
    BY <1>5, <2>1, SendsInv DEF Registered
<1>6. ASSUME NEW r \in Req, RefreshFailed(r) PROVE SessionInv'
  BY <1>6, Fields, ClearsStore, FinishInv DEF RefreshFailed, SessionInv, TypeOK
<1>7. ASSUME NEW p \in Page, Logout(p) PROVE SessionInv'
  BY <1>7, ClearsStore DEF Logout, SessionInv, TypeOK, Shape, Idle
<1> QED
  BY <1>1, <1>2, <1>3, <1>4, <1>5, <1>6, <1>7, LoginInv, UnauthorizedInv, RefreshedInv, ReloadInv
  DEF Next, Answer

-----------------------------------------------------------------------------
(* AccountInv *)

\* A step that only ends requests, and keeps no trace of another account.
LEMMA Narrower ==
  ASSUME SessionInv, NEW u \in Owner, OneAccount(u),
         \A r \in Req : \/ req'[r] = req[r]
                        \/ req'[r].pc = "idle" /\ req'[r].refresh = None,
         store'.access \in {None, u}, store'.refresh \in {None, u},
         store'.username \in {None, u}, \A p \in Page : user'[p] \in {None, u}
  PROVE  OneAccount(u)'
  BY DEF OneAccount, Calling, Idle

LEMMA CallsOwn ==
  ASSUME SessionInv, NEW u \in Owner, OneAccount(u), NEW p \in Page, NEW r \in Req, Call(p, r)
  PROVE  OneAccount(u)'
<1>1. user[p] = u /\ user[p] \in User
  BY Fields DEF Call, SessionInv, OneAccount, Owner
<1>2. /\ \A s \in Req : s # r => req'[s] = req[s]
      /\ req'[r] = [pc |-> "sent", kind |-> "call", page |-> p, for |-> u,
                    token |-> store.access, refresh |-> None]
  BY <1>1, Sends DEF Call
<1>3. UNCHANGED <<store, user>>
  BY DEF Call
<1> QED
  BY <1>2, <1>3 DEF OneAccount, Calling, Idle

\* A sign-in holds no account's refresh token, and is no call.
LEMMA SignInOwn ==
  ASSUME SessionInv, NEW u \in Owner, OneAccount(u), NEW r \in Req, NEW p \in Page,
         NEW v \in User, NEW mode \in {"login", "register"}, Send(r, p, mode, v),
         UNCHANGED <<store, user>>
  PROVE  OneAccount(u)'
<1>1. /\ \A s \in Req : s # r => req'[s] = req[s]
      /\ req'[r] = [pc |-> "sent", kind |-> mode, page |-> p, for |-> v,
                    token |-> store.access, refresh |-> None]
  BY Sends
<1> QED
  BY <1>1 DEF OneAccount, Calling, Idle

\* A sign-in that met no other account leaves one account's traces.
LEMMA LoginOwn ==
  ASSUME SessionInv, NEW r \in Req, LoggedIn(r), ~crossed'
  PROVE  \E u \in Owner : OneAccount(u)'
<1>1. PICK u \in User : u = req[r].for
  BY LoginInv
<1>2. ~Crossing(r, u)
  BY <1>1 DEF LoggedIn
<1>3. /\ \A s \in Req : s # r => req'[s] = req[s]
      /\ req'[r].pc = "idle" /\ req'[r].refresh = None
  BY Finishes DEF LoggedIn
<1>4. \A p \in Page : user'[p] \in {None, u}
  BY <1>1, <1>2, LoginInv DEF Crossing
<1>5. store' = [access |-> u, refresh |-> u, username |-> u]
  BY <1>1, LoginInv
<1>6. \A s \in Req : /\ Calling(s)' => req'[s].for = u /\ req'[s].token \in {None, u}
                     /\ req'[s].refresh \in {None, u}
  BY <1>2, <1>3 DEF Crossing, Calling, Idle
<1>7. OneAccount(u)'
  BY <1>4, <1>5, <1>6 DEF OneAccount
<1> QED
  BY <1>7 DEF Owner

LEMMA UnauthorizedOwn ==
  ASSUME SessionInv, NEW u \in Owner, OneAccount(u), NEW r \in Req, Unauthorized(r)
  PROVE  OneAccount(u)'
<1>1. CASE store.refresh = None
  <2>1. clearTokens(req[r].page) /\ Finish(r) /\ req[r].page \in Page
    BY <1>1, Fields DEF Unauthorized, SessionInv
  <2>2. /\ \A p \in Page : user'[p] \in {None, user[p]}
        /\ store'.access = None /\ store'.refresh = None /\ store'.username = None
    BY <2>1, ClearsStore DEF NoStore
  <2>3. \A s \in Req : \/ req'[s] = req[s]
                       \/ req'[s].pc = "idle" /\ req'[s].refresh = None
    BY <2>1, Finishes
  <2> QED
    BY <2>2, <2>3, Narrower DEF OneAccount
<1>2. CASE store.refresh # None
  <2>1. /\ UNCHANGED <<store, user>>
        /\ \A s \in Req : s # r => req'[s] = req[s]
        /\ req'[r] = [req[r] EXCEPT !.pc = "refreshing", !.refresh = store.refresh]
    BY <1>2 DEF Unauthorized, SessionInv, TypeOK
  <2>2. /\ req'[r].pc = "refreshing" /\ req'[r].kind = req[r].kind
        /\ req'[r].for = req[r].for /\ req'[r].token = req[r].token
        /\ req'[r].refresh = store.refresh /\ ~Idle(r)
    BY <2>1 DEF SessionInv, TypeOK, Request, Unauthorized, MayRefresh, Idle
  <2> QED
    BY <2>1, <2>2 DEF OneAccount, Calling, Idle
<1> QED
  BY <1>1, <1>2

LEMMA RefreshedOwn ==
  ASSUME SessionInv, NEW u \in Owner, OneAccount(u), NEW r \in Req, Refreshed(r)
  PROVE  OneAccount(u)'
<1>1. req[r].refresh = u /\ ~Idle(r)
  BY DEF Refreshed, SessionInv, Shape, Idle, OneAccount
<1>2. /\ req'[r].pc = "retried" /\ req'[r].kind = req[r].kind /\ req'[r].for = req[r].for
      /\ req'[r].token = u /\ req'[r].refresh = None
      /\ \A s \in Req : s # r => req'[s] = req[s]
  BY <1>1 DEF Refreshed, SessionInv, TypeOK, Request
<1>3. /\ user' = user
      /\ store'.access = u /\ store'.refresh = store.refresh /\ store'.username = store.username
  BY <1>1 DEF Refreshed, SessionInv, TypeOK, Store
<1> QED
  BY <1>1, <1>2, <1>3 DEF OneAccount, Calling, Idle

LEMMA ReloadOwn ==
  ASSUME SessionInv, NEW u \in Owner, OneAccount(u), NEW p \in Page, Reload(p)
  PROVE  OneAccount(u)'
<1>1. readStoredUser \in {None, u}
  BY DEF readStoredUser, OneAccount
<1>2. \A q \in Page : user'[q] \in {None, u}
  BY <1>1, ReloadInv DEF OneAccount
<1>3. /\ \A r \in Req : \/ req'[r] = req[r]
                        \/ req'[r].pc = "idle" /\ req'[r].refresh = None
      /\ store' = store
  BY ReloadInv DEF Reload
<1> QED
  BY <1>2, <1>3, Narrower DEF OneAccount

LEMMA AccountStep == SessionInv /\ AccountInv /\ [Next]_vars => AccountInv'
<1> SUFFICES ASSUME SessionInv, AccountInv, [Next]_vars, ~crossed'
             PROVE  \E u \in Owner : OneAccount(u)'
  BY DEF AccountInv
<1>1. CASE \E r \in Req : LoggedIn(r)
  BY <1>1, LoginOwn
<1>2. CASE ~\E r \in Req : LoggedIn(r)
  <2>1. ~crossed
    BY <1>2 DEF Next, Answer, vars, Call, Submit, Answered, Registered, Unauthorized,
         Refreshed, RefreshFailed, Logout, Reload
  <2>2. PICK u \in Owner : OneAccount(u)
    BY <2>1 DEF AccountInv
  <2>3. CASE UNCHANGED vars
    BY <2>2, <2>3 DEF vars, OneAccount, Calling, Idle
  <2>4. ASSUME NEW p \in Page, NEW r \in Req, NEW v \in User,
               NEW mode \in {"login", "register"}, Submit(p, r, v, mode)
        PROVE  OneAccount(u)'
    BY <2>2, <2>4, SignInOwn DEF Submit
  <2>5. ASSUME NEW r \in Req, Answered(r) PROVE OneAccount(u)'
    <3>1. /\ \A s \in Req : \/ req'[s] = req[s]
                            \/ req'[s].pc = "idle" /\ req'[s].refresh = None
          /\ UNCHANGED <<store, user>>
      BY <2>5, Finishes DEF Answered
    <3> QED
      BY <2>2, <3>1, Narrower DEF OneAccount
  <2>6. ASSUME NEW r \in Req, Registered(r) PROVE OneAccount(u)'
    <3>1. req[r].for \in User /\ req[r].page \in Page
      BY <2>6, Fields DEF Registered, Waiting, SessionInv, Shape, Idle
    <3> QED
      BY <2>2, <2>6, <3>1, SignInOwn DEF Registered
  <2>7. ASSUME NEW p \in Page, clearTokens(p),
               \A s \in Req : \/ req'[s] = req[s]
                              \/ req'[s].pc = "idle" /\ req'[s].refresh = None
        PROVE  OneAccount(u)'
    <3>1. /\ \A q \in Page : user'[q] \in {None, user[q]}
          /\ store'.access = None /\ store'.refresh = None /\ store'.username = None
      BY <2>7, ClearsStore DEF NoStore
    <3> QED
      BY <2>2, <2>7, <3>1, Narrower DEF OneAccount
  <2>8. ASSUME NEW r \in Req, RefreshFailed(r) PROVE OneAccount(u)'
    BY <2>7, <2>8, Fields, Finishes DEF RefreshFailed, SessionInv
  <2>9. ASSUME NEW p \in Page, Logout(p) PROVE OneAccount(u)'
    BY <2>7, <2>9 DEF Logout
  <2> QED
    BY <1>2, <2>2, <2>3, <2>4, <2>5, <2>6, <2>8, <2>9, CallsOwn, UnauthorizedOwn,
       RefreshedOwn, ReloadOwn
    DEF Next, Answer
<1> QED
  BY <1>1, <1>2

-----------------------------------------------------------------------------
(* The theorems *)

\* The stored session, the pages and the requests keep their shape, whoever
\* signs in where (AuthContext.tsx, client.ts).
THEOREM SessionTyped == Spec => []TypeOK
<1>1. SessionInv => TypeOK
  BY DEF SessionInv
<1> QED
  BY SessionInit, SessionStep, <1>1, PTL DEF Spec

\* A session that is gone, by a logout, a refused refresh or a request that
\* found no refresh token, is gone on the page it was lost on (clearTokens and
\* the listener AuthContext registers), whoever signs in where.
THEOREM SignedOut == Spec => []SignedOutIsSeen
<1>1. Init => SignedOutIsSeen
  BY DEF Init, SignedOutIsSeen
<1>2. SessionInv /\ SignedOutIsSeen /\ [Next]_vars => SignedOutIsSeen'
  <2> SUFFICES ASSUME SessionInv, SignedOutIsSeen, [Next]_vars PROVE SignedOutIsSeen'
    OBVIOUS
  <2>1. CASE UNCHANGED <<store, user>>
    BY <2>1 DEF SignedOutIsSeen
  <2>2. ASSUME NEW p \in Page, clearTokens(p) PROVE SignedOutIsSeen'
    BY <2>2, ClearsStore DEF SignedOutIsSeen
  <2>3. ASSUME NEW r \in Req, LoggedIn(r) PROVE SignedOutIsSeen'
    BY <2>3, LoginInv, WebSessionAssumption DEF SignedOutIsSeen
  <2>4. ASSUME NEW r \in Req, Refreshed(r) PROVE SignedOutIsSeen'
    BY <2>4 DEF Refreshed, SignedOutIsSeen, SessionInv, TypeOK, Store
  <2>5. ASSUME NEW p \in Page, Reload(p) PROVE SignedOutIsSeen'
    BY <2>5, ReloadInv DEF Reload, readStoredUser, SignedOutIsSeen
  <2>6. ASSUME NEW r \in Req, Unauthorized(r) \/ RefreshFailed(r) PROVE SignedOutIsSeen'
    BY <2>1, <2>2, <2>6, Fields DEF Unauthorized, RefreshFailed, SessionInv
  <2> QED
    BY <2>1, <2>2, <2>3, <2>4, <2>5, <2>6
    DEF Next, Answer, vars, Call, Submit, Answered, Registered, Logout
<1> QED
  BY <1>1, <1>2, SessionInit, SessionStep, PTL DEF Spec

\* After a sign-in that met no trace of another account, every call and every
\* refresh carries the token of the account whose page made it, until the next
\* sign-in and however the calls of the pages, their refreshes, logouts and
\* reloads interleave (client.ts).
THEOREM OwnAccount == Spec => []OwnAccountOnly
<1>1. SessionInv /\ AccountInv => OwnAccountOnly
  BY DEF AccountInv, OneAccount, OwnAccountOnly
<1> QED
  BY <1>1, SessionInit, SessionStep, AccountStep, PTL DEF Spec
=============================================================================
