---------------------------- MODULE ForumSession ----------------------------
(***************************************************************************)
(* The session of the proposal forum: the pdf-ui page with the JWT it      *)
(* keeps and the user it shows, the wallet of the host page it lives in,   *)
(* the refresh cookie every tab shares, and the forum's auth routes.       *)
(*                                                                         *)
(* A server handles a request when it is sent; its answer reaches the page *)
(* any time later, and much may have changed by then.  A wallet stands for *)
(* its stake key, its DRep key and the account of that stake key.          *)
(* Challenges are abstracted to whether a login finds a valid one.         *)
(***************************************************************************)
EXTENDS Naturals, FiniteSets

CONSTANTS Wallet,
          Calls,      \* calls of loginUserToApp at once (bound)
          MaxMoves,   \* how often the host's wallet changes (bound)
          MaxClicks,  \* how often somebody signs in on the page (bound)
          MaxOutside, \* how often other tabs change the cookie (bound)
          MaxBlocked, \* how many accounts get blocked (bound)
          None        \* null, undefined, nobody

ASSUME SessionAssumption ==
  /\ None \notin Wallet \cup Calls
  /\ Wallet \cap {"connecting", "disconnected"} = {}
  /\ MaxMoves \in Nat /\ MaxClicks \in Nat /\ MaxOutside \in Nat /\ MaxBlocked \in Nat

VARIABLES host,      \* walletStatus, or the wallet when it is ready
          sync,      \* the session sync of this rendering: done, or which user it saw
          jwt, age,  \* pdfUserJwt in the tab's session storage
          user,      \* the user the page shows
          cookie,    \* refreshToken
          blocked,   \* the accounts an administrator blocked
          named,     \* the accounts with a govtool_username
          call,      \* each call of loginUserToApp
          loop,      \* the answer the refresh loop waits for
          modal,     \* the account a username was saved for, until the page hears
          overtaken, \* history: somebody was signed in for a wallet that is gone
          moves, clicks, outside

session == <<jwt, age, user>>
bounds == <<moves, clicks, outside>>
vars == <<host, sync, session, cookie, blocked, named, call, loop, modal, overtaken, bounds>>

Claims == [stake : Wallet, drep : Wallet \cup {None}]
Nobody == [claims |-> None]   \* a refresh that failed
NoCall == [at |-> "idle", restoring |-> FALSE, stale |-> FALSE, wallet |-> None,
           drep |-> FALSE, answer |-> None]

TypeOK ==
  /\ host \in Wallet \cup {"connecting", "disconnected"}
  /\ sync \in {"done", "somebody", "nobody"}
  /\ jwt \in Claims \cup {None} /\ age \in {"fresh", "ending", "expired"}
  /\ user \in [account : Wallet, named : BOOLEAN] \cup {None}
  /\ cookie \in Claims \cup {None}
  /\ blocked \subseteq Wallet /\ named \subseteq Wallet
  /\ call \in [Calls -> [at : {"idle", "me", "refresh", "again", "signing", "posted"},
                         restoring : BOOLEAN, stale : BOOLEAN, wallet : Wallet \cup {None},
                         drep : BOOLEAN, answer : Wallet \cup Claims \cup {None}]]
  /\ loop \in [claims : Claims \cup {None}] \cup {None}
  /\ modal \in Wallet \cup {None} /\ overtaken \in BOOLEAN
  /\ moves \in 0..MaxMoves /\ clicks \in 0..MaxClicks /\ outside \in 0..MaxOutside

\* The page is loaded, perhaps again: its tab's storage and the cookie stay.
Init ==
  /\ host = "connecting" /\ sync = "done"
  /\ jwt \in {None} \cup [stake : Wallet, drep : {None}]
  /\ age = "fresh" /\ user = None /\ cookie = jwt
  /\ blocked = {} /\ named \in {{}, Wallet}
  /\ call = [c \in Calls |-> NoCall] /\ loop = None /\ modal = None
  /\ overtaken = FALSE /\ moves = 0 /\ clicks = 0 /\ outside = 0

-----------------------------------------------------------------------------
\* The auth routes.

\* Mutant: a token is good for as long as its signature is.
LoadUserSigned(claims) == claims # None

\* loadUser(): who is blocked has no session any more.
LoadUser(claims) == claims # None /\ claims.stake \notin blocked

\* The caller as AuthGuard finds it in the Authorization header.
Caller == IF age # "expired" /\ LoadUser(jwt) THEN jwt.stake ELSE None

\* login() with a stake key, and with a DRep key on top of a stake session.
LoginAnswer(wallet, drep) ==
  IF drep THEN IF Caller # None THEN [stake |-> Caller, drep |-> wallet] ELSE None
  ELSE IF wallet \notin blocked THEN [stake |-> wallet, drep |-> None] ELSE None

\* refresh(): new tokens with the claims of the cookie, or the cookie goes.
Refresh(answer) ==
  \/ answer = (IF LoadUser(cookie) THEN cookie ELSE None) /\ cookie' = answer
  \/ answer = None /\ UNCHANGED cookie          \* the request fails

-----------------------------------------------------------------------------
\* The page's session.

\* clearStates() and clearSession()
SignOut == user' = None /\ jwt' = None /\ age' = "fresh"

\* saveDataInSession('pdfUserJwt')
Save(claims) == jwt' = claims /\ age' = "fresh"

\* Mutant: the user is set as the server sends it.
AccountBare(w) == w

Account(w) == [account |-> w, named |-> w \in named]

Belongs(claims, w) == claims.stake = w /\ claims.drep \in {None, w}

Idle(c) == call[c] = NoCall
Answers(c, place, answer) == call' = [call EXCEPT ![c].at = place, ![c].answer = answer]
Return(c) == call' = [call EXCEPT ![c] = NoCall]

\* A call ends for a wallet that is gone: one without isStale any time, and one
\* with it between the rendering and its effect.
Overtakes(c) == call[c].wallet # host /\ (~call[c].restoring \/ sync # "done")

\* loginUserToApp with a JWT stored: one of another wallet ends the session.
Validate(calls, c, restoring) ==
  IF Belongs(jwt, host)
  THEN \E answer \in {Caller, None} :
         /\ call' = [calls EXCEPT ![c] = [at |-> "me", restoring |-> restoring, stale |-> FALSE,
                                          wallet |-> host, drep |-> FALSE, answer |-> answer]]
         /\ UNCHANGED session
  ELSE call' = calls /\ SignOut

-----------------------------------------------------------------------------
\* The host's wallet changes, the provider renders, and then its effect runs.

Move(h) ==
  /\ sync = "done" /\ h # host /\ moves < MaxMoves /\ moves' = moves + 1
  /\ \E c \in Calls : Idle(c)
  /\ host' = h /\ sync' = IF user = None THEN "nobody" ELSE "somebody"
  /\ UNCHANGED <<session, cookie, blocked, named, call, loop, modal, overtaken, clicks, outside>>

\* Mutant: a change of the wallet leaves earlier runs current.
SupersededNone == call

\* Every change makes the runs of earlier ones stale.
Superseded == [c \in Calls |-> [call[c] EXCEPT !.stale = call[c].restoring]]

Sync ==
  /\ sync # "done" /\ sync' = "done"
  /\ \/ /\ host = "connecting"
        /\ call' = Superseded /\ UNCHANGED <<session, overtaken>>
     \/ /\ host = "disconnected" /\ call' = Superseded
        /\ IF jwt # None \/ sync = "somebody" THEN SignOut ELSE UNCHANGED session
        /\ overtaken' = (overtaken /\ user' # None)
     \/ /\ host \in Wallet /\ jwt = None /\ call' = Superseded
        /\ user' = IF sync = "somebody" THEN None ELSE user
        /\ overtaken' = (overtaken /\ user' # None)
        /\ UNCHANGED <<jwt, age>>
     \/ /\ host \in Wallet /\ jwt # None
        /\ \E c \in Calls : Idle(c) /\ Validate(Superseded, c, TRUE)
        /\ overtaken' = FALSE
  /\ UNCHANGED <<host, cookie, blocked, named, loop, modal, bounds>>

-----------------------------------------------------------------------------
\* loginUserToApp with a JWT stored, after its first await.

\* It was for a wallet that has changed: nothing more is done.
Stale(c) == Return(c) /\ UNCHANGED <<session, cookie, overtaken>>

SetUser(c) ==
  /\ user' = Account(call[c].answer) /\ Return(c)
  /\ overtaken' = (overtaken \/ Overtakes(c))
  /\ UNCHANGED <<jwt, age, cookie>>

GiveUp(c) == SignOut /\ Return(c) /\ UNCHANGED <<cookie, overtaken>>

\* getLoggedInUserInfo() comes back.
MeArrives(c) ==
  /\ call[c].at = "me"
  /\ \/ call[c].stale /\ Stale(c)
     \/ ~call[c].stale /\ call[c].answer # None /\ SetUser(c)
     \/ /\ ~call[c].stale /\ call[c].answer = None
        /\ \E answer \in Claims \cup {None} : Refresh(answer) /\ Answers(c, "refresh", answer)
        /\ UNCHANGED <<session, overtaken>>

\* getRefreshToken() comes back: a JWT of another tab's account is not kept.
RefreshArrives(c) ==
  LET claims == call[c].answer
      kept == claims # None /\ claims.stake = call[c].wallet
  IN
  /\ call[c].at = "refresh"
  /\ \/ call[c].stale /\ Stale(c)
     \/ ~call[c].stale /\ ~kept /\ GiveUp(c)
     \/ /\ ~call[c].stale /\ kept
        /\ Save(claims)
        /\ \E answer \in {None} \cup {w \in Wallet : LoadUser(claims) /\ w = claims.stake} :
             Answers(c, "again", answer)
        /\ overtaken' = (overtaken \/ Overtakes(c))
        /\ UNCHANGED <<user, cookie>>

\* getLoggedInUserInfo() comes back for the second time.
AgainArrives(c) ==
  /\ call[c].at = "again"
  /\ \/ call[c].stale /\ Stale(c)
     \/ ~call[c].stale /\ call[c].answer # None /\ SetUser(c)
     \/ ~call[c].stale /\ call[c].answer = None /\ GiveUp(c)

-----------------------------------------------------------------------------
\* Somebody signs in with the stake key, or, signed in, with the DRep key.

Signing(c, drep) ==
  call' = [call EXCEPT ![c] = [NoCall EXCEPT !.at = "signing", !.wallet = host, !.drep = drep]]

Click(c, drep) ==
  /\ sync = "done" /\ host \in Wallet /\ Idle(c)
  /\ clicks < MaxClicks /\ clicks' = clicks + 1
  /\ \/ drep /\ user # None /\ user.named /\ Signing(c, TRUE) /\ UNCHANGED session
     \/ ~drep /\ user = None /\ jwt = None /\ Signing(c, FALSE) /\ UNCHANGED session
     \/ ~drep /\ user = None /\ jwt # None /\ Validate(call, c, FALSE)
  /\ UNCHANGED <<host, sync, cookie, blocked, named, loop, modal, overtaken, moves, outside>>

\* The wallet has signed, and the login is sent with the JWT stored now.
Signed(c) ==
  /\ call[c].at = "signing"
  /\ \E answer \in {LoginAnswer(call[c].wallet, call[c].drep), None} :
       /\ Answers(c, "posted", answer)
       /\ cookie' = IF answer = None THEN cookie ELSE answer
  /\ UNCHANGED <<session, overtaken>>

\* The user declines: error code 3.
Declined(c) ==
  /\ call[c].at = "signing" /\ Return(c)
  /\ UNCHANGED <<session, cookie, overtaken>>

\* The challenge or the wallet fails in another way.
SigningFails(c) == call[c].at = "signing" /\ GiveUp(c)

PostArrives(c) ==
  LET claims == call[c].answer IN
  /\ call[c].at = "posted"
  /\ \/ claims = None /\ GiveUp(c)
     \/ /\ claims # None
        /\ Save(claims) /\ user' = Account(claims.stake) /\ Return(c)
        /\ overtaken' = (overtaken \/ claims.stake # host)
        /\ UNCHANGED cookie

Arrive(c) ==
  /\ MeArrives(c) \/ RefreshArrives(c) \/ AgainArrives(c) \/ PostArrives(c)
  /\ UNCHANGED <<host, sync, blocked, named, loop, modal, bounds>>

Sign(c) ==
  /\ Signed(c) \/ Declined(c) \/ SigningFails(c)
  /\ UNCHANGED <<host, sync, blocked, named, loop, modal, bounds>>

-----------------------------------------------------------------------------
\* The refresh loop of a user with a name.

Tick ==
  /\ user # None /\ user.named /\ loop = None
  /\ \/ jwt = None /\ user' = None /\ UNCHANGED <<jwt, age, loop, cookie>>
     \/ jwt # None /\ age = "expired" /\ SignOut /\ UNCHANGED <<loop, cookie>>
     \/ /\ jwt # None /\ age = "ending"
        /\ \E answer \in Claims \cup {None} : Refresh(answer) /\ loop' = [claims |-> answer]
        /\ UNCHANGED session
  /\ UNCHANGED <<host, sync, blocked, named, call, modal, overtaken, bounds>>

\* Without a ready wallet the JWT is kept, and the session sync checks it later.
OfAnotherWallet(claims) == host \in Wallet /\ claims.stake # host

LoopArrives ==
  /\ loop # None /\ loop' = None
  /\ IF loop = Nobody \/ OfAnotherWallet(loop.claims) THEN SignOut
     ELSE Save(loop.claims) /\ UNCHANGED user
  /\ UNCHANGED <<host, sync, cookie, blocked, named, call, modal, overtaken, bounds>>

-----------------------------------------------------------------------------
\* UsernameModal: the name is saved, and the page hears of it.

PutName ==
  /\ sync = "done" /\ user # None /\ ~user.named /\ modal = None /\ Caller # None
  /\ modal' = Caller /\ named' = named \cup {Caller}
  /\ UNCHANGED <<host, sync, session, cookie, blocked, call, loop, overtaken, bounds>>

NameArrives ==
  /\ modal # None /\ modal' = None
  /\ user' = [account |-> modal, named |-> TRUE]
  /\ overtaken' = (overtaken \/ modal # host)
  /\ UNCHANGED <<host, sync, jwt, age, cookie, blocked, named, call, loop, bounds>>

-----------------------------------------------------------------------------
\* Time, administrators, and other tabs that sign in or out.

GrowOld ==
  /\ jwt # None /\ age # "expired"
  /\ age' = IF age = "fresh" THEN "ending" ELSE "expired"
  /\ UNCHANGED <<host, sync, jwt, user, cookie, blocked, named, call, loop, modal, overtaken, bounds>>

Block(w) ==
  /\ w \notin blocked /\ blocked' = blocked \cup {w} /\ Cardinality(blocked') <= MaxBlocked
  /\ UNCHANGED <<host, sync, session, cookie, named, call, loop, modal, overtaken, bounds>>

OtherTab(claims) ==
  /\ outside < MaxOutside /\ outside' = outside + 1
  /\ claims # None => claims.drep \in {None, claims.stake} /\ claims.stake \notin blocked
  /\ cookie' = claims
  /\ UNCHANGED <<host, sync, session, blocked, named, call, loop, modal, overtaken, moves, clicks>>

Next ==
  \/ \E h \in Wallet \cup {"connecting", "disconnected"} : Move(h)
  \/ Sync \/ Tick \/ LoopArrives \/ PutName \/ NameArrives \/ GrowOld
  \/ \E c \in Calls : Arrive(c) \/ Sign(c) \/ \E drep \in BOOLEAN : Click(c, drep)
  \/ \E w \in Wallet : Block(w)
  \/ \E claims \in Claims \cup {None} : OtherTab(claims)

\* Effects run, timers fire, tokens age, and requests come back with an answer
\* or an error.  People, wallets and other tabs owe nothing.
Fairness ==
  /\ WF_vars(Sync) /\ WF_vars(Tick) /\ WF_vars(LoopArrives) /\ WF_vars(GrowOld)
  /\ WF_vars(NameArrives) /\ \A c \in Calls : WF_vars(Arrive(c))

Spec == Init /\ [][Next]_vars /\ Fairness

-----------------------------------------------------------------------------
Restoring == \E c \in Calls : call[c].restoring /\ ~call[c].stale

\* Once the page has synced with the host's wallet, the user it shows and the
\* JWT it sends are that wallet's, and nobody is signed in without a wallet,
\* whatever refreshes, other tabs, checks of earlier wallets and expiries do in
\* between.  What may break it is named, and lasts until a sync ends or checks the
\* session: a sign-in or a username that was begun under another wallet, a DRep
\* sign-in on the session another tab refreshed, and a check that ends between
\* the rendering of a new wallet and its effect.
SignedInAsWallet ==
  sync = "done" /\ ~Restoring /\ ~overtaken =>
    /\ host \in Wallet => /\ user # None => user.account = host
                          /\ jwt # None => jwt.stake = host
    /\ host = "disconnected" => user = None

SessionOf(w) == user = [account |-> w, named |-> TRUE] /\ jwt # None /\ jwt.stake = w

\* An account that is blocked does not stay signed in: its tokens end, and the
\* refresh that would renew them is refused.
BlockedSignsOut == \A w \in Wallet : (w \in blocked /\ SessionOf(w)) ~> ~SessionOf(w)
=============================================================================
