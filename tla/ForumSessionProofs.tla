------------------------- MODULE ForumSessionProofs -------------------------
(***************************************************************************)
(* The safety of the forum's page in the host page of the wallet, for any  *)
(* number of wallets and of overlapping calls.                             *)
(***************************************************************************)
EXTENDS ForumSession, FiniteSetTheorems, TLAPS

CallRecords ==
  [at : {"idle", "me", "refresh", "again", "signing", "posted"},
   restoring : BOOLEAN, stale : BOOLEAN, wallet : Wallet \cup {None},
   drep : BOOLEAN, answer : Wallet \cup Claims \cup {None}]

\* What a call has heard: an account is that of its wallet, and a call on the
\* way has a wallet.
Sound(r) ==
  /\ r.at # "idle" => r.wallet \in Wallet
  /\ r.restoring => r.at \in {"me", "refresh", "again"}
  /\ r.at \in {"me", "again"} => r.answer \in {None, r.wallet}
  /\ r.at \in {"refresh", "posted"} => r.answer \in Claims \cup {None}

Current(r) == r.restoring /\ ~r.stale

CallsAreSound == \A c \in Calls : Sound(call[c])

\* After the sync, a check that is not stale is one of the present wallet.
ChecksAreCurrent ==
  sync = "done" => \A c \in Calls : Current(call[c]) => call[c].wallet = host

JwtOfHost ==
  sync = "done" /\ ~overtaken /\ host \in Wallet /\ jwt # None => jwt.stake = host

\* Where the change found nobody, who is shown now signed in for this wallet.
NobodyElse ==
  sync = "nobody" /\ ~overtaken /\ user # None => user.account = host

UserOfHost ==
  sync = "done" /\ ~overtaken /\ ~Restoring =>
    /\ host \in Wallet /\ user # None => user.account = host
    /\ host = "disconnected" => user = None

IInv ==
  /\ TypeOK /\ CallsAreSound /\ ChecksAreCurrent
  /\ JwtOfHost /\ NobodyElse /\ UserOfHost

LEMMA TypeParts ==
  TypeOK <=>
    /\ host \in Wallet \cup {"connecting", "disconnected"}
    /\ sync \in {"done", "somebody", "nobody"}
    /\ jwt \in Claims \cup {None} /\ age \in {"fresh", "ending", "expired"}
    /\ user \in [account : Wallet, named : BOOLEAN] \cup {None}
    /\ cookie \in Claims \cup {None}
    /\ blocked \subseteq Wallet /\ named \subseteq Wallet
    /\ call \in [Calls -> CallRecords]
    /\ loop \in [claims : Claims \cup {None}] \cup {None}
    /\ modal \in Wallet \cup {None} /\ overtaken \in BOOLEAN
    /\ moves \in 0..MaxMoves /\ clicks \in 0..MaxClicks /\ outside \in 0..MaxOutside
BY DEF TypeOK, CallRecords

LEMMA NoCallIsSound == NoCall \in CallRecords /\ Sound(NoCall) /\ ~Current(NoCall)
BY DEF NoCall, CallRecords, Sound, Current

LEMMA RestoringIsCurrent == Restoring <=> \E c \in Calls : Current(call[c])
BY DEF Restoring, Current

LEMMA InitIInv == Init => IInv
<1> SUFFICES ASSUME Init PROVE IInv
  OBVIOUS
<1>1. TypeOK
  <2>1. jwt \in Claims \cup {None}
    BY DEF Init, Claims
  <2>2. call \in [Calls -> CallRecords]
    BY NoCallIsSound DEF Init
  <2>3. named \subseteq Wallet
    BY DEF Init
  <2>4. moves \in 0..MaxMoves /\ clicks \in 0..MaxClicks /\ outside \in 0..MaxOutside
    BY SessionAssumption DEF Init
  <2> QED
    BY <2>1, <2>2, <2>3, <2>4, TypeParts DEF Init
<1>2. CallsAreSound /\ ChecksAreCurrent
  BY NoCallIsSound DEF Init, CallsAreSound, ChecksAreCurrent
<1> QED
  BY <1>1, <1>2, SessionAssumption DEF Init, IInv, JwtOfHost, NobodyElse, UserOfHost

(***************************************************************************)
(* A step of one call.                                                     *)
(***************************************************************************)
\* A step that leaves call c as r: it is current only if it was.
LEMMA OneCall ==
  ASSUME IInv, NEW c \in Calls, NEW r \in CallRecords, Sound(r),
         Current(r) => Current(call[c]) /\ r.wallet = call[c].wallet,
         call' = [call EXCEPT ![c] = r], UNCHANGED <<host, sync>>
  PROVE  /\ call' \in [Calls -> CallRecords] /\ CallsAreSound' /\ ChecksAreCurrent'
         /\ Restoring => Restoring' \/ Current(call[c])
         /\ ~Current(call[c]) => (Restoring' <=> Restoring)
<1>1. call \in [Calls -> CallRecords]
  BY TypeParts DEF IInv
<1>2. /\ call' \in [Calls -> CallRecords]
      /\ call'[c] = r /\ \A d \in Calls \ {c} : call'[d] = call[d]
  BY <1>1
<1>3. CallsAreSound'
  BY <1>2 DEF IInv, CallsAreSound, Sound
<1>4. ChecksAreCurrent'
  BY <1>2 DEF IInv, ChecksAreCurrent, Current
<1>5. Restoring' <=> \E d \in Calls : Current(call'[d])
  BY DEF Restoring, Current
<1> QED
  BY <1>1, <1>2, <1>3, <1>4, <1>5, RestoringIsCurrent

\* What such a step leaves alone.
Outside == <<host, sync, blocked, named, loop, modal, bounds>>

\* A call that is over.
LEMMA CallOver ==
  ASSUME IInv, NEW c \in Calls, Return(c), UNCHANGED <<host, sync>>
  PROVE  /\ call' \in [Calls -> CallRecords] /\ CallsAreSound' /\ ChecksAreCurrent'
         /\ Restoring => Restoring' \/ Current(call[c])
         /\ ~Current(call[c]) => (Restoring' <=> Restoring)
BY NoCallIsSound, OneCall DEF Return

\* A call that waits for its next answer.
LEMMA CallGoesOn ==
  ASSUME IInv, NEW c \in Calls, call[c].at # "idle",
         NEW place \in {"refresh", "again", "posted"},
         NEW answer \in Wallet \cup Claims \cup {None},
         call[c].restoring => place \in {"refresh", "again"},
         place = "again" => answer \in {None, call[c].wallet},
         place # "again" => answer \in Claims \cup {None},
         Answers(c, place, answer), UNCHANGED <<host, sync>>
  PROVE  /\ call' \in [Calls -> CallRecords] /\ CallsAreSound' /\ ChecksAreCurrent'
         /\ Restoring' <=> Restoring
<1> DEFINE r == [call[c] EXCEPT !.at = place, !.answer = answer]
<1>1. call \in [Calls -> CallRecords] /\ Sound(call[c])
  BY TypeParts DEF IInv, CallsAreSound
<1>2. r \in CallRecords
  BY <1>1 DEF CallRecords
<1>3. /\ r.at = place /\ r.answer = answer /\ r.restoring = call[c].restoring
      /\ r.stale = call[c].stale /\ r.wallet = call[c].wallet
  BY <1>1 DEF CallRecords
<1>4. Sound(r)
  BY <1>1, <1>3 DEF Sound
<1>5. call' = [call EXCEPT ![c] = r]
  BY <1>1 DEF Answers
<1>6. Current(r) <=> Current(call[c])
  BY <1>3 DEF Current
<1>7. /\ call' \in [Calls -> CallRecords] /\ CallsAreSound' /\ ChecksAreCurrent'
      /\ Restoring => Restoring' \/ Current(call[c])
      /\ ~Current(call[c]) => (Restoring' <=> Restoring)
  <2> HIDE DEF r
  <2> QED
    BY <1>2, <1>3, <1>4, <1>5, <1>6, OneCall
<1>8. Restoring' <=> Restoring
  <2>1. CASE Current(call[c])
    <3>1. Restoring
      BY <2>1, RestoringIsCurrent
    <3>2. call'[c].restoring /\ ~call'[c].stale
      BY <1>1, <1>3, <1>5, <2>1 DEF Current
    <3> QED
      BY <3>1, <3>2 DEF Restoring
  <2> QED
    BY <1>7, <2>1
<1> QED
  BY <1>7, <1>8

\* A session that ends is nobody's.
LEMMA SignedOut ==
  ASSUME IInv, SignOut, UNCHANGED <<cookie, Outside>>,
         overtaken' \in BOOLEAN, call' \in [Calls -> CallRecords],
         CallsAreSound', ChecksAreCurrent'
  PROVE  IInv'
<1>1. TypeOK'
  BY TypeParts DEF IInv, SignOut, Outside, bounds, TypeOK, CallRecords
<1> QED
  BY <1>1 DEF IInv, SignOut, JwtOfHost, NobodyElse, UserOfHost

LEMMA StaleKeepsIInv ==
  ASSUME IInv, NEW c \in Calls, call[c].stale \/ ~call[c].restoring, Stale(c), UNCHANGED Outside
  PROVE  IInv'
<1>1. /\ call' \in [Calls -> CallRecords] /\ CallsAreSound' /\ ChecksAreCurrent'
      /\ Restoring' <=> Restoring
  BY CallOver DEF Stale, Outside, Current
<1>2. TypeOK'
  BY <1>1 DEF IInv, Stale, Outside, session, bounds, TypeOK, CallRecords
<1> QED
  BY <1>1, <1>2 DEF IInv, Stale, Outside, session, JwtOfHost, NobodyElse, UserOfHost

LEMMA GiveUpKeepsIInv ==
  ASSUME IInv, NEW c \in Calls, GiveUp(c), UNCHANGED Outside
  PROVE  IInv'
<1>1. call' \in [Calls -> CallRecords] /\ CallsAreSound' /\ ChecksAreCurrent'
  BY CallOver DEF GiveUp, Outside
<1>2. overtaken' \in BOOLEAN
  BY TypeParts DEF IInv, GiveUp
<1> QED
  BY <1>1, <1>2, SignedOut DEF GiveUp

LEMMA SetUserKeepsIInv ==
  ASSUME IInv, NEW c \in Calls, call[c].at \in {"me", "again"}, ~call[c].stale,
         call[c].answer # None, SetUser(c), UNCHANGED Outside
  PROVE  IInv'
<1>1. /\ call' \in [Calls -> CallRecords] /\ CallsAreSound' /\ ChecksAreCurrent'
  BY CallOver DEF SetUser, Outside
<1>2. call[c].wallet \in Wallet /\ call[c].answer = call[c].wallet
  BY DEF IInv, CallsAreSound, Sound
<1>3. user' = [account |-> call[c].wallet, named |-> call[c].wallet \in named]
  BY <1>2 DEF SetUser, Account
<1>4. overtaken' \in BOOLEAN
  BY TypeParts DEF IInv, SetUser, Overtakes
<1>5. TypeOK'
  <2>1. user' \in [account : Wallet, named : BOOLEAN]
    BY <1>2, <1>3
  <2> QED
    BY <1>1, <1>4, <2>1, TypeParts DEF IInv, SetUser, Outside, bounds, TypeOK, CallRecords
<1>6. ~overtaken' => ~overtaken /\ (call[c].wallet = host \/ (Current(call[c]) /\ sync = "done"))
  BY TypeParts DEF IInv, SetUser, Overtakes, Current
<1>7. ~overtaken' => call[c].wallet = host
  BY <1>6 DEF IInv, ChecksAreCurrent
<1>8. JwtOfHost'
  BY <1>6 DEF IInv, SetUser, Outside, JwtOfHost
<1>9. NobodyElse' /\ UserOfHost'
  BY <1>2, <1>3, <1>7, SessionAssumption DEF Outside, NobodyElse, UserOfHost
<1> QED
  BY <1>1, <1>5, <1>8, <1>9 DEF IInv

\* The calls' part of a step that changes neither the page nor the cookie's kind.
LEMMA CookieKeepsIInv ==
  ASSUME IInv, UNCHANGED <<session, overtaken, Outside>>, cookie' \in Claims \cup {None},
         call' \in [Calls -> CallRecords], CallsAreSound', ChecksAreCurrent',
         Restoring' <=> Restoring
  PROVE  IInv'
<1>1. TypeOK'
  BY DEF IInv, Outside, session, bounds, TypeOK, CallRecords
<1> QED
  BY <1>1 DEF IInv, Outside, session, JwtOfHost, NobodyElse, UserOfHost

LEMMA RefreshedCookie ==
  ASSUME IInv, NEW answer \in Claims \cup {None}, Refresh(answer)
  PROVE  cookie' \in Claims \cup {None}
BY TypeParts DEF IInv, Refresh

LEMMA MeKeepsIInv ==
  ASSUME IInv, NEW c \in Calls, MeArrives(c), UNCHANGED Outside
  PROVE  IInv'
<1>1. CASE call[c].stale /\ Stale(c)
  BY <1>1, StaleKeepsIInv
<1>2. CASE ~call[c].stale /\ call[c].answer # None /\ SetUser(c)
  BY <1>2, SetUserKeepsIInv DEF MeArrives
<1>3. ASSUME NEW answer \in Claims \cup {None}, Refresh(answer), Answers(c, "refresh", answer),
             UNCHANGED <<session, overtaken>>
      PROVE  IInv'
  <2>1. /\ call' \in [Calls -> CallRecords] /\ CallsAreSound' /\ ChecksAreCurrent'
        /\ Restoring' <=> Restoring
    BY <1>3, CallGoesOn DEF MeArrives, Outside
  <2>2. cookie' \in Claims \cup {None}
    BY <1>3, RefreshedCookie
  <2> QED
    BY <1>3, <2>1, <2>2, CookieKeepsIInv
<1> QED
  BY <1>1, <1>2, <1>3 DEF MeArrives

\* The tokens a refresh brings are those of the wallet the call was made for.
LEMMA KeptKeepsIInv ==
  ASSUME IInv, NEW c \in Calls, call[c].at = "refresh", ~call[c].stale, call[c].answer # None,
         call[c].answer.stake = call[c].wallet, Save(call[c].answer),
         NEW answer \in {None, call[c].wallet}, Answers(c, "again", answer),
         overtaken' = (overtaken \/ Overtakes(c)), UNCHANGED <<user, cookie, Outside>>
  PROVE  IInv'
<1>1. /\ call' \in [Calls -> CallRecords] /\ CallsAreSound' /\ ChecksAreCurrent'
      /\ Restoring' <=> Restoring
  <2>1. call[c].wallet \in Wallet
    BY DEF IInv, CallsAreSound, Sound
  <2> QED
    BY <2>1, CallGoesOn DEF Outside
<1>2. jwt' \in Claims /\ jwt'.stake = call[c].wallet
  BY DEF Save, IInv, CallsAreSound, Sound
<1>3. overtaken' \in BOOLEAN
  BY TypeParts DEF IInv, Overtakes
<1>4. TypeOK'
  BY <1>1, <1>2, <1>3 DEF IInv, Save, Outside, bounds, TypeOK, CallRecords
<1>5. ~overtaken' => ~overtaken /\ (call[c].wallet = host \/ (Current(call[c]) /\ sync = "done"))
  BY TypeParts DEF IInv, Overtakes, Current
<1>6. ~overtaken' => call[c].wallet = host
  BY <1>5 DEF IInv, ChecksAreCurrent
<1>7. JwtOfHost'
  BY <1>2, <1>6 DEF Outside, JwtOfHost
<1>8. NobodyElse' /\ UserOfHost'
  BY <1>1, <1>5 DEF IInv, Outside, NobodyElse, UserOfHost
<1> QED
  BY <1>1, <1>4, <1>7, <1>8 DEF IInv

LEMMA RefreshKeepsIInv ==
  ASSUME IInv, NEW c \in Calls, RefreshArrives(c), UNCHANGED Outside
  PROVE  IInv'
<1> DEFINE kept == call[c].answer # None /\ call[c].answer.stake = call[c].wallet
<1>1. CASE call[c].stale /\ Stale(c)
  BY <1>1, StaleKeepsIInv
<1>2. CASE ~call[c].stale /\ ~kept /\ GiveUp(c)
  BY <1>2, GiveUpKeepsIInv
<1>3. CASE /\ ~call[c].stale /\ kept /\ Save(call[c].answer)
           /\ \E answer \in {None} \cup {w \in Wallet : LoadUser(call[c].answer)
                                                          /\ w = call[c].answer.stake} :
                Answers(c, "again", answer)
           /\ overtaken' = (overtaken \/ Overtakes(c))
           /\ UNCHANGED <<user, cookie>>
  <2>1. PICK answer \in {None, call[c].wallet} : Answers(c, "again", answer)
    BY <1>3
  <2> QED
    BY <1>3, <2>1, KeptKeepsIInv DEF RefreshArrives
<1> QED
  BY <1>1, <1>2, <1>3 DEF RefreshArrives

LEMMA AgainKeepsIInv ==
  ASSUME IInv, NEW c \in Calls, AgainArrives(c), UNCHANGED Outside
  PROVE  IInv'
<1>1. CASE call[c].stale /\ Stale(c)
  BY <1>1, StaleKeepsIInv
<1>2. CASE ~call[c].stale /\ call[c].answer # None /\ SetUser(c)
  BY <1>2, SetUserKeepsIInv DEF AgainArrives
<1>3. CASE ~call[c].stale /\ call[c].answer = None /\ GiveUp(c)
  BY <1>3, GiveUpKeepsIInv
<1> QED
  BY <1>1, <1>2, <1>3 DEF AgainArrives

\* Signing in for a wallet that is gone is told by overtaken.
LEMMA PostKeepsIInv ==
  ASSUME IInv, NEW c \in Calls, PostArrives(c), UNCHANGED Outside
  PROVE  IInv'
<1> DEFINE claims == call[c].answer
<1>1. CASE claims = None /\ GiveUp(c)
  BY <1>1, GiveUpKeepsIInv
<1>2. CASE /\ claims # None /\ Save(claims) /\ user' = Account(claims.stake) /\ Return(c)
           /\ overtaken' = (overtaken \/ claims.stake # host) /\ UNCHANGED cookie
  <2>1. /\ call' \in [Calls -> CallRecords] /\ CallsAreSound' /\ ChecksAreCurrent'
    BY <1>2, CallOver DEF Outside
  <2>2. claims \in Claims /\ claims.stake \in Wallet
    BY <1>2 DEF PostArrives, IInv, CallsAreSound, Sound, Claims
  <2>3. user' \in [account : Wallet, named : BOOLEAN] /\ user'.account = claims.stake
    BY <1>2, <2>2 DEF Account
  <2>4. overtaken' \in BOOLEAN
    BY <1>2, TypeParts DEF IInv
  <2>5. TypeOK'
    BY <1>2, <2>1, <2>2, <2>3, <2>4 DEF IInv, Save, Outside, bounds, TypeOK, CallRecords
  <2>6. ~overtaken' => claims.stake = host
    BY <1>2, TypeParts DEF IInv
  <2>7. JwtOfHost' /\ NobodyElse' /\ UserOfHost'
    BY <1>2, <2>2, <2>3, <2>6, SessionAssumption
       DEF Save, Outside, JwtOfHost, NobodyElse, UserOfHost
  <2> QED
    BY <2>1, <2>5, <2>7 DEF IInv
<1> QED
  BY <1>1, <1>2 DEF PostArrives

\* A login keeps a stake session the token of its own account.
LEMMA LoginAnswerType ==
  ASSUME TypeOK, NEW w \in Wallet, NEW drep \in BOOLEAN
  PROVE  LoginAnswer(w, drep) \in Claims \cup {None}
BY TypeParts DEF LoginAnswer, Caller, LoadUser, Claims

LEMMA SignKeepsIInv ==
  ASSUME IInv, NEW c \in Calls, Sign(c)
  PROVE  IInv'
<1>1. UNCHANGED Outside
  BY DEF Sign, Outside
<1>2. ASSUME call[c].at = "signing", UNCHANGED <<session, overtaken>>,
             NEW answer \in {LoginAnswer(call[c].wallet, call[c].drep), None},
             Answers(c, "posted", answer), cookie' = IF answer = None THEN cookie ELSE answer
      PROVE  IInv'
  <2>1. answer \in Claims \cup {None}
    <3>1. call[c].wallet \in Wallet
      BY <1>2 DEF IInv, CallsAreSound, Sound
    <3>2. call[c].drep \in BOOLEAN
      BY TypeParts DEF IInv, CallRecords
    <3> QED
      BY <3>1, <3>2, LoginAnswerType DEF IInv
  <2>2. /\ call' \in [Calls -> CallRecords] /\ CallsAreSound' /\ ChecksAreCurrent'
        /\ Restoring' <=> Restoring
    <3>1. ~call[c].restoring
      BY <1>2 DEF IInv, CallsAreSound, Sound
    <3> QED
      BY <1>1, <1>2, <2>1, <3>1, CallGoesOn DEF Outside
  <2>3. cookie' \in Claims \cup {None}
    BY <1>2, <2>1, TypeParts DEF IInv
  <2> QED
    BY <1>1, <1>2, <2>2, <2>3, CookieKeepsIInv
<1>3. CASE Declined(c)
  <2>1. call[c].stale \/ ~call[c].restoring
    BY <1>3 DEF Declined, IInv, CallsAreSound, Sound
  <2> QED
    BY <1>1, <1>3, <2>1, StaleKeepsIInv DEF Declined, Stale
<1>4. CASE SigningFails(c)
  BY <1>1, <1>4, GiveUpKeepsIInv DEF SigningFails
<1> QED
  BY <1>2, <1>3, <1>4 DEF Sign, Signed

(***************************************************************************)
(* Steps of the host, the provider and the page.                           *)
(***************************************************************************)
LEMMA MoveKeepsIInv ==
  ASSUME IInv, NEW h \in Wallet \cup {"connecting", "disconnected"}, Move(h)
  PROVE  IInv'
<1>1. TypeOK'
  BY SessionAssumption, TypeParts DEF IInv, Move, session, bounds, TypeOK, CallRecords
<1>2. sync' # "done" /\ (sync' = "nobody" => user' = None)
  BY DEF Move, session
<1>3. CallsAreSound'
  BY DEF IInv, Move, CallsAreSound, Sound
<1> QED
  BY <1>1, <1>2, <1>3 DEF IInv, ChecksAreCurrent, JwtOfHost, NobodyElse, UserOfHost

\* A change of the wallet leaves no check that is not stale.
LEMMA SupersededCalls ==
  ASSUME IInv
  PROVE  /\ Superseded \in [Calls -> CallRecords]
         /\ \A c \in Calls : Sound(Superseded[c]) /\ ~Current(Superseded[c])
<1>1. call \in [Calls -> CallRecords] /\ \A c \in Calls : Sound(call[c])
  BY TypeParts DEF IInv, CallsAreSound
<1>2. ASSUME NEW c \in Calls
      PROVE  /\ Superseded[c] \in CallRecords
             /\ Superseded[c] = [call[c] EXCEPT !.stale = call[c].restoring]
  BY <1>1 DEF Superseded, CallRecords
<1>3. ASSUME NEW c \in Calls
      PROVE  Sound(Superseded[c]) /\ ~Current(Superseded[c])
  <2>1. call[c] \in CallRecords /\ Sound(call[c])
    BY <1>1
  <2> DEFINE r == [call[c] EXCEPT !.stale = call[c].restoring]
  <2>2. /\ r.at = call[c].at /\ r.restoring = call[c].restoring /\ r.wallet = call[c].wallet
        /\ r.answer = call[c].answer /\ r.stale = call[c].restoring
    BY <2>1 DEF CallRecords
  <2>3. Superseded[c] = r
    BY <1>2
  <2> HIDE DEF r
  <2>4. Sound(r) /\ ~Current(r)
    BY <2>1, <2>2 DEF Sound, Current
  <2> QED
    BY <2>3, <2>4
<1>4. Superseded \in [Calls -> CallRecords]
  BY <1>2 DEF Superseded
<1> QED
  BY <1>3, <1>4

\* A check asks for the user of a JWT that belongs to the wallet it is made for.
LEMMA AskedForHost ==
  ASSUME IInv, host \in Wallet, jwt # None, Belongs(jwt, host), NEW restoring \in BOOLEAN,
         NEW answer \in {Caller, None}
  PROVE  LET r == [at |-> "me", restoring |-> restoring, stale |-> FALSE, wallet |-> host,
                   drep |-> FALSE, answer |-> answer]
         IN  r \in CallRecords /\ Sound(r)
<1>1. answer \in {None, host}
  BY DEF Caller, Belongs
<1> QED
  BY <1>1 DEF CallRecords, Sound

LEMMA ValidateCases ==
  ASSUME IInv, host \in Wallet, jwt # None, NEW restoring \in BOOLEAN, NEW c \in Calls,
         NEW calls \in [Calls -> CallRecords], \A d \in Calls : Sound(calls[d]),
         Validate(calls, c, restoring)
  PROVE  \/ SignOut /\ call' = calls
         \/ /\ jwt.stake = host /\ UNCHANGED session
            /\ call' \in [Calls -> CallRecords] /\ \A d \in Calls : Sound(call'[d])
            /\ call'[c].restoring = restoring /\ ~call'[c].stale /\ call'[c].wallet = host
            /\ \A d \in Calls \ {c} : call'[d] = calls[d]
<1>1. CASE Belongs(jwt, host)
  <2>1. PICK answer \in {Caller, None} :
          call' = [calls EXCEPT ![c] = [at |-> "me", restoring |-> restoring, stale |-> FALSE,
                                        wallet |-> host, drep |-> FALSE, answer |-> answer]]
    BY <1>1 DEF Validate
  <2> DEFINE r == [at |-> "me", restoring |-> restoring, stale |-> FALSE,
                   wallet |-> host, drep |-> FALSE, answer |-> answer]
  <2>2. r \in CallRecords /\ Sound(r)
    BY <1>1, AskedForHost
  <2>3. r.restoring = restoring /\ ~r.stale /\ r.wallet = host
    OBVIOUS
  <2>4. call' = [calls EXCEPT ![c] = r]
    BY <2>1
  <2> HIDE DEF r
  <2>5. call' \in [Calls -> CallRecords] /\ call'[c] = r
        /\ \A d \in Calls \ {c} : call'[d] = calls[d]
    BY <2>2, <2>4
  <2>6. \A d \in Calls : Sound(call'[d])
    BY <2>2, <2>5
  <2>7. jwt.stake = host /\ UNCHANGED session
    BY <1>1 DEF Validate, Belongs
  <2> QED
    BY <2>3, <2>5, <2>6, <2>7
<1>2. CASE ~Belongs(jwt, host)
  BY <1>2 DEF Validate
<1> QED
  BY <1>1, <1>2

LEMMA SyncKeepsIInv ==
  ASSUME IInv, Sync
  PROVE  IInv'
<1> DEFINE old == Superseded
<1>1. /\ old \in [Calls -> CallRecords]
      /\ \A c \in Calls : Sound(old[c]) /\ ~Current(old[c])
  BY SupersededCalls
<1>2. /\ sync # "done" /\ sync' = "done"
      /\ UNCHANGED <<host, cookie, blocked, named, loop, modal, bounds>>
  BY DEF Sync
<1> HIDE DEF old
<1>3. ASSUME call' = old PROVE CallsAreSound' /\ ChecksAreCurrent'
  BY <1>1, <1>3 DEF CallsAreSound, ChecksAreCurrent, Sound, Current
<1>4. CASE host = "connecting" /\ call' = Superseded /\ UNCHANGED <<session, overtaken>>
  <2>1. call' = old
    BY <1>4 DEF old
  <2>2. TypeOK'
    BY <1>1, <1>2, <1>4, <2>1 DEF IInv, session, bounds, TypeOK, CallRecords
  <2> QED
    BY <1>2, <1>3, <1>4, <2>1, <2>2, SessionAssumption
       DEF IInv, session, JwtOfHost, NobodyElse, UserOfHost
<1>5. CASE /\ host = "disconnected" /\ call' = Superseded
           /\ IF jwt # None \/ sync = "somebody" THEN SignOut ELSE UNCHANGED session
           /\ overtaken' = (overtaken /\ user' # None)
  <2>1. call' = old
    BY <1>5 DEF old
  <2>2. overtaken' \in BOOLEAN
    BY <1>5, TypeParts DEF IInv
  <2>3. SignOut \/ (UNCHANGED session /\ jwt = None /\ sync = "nobody")
    BY <1>2, <1>5, TypeParts DEF IInv
  <2>4. TypeOK'
    BY <1>1, <1>2, <2>1, <2>2, <2>3 DEF IInv, SignOut, session, bounds, TypeOK, CallRecords
  <2>5. ASSUME ~overtaken', user' # None PROVE FALSE
    <3>1. user = user' /\ sync = "nobody" /\ ~overtaken
      BY <1>5, <2>3, <2>5, TypeParts DEF IInv, SignOut, session
    <3>2. user.account = "disconnected" /\ user.account \in Wallet
      BY <1>5, <2>5, <3>1, TypeParts DEF IInv, NobodyElse
    <3> QED
      BY <3>2, SessionAssumption
  <2> QED
    BY <1>2, <1>3, <1>5, <2>1, <2>4, <2>5, SessionAssumption
       DEF IInv, JwtOfHost, NobodyElse, UserOfHost
<1>6. CASE /\ host \in Wallet /\ jwt = None /\ call' = Superseded
           /\ user' = IF sync = "somebody" THEN None ELSE user
           /\ overtaken' = (overtaken /\ user' # None)
           /\ UNCHANGED <<jwt, age>>
  <2>1. call' = old
    BY <1>6 DEF old
  <2>2. overtaken' \in BOOLEAN
    BY <1>6, TypeParts DEF IInv
  <2>3. TypeOK'
    BY <1>1, <1>2, <1>6, <2>1, <2>2 DEF IInv, bounds, TypeOK, CallRecords
  <2>4. ~overtaken' /\ user' # None => user'.account = host
    BY <1>2, <1>6, TypeParts DEF IInv, NobodyElse
  <2> QED
    BY <1>2, <1>3, <1>6, <2>1, <2>3, <2>4, SessionAssumption
       DEF IInv, JwtOfHost, NobodyElse, UserOfHost
<1>7. ASSUME host \in Wallet, jwt # None, NEW c \in Calls, Validate(Superseded, c, TRUE),
             overtaken' = FALSE
      PROVE  IInv'
  <2>1. CASE SignOut /\ call' = Superseded
    <3>1. call' = old
      BY <2>1 DEF old
    <3>2. TypeOK'
      BY <1>1, <1>2, <1>7, <2>1, <3>1 DEF IInv, SignOut, bounds, TypeOK, CallRecords
    <3> QED
      BY <1>2, <1>3, <2>1, <3>1, <3>2
         DEF IInv, SignOut, JwtOfHost, NobodyElse, UserOfHost
  <2>2. CASE /\ jwt.stake = host /\ UNCHANGED session
             /\ call' \in [Calls -> CallRecords] /\ \A d \in Calls : Sound(call'[d])
             /\ call'[c].restoring = TRUE /\ ~call'[c].stale /\ call'[c].wallet = host
             /\ \A d \in Calls \ {c} : call'[d] = Superseded[d]
    <3>1. TypeOK'
      BY <1>2, <1>7, <2>2 DEF IInv, session, bounds, TypeOK, CallRecords
    <3>2. CallsAreSound'
      BY <2>2 DEF CallsAreSound, Sound
    <3>3. ChecksAreCurrent'
      BY <1>1, <1>2, <2>2 DEF old, ChecksAreCurrent, Current
    <3>4. Restoring'
      BY <2>2 DEF Restoring
    <3> QED
      BY <1>2, <2>2, <3>1, <3>2, <3>3, <3>4
         DEF IInv, session, JwtOfHost, NobodyElse, UserOfHost
  <2>3. PICK calls \in [Calls -> CallRecords] : calls = Superseded
    BY <1>1 DEF old
  <2>4. Validate(calls, c, TRUE) /\ \A d \in Calls : Sound(calls[d])
    BY <1>1, <1>7, <2>3 DEF old, Validate
  <2>5. \/ SignOut /\ call' = calls
        \/ /\ jwt.stake = host /\ UNCHANGED session
           /\ call' \in [Calls -> CallRecords] /\ \A d \in Calls : Sound(call'[d])
           /\ call'[c].restoring = TRUE /\ ~call'[c].stale /\ call'[c].wallet = host
           /\ \A d \in Calls \ {c} : call'[d] = calls[d]
    BY <1>7, <2>4, ValidateCases
  <2> QED
    BY <2>1, <2>2, <2>3, <2>5
<1> QED
  BY <1>4, <1>5, <1>6, <1>7 DEF Sync

LEMMA ClickKeepsIInv ==
  ASSUME IInv, NEW c \in Calls, NEW drep \in BOOLEAN, Click(c, drep)
  PROVE  IInv'
<1>1. /\ host \in Wallet /\ sync = "done" /\ call[c] = NoCall /\ clicks' \in 0..MaxClicks
      /\ UNCHANGED <<host, sync, cookie, blocked, named, loop, modal, overtaken, moves, outside>>
  <2>1. clicks' \in 0..MaxClicks
    BY SessionAssumption, TypeParts DEF IInv, Click
  <2> QED
    BY <2>1 DEF Click, Idle
<1>2. ASSUME Signing(c, drep), UNCHANGED session
      PROVE  IInv'
  <2> DEFINE r == [NoCall EXCEPT !.at = "signing", !.wallet = host, !.drep = drep]
  <2>1. r \in CallRecords /\ Sound(r) /\ ~Current(r)
    BY <1>1 DEF NoCall, CallRecords, Sound, Current
  <2>2. call' = [call EXCEPT ![c] = r]
    BY <1>2 DEF Signing
  <2> HIDE DEF r
  <2>3. /\ call' \in [Calls -> CallRecords] /\ CallsAreSound' /\ ChecksAreCurrent'
        /\ Restoring' <=> Restoring
    BY <1>1, <2>1, <2>2, OneCall, NoCallIsSound
  <2>4. TypeOK'
    BY <1>1, <1>2, <2>3 DEF IInv, session, TypeOK, CallRecords
  <2> QED
    BY <1>1, <1>2, <2>3, <2>4 DEF IInv, session, JwtOfHost, NobodyElse, UserOfHost
<1>3. ASSUME jwt # None, user = None, Validate(call, c, FALSE)
      PROVE  IInv'
  <2>1. call \in [Calls -> CallRecords] /\ \A d \in Calls : Sound(call[d])
    BY TypeParts DEF IInv, CallsAreSound
  <2>2. CASE SignOut /\ call' = call
    <3>1. CallsAreSound' /\ ChecksAreCurrent'
      BY <1>1, <2>1, <2>2 DEF IInv, CallsAreSound, ChecksAreCurrent, Sound, Current
    <3>2. TypeOK'
      BY <1>1, <2>1, <2>2 DEF IInv, SignOut, TypeOK, CallRecords
    <3> QED
      BY <2>2, <3>1, <3>2 DEF IInv, SignOut, JwtOfHost, NobodyElse, UserOfHost
  <2>3. CASE /\ jwt.stake = host /\ UNCHANGED session
             /\ call' \in [Calls -> CallRecords] /\ \A d \in Calls : Sound(call'[d])
             /\ call'[c].restoring = FALSE /\ ~call'[c].stale /\ call'[c].wallet = host
             /\ \A d \in Calls \ {c} : call'[d] = call[d]
    <3>1. TypeOK'
      BY <1>1, <2>3 DEF IInv, session, TypeOK, CallRecords
    <3>2. CallsAreSound'
      BY <2>3 DEF CallsAreSound, Sound
    <3>3. ChecksAreCurrent'
      BY <1>1, <2>3 DEF IInv, ChecksAreCurrent, Current
    <3> QED
      BY <1>1, <1>3, <2>3, <3>1, <3>2, <3>3
         DEF IInv, session, JwtOfHost, NobodyElse, UserOfHost
  <2> QED
    BY <1>1, <1>3, <2>1, <2>2, <2>3, ValidateCases
<1> QED
  BY <1>2, <1>3 DEF Click

\* Steps that leave the calls alone keep what is said of them.
LEMMA SameCalls ==
  ASSUME IInv, UNCHANGED <<host, sync, call>>
  PROVE  /\ call' \in [Calls -> CallRecords] /\ CallsAreSound' /\ ChecksAreCurrent'
         /\ Restoring' <=> Restoring
BY TypeParts DEF IInv, CallsAreSound, ChecksAreCurrent, Restoring, Sound, Current

\* And so do steps that leave the session's wallet and user alone.
LEMMA SameSession ==
  ASSUME IInv, TypeOK', UNCHANGED <<host, sync, call, jwt, user, overtaken>>
  PROVE  IInv'
BY SameCalls DEF IInv, JwtOfHost, NobodyElse, UserOfHost

LEMMA TickKeepsIInv ==
  ASSUME IInv, Tick
  PROVE  IInv'
<1>1. UNCHANGED <<host, sync, blocked, named, call, modal, overtaken, bounds>>
  BY DEF Tick
<1>2. CASE /\ jwt = None /\ user' = None /\ UNCHANGED <<jwt, age, loop, cookie>>
  <2>1. TypeOK'
    BY <1>1, <1>2 DEF IInv, bounds, TypeOK
  <2> QED
    BY <1>1, <1>2, <2>1, SameCalls DEF IInv, JwtOfHost, NobodyElse, UserOfHost
<1>3. CASE SignOut /\ UNCHANGED <<loop, cookie>>
  <2>1. UNCHANGED <<cookie, Outside>>
    BY <1>1, <1>3 DEF Outside
  <2> QED
    BY <1>1, <1>3, <2>1, SameCalls, SignedOut, TypeParts DEF IInv
<1>4. ASSUME NEW answer \in Claims \cup {None}, Refresh(answer), loop' = [claims |-> answer],
             UNCHANGED session
      PROVE  IInv'
  <2>1. cookie' \in Claims \cup {None} /\ loop' \in [claims : Claims \cup {None}]
    BY <1>4, RefreshedCookie
  <2>2. TypeOK'
    BY <1>1, <1>4, <2>1 DEF IInv, session, bounds, TypeOK
  <2> QED
    BY <1>1, <1>4, <2>2, SameSession DEF session
<1> QED
  BY <1>2, <1>3, <1>4 DEF Tick

\* What the refresh loop keeps is of the wallet at hand.
LEMMA LoopKeepsIInv ==
  ASSUME IInv, LoopArrives
  PROVE  IInv'
<1>1. /\ loop # None /\ loop' = None
      /\ UNCHANGED <<host, sync, cookie, blocked, named, call, modal, overtaken, bounds>>
  BY DEF LoopArrives
<1>2. CASE SignOut
  <2>1. TypeOK'
    BY <1>1, <1>2 DEF IInv, SignOut, bounds, TypeOK
  <2> QED
    BY <1>1, <1>2, <2>1, SameCalls DEF IInv, SignOut, JwtOfHost, NobodyElse, UserOfHost
<1>3. CASE /\ loop # Nobody /\ ~OfAnotherWallet(loop.claims)
           /\ Save(loop.claims) /\ UNCHANGED user
  <2>1. loop.claims \in Claims
    BY <1>1, <1>3, TypeParts DEF IInv, Nobody
  <2>2. TypeOK'
    BY <1>1, <1>3, <2>1 DEF IInv, Save, bounds, TypeOK
  <2>3. JwtOfHost'
    BY <1>1, <1>3 DEF Save, OfAnotherWallet, JwtOfHost
  <2> QED
    BY <1>1, <1>3, <2>2, <2>3, SameCalls DEF IInv, NobodyElse, UserOfHost
<1> QED
  BY <1>2, <1>3 DEF LoopArrives

LEMMA NameArrivesKeepsIInv ==
  ASSUME IInv, NameArrives
  PROVE  IInv'
<1>1. /\ modal \in Wallet /\ user' = [account |-> modal, named |-> TRUE]
      /\ overtaken' = (overtaken \/ modal # host)
      /\ UNCHANGED <<host, sync, jwt, call>>
  BY TypeParts DEF IInv, NameArrives
<1>2. overtaken' \in BOOLEAN
  BY <1>1, TypeParts DEF IInv
<1>3. TypeOK'
  BY <1>1, <1>2 DEF IInv, NameArrives, bounds, TypeOK
<1>4. ~overtaken' => ~overtaken /\ modal = host
  BY <1>1, TypeParts DEF IInv
<1>5. JwtOfHost' /\ NobodyElse' /\ UserOfHost'
  BY <1>1, <1>4, SessionAssumption DEF IInv, JwtOfHost, NobodyElse, UserOfHost
<1> QED
  BY <1>1, <1>3, <1>5, SameCalls DEF IInv

\* A name that is saved, time, administrators and other tabs.
LEMMA ElsewhereKeepsIInv ==
  ASSUME IInv,
         PutName \/ GrowOld \/ (\E w \in Wallet : Block(w))
           \/ (\E claims \in Claims \cup {None} : OtherTab(claims))
  PROVE  IInv'
<1>1. UNCHANGED <<host, sync, call, jwt, user, overtaken>>
  BY DEF PutName, GrowOld, Block, OtherTab, session
<1>2. CASE PutName
  <2>1. Caller \in Wallet
    BY <1>2, TypeParts DEF IInv, PutName, Caller, LoadUser, Claims
  <2> QED
    BY <1>1, <1>2, <2>1, SameSession DEF IInv, PutName, session, bounds, TypeOK
<1>3. CASE GrowOld
  <2>1. TypeOK'
    BY <1>3 DEF IInv, GrowOld, bounds, TypeOK
  <2> QED
    BY <1>1, <2>1, SameSession
<1>4. CASE \E w \in Wallet : Block(w)
  <2>1. TypeOK'
    BY <1>4 DEF IInv, Block, session, bounds, TypeOK
  <2> QED
    BY <1>1, <2>1, SameSession
<1>5. CASE \E claims \in Claims \cup {None} : OtherTab(claims)
  <2>1. outside' \in 0..MaxOutside
    BY <1>5, SessionAssumption, TypeParts DEF IInv, OtherTab
  <2>2. TypeOK'
    BY <1>5, <2>1 DEF IInv, OtherTab, session, TypeOK
  <2> QED
    BY <1>1, <2>2, SameSession
<1> QED
  BY <1>2, <1>3, <1>4, <1>5

LEMMA NextIInv == IInv /\ [Next]_vars => IInv'
<1> SUFFICES ASSUME IInv, [Next]_vars PROVE IInv'
  OBVIOUS
<1>1. ASSUME NEW c \in Calls, Arrive(c) PROVE IInv'
  <2>1. UNCHANGED Outside
    BY <1>1 DEF Arrive, Outside
  <2> QED
    BY <1>1, <2>1, MeKeepsIInv, RefreshKeepsIInv, AgainKeepsIInv, PostKeepsIInv DEF Arrive
<1>2. CASE UNCHANGED vars
  <2>1. TypeOK'
    BY <1>2 DEF IInv, vars, session, bounds, TypeOK
  <2> QED
    BY <1>2, <2>1, SameSession DEF vars, session
<1> QED
  BY <1>1, <1>2, MoveKeepsIInv, SyncKeepsIInv, TickKeepsIInv, LoopKeepsIInv,
     NameArrivesKeepsIInv, SignKeepsIInv, ClickKeepsIInv, ElsewhereKeepsIInv DEF Next

\* Every reachable state satisfies the invariant: a check that is not stale is one
\* of the present wallet, and so are the token and the user it leaves.
THEOREM Inductive == Spec => []IInv
BY InitIInv, NextIInv, PTL DEF Spec

\* All variables have their types.
THEOREM TypeCorrect == Spec => []TypeOK
<1>1. IInv => TypeOK
  BY DEF IInv
<1> QED
  BY <1>1, Inductive, PTL

\* Once the page has followed a change of wallet and checked its session, it shows
\* nobody or the account of that wallet and sends no other wallet's token, unless
\* a step begun under another wallet overtook it (updateUser, pdfApi.ts).
THEOREM SignedInAsWalletHolds == Spec => []SignedInAsWallet
<1>1. IInv => SignedInAsWallet
  BY DEF IInv, SignedInAsWallet, JwtOfHost, UserOfHost
<1> QED
  BY <1>1, Inductive, PTL
=============================================================================
