---------------------------- MODULE ProviderHttp ----------------------------
(***************************************************************************)
(* BlockfrostHttp of the Blockfrost provider: calls of text() that share a *)
(* semaphore (Limiter), a token bucket that paces what they send           *)
(* (TokenBucket), and retry with a pause outside the semaphore.            *)
(*                                                                         *)
(* JavaScript runs one piece of code up to its next await; a step is such  *)
(* a piece.  Time is counted in ticks: the bucket gains a token in Token   *)
(* ticks.  It refills lazily in the code and with the clock here, which is *)
(* the same, as nothing else moves the time of its last refill.            *)
(***************************************************************************)
EXTENDS Integers, Sequences, FiniteSets

CONSTANTS Calls,      \* the calls of text(), each made once (bound)
          Limit,      \* maxConcurrency
          MaxRetries, \* maxRetries
          Token,      \* ticks in which the bucket gains a token
          Full,       \* ticks in which the empty bucket gains its burst
          MaxWait     \* the longest pause before a retry, in ticks

ASSUME HttpAssumption ==
  /\ IsFiniteSet(Calls)
  /\ Limit \in Nat \ {0} /\ MaxRetries \in Nat /\ MaxWait \in Nat
  /\ Token \in Nat \ {0} /\ Full \in Nat /\ Full >= Token

VARIABLES active,  \* Limiter: how many hold a slot,
          waiting, \*   and who waits for one
          at,      \* where each call is
          attempt, \* its attempts before this one
          sleep,   \* ticks until its timer fires
          outcome, \* what its last request came back with
          tokens,  \* the bucket, in ticks
          server   \* the same bucket as the server meters it

semaphore == <<active, waiting>>
httpVars == <<semaphore, at, attempt, sleep, outcome, tokens, server>>

Places == {"idle", "queued", "woken", "pacing", "asking", "back", "pausing", "done", "failed"}
Holding == {"pacing", "asking"}

\* ok, a failure to retry, a 429, a quota spent or a 429 to wait too long for,
\* and any other failure
Outcomes == {"ok", "retry", "limited", "spent", "refused"}

Callers(places) == {c \in Calls : at[c] \in places}
Queued == {waiting[i] : i \in 1..Len(waiting)}

HttpTypeOK ==
  /\ waiting \in Seq(Calls)
  /\ at \in [Calls -> Places]
  /\ attempt \in [Calls -> 0..MaxRetries]
  /\ sleep \in [Calls -> 0..(Token + MaxWait)]
  /\ outcome \in [Calls -> Outcomes]
  /\ tokens \in 0..Full /\ server \in Int

HttpInit ==
  /\ active = 0 /\ waiting = <<>>
  /\ at = [c \in Calls |-> "idle"]
  /\ attempt = [c \in Calls |-> 0] /\ sleep = [c \in Calls |-> 0]
  /\ outcome = [c \in Calls |-> "ok"]
  /\ tokens = Full /\ server = Full

-----------------------------------------------------------------------------
\* Mutant: a token is there as soon as a part of it is.
TakeEarly(c) ==
  IF tokens >= 1
  THEN /\ at' = [at EXCEPT ![c] = "asking"]
       /\ tokens' = IF tokens >= Token THEN tokens - Token ELSE 0
       /\ server' = server - Token
       /\ UNCHANGED sleep
  ELSE /\ at' = [at EXCEPT ![c] = "pacing"]
       /\ sleep' = [sleep EXCEPT ![c] = Token - tokens]
       /\ UNCHANGED <<tokens, server>>

\* take(): with a token the request is sent, without one the call sleeps until
\* there should be one, and looks again.
Take(c) ==
  IF tokens >= Token
  THEN /\ at' = [at EXCEPT ![c] = "asking"]
       /\ tokens' = tokens - Token /\ server' = server - Token
       /\ UNCHANGED sleep
  ELSE /\ at' = [at EXCEPT ![c] = "pacing"]
       /\ sleep' = [sleep EXCEPT ![c] = Token - tokens]
       /\ UNCHANGED <<tokens, server>>

\* run(), up to the first await of the task.
Run(c) ==
  \/ /\ active >= Limit
     /\ waiting' = Append(waiting, c) /\ at' = [at EXCEPT ![c] = "queued"]
     /\ UNCHANGED <<active, sleep, tokens, server>>
  \/ /\ active < Limit
     /\ active' = active + 1 /\ UNCHANGED waiting
     /\ Take(c)

Start(c) == at[c] = "idle" /\ Run(c) /\ UNCHANGED <<attempt, outcome>>

\* A call that was woken does not look at `active` again.
Wake(c) ==
  /\ at[c] = "woken"
  /\ active' = active + 1
  /\ Take(c)
  /\ UNCHANGED <<waiting, attempt, outcome>>

Look(c) ==
  /\ at[c] = "pacing" /\ sleep[c] = 0
  /\ Take(c)
  /\ UNCHANGED <<semaphore, attempt, outcome>>

\* Mutant: the first waiter is woken after the task, so not when it failed.
ReleaseSilent(c) ==
  /\ active' = active - 1
  /\ IF waiting = <<>> \/ outcome'[c] # "ok"
     THEN at' = [at EXCEPT ![c] = "back"] /\ UNCHANGED waiting
     ELSE /\ at' = [at EXCEPT ![c] = "back", ![Head(waiting)] = "woken"]
          /\ waiting' = Tail(waiting)

\* The finally of run(): the slot is free, and the first waiter is woken.
Release(c) ==
  /\ active' = active - 1
  /\ IF waiting = <<>>
     THEN at' = [at EXCEPT ![c] = "back"] /\ UNCHANGED waiting
     ELSE /\ at' = [at EXCEPT ![c] = "back", ![Head(waiting)] = "woken"]
          /\ waiting' = Tail(waiting)

\* once() comes back: an answer, a transport error or a timeout.
Answer(c) ==
  /\ at[c] = "asking"
  /\ \E o \in Outcomes : outcome' = [outcome EXCEPT ![c] = o]
  /\ Release(c)
  /\ UNCHANGED <<attempt, sleep, tokens, server>>

\* drain()
Drain(c) ==
  tokens' = IF outcome[c] \in {"limited", "spent"} THEN 0 ELSE tokens

Retries(c) == outcome[c] \in {"retry", "limited"} /\ attempt[c] < MaxRetries

\* text() goes on with the outcome.
Conclude(c) ==
  /\ at[c] = "back"
  /\ Drain(c)
  /\ \/ /\ outcome[c] = "ok"
        /\ at' = [at EXCEPT ![c] = "done"] /\ UNCHANGED sleep
     \/ /\ outcome[c] # "ok" /\ ~Retries(c)
        /\ at' = [at EXCEPT ![c] = "failed"] /\ UNCHANGED sleep
     \/ /\ Retries(c)
        /\ at' = [at EXCEPT ![c] = "pausing"]
        /\ \E wait \in 0..MaxWait : sleep' = [sleep EXCEPT ![c] = wait]
  /\ UNCHANGED <<semaphore, attempt, outcome, server>>

\* Mutant: a retry does not count.
AgainUncounted(c) ==
  /\ at[c] = "pausing" /\ sleep[c] = 0
  /\ Run(c)
  /\ UNCHANGED <<attempt, outcome>>

Again(c) ==
  /\ at[c] = "pausing" /\ sleep[c] = 0
  /\ attempt' = [attempt EXCEPT ![c] = @ + 1]
  /\ Run(c)
  /\ UNCHANGED outcome

\* The clock.
Refilled(n) == IF n < Full THEN n + 1 ELSE n

Clock ==
  /\ sleep' = [c \in Calls |-> IF sleep[c] > 0 THEN sleep[c] - 1 ELSE 0]
  /\ tokens' = Refilled(tokens) /\ server' = Refilled(server)
  /\ UNCHANGED <<semaphore, at, attempt, outcome>>

CallStep(c) == Start(c) \/ Wake(c) \/ Look(c) \/ Answer(c) \/ Conclude(c) \/ Again(c)

HttpNext == Clock \/ \E c \in Calls : CallStep(c)

\* Promises that are resolved run, timers fire, and a request comes back or
\* times out.  Nobody has to start a call.
HttpFairness == WF_httpVars(Clock) /\ \A c \in Calls : WF_httpVars(at[c] # "idle" /\ CallStep(c))

HttpSpec == HttpInit /\ [][HttpNext]_httpVars /\ HttpFairness

-----------------------------------------------------------------------------
\* The bucket's comment: "a large read must pace itself rather than burn its
\* retries on refusals".  However the calls overlap, a server that meters this
\* client with a bucket of the same rate and burst never finds it empty.
WithinRate == server >= 0

\* Nobody waits for a slot that nobody holds: while a call is queued, enough
\* others hold a slot, or are woken and about to, to wake it in turn.
NoLostWakeup == waiting # <<>> => active + Cardinality(Callers({"woken"})) >= Limit

\* Every slot counted is held, and everyone queued is in the queue once.
Accounted ==
  /\ active = Cardinality(Callers(Holding))
  /\ Queued = Callers({"queued"})
  /\ \A i, j \in 1..Len(waiting) : waiting[i] = waiting[j] => i = j

\* A call pauses only for an attempt it has left.
AttemptsLeft == \A c \in Calls : at[c] = "pausing" => attempt[c] < MaxRetries

\* The bucket never holds more than the server's.
BucketBelowServer == tokens <= server /\ server <= Full

HttpIInv == HttpTypeOK /\ Accounted /\ NoLostWakeup /\ AttemptsLeft /\ BucketBelowServer

\* Every call ends, whatever is refused, paced, retried and woken meanwhile.
CallsEnd == \A c \in Calls : at[c] # "idle" ~> at[c] \in {"done", "failed"}
=============================================================================
