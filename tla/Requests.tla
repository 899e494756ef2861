------------------------------ MODULE Requests ------------------------------
(***************************************************************************)
(* RequesterImpl: requests with retries, backoff, a timeout that budgets   *)
(* the whole request, and an abort by the caller; with the metrics of the  *)
(* service that the requests share (NetworkMetricsControllerImpl).         *)
(*                                                                         *)
(* Time is counted in ticks and timers are punctual: a tick waits for the  *)
(* timers that are due.  Promise reactions run to their end within the     *)
(* action whose event starts them, but for the reaction to a sleep of no   *)
(* time: callers may begin and abort requests before it.  The server may   *)
(* answer, fail or stay silent.                                            *)
(***************************************************************************)
EXTENDS Integers, FiniteSets

CONSTANTS
    Requests,     \* the calls of request
    Retries,      \* retryOptions.retries
    Cutoff,       \* retryOptions.retryFailureCutoff
    Timeout,      \* options.timeout
    MaxBackoff,   \* the maxTime of both backoffs
    Jitter,       \* the largest retryAfterJitter
    RetryAfters,  \* delays in retry-after headers, 0 for no header
    Platforms,    \* how the browser aborts a fetch, see below
    MaxTime       \* bound on the clock

(* "modern": the fetch rejects with the reason of its signal; "noReason":  *)
(* it rejects with an AbortError; "none": there is no AbortController and  *)
(* the fetch has no signal.                                                *)
ASSUME RequestsAssumption ==
    /\ Retries \in Nat /\ Cutoff \in Nat /\ Jitter \in Nat /\ MaxTime \in Nat \ {0}
    /\ Timeout \in Nat /\ MaxBackoff \in 0..(Timeout - 1)
    /\ RetryAfters \subseteq Nat
    /\ Platforms \subseteq {"modern", "noReason", "none"}

VARIABLES
    now,      \* Date.now()
    req,      \* the state of each call of request
    service,  \* the ServiceMetrics of the one service
    platform

requestVars == <<now, req, service, platform>>

-----------------------------------------------------------------------------

(* "ready": the sleep is over, and the reaction that calls fetch is to run. *)
Phases == {"free", "sleep", "ready", "fetch", "body", "settled"}

Outcomes == {"none", "ok", "response", "network", "abort", "internal"}

Free ==
    [phase |-> "free", tries |-> 0, lastTry |-> FALSE, wakeAt |-> 0,
     startedAt |-> 0, timer |-> FALSE, signal |-> "none", aborted |-> FALSE, status |-> "none",
     retryAfter |-> 0, metered |-> FALSE, readErrorBody |-> FALSE,
     outcome |-> "none"]

RequestsInit ==
    /\ now = 1
    /\ req = [r \in Requests |-> Free]
    /\ service = [consecutive |-> 0, retryAfter |-> 0]
    /\ platform \in Platforms

live(q) == q.phase \notin {"free", "settled"}

MicrotaskPending == \E r \in Requests : req[r].phase = "ready"

due(q) == q.startedAt + Timeout

(* Only a request with a serviceId sees, and updates, its service.         *)
failedCount(q, s) == IF q.metered THEN s.consecutive ELSE 0

retryAfterOf(q, s) == IF q.metered THEN s.retryAfter ELSE 0

(* The finally and the end of request: of the state of the call only what  *)
(* it was told and what it tells is left.                                  *)
settle(q, outcome) ==
    [Free EXCEPT !.phase = "settled", !.outcome = outcome, !.aborted = q.aborted]

(* abort() of the TimeoutController: the first reason stays.               *)
aborts(q, reason) == [q EXCEPT !.signal = IF @ = "none" THEN reason ELSE @]

(* Mutant: every rejection of an attempt that has a signal is an abort.    *)
MutBySignal(q) == settle(q, IF q.signal # "none" THEN "abort" ELSE "internal")

(* The catch of an attempt that rejects.                                   *)
rejects(q) == settle(q, IF q.aborted THEN "abort" ELSE "internal")

(* The exponential backoff, drawn from the upper half of its time.         *)
backoffTimes(failed, first) ==
    LET full == IF failed = 0 THEN 0
                ELSE LET time == (IF first THEN 1 ELSE 2) * 2 ^ (failed - 1)
                     IN  IF time < MaxBackoff THEN time ELSE MaxBackoff
    IN  ((full + 1) \div 2)..full

waits(q, s) ==
    IF retryAfterOf(q, s) # 0
    THEN {retryAfterOf(q, s) - now + jitter : jitter \in 0..Jitter}
    ELSE backoffTimes(failedCount(q, s), q.tries = 1)

(* Mutant: the sleep does not look at the abort of the request.            *)
MutDeafSleep(q, time) ==
    CASE now + time >= due(q) + 1 -> rejects(aborts(q, "timeout"))
      [] now + time < due(q) + 1 /\ time <= 0 -> [q EXCEPT !.phase = "ready"]
      [] OTHER -> [q EXCEPT !.phase = "sleep", !.wakeAt = now + time]

(* TimeoutController.sleep.  A sleep of no time resolves at once.          *)
sleep(q, time) ==
    CASE now + time >= due(q) -> rejects(aborts(q, "timeout"))
      [] now + time < due(q) /\ q.signal # "none" -> rejects(q)
      [] now + time < due(q) /\ q.signal = "none" /\ time <= 0 ->
            [q EXCEPT !.phase = "ready"]
      [] OTHER -> [q EXCEPT !.phase = "sleep", !.wakeAt = now + time]

(* The states in which the next attempt of a request may begin.            *)
nextAttempts(q, s) ==
    LET tries == q.tries + 1
        begun == [q EXCEPT
            !.tries = tries, !.status = "none", !.retryAfter = 0, !.wakeAt = 0,
            !.lastTry = \/ tries = Retries + 1
                        \/ failedCount(q, s) + 1 >= Cutoff]
    IN  {sleep(begun, time) : time \in waits(begun, s)}

(* updateServiceMetrics: only answers of the server are counted.  The      *)
(* count is capped at the Cutoff, beyond which it makes no difference but  *)
(* to the backoff, which has its own cap.                                  *)
metricsAfter(q, s, type) ==
    CASE ~q.metered \/ type \notin {"ok", "response"} -> s
      [] q.metered /\ type = "ok" -> [s EXCEPT !.consecutive = 0]
      [] OTHER ->
            [consecutive |-> IF s.consecutive < Cutoff THEN s.consecutive + 1 ELSE Cutoff,
             retryAfter |-> IF q.retryAfter = 0 \/ now + q.retryAfter < s.retryAfter
                            THEN s.retryAfter ELSE now + q.retryAfter]

willRetry(q, type) ==
    /\ ~q.lastTry
    /\ type = "network" \/ (type = "response" /\ q.status = "retryable")

(* Mutant: the timeout is disposed after an attempt.                       *)
MutDisposesEarly(r, q, type) ==
    /\ service' = metricsAfter(q, service, type)
    /\ \E next \in IF willRetry(q, type)
                   THEN nextAttempts([q EXCEPT !.timer = FALSE], service')
                   ELSE {settle(q, type)} :
          req' = [req EXCEPT ![r] = next]

(* An attempt is over: its metrics, then the next attempt or the end.      *)
AttemptEnds(r, q, type) ==
    /\ service' = metricsAfter(q, service, type)
    /\ \E next \in IF willRetry(q, type) THEN nextAttempts(q, service')
                   ELSE {settle(q, type)} :
          req' = [req EXCEPT ![r] = next]

(* A request that is to begin, by a caller that may have aborted already.  *)
begun(metered, readErrorBody, aborted) ==
    LET q == [Free EXCEPT !.startedAt = now, !.timer = TRUE, !.metered = metered,
                          !.readErrorBody = readErrorBody, !.aborted = aborted]
    IN  IF aborted THEN aborts(q, "caller") ELSE q

(* What an abort by the caller does at once, within the event.  It reaches *)
(* the fetch through withAbort, the body of an error through the signal; a *)
(* sleep that has resolved stays resolved.                                 *)
callerAborts(q) ==
    LET q2 == [aborts(q, "caller") EXCEPT !.aborted = TRUE]
    IN  IF q.phase \in {"sleep", "fetch"} THEN rejects(q2) ELSE q2

-----------------------------------------------------------------------------
(* Actions                                                                 *)

Begin(r, metered, readErrorBody, aborted) ==
    /\ req[r].phase = "free"
    /\ \E q \in nextAttempts(begun(metered, readErrorBody, aborted), service) :
          req' = [req EXCEPT ![r] = q]
    /\ UNCHANGED <<now, service, platform>>

CallerAborts(r) ==
    /\ live(req[r]) /\ ~req[r].aborted
    /\ LET q == callerAborts(req[r])
       IN  IF q.phase = "body" /\ platform # "none"
           THEN AttemptEnds(r, q, "response")
           ELSE req' = [req EXCEPT ![r] = q] /\ UNCHANGED service
    /\ UNCHANGED <<now, platform>>

(* The timer of the TimeoutController.                                     *)
TimeoutFires(r) ==
    /\ ~MicrotaskPending
    /\ live(req[r]) /\ req[r].timer /\ due(req[r]) <= now /\ req[r].signal = "none"
    /\ LET q == aborts(req[r], "timeout")
       IN  CASE platform = "none" -> req' = [req EXCEPT ![r] = q] /\ UNCHANGED service
             [] platform # "none" /\ q.phase = "body" -> AttemptEnds(r, q, "response")
             [] platform = "noReason" /\ q.phase = "fetch" -> AttemptEnds(r, q, "abort")
             [] OTHER -> AttemptEnds(r, q, "network")
    /\ UNCHANGED <<now, platform>>

(* The reaction to a sleep of no time does not look at the abort again: it *)
(* calls fetch, and withAbort rejects for a caller that has aborted since. *)
Fetches(r) ==
    /\ req[r].phase = "ready"
    /\ req' = [req EXCEPT ![r] = IF @.aborted THEN rejects(@) ELSE [@ EXCEPT !.phase = "fetch"]]
    /\ UNCHANGED <<now, service, platform>>

Wakes(r) ==
    /\ ~MicrotaskPending
    /\ req[r].phase = "sleep" /\ req[r].wakeAt <= now
    /\ req' = [req EXCEPT ![r].phase = "fetch", ![r].wakeAt = 0]
    /\ UNCHANGED <<now, service, platform>>

AnswersOk(r) ==
    /\ ~MicrotaskPending /\ req[r].phase = "fetch"
    /\ AttemptEnds(r, req[r], "ok")
    /\ UNCHANGED <<now, platform>>

AnswersError(r) ==
    /\ ~MicrotaskPending /\ req[r].phase = "fetch"
    /\ \E status \in {"retryable", "fatal"}, retryAfter \in RetryAfters :
          LET q == [req[r] EXCEPT !.status = status, !.retryAfter = retryAfter]
          IN  IF q.readErrorBody
              THEN /\ req' = [req EXCEPT ![r] = [q EXCEPT !.phase = "body"]]
                   /\ UNCHANGED service
              ELSE AttemptEnds(r, q, "response")
    /\ UNCHANGED <<now, platform>>

ErrorBodyRead(r) ==
    /\ ~MicrotaskPending /\ req[r].phase = "body"
    /\ AttemptEnds(r, req[r], "response")
    /\ UNCHANGED <<now, platform>>

FetchFails(r) ==
    /\ ~MicrotaskPending /\ req[r].phase = "fetch"
    /\ AttemptEnds(r, req[r], "network")
    /\ UNCHANGED <<now, platform>>

Tick ==
    /\ ~MicrotaskPending /\ now < MaxTime
    /\ \A r \in Requests : live(req[r]) =>
          /\ req[r].phase = "sleep" => now < req[r].wakeAt
          /\ req[r].timer /\ req[r].signal = "none" => now < due(req[r])
    /\ now' = now + 1
    /\ UNCHANGED <<req, service, platform>>

(* The steps of a request that is under way.                               *)
RequestStep(r) ==
    \/ Fetches(r) \/ TimeoutFires(r) \/ Wakes(r) \/ AnswersOk(r) \/ AnswersError(r)
    \/ ErrorBodyRead(r) \/ FetchFails(r)

-----------------------------------------------------------------------------
(* Properties                                                              *)

RequestsTypeOK ==
    /\ now \in 1..MaxTime /\ platform \in Platforms
    /\ service.consecutive \in 0..Cutoff /\ service.retryAfter \in Nat
    /\ \A r \in Requests :
          /\ req[r].phase \in Phases /\ req[r].outcome \in Outcomes
          /\ req[r].tries \in 0..(Retries + 1)
          /\ req[r].signal \in {"none", "timeout", "caller"}
          /\ req[r].phase = "settled" <=> req[r].outcome # "none"

(* A request settles within its timeout, whatever attempts, sleeps and     *)
(* silences of the server it is made of: the timeout budgets the request   *)
(* and reaches the fetch of a retry (RequesterImpl.ts:300).  Where the     *)
(* browser has no AbortController nothing ends a fetch that stays silent.  *)
SettlesInTime ==
    platform # "none" =>
        \A r \in Requests : live(req[r]) => now <= due(req[r])

(* A request that was aborted or has timed out sleeps and waits for a fetch *)
(* no more: it goes on to no attempt, be it aborted before its first one,  *)
(* during a backoff or between two attempts.  An abort between a sleep of  *)
(* no time and the fetch comes too late to keep the code from calling      *)
(* fetch (RequesterImpl.ts:385-394), but the request ends with that call.  *)
AbortEndsAttempts ==
    [][\A r \in Requests : req'[r].phase # req[r].phase =>
          /\ req'[r].phase \in {"ready", "sleep", "fetch"} =>
                req[r].signal = "none" /\ ~req'[r].aborted
          /\ req[r].phase = "ready" /\ req[r].aborted => req'[r].outcome = "abort"]_requestVars

(* A failure is reported as an abort, which is silent, exactly when the    *)
(* caller has aborted, unless the server had answered with an error: a     *)
(* timeout is never silent.  Browsers without abort reasons do not tell    *)
(* the two apart.                                                          *)
OnlyAbortsAreSilent ==
    \A r \in Requests : req[r].phase = "settled" =>
        /\ req[r].outcome = "abort" => req[r].aborted \/ platform = "noReason"
        /\ req[r].aborted => req[r].outcome \in {"abort", "response"}

=============================================================================
