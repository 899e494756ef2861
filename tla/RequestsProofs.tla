---------------------------- MODULE RequestsProofs ----------------------------
(* Proofs about Requests and ManifestLoading, for any number of requests and   *)
(* loads, any retries, cutoff, timeout, backoff and jitter, any headers and    *)
(* any of the ways in which a browser aborts a fetch.                          *)
EXTENDS ManifestLoading, FiniteSetTheorems, TLAPS

Signals == {"none", "timeout", "caller"}

Calls ==
    [phase : Phases, tries : 0..(Retries + 1), lastTry : BOOLEAN, wakeAt : Int,
     startedAt : Nat, timer : BOOLEAN, signal : Signals, aborted : BOOLEAN,
     status : {"none", "retryable", "fatal"}, retryAfter : Nat, metered : BOOLEAN,
     readErrorBody : BOOLEAN, outcome : Outcomes]

(* A request that is under way, at time t on platform p.  Its caller may have  *)
(* aborted it only before the reaction that calls fetch.  Where the browser    *)
(* can abort, its timer runs, and nothing else has aborted it; where it        *)
(* cannot, an abort during the body of an error is known to the next attempt.  *)
UnderWay(q, t, p) ==
    /\ q.aborted => q.signal # "none" /\ q.phase \in {"body", "ready"}
    /\ q.phase = "ready" /\ ~q.aborted => q.signal = "none"
    /\ p # "none" => q.timer /\ t <= due(q) /\ (q.signal = "none" \/ q.phase = "ready")
    /\ q.tries = Retries + 1 => q.lastTry
    /\ q.phase = "sleep" => q.signal = "none" /\ t <= q.wakeAt /\ q.wakeAt < due(q)
    /\ q.phase = "body" => q.readErrorBody

CallSound(q, t, p) ==
    /\ q \in Calls
    /\ q.phase = "settled" <=> q.outcome # "none"
    /\ q.phase = "free" => q = Free
    /\ live(q) => UnderWay(q, t, p)
    /\ q.phase = "settled" =>
          /\ ~q.readErrorBody /\ q.signal = "none"
          /\ q.outcome = "abort" => q.aborted \/ p = "noReason"
          /\ q.aborted => q.outcome \in {"abort", "response"}

ServiceSound(s) ==
    /\ s \in [consecutive : 0..Cutoff, retryAfter : Nat]

(* The inductive invariant of the requester.                                   *)
RequestsInv ==
    /\ now \in 1..MaxTime /\ platform \in Platforms
    /\ ServiceSound(service)
    /\ req \in [Requests -> Calls]
    /\ \A r \in Requests : CallSound(req[r], now, platform)

------------------------------------------------------------------------------
(* What an attempt needs to begin: tries left, and a running timer if the      *)
(* browser can abort at all.                                                   *)
MayRetry(q) ==
    /\ q \in Calls /\ q.tries <= Retries /\ q.outcome = "none"
    /\ q.aborted => q.signal # "none"
    /\ platform # "none" => q.timer /\ now <= due(q)

(* How a request goes on: it sleeps or is to fetch, unless it was aborted, or  *)
(* it is settled.                                                              *)
GoesOn(q, n) ==
    /\ CallSound(n, now, platform)
    /\ n.phase \in {"sleep", "ready", "settled"}
    /\ n.phase # "settled" =>
          q.signal = "none" /\ ~n.aborted /\ n.readErrorBody = q.readErrorBody
    /\ n.aborted = q.aborted

(* The record of a call stays one when a field is assigned.                    *)
LEMMA CallsUpdated ==
    ASSUME NEW q \in Calls
    PROVE  /\ \A v \in Phases : [q EXCEPT !.phase = v] \in Calls
           /\ \A v \in 0..(Retries + 1) : [q EXCEPT !.tries = v] \in Calls
           /\ \A v \in BOOLEAN : [q EXCEPT !.lastTry = v] \in Calls
           /\ \A v \in Int : [q EXCEPT !.wakeAt = v] \in Calls
           /\ \A v \in Nat : [q EXCEPT !.startedAt = v] \in Calls
           /\ \A v \in BOOLEAN : [q EXCEPT !.timer = v] \in Calls
           /\ \A v \in Signals : [q EXCEPT !.signal = v] \in Calls
           /\ \A v \in BOOLEAN : [q EXCEPT !.aborted = v] \in Calls
           /\ \A v \in {"none", "retryable", "fatal"} : [q EXCEPT !.status = v] \in Calls
           /\ \A v \in Nat : [q EXCEPT !.retryAfter = v] \in Calls
           /\ \A v \in BOOLEAN : [q EXCEPT !.metered = v] \in Calls
           /\ \A v \in BOOLEAN : [q EXCEPT !.readErrorBody = v] \in Calls
           /\ \A v \in Outcomes : [q EXCEPT !.outcome = v] \in Calls
<1>1. \A v \in Phases : [q EXCEPT !.phase = v] \in Calls
  BY DEF Calls
<1>2. \A v \in 0..(Retries + 1) : [q EXCEPT !.tries = v] \in Calls
  BY DEF Calls
<1>3. \A v \in BOOLEAN : [q EXCEPT !.lastTry = v] \in Calls
  BY DEF Calls
<1>4. \A v \in Int : [q EXCEPT !.wakeAt = v] \in Calls
  BY DEF Calls
<1>5. \A v \in Nat : [q EXCEPT !.startedAt = v] \in Calls
  BY DEF Calls
<1>6. \A v \in BOOLEAN : [q EXCEPT !.timer = v] \in Calls
  BY DEF Calls
<1>7. \A v \in Signals : [q EXCEPT !.signal = v] \in Calls
  BY DEF Calls
<1>8. \A v \in BOOLEAN : [q EXCEPT !.aborted = v] \in Calls
  BY DEF Calls
<1>9. \A v \in {"none", "retryable", "fatal"} : [q EXCEPT !.status = v] \in Calls
  BY DEF Calls
<1>10. \A v \in Nat : [q EXCEPT !.retryAfter = v] \in Calls
  BY DEF Calls
<1>11. \A v \in BOOLEAN : [q EXCEPT !.metered = v] \in Calls
  BY DEF Calls
<1>12. \A v \in BOOLEAN : [q EXCEPT !.readErrorBody = v] \in Calls
  BY DEF Calls
<1>13. \A v \in Outcomes : [q EXCEPT !.outcome = v] \in Calls
  BY DEF Calls
<1>14. QED
  BY <1>1, <1>2, <1>3, <1>4, <1>5, <1>6, <1>7, <1>8, <1>9, <1>10, <1>11, <1>12, <1>13

(* The flag of the last attempt is the value it is assigned.                   *)
LEMMA LastTryAssigned ==
    ASSUME NEW q \in Calls, NEW v \in BOOLEAN
    PROVE  [q EXCEPT !.lastTry = v].lastTry = v
BY DEF Calls

(* A call that has not begun is sound.                                         *)
LEMMA FreeSound ==
    ASSUME RequestsAssumption, NEW t, NEW p
    PROVE  CallSound(Free, t, p)
BY DEF Free, CallSound, Calls, Phases, Outcomes, Signals, live, RequestsAssumption

(* A settled call is sound if it is silent only after an abort.                *)
LEMMA SettleSound ==
    ASSUME RequestsAssumption, NEW q \in Calls, NEW outcome \in Outcomes \ {"none"},
           outcome = "abort" => q.aborted \/ platform = "noReason",
           q.aborted => outcome \in {"abort", "response"}
    PROVE  /\ CallSound(settle(q, outcome), now, platform)
           /\ settle(q, outcome).phase = "settled"
           /\ settle(q, outcome).aborted = q.aborted
<1> DEFINE n == settle(q, outcome)
<1>1. n \in Calls
  <2>1. Free \in Calls
    BY FreeSound DEF CallSound
  <2>2. [Free EXCEPT !.phase = "settled"] \in Calls
    BY <2>1, CallsUpdated DEF Phases
  <2>3. [Free EXCEPT !.phase = "settled", !.outcome = outcome] \in Calls
    BY <2>2, CallsUpdated
  <2>4. q.aborted \in BOOLEAN
    BY DEF Calls
  <2>5. QED
    BY <2>3, <2>4, CallsUpdated DEF settle
<1>2. n.phase = "settled" /\ n.outcome = outcome /\ n.aborted = q.aborted /\ ~n.readErrorBody
      /\ n.signal = "none"
  BY DEF settle, Free
<1> HIDE DEF n
<1>3. QED
  BY <1>1, <1>2 DEF n, CallSound, live

(* A rejected attempt settles the request, as an abort if the caller aborted.  *)
LEMMA RejectsSound ==
    ASSUME RequestsAssumption, NEW q \in Calls
    PROVE  /\ CallSound(rejects(q), now, platform)
           /\ rejects(q).phase = "settled" /\ rejects(q).aborted = q.aborted
<1>1. CASE q.aborted
  BY <1>1, SettleSound DEF rejects, Outcomes
<1>2. CASE ~q.aborted
  BY <1>2, SettleSound DEF rejects, Outcomes
<1>3. QED
  BY <1>1, <1>2

(* The sleep before an attempt ends before the request is due.                 *)
LEMMA SleepSound ==
    ASSUME RequestsAssumption, NEW q, NEW time \in Int, now \in Nat,
           q \in Calls, q.outcome = "none", q.tries = Retries + 1 => q.lastTry,
           q.aborted => q.signal # "none",
           platform # "none" => q.timer /\ now <= due(q)
    PROVE  GoesOn(q, sleep(q, time))
<1>1. CASE now + time >= due(q)
  <2>1. sleep(q, time) = rejects(aborts(q, "timeout"))
    BY <1>1 DEF sleep, due, Calls, RequestsAssumption
  <2>2. aborts(q, "timeout") \in Calls /\ aborts(q, "timeout").aborted = q.aborted
    BY DEF aborts, Calls, Signals
  <2>3. QED
    BY <2>1, <2>2, RejectsSound DEF GoesOn
<1>2. CASE now + time < due(q) /\ q.signal # "none"
  <2>1. sleep(q, time) = rejects(q)
    BY <1>2 DEF sleep, due, Calls, RequestsAssumption
  <2>2. QED
    BY <2>1, RejectsSound DEF GoesOn
<1>3. CASE now + time < due(q) /\ q.signal = "none" /\ time <= 0
  <2>1. sleep(q, time) = [q EXCEPT !.phase = "ready"]
    BY <1>3 DEF sleep, due, Calls, RequestsAssumption
  <2>2. QED
    BY <1>3, <2>1 DEF GoesOn, CallSound, UnderWay, Calls, Phases, live, due
<1>4. CASE now + time < due(q) /\ q.signal = "none" /\ ~(time <= 0)
  <2>1. sleep(q, time) = [q EXCEPT !.phase = "sleep", !.wakeAt = now + time]
    BY <1>4 DEF sleep, due, Calls, RequestsAssumption
  <2> DEFINE n == [q EXCEPT !.phase = "sleep", !.wakeAt = now + time]
  <2>2. n \in Calls
    <3>1. [q EXCEPT !.phase = "sleep"] \in Calls
      BY CallsUpdated DEF Phases
    <3>2. now + time \in Int
      OBVIOUS
    <3>3. QED
      BY <3>1, <3>2, CallsUpdated
  <2>3. /\ n.phase = "sleep" /\ n.wakeAt = now + time /\ n.aborted = q.aborted
        /\ n.signal = q.signal /\ n.timer = q.timer /\ n.startedAt = q.startedAt
        /\ n.tries = q.tries /\ n.lastTry = q.lastTry /\ n.outcome = q.outcome
        /\ n.readErrorBody = q.readErrorBody
    BY DEF Calls
  <2> HIDE DEF n
  <2>4. UnderWay(n, now, platform)
    BY <1>4, <2>3 DEF UnderWay, due, Calls
  <2>5. QED
    BY <1>4, <2>1, <2>2, <2>3, <2>4 DEF n, GoesOn, CallSound
<1>5. QED
  BY <1>1, <1>2, <1>3, <1>4 DEF due, Calls, RequestsAssumption

(* Each next attempt of a request that has tries left goes on.                 *)
LEMMA NextAttemptsSound ==
    ASSUME RequestsAssumption, now \in Nat, NEW s, ServiceSound(s),
           NEW q, MayRetry(q), NEW n \in nextAttempts(q, s)
    PROVE  GoesOn(q, n)
<1> DEFINE tries == q.tries + 1
           last == tries = Retries + 1 \/ failedCount(q, s) + 1 >= Cutoff
           b == [q EXCEPT !.tries = tries, !.status = "none", !.retryAfter = 0,
                          !.wakeAt = 0, !.lastTry = last]
<1>1. PICK time \in waits(b, s) : n = sleep(b, time)
  BY DEF nextAttempts
<1>2. time \in Int
  BY <1>1, Z3 DEF waits, backoffTimes, retryAfterOf, ServiceSound, RequestsAssumption
<1>3. b \in Calls /\ b.outcome = "none" /\ (b.tries = Retries + 1 => b.lastTry)
  <2>1. last \in BOOLEAN /\ (tries = Retries + 1 => last)
    BY DEF failedCount
  <2>2. tries \in 0..(Retries + 1)
    BY DEF MayRetry, Calls, RequestsAssumption
  <2> HIDE DEF last, tries
  <2>3. q \in Calls /\ [q EXCEPT !.tries = tries] \in Calls
    BY <2>2, CallsUpdated DEF MayRetry
  <2>4. [q EXCEPT !.tries = tries, !.status = "none"] \in Calls
    BY <2>3, CallsUpdated
  <2>5. [q EXCEPT !.tries = tries, !.status = "none", !.retryAfter = 0] \in Calls
    BY <2>4, CallsUpdated
  <2> DEFINE c == [q EXCEPT !.tries = tries, !.status = "none", !.retryAfter = 0]
             d == [c EXCEPT !.wakeAt = 0]
  <2>6. d \in Calls
    <3> HIDE DEF c
    <3>1. c \in Calls
      BY <2>5 DEF c
    <3>2. 0 \in Int
      OBVIOUS
    <3>3. \A v \in Int : [c EXCEPT !.wakeAt = v] \in Calls
      BY <3>1, CallsUpdated
    <3>4. QED
      BY <3>2, <3>3, Zenon
  <2>7. b = [d EXCEPT !.lastTry = last]
    OBVIOUS
  <2> HIDE DEF b, d
  <2>8. b \in Calls /\ b.lastTry = last
    BY <2>1, <2>6, <2>7, CallsUpdated, LastTryAssigned
  <2>9. b.outcome = q.outcome /\ b.tries = tries
    BY <2>3 DEF b, Calls
  <2>10. QED
    BY <2>1, <2>8, <2>9 DEF MayRetry
<1>4. /\ b.aborted = q.aborted /\ b.signal = q.signal /\ b.timer = q.timer
      /\ b.startedAt = q.startedAt /\ b.readErrorBody = q.readErrorBody
  BY DEF MayRetry, Calls
<1>5. GoesOn(b, sleep(b, time))
  <2> HIDE DEF b
  <2>1. due(b) = due(q)
    BY <1>4 DEF due
  <2>2. QED
    BY <1>2, <1>3, <1>4, <2>1, SleepSound DEF MayRetry
<1> HIDE DEF b
<1>6. QED
  BY <1>1, <1>4, <1>5 DEF GoesOn

(* A request that gets an abort at once: it settles, unless it is about to     *)
(* fetch, or reads the body of an error on a browser that cannot abort that.   *)
LEMMA CallerAbortsSound ==
    ASSUME RequestsAssumption, NEW q, CallSound(q, now, platform), live(q),
           q.phase # "body" \/ platform = "none"
    PROVE  /\ CallSound(callerAborts(q), now, platform)
           /\ callerAborts(q).phase =
                  IF q.phase \in {"body", "ready"} THEN q.phase ELSE "settled"
           /\ callerAborts(q).phase # "settled" => callerAborts(q).readErrorBody = q.readErrorBody
<1> DEFINE a == aborts(q, "caller")
           b == [a EXCEPT !.aborted = TRUE]
<1>1. q \in Calls
  BY DEF CallSound
<1>2. a \in Calls /\ a.signal # "none"
  <2>1. (IF q.signal = "none" THEN "caller" ELSE q.signal) \in Signals \ {"none"}
    BY <1>1 DEF Calls, Signals
  <2>2. a \in Calls
    BY <1>1, <2>1, CallsUpdated DEF aborts
  <2>3. a.signal # "none"
    BY <1>1, <2>1 DEF aborts, Calls
  <2>4. QED
    BY <2>2, <2>3
<1>3. /\ a.phase = q.phase /\ a.timer = q.timer /\ a.startedAt = q.startedAt /\ a.tries = q.tries
      /\ a.lastTry = q.lastTry /\ a.readErrorBody = q.readErrorBody /\ a.outcome = q.outcome
  BY <1>1 DEF aborts, Calls
<1> HIDE DEF a
<1>4. b \in Calls
  BY <1>2, CallsUpdated
<1>5. /\ b.phase = q.phase /\ b.timer = q.timer /\ b.startedAt = q.startedAt /\ b.tries = q.tries
      /\ b.lastTry = q.lastTry /\ b.readErrorBody = q.readErrorBody /\ b.outcome = q.outcome
      /\ b.aborted = TRUE /\ b.signal # "none"
  BY <1>2, <1>3 DEF Calls
<1>6. callerAborts(q) = IF q.phase \in {"sleep", "fetch"} THEN rejects(b) ELSE b
  BY DEF callerAborts, a
<1> HIDE DEF b
<1>7. CASE q.phase \in {"sleep", "fetch"}
  BY <1>4, <1>6, <1>7, RejectsSound
<1>8. CASE q.phase \in {"body", "ready"}
  <2>1. UnderWay(b, now, platform)
    BY <1>5, <1>8 DEF UnderWay, CallSound, live, due
  <2>2. QED
    BY <1>4, <1>5, <1>6, <1>8, <2>1 DEF CallSound, live
<1>9. QED
  BY <1>1, <1>7, <1>8 DEF live, Calls, Phases

(* Attempts leave the metrics of the service well-typed.                       *)
LEMMA MetricsSound ==
    ASSUME RequestsAssumption, now \in Nat, NEW s, ServiceSound(s), NEW q \in Calls, NEW type
    PROVE  ServiceSound(metricsAfter(q, s, type))
<1>1. CASE ~q.metered \/ type \notin {"ok", "response"}
  BY <1>1 DEF metricsAfter, ServiceSound
<1>2. CASE q.metered /\ type = "ok"
  BY <1>2 DEF metricsAfter, ServiceSound, RequestsAssumption
<1>3. CASE q.metered /\ type = "response"
  <2> DEFINE count == IF s.consecutive < Cutoff THEN s.consecutive + 1 ELSE Cutoff
             after == IF q.retryAfter = 0 \/ now + q.retryAfter < s.retryAfter
                      THEN s.retryAfter ELSE now + q.retryAfter
  <2>1. metricsAfter(q, s, type) = [consecutive |-> count, retryAfter |-> after]
    BY <1>3 DEF metricsAfter
  <2>2. count \in 0..Cutoff /\ after \in Nat
    BY DEF ServiceSound, RequestsAssumption, Calls
  <2>3. QED
    BY <2>1, <2>2 DEF ServiceSound
<1>4. QED
  BY <1>1, <1>2, <1>3

(* The end of an attempt: the request settles or goes on.                      *)
LEMMA AttemptEndsSound ==
    ASSUME RequestsAssumption, now \in Nat, ServiceSound(service),
           NEW r, NEW q \in Calls, NEW type \in {"ok", "response", "network", "abort"},
           q.outcome = "none", q.tries = Retries + 1 => q.lastTry,
           q.aborted => q.signal # "none" /\ type \in {"abort", "response"},
           type = "abort" => q.aborted \/ platform = "noReason",
           platform # "none" => q.timer /\ now <= due(q),
           AttemptEnds(r, q, type)
    PROVE  /\ ServiceSound(service')
           /\ \E n : req' = [req EXCEPT ![r] = n] /\ GoesOn(q, n)
<1>1. ServiceSound(service')
  BY MetricsSound DEF AttemptEnds
<1>2. PICK n \in (IF willRetry(q, type) THEN nextAttempts(q, service') ELSE {settle(q, type)}) :
           req' = [req EXCEPT ![r] = n]
  BY DEF AttemptEnds
<1>3. CASE willRetry(q, type)
  <2>1. q.tries <= Retries
    BY <1>3 DEF willRetry, Calls, RequestsAssumption
  <2>2. MayRetry(q)
    BY <2>1 DEF MayRetry
  <2>3. GoesOn(q, n)
    BY <1>1, <1>2, <1>3, <2>2, NextAttemptsSound
  <2>4. QED
    BY <1>1, <1>2, <2>3
<1>4. CASE ~willRetry(q, type)
  <2>1. n = settle(q, type)
    BY <1>2, <1>4
  <2>2. GoesOn(q, n)
    BY <2>1, SettleSound DEF GoesOn, Outcomes
  <2>3. QED
    BY <1>1, <1>2, <2>2
<1>5. QED
  BY <1>3, <1>4

------------------------------------------------------------------------------
(* The rule of AbortEndsAttempts, of a call that is n after a step.            *)
Heard(q, n) ==
    n.phase # q.phase =>
        /\ n.phase \in {"ready", "sleep", "fetch"} => q.signal = "none" /\ ~n.aborted
        /\ q.phase = "ready" /\ q.aborted => n.outcome = "abort"

(* What an action does to the call r: the call is n after it, and the rule was *)
(* kept.                                                                       *)
Becomes(r, n) ==
    /\ UNCHANGED <<now, platform>>
    /\ ServiceSound(service')
    /\ req' = [req EXCEPT ![r] = n]
    /\ CallSound(n, now, platform) /\ n.phase # "free"
    /\ Heard(req[r], n)

(* Going on from a state of the call that has its signals and flags, or more.  *)
LEMMA GoesOnBecomes ==
    ASSUME RequestsInv, NEW r \in Requests, NEW q, NEW n, GoesOn(q, n),
           q.signal = "none" => req[r].signal = "none", req[r].phase # "ready",
           UNCHANGED <<now, platform>>, ServiceSound(service'), req' = [req EXCEPT ![r] = n]
    PROVE  Becomes(r, n)
<1>1. Heard(req[r], n)
  BY DEF GoesOn, Heard
<1>2. QED
  BY <1>1 DEF GoesOn, Becomes

(* The steps of a request that is under way.  For a load, which reads no body  *)
(* of an error, that stays so.                                                 *)
LEMMA RequestStepSound ==
    ASSUME RequestsAssumption, RequestsInv, NEW r \in Requests, RequestStep(r)
    PROVE  /\ live(req[r])
           /\ \E n : Becomes(r, n) /\ (n.readErrorBody => req[r].readErrorBody)
<1> DEFINE q == req[r]
<1>1. /\ q \in Calls /\ CallSound(q, now, platform) /\ now \in Nat /\ ServiceSound(service)
      /\ q.phase # "settled" => q.outcome = "none"
      /\ live(q) => UnderWay(q, now, platform)
  BY DEF RequestsInv, CallSound
<1>2. ASSUME NEW a \in Calls, NEW type \in {"ok", "response", "network", "abort"}, live(q),
             q.phase # "ready", a.outcome = q.outcome, a.tries = q.tries, a.lastTry = q.lastTry,
             a.timer = q.timer, a.startedAt = q.startedAt, a.readErrorBody = q.readErrorBody,
             a.signal = "none" => q.signal = "none",
             a.aborted => a.signal # "none" /\ type \in {"abort", "response"},
             type = "abort" => a.aborted \/ platform = "noReason",
             AttemptEnds(r, a, type), UNCHANGED <<now, platform>>
      PROVE  \E n : Becomes(r, n) /\ (n.readErrorBody => q.readErrorBody)
  <2>1. due(a) = due(q)
    BY <1>2 DEF due
  <2>2. /\ ServiceSound(service')
        /\ \E n : req' = [req EXCEPT ![r] = n] /\ GoesOn(a, n)
    <3>1. /\ a.outcome = "none" /\ (a.tries = Retries + 1 => a.lastTry)
          /\ platform # "none" => a.timer /\ now <= due(a)
      BY <1>1, <1>2, <2>1 DEF live, UnderWay
    <3>2. QED
      BY <1>1, <1>2, <3>1, AttemptEndsSound
  <2>3. PICK n : req' = [req EXCEPT ![r] = n] /\ GoesOn(a, n)
    BY <2>2
  <2>4. Becomes(r, n)
    BY <1>2, <2>2, <2>3, GoesOnBecomes
  <2>5. n.readErrorBody => q.readErrorBody
    <3>1. CASE n.phase = "settled"
      BY <2>3, <3>1 DEF GoesOn, CallSound
    <3>2. CASE n.phase # "settled"
      BY <1>2, <2>3, <3>2 DEF GoesOn
    <3>3. QED
      BY <3>1, <3>2
  <2>6. QED
    BY <2>4, <2>5
<1>3. CASE TimeoutFires(r)
  <2> DEFINE a == aborts(q, "timeout")
  <2>1. /\ live(q) /\ due(q) <= now /\ q.signal = "none" /\ UNCHANGED <<now, platform>>
        /\ q.phase # "ready"
    BY <1>3 DEF TimeoutFires, MicrotaskPending
  <2>2. /\ ~q.aborted /\ q.phase # "sleep" /\ a = [q EXCEPT !.signal = "timeout"]
    <3>1. ~q.aborted
      BY <1>1, <2>1 DEF UnderWay
    <3>2. q.phase # "sleep"
      BY <1>1, <2>1 DEF UnderWay, Calls, due, RequestsAssumption
    <3>3. a = [q EXCEPT !.signal = "timeout"]
      BY <2>1 DEF aborts
    <3>4. QED
      BY <3>1, <3>2, <3>3
  <2>3. a \in Calls
    BY <1>1, <2>2, CallsUpdated DEF Signals
  <2>4. /\ a.outcome = q.outcome /\ a.tries = q.tries /\ a.lastTry = q.lastTry
        /\ a.timer = q.timer /\ a.startedAt = q.startedAt /\ a.readErrorBody = q.readErrorBody
        /\ a.signal = "timeout" /\ a.aborted = q.aborted /\ a.phase = q.phase
    BY <1>1, <2>2 DEF Calls
  <2>5. CASE platform = "none"
    <3>1. req' = [req EXCEPT ![r] = a] /\ UNCHANGED service
      BY <1>3, <2>5 DEF TimeoutFires
    <3>2. UnderWay(a, now, platform)
      BY <1>1, <2>1, <2>2, <2>4, <2>5 DEF UnderWay
    <3>3. CallSound(a, now, platform)
      BY <1>1, <2>1, <2>3, <2>4, <3>2 DEF CallSound, live
    <3>4. QED
      BY <1>1, <2>1, <2>4, <3>1, <3>3 DEF Becomes, Heard, live
  <2>6. CASE platform # "none"
    <3>1. \/ AttemptEnds(r, a, "response")
          \/ platform = "noReason" /\ AttemptEnds(r, a, "abort")
          \/ AttemptEnds(r, a, "network")
      BY <1>3, <2>6 DEF TimeoutFires
    <3> HIDE DEF a
    <3>2. QED
      BY <1>2, <2>1, <2>2, <2>3, <2>4, <3>1
  <2>7. QED
    BY <2>1, <2>5, <2>6
<1>4. CASE Wakes(r)
  <2> DEFINE n == [q EXCEPT !.phase = "fetch", !.wakeAt = 0]
  <2>1. /\ q.phase = "sleep" /\ UNCHANGED <<now, service, platform>>
        /\ req' = [req EXCEPT ![r] = n]
    BY <1>4 DEF Wakes, RequestsInv
  <2>2. live(q)
    BY <2>1 DEF live
  <2>3. n \in Calls
    <3> DEFINE a == [q EXCEPT !.phase = "fetch"]
    <3>1. a \in Calls
      BY <1>1, CallsUpdated DEF Phases
    <3> HIDE DEF a
    <3>2. \A v \in Int : [a EXCEPT !.wakeAt = v] \in Calls
      BY <3>1, CallsUpdated
    <3>3. 0 \in Int
      OBVIOUS
    <3>4. [a EXCEPT !.wakeAt = 0] \in Calls
      BY <3>2, <3>3, Zenon
    <3>5. QED
      BY <3>4 DEF a
  <2>4. /\ n.phase = "fetch" /\ n.aborted = q.aborted /\ n.signal = q.signal /\ n.timer = q.timer
        /\ n.startedAt = q.startedAt /\ n.tries = q.tries /\ n.lastTry = q.lastTry
        /\ n.outcome = q.outcome /\ n.readErrorBody = q.readErrorBody
    BY <1>1 DEF Calls
  <2> HIDE DEF n
  <2>5. UnderWay(n, now, platform) /\ ~n.aborted /\ q.signal = "none"
    BY <1>1, <2>1, <2>2, <2>4 DEF UnderWay, due, Calls, RequestsAssumption
  <2>6. CallSound(n, now, platform)
    BY <1>1, <2>1, <2>3, <2>4, <2>5 DEF CallSound, live
  <2>7. QED
    BY <1>1, <2>1, <2>2, <2>4, <2>5, <2>6 DEF Becomes, Heard
<1>4a. CASE Fetches(r)
  <2>1. /\ q.phase = "ready" /\ UNCHANGED <<now, service, platform>> /\ live(q)
        /\ req' = [req EXCEPT ![r] = IF q.aborted THEN rejects(q) ELSE [q EXCEPT !.phase = "fetch"]]
    BY <1>4a DEF Fetches, RequestsInv, live
  <2>2. CASE q.aborted
    <3>1. rejects(q).outcome = "abort"
      BY <2>2 DEF rejects, settle, Free
    <3>2. /\ CallSound(rejects(q), now, platform) /\ rejects(q).phase = "settled"
          /\ ~rejects(q).readErrorBody
      BY <1>1, RejectsSound DEF CallSound
    <3>3. QED
      BY <1>1, <2>1, <2>2, <3>1, <3>2 DEF Becomes, Heard
  <2>3. CASE ~q.aborted
    <3> DEFINE n == [q EXCEPT !.phase = "fetch"]
    <3>1. n \in Calls
      BY <1>1, CallsUpdated DEF Phases
    <3>2. /\ n.phase = "fetch" /\ n.aborted = q.aborted /\ n.signal = q.signal /\ n.timer = q.timer
          /\ n.startedAt = q.startedAt /\ n.tries = q.tries /\ n.lastTry = q.lastTry
          /\ n.outcome = q.outcome /\ n.readErrorBody = q.readErrorBody
      BY <1>1 DEF Calls
    <3>3. req' = [req EXCEPT ![r] = n]
      BY <2>1, <2>3
    <3> HIDE DEF n
    <3>4. q.signal = "none" /\ UnderWay(n, now, platform)
      BY <1>1, <2>1, <2>3, <3>2 DEF UnderWay, due
    <3>5. CallSound(n, now, platform)
      BY <1>1, <2>1, <3>1, <3>2, <3>4 DEF CallSound, live
    <3>6. QED
      BY <1>1, <2>1, <2>3, <3>2, <3>3, <3>4, <3>5 DEF Becomes, Heard
  <2>4. QED
    BY <2>2, <2>3
<1>5. CASE AnswersOk(r)
  <2>1. q.phase = "fetch" /\ AttemptEnds(r, q, "ok") /\ UNCHANGED <<now, platform>>
    BY <1>5 DEF AnswersOk
  <2>2. live(q) /\ ~q.aborted
    BY <1>1, <2>1 DEF live, UnderWay
  <2>3. QED
    BY <1>1, <1>2, <2>1, <2>2
<1>6. CASE AnswersError(r)
  <2>1. PICK status \in {"retryable", "fatal"}, retryAfter \in RetryAfters :
             LET a == [q EXCEPT !.status = status, !.retryAfter = retryAfter]
             IN  IF a.readErrorBody
                 THEN /\ req' = [req EXCEPT ![r] = [a EXCEPT !.phase = "body"]]
                      /\ UNCHANGED service
                 ELSE AttemptEnds(r, a, "response")
    BY <1>6 DEF AnswersError
  <2>2. q.phase = "fetch" /\ UNCHANGED <<now, platform>>
    BY <1>6 DEF AnswersError
  <2>3. live(q) /\ ~q.aborted
    BY <1>1, <2>2 DEF live, UnderWay
  <2> DEFINE a == [q EXCEPT !.status = status, !.retryAfter = retryAfter]
             b == [a EXCEPT !.phase = "body"]
  <2>4. a \in Calls
    <3>1. [q EXCEPT !.status = status] \in Calls
      BY <1>1, CallsUpdated
    <3>2. retryAfter \in Nat
      BY DEF RequestsAssumption
    <3>3. QED
      BY <3>1, <3>2, CallsUpdated
  <2>5. /\ a.phase = q.phase /\ a.aborted = q.aborted /\ a.signal = q.signal /\ a.timer = q.timer
        /\ a.startedAt = q.startedAt /\ a.tries = q.tries /\ a.lastTry = q.lastTry
        /\ a.outcome = q.outcome /\ a.readErrorBody = q.readErrorBody
    BY <1>1 DEF Calls
  <2>6. CASE a.readErrorBody
    <3>1. req' = [req EXCEPT ![r] = b] /\ UNCHANGED service
      BY <2>1, <2>6
    <3> HIDE DEF a
    <3>2. b \in Calls
      BY <2>4, CallsUpdated DEF Phases
    <3>3. /\ b.phase = "body" /\ b.aborted = q.aborted /\ b.signal = q.signal /\ b.timer = q.timer
          /\ b.startedAt = q.startedAt /\ b.tries = q.tries /\ b.lastTry = q.lastTry
          /\ b.outcome = q.outcome /\ b.readErrorBody = q.readErrorBody
      BY <2>4, <2>5 DEF Calls
    <3> HIDE DEF b
    <3>4. UnderWay(b, now, platform)
      BY <1>1, <2>2, <2>3, <2>5, <2>6, <3>3 DEF UnderWay, due
    <3>5. CallSound(b, now, platform)
      BY <1>1, <2>2, <3>2, <3>3, <3>4 DEF CallSound, live
    <3>6. QED
      BY <1>1, <2>2, <2>3, <3>1, <3>3, <3>5 DEF Becomes, Heard
  <2>7. CASE ~a.readErrorBody
    <3>1. AttemptEnds(r, a, "response")
      BY <2>1, <2>7
    <3> HIDE DEF a
    <3>2. QED
      BY <1>2, <2>2, <2>3, <2>4, <2>5, <3>1
  <2>8. QED
    BY <2>3, <2>6, <2>7
<1>7. CASE ErrorBodyRead(r)
  <2>1. q.phase = "body" /\ AttemptEnds(r, q, "response") /\ UNCHANGED <<now, platform>>
    BY <1>7 DEF ErrorBodyRead
  <2>2. live(q) /\ (q.aborted => q.signal # "none")
    BY <1>1, <2>1 DEF live, UnderWay
  <2>3. QED
    BY <1>1, <1>2, <2>1, <2>2
<1>8. CASE FetchFails(r)
  <2>1. q.phase = "fetch" /\ AttemptEnds(r, q, "network") /\ UNCHANGED <<now, platform>>
    BY <1>8 DEF FetchFails
  <2>2. live(q) /\ ~q.aborted
    BY <1>1, <2>1 DEF live, UnderWay
  <2>3. QED
    BY <1>1, <1>2, <2>1, <2>2
<1>9. QED
  BY <1>3, <1>4, <1>4a, <1>5, <1>6, <1>7, <1>8 DEF RequestStep

(* The rule of AbortEndsAttempts, of one step.                                 *)
AbortRule == \A r \in Requests : Heard(req[r], req'[r])

(* A step of one call keeps the invariant of the requester.                    *)
LEMMA BecomesInv ==
    ASSUME RequestsInv, NEW r \in Requests, NEW n, Becomes(r, n)
    PROVE  /\ RequestsInv' /\ AbortRule
           /\ req'[r] = n /\ \A s \in Requests \ {r} : req'[s] = req[s]
<1>1. n \in Calls
  BY DEF Becomes, CallSound
<1>2. /\ req' \in [Requests -> Calls] /\ req'[r] = n
      /\ \A s \in Requests \ {r} : req'[s] = req[s]
  BY <1>1 DEF Becomes, RequestsInv
<1>3. \A s \in Requests : CallSound(req'[s], now, platform)
  BY <1>2 DEF Becomes, RequestsInv
<1>4. RequestsInv'
  BY <1>2, <1>3 DEF Becomes, RequestsInv, ServiceSound
<1>5. AbortRule
  BY <1>2 DEF AbortRule, Becomes, Heard
<1>6. QED
  BY <1>2, <1>4, <1>5

(* A request begins with a running timer, and aborted if its caller has        *)
(* aborted already.                                                            *)
LEMMA BegunSound ==
    ASSUME RequestsAssumption, now \in Nat,
           NEW metered \in BOOLEAN, NEW readErrorBody \in BOOLEAN, NEW aborted \in BOOLEAN
    PROVE  /\ MayRetry(begun(metered, readErrorBody, aborted))
           /\ begun(metered, readErrorBody, aborted).readErrorBody = readErrorBody
<1> DEFINE a == [Free EXCEPT !.startedAt = now, !.timer = TRUE]
           b == [a EXCEPT !.metered = metered, !.readErrorBody = readErrorBody]
           q == [b EXCEPT !.aborted = aborted]
           c == [q EXCEPT !.signal = "caller"]
<1>1. a \in Calls
  <2>1. Free \in Calls
    BY FreeSound DEF CallSound
  <2>2. [Free EXCEPT !.startedAt = now] \in Calls
    BY <2>1, CallsUpdated
  <2>3. QED
    BY <2>2, CallsUpdated
<1>2. /\ a.tries = 0 /\ a.outcome = "none" /\ a.timer = TRUE /\ a.startedAt = now
      /\ a.signal = "none"
  BY DEF Free
<1> HIDE DEF a
<1>3. b \in Calls
  <2>1. [a EXCEPT !.metered = metered] \in Calls
    BY <1>1, CallsUpdated
  <2>2. QED
    BY <2>1, CallsUpdated
<1>4. /\ b.tries = 0 /\ b.outcome = "none" /\ b.timer = TRUE /\ b.startedAt = now
      /\ b.signal = "none" /\ b.readErrorBody = readErrorBody
  BY <1>1, <1>2 DEF Calls
<1>5. begun(metered, readErrorBody, aborted) = IF aborted THEN aborts(q, "caller") ELSE q
  BY DEF begun, a
<1> HIDE DEF b
<1>6. q \in Calls
  BY <1>3, CallsUpdated
<1>7. /\ q.tries = 0 /\ q.outcome = "none" /\ q.timer = TRUE /\ q.startedAt = now
      /\ q.signal = "none" /\ q.readErrorBody = readErrorBody /\ q.aborted = aborted
  BY <1>3, <1>4 DEF Calls
<1>8. aborts(q, "caller") = c
  BY <1>7 DEF aborts
<1> HIDE DEF q
<1>9. c \in Calls
  BY <1>6, CallsUpdated DEF Signals
<1>10. /\ c.tries = 0 /\ c.outcome = "none" /\ c.timer = TRUE /\ c.startedAt = now
       /\ c.signal = "caller" /\ c.readErrorBody = readErrorBody /\ c.aborted = aborted
  BY <1>6, <1>7 DEF Calls
<1> HIDE DEF c
<1>11. CASE aborted
  BY <1>5, <1>8, <1>9, <1>10, <1>11 DEF MayRetry, due, RequestsAssumption
<1>12. CASE ~aborted
  BY <1>5, <1>6, <1>7, <1>12 DEF MayRetry, due, RequestsAssumption
<1>13. QED
  BY <1>11, <1>12

(* The first attempt of a request that begins.                                 *)
LEMMA FirstAttemptSound ==
    ASSUME RequestsAssumption, RequestsInv,
           NEW metered \in BOOLEAN, NEW readErrorBody \in BOOLEAN, NEW aborted \in BOOLEAN,
           NEW n \in nextAttempts(begun(metered, readErrorBody, aborted), service)
    PROVE  /\ CallSound(n, now, platform) /\ n.phase \in {"sleep", "ready", "settled"}
           /\ n.phase # "settled" => ~n.aborted
           /\ n.readErrorBody => readErrorBody
<1> DEFINE q == begun(metered, readErrorBody, aborted)
<1>1. MayRetry(q) /\ q.readErrorBody = readErrorBody
  BY BegunSound DEF RequestsInv
<1>2. GoesOn(q, n)
  BY <1>1, NextAttemptsSound DEF RequestsInv
<1> HIDE DEF q
<1>3. QED
  BY <1>1, <1>2 DEF GoesOn, CallSound

(* A request of another caller begins.                                         *)
LEMMA BeginSound ==
    ASSUME RequestsAssumption, RequestsInv, NEW r \in Requests,
           NEW metered \in BOOLEAN, NEW readErrorBody \in BOOLEAN, NEW aborted \in BOOLEAN,
           Begin(r, metered, readErrorBody, aborted)
    PROVE  \E n : Becomes(r, n)
<1>1. PICK n \in nextAttempts(begun(metered, readErrorBody, aborted), service) :
           req' = [req EXCEPT ![r] = n]
  BY DEF Begin
<1>2. req[r].signal = "none" /\ req[r].phase = "free"
  BY DEF Begin, RequestsInv, CallSound, Free
<1>3. QED
  BY <1>1, <1>2, FirstAttemptSound DEF Becomes, Heard, Begin, RequestsInv, ServiceSound

(* The caller aborts a request of its own.                                     *)
LEMMA CallerAbortsStep ==
    ASSUME RequestsAssumption, RequestsInv, NEW r \in Requests, CallerAborts(r)
    PROVE  \E n : Becomes(r, n)
<1> DEFINE q == req[r]
           n == callerAborts(q)
<1>1. /\ q \in Calls /\ CallSound(q, now, platform) /\ now \in Nat /\ ServiceSound(service)
      /\ live(q) /\ UnderWay(q, now, platform) /\ UNCHANGED <<now, platform>> /\ q.outcome = "none"
  BY DEF RequestsInv, CallSound, CallerAborts, live
<1>2. CASE q.phase # "body" \/ platform = "none"
  <2>1. /\ CallSound(n, now, platform)
        /\ n.phase = IF q.phase \in {"body", "ready"} THEN q.phase ELSE "settled"
    BY <1>1, <1>2, CallerAbortsSound
  <2>2. req' = [req EXCEPT ![r] = n] /\ UNCHANGED service
    BY <1>2, <2>1 DEF CallerAborts
  <2> HIDE DEF n
  <2>3. QED
    BY <1>1, <2>1, <2>2 DEF Becomes, Heard
<1>3. CASE q.phase = "body" /\ platform # "none"
  <2> DEFINE a == aborts(q, "caller")
             b == [a EXCEPT !.aborted = TRUE]
  <2>1. q.signal = "none"
    BY <1>1, <1>3 DEF UnderWay
  <2>2. a = [q EXCEPT !.signal = "caller"]
    BY <2>1 DEF aborts
  <2>3. a \in Calls
    <3> HIDE DEF q
    <3>1. "caller" \in Signals
      BY DEF Signals
    <3>2. [q EXCEPT !.signal = "caller"] \in Calls
      BY <1>1, <3>1, CallsUpdated
    <3>3. QED
      BY <2>2, <3>2
  <2>4. /\ a.phase = q.phase /\ a.timer = q.timer /\ a.startedAt = q.startedAt
        /\ a.tries = q.tries /\ a.lastTry = q.lastTry /\ a.outcome = q.outcome /\ a.signal = "caller"
    BY <1>1, <2>2 DEF Calls
  <2>5. n = b
    BY <1>3 DEF callerAborts
  <2> HIDE DEF a, n
  <2>6. b \in Calls
    BY <2>3, CallsUpdated
  <2>7. /\ b.phase = q.phase /\ b.timer = q.timer /\ b.startedAt = q.startedAt
        /\ b.tries = q.tries /\ b.lastTry = q.lastTry /\ b.outcome = q.outcome
        /\ b.signal = "caller" /\ b.aborted = TRUE
    BY <2>3, <2>4 DEF Calls
  <2>8. AttemptEnds(r, b, "response")
    BY <1>3, <2>5, <2>7 DEF CallerAborts, n
  <2> HIDE DEF b
  <2>9. ServiceSound(service') /\ \E m : req' = [req EXCEPT ![r] = m] /\ GoesOn(b, m)
    <3>1. /\ b.outcome = "none" /\ (b.tries = Retries + 1 => b.lastTry)
          /\ platform # "none" => b.timer /\ now <= due(b)
      BY <1>1, <2>7 DEF UnderWay, due
    <3>2. QED
      BY <1>1, <2>6, <2>7, <2>8, <3>1, AttemptEndsSound
  <2>10. QED
    BY <1>1, <1>3, <2>7, <2>9, GoesOnBecomes
<1>4. QED
  BY <1>2, <1>3

(* Time passes only up to the timers that are due.                             *)
LEMMA TickSound ==
    ASSUME RequestsAssumption, RequestsInv, Tick
    PROVE  RequestsInv' /\ AbortRule /\ UNCHANGED req
<1>1. now' = now + 1 /\ now' \in 1..MaxTime /\ UNCHANGED <<req, service, platform>>
  BY DEF Tick, RequestsInv, RequestsAssumption
<1>2. ASSUME NEW r \in Requests PROVE CallSound(req[r], now', platform)
  <2>1. CallSound(req[r], now, platform) /\ req[r] \in Calls /\ now \in Nat
    BY DEF RequestsInv
  <2>2. live(req[r]) => UnderWay(req[r], now', platform)
    <3> DEFINE q == req[r]
    <3> SUFFICES ASSUME live(q) PROVE UnderWay(q, now', platform)
      OBVIOUS
    <3>1. UnderWay(q, now, platform)
      BY <2>1 DEF CallSound
    <3>2. /\ q.phase = "sleep" => now < q.wakeAt
          /\ q.timer /\ q.signal = "none" => now < due(q)
          /\ q.phase # "ready"
      BY DEF Tick, MicrotaskPending
    <3>3. q.wakeAt \in Int /\ due(q) \in Int
      BY <2>1 DEF due, Calls, RequestsAssumption
    <3>4. QED
      BY <1>1, <2>1, <3>1, <3>2, <3>3 DEF UnderWay
  <2>3. QED
    BY <2>1, <2>2 DEF CallSound
<1>3. RequestsInv'
  BY <1>1, <1>2 DEF RequestsInv, ServiceSound
<1>4. QED
  BY <1>1, <1>3 DEF AbortRule, Heard

------------------------------------------------------------------------------
(* The inductive invariant of the loads, on top of that of the requester: of   *)
(* the loads that measure a span at most one has not failed, and a load reads  *)
(* no body of an error, so that an abort always settles its request.           *)
LoadsInv ==
    /\ current \in Loads /\ promise \in [Loads -> Promises]
    /\ error \in BOOLEAN /\ armed \in BOOLEAN /\ disposed \in BOOLEAN
    /\ measured \subseteq Loads /\ spans \subseteq measured
    /\ \A l \in Loads : (promise[l] = "request" <=> live(req[l])) /\ ~req[l].readErrorBody
    /\ FailureRemembered
    /\ \A l \in measured : promise[l] # "none"
    /\ armed <=> \A l \in measured : promise[l] = "rejected"
    /\ \A l, k \in measured : promise[l] # "rejected" /\ promise[k] # "rejected" => l = k
    /\ \A l \in spans : promise[l] = "resolved"

(* What follows a step of the request of load l keeps the invariant.           *)
LEMMA FollowsSound ==
    ASSUME LoadsAssumption, LoadsInv, NEW l \in Loads, promise[l] = "request" => live(req[l]),
           req'[l].phase # "free", ~req'[l].readErrorBody,
           \A k \in Loads \ {l} : req'[k] = req[k],
           live(req[l]) \/ req'[l] = req[l],
           Follows(l), UNCHANGED <<current, measured, spans>>, disposed' \in BOOLEAN
    PROVE  LoadsInv'
<1>1. promise' \in [Loads -> Promises] /\ \A k \in Loads \ {l} : promise'[k] = promise[k]
  BY DEF Follows, LoadsInv, Promises
<1>2. \A k \in Loads : (promise'[k] = "request" <=> live(req'[k])) /\ ~req'[k].readErrorBody
  <2>1. ASSUME NEW k \in Loads \ {l}
        PROVE  (promise'[k] = "request" <=> live(req'[k])) /\ ~req'[k].readErrorBody
    BY <1>1, <2>1 DEF LoadsInv
  <2>2. CASE promise[l] = "request" /\ req'[l].phase = "settled"
    <3>1. promise'[l] # "request" /\ ~live(req'[l])
      BY <2>2 DEF Follows, LoadsInv, live
    <3>2. QED
      BY <2>1, <3>1
  <2>3. CASE promise[l] = "request" /\ req'[l].phase # "settled"
    <3>1. promise'[l] = "request" /\ live(req'[l])
      BY <2>3 DEF Follows, live
    <3>2. QED
      BY <2>1, <3>1
  <2>4. CASE promise[l] # "request"
    <3>1. promise'[l] # "request" /\ req'[l] = req[l] /\ ~live(req[l])
      BY <2>4 DEF Follows, LoadsInv
    <3>2. QED
      BY <2>1, <3>1
  <2>5. QED
    BY <2>2, <2>3, <2>4
<1>3. CASE promise[l] = "request" /\ req'[l].phase = "settled" /\ req'[l].outcome = "ok"
  <2>1. promise'[l] = "body" /\ UNCHANGED <<error, armed>>
    BY <1>3 DEF Follows, LoadsInv
  <2>2. armed' <=> \A k \in measured' : promise'[k] = "rejected"
    BY <1>1, <1>3, <2>1 DEF LoadsInv
  <2>3. \A k, m \in measured' : promise'[k] # "rejected" /\ promise'[m] # "rejected" => k = m
    BY <1>1, <1>3, <2>1 DEF LoadsInv
  <2>4. /\ \A k \in measured' : promise'[k] # "none"
        /\ \A k \in spans' : promise'[k] = "resolved"
    BY <1>1, <1>3, <2>1 DEF LoadsInv
  <2>5. QED
    BY <1>1, <1>2, <2>1, <2>2, <2>3, <2>4 DEF LoadsInv, FailureRemembered
<1>4. CASE promise[l] = "request" /\ req'[l].phase = "settled" /\ req'[l].outcome # "ok"
  <2>1. promise'[l] = "rejected" /\ error' = TRUE /\ armed' = (armed \/ l \in measured)
    BY <1>4 DEF Follows, LoadsInv
  <2>2. armed' \in BOOLEAN
    BY <2>1 DEF LoadsInv
  <2>3. armed' <=> \A k \in measured' : promise'[k] = "rejected"
    <3>1. CASE l \in measured
      <4>1. \A k \in measured \ {l} : promise[k] = "rejected"
        BY <1>4, <3>1 DEF LoadsInv
      <4>2. \A k \in measured : promise'[k] = "rejected"
        BY <1>1, <2>1, <4>1 DEF LoadsInv
      <4>3. QED
        BY <2>1, <3>1, <4>2
    <3>2. CASE l \notin measured
      <4>1. armed' = armed /\ \A k \in measured : promise'[k] = promise[k]
        BY <1>1, <2>1, <3>2 DEF LoadsInv
      <4>2. QED
        BY <4>1 DEF LoadsInv
    <3>3. QED
      BY <3>1, <3>2
  <2>4. \A k, m \in measured' : promise'[k] # "rejected" /\ promise'[m] # "rejected" => k = m
    BY <1>1, <2>1 DEF LoadsInv
  <2>5. /\ \A k \in measured' : promise'[k] # "none"
        /\ \A k \in spans' : promise'[k] = "resolved"
    BY <1>1, <1>4, <2>1 DEF LoadsInv
  <2>6. QED
    BY <1>1, <1>2, <2>1, <2>2, <2>3, <2>4, <2>5 DEF LoadsInv, FailureRemembered
<1>5. CASE ~(promise[l] = "request" /\ req'[l].phase = "settled")
  <2>1. UNCHANGED <<promise, error, armed>>
    BY <1>5 DEF Follows
  <2>2. QED
    BY <1>1, <1>2, <2>1 DEF LoadsInv, FailureRemembered
<1>6. QED
  BY <1>3, <1>4, <1>5

(* A step of the request of a load.                                            *)
LEMMA LoadStepSound ==
    ASSUME RequestsAssumption, LoadsAssumption, RequestsInv, LoadsInv, NEW l \in Loads, LoadStep(l)
    PROVE  RequestsInv' /\ AbortRule /\ LoadsInv'
<1>1. l \in Requests
  BY DEF LoadsAssumption
<1>2. live(req[l]) /\ \E n : Becomes(l, n) /\ (n.readErrorBody => req[l].readErrorBody)
  BY <1>1, RequestStepSound DEF LoadStep
<1>3. PICK n : Becomes(l, n) /\ (n.readErrorBody => req[l].readErrorBody)
  BY <1>2
<1>4. /\ RequestsInv' /\ AbortRule
      /\ req'[l] = n /\ \A k \in Requests \ {l} : req'[k] = req[k]
  BY <1>1, <1>3, BecomesInv
<1>5. ~req'[l].readErrorBody /\ req'[l].phase # "free"
  BY <1>3, <1>4 DEF LoadsInv, Becomes
<1>6. Follows(l) /\ UNCHANGED <<current, measured, spans, disposed>>
  BY DEF LoadStep
<1>7. disposed' \in BOOLEAN
  BY <1>6 DEF LoadsInv
<1>8. QED
  BY <1>2, <1>4, <1>5, <1>6, <1>7, FollowsSound DEF LoadsAssumption

(* The body of a manifest arrives or fails.                                    *)
LEMMA BodySound ==
    ASSUME LoadsAssumption, RequestsInv, LoadsInv, NEW l \in Loads, BodyArrives(l) \/ BodyFails(l)
    PROVE  RequestsInv' /\ AbortRule /\ LoadsInv'
<1>1. UNCHANGED requestVars /\ promise[l] = "body" /\ UNCHANGED <<current, measured, disposed>>
  BY DEF BodyArrives, BodyFails
<1>2. RequestsInv' /\ AbortRule
  BY <1>1 DEF requestVars, RequestsInv, ServiceSound, AbortRule, Heard
<1>3. CASE BodyArrives(l)
  <2>1. /\ promise' = [promise EXCEPT ![l] = "resolved"] /\ UNCHANGED <<error, armed>>
        /\ spans' \subseteq spans \cup ({l} \cap measured)
    BY <1>3 DEF BodyArrives
  <2>2. QED
    BY <1>1, <1>2, <2>1 DEF LoadsInv, FailureRemembered, Promises, requestVars
<1>4. CASE BodyFails(l)
  <2>1. /\ promise' = [promise EXCEPT ![l] = "rejected"] /\ error' = TRUE
        /\ armed' = (armed \/ l \in measured) /\ UNCHANGED spans
    BY <1>4 DEF BodyFails
  <2>2. armed' \in BOOLEAN /\ promise' \in [Loads -> Promises]
    BY <2>1 DEF LoadsInv, Promises
  <2>3. armed' <=> \A k \in measured' : promise'[k] = "rejected"
    BY <1>1, <2>1 DEF LoadsInv
  <2>4. \A k \in Loads : (promise'[k] = "request" <=> live(req'[k])) /\ ~req'[k].readErrorBody
    BY <1>1, <2>1 DEF LoadsInv, requestVars
  <2>5. /\ \A k, m \in measured' : promise'[k] # "rejected" /\ promise'[m] # "rejected" => k = m
        /\ \A k \in measured' : promise'[k] # "none"
        /\ \A k \in spans' : promise'[k] = "resolved"
    BY <1>1, <2>1 DEF LoadsInv
  <2>6. QED
    BY <1>1, <1>2, <2>1, <2>2, <2>3, <2>4, <2>5 DEF LoadsInv, FailureRemembered
<1>5. QED
  BY <1>3, <1>4

(* A new load, which aborts the one under way.                                 *)
LEMMA LoadSound ==
    ASSUME RequestsAssumption, LoadsAssumption, RequestsInv, LoadsInv, NEW l \in Loads, Load(l)
    PROVE  RequestsInv' /\ AbortRule /\ LoadsInv'
<1> DEFINE old == IF live(req[current]) THEN callerAborts(req[current]) ELSE req[current]
           ended == live(req[current]) /\ ~live(old)
           measures == measured \union (IF armed THEN {l} ELSE {})
<1>1a. PICK metered \in BOOLEAN :
           \E q \in nextAttempts(begun(metered, FALSE, FALSE), service) :
               req' = [req EXCEPT ![current] = old, ![l] = q]
  BY DEF Load
<1>1. PICK q \in nextAttempts(begun(metered, FALSE, FALSE), service) :
           req' = [req EXCEPT ![current] = old, ![l] = q]
  BY <1>1a
<1>2. /\ CallSound(q, now, platform) /\ q.phase \in {"sleep", "ready", "settled"}
      /\ (q.phase # "settled" => ~q.aborted) /\ ~q.readErrorBody /\ q \in Calls
  BY FirstAttemptSound DEF CallSound
<1>3. /\ current \in Loads /\ l \in Requests /\ current \in Requests
      /\ promise[l] = "none" /\ ~live(req[l])
      /\ CallSound(req[current], now, platform) /\ ~req[current].readErrorBody
  BY DEF Load, LoadsInv, LoadsAssumption, RequestsInv
<1>4. /\ CallSound(old, now, platform) /\ ~old.readErrorBody /\ old \in Calls
      /\ old.phase # req[current].phase => old.phase = "settled" /\ req[current].phase # "ready"
      /\ live(old) => live(req[current])
  <2>1. CASE live(req[current])
    <3>1. req[current].phase # "body"
      BY <1>3, <2>1 DEF CallSound, UnderWay
    <3>2. /\ CallSound(old, now, platform)
          /\ old.phase = IF req[current].phase = "ready" THEN "ready" ELSE "settled"
          /\ old.phase # "settled" => old.readErrorBody = req[current].readErrorBody
      BY <1>3, <2>1, <3>1, CallerAbortsSound
    <3> HIDE DEF old
    <3>3. QED
      BY <1>3, <2>1, <3>2 DEF CallSound
  <2>2. CASE ~live(req[current])
    BY <1>3, <2>2 DEF CallSound
  <2>3. QED
    BY <2>1, <2>2
<1>4a. ended <=> live(req[current]) /\ ~live(old)
  OBVIOUS
<1> HIDE DEF old, ended
<1>5. /\ req' \in [Requests -> Calls] /\ req'[l] = q
      /\ current # l => req'[current] = old
      /\ \A r \in Requests \ {l, current} : req'[r] = req[r]
  BY <1>1, <1>2, <1>3, <1>4 DEF RequestsInv
<1>6. UNCHANGED <<now, service, platform, spans, disposed>> /\ current' = l
  BY DEF Load
<1>7. RequestsInv'
  <2>1. \A r \in Requests : CallSound(req'[r], now, platform)
    BY <1>2, <1>4, <1>5 DEF RequestsInv
  <2>2. QED
    BY <1>5, <1>6, <2>1 DEF RequestsInv, ServiceSound
<1>8. AbortRule
  <2>1. req[l].signal = "none"
    BY <1>3 DEF RequestsInv, CallSound, live, Free, LoadsInv
  <2>2. QED
    BY <1>2, <1>3, <1>4, <1>5, <2>1 DEF AbortRule, Heard, live
<1>9. /\ promise' \in [Loads -> Promises]
      /\ promise'[l] = IF q.phase = "settled" THEN "rejected" ELSE "request"
      /\ current # l => promise'[current] = IF ended THEN "rejected" ELSE promise[current]
      /\ \A k \in Loads \ {l, current} : promise'[k] = promise[k]
  BY <1>5 DEF Load, LoadsInv, Promises, ended, old
<1>10. ended => current # l /\ promise[current] = "request"
  BY <1>3, <1>4a DEF LoadsInv
<1>11. /\ measured' = measures /\ measures \subseteq Loads /\ l \notin measured /\ l \notin spans
       /\ l \in measures <=> armed
  BY <1>3 DEF Load, LoadsInv
<1>12. armed' <=> \/ ended /\ current \in measured
                  \/ promise'[l] = "rejected" /\ l \in measures
  BY DEF Load, ended, old
<1>13. armed' \in BOOLEAN /\ error' \in BOOLEAN /\ (promise'[l] = "rejected" => error')
  BY DEF Load, ended, old
<1>14. \A k \in Loads : (promise'[k] = "request" <=> live(req'[k])) /\ ~req'[k].readErrorBody
  <2>1. (promise'[l] = "request" <=> live(req'[l])) /\ ~req'[l].readErrorBody
    BY <1>2, <1>5, <1>9 DEF live
  <2>2. CASE current # l
    <3>1. (promise'[current] = "request" <=> live(req'[current])) /\ ~req'[current].readErrorBody
      <4>1. CASE ended
        BY <1>4, <1>4a, <1>5, <1>9, <2>2, <4>1
      <4>2. CASE ~ended
        BY <1>3, <1>4, <1>4a, <1>5, <1>9, <2>2, <4>2 DEF LoadsInv
      <4>3. QED
        BY <4>1, <4>2
    <3>2. QED
      BY <1>3, <1>5, <1>9, <2>1, <3>1 DEF LoadsInv, LoadsAssumption
  <2>3. CASE current = l
    BY <1>5, <1>9, <2>1, <2>3 DEF LoadsInv, LoadsAssumption
  <2>4. QED
    BY <2>2, <2>3
<1>15. \A k \in measured : promise'[k] = IF ended /\ k = current THEN "rejected" ELSE promise[k]
  <2>1. \A k \in measured : k # l /\ k \in Loads
    BY <1>11
  <2>2. QED
    BY <1>9, <1>11, <2>1
<1>16. armed' <=> \A k \in measured' : promise'[k] = "rejected"
  <2>1. CASE ended /\ current \in measured
    <3>1. \A k \in measured \ {current} : promise[k] = "rejected"
      BY <1>10, <2>1 DEF LoadsInv
    <3>2. ~armed
      BY <1>10, <2>1 DEF LoadsInv
    <3>3. measured' = measured /\ \A k \in measured : promise'[k] = "rejected"
      BY <1>11, <1>15, <2>1, <3>1, <3>2
    <3>4. QED
      BY <1>12, <2>1, <3>3
  <2>2. CASE ~(ended /\ current \in measured) /\ armed
    <3>1. measured' = measured \cup {l} /\ \A k \in measured : promise'[k] = "rejected"
      BY <1>11, <1>15, <2>2 DEF LoadsInv
    <3>2. QED
      BY <1>11, <1>12, <2>2, <3>1
  <2>3. CASE ~(ended /\ current \in measured) /\ ~armed
    <3>1. measured' = measured /\ \A k \in measured : promise'[k] = promise[k]
      BY <1>11, <1>15, <2>3
    <3>2. QED
      BY <1>11, <1>12, <2>3, <3>1 DEF LoadsInv
  <2>4. QED
    BY <2>1, <2>2, <2>3
<1>17. /\ \A k, m \in measured' : promise'[k] # "rejected" /\ promise'[m] # "rejected" => k = m
       /\ \A k \in measured' : promise'[k] # "none"
  <2>1. CASE armed
    <3>1. \A k \in measured : promise'[k] = "rejected"
      BY <1>15, <2>1 DEF LoadsInv
    <3>2. QED
      BY <1>9, <1>11, <2>1, <3>1
  <2>2. CASE ~armed
    BY <1>11, <1>15, <2>2 DEF LoadsInv
  <2>3. QED
    BY <2>1, <2>2
<1>18. \A k \in spans' : promise'[k] = "resolved"
  <2>1. ASSUME NEW k \in spans PROVE promise'[k] = promise[k]
    BY <1>10, <1>15, <2>1 DEF LoadsInv
  <2>2. QED
    BY <1>6, <2>1 DEF LoadsInv
<1>19. spans' \subseteq measured' /\ current' \in Loads /\ disposed' \in BOOLEAN
  BY <1>6, <1>11 DEF LoadsInv
<1>20. LoadsInv'
  BY <1>6, <1>9, <1>11, <1>13, <1>14, <1>16, <1>17, <1>18, <1>19 DEF LoadsInv, FailureRemembered
<1>21. QED
  BY <1>7, <1>8, <1>20

(* The disposal of the controller aborts the load under way.                   *)
LEMMA DisposeSound ==
    ASSUME RequestsAssumption, LoadsAssumption, RequestsInv, LoadsInv, Dispose
    PROVE  RequestsInv' /\ AbortRule /\ LoadsInv'
<1>1. current \in Loads /\ current \in Requests
  BY DEF LoadsInv, LoadsAssumption
<1>2. /\ Follows(current) /\ disposed' = TRUE /\ promise[current] # "none"
      /\ UNCHANGED <<now, service, platform, current, measured, spans>>
  BY DEF Dispose
<1>3. CASE live(req[current])
  <2> DEFINE n == callerAborts(req[current])
  <2>1. /\ CallSound(req[current], now, platform) /\ ~req[current].readErrorBody
        /\ req[current].phase # "body"
    BY <1>1, <1>3 DEF RequestsInv, LoadsInv, CallSound, UnderWay
  <2>2. /\ CallSound(n, now, platform) /\ n.phase # "free"
        /\ n.phase = IF req[current].phase = "ready" THEN "ready" ELSE "settled"
        /\ n.phase # "settled" => n.readErrorBody = req[current].readErrorBody
    BY <1>3, <2>1, CallerAbortsSound
  <2>3. req' = [req EXCEPT ![current] = n]
    BY <1>3 DEF Dispose
  <2> HIDE DEF n
  <2>4. Becomes(current, n)
    BY <1>2, <2>2, <2>3 DEF Becomes, Heard, RequestsInv, ServiceSound
  <2>5. /\ RequestsInv' /\ AbortRule
        /\ req'[current] = n /\ \A k \in Requests \ {current} : req'[k] = req[k]
    BY <1>1, <2>4, BecomesInv
  <2>6. req'[current].phase # "free" /\ ~req'[current].readErrorBody
    BY <2>1, <2>2, <2>5 DEF CallSound
  <2>7. LoadsInv'
    BY <1>1, <1>2, <1>3, <2>5, <2>6, FollowsSound DEF LoadsAssumption
  <2>8. QED
    BY <2>5, <2>7
<1>4. CASE ~live(req[current])
  <2>1. req' = req
    BY <1>1, <1>4 DEF Dispose, RequestsInv
  <2>2. RequestsInv' /\ AbortRule
    BY <1>2, <2>1 DEF RequestsInv, ServiceSound, AbortRule, Heard
  <2>3. promise[current] # "request"
    BY <1>1, <1>4 DEF LoadsInv
  <2>4. UNCHANGED <<promise, error, armed>>
    BY <1>2, <2>3 DEF Follows
  <2>5. LoadsInv'
    BY <1>2, <2>1, <2>4 DEF LoadsInv, FailureRemembered
  <2>6. QED
    BY <2>2, <2>5
<1>5. QED
  BY <1>3, <1>4

(* A request of another caller, or the clock, changes nothing of the loads.    *)
LEMMA LoadsUntouched ==
    ASSUME LoadsInv, UNCHANGED manifestVars, \A l \in Loads : req'[l] = req[l]
    PROVE  LoadsInv'
BY DEF manifestVars, LoadsInv, FailureRemembered, live

(* A step of a request that is not a load of a manifest keeps both invariants. *)
LEMMA OtherStepSound ==
    ASSUME RequestsAssumption, LoadsAssumption, RequestsInv, LoadsInv,
           NEW r \in Requests \ Loads, OtherStep(r)
    PROVE  RequestsInv' /\ AbortRule /\ LoadsInv'
<1>1. \E n : Becomes(r, n)
  <2>1. CASE \E metered, readErrorBody, aborted \in BOOLEAN :
                 Begin(r, metered, readErrorBody, aborted)
    BY <2>1, BeginSound
  <2>2. CASE CallerAborts(r)
    BY <2>2, CallerAbortsStep
  <2>3. CASE RequestStep(r)
    BY <2>3, RequestStepSound
  <2>4. QED
    BY <2>1, <2>2, <2>3 DEF OtherStep
<1>2. PICK n : Becomes(r, n)
  BY <1>1
<1>3. /\ RequestsInv' /\ AbortRule
      /\ \A s \in Requests \ {r} : req'[s] = req[s]
  BY <1>2, BecomesInv
<1>4. LoadsInv'
  <2>1. \A l \in Loads : req'[l] = req[l]
    BY <1>3 DEF LoadsAssumption
  <2>2. QED
    BY <2>1, LoadsUntouched DEF OtherStep
<1>5. QED
  BY <1>3, <1>4

------------------------------------------------------------------------------

(* Both invariants hold before any request is made.                            *)
LEMMA InitSound ==
    ASSUME RequestsAssumption, LoadsAssumption, Init
    PROVE  RequestsInv /\ LoadsInv
<1>1. RequestsInv
  <2>1. \A r \in Requests : CallSound(req[r], now, platform)
    BY FreeSound DEF Init, RequestsInit
  <2>2. req \in [Requests -> Calls]
    BY FreeSound DEF Init, RequestsInit, CallSound
  <2>3. /\ now \in 1..MaxTime /\ platform \in Platforms
        /\ ServiceSound(service)
    BY DEF Init, RequestsInit, ServiceSound, RequestsAssumption
  <2>4. QED
    BY <2>1, <2>2, <2>3 DEF RequestsInv
<1>2. current \in Loads
  BY DEF Init, LoadsAssumption
<1>3. \A l \in Loads : req[l] = Free /\ promise[l] = "none"
  BY DEF Init, RequestsInit, LoadsAssumption
<1>4. LoadsInv
  <2>1. /\ promise \in [Loads -> Promises]
        /\ error \in BOOLEAN /\ armed \in BOOLEAN /\ disposed \in BOOLEAN
        /\ measured = {} /\ spans = {} /\ armed
    BY DEF Init, Promises
  <2>2. \A l \in Loads : (promise[l] = "request" <=> live(req[l])) /\ ~req[l].readErrorBody
    BY <1>3 DEF live, Free
  <2>3. FailureRemembered
    BY <1>2, <1>3 DEF FailureRemembered
  <2>4. QED
    BY <1>2, <2>1, <2>2, <2>3 DEF LoadsInv
<1>5. QED
  BY <1>1, <1>4

(* Every step keeps both invariants, and no attempt goes on after an abort.    *)
LEMMA NextSound ==
    ASSUME RequestsAssumption, LoadsAssumption, RequestsInv, LoadsInv, [Next]_vars
    PROVE  RequestsInv' /\ AbortRule /\ LoadsInv'
<1>1. CASE Construct
  <2>1. current \in Loads /\ Load(current)
    BY <1>1 DEF Construct, LoadsInv
  <2>2. QED
    BY <2>1, LoadSound
<1>2. CASE \E l \in Loads : LoadStep(l) \/ BodyArrives(l) \/ BodyFails(l)
  BY <1>2, LoadStepSound, BodySound
<1>3. CASE \E l \in Loads : Refresh(l) \/ Reset(l)
  BY <1>3, LoadSound DEF Refresh, Reset
<1>4. CASE Dispose
  BY <1>4, DisposeSound
<1>5. CASE \E r \in Requests \ Loads : OtherStep(r)
  BY <1>5, OtherStepSound
<1>6. CASE TimePasses
  <2>1. RequestsInv' /\ AbortRule /\ UNCHANGED req
    BY <1>6, TickSound DEF TimePasses
  <2>2. LoadsInv'
    BY <1>6, <2>1, LoadsUntouched DEF TimePasses
  <2>3. QED
    BY <2>1, <2>2
<1>7. CASE UNCHANGED vars
  <2>1. UNCHANGED requestVars /\ UNCHANGED manifestVars
    BY <1>7 DEF vars
  <2>2. RequestsInv' /\ AbortRule
    BY <2>1 DEF requestVars, RequestsInv, ServiceSound, AbortRule, Heard
  <2>3. LoadsInv'
    BY <2>1, LoadsUntouched DEF requestVars
  <2>4. QED
    BY <2>2, <2>3
<1>8. QED
  BY <1>1, <1>2, <1>3, <1>4, <1>5, <1>6, <1>7 DEF Next

(* The strengthened invariant of the requester and of the loads on top of it:  *)
(* the fields of each call agree with its phase, and of the loads that measure *)
(* the span of the manifest at most one has not failed.                        *)
THEOREM LoadsInductive == Spec => [](RequestsInv /\ LoadsInv)
<1>1. Init => RequestsInv /\ LoadsInv
  BY InitSound, RequestsAssumption, LoadsAssumption
<1>2. RequestsInv /\ LoadsInv /\ [Next]_vars => (RequestsInv /\ LoadsInv)'
  BY NextSound, RequestsAssumption, LoadsAssumption
<1>3. QED
  BY <1>1, <1>2, PTL DEF Spec

(* A request settles within its timeout wherever the browser can abort: in no  *)
(* state is one under way past startedAt + timeout (RequesterImpl.ts:272).     *)
THEOREM RequestsSettleInTime == Spec => []SettlesInTime
<1>1. RequestsInv => SettlesInTime
  BY DEF RequestsInv, CallSound, UnderWay, SettlesInTime
<1>2. QED
  BY <1>1, LoadsInductive, PTL

(* Only a request its caller has aborted is silent, and one that was aborted   *)
(* reports nothing but the abort or an answer of the server; a browser without *)
(* abort reasons takes a timeout for an abort (RequesterImpl.ts:317).          *)
THEOREM SilentOnlyWhenAborted == Spec => []OnlyAbortsAreSilent
<1>1. RequestsInv => OnlyAbortsAreSilent
  BY DEF RequestsInv, CallSound, OnlyAbortsAreSilent
<1>2. QED
  BY <1>1, LoadsInductive, PTL

(* A request that was aborted or has timed out sleeps and waits for a fetch no *)
(* more, through any number of attempts and backoffs, and one that is aborted  *)
(* before the reaction to a sleep of no time ends with that reaction           *)
(* (RequesterImpl.ts:309-330, 374-400).                                        *)
THEOREM AbortsEndAttempts == Spec => AbortEndsAttempts
<1>1. RequestsInv /\ LoadsInv /\ [Next]_vars =>
          [\A r \in Requests : req'[r].phase # req[r].phase =>
              /\ req'[r].phase \in {"ready", "sleep", "fetch"} =>
                    req[r].signal = "none" /\ ~req'[r].aborted
              /\ req[r].phase = "ready" /\ req[r].aborted => req'[r].outcome = "abort"]_requestVars
  BY NextSound, RequestsAssumption, LoadsAssumption DEF AbortRule, Heard
<1>2. QED
  BY <1>1, LoadsInductive, PTL DEF Spec, AbortEndsAttempts

(* Of a set in which any two members are the same there is at most one.        *)
LEMMA AtMostOne ==
    ASSUME NEW S, \A x, y \in S : x = y
    PROVE  Cardinality(S) <= 1
<1>1. CASE S = {}
  BY <1>1, FS_EmptySet
<1>2. CASE S # {}
  <2>1. PICK x \in S : TRUE
    BY <1>2
  <2>2. S = {x}
    BY <2>1
  <2>3. QED
    BY <2>2, FS_Singleton
<1>3. QED
  BY <1>1, <1>2

(* Error, measurement and promise of the loads of the manifest agree whichever *)
(* of the loads that were superseded settle late, and its load is measured at  *)
(* most once (ManifestControllerImpl.ts:80).                                   *)
THEOREM LoadsAgreed == Spec => []LoadsAgree
<1>1. RequestsInv /\ LoadsInv => TypeOK
  <2> SUFFICES ASSUME RequestsInv, LoadsInv PROVE TypeOK
    OBVIOUS
  <2>1. RequestsTypeOK
    BY DEF RequestsInv, ServiceSound, CallSound, Calls, Signals, RequestsTypeOK
  <2>2. QED
    BY <2>1 DEF LoadsInv, TypeOK
<1>2. LoadsInv => FailureRemembered
  BY DEF LoadsInv
<1>3. LoadsInv => LoadSpanOnce
  <2> SUFFICES ASSUME LoadsInv PROVE LoadSpanOnce
    OBVIOUS
  <2>1. \A x, y \in spans : x = y
    BY DEF LoadsInv
  <2>2. \A x, y \in {l \in measured : loading(l)} : x = y
    BY DEF LoadsInv, loading
  <2>3. armed <=> \A l \in measured : promise[l] = "rejected"
    BY DEF LoadsInv
  <2>4. QED
    BY <2>1, <2>2, <2>3, AtMostOne DEF LoadSpanOnce
<1>4. QED
  BY <1>1, <1>2, <1>3, LoadsInductive, PTL DEF LoadsAgree
===============================================================================
