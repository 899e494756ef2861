-------------------------- MODULE SegmentController --------------------------
(* vinyl/src/streaming/SegmentControllerImpl.ts with SegmentDataSlot.ts: the   *)
(* cache of media segments of one content type.  Three kinds of operation run  *)
(* over it, interleaved at every await: the background prefetch, getSegment()  *)
(* calls of the buffering controller, and the prefetchImmediate() a getSegment *)
(* starts when it is close to the end of its segment.                          *)
(*                                                                             *)
(* Time is counted in segments.  Promise reactions are microtasks: they all    *)
(* run before the next macrotask (a network response, a timer, a media or      *)
(* network event).  The controller's own API is called by other promise        *)
(* reactions of the player, so it may be called between any two microtasks.    *)
EXTENDS Integers, Sequences, FiniteSets

CONSTANTS
    Slots,              \* identities of slot objects, reused once unreachable
    Reqs,               \* identities of segment requests, reused likewise
    Gets,               \* concurrent getSegment() calls
    Qualities,          \* qualities of the content type
    MaxTime,            \* playback times are 0..MaxTime
    End,                \* End[v]: segments in version v of the media timeline
    PrefetchInactive, PrefetchActive, RetainTail,   \* options, in segments
    MaxCalls            \* bound on API calls and events

Versions == DOMAIN End

None == "none"

Ops == Gets \cup {"prefetch", "immediate"}

ASSUME SegmentControllerAssumption ==
    /\ None \notin Slots \cup Reqs \cup Qualities
    /\ {"ok", "err"} \cap Reqs = {}
    /\ {"prefetch", "immediate"} \cap Gets = {}
    /\ MaxTime \in Nat
    /\ End \in Seq(0..(MaxTime + 1)) \ {<<>>}
    /\ {PrefetchInactive, PrefetchActive, RetainTail, MaxCalls} \subseteq Nat

VARIABLES
    active, startTime,
    currentTime,    \* playbackController.currentTime
    timeline,       \* version held by mediaTimelineTransformed
    cachedPeriod,   \* version of _cachedPeriod, 0 for null
    denylist,       \* qualities whose codec is denylisted
    slot,           \* the slot objects
    cached,         \* cachedSegments
    fetched,        \* _fetchedRanges, as the set of segments they cover
    ended, prefetching, error, disposed,
    poll,           \* an invocation of the throttled pollPrefetch is due
    op,             \* where each asynchronous operation is
    req,            \* the requests of the segment data providers
    calls           \* API calls and events so far

vars == <<active, startTime, currentTime, timeline, cachedPeriod, denylist, slot,
          cached, fetched, ended, prefetching, error, disposed, poll, op, req, calls>>

Times == 0..MaxTime

(* bufferPromise: null, a request in flight, or a settled promise.             *)
Promises == Reqs \cup {None, "ok", "err"}

SlotRecs == [seg : Times, quality : Qualities \cup {None},
             status : {"inactive", "pending", "resolved", "erred"},
             promise : Promises, onStatusChange : BOOLEAN]

(* "timeline": awaits the timeline promise; "period": the cached period is     *)
(* returned; "segment": awaits quality.getSegment; "slot": getSlotAtTime has   *)
(* resolved; "await": awaits the data; "settled": the awaited promise settled. *)
OpPcs == {"idle", "queued", "timeline", "period", "segment", "slot", "await", "settled"}

OpRecs == [pc : OpPcs, time : Times \cup {MaxTime + 1}, version : Versions \cup {0},
           quality : Qualities \cup {None}, slot : Slots \cup {None},
           result : Promises \cup {"abort"}]

(* "open": in flight; "ok", "err", "abort": settled, reaction not yet run.     *)
ReqRecs == [slot : Slots \cup {None}, state : {"free", "open", "ok", "err", "abort"}]

TypeOK ==
    /\ {active, ended, prefetching, error, disposed, poll} \subseteq BOOLEAN
    /\ {startTime, currentTime} \subseteq Times
    /\ timeline \in Versions /\ cachedPeriod \in Versions \cup {0}
    /\ denylist \subseteq Qualities
    /\ slot \in [Slots -> SlotRecs]
    /\ cached \subseteq Slots
    /\ fetched \subseteq Times
    /\ op \in [Ops -> OpRecs]
    /\ req \in [Reqs -> ReqRecs]
    /\ calls \in 0..MaxCalls

idleOp == [pc |-> "idle", time |-> 0, version |-> 0, quality |-> None,
           slot |-> None, result |-> None]

freeReq == [slot |-> None, state |-> "free"]

(* Mutant: the slot is created without its range handler.                      *)
MutNoHandler(t, q) == [seg |-> t, quality |-> q, status |-> "inactive",
                       promise |-> None, onStatusChange |-> FALSE]

newSlot(t, q) == [seg |-> t, quality |-> q, status |-> "inactive",
                  promise |-> None, onStatusChange |-> TRUE]

freeSlot == newSlot(0, None)

Init ==
    /\ active = FALSE /\ disposed = FALSE
    /\ ended = FALSE /\ prefetching = FALSE /\ error = FALSE /\ poll = FALSE
    /\ startTime = 0 /\ currentTime = 0
    /\ timeline = 1 /\ cachedPeriod = 0
    /\ denylist = {} /\ cached = {} /\ fetched = {}
    /\ slot = [s \in Slots |-> freeSlot]
    /\ op = [a \in Ops |-> idleOp]
    /\ req = [r \in Reqs |-> freeReq]
    /\ calls = 0

------------------------------------------------------------------------------
(* Microtasks still to run before the next macrotask.                          *)
MicrotaskPending ==
    \/ \E a \in Ops : op[a].pc \in {"period", "slot", "settled"}
    \/ \E r \in Reqs : req[r].state \in {"ok", "err", "abort"}

(* Slot objects nothing refers to any more are collected.  The other variables *)
(* must have been assigned when this is used.                                  *)
collected(slots) ==
    [s \in Slots |->
        IF \/ s \in cached'
           \/ \E a \in Ops : op'[a].slot = s
           \/ \E r \in Reqs : req'[r].slot = s
        THEN slots[s] ELSE freeSlot]

(* What only the environment changes.                                          *)
given == <<active, startTime, currentTime, timeline, denylist, disposed>>

(* ---- SegmentDataSlot ---- *)
(* clear(): nothing if INACTIVE; else abort, drop the promise, INACTIVE.       *)
clearedSlots(S) ==
    [s \in Slots |-> IF s \in S /\ slot[s].status # "inactive"
                     THEN [slot[s] EXCEPT !.status = "inactive", !.promise = None]
                     ELSE slot[s]]

abortedReqs(S) ==
    [r \in Reqs |-> IF req[r].state = "open" /\ req[r].slot \in S
                       /\ slot[req[r].slot].status # "inactive"
                    THEN [req[r] EXCEPT !.state = "abort"]
                    ELSE req[r]]

(* The range handler's reaction to the slots in S becoming INACTIVE.           *)
unfetched(S) ==
    {slot[s].seg : s \in {u \in S : slot[u].status # "inactive" /\ slot[u].onStatusChange}}

(* Operation a resumes with the outcome of the promise it awaits; a getSegment *)
(* or prefetchImmediate then returns to its caller.                            *)
resumed(a, outcome) ==
    IF a = "prefetch" THEN [idleOp EXCEPT !.pc = "settled", !.result = outcome] ELSE idleOp

awaiting(r) == [idleOp EXCEPT !.pc = "await", !.result = r]

(* Mutant: request() does not look for a request in flight.                    *)
MutRequestAgain(a, s, sl, rq) ==
    \E r \in Reqs :
        /\ rq[r].state = "free"
        /\ req' = [rq EXCEPT ![r] = [slot |-> s, state |-> "open"]]
        /\ op' = [op EXCEPT ![a] = awaiting(r)]
        /\ slot' = [slot EXCEPT ![s] = [sl EXCEPT !.status = "pending", !.promise = r]]

(* request() by operation a on slot s, whose record is sl and rq the requests: *)
(* the promise, pending or settled, if there is one, else a new request.       *)
requestData(a, s, sl, rq) ==
    IF sl.promise = None
    THEN \E r \in Reqs :
            /\ rq[r].state = "free"
            /\ req' = [rq EXCEPT ![r] = [slot |-> s, state |-> "open"]]
            /\ op' = [op EXCEPT ![a] = awaiting(r)]
            /\ slot' = [slot EXCEPT ![s] = [sl EXCEPT !.status = "pending", !.promise = r]]
    ELSE /\ req' = rq
         /\ op' = [op EXCEPT ![a] = IF sl.promise \in Reqs THEN awaiting(sl.promise)
                                    ELSE resumed(a, sl.promise)]
         /\ slot' = collected([slot EXCEPT ![s] = sl])

(* The reactions request() chains to the provider's promise, run whatever      *)
(* happened to the slot since; then whoever awaits the promise is resumed.     *)
reaction(r) ==
    LET s == req[r].slot
        outcome == req[r].state
        sl == slot[s]
        p == IF sl.promise = r THEN outcome ELSE sl.promise
    IN  /\ outcome \in {"ok", "err", "abort"}
        /\ req' = [req EXCEPT ![r] = freeReq]
        /\ op' = [a \in Ops |-> IF op[a].pc = "await" /\ op[a].result = r
                                THEN resumed(a, outcome) ELSE op[a]]
        /\ cached' = cached
        /\ slot' = collected([slot EXCEPT ![s] =
                CASE outcome = "ok" -> [sl EXCEPT !.status = "resolved", !.promise = p]
                  [] outcome = "err" -> [sl EXCEPT !.status = "erred", !.promise = p]
                  [] outcome = "abort" -> [sl EXCEPT !.status = "inactive", !.promise = None]])
        /\ fetched' = IF ~sl.onStatusChange THEN fetched
                      ELSE CASE outcome = "ok" -> fetched \cup {sl.seg}
                             [] outcome = "err" -> fetched
                             [] outcome = "abort" -> fetched \ {sl.seg}
        /\ UNCHANGED <<given, cachedPeriod, ended, prefetching, error, poll>>

(* The network answers.                                                        *)
networkSettles(r, outcome) ==
    /\ ~MicrotaskPending
    /\ req[r].state = "open"
    /\ req' = [req EXCEPT ![r].state = outcome]
    /\ UNCHANGED <<given, cachedPeriod, slot, cached, fetched, ended, prefetching, error,
                   poll, op>>

(* ---- prefetch range ---- *)
inactiveRange == startTime..(startTime + PrefetchInactive - 1)

activeRange == currentTime..(currentTime + PrefetchActive - 1)

prefetchRange == IF active THEN activeRange ELSE inactiveRange

retained == inactiveRange \cup
            IF active THEN (currentTime - RetainTail)..(currentTime - 1) \cup activeRange ELSE {}

(* sweepCachedSegments() of a sweep that keeps the given times.                *)
sweptSlots(keep) == {s \in cached : slot[s].seg \notin keep}

(* getNextTimeToPrefetch(): the first gap of the prefetch range, if any.       *)
gaps(ranges) == prefetchRange \ ranges

firstGap(ranges) == CHOOSE t \in gaps(ranges) : \A u \in gaps(ranges) : t <= u

(* pollPrefetch(): sweep, then enqueue the prefetch of the next gap.           *)
pollPrefetch ==
    /\ poll /\ ~disposed
    /\ poll' = FALSE
    /\ IF error
       THEN UNCHANGED <<slot, cached, fetched, req, op, prefetching>>
       ELSE LET S == sweptSlots(retained)
                ranges == fetched \ unfetched(S)
            IN  /\ req' = abortedReqs(S)
                /\ cached' = cached \ S
                /\ fetched' = ranges
                /\ IF ended \/ prefetching \/ gaps(ranges) = {}
                   THEN UNCHANGED <<op, prefetching>>
                   ELSE /\ prefetching' = TRUE
                        /\ op' = [op EXCEPT !["prefetch"] =
                                    [idleOp EXCEPT !.pc = "queued", !.time = firstGap(ranges)]]
                /\ slot' = collected(clearedSlots(S))
    /\ UNCHANGED <<given, cachedPeriod, ended, error>>

(* ---- getSlotAtTime, createSlotForTime ---- *)
(* The synchronous start: a cached slot, the cached period, or the timeline.   *)
lookup(t) ==
    IF \E s \in cached : slot[s].seg = t
    THEN [idleOp EXCEPT !.pc = "slot", !.time = t,
                        !.slot = CHOOSE s \in cached : slot[s].seg = t]
    ELSE [idleOp EXCEPT !.time = t,
                        !.pc = IF cachedPeriod # 0 THEN "period" ELSE "timeline",
                        !.version = IF cachedPeriod # 0 THEN cachedPeriod ELSE timeline]

(* Qualities that may be selected: the playable ones, or all if none is.       *)
playableQualities == IF Qualities \ denylist # {} THEN Qualities \ denylist ELSE Qualities

(* The period is known: cache it if it was awaited, and select a quality.      *)
selectQuality(a, q) ==
    /\ op[a].pc \in {"timeline", "period"}
    /\ q \in playableQualities
    /\ cachedPeriod' = IF op[a].pc = "timeline" THEN op[a].version ELSE cachedPeriod
    /\ op' = [op EXCEPT ![a].pc = "segment", ![a].quality = q]
    /\ UNCHANGED <<given, slot, cached, fetched, ended, prefetching, error, poll, req>>

(* The selected quality has resolved its segment: none at that time, one that  *)
(* another operation has cached meanwhile, or a new slot to insert.            *)
slotFound(a, s) ==
    op' = [op EXCEPT ![a] = [idleOp EXCEPT !.pc = "slot", !.time = op[a].time, !.slot = s]]

(* Mutant: no second look at the cache after the await.                        *)
MutInsertAlways(a) ==
    /\ op[a].pc = "segment"
    /\ op[a].time < End[op[a].version]
    /\ \E s \in Slots :
        /\ slot[s] = freeSlot
        /\ slot' = [slot EXCEPT ![s] = newSlot(op[a].time, op[a].quality)]
        /\ cached' = cached \cup {s}
        /\ slotFound(a, s)
    /\ UNCHANGED <<given, cachedPeriod, fetched, ended, prefetching, error, poll, req>>

insertSlot(a) ==
    /\ op[a].pc = "segment"
    /\ \/ /\ op[a].time >= End[op[a].version]
          /\ slotFound(a, None)
          /\ UNCHANGED <<slot, cached>>
       \/ \E s \in cached :
          /\ op[a].time < End[op[a].version]
          /\ slot[s].seg = op[a].time
          /\ slotFound(a, s)
          /\ UNCHANGED <<slot, cached>>
       \/ \E s \in Slots :
          /\ op[a].time < End[op[a].version]
          /\ \A u \in cached : slot[u].seg # op[a].time
          /\ slot[s] = freeSlot
          /\ slot' = [slot EXCEPT ![s] = newSlot(op[a].time, op[a].quality)]
          /\ cached' = cached \cup {s}
          /\ slotFound(a, s)
    /\ UNCHANGED <<given, cachedPeriod, fetched, ended, prefetching, error, poll, req>>

(* ---- the prefetch task ---- *)
(* The prefetch queue starts the task.                                         *)
prefetchStarts ==
    /\ op["prefetch"].pc = "queued"
    /\ op' = [op EXCEPT !["prefetch"] =
                IF disposed THEN resumed("prefetch", "abort") ELSE lookup(op["prefetch"].time)]
    /\ UNCHANGED <<given, cachedPeriod, slot, cached, fetched, ended, prefetching, error, poll, req>>

prefetchSlot ==
    LET s == op["prefetch"].slot IN
    /\ op["prefetch"].pc = "slot"
    /\ cached' = cached
    /\ \/ /\ disposed
          /\ op' = [op EXCEPT !["prefetch"] = resumed("prefetch", "abort")]
          /\ req' = req
          /\ slot' = collected(slot)
          /\ UNCHANGED ended
       \/ /\ ~disposed /\ s = None
          /\ ended' = TRUE
          /\ op' = [op EXCEPT !["prefetch"] = resumed("prefetch", "ok")]
          /\ UNCHANGED <<slot, req>>
       \/ /\ ~disposed /\ s # None
          /\ requestData("prefetch", s, slot[s], req)
          /\ UNCHANGED ended
    /\ UNCHANGED <<given, cachedPeriod, fetched, prefetching, error, poll>>

(* Mutant: the finally callback does not poll for the next segment.            *)
MutFinallyNoPoll ==
    /\ op["prefetch"].pc = "settled"
    /\ error' = (error \/ (~disposed /\ op["prefetch"].result = "err"))
    /\ prefetching' = FALSE
    /\ op' = [op EXCEPT !["prefetch"] = idleOp]
    /\ UNCHANGED <<given, cachedPeriod, slot, cached, fetched, ended, poll, req>>

(* prefetchErrorHandler, then the finally callback.                            *)
prefetchFinally ==
    /\ op["prefetch"].pc = "settled"
    /\ error' = (error \/ (~disposed /\ op["prefetch"].result = "err"))
    /\ prefetching' = FALSE
    /\ poll' = (poll \/ ~disposed)
    /\ op' = [op EXCEPT !["prefetch"] = idleOp]
    /\ UNCHANGED <<given, cachedPeriod, slot, cached, fetched, ended, req>>

(* ---- getSegment ---- *)
getSegment(g, t) ==
    /\ op[g].pc = "idle"
    /\ active
    /\ op' = [op EXCEPT ![g] = lookup(t)]
    /\ UNCHANGED <<given, cachedPeriod, slot, cached, fetched, ended, prefetching, error, poll, req>>

(* resetSlot(): a failed slot is cleared, so that it is requested again.       *)
erred(s) == slot[s].status = "erred"

getSegmentSlot(g) ==
    LET s == op[g].slot
        S == {u \in {s} \cap Slots : erred(u)}
    IN  /\ op[g].pc = "slot"
        /\ cached' = cached
        /\ \/ s = None /\ op' = [op EXCEPT ![g] = idleOp] /\ UNCHANGED <<slot, req>>
           \/ s # None /\ requestData(g, s, clearedSlots(S)[s], abortedReqs(S))
        /\ fetched' = fetched \ unfetched(S)
        /\ ended' = (ended /\ S = {})
        /\ UNCHANGED <<given, cachedPeriod, prefetching, error, poll>>

(* A getSegment close to the end of its segment starts prefetchImmediate() of  *)
(* the next one; once disposed, its lookup is rejected at once.                *)
prefetchImmediate(g) ==
    /\ op[g].pc = "await"
    /\ op["immediate"].pc = "idle"
    /\ ~disposed
    /\ \E t \in Times : op' = [op EXCEPT !["immediate"] = lookup(t)]
    /\ UNCHANGED <<given, cachedPeriod, slot, cached, fetched, ended, prefetching, error, poll, req>>

prefetchImmediateSlot ==
    LET s == op["immediate"].slot IN
    /\ op["immediate"].pc = "slot"
    /\ cached' = cached
    /\ \/ s = None /\ op' = [op EXCEPT !["immediate"] = idleOp] /\ UNCHANGED <<slot, req>>
       \/ s # None /\ requestData("immediate", s, slot[s], req)
    /\ UNCHANGED <<given, cachedPeriod, fetched, ended, prefetching, error, poll>>

(* ---- lifecycle ---- *)
configure(t) ==
    /\ ~disposed
    /\ startTime' = t
    /\ ended' = FALSE
    /\ poll' = TRUE
    /\ UNCHANGED <<active, currentTime, timeline, denylist, disposed>>
    /\ UNCHANGED <<cachedPeriod, slot, cached, fetched, prefetching, error, op, req>>

activate ==
    /\ ~disposed /\ ~active
    /\ active' = TRUE
    /\ poll' = TRUE
    /\ UNCHANGED <<startTime, currentTime, timeline, denylist, disposed>>
    /\ UNCHANGED <<cachedPeriod, slot, cached, fetched, ended, prefetching, error, op, req>>

(* deactivate() sweeps with the inactive range only; it does not poll.         *)
deactivate ==
    LET S == sweptSlots(inactiveRange) IN
    /\ active
    /\ active' = FALSE
    /\ req' = abortedReqs(S)
    /\ cached' = cached \ S
    /\ fetched' = fetched \ unfetched(S)
    /\ op' = op
    /\ slot' = collected(clearedSlots(S))
    /\ UNCHANGED <<startTime, currentTime, timeline, denylist, disposed>>
    /\ UNCHANGED <<cachedPeriod, ended, prefetching, error, poll>>

(* clear(): handlers off, every slot cleared, the caches and errors dropped.   *)
clearCache ==
    /\ req' = abortedReqs(cached)
    /\ cached' = {} /\ fetched' = {}
    /\ ended' = FALSE /\ error' = FALSE /\ cachedPeriod' = 0
    /\ slot' = collected([s \in Slots |->
                    [clearedSlots(cached)[s] EXCEPT !.onStatusChange = @ /\ s \notin cached]])

clear ==
    /\ ~disposed
    /\ op' = op
    /\ clearCache
    /\ poll' = TRUE
    /\ UNCHANGED <<given, prefetching>>

(* A hard reset after a codec failed to decode: denylist it, then clear().     *)
denylistAndClear(q) ==
    /\ ~disposed
    /\ q \notin denylist
    /\ denylist' = denylist \cup {q}
    /\ op' = op
    /\ clearCache
    /\ poll' = TRUE
    /\ UNCHANGED <<active, startTime, currentTime, timeline, disposed, prefetching>>

(* reset(): failed slots are cleared, the error dropped.                       *)
reset ==
    LET S == {s \in cached : erred(s)} IN
    /\ ~disposed
    /\ req' = abortedReqs(S)
    /\ slot' = clearedSlots(S)
    /\ fetched' = fetched \ unfetched(S)
    /\ ended' = (ended /\ S = {})
    /\ error' = FALSE
    /\ poll' = TRUE
    /\ UNCHANGED <<given, cachedPeriod, cached, prefetching, op>>

(* dispose(): deactivate and clear; lookups in flight and the prefetch's wait  *)
(* are raced with the controller's Abort.                                      *)
dispose ==
    /\ ~disposed
    /\ disposed' = TRUE /\ active' = FALSE
    /\ op' = [a \in Ops |->
                IF \/ op[a].pc \in {"timeline", "period", "segment"}
                   \/ a = "prefetch" /\ op[a].pc = "await"
                THEN resumed(a, "abort") ELSE op[a]]
    /\ clearCache
    /\ poll' = FALSE
    /\ UNCHANGED <<startTime, currentTime, timeline, denylist, prefetching>>

(* ---- events ---- *)
timelineChange ==
    /\ ~disposed
    /\ timeline + 1 \in Versions
    /\ timeline' = timeline + 1
    /\ ended' = FALSE
    /\ cachedPeriod' = 0
    /\ poll' = TRUE
    /\ UNCHANGED <<active, startTime, currentTime, denylist, disposed>>
    /\ UNCHANGED <<slot, cached, fetched, prefetching, error, op, req>>

timeUpdate ==
    /\ ~MicrotaskPending
    /\ active
    /\ currentTime < MaxTime
    /\ currentTime' = currentTime + 1
    /\ poll' = TRUE
    /\ UNCHANGED <<active, startTime, timeline, denylist, disposed>>
    /\ UNCHANGED <<cachedPeriod, slot, cached, fetched, ended, prefetching, error, op, req>>

seeking(t) ==
    /\ ~MicrotaskPending
    /\ active
    /\ currentTime' = t
    /\ ended' = FALSE /\ error' = FALSE
    /\ poll' = TRUE
    /\ UNCHANGED <<active, startTime, timeline, denylist, disposed>>
    /\ UNCHANGED <<cachedPeriod, slot, cached, fetched, prefetching, op, req>>

------------------------------------------------------------------------------
Environment ==
    \/ \E g \in Gets, t \in Times : getSegment(g, t)
    \/ \E g \in Gets : prefetchImmediate(g)
    \/ \E t \in Times : configure(t)
    \/ activate \/ deactivate \/ clear \/ reset \/ dispose
    \/ \E q \in Qualities : denylistAndClear(q)
    \/ timelineChange \/ timeUpdate
    \/ \E t \in Times : seeking(t)

Internal ==
    \/ pollPrefetch \/ prefetchStarts \/ prefetchSlot \/ prefetchFinally
    \/ \E a \in Ops : insertSlot(a) \/ \E q \in Qualities : selectQuality(a, q)
    \/ \E g \in Gets : getSegmentSlot(g)
    \/ prefetchImmediateSlot
    \/ \E r \in Reqs : reaction(r) \/ networkSettles(r, "ok") \/ networkSettles(r, "err")

Call == calls < MaxCalls /\ calls' = calls + 1 /\ Environment

Progress == calls' = calls /\ Internal

Next == Call \/ Progress

Spec == Init /\ [][Next]_vars

(* Reactions run, the queue starts what it holds, lookups settle and the       *)
(* network answers (every request has a timeout).  One weak fairness suffices: *)
(* with the calls bounded, only an endless prefetch loop could starve another  *)
(* step, and that is what the liveness property excludes.                      *)
Fairness == WF_vars(Progress)

FairSpec == Spec /\ Fairness

------------------------------------------------------------------------------
(* Two lookups of one time may overlap, and both create a slot; the check      *)
(* after the await (SegmentControllerImpl.ts 571-576) keeps the cache at one   *)
(* slot per segment.                                                           *)
OneSlotPerSegment ==
    \A s, u \in cached : slot[s].seg = slot[u].seg => s = u

(* A cached slot is never corrupted by the late reaction of a request that was *)
(* aborted (SegmentDataSlot.ts 91-104 does not look whether the promise is     *)
(* still its own): its status always tells the truth about its promise.        *)
CachedSlotSound ==
    \A s \in cached :
        /\ slot[s].status = "inactive" <=> slot[s].promise = None
        /\ slot[s].status = "pending" <=> slot[s].promise \in Reqs
        /\ slot[s].status = "resolved" <=> slot[s].promise = "ok"
        /\ slot[s].status = "erred" <=> slot[s].promise = "err"

(* The invariant of the cache, with its parts: one slot per segment, and each  *)
(* slot true to its promise, across clears, resets, sweeps and late reactions. *)
CacheSound == TypeOK /\ OneSlotPerSegment /\ CachedSlotSound

(* A cached segment is downloaded by one request at a time.                    *)
OneRequestPerSlot ==
    \A q, r \in Reqs : (/\ req[q].state = "open" /\ req[r].state = "open"
                        /\ req[q].slot = req[r].slot /\ req[q].slot \in cached) => q = r

(* The prefetch is at rest although something is left to do: the track is      *)
(* active, no error, no end of media and no prefetch holds it back, no poll is *)
(* due, and a segment of the prefetch range is neither fetched nor requested   *)
(* by a getSegment (in flight, or failed and reported to its caller).          *)
requested(t) == \E s \in cached : slot[s].seg = t /\ slot[s].status \in {"pending", "erred"}

forgotten ==
    /\ active /\ ~error /\ ~ended /\ ~prefetching /\ ~poll
    /\ \E t \in gaps(fetched) : t < End[timeline] /\ ~requested(t)

(* The prefetch is not forgotten: its chain is kept alive only by the finally  *)
(* callback of each prefetch, and by every event that moves the range or drops *)
(* an error remembering to poll.  Two steps may break it, of which the next    *)
(* event makes up: a getSegment that retries a failed slot, which revokes an   *)
(* end of media without a poll, and the reaction of a request that was aborted *)
(* by a sweep, which drops the range of its segment although that has been     *)
(* fetched again meanwhile (SegmentControllerImpl.ts 346-356, 740-751).        *)
retries ==
    \E g \in Gets : /\ op[g].pc = "slot" /\ op'[g].pc # "slot"
                    /\ op[g].slot \in Slots /\ erred(op[g].slot)

lateAbort ==
    \E r \in Reqs : /\ req[r].state = "abort" /\ req'[r].state = "free"
                    /\ slot[req[r].slot].seg \in fetched

PrefetchNotForgotten == [][forgotten' => forgotten \/ retries \/ lateAbort]_vars

(* Prefetching comes to rest once nothing external happens any more: it never  *)
(* polls forever over a segment it already holds, whose range was dropped      *)
(* behind its back and which answers request() with a settled promise and no   *)
(* status change.                                                              *)
PrefetchComesToRest == <>[](poll = FALSE /\ prefetching = FALSE)
=============================================================================
