----------------------- MODULE SegmentControllerProofs -----------------------
(* Proofs about SegmentController, for any slots, requests, getSegment calls,  *)
(* qualities, timelines and ranges, and any number of calls and events.        *)
EXTENDS SegmentController, TLAPS, SequenceTheorems, WellFoundedInduction

------------------------------------------------------------------------------
\* The inductive invariant

(* What the variables of the cache are, without the bounds on the calls.       *)
CacheTypes ==
    /\ slot \in [Slots -> SlotRecs]
    /\ cached \in SUBSET Slots
    /\ op \in [Ops -> OpRecs]
    /\ req \in [Reqs -> ReqRecs]

(* The other variables.                                                        *)
OtherTypes ==
    /\ active \in BOOLEAN /\ ended \in BOOLEAN /\ prefetching \in BOOLEAN
    /\ error \in BOOLEAN /\ disposed \in BOOLEAN /\ poll \in BOOLEAN
    /\ startTime \in Times /\ currentTime \in Times
    /\ timeline \in Versions /\ cachedPeriod \in Versions \cup {0}
    /\ denylist \in SUBSET Qualities /\ fetched \in SUBSET Times
    /\ calls \in 0..MaxCalls

(* A slot that is cached, or held by an operation or a request, has not been   *)
(* collected: its identity is not given to another slot.                       *)
RefsInv ==
    /\ \A s \in cached : slot[s].quality \in Qualities
    /\ \A a \in Ops : op[a].slot # None => slot[op[a].slot].quality \in Qualities
    /\ \A r \in Reqs : req[r].state # "free" =>
          req[r].slot \in Slots /\ slot[req[r].slot].quality \in Qualities

(* What an operation carries from one await to the next.                       *)
OpsInv ==
    \A a \in Ops :
        /\ op[a].pc \in {"timeline", "period", "segment"} => op[a].version \in Versions
        /\ op[a].pc = "segment" => op[a].quality \in Qualities

(* The request of a cached slot is the slot's promise, and none of an earlier  *)
(* promise is left: the cached slots that are cleared have failed, and those   *)
(* that are aborted leave the cache.                                           *)
PromisesInv ==
    /\ \A r \in Reqs : req[r].state # "free" /\ req[r].slot \in cached =>
          req[r].state # "abort" /\ slot[req[r].slot].promise = r
    /\ \A s \in cached : slot[s].promise \in Reqs =>
          req[slot[s].promise].slot = s /\ req[slot[s].promise].state # "free"

(* Every cached slot has its range handler; only the end of a prefetch, which  *)
(* polls, ends the state of prefetching; a disposed controller is not active.  *)
ChainInv ==
    /\ \A s \in cached : slot[s].onStatusChange = TRUE
    /\ op["prefetch"].pc # "idle" => prefetching
    /\ disposed => ~active

CacheInv ==
    /\ CacheTypes /\ RefsInv /\ OpsInv /\ PromisesInv
    /\ OneSlotPerSegment /\ CachedSlotSound

Inductive == CacheInv /\ OtherTypes /\ ChainInv

------------------------------------------------------------------------------
\* Constants and records

(* The versions of the timeline are positive, and no segment of theirs begins  *)
(* after the last time.                                                        *)
LEMMA Constants ==
    /\ Versions \subseteq Nat \ {0} /\ 1 \in Versions
    /\ \A v \in Versions : End[v] \in 0..(MaxTime + 1)
    /\ MaxTime \in Nat /\ 0 \in Times /\ Times \subseteq Nat
    /\ PrefetchInactive \in Nat /\ PrefetchActive \in Nat
    /\ RetainTail \in Nat /\ MaxCalls \in Nat
    /\ None \notin Slots /\ None \notin Reqs /\ None \notin Qualities
    /\ "ok" \notin Reqs /\ "err" \notin Reqs
    /\ "prefetch" \notin Gets /\ "immediate" \notin Gets
    /\ Gets \subseteq Ops /\ "prefetch" \in Ops /\ "immediate" \in Ops
<1>1. End \in Seq(0..(MaxTime + 1)) /\ End # <<>>
  BY SegmentControllerAssumption
<1>2. DOMAIN End = 1..Len(End) /\ Len(End) \in Nat /\ Len(End) # 0
  BY <1>1, LenProperties, EmptySeq
<1>3. \A v \in 1..Len(End) : End[v] \in 0..(MaxTime + 1)
  BY <1>1, ElementOfSeq
<1>4. Versions \subseteq Nat \ {0} /\ 1 \in Versions
  BY <1>2 DEF Versions
<1>5. MaxTime \in Nat /\ 0 \in Times /\ Times \subseteq Nat
  BY SegmentControllerAssumption DEF Times
<1>6. QED
  BY <1>2, <1>3, <1>4, <1>5, SegmentControllerAssumption DEF Versions, Ops

(* One operation's record is replaced.                                         *)
LEMMA OpUpdated ==
    ASSUME NEW a \in Ops, NEW n \in OpRecs, op \in [Ops -> OpRecs],
           op' = [op EXCEPT ![a] = n]
    PROVE  /\ op' \in [Ops -> OpRecs]
           /\ op'[a] = n
           /\ \A b \in Ops : b # a => op'[b] = op[b]
OBVIOUS

(* One slot's record is replaced.                                              *)
LEMMA SlotUpdated ==
    ASSUME NEW s \in Slots, NEW n \in SlotRecs, slot \in [Slots -> SlotRecs],
           NEW slots, slots = [slot EXCEPT ![s] = n]
    PROVE  /\ slots \in [Slots -> SlotRecs]
           /\ slots[s] = n
           /\ \A u \in Slots : u # s => slots[u] = slot[u]
OBVIOUS

(* One request's record is replaced.                                           *)
LEMMA ReqUpdated ==
    ASSUME NEW r \in Reqs, NEW n \in ReqRecs, NEW rq \in [Reqs -> ReqRecs],
           req' = [rq EXCEPT ![r] = n]
    PROVE  /\ req' \in [Reqs -> ReqRecs]
           /\ req'[r] = n
           /\ \A q \in Reqs : q # r => req'[q] = rq[q]
OBVIOUS

(* An operation that is idle, or has settled, or waits, carries nothing.       *)
LEMMA OpRecords ==
    /\ idleOp \in OpRecs /\ idleOp.pc = "idle" /\ idleOp.slot = None
    /\ \A o \in Promises \cup {"abort"} :
          LET n == [idleOp EXCEPT !.pc = "settled", !.result = o]
          IN  n \in OpRecs /\ n.pc = "settled" /\ n.slot = None /\ n.result = o
    /\ \A r \in Reqs :
          awaiting(r) \in OpRecs /\ awaiting(r).pc = "await" /\ awaiting(r).slot = None
    /\ freeSlot \in SlotRecs /\ freeSlot.status = "inactive" /\ freeSlot.promise = None
    /\ freeSlot.quality = None
    /\ freeReq \in ReqRecs /\ freeReq.state = "free"
<1>1. idleOp \in OpRecs /\ idleOp.pc = "idle" /\ idleOp.slot = None
  BY Constants DEF idleOp, OpRecs, OpPcs, Promises
<1>2. \A o \in Promises \cup {"abort"} :
          LET n == [idleOp EXCEPT !.pc = "settled", !.result = o]
          IN  n \in OpRecs /\ n.pc = "settled" /\ n.slot = None /\ n.result = o
  BY <1>1 DEF OpRecs, OpPcs
<1>3. \A r \in Reqs :
          awaiting(r) \in OpRecs /\ awaiting(r).pc = "await" /\ awaiting(r).slot = None
  BY <1>1 DEF awaiting, OpRecs, OpPcs, Promises
<1>4. /\ freeSlot \in SlotRecs /\ freeSlot.status = "inactive" /\ freeSlot.promise = None
      /\ freeSlot.quality = None
  BY Constants DEF freeSlot, newSlot, SlotRecs, Promises
<1>5. freeReq \in ReqRecs /\ freeReq.state = "free"
  BY DEF freeReq, ReqRecs
<1>6. QED
  BY <1>1, <1>2, <1>3, <1>4, <1>5

------------------------------------------------------------------------------
\* What the operators of the cache do

(* Collection leaves what is cached or held, and frees the rest.               *)
LEMMA Collected ==
    ASSUME NEW slots \in [Slots -> SlotRecs], slot' = collected(slots)
    PROVE  /\ slot' \in [Slots -> SlotRecs]
           /\ \A s \in Slots : s \in cached' => slot'[s] = slots[s]
           /\ \A a \in Ops : op'[a].slot \in Slots => slot'[op'[a].slot] = slots[op'[a].slot]
           /\ \A r \in Reqs : req'[r].slot \in Slots => slot'[req'[r].slot] = slots[req'[r].slot]
           /\ \A s \in Slots : slot'[s] = slots[s] \/ slot'[s] = freeSlot
<1>1. \A s \in Slots :
         slot'[s] = IF \/ s \in cached'
                       \/ \E a \in Ops : op'[a].slot = s
                       \/ \E r \in Reqs : req'[r].slot = s
                    THEN slots[s] ELSE freeSlot
  BY DEF collected
<1>2. slot' \in [Slots -> SlotRecs]
  <2>1. slot' = [s \in Slots |-> slot'[s]]
    BY DEF collected
  <2>2. \A s \in Slots : slot'[s] \in SlotRecs
    BY <1>1, OpRecords
  <2>3. QED
    BY <2>1, <2>2
<1>3. QED
  BY <1>1, <1>2

(* The slots of S that are cleared lose their promise, the others nothing.     *)
LEMMA Cleared ==
    ASSUME CacheTypes, NEW S
    PROVE  /\ clearedSlots(S) \in [Slots -> SlotRecs]
           /\ \A s \in Slots :
                 LET n == clearedSlots(S)[s]
                 IN  /\ n.quality = slot[s].quality /\ n.seg = slot[s].seg
                     /\ n.onStatusChange = slot[s].onStatusChange
                     /\ s \notin S => n = slot[s]
                     /\ s \in S => n.status = "inactive"
                     /\ s \in S /\ slot[s].status # "inactive" => n.promise = None
<1>1. \A s \in Slots : slot[s] \in SlotRecs
  BY DEF CacheTypes
<1>2. ASSUME NEW s \in Slots
      PROVE  LET n == clearedSlots(S)[s]
             IN  /\ n \in SlotRecs
                 /\ n.quality = slot[s].quality /\ n.seg = slot[s].seg
                 /\ n.onStatusChange = slot[s].onStatusChange
                 /\ s \notin S => n = slot[s]
                 /\ s \in S => n.status = "inactive"
                 /\ s \in S /\ slot[s].status # "inactive" => n.promise = None
  <2>1. slot[s] \in SlotRecs
    BY <1>1
  <2>2. CASE s \in S /\ slot[s].status # "inactive"
    <3> DEFINE n == [slot[s] EXCEPT !.status = "inactive", !.promise = None]
    <3>1. /\ n \in SlotRecs /\ n.quality = slot[s].quality /\ n.seg = slot[s].seg
          /\ n.status = "inactive" /\ n.promise = None
          /\ n.onStatusChange = slot[s].onStatusChange
      BY <2>1 DEF SlotRecs, Promises
    <3>2. clearedSlots(S)[s] = n
      BY <2>2 DEF clearedSlots
    <3> HIDE DEF n
    <3>3. QED
      BY <2>2, <3>1, <3>2
  <2>3. CASE ~(s \in S /\ slot[s].status # "inactive")
    <3>1. clearedSlots(S)[s] = slot[s]
      BY <2>3 DEF clearedSlots
    <3>2. QED
      BY <2>1, <2>3, <3>1
  <2>4. QED
    BY <2>2, <2>3
<1>3. clearedSlots(S) \in [Slots -> SlotRecs]
  <2>1. clearedSlots(S) = [s \in Slots |-> clearedSlots(S)[s]]
    BY DEF clearedSlots
  <2>2. QED
    BY <1>2, <2>1
<1>4. QED
  BY <1>2, <1>3

(* Only the open requests of the slots of S are aborted.                       *)
LEMMA Aborted ==
    ASSUME CacheTypes, NEW S
    PROVE  /\ abortedReqs(S) \in [Reqs -> ReqRecs]
           /\ \A r \in Reqs :
                 LET n == abortedReqs(S)[r]
                 IN  /\ n.slot = req[r].slot
                     /\ n.state = "free" <=> req[r].state = "free"
                     /\ \/ n = req[r]
                        \/ req[r].state = "open" /\ req[r].slot \in S /\ n.state = "abort"
<1>1. ASSUME NEW r \in Reqs
      PROVE  LET n == abortedReqs(S)[r]
             IN  /\ n \in ReqRecs
                 /\ n.slot = req[r].slot
                 /\ n.state = "free" <=> req[r].state = "free"
                 /\ \/ n = req[r]
                    \/ req[r].state = "open" /\ req[r].slot \in S /\ n.state = "abort"
  <2>1. req[r] \in ReqRecs
    BY DEF CacheTypes
  <2> DEFINE b == /\ req[r].state = "open" /\ req[r].slot \in S
                  /\ slot[req[r].slot].status # "inactive"
  <2>2. CASE b
    <3> DEFINE n == [req[r] EXCEPT !.state = "abort"]
    <3>1. n \in ReqRecs /\ n.slot = req[r].slot /\ n.state = "abort"
      BY <2>1 DEF ReqRecs
    <3>2. abortedReqs(S)[r] = n
      BY <2>2 DEF abortedReqs
    <3> HIDE DEF n
    <3>3. QED
      BY <2>2, <3>1, <3>2
  <2>3. CASE ~b
    <3>1. abortedReqs(S)[r] = req[r]
      BY <2>3 DEF abortedReqs
    <3>2. QED
      BY <2>1, <3>1
  <2>4. QED
    BY <2>2, <2>3
<1>2. abortedReqs(S) = [r \in Reqs |-> abortedReqs(S)[r]]
  BY DEF abortedReqs
<1>3. QED
  BY <1>1, <1>2

(* What a lookup finds at once is a cached slot.                               *)
LEMMA Lookup ==
    ASSUME CacheTypes, cachedPeriod \in Versions \cup {0}, timeline \in Versions,
           NEW t \in Times \cup {MaxTime + 1}
    PROVE  /\ lookup(t) \in OpRecs
           /\ lookup(t).slot = None \/ lookup(t).slot \in cached
           /\ lookup(t).pc \in {"slot", "period", "timeline"}
           /\ lookup(t).pc # "slot" => lookup(t).version \in Versions
<1>1. CASE \E s \in cached : slot[s].seg = t
  <2> DEFINE u == CHOOSE s \in cached : slot[s].seg = t
             n == [idleOp EXCEPT !.pc = "slot", !.time = t, !.slot = u]
  <2>1. u \in cached
    BY <1>1
  <2>2. u \in Slots
    BY <2>1 DEF CacheTypes
  <2>3. lookup(t) = n
    BY <1>1 DEF lookup
  <2> HIDE DEF u
  <2>4. n \in OpRecs /\ n.slot = u /\ n.pc = "slot"
    BY <2>2, OpRecords DEF OpRecs, OpPcs
  <2> HIDE DEF n
  <2>5. QED
    BY <2>1, <2>3, <2>4
<1>2. CASE ~\E s \in cached : slot[s].seg = t
  <2> DEFINE p == IF cachedPeriod # 0 THEN "period" ELSE "timeline"
             v == IF cachedPeriod # 0 THEN cachedPeriod ELSE timeline
             n == [idleOp EXCEPT !.time = t, !.pc = p, !.version = v]
  <2>1. p \in {"period", "timeline"} /\ v \in Versions
    BY Constants
  <2>2. lookup(t) = n
    BY <1>2 DEF lookup
  <2> HIDE DEF p, v
  <2>3. n \in OpRecs /\ n.slot = None /\ n.pc = p /\ n.version = v
    BY <2>1, OpRecords DEF OpRecs, OpPcs
  <2> HIDE DEF n
  <2>4. QED
    BY <2>1, <2>2, <2>3
<1>3. QED
  BY <1>1, <1>2

(* The first gap of the prefetch range is at most the first time after all.    *)
LEMMA FirstGap ==
    ASSUME OtherTypes, NEW ranges \in SUBSET Times, gaps(ranges) # {}
    PROVE  firstGap(ranges) \in Times \cup {MaxTime + 1}
<1> DEFINE below == {ss \in Nat \X Nat : ss[1] < ss[2]}
           from == IF active THEN currentTime ELSE startTime
           to == IF active THEN currentTime + PrefetchActive - 1
                 ELSE startTime + PrefetchInactive - 1
<1>1. from \in Times /\ from \in Nat /\ to \in Int
  BY Constants DEF OtherTypes
<1>2. prefetchRange = from..to
  BY DEF prefetchRange, activeRange, inactiveRange
<1>3. gaps(ranges) \subseteq Nat /\ gaps(ranges) \subseteq from..to
  <2> HIDE DEF from, to
  <2>1. QED
    BY <1>1, <1>2 DEF gaps
<1>4. IsWellFoundedOn(below, Nat)
  BY NatLessThanWellFounded DEF OpToRel
<1>5. PICK t \in gaps(ranges) : \A u \in gaps(ranges) : <<u, t>> \notin below
  <2> HIDE DEF below
  <2>1. QED
    BY <1>3, <1>4, WFMin
<1>6. \A u \in gaps(ranges) : t <= u
  <2> TAKE u \in gaps(ranges)
  <2>1. t \in Nat /\ u \in Nat /\ ~(u < t)
    BY <1>3, <1>5
  <2>2. QED
    BY <2>1
<1>7. /\ firstGap(ranges) \in gaps(ranges)
      /\ \A u \in gaps(ranges) : firstGap(ranges) <= u
  BY <1>6 DEF firstGap
<1> HIDE DEF from, to
<1>8. ASSUME firstGap(ranges) > MaxTime + 1
      PROVE  FALSE
  <2>1. MaxTime + 1 \in from..to
    BY <1>1, <1>3, <1>7, <1>8, Constants DEF Times
  <2>2. MaxTime + 1 \notin ranges
    BY Constants DEF Times
  <2>3. MaxTime + 1 \in gaps(ranges)
    BY <1>2, <2>1, <2>2 DEF gaps
  <2>4. QED
    BY <1>3, <1>7, <1>8, <2>3, Constants
<1>9. QED
  BY <1>1, <1>3, <1>7, <1>8, Constants DEF Times

------------------------------------------------------------------------------
\* Steps on the cache

(* Operations go on; the slots they hold are slots they held, or cached ones.  *)
LEMMA OpsStep ==
    ASSUME CacheInv, UNCHANGED <<slot, cached, req>>,
           op' \in [Ops -> OpRecs], OpsInv',
           \A a \in Ops : op'[a].slot \in {None, op[a].slot} \cup cached
    PROVE  CacheInv'
<1>1. CacheTypes'
  BY DEF CacheInv, CacheTypes
<1>2. RefsInv'
  BY DEF CacheInv, RefsInv
<1>3. (PromisesInv /\ OneSlotPerSegment /\ CachedSlotSound)'
  BY DEF CacheInv, PromisesInv, OneSlotPerSegment, CachedSlotSound
<1>4. QED
  BY <1>1, <1>2, <1>3 DEF CacheInv

(* Slots leave the cache, their requests are aborted, and what they were is    *)
(* left only to whom still holds them.                                         *)
LEMMA SweepStep ==
    ASSUME CacheInv, NEW S \in SUBSET cached, NEW slots \in [Slots -> SlotRecs],
           \A s \in Slots : slots[s].quality = slot[s].quality,
           \A s \in Slots : s \notin S => slots[s] = slot[s],
           cached' = cached \ S, req' = abortedReqs(S), slot' = collected(slots),
           op' \in [Ops -> OpRecs], OpsInv',
           \A a \in Ops : op'[a].slot \in {None, op[a].slot}
    PROVE  CacheInv'
<1>1. CacheTypes /\ cached \in SUBSET Slots
  BY DEF CacheInv, CacheTypes
<1>2. /\ slot' \in [Slots -> SlotRecs]
      /\ \A s \in Slots : s \in cached' => slot'[s] = slots[s]
      /\ \A a \in Ops : op'[a].slot \in Slots => slot'[op'[a].slot] = slots[op'[a].slot]
      /\ \A r \in Reqs : req'[r].slot \in Slots => slot'[req'[r].slot] = slots[req'[r].slot]
  BY Collected
<1>3. /\ req' \in [Reqs -> ReqRecs]
      /\ \A r \in Reqs :
            /\ req'[r].slot = req[r].slot
            /\ req'[r].state = "free" <=> req[r].state = "free"
            /\ \/ req'[r] = req[r]
               \/ req[r].state = "open" /\ req[r].slot \in S /\ req'[r].state = "abort"
  BY <1>1, Aborted
<1>4. \A s \in cached' : s \in Slots /\ s \in cached /\ s \notin S /\ slot'[s] = slot[s]
  BY <1>1, <1>2
<1>5. CacheTypes'
  BY <1>1, <1>2, <1>3 DEF CacheTypes
<1>6. RefsInv'
  <2>1. \A s \in cached' : slot'[s].quality \in Qualities
    BY <1>4 DEF CacheInv, RefsInv
  <2>2. ASSUME NEW a \in Ops, op'[a].slot # None
        PROVE  slot'[op'[a].slot].quality \in Qualities
    <3>1. op'[a].slot = op[a].slot /\ op[a] \in OpRecs
      BY <1>1, <2>2 DEF CacheTypes
    <3>2. op'[a].slot \in Slots
      BY <2>2, <3>1 DEF OpRecs
    <3>3. slot[op[a].slot].quality \in Qualities
      BY <2>2, <3>1 DEF CacheInv, RefsInv
    <3>4. QED
      BY <1>2, <3>1, <3>2, <3>3
  <2>3. \A r \in Reqs : req'[r].state # "free" =>
          req'[r].slot \in Slots /\ slot'[req'[r].slot].quality \in Qualities
    BY <1>2, <1>3 DEF CacheInv, RefsInv
  <2>4. QED
    BY <2>1, <2>2, <2>3 DEF RefsInv
<1>7. PromisesInv'
  <2>1. \A r \in Reqs : req'[r].state # "free" /\ req'[r].slot \in cached' =>
          req'[r].state # "abort" /\ slot'[req'[r].slot].promise = r
    BY <1>3, <1>4 DEF CacheInv, PromisesInv
  <2>2. \A s \in cached' : slot'[s].promise \in Reqs =>
          req'[slot'[s].promise].slot = s /\ req'[slot'[s].promise].state # "free"
    BY <1>3, <1>4 DEF CacheInv, PromisesInv
  <2>3. QED
    BY <2>1, <2>2 DEF PromisesInv
<1>8. (OneSlotPerSegment /\ CachedSlotSound)'
  BY <1>4 DEF CacheInv, OneSlotPerSegment, CachedSlotSound
<1>9. QED
  BY <1>5, <1>6, <1>7, <1>8 DEF CacheInv

(* Clearing failed slots aborts nothing that the cache refers to.              *)
LEMMA ResetStep ==
    ASSUME CacheInv, NEW S \in SUBSET Slots, \A s \in S : erred(s),
           cached' = cached, op' = op, req' = abortedReqs(S), slot' = clearedSlots(S)
    PROVE  CacheInv'
<1>1. CacheTypes /\ cached \in SUBSET Slots
  BY DEF CacheInv, CacheTypes
<1>2. /\ slot' \in [Slots -> SlotRecs]
      /\ \A s \in Slots :
            /\ slot'[s].quality = slot[s].quality /\ slot'[s].seg = slot[s].seg
            /\ s \notin S => slot'[s] = slot[s]
            /\ s \in S => slot'[s].status = "inactive" /\ slot'[s].promise = None
  BY <1>1, Cleared DEF erred
<1>3. /\ req' \in [Reqs -> ReqRecs]
      /\ \A r \in Reqs :
            /\ req'[r].slot = req[r].slot
            /\ req'[r].state = "free" <=> req[r].state = "free"
            /\ \/ req'[r] = req[r]
               \/ req[r].state = "open" /\ req[r].slot \in S /\ req'[r].state = "abort"
  BY <1>1, Aborted
<1>4. \A s \in cached : s \in S => slot[s].promise = "err"
  BY DEF CacheInv, CachedSlotSound, erred
<1>5. \A r \in Reqs : req[r].state # "free" /\ req[r].slot \in cached => req[r].slot \notin S
  BY <1>4, Constants DEF CacheInv, PromisesInv
<1>6. CacheTypes'
  BY <1>1, <1>2, <1>3 DEF CacheTypes
<1>7. RefsInv'
  <2>1. \A s \in cached' : slot'[s].quality \in Qualities
    BY <1>1, <1>2 DEF CacheInv, RefsInv
  <2>2. ASSUME NEW a \in Ops, op'[a].slot # None
        PROVE  slot'[op'[a].slot].quality \in Qualities
    <3>1. op[a] \in OpRecs
      BY <1>1 DEF CacheTypes
    <3>2. op'[a].slot \in Slots
      BY <2>2, <3>1 DEF OpRecs
    <3>3. QED
      BY <1>2, <2>2, <3>2 DEF CacheInv, RefsInv
  <2>3. \A r \in Reqs : req'[r].state # "free" =>
          req'[r].slot \in Slots /\ slot'[req'[r].slot].quality \in Qualities
    BY <1>2, <1>3 DEF CacheInv, RefsInv
  <2>4. QED
    BY <2>1, <2>2, <2>3 DEF RefsInv
<1>8. PromisesInv'
  <2>1. \A r \in Reqs : req'[r].state # "free" /\ req'[r].slot \in cached' =>
          req'[r].state # "abort" /\ slot'[req'[r].slot].promise = r
    BY <1>1, <1>2, <1>3, <1>5 DEF CacheInv, PromisesInv
  <2>2. ASSUME NEW s \in cached', slot'[s].promise \in Reqs
        PROVE  req'[slot'[s].promise].slot = s /\ req'[slot'[s].promise].state # "free"
    <3>1. s \in cached /\ s \in Slots /\ s \notin S
      BY <1>1, <1>2, <2>2, Constants
    <3>2. QED
      BY <1>2, <1>3, <2>2, <3>1 DEF CacheInv, PromisesInv
  <2>3. QED
    BY <2>1, <2>2 DEF PromisesInv
<1>9. OneSlotPerSegment'
  BY <1>1, <1>2 DEF CacheInv, OneSlotPerSegment
<1>10. CachedSlotSound'
  <2> SUFFICES ASSUME NEW s \in cached
               PROVE  /\ slot'[s].status = "inactive" <=> slot'[s].promise = None
                      /\ slot'[s].status = "pending" <=> slot'[s].promise \in Reqs
                      /\ slot'[s].status = "resolved" <=> slot'[s].promise = "ok"
                      /\ slot'[s].status = "erred" <=> slot'[s].promise = "err"
    BY DEF CachedSlotSound
  <2>1. CASE s \in S
    BY <1>1, <1>2, <2>1, Constants, "ok" # None, "err" # None DEF None
  <2>2. CASE s \notin S
    BY <1>1, <1>2, <2>2 DEF CacheInv, CachedSlotSound
  <2>3. QED
    BY <2>1, <2>2
<1>11. OpsInv'
  BY DEF CacheInv, OpsInv
<1>12. QED
  BY <1>6, <1>7, <1>8, <1>9, <1>10, <1>11 DEF CacheInv

(* request() by an operation on its slot, which is cleared first if it had     *)
(* failed: a cached slot has at most one request, its promise.                 *)
LEMMA RequestStep ==
    ASSUME CacheInv, NEW a \in Ops, NEW s \in Slots, op[a].slot = s,
           NEW S \in SUBSET {s}, \A u \in S : erred(u),
           requestData(a, s, clearedSlots(S)[s], abortedReqs(S)), cached' = cached
    PROVE  CacheInv'
<1> DEFINE sl == clearedSlots(S)[s]
           rq == abortedReqs(S)
<1>1. /\ CacheTypes /\ cached \in SUBSET Slots
      /\ slot[s] \in SlotRecs /\ slot[s].quality \in Qualities
  BY Constants DEF CacheInv, CacheTypes, RefsInv
<1>2. /\ sl \in SlotRecs /\ sl.quality = slot[s].quality /\ sl.seg = slot[s].seg
      /\ s \notin S => sl = slot[s]
      /\ s \in S => sl.promise = None
  BY <1>1, Cleared DEF erred
<1>3. /\ rq \in [Reqs -> ReqRecs]
      /\ \A r \in Reqs :
            /\ rq[r].slot = req[r].slot
            /\ rq[r].state = "free" <=> req[r].state = "free"
            /\ \/ rq[r] = req[r]
               \/ req[r].state = "open" /\ req[r].slot \in S /\ rq[r].state = "abort"
  BY <1>1, Aborted
<1>4. requestData(a, s, sl, rq)
  OBVIOUS
<1> HIDE DEF sl, rq
<1>5. CASE sl.promise = None
  <2>1. PICK r \in Reqs :
           /\ rq[r].state = "free"
           /\ req' = [rq EXCEPT ![r] = [slot |-> s, state |-> "open"]]
           /\ op' = [op EXCEPT ![a] = awaiting(r)]
           /\ slot' = [slot EXCEPT ![s] = [sl EXCEPT !.status = "pending", !.promise = r]]
    BY <1>4, <1>5 DEF requestData
  <2> DEFINE n == [sl EXCEPT !.status = "pending", !.promise = r]
             q == [slot |-> s, state |-> "open"]
  <2>2. /\ n \in SlotRecs /\ n.quality = slot[s].quality /\ n.seg = slot[s].seg
        /\ n.status = "pending" /\ n.promise = r
    BY <1>2 DEF SlotRecs, Promises
  <2>3. q \in ReqRecs /\ q.slot = s /\ q.state = "open"
    BY DEF ReqRecs
  <2>4. req' = [rq EXCEPT ![r] = q] /\ slot' = [slot EXCEPT ![s] = n]
    BY <2>1
  <2> HIDE DEF n, q
  <2>5. /\ slot' \in [Slots -> SlotRecs] /\ slot'[s] = n
        /\ \A u \in Slots : u # s => slot'[u] = slot[u]
    BY <1>1, <2>2, <2>4 DEF CacheTypes
  <2>6. /\ req' \in [Reqs -> ReqRecs] /\ req'[r] = q
        /\ \A p \in Reqs : p # r => req'[p] = rq[p]
    BY <1>3, <2>3, <2>4, ReqUpdated
  <2>7. /\ op' \in [Ops -> OpRecs] /\ op'[a] = awaiting(r)
        /\ \A b \in Ops : b # a => op'[b] = op[b]
        /\ op'[a].slot = None /\ op'[a].pc = "await"
    <3>1. awaiting(r) \in OpRecs /\ awaiting(r).slot = None /\ awaiting(r).pc = "await"
      BY OpRecords
    <3>2. QED
      BY <1>1, <2>1, <3>1, OpUpdated DEF CacheTypes
  <2>8. \A u \in Slots : slot'[u].quality = slot[u].quality /\ slot'[u].seg = slot[u].seg
    BY <2>2, <2>5
  <2>9. \A p \in Reqs : req[p].state # "free" /\ req[p].slot \in cached => req[p].slot # s
    <3> SUFFICES ASSUME NEW p \in Reqs, req[p].state # "free", req[p].slot = s, s \in cached
                 PROVE  FALSE
      OBVIOUS
    <3>1. slot[s].promise = p
      BY DEF CacheInv, PromisesInv
    <3>2. s \in S => slot[s].promise = "err"
      BY DEF CacheInv, CachedSlotSound, erred
    <3>3. QED
      BY <1>2, <1>5, <3>1, <3>2, Constants
  <2>10. req[r].state = "free"
    BY <1>3, <2>1
  <2>11. CacheTypes'
    BY <1>1, <2>5, <2>6, <2>7 DEF CacheTypes
  <2>12. RefsInv'
    <3>1. \A u \in cached' : slot'[u].quality \in Qualities
      BY <1>1, <2>8 DEF CacheInv, RefsInv
    <3>2. ASSUME NEW b \in Ops, op'[b].slot # None
          PROVE  slot'[op'[b].slot].quality \in Qualities
      <4>1. b # a /\ op'[b] = op[b] /\ op[b] \in OpRecs
        BY <1>1, <2>7, <3>2 DEF CacheTypes
      <4>2. op[b].slot \in Slots
        BY <3>2, <4>1 DEF OpRecs
      <4>3. QED
        BY <2>8, <3>2, <4>1, <4>2 DEF CacheInv, RefsInv
    <3>3. ASSUME NEW p \in Reqs, req'[p].state # "free"
          PROVE  req'[p].slot \in Slots /\ slot'[req'[p].slot].quality \in Qualities
      <4>1. CASE p = r
        BY <1>1, <2>3, <2>6, <2>8, <4>1
      <4>2. CASE p # r
        BY <1>3, <2>6, <2>8, <3>3, <4>2 DEF CacheInv, RefsInv
      <4>3. QED
        BY <4>1, <4>2
    <3>4. QED
      BY <3>1, <3>2, <3>3 DEF RefsInv
  <2>13. PromisesInv'
    <3>1. ASSUME NEW p \in Reqs, req'[p].state # "free", req'[p].slot \in cached'
          PROVE  req'[p].state # "abort" /\ slot'[req'[p].slot].promise = p
      <4>1. CASE p = r
        BY <2>2, <2>3, <2>5, <2>6, <4>1
      <4>2. CASE p # r
        <5>1. /\ req[p].state # "free" /\ req[p].slot \in cached /\ req'[p].slot = req[p].slot
              /\ req[p].slot # s
          BY <1>3, <2>6, <2>9, <3>1, <4>2
        <5>2. req'[p] = req[p]
          BY <1>3, <2>6, <4>2, <5>1
        <5>3. QED
          BY <1>1, <2>5, <5>1, <5>2 DEF CacheInv, PromisesInv
      <4>3. QED
        BY <4>1, <4>2
    <3>2. ASSUME NEW u \in cached', slot'[u].promise \in Reqs
          PROVE  req'[slot'[u].promise].slot = u /\ req'[slot'[u].promise].state # "free"
      <4>1. CASE u = s
        BY <2>2, <2>3, <2>5, <2>6, <4>1
      <4>2. CASE u # s
        <5>1. slot'[u] = slot[u] /\ u \in cached
          BY <1>1, <2>5, <4>2
        <5>2. /\ req[slot[u].promise].slot = u /\ req[slot[u].promise].state # "free"
              /\ slot[u].promise \in Reqs /\ slot[u].promise # r
          BY <2>10, <3>2, <5>1 DEF CacheInv, PromisesInv
        <5>3. QED
          BY <1>3, <2>6, <5>1, <5>2
      <4>3. QED
        BY <4>1, <4>2
    <3>3. QED
      BY <3>1, <3>2 DEF PromisesInv
  <2>14. OneSlotPerSegment'
    BY <1>1, <2>8 DEF CacheInv, OneSlotPerSegment
  <2>15. CachedSlotSound'
    <3> SUFFICES ASSUME NEW u \in cached
                 PROVE  /\ slot'[u].status = "inactive" <=> slot'[u].promise = None
                        /\ slot'[u].status = "pending" <=> slot'[u].promise \in Reqs
                        /\ slot'[u].status = "resolved" <=> slot'[u].promise = "ok"
                        /\ slot'[u].status = "erred" <=> slot'[u].promise = "err"
      BY DEF CachedSlotSound
    <3>1. CASE u = s
      BY <2>2, <2>5, <3>1, Constants
    <3>2. CASE u # s
      BY <1>1, <2>5, <3>2 DEF CacheInv, CachedSlotSound
    <3>3. QED
      BY <3>1, <3>2
  <2>16. OpsInv'
    BY <2>7 DEF CacheInv, OpsInv
  <2>17. QED
    BY <2>11, <2>12, <2>13, <2>14, <2>15, <2>16 DEF CacheInv
<1>6. CASE sl.promise # None
  <2>1. s \notin S /\ sl = slot[s]
    BY <1>2, <1>6
  <2>2. S = {}
    BY <2>1
  <2>3. rq = req
    <3>1. \A r \in Reqs : rq[r] = req[r]
      BY <1>3, <2>2
    <3>2. QED
      BY <1>1, <1>3, <3>1 DEF CacheTypes
  <2>4. /\ req' = rq
        /\ op' = [op EXCEPT ![a] = IF sl.promise \in Reqs THEN awaiting(sl.promise)
                                   ELSE resumed(a, sl.promise)]
        /\ slot' = collected([slot EXCEPT ![s] = sl])
    BY <1>4, <1>6 DEF requestData
  <2>5. [slot EXCEPT ![s] = sl] = slot
    BY <1>1, <2>1 DEF CacheTypes
  <2> DEFINE n == IF sl.promise \in Reqs THEN awaiting(sl.promise) ELSE resumed(a, sl.promise)
  <2>6. n \in OpRecs /\ n.slot = None /\ n.pc \in {"await", "settled", "idle"}
    <3>1. sl.promise \in Promises
      BY <1>2 DEF SlotRecs
    <3>2. QED
      BY <3>1, OpRecords DEF resumed
  <2>7. op' = [op EXCEPT ![a] = n]
    BY <2>4
  <2> HIDE DEF n
  <2>8. /\ op' \in [Ops -> OpRecs] /\ op'[a] = n
        /\ \A b \in Ops : b # a => op'[b] = op[b]
    BY <1>1, <2>6, <2>7, OpUpdated DEF CacheTypes
  <2>9. OpsInv'
    BY <2>6, <2>8 DEF CacheInv, OpsInv
  <2>10. \A b \in Ops : op'[b].slot \in {None, op[b].slot}
    BY <2>6, <2>8
  <2>11. cached' = cached \ {} /\ slot \in [Slots -> SlotRecs] /\ slot' = collected(slot)
    BY <1>1, <2>4, <2>5 DEF CacheTypes
  <2>12. req' = abortedReqs({})
    BY <2>2, <2>4 DEF rq
  <2>13. QED
    BY <2>8, <2>9, <2>10, <2>11, <2>12, SweepStep
<1>7. QED
  BY <1>5, <1>6

(* The reaction of a request: that of a cached slot is the slot's promise.     *)
LEMMA ReactionStep ==
    ASSUME CacheInv, NEW r \in Reqs, reaction(r)
    PROVE  CacheInv'
<1> DEFINE s == req[r].slot
           outcome == req[r].state
           sl == slot[s]
           p == IF sl.promise = r THEN outcome ELSE sl.promise
           n == CASE outcome = "ok" -> [sl EXCEPT !.status = "resolved", !.promise = p]
                  [] outcome = "err" -> [sl EXCEPT !.status = "erred", !.promise = p]
                  [] outcome = "abort" -> [sl EXCEPT !.status = "inactive", !.promise = None]
           m(a) == IF op[a].pc = "await" /\ op[a].result = r THEN resumed(a, outcome) ELSE op[a]
<1>1. /\ outcome \in {"ok", "err", "abort"}
      /\ req' = [req EXCEPT ![r] = freeReq] /\ cached' = cached
      /\ slot' = collected([slot EXCEPT ![s] = n])
      /\ op' = [a \in Ops |-> m(a)]
  BY DEF reaction
<1>2. /\ CacheTypes /\ cached \in SUBSET Slots /\ s \in Slots
      /\ sl \in SlotRecs /\ sl.quality \in Qualities
  BY <1>1 DEF CacheInv, CacheTypes, RefsInv
<1>3. /\ n \in SlotRecs /\ n.quality = sl.quality /\ n.seg = sl.seg
      /\ outcome = "ok" => n.status = "resolved" /\ n.promise = p
      /\ outcome = "err" => n.status = "erred" /\ n.promise = p
  <2>1. p \in Promises \/ outcome = "abort"
    BY <1>1, <1>2 DEF SlotRecs, Promises
  <2> HIDE DEF p, sl
  <2>2. CASE outcome = "ok"
    <3>1. n = [sl EXCEPT !.status = "resolved", !.promise = p]
      BY <2>2
    <3>2. QED
      BY <1>2, <2>1, <2>2, <3>1 DEF SlotRecs
  <2>3. CASE outcome = "err"
    <3>1. n = [sl EXCEPT !.status = "erred", !.promise = p]
      BY <2>3
    <3>2. QED
      BY <1>2, <2>1, <2>3, <3>1 DEF SlotRecs
  <2>4. CASE outcome = "abort"
    <3>1. n = [sl EXCEPT !.status = "inactive", !.promise = None]
      BY <2>4
    <3>2. QED
      BY <1>2, <2>4, <3>1 DEF SlotRecs, Promises
  <2>5. QED
    BY <1>1, <2>2, <2>3, <2>4
<1>4. \A a \in Ops :
         /\ m(a) \in OpRecs /\ m(a).slot \in {None, op[a].slot}
         /\ m(a) = op[a] \/ m(a).pc \in {"idle", "settled"}
  <2> TAKE a \in Ops
  <2>1. /\ resumed(a, outcome) \in OpRecs /\ resumed(a, outcome).slot = None
        /\ resumed(a, outcome).pc \in {"idle", "settled"}
    <3>1. outcome \in Promises \cup {"abort"}
      BY <1>1 DEF Promises
    <3> HIDE DEF outcome
    <3>2. QED
      BY <3>1, OpRecords DEF resumed
  <2>2. op[a] \in OpRecs
    BY <1>2 DEF CacheTypes
  <2> HIDE DEF outcome
  <2>3. QED
    BY <2>1, <2>2
<1> HIDE DEF n, m
<1>5. /\ op' \in [Ops -> OpRecs]
      /\ \A a \in Ops : /\ op'[a].slot \in {None, op[a].slot}
                        /\ op'[a] = op[a] \/ op'[a].pc \in {"idle", "settled"}
  BY <1>1, <1>4
<1> DEFINE slots == [slot EXCEPT ![s] = n]
<1>6. /\ slots \in [Slots -> SlotRecs] /\ slots[s] = n
      /\ \A u \in Slots : u # s => slots[u] = slot[u]
  <2> HIDE DEF s
  <2>1. QED
    BY <1>2, <1>3 DEF CacheTypes
<1>7. slot' = collected(slots)
  BY <1>1
<1> HIDE DEF slots
<1>8. /\ slot' \in [Slots -> SlotRecs]
      /\ \A u \in Slots : u \in cached' => slot'[u] = slots[u]
      /\ \A a \in Ops : op'[a].slot \in Slots => slot'[op'[a].slot] = slots[op'[a].slot]
      /\ \A q \in Reqs : req'[q].slot \in Slots => slot'[req'[q].slot] = slots[req'[q].slot]
  BY <1>6, <1>7, Collected
<1>9. \A u \in Slots : slots[u].quality = slot[u].quality /\ slots[u].seg = slot[u].seg
  BY <1>3, <1>6
<1>10. /\ req' \in [Reqs -> ReqRecs] /\ req'[r] = freeReq /\ req'[r].state = "free"
       /\ \A q \in Reqs : q # r => req'[q] = req[q]
  BY <1>1, <1>2, OpRecords DEF CacheTypes
<1>11. CacheTypes'
  BY <1>1, <1>2, <1>5, <1>8, <1>10 DEF CacheTypes
<1>12. OpsInv'
  BY <1>5 DEF CacheInv, OpsInv
<1>13. RefsInv'
  <2>1. \A u \in cached' : slot'[u].quality \in Qualities
    BY <1>1, <1>2, <1>8, <1>9, ZenonT(60) DEF CacheInv, RefsInv
  <2>2. ASSUME NEW a \in Ops, op'[a].slot # None
        PROVE  slot'[op'[a].slot].quality \in Qualities
    <3>1. op'[a].slot = op[a].slot /\ op[a] \in OpRecs
      BY <1>2, <1>5, <2>2 DEF CacheTypes
    <3>2. op'[a].slot \in Slots
      BY <2>2, <3>1 DEF OpRecs
    <3>3. slot[op[a].slot].quality \in Qualities
      BY <2>2, <3>1 DEF CacheInv, RefsInv
    <3>4. QED
      BY <1>8, <1>9, <3>1, <3>2, <3>3
  <2>3. \A q \in Reqs : req'[q].state # "free" =>
          req'[q].slot \in Slots /\ slot'[req'[q].slot].quality \in Qualities
    BY <1>8, <1>9, <1>10 DEF CacheInv, RefsInv
  <2>4. QED
    BY <2>1, <2>2, <2>3 DEF RefsInv
<1>14. \A u \in cached : slot'[u] = slots[u] /\ slots[u].seg = slot[u].seg
  BY <1>1, <1>2, <1>8, <1>9
<1>15. s \in cached => outcome \in {"ok", "err"} /\ n.promise = outcome
  <2>1. s \in cached => outcome # "abort" /\ sl.promise = r
    BY <1>1 DEF CacheInv, PromisesInv
  <2>2. QED
    BY <1>1, <1>3, <2>1
<1>16. PromisesInv'
  <2>1. ASSUME NEW q \in Reqs, req'[q].state # "free", req'[q].slot \in cached'
        PROVE  req'[q].state # "abort" /\ slot'[req'[q].slot].promise = q
    <3>1. q # r /\ req'[q] = req[q] /\ req[q].slot \in cached
      BY <1>1, <1>10, <2>1
    <3>2. req[q].state # "abort" /\ slot[req[q].slot].promise = q
      BY <2>1, <3>1 DEF CacheInv, PromisesInv
    <3>3. req[q].slot # s
      BY <1>1, <3>1, <3>2 DEF CacheInv, PromisesInv
    <3>4. QED
      BY <1>2, <1>6, <1>14, <3>1, <3>2, <3>3
  <2>2. ASSUME NEW u \in cached', slot'[u].promise \in Reqs
        PROVE  req'[slot'[u].promise].slot = u /\ req'[slot'[u].promise].state # "free"
    <3>1. u # s
      <4>1. u \in cached /\ (u = s => slot'[u] = n)
        BY <1>1, <1>6, <1>14
      <4>2. s \in cached => n.promise \notin Reqs
        BY <1>15, Constants
      <4>3. QED
        BY <2>2, <4>1, <4>2
    <3>2. slot'[u] = slot[u] /\ u \in cached
      BY <1>1, <1>2, <1>6, <1>14, <3>1
    <3>3. req[slot[u].promise].slot = u /\ req[slot[u].promise].state # "free"
      BY <2>2, <3>2 DEF CacheInv, PromisesInv
    <3>4. QED
      BY <1>10, <2>2, <3>1, <3>2, <3>3
  <2>3. QED
    BY <2>1, <2>2 DEF PromisesInv
<1>17. OneSlotPerSegment'
  <2>1. \A u \in cached : slot'[u].seg = slot[u].seg
    BY <1>14
  <2>2. \A u, v \in cached : slot[u].seg = slot[v].seg => u = v
    BY DEF CacheInv, OneSlotPerSegment
  <2>3. \A u, v \in cached : slot'[u].seg = slot'[v].seg => u = v
    BY <2>1, <2>2
  <2>4. QED
    BY <1>1, <2>3 DEF OneSlotPerSegment
<1>18. CachedSlotSound'
  <2> SUFFICES ASSUME NEW u \in cached
               PROVE  /\ slot'[u].status = "inactive" <=> slot'[u].promise = None
                      /\ slot'[u].status = "pending" <=> slot'[u].promise \in Reqs
                      /\ slot'[u].status = "resolved" <=> slot'[u].promise = "ok"
                      /\ slot'[u].status = "erred" <=> slot'[u].promise = "err"
    BY <1>1 DEF CachedSlotSound
  <2>1. CASE u = s
    <3>1. slot'[u] = n
      BY <1>6, <1>14, <2>1
    <3>2. QED
      BY <1>3, <1>15, <2>1, <3>1, Constants DEF None
  <2>2. CASE u # s
    BY <1>2, <1>6, <1>14, <2>2 DEF CacheInv, CachedSlotSound
  <2>3. QED
    BY <2>1, <2>2
<1>19. QED
  BY <1>11, <1>12, <1>13, <1>16, <1>17, <1>18 DEF CacheInv

(* The end of a lookup: a new slot is inserted only for a segment that has     *)
(* none, and only as an object that nothing else refers to.                    *)
LEMMA InsertStep ==
    ASSUME CacheInv, NEW a \in Ops, insertSlot(a)
    PROVE  CacheInv'
<1>1. /\ CacheTypes /\ cached \in SUBSET Slots /\ op[a] \in OpRecs /\ req' = req
      /\ op[a].pc = "segment" /\ op[a].version \in Versions /\ op[a].quality \in Qualities
  BY DEF CacheInv, CacheTypes, OpsInv, insertSlot
<1>2. ASSUME NEW s \in Slots \cup {None}, slotFound(a, s)
      PROVE  /\ op' \in [Ops -> OpRecs] /\ OpsInv'
             /\ op'[a].slot = s /\ \A b \in Ops : b # a => op'[b] = op[b]
  <2> DEFINE n == [idleOp EXCEPT !.pc = "slot", !.time = op[a].time, !.slot = s]
  <2>1. n \in OpRecs /\ n.pc = "slot" /\ n.slot = s
    BY <1>1, OpRecords DEF OpRecs, OpPcs
  <2>2. op' = [op EXCEPT ![a] = n]
    BY <1>2 DEF slotFound
  <2> HIDE DEF n
  <2>3. op' \in [Ops -> OpRecs] /\ op'[a] = n /\ \A b \in Ops : b # a => op'[b] = op[b]
    BY <1>1, <2>1, <2>2, OpUpdated DEF CacheTypes
  <2>4. OpsInv'
    BY <2>1, <2>3 DEF CacheInv, OpsInv
  <2>5. QED
    BY <2>1, <2>3, <2>4
<1>3. CASE slotFound(a, None) /\ UNCHANGED <<slot, cached>>
  BY <1>1, <1>2, <1>3, OpsStep
<1>4. CASE \E s \in cached : slotFound(a, s) /\ UNCHANGED <<slot, cached>>
  <2>1. PICK s \in cached : slotFound(a, s)
    BY <1>4
  <2>2. UNCHANGED <<slot, cached>> /\ s \in Slots
    BY <1>1, <1>4, <2>1
  <2>3. /\ op' \in [Ops -> OpRecs] /\ OpsInv'
        /\ op'[a].slot = s /\ \A b \in Ops : b # a => op'[b] = op[b]
    BY <1>2, <2>1, <2>2
  <2>4. QED
    BY <1>1, <2>1, <2>2, <2>3, OpsStep
<1>5. ASSUME NEW s \in Slots,
             op[a].time < End[op[a].version],
             \A u \in cached : slot[u].seg # op[a].time,
             slot[s] = freeSlot,
             slot' = [slot EXCEPT ![s] = newSlot(op[a].time, op[a].quality)],
             cached' = cached \cup {s},
             slotFound(a, s)
      PROVE  CacheInv'
  <2> DEFINE n == newSlot(op[a].time, op[a].quality)
  <2>1. /\ n \in SlotRecs /\ n.quality \in Qualities /\ n.seg = op[a].time
        /\ n.status = "inactive" /\ n.promise = None
    <3>1. op[a].time \in Times
      <4>1. op[a].time \in 0..(MaxTime + 1)
        BY <1>1, Constants DEF OpRecs, Times
      <4>2. End[op[a].version] \in 0..(MaxTime + 1) /\ MaxTime \in Nat
        BY <1>1, Constants
      <4>3. QED
        BY <1>5, <4>1, <4>2 DEF Times
    <3>2. QED
      BY <1>1, <3>1 DEF newSlot, SlotRecs, Promises
  <2> HIDE DEF n
  <2>2. /\ slot' \in [Slots -> SlotRecs] /\ slot'[s] = n
        /\ \A u \in Slots : u # s => slot'[u] = slot[u]
    BY <1>1, <1>5, <2>1 DEF CacheTypes, n
  <2>3. slot[s].quality \notin Qualities
    BY <1>5, OpRecords, Constants
  <2>4. s \notin cached
    BY <2>3 DEF CacheInv, RefsInv
  <2>5. \A u \in cached : slot'[u] = slot[u] /\ u # s
    BY <1>1, <2>2, <2>4
  <2>6. \A q \in Reqs : req[q].state # "free" => req[q].slot # s
    BY <2>3 DEF CacheInv, RefsInv
  <2>7. /\ op' \in [Ops -> OpRecs] /\ OpsInv'
        /\ op'[a].slot = s /\ \A b \in Ops : b # a => op'[b] = op[b]
    BY <1>2, <1>5
  <2>8. CacheTypes'
    BY <1>1, <1>5, <2>2, <2>7 DEF CacheTypes
  <2>9. RefsInv'
    <3>1. \A u \in cached' : slot'[u].quality \in Qualities
      BY <1>5, <2>1, <2>2, <2>5 DEF CacheInv, RefsInv
    <3>2. ASSUME NEW b \in Ops, op'[b].slot # None
          PROVE  slot'[op'[b].slot].quality \in Qualities
      <4>1. CASE op'[b].slot = s
        BY <2>1, <2>2, <4>1
      <4>2. CASE op'[b].slot # s
        <5>1. op'[b] = op[b] /\ op[b] \in OpRecs
          BY <1>1, <2>7, <4>2 DEF CacheTypes
        <5>2. op[b].slot \in Slots
          BY <3>2, <5>1 DEF OpRecs
        <5>3. QED
          BY <2>2, <3>2, <4>2, <5>1, <5>2 DEF CacheInv, RefsInv
      <4>3. QED
        BY <4>1, <4>2
    <3>3. \A q \in Reqs : req'[q].state # "free" =>
            req'[q].slot \in Slots /\ slot'[req'[q].slot].quality \in Qualities
      BY <1>1, <2>2, <2>6 DEF CacheInv, RefsInv
    <3>4. QED
      BY <3>1, <3>2, <3>3 DEF RefsInv
  <2>10. PromisesInv'
    <3>1. \A q \in Reqs : req'[q].state # "free" /\ req'[q].slot \in cached' =>
            req'[q].state # "abort" /\ slot'[req'[q].slot].promise = q
      BY <1>1, <1>5, <2>5, <2>6 DEF CacheInv, PromisesInv
    <3>2. \A u \in cached' : slot'[u].promise \in Reqs =>
            req'[slot'[u].promise].slot = u /\ req'[slot'[u].promise].state # "free"
      BY <1>1, <1>5, <2>1, <2>2, <2>5, Constants DEF CacheInv, PromisesInv
    <3>3. QED
      BY <3>1, <3>2 DEF PromisesInv
  <2>11. OneSlotPerSegment'
    BY <1>5, <2>1, <2>2, <2>5 DEF CacheInv, OneSlotPerSegment
  <2>12. CachedSlotSound'
    <3> SUFFICES ASSUME NEW u \in cached'
                 PROVE  /\ slot'[u].status = "inactive" <=> slot'[u].promise = None
                        /\ slot'[u].status = "pending" <=> slot'[u].promise \in Reqs
                        /\ slot'[u].status = "resolved" <=> slot'[u].promise = "ok"
                        /\ slot'[u].status = "erred" <=> slot'[u].promise = "err"
      BY DEF CachedSlotSound
    <3>1. CASE u = s
      BY <2>1, <2>2, <3>1, Constants DEF None
    <3>2. CASE u # s
      BY <1>5, <2>5, <3>2 DEF CacheInv, CachedSlotSound
    <3>3. QED
      BY <3>1, <3>2
  <2>13. QED
    BY <2>7, <2>8, <2>9, <2>10, <2>11, <2>12 DEF CacheInv
<1>6. QED
  BY <1>3, <1>4, <1>5 DEF insertSlot

------------------------------------------------------------------------------
\* The actions preserve the invariant of the cache

(* Nothing of the cache changes.                                               *)
LEMMA CacheKept ==
    ASSUME CacheInv, UNCHANGED <<slot, cached, op, req>>
    PROVE  CacheInv'
BY DEF CacheInv, CacheTypes, RefsInv, OpsInv, PromisesInv, OneSlotPerSegment, CachedSlotSound

(* One operation's record is replaced by one that holds no slot, or a cached   *)
(* one.                                                                        *)
LEMMA OpStep ==
    ASSUME CacheInv, NEW a \in Ops, NEW n \in OpRecs, op' = [op EXCEPT ![a] = n],
           n.slot = None \/ n.slot \in cached,
           n.pc \in {"timeline", "period", "segment"} => n.version \in Versions,
           n.pc = "segment" => n.quality \in Qualities,
           UNCHANGED <<slot, cached, req>>
    PROVE  CacheInv'
<1>1. op' \in [Ops -> OpRecs] /\ op'[a] = n /\ \A b \in Ops : b # a => op'[b] = op[b]
  BY OpUpdated DEF CacheInv, CacheTypes
<1>2. OpsInv'
  BY <1>1 DEF CacheInv, OpsInv
<1>3. \A b \in Ops : op'[b].slot \in {None, op[b].slot} \cup cached
  BY <1>1
<1>4. QED
  BY <1>1, <1>2, <1>3, OpsStep

(* The whole cache is cleared; the operations go on, or are aborted.           *)
LEMMA ClearStep ==
    ASSUME CacheInv, clearCache, op' \in [Ops -> OpRecs], OpsInv',
           \A a \in Ops : op'[a].slot \in {None, op[a].slot}
    PROVE  CacheInv'
<1> DEFINE off(s) == [clearedSlots(cached)[s] EXCEPT !.onStatusChange = @ /\ s \notin cached]
           slots == [s \in Slots |-> off(s)]
<1>1. CacheTypes
  BY DEF CacheInv
<1>2. ASSUME NEW s \in Slots
      PROVE  /\ off(s) \in SlotRecs /\ off(s).quality = slot[s].quality
             /\ s \notin cached => off(s) = slot[s]
  <2> DEFINE c == clearedSlots(cached)[s]
  <2>1. /\ c \in SlotRecs /\ c.quality = slot[s].quality
        /\ s \notin cached => c = slot[s]
    BY <1>1, Cleared
  <2>2. off(s) = [c EXCEPT !.onStatusChange = c.onStatusChange /\ s \notin cached]
    OBVIOUS
  <2> HIDE DEF c, off
  <2> DEFINE b == c.onStatusChange /\ s \notin cached
  <2>3. b \in BOOLEAN /\ (s \notin cached => b = c.onStatusChange)
    BY <2>1 DEF SlotRecs
  <2>4. off(s) = [c EXCEPT !.onStatusChange = b]
    BY <2>2
  <2> HIDE DEF b
  <2>5. /\ off(s) \in SlotRecs /\ off(s).quality = c.quality
        /\ s \notin cached => off(s) = c
    BY <2>1, <2>3, <2>4 DEF SlotRecs
  <2>6. QED
    BY <2>1, <2>5
<1> HIDE DEF off
<1>3. /\ slots \in [Slots -> SlotRecs]
      /\ \A s \in Slots : slots[s].quality = slot[s].quality
      /\ \A s \in Slots : s \notin cached => slots[s] = slot[s]
  BY <1>2
<1>4. /\ req' = abortedReqs(cached) /\ cached' = cached \ cached
      /\ slot' = collected(slots)
  BY DEF clearCache, off
<1> HIDE DEF slots
<1>5. QED
  BY <1>3, <1>4, SweepStep

(* A sweep of some cached slots, with the operations as they were.             *)
LEMMA SweepOnly ==
    ASSUME CacheInv, NEW S \in SUBSET cached, cached' = cached \ S,
           req' = abortedReqs(S), slot' = collected(clearedSlots(S)),
           op' \in [Ops -> OpRecs], OpsInv',
           \A a \in Ops : op'[a].slot \in {None, op[a].slot}
    PROVE  CacheInv'
<1>1. CacheTypes
  BY DEF CacheInv
<1>2. /\ clearedSlots(S) \in [Slots -> SlotRecs]
      /\ \A s \in Slots : clearedSlots(S)[s].quality = slot[s].quality
      /\ \A s \in Slots : s \notin S => clearedSlots(S)[s] = slot[s]
  BY <1>1, Cleared
<1>3. QED
  BY <1>2, SweepStep

(* Calls and events.                                                           *)
LEMMA EnvironmentCache ==
    ASSUME Inductive, Environment
    PROVE  CacheInv'
<1>1. CacheInv /\ CacheTypes /\ OpsInv /\ OtherTypes /\ op \in [Ops -> OpRecs]
  BY DEF Inductive, CacheInv, CacheTypes
<1>2. cachedPeriod \in Versions \cup {0} /\ timeline \in Versions
  BY <1>1 DEF OtherTypes
<1>3. ASSUME NEW a \in Ops, NEW t \in Times, op' = [op EXCEPT ![a] = lookup(t)],
             UNCHANGED <<slot, cached, req>>
      PROVE  CacheInv'
  <2>1. /\ lookup(t) \in OpRecs
        /\ lookup(t).slot = None \/ lookup(t).slot \in cached
        /\ lookup(t).pc \in {"slot", "period", "timeline"}
        /\ lookup(t).pc # "slot" => lookup(t).version \in Versions
    BY <1>1, <1>2, Lookup
  <2>2. QED
    BY <1>1, <1>3, <2>1, OpStep
<1>4. ASSUME NEW g \in Gets, NEW t \in Times, getSegment(g, t)
      PROVE  CacheInv'
  BY <1>3, <1>4, Constants DEF getSegment
<1>5. ASSUME NEW g \in Gets, prefetchImmediate(g)
      PROVE  CacheInv'
  BY <1>3, <1>5, Constants DEF prefetchImmediate
<1>6. ASSUME NEW t \in Times, configure(t) \/ seeking(t)
      PROVE  CacheInv'
  BY <1>1, <1>6, CacheKept DEF configure, seeking
<1>7. CASE activate \/ timelineChange \/ timeUpdate
  BY <1>1, <1>7, CacheKept DEF activate, timelineChange, timeUpdate
<1>8. ASSUME op' = op
      PROVE  /\ op' \in [Ops -> OpRecs] /\ OpsInv'
             /\ \A a \in Ops : op'[a].slot \in {None, op[a].slot}
  BY <1>1, <1>8 DEF OpsInv
<1>9. CASE deactivate
  <2> DEFINE S == sweptSlots(inactiveRange)
  <2>1. S \in SUBSET cached
    BY DEF sweptSlots
  <2>2. /\ req' = abortedReqs(S) /\ cached' = cached \ S /\ op' = op
        /\ slot' = collected(clearedSlots(S))
    BY <1>9 DEF deactivate
  <2> HIDE DEF S
  <2>3. QED
    BY <1>1, <1>8, <2>1, <2>2, SweepOnly
<1>10. CASE clear
  BY <1>1, <1>8, <1>10, ClearStep DEF clear
<1>11. ASSUME NEW q \in Qualities, denylistAndClear(q)
       PROVE  CacheInv'
  BY <1>1, <1>8, <1>11, ClearStep DEF denylistAndClear
<1>12. CASE reset
  <2> DEFINE S == {s \in cached : erred(s)}
  <2>1. /\ req' = abortedReqs(S) /\ slot' = clearedSlots(S)
        /\ cached' = cached /\ op' = op
    BY <1>12 DEF reset
  <2>2. S \in SUBSET Slots /\ \A s \in S : erred(s)
    BY <1>1 DEF CacheTypes
  <2> HIDE DEF S
  <2>3. QED
    BY <1>1, <2>1, <2>2, ResetStep
<1>13. CASE dispose
  <2> DEFINE m(a) == IF \/ op[a].pc \in {"timeline", "period", "segment"}
                        \/ a = "prefetch" /\ op[a].pc = "await"
                     THEN resumed(a, "abort") ELSE op[a]
  <2>1. op' = [a \in Ops |-> m(a)] /\ clearCache
    BY <1>13 DEF dispose
  <2>2. \A a \in Ops : /\ m(a) \in OpRecs /\ m(a).slot \in {None, op[a].slot}
                       /\ m(a) = op[a] \/ m(a).pc \in {"idle", "settled"}
    <3> TAKE a \in Ops
    <3>1. /\ resumed(a, "abort") \in OpRecs /\ resumed(a, "abort").slot = None
          /\ resumed(a, "abort").pc \in {"idle", "settled"}
      BY OpRecords DEF resumed
    <3>2. QED
      BY <1>1, <3>1
  <2> HIDE DEF m
  <2>3. op' \in [Ops -> OpRecs] /\ \A a \in Ops : op'[a] = m(a)
    BY <2>1, <2>2
  <2>4. OpsInv'
    BY <1>1, <2>2, <2>3 DEF OpsInv
  <2>5. QED
    BY <1>1, <2>1, <2>2, <2>3, <2>4, ClearStep
<1>14. QED
  BY <1>4, <1>5, <1>6, <1>7, <1>9, <1>10, <1>11, <1>12, <1>13 DEF Environment

(* The controller's own steps.                                                 *)
LEMMA InternalCache ==
    ASSUME Inductive, Internal
    PROVE  CacheInv'
<1>1. CacheInv /\ CacheTypes /\ OpsInv /\ OtherTypes /\ op \in [Ops -> OpRecs]
  BY DEF Inductive, CacheInv, CacheTypes
<1>2. cachedPeriod \in Versions \cup {0} /\ timeline \in Versions
  BY <1>1 DEF OtherTypes
<1>3. ASSUME op' = op
      PROVE  /\ op' \in [Ops -> OpRecs] /\ OpsInv'
             /\ \A a \in Ops : op'[a].slot \in {None, op[a].slot}
  BY <1>1, <1>3 DEF OpsInv
<1>4. CASE pollPrefetch
  <2> DEFINE S == sweptSlots(retained)
             ranges == fetched \ unfetched(S)
  <2>1. CASE error
    BY <1>1, <1>4, <2>1, CacheKept DEF pollPrefetch
  <2>2. CASE ~error
    <3>1. /\ req' = abortedReqs(S) /\ cached' = cached \ S /\ slot' = collected(clearedSlots(S))
          /\ IF ended \/ prefetching \/ gaps(ranges) = {}
             THEN op' = op
             ELSE op' = [op EXCEPT !["prefetch"] =
                            [idleOp EXCEPT !.pc = "queued", !.time = firstGap(ranges)]]
      BY <1>4, <2>2 DEF pollPrefetch
    <3>2. S \in SUBSET cached
      BY DEF sweptSlots
    <3>3. ranges \in SUBSET Times
      BY <1>1 DEF OtherTypes
    <3> HIDE DEF S, ranges
    <3>4. CASE op' = op
      BY <1>1, <1>3, <3>1, <3>2, <3>4, SweepOnly
    <3>5. CASE ~(ended \/ prefetching \/ gaps(ranges) = {})
      <4> DEFINE t == firstGap(ranges)
                 n == [idleOp EXCEPT !.pc = "queued", !.time = t]
      <4>1. t \in Times \cup {MaxTime + 1}
        BY <1>1, <3>3, <3>5, FirstGap
      <4> HIDE DEF t
      <4>2. n \in OpRecs /\ n.slot = None /\ n.pc = "queued"
        BY <4>1, OpRecords DEF OpRecs, OpPcs
      <4>3. op' = [op EXCEPT !["prefetch"] = n]
        BY <3>1, <3>5 DEF t
      <4> HIDE DEF n
      <4>4. /\ op' \in [Ops -> OpRecs] /\ op'["prefetch"] = n
            /\ \A b \in Ops : b # "prefetch" => op'[b] = op[b]
        BY <1>1, <4>2, <4>3, OpUpdated, Constants
      <4>5. OpsInv'
        BY <1>1, <4>2, <4>4 DEF OpsInv
      <4>6. \A a \in Ops : op'[a].slot \in {None, op[a].slot}
        BY <4>2, <4>4
      <4>7. QED
        BY <1>1, <3>1, <3>2, <4>4, <4>5, <4>6, SweepOnly
    <3>6. QED
      BY <3>1, <3>4, <3>5
  <2>3. QED
    BY <2>1, <2>2
<1>5. CASE prefetchStarts
  <2> DEFINE t == op["prefetch"].time
             n == IF disposed THEN resumed("prefetch", "abort") ELSE lookup(t)
  <2>1. op' = [op EXCEPT !["prefetch"] = n] /\ UNCHANGED <<slot, cached, req>>
    BY <1>5 DEF prefetchStarts
  <2>2. t \in Times \cup {MaxTime + 1}
    BY <1>1, Constants DEF OpRecs
  <2> HIDE DEF t
  <2>3. /\ n \in OpRecs
        /\ n.slot = None \/ n.slot \in cached
        /\ n.pc \in {"settled", "slot", "period", "timeline"}
        /\ n.pc \in {"period", "timeline"} => n.version \in Versions
    <3>1. CASE disposed
      BY <3>1, OpRecords DEF resumed
    <3>2. CASE ~disposed
      BY <1>1, <1>2, <2>2, <3>2, Lookup
    <3>3. QED
      BY <3>1, <3>2
  <2> HIDE DEF n
  <2>4. QED
    BY <1>1, <2>1, <2>3, OpStep, Constants
<1>6. CASE prefetchFinally
  BY <1>1, <1>6, OpStep, OpRecords, Constants DEF prefetchFinally
<1>7. ASSUME NEW a \in Ops, insertSlot(a)
      PROVE  CacheInv'
  BY <1>1, <1>7, InsertStep
<1>8. ASSUME NEW a \in Ops, NEW q \in Qualities, selectQuality(a, q)
      PROVE  CacheInv'
  <2> DEFINE n == [op[a] EXCEPT !.pc = "segment", !.quality = q]
  <2>1. op[a] \in OpRecs /\ op[a].pc \in {"timeline", "period"}
    BY <1>1, <1>8 DEF selectQuality
  <2>2. /\ n \in OpRecs /\ n.pc = "segment" /\ n.quality = q
        /\ n.slot = op[a].slot /\ n.version = op[a].version
    BY <2>1 DEF OpRecs, OpPcs
  <2>3. op' = [op EXCEPT ![a] = n] /\ UNCHANGED <<slot, cached, req>>
    BY <1>1, <1>8 DEF selectQuality
  <2> HIDE DEF n
  <2>4. /\ op' \in [Ops -> OpRecs] /\ op'[a] = n
        /\ \A b \in Ops : b # a => op'[b] = op[b]
    BY <1>1, <2>2, <2>3, OpUpdated
  <2>5. OpsInv'
    BY <1>1, <2>1, <2>2, <2>4 DEF OpsInv
  <2>6. \A b \in Ops : op'[b].slot \in {None, op[b].slot} \cup cached
    BY <2>2, <2>4
  <2>7. QED
    BY <1>1, <2>3, <2>4, <2>5, <2>6, OpsStep
<1>9. /\ clearedSlots({}) = slot /\ abortedReqs({}) = req
      /\ {s \in {} : erred(s)} = {}
  <2>1. clearedSlots({}) \in [Slots -> SlotRecs] /\ \A s \in Slots : clearedSlots({})[s] = slot[s]
    BY <1>1, Cleared
  <2>2. abortedReqs({}) \in [Reqs -> ReqRecs] /\ \A r \in Reqs : abortedReqs({})[r] = req[r]
    BY <1>1, Aborted
  <2>3. slot \in [Slots -> SlotRecs] /\ req \in [Reqs -> ReqRecs]
    BY <1>1 DEF CacheTypes
  <2>4. QED
    BY <2>1, <2>2, <2>3
<1>10. ASSUME NEW a \in Ops, NEW s \in Slots, op[a].slot = s, requestData(a, s, slot[s], req),
              cached' = cached
       PROVE  CacheInv'
  <2>1. requestData(a, s, clearedSlots({})[s], abortedReqs({}))
    BY <1>9, <1>10
  <2>2. QED
    BY <1>1, <1>10, <2>1, RequestStep
<1>11. CASE prefetchSlot
  <2> DEFINE s == op["prefetch"].slot
  <2>1. s \in Slots \cup {None} /\ cached' = cached
    BY <1>1, <1>11, Constants DEF OpRecs, prefetchSlot
  <2>2. CASE /\ op' = [op EXCEPT !["prefetch"] = resumed("prefetch", "abort")]
             /\ req' = req /\ slot' = collected(slot)
    <3> DEFINE n == resumed("prefetch", "abort")
    <3>1. n \in OpRecs /\ n.slot = None /\ n.pc = "settled"
      BY OpRecords DEF resumed
    <3> HIDE DEF n
    <3>2. /\ op' \in [Ops -> OpRecs] /\ op'["prefetch"] = n
          /\ \A b \in Ops : b # "prefetch" => op'[b] = op[b]
      BY <1>1, <2>2, <3>1, OpUpdated, Constants DEF n
    <3>3. OpsInv' /\ \A a \in Ops : op'[a].slot \in {None, op[a].slot}
      BY <1>1, <3>1, <3>2 DEF OpsInv
    <3>4. /\ cached' = cached \ {} /\ req' = abortedReqs({})
          /\ slot' = collected(clearedSlots({}))
      BY <1>9, <2>1, <2>2
    <3>5. QED
      BY <1>1, <3>2, <3>3, <3>4, SweepOnly
  <2>3. CASE /\ op' = [op EXCEPT !["prefetch"] = resumed("prefetch", "ok")]
             /\ UNCHANGED <<slot, req>>
    <3> DEFINE n == resumed("prefetch", "ok")
    <3>1. n \in OpRecs /\ n.slot = None /\ n.pc = "settled"
      BY OpRecords DEF resumed, Promises
    <3> HIDE DEF n
    <3>2. op' = [op EXCEPT !["prefetch"] = n]
      BY <2>3 DEF n
    <3>3. QED
      BY <1>1, <2>1, <2>3, <3>1, <3>2, OpStep, Constants
  <2>4. CASE s # None /\ requestData("prefetch", s, slot[s], req)
    BY <1>10, <2>1, <2>4, Constants
  <2>5. QED
    BY <1>11, <2>2, <2>3, <2>4 DEF prefetchSlot
<1>12. CASE prefetchImmediateSlot
  <2> DEFINE s == op["immediate"].slot
  <2>1. s \in Slots \cup {None} /\ cached' = cached
    BY <1>1, <1>12, Constants DEF OpRecs, prefetchImmediateSlot
  <2>2. CASE op' = [op EXCEPT !["immediate"] = idleOp] /\ UNCHANGED <<slot, req>>
    BY <1>1, <2>1, <2>2, OpStep, OpRecords, Constants
  <2>3. CASE s # None /\ requestData("immediate", s, slot[s], req)
    BY <1>10, <2>1, <2>3, Constants
  <2>4. QED
    BY <1>12, <2>2, <2>3 DEF prefetchImmediateSlot
<1>13. ASSUME NEW g \in Gets, getSegmentSlot(g)
       PROVE  CacheInv'
  <2> DEFINE s == op[g].slot
             S == {u \in {s} \cap Slots : erred(u)}
  <2>1. g \in Ops /\ s \in Slots \cup {None} /\ cached' = cached
    BY <1>1, <1>13, Constants DEF OpRecs, getSegmentSlot
  <2>2. CASE op' = [op EXCEPT ![g] = idleOp] /\ UNCHANGED <<slot, req>>
    BY <1>1, <2>1, <2>2, OpStep, OpRecords
  <2>3. CASE s # None /\ requestData(g, s, clearedSlots(S)[s], abortedReqs(S))
    <3>1. S \in SUBSET {s} /\ \A u \in S : erred(u)
      OBVIOUS
    <3> HIDE DEF S
    <3>2. s \in Slots /\ op[g].slot = s
      BY <2>1, <2>3
    <3> HIDE DEF s
    <3>3. QED
      BY <1>1, <2>1, <2>3, <3>1, <3>2, RequestStep
  <2>4. QED
    BY <1>13, <2>2, <2>3 DEF getSegmentSlot
<1>14. ASSUME NEW r \in Reqs, reaction(r)
       PROVE  CacheInv'
  BY <1>1, <1>14, ReactionStep
<1>15. ASSUME NEW r \in Reqs, NEW outcome \in {"ok", "err"}, networkSettles(r, outcome)
       PROVE  CacheInv'
  <2> DEFINE n == [req[r] EXCEPT !.state = outcome]
  <2>1. req[r] \in ReqRecs /\ req[r].state = "open"
    BY <1>1, <1>15 DEF CacheTypes, networkSettles
  <2>2. n \in ReqRecs /\ n.slot = req[r].slot /\ n.state = outcome
    BY <2>1 DEF ReqRecs
  <2>3. req' = [req EXCEPT ![r] = n] /\ UNCHANGED <<slot, cached, op>>
    BY <1>1, <1>15 DEF networkSettles, CacheTypes
  <2> HIDE DEF n
  <2>4. /\ req' \in [Reqs -> ReqRecs] /\ req'[r] = n
        /\ \A q \in Reqs : q # r => req'[q] = req[q]
    BY <1>1, <2>2, <2>3, ReqUpdated DEF CacheTypes
  <2>5. \A q \in Reqs : /\ req'[q].slot = req[q].slot
                        /\ req'[q].state = "free" <=> req[q].state = "free"
                        /\ req'[q].state = "abort" => req[q].state = "abort"
    BY <2>1, <2>2, <2>4
  <2>6. CacheTypes' /\ OpsInv'
    BY <1>1, <2>3, <2>4 DEF CacheTypes, OpsInv
  <2>7. RefsInv'
    BY <2>3, <2>5, <1>1 DEF CacheInv, RefsInv
  <2>8. PromisesInv'
    BY <2>3, <2>5, <1>1 DEF CacheInv, PromisesInv
  <2>9. (OneSlotPerSegment /\ CachedSlotSound)'
    BY <2>3, <1>1 DEF CacheInv, OneSlotPerSegment, CachedSlotSound
  <2>10. QED
    BY <2>6, <2>7, <2>8, <2>9 DEF CacheInv
<1>16. QED
  BY <1>4, <1>5, <1>6, <1>7, <1>8, <1>11, <1>12, <1>13, <1>14, <1>15 DEF Internal

------------------------------------------------------------------------------
\* The actions preserve the types of the other variables

(* Calls and events.                                                           *)
LEMMA EnvironmentTypes ==
    ASSUME Inductive, Environment, calls' \in 0..MaxCalls
    PROVE  OtherTypes'
<1>1. OtherTypes /\ active \in BOOLEAN /\ CacheTypes
  BY DEF Inductive, CacheInv, OtherTypes
<1>2. ASSUME NEW g \in Gets, NEW t \in Times, getSegment(g, t)
      PROVE  OtherTypes'
  BY <1>1, <1>2 DEF getSegment, OtherTypes, given
<1>3. ASSUME NEW g \in Gets, prefetchImmediate(g)
      PROVE  OtherTypes'
  BY <1>1, <1>3 DEF prefetchImmediate, OtherTypes, given
<1>4. ASSUME NEW t \in Times, configure(t)
      PROVE  OtherTypes'
  BY <1>1, <1>4 DEF configure, OtherTypes
<1>5. ASSUME NEW t \in Times, seeking(t)
      PROVE  OtherTypes'
  BY <1>1, <1>5 DEF seeking, OtherTypes
<1>6. CASE activate
  BY <1>1, <1>6 DEF activate, OtherTypes
<1>7. CASE deactivate
  BY <1>1, <1>7 DEF deactivate, OtherTypes
<1>8. ASSUME clearCache
      PROVE  /\ ended' \in BOOLEAN /\ error' \in BOOLEAN
             /\ cachedPeriod' \in Versions \cup {0} /\ fetched' \in SUBSET Times
  BY <1>8 DEF clearCache
<1>9. CASE clear
  BY <1>1, <1>8, <1>9 DEF clear, OtherTypes, given
<1>10. CASE reset
  <2>1. ended' \in BOOLEAN /\ fetched' \in SUBSET Times
    BY <1>1, <1>10 DEF reset, OtherTypes
  <2>2. QED
    BY <1>1, <1>10, <2>1 DEF reset, OtherTypes, given
<1>11. CASE dispose
  BY <1>1, <1>8, <1>11 DEF dispose, OtherTypes
<1>12. ASSUME NEW q \in Qualities, denylistAndClear(q)
       PROVE  OtherTypes'
  BY <1>1, <1>8, <1>12 DEF denylistAndClear, OtherTypes
<1>13. CASE timelineChange
  BY <1>1, <1>13 DEF timelineChange, OtherTypes
<1>14. CASE timeUpdate
  <2>1. currentTime' \in Times
    BY <1>1, <1>14, Constants DEF timeUpdate, OtherTypes, Times
  <2>2. QED
    BY <1>1, <1>14, <2>1 DEF timeUpdate, OtherTypes
<1>15. QED
  BY <1>2, <1>3, <1>4, <1>5, <1>6, <1>7, <1>9, <1>10, <1>11, <1>12, <1>13, <1>14
     DEF Environment

(* The controller's own steps.                                                 *)
LEMMA InternalTypes ==
    ASSUME Inductive, Internal, calls' \in 0..MaxCalls
    PROVE  OtherTypes'
<1>1. OtherTypes /\ CacheTypes /\ OpsInv /\ RefsInv
  BY DEF Inductive, CacheInv
<1>2. CASE pollPrefetch
  <2>1. prefetching' \in BOOLEAN /\ fetched' \in SUBSET Times
    BY <1>1, <1>2 DEF pollPrefetch, OtherTypes
  <2>2. poll' \in BOOLEAN
    BY <1>2 DEF pollPrefetch
  <2>3. QED
    BY <1>1, <1>2, <2>1, <2>2 DEF pollPrefetch, OtherTypes, given
<1>3. CASE prefetchStarts
  BY <1>1, <1>3 DEF prefetchStarts, OtherTypes, given
<1>4. CASE prefetchSlot
  <2>1. ended' \in BOOLEAN
    BY <1>1, <1>4 DEF prefetchSlot, OtherTypes
  <2>2. QED
    BY <1>1, <1>4, <2>1 DEF prefetchSlot, OtherTypes, given
<1>5. CASE prefetchFinally
  <2>1. error' \in BOOLEAN /\ poll' \in BOOLEAN /\ prefetching' \in BOOLEAN
    BY <1>1, <1>5 DEF prefetchFinally, OtherTypes
  <2>2. QED
    BY <1>1, <1>5, <2>1 DEF prefetchFinally, OtherTypes, given
<1>6. ASSUME NEW a \in Ops, insertSlot(a)
      PROVE  OtherTypes'
  BY <1>1, <1>6 DEF insertSlot, OtherTypes, given
<1>7. ASSUME NEW a \in Ops, NEW q \in Qualities, selectQuality(a, q)
      PROVE  OtherTypes'
  <2>1. cachedPeriod' \in Versions \cup {0}
    BY <1>1, <1>7 DEF selectQuality, OtherTypes, OpsInv
  <2>2. QED
    BY <1>1, <1>7, <2>1 DEF selectQuality, OtherTypes, given
<1>8. ASSUME NEW g \in Gets, getSegmentSlot(g)
      PROVE  OtherTypes'
  <2>1. ended' \in BOOLEAN /\ fetched' \in SUBSET Times
    BY <1>1, <1>8 DEF getSegmentSlot, OtherTypes
  <2>2. QED
    BY <1>1, <1>8, <2>1 DEF getSegmentSlot, OtherTypes, given
<1>9. CASE prefetchImmediateSlot
  BY <1>1, <1>9 DEF prefetchImmediateSlot, OtherTypes, given
<1>10. ASSUME NEW r \in Reqs, reaction(r)
       PROVE  OtherTypes'
  <2>1. req[r].state \in {"ok", "err", "abort"}
    BY <1>10 DEF reaction
  <2>2. slot[req[r].slot].seg \in Times
    BY <1>1, <2>1 DEF RefsInv, CacheTypes, SlotRecs
  <2>3. fetched' \in SUBSET Times
    BY <1>1, <1>10, <2>1, <2>2 DEF reaction, OtherTypes
  <2>4. QED
    BY <1>1, <1>10, <2>3 DEF reaction, OtherTypes, given
<1>11. ASSUME NEW r \in Reqs, NEW outcome \in {"ok", "err"}, networkSettles(r, outcome)
       PROVE  OtherTypes'
  BY <1>1, <1>11 DEF networkSettles, OtherTypes, given
<1>12. QED
  BY <1>2, <1>3, <1>4, <1>5, <1>6, <1>7, <1>8, <1>9, <1>10, <1>11 DEF Internal

------------------------------------------------------------------------------
\* What the steps leave of the slots that stay in the cache

(* A sweep leaves the slots that stay as they are, a reset their segment and   *)
(* their handler.                                                              *)
LEMMA SweptSlots ==
    ASSUME CacheInv, NEW S
    PROVE  /\ slot' = collected(clearedSlots(S)) /\ cached' = cached \ S =>
                \A u \in cached' : slot'[u] = slot[u]
           /\ slot' = clearedSlots(S) /\ cached' = cached =>
                \A u \in cached' : /\ slot'[u].onStatusChange = slot[u].onStatusChange
                                   /\ slot'[u].seg = slot[u].seg
<1>1. /\ CacheTypes /\ cached \in SUBSET Slots
      /\ clearedSlots(S) \in [Slots -> SlotRecs]
      /\ \A u \in Slots : /\ u \notin S => clearedSlots(S)[u] = slot[u]
                          /\ clearedSlots(S)[u].onStatusChange = slot[u].onStatusChange
                          /\ clearedSlots(S)[u].seg = slot[u].seg
  BY Cleared DEF CacheInv, CacheTypes
<1>2. ASSUME slot' = collected(clearedSlots(S)), cached' = cached \ S
      PROVE  \A u \in cached' : slot'[u] = slot[u]
  <2>1. \A u \in Slots : u \in cached' => slot'[u] = clearedSlots(S)[u]
    BY <1>1, <1>2, Collected
  <2>2. QED
    BY <1>1, <1>2, <2>1
<1>3. QED
  BY <1>1, <1>2

(* A request changes the slot it is for to pending, or nothing; a failed slot  *)
(* that was reset is requested again.                                          *)
LEMMA RequestSlots ==
    ASSUME CacheInv, NEW a \in Ops, NEW s \in Slots, NEW S \in SUBSET {s}, \A u \in S : erred(u),
           requestData(a, s, clearedSlots(S)[s], abortedReqs(S)), cached' = cached
    PROVE  /\ \A u \in cached : /\ slot'[u].onStatusChange = slot[u].onStatusChange
                                /\ slot'[u].seg = slot[u].seg
                                /\ slot'[u] = slot[u] \/ slot'[u].status = "pending"
           /\ op'[a].pc # "slot" /\ \A b \in Ops : b # a => op'[b] = op[b]
<1> DEFINE sl == clearedSlots(S)[s]
           rq == abortedReqs(S)
<1>1. CacheTypes /\ cached \in SUBSET Slots /\ op \in [Ops -> OpRecs] /\ slot \in [Slots -> SlotRecs]
  BY DEF CacheInv, CacheTypes
<1>2. /\ sl \in SlotRecs /\ sl.seg = slot[s].seg
      /\ sl.onStatusChange = slot[s].onStatusChange
      /\ s \notin S => sl = slot[s]
      /\ s \in S => sl.promise = None
  BY <1>1, Cleared DEF erred
<1>3. requestData(a, s, sl, rq)
  OBVIOUS
<1> HIDE DEF sl, rq
<1>4. CASE sl.promise = None
  <2>1. PICK r \in Reqs :
           /\ rq[r].state = "free"
           /\ req' = [rq EXCEPT ![r] = [slot |-> s, state |-> "open"]]
           /\ op' = [op EXCEPT ![a] = awaiting(r)]
           /\ slot' = [slot EXCEPT ![s] = [sl EXCEPT !.status = "pending", !.promise = r]]
    BY <1>3, <1>4 DEF requestData
  <2> DEFINE n == [sl EXCEPT !.status = "pending", !.promise = r]
  <2>2. /\ n \in SlotRecs /\ n.seg = slot[s].seg /\ n.status = "pending"
        /\ n.onStatusChange = slot[s].onStatusChange
    BY <1>2 DEF SlotRecs, Promises
  <2>3. slot' = [slot EXCEPT ![s] = n]
    BY <2>1
  <2> HIDE DEF n
  <2>4. slot'[s] = n /\ \A u \in Slots : u # s => slot'[u] = slot[u]
    BY <1>1, <2>2, <2>3
  <2>5. op'[a].pc # "slot" /\ \A b \in Ops : b # a => op'[b] = op[b]
    BY <1>1, <2>1, OpRecords
  <2>6. QED
    BY <1>1, <2>2, <2>4, <2>5
<1>5. CASE sl.promise # None
  <2>1. s \notin S /\ sl = slot[s]
    BY <1>2, <1>5
  <2>2. /\ req' = rq
        /\ op' = [op EXCEPT ![a] = IF sl.promise \in Reqs THEN awaiting(sl.promise)
                                   ELSE resumed(a, sl.promise)]
        /\ slot' = collected([slot EXCEPT ![s] = sl])
    BY <1>3, <1>5 DEF requestData
  <2>3. [slot EXCEPT ![s] = sl] = slot
    BY <1>1, <2>1
  <2>4. \A u \in Slots : u \in cached' => slot'[u] = slot[u]
    BY <1>1, <2>2, <2>3, Collected
  <2>5. op'[a].pc # "slot" /\ \A b \in Ops : b # a => op'[b] = op[b]
    <3>1. sl.promise \in Promises
      BY <1>2 DEF SlotRecs
    <3> DEFINE n == IF sl.promise \in Reqs THEN awaiting(sl.promise) ELSE resumed(a, sl.promise)
    <3>2. n.pc # "slot"
      BY <3>1, OpRecords DEF resumed
    <3>3. op' = [op EXCEPT ![a] = n]
      BY <2>2
    <3> HIDE DEF n
    <3>4. QED
      BY <1>1, <3>2, <3>3
  <2>6. QED
    BY <1>1, <2>1, <2>4, <2>5
<1>6. QED
  BY <1>4, <1>5

(* A reaction changes the slot of its request only: what was downloaded is     *)
(* resolved, what failed is erred, and an aborted request is of no cached slot.*)
LEMMA ReactionSlots ==
    ASSUME CacheInv, NEW r \in Reqs, reaction(r)
    PROVE  /\ req[r].state \in {"ok", "err", "abort"} /\ req[r].slot \in Slots
           /\ cached' = cached
           /\ \A u \in cached : /\ slot'[u].onStatusChange = slot[u].onStatusChange
                                /\ slot'[u].seg = slot[u].seg
           /\ \A u \in cached : u # req[r].slot => slot'[u] = slot[u]
           /\ req[r].slot \in cached => /\ req[r].state # "abort"
                                        /\ req[r].state = "err" => slot'[req[r].slot].status = "erred"
           /\ \A a \in Ops : op[a].pc = "idle" => op'[a] = op[a]
<1> DEFINE s == req[r].slot
           outcome == req[r].state
           sl == slot[s]
           p == IF sl.promise = r THEN outcome ELSE sl.promise
           n == CASE outcome = "ok" -> [sl EXCEPT !.status = "resolved", !.promise = p]
                  [] outcome = "err" -> [sl EXCEPT !.status = "erred", !.promise = p]
                  [] outcome = "abort" -> [sl EXCEPT !.status = "inactive", !.promise = None]
<1>1. /\ outcome \in {"ok", "err", "abort"} /\ cached' = cached
      /\ slot' = collected([slot EXCEPT ![s] = n])
      /\ op' = [a \in Ops |-> IF op[a].pc = "await" /\ op[a].result = r
                              THEN resumed(a, outcome) ELSE op[a]]
  BY DEF reaction
<1>2. /\ CacheTypes /\ cached \in SUBSET Slots /\ s \in Slots
      /\ sl \in SlotRecs /\ slot \in [Slots -> SlotRecs]
  BY <1>1 DEF CacheInv, CacheTypes, RefsInv
<1>3. /\ n \in SlotRecs /\ n.onStatusChange = sl.onStatusChange /\ n.seg = sl.seg
      /\ outcome = "err" => n.status = "erred"
  <2>1. p \in Promises \/ outcome = "abort"
    BY <1>1, <1>2 DEF SlotRecs, Promises
  <2> HIDE DEF p, sl
  <2>2. CASE outcome = "ok"
    <3>1. n = [sl EXCEPT !.status = "resolved", !.promise = p]
      BY <2>2
    <3>2. QED
      BY <1>2, <2>1, <2>2, <3>1 DEF SlotRecs
  <2>3. CASE outcome = "err"
    <3>1. n = [sl EXCEPT !.status = "erred", !.promise = p]
      BY <2>3
    <3>2. QED
      BY <1>2, <2>1, <2>3, <3>1 DEF SlotRecs
  <2>4. CASE outcome = "abort"
    <3>1. n = [sl EXCEPT !.status = "inactive", !.promise = None]
      BY <2>4
    <3>2. QED
      BY <1>2, <2>4, <3>1 DEF SlotRecs, Promises
  <2>5. QED
    BY <1>1, <2>2, <2>3, <2>4
<1> HIDE DEF n
<1> DEFINE slots == [slot EXCEPT ![s] = n]
<1>4. /\ slots \in [Slots -> SlotRecs] /\ slots[s] = n
      /\ \A u \in Slots : u # s => slots[u] = slot[u]
  <2> HIDE DEF s
  <2>1. QED
    BY <1>2, <1>3
<1>5. slot' = collected(slots)
  BY <1>1
<1> HIDE DEF slots
<1>6. \A u \in cached : u \in Slots /\ slot'[u] = slots[u]
  BY <1>1, <1>2, <1>4, <1>5, Collected
<1>7. s \in cached => outcome # "abort"
  BY <1>1 DEF CacheInv, PromisesInv
<1>8. \A a \in Ops : op[a].pc = "idle" => op'[a] = op[a]
  BY <1>1
<1>9. \A u \in cached : /\ slot'[u].onStatusChange = slot[u].onStatusChange
                        /\ slot'[u].seg = slot[u].seg
                        /\ u # s => slot'[u] = slot[u]
  BY <1>3, <1>4, <1>6
<1>10. s \in cached /\ outcome = "err" => slot'[s].status = "erred"
  BY <1>3, <1>4, <1>6
<1>11. QED
  BY <1>1, <1>2, <1>7, <1>8, <1>9, <1>10

------------------------------------------------------------------------------
\* The actions preserve the chain of the prefetch

(* Calls and events.                                                           *)
LEMMA EnvironmentChain ==
    ASSUME Inductive, Environment
    PROVE  ChainInv'
<1>1. CacheInv /\ ChainInv /\ CacheTypes /\ op \in [Ops -> OpRecs] /\ OtherTypes
  BY DEF Inductive, CacheInv, CacheTypes
<1>2. ASSUME UNCHANGED <<slot, cached>>
      PROVE  \A s \in cached' : slot'[s].onStatusChange = TRUE
  BY <1>1, <1>2 DEF ChainInv
<1>3. ASSUME NEW g \in Ops \ {"prefetch"}, NEW n, op' = [op EXCEPT ![g] = n]
      PROVE  op'["prefetch"] = op["prefetch"]
  BY <1>1, <1>3
<1>4. ASSUME NEW g \in Gets, NEW t \in Times, getSegment(g, t)
      PROVE  ChainInv'
  <2>1. op' = [op EXCEPT ![g] = lookup(t)] /\ g \in Ops \ {"prefetch"}
    BY <1>4, Constants DEF getSegment
  <2>2. op'["prefetch"] = op["prefetch"]
    BY <1>3, <2>1
  <2>3. UNCHANGED <<slot, cached, prefetching, disposed, active>>
    BY <1>4 DEF getSegment, given
  <2>4. QED
    BY <1>1, <1>2, <2>2, <2>3 DEF ChainInv
<1>5. ASSUME NEW g \in Gets, prefetchImmediate(g)
      PROVE  ChainInv'
  <2>1. PICK t \in Times : op' = [op EXCEPT !["immediate"] = lookup(t)]
    BY <1>5 DEF prefetchImmediate
  <2>2. op'["prefetch"] = op["prefetch"]
    BY <1>3, <2>1, Constants
  <2>3. UNCHANGED <<slot, cached, prefetching, disposed, active>>
    BY <1>5 DEF prefetchImmediate, given
  <2>4. QED
    BY <1>1, <1>2, <2>2, <2>3 DEF ChainInv
<1>6. ASSUME NEW t \in Times, configure(t) \/ seeking(t)
      PROVE  ChainInv'
  BY <1>1, <1>6 DEF configure, seeking, ChainInv
<1>7. CASE activate \/ timelineChange \/ timeUpdate
  BY <1>1, <1>7 DEF activate, timelineChange, timeUpdate, ChainInv
<1>8. CASE deactivate
  <2> DEFINE S == sweptSlots(inactiveRange)
  <2>1. /\ slot' = collected(clearedSlots(S)) /\ cached' = cached \ S
        /\ active' = FALSE /\ UNCHANGED <<op, prefetching>>
    BY <1>8 DEF deactivate
  <2> HIDE DEF S
  <2>2. \A s \in cached' : slot'[s] = slot[s]
    BY <1>1, <2>1, SweptSlots
  <2>3. QED
    BY <1>1, <2>1, <2>2 DEF ChainInv
<1>9. CASE clear \/ \E q \in Qualities : denylistAndClear(q)
  BY <1>1, <1>9 DEF clear, denylistAndClear, clearCache, given, ChainInv
<1>10. CASE reset
  <2> DEFINE S == {s \in cached : erred(s)}
  <2>1. /\ slot' = clearedSlots(S) /\ cached' = cached
        /\ UNCHANGED <<op, prefetching, active, disposed>>
    BY <1>10 DEF reset, given
  <2> HIDE DEF S
  <2>2. \A s \in cached' : slot'[s].onStatusChange = slot[s].onStatusChange
    BY <1>1, <2>1, SweptSlots
  <2>3. QED
    BY <1>1, <2>1, <2>2 DEF ChainInv
<1>11. CASE dispose
  <2>1. /\ cached' = {} /\ active' = FALSE /\ prefetching' = prefetching
        /\ op' = [a \in Ops |->
                    IF \/ op[a].pc \in {"timeline", "period", "segment"}
                       \/ a = "prefetch" /\ op[a].pc = "await"
                    THEN resumed(a, "abort") ELSE op[a]]
    BY <1>11 DEF dispose, clearCache
  <2>2. op["prefetch"].pc = "idle" => op'["prefetch"] = op["prefetch"]
    BY <2>1, Constants
  <2>3. QED
    BY <1>1, <2>1, <2>2 DEF ChainInv
<1>12. QED
  BY <1>4, <1>5, <1>6, <1>7, <1>8, <1>9, <1>10, <1>11 DEF Environment

(* The controller's own steps.                                                 *)
LEMMA InternalChain ==
    ASSUME Inductive, Internal
    PROVE  ChainInv'
<1>1. CacheInv /\ ChainInv /\ CacheTypes /\ op \in [Ops -> OpRecs] /\ OtherTypes
      /\ cached \in SUBSET Slots /\ RefsInv
  BY DEF Inductive, CacheInv, CacheTypes
<1>2. ASSUME UNCHANGED <<slot, cached, prefetching, disposed, active>>,
             op["prefetch"].pc # "idle" \/ op'["prefetch"].pc = "idle"
      PROVE  ChainInv'
  BY <1>1, <1>2 DEF ChainInv
<1>3. ASSUME NEW a \in Ops, NEW s \in Slots, NEW S \in SUBSET {s}, \A u \in S : erred(u),
             requestData(a, s, clearedSlots(S)[s], abortedReqs(S)), cached' = cached,
             UNCHANGED <<prefetching, disposed, active>>, op[a].pc = "slot"
      PROVE  ChainInv'
  <2>1. /\ \A u \in cached : slot'[u].onStatusChange = slot[u].onStatusChange
        /\ \A b \in Ops : b # a => op'[b] = op[b]
    BY <1>1, <1>3, RequestSlots
  <2>2. op["prefetch"].pc = "idle" => op'["prefetch"] = op["prefetch"]
    BY <1>3, <2>1, Constants
  <2>3. QED
    BY <1>1, <1>3, <2>1, <2>2 DEF ChainInv
<1>4. /\ clearedSlots({}) = slot /\ abortedReqs({}) = req
  <2>1. clearedSlots({}) \in [Slots -> SlotRecs] /\ \A s \in Slots : clearedSlots({})[s] = slot[s]
    BY <1>1, Cleared
  <2>2. abortedReqs({}) \in [Reqs -> ReqRecs] /\ \A r \in Reqs : abortedReqs({})[r] = req[r]
    BY <1>1, Aborted
  <2>3. slot \in [Slots -> SlotRecs] /\ req \in [Reqs -> ReqRecs]
    BY <1>1 DEF CacheTypes
  <2>4. QED
    BY <2>1, <2>2, <2>3
<1>5. ASSUME NEW a \in Ops, NEW s \in Slots, requestData(a, s, slot[s], req), cached' = cached,
             UNCHANGED <<prefetching, disposed, active>>, op[a].pc = "slot"
      PROVE  ChainInv'
  <2>1. requestData(a, s, clearedSlots({})[s], abortedReqs({}))
    BY <1>4, <1>5
  <2>2. QED
    BY <1>3, <1>5, <2>1
<1>6. ASSUME NEW a \in Ops
      PROVE  op[a].slot \in Slots \cup {None}
  BY <1>1 DEF OpRecs
<1>7. CASE pollPrefetch
  <2>1. CASE error
    BY <1>1, <1>7, <2>1 DEF pollPrefetch, given, ChainInv
  <2>2. CASE ~error
    <3> DEFINE S == sweptSlots(retained)
               ranges == fetched \ unfetched(S)
               idle == ended \/ prefetching \/ gaps(ranges) = {}
    <3>1. /\ slot' = collected(clearedSlots(S)) /\ cached' = cached \ S
          /\ IF idle THEN UNCHANGED <<op, prefetching>> ELSE prefetching' = TRUE
      BY <1>7, <2>2 DEF pollPrefetch
    <3> HIDE DEF S, idle
    <3>2. UNCHANGED <<disposed, active>>
      BY <1>7 DEF pollPrefetch, given
    <3>3. \A s \in cached' : slot'[s] = slot[s]
      BY <1>1, <3>1, SweptSlots
    <3>4. \A s \in cached' : slot'[s].onStatusChange = TRUE
      BY <1>1, <3>1, <3>3 DEF ChainInv
    <3>5. op'["prefetch"].pc # "idle" => prefetching'
      BY <1>1, <3>1 DEF ChainInv
    <3>6. QED
      BY <1>1, <3>2, <3>4, <3>5 DEF ChainInv
  <2>3. QED
    BY <2>1, <2>2
<1>8. CASE prefetchStarts
  BY <1>2, <1>8 DEF prefetchStarts, given
<1>9. CASE prefetchSlot
  <2> DEFINE s == op["prefetch"].slot
  <2>1. /\ UNCHANGED <<cached, prefetching, disposed, active>> /\ op["prefetch"].pc = "slot"
        /\ s \in Slots \cup {None}
    BY <1>6, <1>9, Constants DEF prefetchSlot, given
  <2>2. CASE slot' = collected(slot)
    <3>1. slot \in [Slots -> SlotRecs]
      BY <1>1 DEF CacheTypes
    <3>2. \A u \in cached : slot'[u] = slot[u]
      BY <1>1, <2>1, <2>2, <3>1, Collected
    <3>3. QED
      BY <1>1, <2>1, <3>2 DEF ChainInv
  <2>3. CASE slot' = slot
    BY <1>2, <2>1, <2>3
  <2>4. CASE s # None /\ requestData("prefetch", s, slot[s], req)
    BY <1>5, <2>1, <2>4, Constants
  <2>5. QED
    BY <1>9, <2>2, <2>3, <2>4 DEF prefetchSlot
<1>10. CASE prefetchFinally
  <2>1. /\ op' = [op EXCEPT !["prefetch"] = idleOp]
        /\ UNCHANGED <<slot, cached, disposed, active>>
    BY <1>10 DEF prefetchFinally, given
  <2>2. op'["prefetch"].pc = "idle"
    BY <1>1, <2>1, Constants, OpRecords
  <2>3. QED
    BY <1>1, <2>1, <2>2 DEF ChainInv
<1>11. ASSUME NEW a \in Ops, insertSlot(a)
       PROVE  ChainInv'
  <2>1. /\ UNCHANGED <<prefetching, disposed, active>> /\ op[a].pc = "segment"
        /\ \E s \in Slots \cup {None} : slotFound(a, s)
    BY <1>1, <1>11 DEF insertSlot, given
  <2>2. \A b \in Ops : b # a => op'[b] = op[b]
    BY <1>1, <2>1 DEF slotFound
  <2>3. op'["prefetch"].pc # "idle" => prefetching'
    BY <1>1, <2>1, <2>2, Constants DEF ChainInv
  <2>4. \A s \in cached' : slot'[s].onStatusChange = TRUE
    <3>1. CASE UNCHANGED <<slot, cached>>
      BY <1>1, <3>1 DEF ChainInv
    <3>2. ASSUME NEW u \in Slots, cached' = cached \cup {u},
                 slot' = [slot EXCEPT ![u] = newSlot(op[a].time, op[a].quality)]
          PROVE  \A s \in cached' : slot'[s].onStatusChange = TRUE
      <4>1. \A s \in Slots : s # u => slot'[s] = slot[s]
        BY <1>1, <3>2 DEF CacheTypes
      <4>2. slot'[u].onStatusChange = TRUE
        BY <1>1, <3>2 DEF CacheTypes, newSlot
      <4>3. QED
        BY <1>1, <3>2, <4>1, <4>2 DEF ChainInv
    <3>3. QED
      BY <1>11, <3>1, <3>2 DEF insertSlot
  <2>5. QED
    BY <1>1, <2>1, <2>3, <2>4 DEF ChainInv
<1>12. ASSUME NEW a \in Ops, NEW q \in Qualities, selectQuality(a, q)
       PROVE  ChainInv'
  <2>1. /\ UNCHANGED <<slot, cached, prefetching, disposed, active>>
        /\ op[a].pc # "idle"
        /\ \A b \in Ops : b # a => op'[b] = op[b]
    BY <1>1, <1>12 DEF selectQuality, given
  <2>2. op["prefetch"].pc # "idle" \/ op'["prefetch"].pc = "idle"
    BY <2>1, Constants
  <2>3. QED
    BY <1>2, <2>1, <2>2
<1>13. ASSUME NEW g \in Gets, getSegmentSlot(g)
       PROVE  ChainInv'
  <2> DEFINE s == op[g].slot
             S == {u \in {s} \cap Slots : erred(u)}
  <2>1. /\ UNCHANGED <<cached, prefetching, disposed, active>> /\ op[g].pc = "slot"
        /\ s \in Slots \cup {None} /\ g \in Ops \ {"prefetch"}
    BY <1>6, <1>13, Constants DEF getSegmentSlot, given
  <2>2. CASE op' = [op EXCEPT ![g] = idleOp] /\ UNCHANGED <<slot, req>>
    <3>1. op'["prefetch"] = op["prefetch"]
      BY <1>1, <2>1, <2>2
    <3>2. QED
      BY <1>1, <2>1, <2>2, <3>1 DEF ChainInv
  <2>3. CASE s # None /\ requestData(g, s, clearedSlots(S)[s], abortedReqs(S))
    <3>1. S \in SUBSET {s} /\ \A u \in S : erred(u)
      OBVIOUS
    <3> HIDE DEF S
    <3>2. s \in Slots
      BY <2>1, <2>3
    <3> HIDE DEF s
    <3>3. QED
      BY <1>3, <2>1, <2>3, <3>1, <3>2 DEF s
  <2>4. QED
    BY <1>13, <2>2, <2>3 DEF getSegmentSlot
<1>14. CASE prefetchImmediateSlot
  <2> DEFINE s == op["immediate"].slot
  <2>1. /\ UNCHANGED <<cached, prefetching, disposed, active>> /\ op["immediate"].pc = "slot"
        /\ s \in Slots \cup {None}
    BY <1>6, <1>14, Constants DEF prefetchImmediateSlot, given
  <2>2. CASE op' = [op EXCEPT !["immediate"] = idleOp] /\ UNCHANGED <<slot, req>>
    <3>1. op'["prefetch"] = op["prefetch"]
      BY <1>1, <2>1, <2>2
    <3>2. QED
      BY <1>1, <2>1, <2>2, <3>1 DEF ChainInv
  <2>3. CASE s # None /\ requestData("immediate", s, slot[s], req)
    BY <1>5, <2>1, <2>3, Constants
  <2>4. QED
    BY <1>14, <2>2, <2>3 DEF prefetchImmediateSlot
<1>15. ASSUME NEW r \in Reqs, reaction(r)
       PROVE  ChainInv'
  <2>1. /\ cached' = cached
        /\ \A u \in cached : slot'[u].onStatusChange = slot[u].onStatusChange
        /\ op["prefetch"].pc = "idle" => op'["prefetch"] = op["prefetch"]
    BY <1>1, <1>15, ReactionSlots, Constants
  <2>2. UNCHANGED <<prefetching, disposed, active>>
    BY <1>15 DEF reaction, given
  <2>3. QED
    BY <1>1, <2>1, <2>2 DEF ChainInv
<1>16. ASSUME NEW r \in Reqs, NEW outcome \in {"ok", "err"}, networkSettles(r, outcome)
       PROVE  ChainInv'
  BY <1>1, <1>16 DEF networkSettles, given, ChainInv
<1>17. QED
  BY <1>7, <1>8, <1>9, <1>10, <1>11, <1>12, <1>13, <1>14, <1>15, <1>16 DEF Internal

------------------------------------------------------------------------------
\* The inductive invariant holds

(* At the start there is no slot, no request and no operation.                 *)
LEMMA InductiveInit ==
    ASSUME Init
    PROVE  Inductive
<1>1. CacheTypes
  BY OpRecords DEF Init, CacheTypes
<1>2. RefsInv /\ OpsInv /\ PromisesInv
  BY OpRecords DEF Init, RefsInv, OpsInv, PromisesInv
<1>3. OneSlotPerSegment /\ CachedSlotSound /\ ChainInv
  BY OpRecords, Constants DEF Init, OneSlotPerSegment, CachedSlotSound, ChainInv
<1>4. OtherTypes
  <2>1. /\ active \in BOOLEAN /\ ended \in BOOLEAN /\ prefetching \in BOOLEAN
        /\ error \in BOOLEAN /\ disposed \in BOOLEAN /\ poll \in BOOLEAN
    BY DEF Init
  <2>2. startTime \in Times /\ currentTime \in Times /\ calls \in 0..MaxCalls
    BY Constants DEF Init
  <2>3. timeline \in Versions /\ cachedPeriod \in Versions \cup {0}
    BY Constants DEF Init
  <2>4. denylist \in SUBSET Qualities /\ fetched \in SUBSET Times
    BY DEF Init
  <2>5. QED
    BY <2>1, <2>2, <2>3, <2>4 DEF OtherTypes
<1>5. QED
  BY <1>1, <1>2, <1>3, <1>4 DEF Inductive, CacheInv

(* Every step keeps it.                                                        *)
LEMMA InductiveNext ==
    ASSUME Inductive, [Next]_vars
    PROVE  Inductive'
<1>1. CASE Call
  <2>1. Environment /\ calls' \in 0..MaxCalls
    BY <1>1, Constants DEF Call, Inductive, OtherTypes
  <2>2. QED
    BY <2>1, EnvironmentCache, EnvironmentTypes, EnvironmentChain DEF Inductive
<1>2. CASE Progress
  <2>1. Internal /\ calls' \in 0..MaxCalls
    BY <1>2 DEF Progress, Inductive, OtherTypes
  <2>2. QED
    BY <2>1, InternalCache, InternalTypes, InternalChain DEF Inductive
<1>3. CASE UNCHANGED vars
  <2>1. CacheInv'
    BY <1>3, CacheKept DEF Inductive, vars
  <2>2. OtherTypes' /\ ChainInv'
    BY <1>3 DEF Inductive, vars, OtherTypes, ChainInv
  <2>3. QED
    BY <2>1, <2>2 DEF Inductive
<1>4. QED
  BY <1>1, <1>2, <1>3 DEF Next

(* The inductive invariant of the cache of segments and of its prefetch.       *)
THEOREM InductiveHolds == Spec => []Inductive
<1>1. Init => Inductive
  BY InductiveInit
<1>2. Inductive /\ [Next]_vars => Inductive'
  BY InductiveNext
<1>3. QED
  BY <1>1, <1>2, PTL DEF Spec

(* The cache holds one slot per segment, and the status of every cached slot   *)
(* tells the truth about its promise, across overlapping lookups, clears,      *)
(* resets, sweeps and the reactions of aborted requests                        *)
(* (SegmentControllerImpl.ts 571-576, SegmentDataSlot.ts 91-104).              *)
THEOREM CacheIsSound == Spec => []CacheSound
<1>1. Inductive => CacheSound
  BY DEF Inductive, CacheInv, CacheTypes, OtherTypes, CacheSound, TypeOK
<1>2. QED
  BY <1>1, InductiveHolds, PTL

(* A cached segment is downloaded by one request at a time, whoever asks for   *)
(* it and whatever became of earlier requests (SegmentDataSlot.ts 77-104).     *)
THEOREM SlotsAreRequestedOnce == Spec => []OneRequestPerSlot
<1>1. Inductive => OneRequestPerSlot
  BY DEF Inductive, CacheInv, PromisesInv, OneRequestPerSlot
<1>2. QED
  BY <1>1, InductiveHolds, PTL

------------------------------------------------------------------------------
\* The prefetch is not forgotten

(* A step that leaves the state of the prefetch and its range, drops no        *)
(* segment that was fetched, and no request for one that is not, forgets       *)
(* nothing.                                                                    *)
LEMMA KeptIsNotForgotten ==
    ASSUME UNCHANGED <<active, startTime, currentTime, timeline>>,
           UNCHANGED <<error, ended, prefetching, poll>>,
           fetched \subseteq fetched',
           \A t : requested(t) /\ t \notin fetched' => requested(t)',
           forgotten'
    PROVE  forgotten
<1>1. PICK t \in gaps(fetched)' : t < End[timeline]' /\ ~requested(t)'
  BY DEF forgotten
<1>2. t \in prefetchRange /\ t \notin fetched'
  BY <1>1 DEF gaps, prefetchRange, activeRange, inactiveRange
<1>3. t \in gaps(fetched) /\ t < End[timeline] /\ ~requested(t)
  BY <1>1, <1>2 DEF gaps
<1>4. active /\ ~error /\ ~ended /\ ~prefetching /\ ~poll
  BY DEF forgotten
<1>5. QED
  BY <1>3, <1>4 DEF forgotten

(* The cached slots keep their segments, and stay pending or erred.            *)
LEMMA RequestedKept ==
    ASSUME cached \subseteq cached',
           \A u \in cached : /\ slot'[u].seg = slot[u].seg
                             /\ slot'[u] = slot[u] \/ slot'[u].status = "pending"
    PROVE  \A t : requested(t) => requested(t)'
BY DEF requested

(* Calls and events poll, or leave the prefetch alone, or end its activity.    *)
LEMMA EnvironmentForgetsNothing ==
    ASSUME Inductive, Environment, forgotten'
    PROVE  forgotten
<1>1. active' /\ ~poll'
  BY DEF forgotten
<1>2. ASSUME UNCHANGED <<given, slot, cached, fetched, ended, prefetching, error, poll>>
      PROVE  forgotten
  <2>1. \A t : requested(t) => requested(t)'
    BY <1>2, RequestedKept
  <2>2. QED
    BY <1>2, <2>1, KeptIsNotForgotten DEF given
<1>3. ASSUME NEW g \in Gets, NEW t \in Times, getSegment(g, t)
      PROVE  forgotten
  BY <1>2, <1>3 DEF getSegment
<1>4. ASSUME NEW g \in Gets, prefetchImmediate(g)
      PROVE  forgotten
  BY <1>2, <1>4 DEF prefetchImmediate
<1>5. ~activate /\ ~clear /\ ~reset /\ ~timelineChange /\ ~timeUpdate
  BY <1>1 DEF activate, clear, reset, timelineChange, timeUpdate
<1>6. \A t \in Times : ~configure(t) /\ ~seeking(t)
  BY <1>1 DEF configure, seeking
<1>7. \A q \in Qualities : ~denylistAndClear(q)
  BY <1>1 DEF denylistAndClear
<1>8. ~deactivate /\ ~dispose
  BY <1>1 DEF deactivate, dispose
<1>9. QED
  BY <1>3, <1>4, <1>5, <1>6, <1>7, <1>8 DEF Environment

(* The controller's own steps: a poll leaves no gap or prefetches, the end of  *)
(* a prefetch polls, what a request or a reaction changes stays requested or   *)
(* becomes fetched; but for retries and late aborts.                           *)
LEMMA InternalForgetsNothing ==
    ASSUME Inductive, Internal, forgotten', ~retries, ~lateAbort
    PROVE  forgotten
<1>1. /\ CacheInv /\ CacheTypes /\ RefsInv /\ ChainInv /\ OtherTypes
      /\ cached \in SUBSET Slots /\ op \in [Ops -> OpRecs]
  BY DEF Inductive, CacheInv, CacheTypes
<1>2. active' /\ ~error' /\ ~ended' /\ ~prefetching' /\ ~poll' /\ gaps(fetched)' # {}
  BY DEF forgotten
<1>3. ASSUME UNCHANGED <<given, ended, prefetching, error, poll>>, fetched' = fetched,
             cached \subseteq cached',
             \A u \in cached : /\ slot'[u].seg = slot[u].seg
                               /\ slot'[u] = slot[u] \/ slot'[u].status = "pending"
      PROVE  forgotten
  <2>1. \A t : requested(t) => requested(t)'
    BY <1>3, RequestedKept
  <2>2. QED
    BY <1>3, <2>1, KeptIsNotForgotten DEF given
<1>4. ASSUME NEW a \in Ops, NEW s \in Slots, requestData(a, s, slot[s], req), cached' = cached,
             UNCHANGED <<given, ended, prefetching, error, poll>>, fetched' = fetched
      PROVE  forgotten
  <2>1. clearedSlots({}) \in [Slots -> SlotRecs] /\ \A u \in Slots : clearedSlots({})[u] = slot[u]
    BY <1>1, Cleared
  <2>2. abortedReqs({}) \in [Reqs -> ReqRecs] /\ \A r \in Reqs : abortedReqs({})[r] = req[r]
    BY <1>1, Aborted
  <2>3. slot \in [Slots -> SlotRecs] /\ req \in [Reqs -> ReqRecs]
    BY <1>1 DEF CacheTypes
  <2>4. clearedSlots({}) = slot /\ abortedReqs({}) = req
    BY <2>1, <2>2, <2>3
  <2>5. requestData(a, s, clearedSlots({})[s], abortedReqs({}))
    BY <1>4, <2>4
  <2>6. \A u \in cached : /\ slot'[u].seg = slot[u].seg
                          /\ slot'[u] = slot[u] \/ slot'[u].status = "pending"
    BY <1>1, <1>4, <2>5, RequestSlots
  <2>7. QED
    BY <1>3, <1>4, <2>6
<1>5. CASE pollPrefetch
  <2> DEFINE ranges == fetched \ unfetched(sweptSlots(retained))
  <2>1. ~error
    BY <1>2, <1>5 DEF pollPrefetch
  <2>2. /\ fetched' = ranges
        /\ IF ended \/ prefetching \/ gaps(ranges) = {}
           THEN UNCHANGED prefetching ELSE prefetching' = TRUE
        /\ UNCHANGED <<given, ended>>
    BY <1>5, <2>1 DEF pollPrefetch
  <2> HIDE DEF ranges
  <2>3. gaps(ranges) = {}
    BY <1>2, <2>2
  <2>4. gaps(fetched)' = gaps(ranges)
    BY <2>2 DEF gaps, prefetchRange, activeRange, inactiveRange, given
  <2>5. QED
    BY <1>2, <2>3, <2>4
<1>6. CASE prefetchStarts
  BY <1>3, <1>6 DEF prefetchStarts
<1>7. ~prefetchSlot
  BY <1>1, <1>2 DEF prefetchSlot, ChainInv
<1>8. ~prefetchFinally
  BY <1>1, <1>2 DEF prefetchFinally, given, ChainInv
<1>9. ASSUME NEW a \in Ops, insertSlot(a)
      PROVE  forgotten
  <2>1. UNCHANGED <<given, fetched, ended, prefetching, error, poll>>
    BY <1>9 DEF insertSlot
  <2>2. CASE UNCHANGED <<slot, cached>>
    BY <1>3, <2>1, <2>2
  <2>3. ASSUME NEW s \in Slots, slot[s] = freeSlot, cached' = cached \cup {s},
               slot' = [slot EXCEPT ![s] = newSlot(op[a].time, op[a].quality)]
        PROVE  forgotten
    <3>1. s \notin cached
      BY <1>1, <2>3, OpRecords, Constants DEF RefsInv
    <3>2. \A u \in cached : slot'[u] = slot[u]
      BY <1>1, <2>3, <3>1 DEF CacheTypes
    <3>3. QED
      BY <1>3, <2>1, <2>3, <3>2
  <2>4. QED
    BY <1>9, <2>2, <2>3 DEF insertSlot
<1>10. ASSUME NEW a \in Ops, NEW q \in Qualities, selectQuality(a, q)
       PROVE  forgotten
  BY <1>3, <1>10 DEF selectQuality
<1>11. ASSUME NEW g \in Gets, getSegmentSlot(g)
       PROVE  forgotten
  <2> DEFINE s == op[g].slot
             S == {u \in {s} \cap Slots : erred(u)}
  <2>1. /\ op[g].pc = "slot" /\ cached' = cached
        /\ fetched' = fetched \ unfetched(S) /\ ended' = (ended /\ S = {})
        /\ UNCHANGED <<given, prefetching, error, poll>>
    BY <1>11 DEF getSegmentSlot
  <2>2. s \in Slots \cup {None} /\ g \in Ops
    BY <1>1, Constants DEF OpRecs
  <2>3. CASE s = None /\ UNCHANGED slot
    <3>1. S = {}
      BY <2>3, Constants
    <3>2. fetched' = fetched /\ ended' = ended
      <4>1. unfetched({}) = {}
        BY DEF unfetched
      <4>2. QED
        BY <1>1, <2>1, <3>1, <4>1 DEF OtherTypes
    <3>3. QED
      BY <1>3, <2>1, <2>3, <3>2
  <2>4. CASE s # None /\ requestData(g, s, clearedSlots(S)[s], abortedReqs(S))
    <3>1. S \in SUBSET {s} /\ (\A u \in S : erred(u)) /\ s \in Slots
      BY <2>2, <2>4
    <3>2. (S # {}) => erred(s)
      OBVIOUS
    <3>3. unfetched({}) = {}
      BY DEF unfetched
    <3> HIDE DEF S
    <3>4. /\ \A u \in cached : /\ slot'[u].seg = slot[u].seg
                               /\ slot'[u] = slot[u] \/ slot'[u].status = "pending"
          /\ op'[g].pc # "slot"
      BY <1>1, <2>1, <2>2, <2>4, <3>1, RequestSlots
    <3>5. S = {}
      BY <2>1, <3>1, <3>2, <3>4 DEF retries
    <3>6. fetched' = fetched /\ ended' = ended
      BY <1>1, <2>1, <3>3, <3>5 DEF OtherTypes
    <3>7. QED
      BY <1>3, <2>1, <3>4, <3>6
  <2>5. QED
    BY <1>11, <2>3, <2>4 DEF getSegmentSlot
<1>12. CASE prefetchImmediateSlot
  <2> DEFINE s == op["immediate"].slot
  <2>1. /\ UNCHANGED <<given, ended, prefetching, error, poll>>
        /\ cached' = cached /\ fetched' = fetched /\ s \in Slots \cup {None}
    BY <1>1, <1>12, Constants DEF prefetchImmediateSlot, OpRecs
  <2>2. CASE UNCHANGED slot
    BY <1>3, <2>1, <2>2
  <2>3. CASE s # None /\ requestData("immediate", s, slot[s], req)
    BY <1>4, <2>1, <2>3, Constants
  <2>4. QED
    BY <1>12, <2>2, <2>3 DEF prefetchImmediateSlot
<1>13. ASSUME NEW r \in Reqs, reaction(r)
       PROVE  forgotten
  <2> DEFINE s == req[r].slot
  <2>1. /\ req[r].state \in {"ok", "err", "abort"} /\ s \in Slots
        /\ cached' = cached
        /\ \A u \in cached : slot'[u].seg = slot[u].seg
        /\ \A u \in cached : u # s => slot'[u] = slot[u]
        /\ s \in cached => /\ req[r].state # "abort"
                           /\ req[r].state = "err" => slot'[s].status = "erred"
    BY <1>1, <1>13, ReactionSlots
  <2>2. /\ UNCHANGED <<given, ended, prefetching, error, poll>>
        /\ req' = [req EXCEPT ![r] = freeReq]
        /\ fetched' = IF ~slot[s].onStatusChange THEN fetched
                      ELSE CASE req[r].state = "ok" -> fetched \cup {slot[s].seg}
                             [] req[r].state = "err" -> fetched
                             [] req[r].state = "abort" -> fetched \ {slot[s].seg}
    BY <1>13 DEF reaction
  <2>3. req'[r].state = "free"
    BY <1>1, <2>2, OpRecords DEF CacheTypes
  <2>4. s \in cached => slot[s].onStatusChange = TRUE
    BY <1>1 DEF ChainInv
  <2> HIDE DEF s
  <2>5. fetched \subseteq fetched'
    <3>1. req[r].state = "abort" => slot[s].seg \notin fetched
      BY <2>3 DEF lateAbort, s
    <3>2. QED
      BY <1>1, <2>1, <2>2, <3>1 DEF OtherTypes
  <2>6. ASSUME NEW t, requested(t), t \notin fetched'
        PROVE  requested(t)'
    <3>1. PICK u \in cached : slot[u].seg = t /\ slot[u].status \in {"pending", "erred"}
      BY <2>6 DEF requested
    <3>2. CASE u # s
      BY <2>1, <3>1, <3>2 DEF requested
    <3>3. CASE u = s
      <4>1. req[r].state # "ok"
        BY <2>2, <2>4, <2>6, <3>1, <3>3
      <4>2. slot'[u].status = "erred" /\ slot'[u].seg = t
        BY <2>1, <3>1, <3>3, <4>1
      <4>3. QED
        BY <2>1, <3>1, <4>2 DEF requested
    <3>4. QED
      BY <3>2, <3>3
  <2>7. QED
    BY <2>2, <2>5, <2>6, KeptIsNotForgotten DEF given
<1>14. ASSUME NEW r \in Reqs, NEW outcome \in {"ok", "err"}, networkSettles(r, outcome)
       PROVE  forgotten
  BY <1>3, <1>14 DEF networkSettles
<1>15. QED
  BY <1>5, <1>6, <1>7, <1>8, <1>9, <1>10, <1>11, <1>12, <1>13, <1>14 DEF Internal

(* While a track is active, no step leaves its prefetch at rest with something *)
(* left to do, but a getSegment that retries a failed segment and the reaction *)
(* of an aborted request whose segment was fetched again: every other event    *)
(* polls (SegmentControllerImpl.ts 315-356, 740-751).                          *)
THEOREM PrefetchIsNotForgotten == Spec => PrefetchNotForgotten
<1>1. Inductive /\ [Next]_vars => [forgotten' => forgotten \/ retries \/ lateAbort]_vars
  <2> SUFFICES ASSUME Inductive, [Next]_vars, forgotten', ~retries, ~lateAbort, vars' # vars
               PROVE  forgotten
    OBVIOUS
  <2>1. Environment \/ Internal
    BY DEF Next, Call, Progress
  <2>2. QED
    BY <2>1, EnvironmentForgetsNothing, InternalForgetsNothing
<1>2. QED
  BY <1>1, InductiveHolds, PTL DEF Spec, PrefetchNotForgotten

==============================================================================
