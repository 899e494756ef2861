------------------------------ MODULE MediaSource ------------------------------
(* An active MseTrack, its MediaSourceControllerImpl and the source buffers of *)
(* its streams: vinyl/src/track/mse/MseTrack.ts with TrackBase.ts,             *)
(* streaming/buffering/MediaSourceController.ts and SourceBufferController.ts. *)
(* No stream may append before every stream has created its source buffer and  *)
(* the duration is set; content types, durations, errors and resets change     *)
(* that in the middle.  What a BufferingController appends is module           *)
(* Buffering; here a stream initializes, appends, clears and ends.             *)
(*                                                                             *)
(* The browser's media source is modelled from the calls the code makes: it    *)
(* throws on a duration or an end while a buffer is updating, on a buffer      *)
(* added late, and on an append to a buffer that was removed.                  *)
EXTENDS Integers, Sequences, FiniteSets, FiniteSetsExt

CONSTANTS
    Types,          \* content types
    TypesOf,        \* TypesOf[i]: content types of the i-th media timeline
    DurationOf,     \* DurationOf[i]: its duration
    Buffers,        \* identities of source buffers, reused once unreachable
    MaxCalls,       \* bound on calls of the track controller and on seeks
    MaxFaults       \* bound on failed appends, timeouts and closings

Timelines == DOMAIN TypesOf

ASSUME MediaSourceAssumption ==
    /\ TypesOf \in Seq(SUBSET Types) \ {<<>>}
    /\ DurationOf \in [Timelines -> Nat \ {0}]
    /\ Buffers \subseteq Nat \ {0}
    /\ IsFiniteSet(Types) /\ IsFiniteSet(Buffers)
    /\ Cardinality(Types) < Cardinality(Buffers)
    /\ {MaxCalls, MaxFaults} \subseteq Nat

VARIABLES
    changeType,     \* the browser's source buffers have changeType()
    timeline,       \* the promise mediaTimelineTransformed holds
    resolved,       \* timelines whose promise has resolved: 1..resolved
    track,          \* MseTrack
    msc,            \* MediaSourceControllerImpl
    refresh,        \* the refreshDuration() whose token is current
    ms,             \* the media source last created
    stream,         \* per content type: the stream and its source buffer controller
    orphans,        \* continuations of disposed source buffer controllers
    calls, faults

vars == <<changeType, timeline, resolved, track, msc, refresh, ms, stream, orphans,
          calls, faults>>

env == <<changeType, timeline, resolved, calls, faults>>

(* "waiting": a new buffer awaits readyToAppend; "woken": the event came, the  *)
(* continuation is still to run; "busy": the buffer is updating.  old: the     *)
(* reference is still to a buffer that was removed to be replaced.             *)
Phases == {"none", "empty", "waiting", "woken", "idle", "busy"}

Streams == [phase : Phases, buf : Buffers \cup {0}, op : {"none", "init", "media", "clear"},
            old : BOOLEAN, fed : BOOLEAN, ended : BOOLEAN, reopen : BOOLEAN, error : BOOLEAN]

TypeOK ==
    /\ changeType \in BOOLEAN
    /\ timeline \in Timelines /\ resolved \in 0..timeline
    /\ track \in [active : BOOLEAN, types : SUBSET Types, applied : 0..timeline]
    /\ msc \in [active : BOOLEAN, typed : BOOLEAN, durationSet : BOOLEAN,
                buffers : SUBSET Buffers]
    /\ refresh \in [phase : {"none", "timeline", "idle", "failed"}, wait : SUBSET Buffers]
    /\ ms \in [state : {"closed", "open", "ended"}, opening : BOOLEAN, opened : BOOLEAN,
               attached : SUBSET Buffers, busy : SUBSET Buffers, inited : SUBSET Buffers,
               duration : {0} \cup {DurationOf[i] : i \in Timelines}]
    /\ stream \in [Types -> Streams]
    /\ orphans \subseteq [buf : Buffers, phase : {"rejected", "woken"}]
    /\ calls \in 0..MaxCalls /\ faults \in 0..MaxFaults

noStream == [phase |-> "none", buf |-> 0, op |-> "none", old |-> FALSE,
             fed |-> FALSE, ended |-> FALSE, reopen |-> FALSE, error |-> FALSE]

newMediaSource == [state |-> "closed", opening |-> TRUE, opened |-> FALSE, attached |-> {},
                   busy |-> {}, inited |-> {}, duration |-> 0]

noRefresh == [phase |-> "none", wait |-> {}]

newRefresh == [phase |-> "timeline", wait |-> {}]

Init ==
    /\ changeType \in BOOLEAN
    /\ timeline = 1 /\ resolved = 0
    /\ track = [active |-> FALSE, types |-> {}, applied |-> 0]
    /\ msc = [active |-> FALSE, typed |-> FALSE, durationSet |-> FALSE, buffers |-> {}]
    /\ refresh = noRefresh
    /\ ms = [newMediaSource EXCEPT !.opening = FALSE]
    /\ stream = [t \in Types |-> noStream]
    /\ orphans = {}
    /\ calls = 0 /\ faults = 0

------------------------------------------------------------------------------
(* ---- the world: what a track and its media source consist of ---- *)
(* The calls of a track nest (a change of content types resets the track), so  *)
(* each maps a record of the state to the state after it.                      *)
World == [track |-> track, msc |-> msc, refresh |-> refresh, ms |-> ms,
          stream |-> stream, orphans |-> orphans]

Becomes(w) ==
    /\ track' = w.track /\ msc' = w.msc /\ refresh' = w.refresh
    /\ ms' = w.ms /\ stream' = w.stream /\ orphans' = w.orphans

(* readyToAppend.  contentTypes is those of the current timeline, or null      *)
(* while their promise has not resolved.                                       *)
readyToAppend(w) ==
    /\ w.msc.durationSet
    /\ w.msc.typed
    /\ Cardinality(TypesOf[timeline]) = Cardinality(w.msc.buffers)

(* Mutant: the event is not dispatched.                                        *)
MutNoCheck(w) == w

(* checkReady: wakes every controller that waits.                              *)
checkReady(w) ==
    IF readyToAppend(w)
    THEN [w EXCEPT !.stream = [t \in Types |->
             IF w.stream[t].phase = "waiting" THEN [w.stream[t] EXCEPT !.phase = "woken"]
             ELSE w.stream[t]]]
    ELSE w

(* Mutant: the duration is set once.                                           *)
MutSetsOnce(w) == w.ms.state = "open" /\ w.ms.duration = 0

(* refreshDuration() returns early unless the media source is open and its     *)
(* duration differs (closeTo).                                                 *)
setsDuration(w) == w.ms.state = "open" /\ w.ms.duration # DurationOf[timeline]

(* ---- the browser's media source ---- *)
detach(m, B) == [m EXCEPT !.attached = @ \ B, !.busy = @ \ B, !.inited = @ \ B]

(* Removing buffers aborts their updates, and with them a refresh that waits.  *)
aborted(r, B) == IF B \cap r.wait # {} THEN noRefresh ELSE r

(* An append or a removal reopens a media source that has ended.               *)
reopened(m) == IF m.state = "ended" THEN [m EXCEPT !.state = "open", !.opened = TRUE] ELSE m

updating(m, b) == [reopened(m) EXCEPT !.busy = @ \cup {b}]

(* The update of a stream's buffer is over, or has failed.                     *)
updated(m, s) == [m EXCEPT !.busy = @ \ {s.buf},
                           !.inited = IF s.op = "init" THEN @ \cup {s.buf} ELSE @]

erred(m, b) == [m EXCEPT !.busy = @ \ {b}, !.state = "ended"]

(* Browsers refuse a buffer once another one has been initialized.             *)
canAddBuffer(m) == m.state = "open" /\ m.inited = {}

(* ---- MediaSourceControllerImpl ---- *)
(* Mutant: disposing a reference forgets to untrack the buffer.                *)
MutDisposeKeeps(w, B) ==
    [w EXCEPT !.ms = IF @.state = "closed" THEN @ ELSE detach(@, B),
              !.refresh = aborted(@, B)]

(* dispose() of the references to some buffers.                                *)
disposeRef(w, B) ==
    [w EXCEPT !.ms = IF @.state = "closed" THEN @ ELSE detach(@, B),
              !.msc.buffers = @ \ B,
              !.refresh = aborted(@, B)]

createSourceBuffer(w, b) ==
    checkReady([w EXCEPT !.ms.attached = @ \cup {b}, !.msc.buffers = @ \cup {b}])

(* activate(): a new media source; the timeline and the content types fire at  *)
(* once with their current promises.                                           *)
activateMediaSource(w) ==
    [w EXCEPT !.ms = newMediaSource,
              !.msc = [@ EXCEPT !.active = TRUE, !.typed = FALSE],
              !.refresh = newRefresh]

(* Mutant: deactivate() keeps durationSet.                                     *)
MutKeepsDuration(w) ==
    IF w.msc.active THEN [w EXCEPT !.msc.active = FALSE, !.refresh = noRefresh] ELSE w

deactivateMediaSource(w) ==
    IF w.msc.active
    THEN [w EXCEPT !.msc = [@ EXCEPT !.active = FALSE, !.durationSet = FALSE],
                   !.refresh = noRefresh]
    ELSE w

------------------------------------------------------------------------------
(* ---- SourceBufferControllerImpl ---- *)
held(s) == IF s.phase \in {"idle", "busy"} THEN {s.buf} ELSE {}

pending(s) == IF s.phase \in {"waiting", "woken"} THEN {s.buf} ELSE {}

(* dispose(): aborts the queue and disposes the reference.                     *)
disposeController(s) ==
    [s EXCEPT !.phase = "none", !.buf = 0, !.op = "none", !.old = FALSE]

(* A task that waits for readyToAppend disposes its new buffer when its        *)
(* rejection is handled; a task that has been woken goes on.                   *)
orphan(s) == [buf |-> s.buf, phase |-> IF s.phase = "woken" THEN "woken" ELSE "rejected"]

(* ---- ContentStream and BufferingController ---- *)
(* deactivate() of the streams of the track, one after the other.              *)
deactivateStreams(w) ==
    LET leaving == {t \in w.track.types : w.stream[t].phase # "none"}
        left == [w EXCEPT
            !.stream = [t \in Types |->
                IF t \in leaving
                THEN [disposeController(w.stream[t]) EXCEPT !.fed = FALSE, !.ended = FALSE]
                ELSE w.stream[t]],
            !.orphans = @ \cup {orphan(w.stream[t]) :
                                   t \in {u \in leaving : pending(w.stream[u]) # {}}}]
    IN disposeRef(left, UNION {held(w.stream[t]) : t \in leaving})

activateStreams(w, types) ==
    [w EXCEPT !.stream = [t \in Types |->
        IF t \in types THEN [w.stream[t] EXCEPT !.phase = "empty"] ELSE w.stream[t]]]

(* ---- MseTrack ---- *)
(* Detaching the media element's source closes the media source.               *)
closed(m) == [m EXCEPT !.state = "closed", !.opening = FALSE, !.opened = FALSE,
                       !.attached = {}, !.busy = {}, !.inited = {}, !.duration = 0]

onDeactivated(w) == deactivateMediaSource([deactivateStreams(w) EXCEPT !.ms = closed(@)])

onActivated(w) == activateStreams(activateMediaSource(w), w.track.types)

clearErrors(w) ==
    [w EXCEPT !.stream = [t \in Types |-> [w.stream[t] EXCEPT !.error = FALSE]]]

(* reset(hard): an active track is deactivated and activated.                  *)
hardReset(w) ==
    clearErrors(IF w.track.active THEN onActivated(onDeactivated(w)) ELSE w)

clearStreams(w) ==
    [deactivateStreams(w) EXCEPT !.stream = [t \in Types |-> noStream]]

createStreams(w, types) == IF w.track.active THEN activateStreams(w, types) ELSE w

(* A change of a track that has content types recreates the media source.      *)
setContentTypes(w, types) ==
    IF types = w.track.types THEN w
    ELSE LET u == IF w.track.types = {} THEN w ELSE hardReset(w)
         IN createStreams([clearStreams(u) EXCEPT !.track.types = types], types)

------------------------------------------------------------------------------
(* ---- microtasks: promise reactions, which run before the next macrotask ---- *)
woken == {t \in Types : stream[t].phase = "woken"}

MicrotaskPending ==
    \/ track.applied < resolved
    \/ msc.active /\ ~msc.typed /\ resolved = timeline
    \/ refresh.phase = "idle" /\ refresh.wait = {}
    \/ woken # {} \/ orphans # {}

(* The content types of the next promise that resolved reach the track ...     *)
TypesReachTrack ==
    /\ track.applied < resolved
    /\ LET w == setContentTypes(World, TypesOf[track.applied + 1])
       IN Becomes([w EXCEPT !.track.applied = @ + 1])
    /\ UNCHANGED env

(* ... and, after it, the media source controller, if they are still current.  *)
TypesReachMediaSource ==
    /\ msc.active /\ ~msc.typed
    /\ track.applied = timeline
    /\ Becomes(checkReady([World EXCEPT !.msc.typed = TRUE]))
    /\ UNCHANGED env

(* The last step of refreshDuration().  Setting the duration throws while a    *)
(* buffer is updating: an 'error' event nobody listens to.                     *)
RefreshSets ==
    /\ refresh.phase = "idle" /\ refresh.wait = {}
    /\ LET w == [World EXCEPT !.refresh = noRefresh]
       IN Becomes(CASE ~setsDuration(w) -> w
                    [] setsDuration(w) /\ ms.busy = {} ->
                          checkReady([w EXCEPT !.ms.duration = DurationOf[timeline],
                                               !.msc.durationSet = TRUE])
                    [] OTHER -> [w EXCEPT !.refresh.phase = "failed"])
    /\ UNCHANGED env

(* appendBuffer() of an initialization segment: throws if the buffer has been  *)
(* removed from its media source.                                              *)
appendsInit(w, t) ==
    LET s == w.stream[t]
    IN IF s.buf \in w.ms.attached
       THEN [w EXCEPT !.ms = updating(@, s.buf),
                      !.stream[t] = [s EXCEPT !.phase = "busy", !.op = "init", !.old = FALSE]]
       ELSE [w EXCEPT !.stream[t] = [s EXCEPT !.phase = "idle", !.old = FALSE, !.error = TRUE]]

(* The task that awaited readyToAppend goes on.                                *)
Continue(t) ==
    /\ stream[t].phase = "woken"
    /\ Becomes(appendsInit(World, t))
    /\ UNCHANGED env

(* The same in a controller that was disposed: a rejection disposes the new    *)
(* buffer; a task already woken keeps it, and appends to a closed media source.*)
OrphanContinues ==
    \E o \in orphans :
        /\ Becomes(LET w == [World EXCEPT !.orphans = @ \ {o}]
                   IN IF o.phase = "rejected" THEN disposeRef(w, {o.buf}) ELSE w)
        /\ UNCHANGED env

Microtask ==
    \/ TypesReachTrack \/ TypesReachMediaSource \/ RefreshSets \/ OrphanContinues
    \/ \E t \in Types : Continue(t)

------------------------------------------------------------------------------
(* ---- macrotasks: network, media events, timers, calls ---- *)
(* The media timeline changes: an option, or a manifest that was refreshed.    *)
TimelineChanges ==
    /\ ~MicrotaskPending
    /\ timeline < Len(TypesOf)
    /\ timeline' = timeline + 1
    /\ Becomes([World EXCEPT
            !.refresh = IF msc.active THEN newRefresh ELSE noRefresh,
            !.msc.typed = IF msc.active THEN FALSE ELSE @,
            !.stream = [t \in Types |-> [stream[t] EXCEPT !.reopen = stream[t].phase # "none"]]])
    /\ UNCHANGED <<changeType, resolved, calls, faults>>

(* Promises of the timeline resolve in order.                                  *)
TimelineResolves ==
    /\ ~MicrotaskPending
    /\ resolved < timeline
    /\ resolved' = resolved + 1
    /\ UNCHANGED <<changeType, timeline, track, msc, refresh, ms, stream, orphans, calls, faults>>

(* refreshDuration() knows the duration and looks which buffers are updating.  *)
RefreshWaits ==
    /\ ~MicrotaskPending
    /\ refresh.phase = "timeline" /\ resolved = timeline
    /\ refresh' = [phase |-> "idle", wait |-> ms.busy \cap msc.buffers]
    /\ UNCHANGED <<env, track, msc, ms, stream, orphans>>

SourceOpens ==
    /\ ~MicrotaskPending
    /\ ms.opening
    /\ ms' = [ms EXCEPT !.state = "open", !.opening = FALSE, !.opened = TRUE]
    /\ UNCHANGED <<env, track, msc, refresh, stream, orphans>>

(* The queued 'sourceopen' event.                                              *)
SourceOpenEvent ==
    /\ ~MicrotaskPending
    /\ ms.opened
    /\ ms' = [ms EXCEPT !.opened = FALSE]
    /\ refresh' = IF msc.active THEN newRefresh ELSE refresh
    /\ UNCHANGED <<env, track, msc, stream, orphans>>

(* The browser closes the media source and opens it again: its buffers are     *)
(* gone, what they were doing is aborted.                                      *)
SourceCloses ==
    /\ ~MicrotaskPending
    /\ msc.active /\ ms.state # "closed"
    /\ faults < MaxFaults /\ faults' = faults + 1
    /\ Becomes([World EXCEPT
            !.ms = [closed(@) EXCEPT !.opening = TRUE],
            !.msc.durationSet = FALSE,
            !.refresh = noRefresh,
            !.stream = [t \in Types |->
                IF stream[t].phase = "busy"
                THEN [stream[t] EXCEPT !.phase = "idle", !.op = "none"] ELSE stream[t]]])
    /\ UNCHANGED <<changeType, timeline, resolved, calls>>

(* An active, healthy stream with nothing in progress.                         *)
ready(t) ==
    /\ stream[t].phase \in {"empty", "idle"}
    /\ ~stream[t].error
    /\ ms.state # "closed"

wantsMore(t) == ~stream[t].ended \/ stream[t].reopen

freeBuffer ==
    Buffers \ (msc.buffers \cup ms.attached \cup {o.buf : o \in orphans}
               \cup {stream[t].buf : t \in Types})

fails(w, t) == [w EXCEPT !.stream[t].error = TRUE]

(* A new source buffer, after which the task waits unless all are ready: then  *)
(* it goes on at once, and the others are woken.                               *)
createsBuffer(w, t, b) ==
    LET v == createSourceBuffer([w EXCEPT
                 !.stream[t] = [@ EXCEPT !.phase = "waiting", !.buf = b]], b)
    IN IF readyToAppend(v) THEN appendsInit(v, t) ELSE v

(* appendInit(): a mime type not yet known needs a buffer, or a changeType.    *)
AppendInit(t, newType) ==
    /\ ~MicrotaskPending
    /\ ready(t) /\ wantsMore(t)
    /\ newType \/ stream[t].phase = "idle" \/ stream[t].old
    /\ Becomes(
        LET w == [World EXCEPT !.stream[t].reopen = FALSE]
            gone == held(stream[t])
            left == IF gone = {} THEN w
                    ELSE [disposeRef(w, gone) EXCEPT
                             !.stream[t] = [@ EXCEPT !.phase = "empty", !.buf = 0, !.old = TRUE]]
        IN IF stream[t].phase = "idle" /\ (~newType \/ changeType) THEN appendsInit(w, t)
           ELSE IF newType /\ canAddBuffer(left.ms) THEN createsBuffer(left, t, Min(freeBuffer))
           ELSE fails(left, t))
    /\ UNCHANGED env

(* append() of media, after an init segment.                                   *)
AppendMedia(t) ==
    /\ ~MicrotaskPending
    /\ ready(t) /\ wantsMore(t)
    /\ stream[t].fed
    /\ Becomes(
        LET w == [World EXCEPT !.stream[t].reopen = FALSE]
        IN IF stream[t].buf \in ms.attached
           THEN [w EXCEPT !.ms = updating(@, stream[t].buf),
                          !.stream[t] = [@ EXCEPT !.phase = "busy", !.op = "media"]]
           ELSE fails(w, t))
    /\ UNCHANGED env

(* A seek out of the buffer clears it; _bufferingEnded lasts until then.       *)
Clear(t) ==
    /\ ~MicrotaskPending
    /\ stream[t].phase \in {"idle", "empty"} /\ ~stream[t].error
    /\ calls < MaxCalls /\ calls' = calls + 1
    /\ Becomes(
        IF stream[t].phase = "empty"
        THEN [World EXCEPT !.stream[t] = [@ EXCEPT !.ended = FALSE, !.fed = FALSE]]
        ELSE IF stream[t].buf \in ms.attached
        THEN [World EXCEPT !.ms = updating(@, stream[t].buf),
                           !.stream[t] = [@ EXCEPT !.phase = "busy", !.op = "clear"]]
        ELSE [World EXCEPT !.stream[t] =
                [@ EXCEPT !.error = TRUE, !.ended = FALSE, !.fed = FALSE]])
    /\ UNCHANGED <<changeType, timeline, resolved, faults>>

(* The buffer is idle again.                                                   *)
finished(s) == [s EXCEPT !.phase = "idle", !.op = "none",
                         !.fed = (s.op = "init" \/ s.op = "media"),
                         !.ended = @ /\ s.op # "clear"]

UpdateEnds(t) ==
    /\ ~MicrotaskPending
    /\ stream[t].phase = "busy"
    /\ Becomes([World EXCEPT
            !.stream[t] = finished(@),
            !.ms = updated(@, stream[t]),
            !.refresh.wait = @ \ {stream[t].buf}])
    /\ UNCHANGED env

(* The append fails: the browser ends the media source with an error; what     *)
(* waits for this buffer to be idle is rejected.                               *)
UpdateErrs(t) ==
    /\ ~MicrotaskPending
    /\ stream[t].phase = "busy" /\ stream[t].op # "clear"
    /\ faults < MaxFaults /\ faults' = faults + 1
    /\ Becomes([World EXCEPT
            !.stream[t] = [@ EXCEPT !.phase = "idle", !.op = "none", !.error = TRUE],
            !.ms = erred(@, stream[t].buf),
            !.refresh = aborted(@, {stream[t].buf})])
    /\ UNCHANGED <<changeType, timeline, resolved, calls>>

(* readyToAppend did not come in time: the new buffer is disposed.             *)
ReadyTimeout(t) ==
    /\ ~MicrotaskPending
    /\ stream[t].phase = "waiting"
    /\ faults < MaxFaults /\ faults' = faults + 1
    /\ Becomes(disposeRef([World EXCEPT
            !.stream[t] = [@ EXCEPT !.phase = "empty", !.buf = 0, !.error = TRUE]],
            {stream[t].buf}))
    /\ UNCHANGED <<changeType, timeline, resolved, calls>>

(* endBuffering(): the last stream to end ends the media source.  endOfStream()*)
(* throws while a buffer is updating, into the stream that ended.              *)
endsAll(t) == \A u \in track.types : stream[u].ended \/ u = t

EndBuffering(t) ==
    /\ ~MicrotaskPending
    /\ ready(t) /\ wantsMore(t) /\ stream[t].fed
    /\ ms.state = "open"
    /\ Becomes(
        LET w == [World EXCEPT !.stream[t] = [@ EXCEPT !.ended = TRUE, !.reopen = FALSE]]
        IN IF ~endsAll(t) THEN w
           ELSE IF ms.busy = {} THEN [w EXCEPT !.ms.state = "ended"]
           ELSE fails(w, t))
    /\ UNCHANGED env

------------------------------------------------------------------------------
(* ---- calls of the track controller and the player ---- *)
Call == ~MicrotaskPending /\ calls < MaxCalls /\ calls' = calls + 1

activate ==
    /\ Call /\ ~track.active
    /\ Becomes(onActivated([clearErrors(World) EXCEPT !.track.active = TRUE]))
    /\ UNCHANGED <<changeType, timeline, resolved, faults>>

deactivate ==
    /\ Call /\ track.active
    /\ Becomes([onDeactivated(World) EXCEPT !.track.active = FALSE])
    /\ UNCHANGED <<changeType, timeline, resolved, faults>>

(* reset(): soft if there is an error, hard for a denied codec or an option.   *)
reset(hard) ==
    /\ Call
    /\ hard \/ \E t \in Types : stream[t].error
    /\ Becomes(IF hard THEN hardReset(World) ELSE clearErrors(World))
    /\ UNCHANGED <<changeType, timeline, resolved, faults>>

------------------------------------------------------------------------------
Appends(t) == AppendMedia(t) \/ \E newType \in BOOLEAN : AppendInit(t, newType)

Browser(t) == UpdateEnds(t) \/ UpdateErrs(t) \/ ReadyTimeout(t)

Next ==
    \/ Microtask
    \/ TimelineChanges \/ TimelineResolves \/ RefreshWaits
    \/ SourceOpens \/ SourceOpenEvent \/ SourceCloses
    \/ \E t \in Types : Appends(t) \/ Clear(t) \/ Browser(t) \/ EndBuffering(t)
    \/ activate \/ deactivate \/ \E hard \in BOOLEAN : reset(hard)

Spec == Init /\ [][Next]_vars

------------------------------------------------------------------------------
(* ---- properties ---- *)
(* Whatever makes the media source ready wakes the streams that wait for it:   *)
(* while readyToAppend holds, no appendInit() is left waiting for the event.   *)
WaitersAreWoken ==
    readyToAppend(World) => \A t \in Types : stream[t].phase # "waiting"

(* The count that readyToAppend compares is exact: every source buffer that is *)
(* tracked belongs to a controller that holds it, or that is about to, or      *)
(* whose rejection is about to dispose it.                                     *)
TrackedAreOwned ==
    msc.buffers = (UNION {held(stream[t]) \cup pending(stream[t]) : t \in Types})
                  \cup {o.buf : o \in orphans}

(* Nothing is appended to a media source before its duration is set and every  *)
(* stream of the track has created a buffer: browsers refuse later ones.       *)
AppendsWhenReady ==
    ms.busy \cup ms.inited # {} =>
        /\ ms.duration # 0
        /\ \A t \in track.types : stream[t].phase # "empty" \/ stream[t].old

(* An open media source at rest has the duration of the current timeline, if   *)
(* setting it did not throw.                                                   *)
DurationCurrent ==
    (msc.active /\ ms.state = "open" /\ ~ms.opened /\ refresh.phase = "none"
        /\ ~MicrotaskPending)
    => ms.duration = DurationOf[timeline]

(* The duration is never set while a source buffer is updating: the refresh    *)
(* waits for the tracked ones to be idle (MediaSourceController.ts:274).       *)
DurationSetWhenIdle == refresh.phase # "failed"

(* A stream that waits has something to wait for: another stream is to create  *)
(* its buffer, or the duration or the content types are on their way; else     *)
(* only the timeout would end the wait.  After the browser has closed the      *)
(* media source a stream may end it while another waits: its end is excepted.  *)
WaitsForSomething ==
    (\E t \in Types : stream[t].phase = "waiting") /\ (\A u \in Types : ~stream[u].error)
    => \/ \E u \in track.types : stream[u].phase = "empty"
       \/ MicrotaskPending \/ resolved < timeline
       \/ ms.opening \/ ms.opened \/ (ms.state = "ended" /\ faults > 0)
       \/ refresh.phase \in {"timeline", "idle"}

(* The source buffers are accounted for, through timeouts, aborts and closes.  *)
BuffersAccounted == TypeOK /\ TrackedAreOwned

(* No stream waits in vain for the media source to become ready.               *)
WaitsEnd == WaitersAreWoken /\ WaitsForSomething

=============================================================================
