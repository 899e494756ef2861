------------------------------- MODULE Playback -------------------------------
(* PlaybackControllerImpl over an HTML media element, with createStallDetector *)
(* and createStallMonitor: play() and pause() with the play that is pending,   *)
(* seekTo() with its waits, retries and supersession, and the events and the   *)
(* state it derives from the events of the element, some of which browsers     *)
(* leave out.                                                                  *)
(*                                                                             *)
(* The element queues its events; one is delivered when no promise reaction is *)
(* left to run.  The application may call in between, or, with SameTask, from  *)
(* a listener or a reaction, before the reactions that are left.  Positions    *)
(* are coarse: a nudge of the stall detector stays where it is.                *)
EXTENDS Integers, Sequences, FiniteSets

CONSTANTS
    End,            \* the last position
    Targets,        \* positions to seek to
    MinSeekable,    \* minSeekableBuffer
    RetryLimit,     \* SEEK_RETRY_LIMIT
    MaxAttempts,    \* maxAttempts of the stall detector
    SameTask,       \* calls come before pending promise reactions, too
    MaxPlays, MaxSeeks, MaxCalls, MaxFaults, MaxQueue   \* bounds

ASSUME PlaybackAssumption ==
    /\ {End, MinSeekable, RetryLimit, MaxAttempts, MaxPlays, MaxSeeks, MaxCalls,
        MaxFaults, MaxQueue} \subseteq Nat
    /\ Targets \subseteq 0..End /\ SameTask \in BOOLEAN

VARIABLES
    webkit,         \* readyState stays while seeking, and nudgeUnbuffered is on
    media,          \* the element
    queue,          \* its events that are still to be delivered
    ctl,            \* _playing, _waiting, _seeking
    play,           \* the calls of play() that started a play
    pendingPlay, playAbort,   \* the plays they belong to, 0 for null
    seek,           \* the calls of seekTo()
    current,        \* the seek whose abort is in the seekAbortSlot
    detector,       \* the stall detector of the last play or seek
    monitor,        \* the stall monitor
    seekTimer,      \* the timeout of initializeSeekWaitingEvent
    calls, faults

vars == <<webkit, media, queue, ctl, play, pendingPlay, playAbort, seek, current,
          detector, monitor, seekTimer, calls, faults>>

Plays == 1..MaxPlays
Seeks == 1..MaxSeeks

Events == {"loadedmetadata", "playing", "waiting", "pause", "ended", "seeking",
           "seeked", "emptied"}

(* inner: the async function of play(), outer: the promise around it.          *)
noPlay == [inner |-> "none", outer |-> "none", aborted |-> FALSE]

(* "meta", "seeking" and "seeked" wait for an event; "go", "begun", "landed",  *)
(* "emptied" and "stuck" are reactions that are still to run.                  *)
noSeek == [phase |-> "none", target |-> 0, attempt |-> 0, outcome |-> "none"]

SeekPhases == {"none", "meta", "go", "seeking", "begun", "seeked", "landed", "emptied",
               "stuck", "done"}

TypeOK ==
    /\ webkit \in BOOLEAN
    /\ media \in [paused : BOOLEAN, ready : {"nothing", "metadata", "future"},
                  pos : 0..End, seeking : BOOLEAN, buffered : BOOLEAN]
    /\ queue \in Seq(Events)
    /\ ctl \in [playing : BOOLEAN, waiting : BOOLEAN, seeking : BOOLEAN]
    /\ play \in [Plays -> [inner : {"none", "meta", "go", "native", "end"},
                           outer : {"none", "pending", "settling", "done"},
                           aborted : BOOLEAN]]
    /\ {pendingPlay, playAbort} \subseteq {0} \cup Plays
    /\ seek \in [Seeks -> [phase : SeekPhases, target : 0..End, attempt : 0..RetryLimit,
                           outcome : {"none", "resolved", "superseded", "timeout", "aborted"}]]
    /\ current \in 0..MaxSeeks
    /\ detector \in [on : BOOLEAN, lastPos : 0..End, attempts : 0..MaxAttempts,
                     saw : BOOLEAN, recovered : BOOLEAN]
    /\ monitor \in [polling : BOOLEAN, lastPos : 0..End, inStall : BOOLEAN]
    /\ seekTimer \in BOOLEAN
    /\ calls \in 0..MaxCalls /\ faults \in 0..MaxFaults

noDetector == [on |-> FALSE, lastPos |-> 0, attempts |-> 0, saw |-> FALSE, recovered |-> FALSE]

emptyMedia == [paused |-> TRUE, ready |-> "nothing", pos |-> 0, seeking |-> FALSE,
               buffered |-> FALSE]

playingMedia == [paused |-> FALSE, ready |-> "future", pos |-> 0, seeking |-> FALSE,
                 buffered |-> TRUE]

(* A new controller, or one whose media plays since long.                      *)
Init ==
    /\ webkit \in BOOLEAN
    /\ media \in {emptyMedia, playingMedia} /\ queue = <<>>
    /\ ctl = [playing |-> ~media.paused, waiting |-> FALSE, seeking |-> FALSE]
    /\ play = [p \in Plays |-> noPlay] /\ pendingPlay = 0 /\ playAbort = 0
    /\ seek = [s \in Seeks |-> noSeek] /\ current = 0
    /\ detector = noDetector
    /\ monitor = [polling |-> ~media.paused, lastPos |-> 0, inStall |-> FALSE]
    /\ seekTimer = FALSE
    /\ calls = 0 /\ faults = 0

------------------------------------------------------------------------------
(* What happens within one step nests, so each part of it maps a record of     *)
(* the state to the state after it.                                            *)
World == [media |-> media, queue |-> queue, ctl |-> ctl, play |-> play,
          pendingPlay |-> pendingPlay, playAbort |-> playAbort, seek |-> seek,
          detector |-> detector, monitor |-> monitor, seekTimer |-> seekTimer]

Becomes(w) ==
    /\ media' = w.media /\ queue' = w.queue /\ ctl' = w.ctl /\ play' = w.play
    /\ pendingPlay' = w.pendingPlay /\ playAbort' = w.playAbort /\ seek' = w.seek
    /\ detector' = w.detector /\ monitor' = w.monitor /\ seekTimer' = w.seekTimer

env == <<webkit, current, calls, faults>>

MicrotaskPending ==
    \/ \E p \in Plays : play[p].inner = "go" \/ play[p].outer = "settling"
    \/ \E s \in Seeks : seek[s].phase \in {"go", "begun", "landed", "emptied", "stuck"}

(* ---- the element ---- *)
fires(w, events) == [w EXCEPT !.queue = @ \o events]

settles(q) == [q EXCEPT !.outer = IF @ = "pending" THEN "settling" ELSE @]

(* The promises of media.play() settle.                                        *)
playsSettle(w) ==
    [w EXCEPT !.play = [p \in Plays |->
        IF @[p].inner = "native" THEN [settles(@[p]) EXCEPT !.inner = "end"] ELSE @[p]]]

(* currentTime is set: the position is the new one at once.  Without data      *)
(* there the readyState drops, except in WebKit.                               *)
setTime(w, t, data) ==
    LET drops == ~data /\ ~webkit
        waits == drops /\ ~w.media.paused /\ w.media.ready = "future"
    IN fires([w EXCEPT !.media = [@ EXCEPT !.pos = t, !.seeking = TRUE, !.buffered = data,
                                           !.ready = IF drops THEN "metadata"
                                                     ELSE w.media.ready]],
             IF waits THEN <<"seeking", "waiting">> ELSE <<"seeking">>)

mediaPlay(w) ==
    IF w.media.paused
    THEN fires([w EXCEPT !.media.paused = FALSE],
               IF w.media.ready = "future" THEN <<"playing">> ELSE <<"waiting">>)
    ELSE IF w.media.ready = "future" THEN playsSettle(w) ELSE w

mediaPause(w) ==
    IF w.media.paused THEN w
    ELSE fires(playsSettle([w EXCEPT !.media.paused = TRUE]), <<"pause">>)

(* ---- the stall detector and the stall monitor ---- *)
stopDetector(w) == [w EXCEPT !.detector = noDetector]

startDetector(w) ==
    [w EXCEPT !.detector = [noDetector EXCEPT !.on = TRUE, !.lastPos = w.media.pos]]

suspend(w) == [w EXCEPT !.monitor = [@ EXCEPT !.polling = FALSE, !.inStall = FALSE]]

(* ---- the events of the controller ---- *)
dispatchPlaying(w) ==
    [w EXCEPT !.ctl = [@ EXCEPT !.playing = TRUE, !.waiting = FALSE],
              !.monitor = [polling |-> TRUE, lastPos |-> w.media.pos, inStall |-> FALSE]]

dispatchWaiting(w) == [w EXCEPT !.ctl = [@ EXCEPT !.waiting = TRUE, !.playing = FALSE]]

(* What ends both waiting and playing.                                         *)
dispatchStop(w) == suspend([w EXCEPT !.ctl = [@ EXCEPT !.waiting = FALSE, !.playing = FALSE]])

(* A promise of nextEvent is resolved.                                         *)
resolves(w, from, to) ==
    [w EXCEPT !.seek = [s \in Seeks |->
        IF @[s].phase = from THEN [@[s] EXCEPT !.phase = to] ELSE @[s]]]

onLoadedMetadata(w) ==
    [resolves(w, "meta", "go") EXCEPT
        !.play = [p \in Plays |-> IF @[p].inner = "meta" THEN [@[p] EXCEPT !.inner = "go"]
                                  ELSE @[p]]]

onPlaying(w) ==
    LET heard == [w EXCEPT !.detector.saw = w.detector.on]
    IN playsSettle(IF w.ctl.playing THEN heard ELSE dispatchPlaying(heard))

onWaiting(w) == IF w.ctl.waiting THEN w ELSE dispatchWaiting(w)

onEnded(w) == [w EXCEPT !.ctl.playing = FALSE]

onSeeking(w) ==
    [resolves(dispatchStop(w), "seeking", "begun") EXCEPT !.ctl.seeking = TRUE,
                                                         !.seekTimer = TRUE]

(* initializeSeekPlayingEvent.                                                 *)
announces(w) ==
    IF w.ctl.playing \/ w.media.paused \/ w.media.ready # "future" THEN w
    ELSE dispatchPlaying(w)

onSeeked(w) ==
    announces(IF w.ctl.seeking
              THEN [resolves(w, "seeked", "landed") EXCEPT !.ctl.seeking = FALSE]
              ELSE w)

(* Mutant: only seeked ends a seek.                                            *)
MutEmptiedKeepsSeeking(w) == stopDetector(dispatchStop(w))

onEmptied(w) ==
    LET stopped == stopDetector(dispatchStop(w))
    IN IF w.ctl.seeking
       THEN [resolves(stopped, "seeked", "emptied") EXCEPT !.ctl.seeking = FALSE]
       ELSE stopped

handle(w, event) ==
    CASE event = "loadedmetadata" -> onLoadedMetadata(w)
      [] event = "playing" -> onPlaying(w)
      [] event = "waiting" -> onWaiting(w)
      [] event = "pause" -> dispatchStop(w)
      [] event = "ended" -> onEnded(w)
      [] event = "seeking" -> onSeeking(w)
      [] event = "seeked" -> onSeeked(w)
      [] event = "emptied" -> onEmptied(w)

(* ---- seeks ---- *)
doneSeek(w, s, outcome) ==
    [w EXCEPT !.seek[s] = [@ EXCEPT !.phase = "done", !.outcome = outcome]]

(* While playing, the end of the range is kept clear, if it is long enough.    *)
lastSeekable(paused) ==
    IF paused THEN End ELSE IF MinSeekable < End THEN End - MinSeekable ELSE 0

clamped(w, s) ==
    LET t == w.seek[s].target
        last == lastSeekable(w.media.paused)
    IN IF t <= last THEN t ELSE last

(* seekOnce: waits for seeking, and sets the position even if a newer seek has *)
(* aborted this one.                                                           *)
seekOnce(w, s, newest, data) ==
    LET issued == setTime([w EXCEPT !.seek[s].target = clamped(w, s)], clamped(w, s), data)
    IN IF newest THEN [issued EXCEPT !.seek[s].phase = "seeking"]
       ELSE doneSeek(issued, s, "superseded")

doSeek(w, s, newest, data) ==
    IF clamped(w, s) = w.media.pos
    THEN doneSeek(w, s, IF newest THEN "resolved" ELSE "superseded")
    ELSE seekOnce(w, s, newest, data)

(* The wait of a seek is over: a retry, or the end.                            *)
seekContinues(w, s, data) ==
    LET stuck == w.seek[s].phase = "stuck"
        kicked == IF stuck THEN mediaPlay(w) ELSE w
    IN CASE w.seek[s].phase = "emptied" -> doneSeek(w, s, "aborted")
         [] /\ w.seek[s].phase # "emptied" /\ w.seek[s].attempt < RetryLimit
            /\ stuck \/ w.media.pos # w.seek[s].target ->
              LET again == [kicked EXCEPT !.seek[s].attempt = @ + 1]
              IN [setTime(again, w.seek[s].target, data) EXCEPT !.seek[s].phase = "seeking"]
         [] OTHER ->
              doneSeek(IF w.media.paused THEN w ELSE startDetector(w), s, "resolved")

(* Mutant: a newer seek leaves the waits of the older one.                     *)
MutSupersedesNothing(w, s) == w

(* The abort of a seek ends its wait; a reaction that is pending stays.        *)
supersedes(w, s) ==
    IF w.seek[s].phase \in {"meta", "seeking", "seeked"} THEN doneSeek(w, s, "superseded") ELSE w

------------------------------------------------------------------------------
(* ---- promise reactions ---- *)
PlayGoes(p) ==
    /\ play[p].inner = "go"
    /\ LET w == [World EXCEPT !.play[p].inner = IF play[p].aborted THEN "end" ELSE "native"]
       IN Becomes(IF play[p].aborted THEN w ELSE mediaPlay(w))
    /\ UNCHANGED env

(* The finally of play().                                                      *)
PlaySettles(p) ==
    /\ play[p].outer = "settling"
    /\ Becomes([World EXCEPT !.play[p].outer = "done", !.pendingPlay = 0, !.playAbort = 0])
    /\ UNCHANGED env

SeekGoes(s) ==
    /\ seek[s].phase = "go"
    /\ \E data \in BOOLEAN : Becomes(doSeek(World, s, s = current, data))
    /\ UNCHANGED env

SeekBegun(s) ==
    /\ seek[s].phase = "begun"
    /\ Becomes(IF s = current THEN [World EXCEPT !.seek[s].phase = "seeked"]
               ELSE doneSeek(World, s, "superseded"))
    /\ UNCHANGED env

SeekOver(s) ==
    /\ seek[s].phase \in {"landed", "emptied", "stuck"}
    /\ \E data \in BOOLEAN :
          Becomes(IF s = current THEN seekContinues(World, s, data)
                  ELSE doneSeek(World, s, "superseded"))
    /\ UNCHANGED env

Microtask ==
    \/ \E p \in Plays : PlayGoes(p) \/ PlaySettles(p)
    \/ \E s \in Seeks : SeekGoes(s) \/ SeekBegun(s) \/ SeekOver(s)

(* ---- events and timers ---- *)
Deliver ==
    /\ ~MicrotaskPending /\ queue # <<>>
    /\ Becomes(handle([World EXCEPT !.queue = Tail(@)], Head(queue)))
    /\ UNCHANGED env

(* Mutant: the wait for seeked has no timeout.                                 *)
MutSeekedUnbounded(s) ==
    /\ ~MicrotaskPending
    /\ seek[s].phase \in {"meta", "seeking"}
    /\ Becomes(IF seek[s].attempt > 0 THEN [World EXCEPT !.seek[s].phase = "stuck"]
               ELSE doneSeek(World, s, "timeout"))
    /\ UNCHANGED env

(* seekTimeout for metadata and the first seeking, SEEK_ATTEMPT_TIMEOUT else.  *)
SeekTimesOut(s) ==
    /\ ~MicrotaskPending
    /\ seek[s].phase \in {"meta", "seeking", "seeked"}
    /\ Becomes(IF seek[s].phase = "seeked" \/ seek[s].attempt > 0
               THEN [World EXCEPT !.seek[s].phase = "stuck"]
               ELSE doneSeek(World, s, "timeout"))
    /\ UNCHANGED env

PlayTimesOut(p) ==
    /\ ~MicrotaskPending
    /\ play[p].inner = "native" /\ play[p].outer = "pending"
    /\ Becomes([World EXCEPT !.play[p] = settles(@)])
    /\ UNCHANGED env

(* initializeSeekWaitingEvent.                                                 *)
SeekTimerFires ==
    /\ ~MicrotaskPending /\ seekTimer
    /\ LET w == [World EXCEPT !.seekTimer = FALSE]
       IN Becomes(IF ctl.waiting \/ ~media.seeking \/ media.paused \/ media.buffered THEN w
                  ELSE dispatchWaiting(w))
    /\ UNCHANGED env

(* A poll of the stall detector; over a frozen head, one past its threshold.   *)
DetectorPolls ==
    /\ ~MicrotaskPending /\ detector.on
    /\ \/ /\ media.paused
          /\ Becomes(stopDetector(World))
       \/ /\ ~media.paused /\ media.pos # detector.lastPos
          /\ Becomes(stopDetector(IF ~detector.saw \/ detector.recovered
                                  THEN dispatchPlaying(World) ELSE World))
       \/ /\ ~media.paused /\ media.pos = detector.lastPos
          /\ media.buffered \/ webkit
          /\ Len(queue) < MaxQueue
          /\ IF detector.attempts = MaxAttempts THEN Becomes(stopDetector(World))
             ELSE Becomes(setTime([World EXCEPT !.detector = [@ EXCEPT
                                                     !.attempts = detector.attempts + 1,
                                                     !.recovered = TRUE]],
                                  media.pos, media.buffered))
    /\ UNCHANGED env

MonitorPolls ==
    /\ ~MicrotaskPending /\ monitor.polling
    /\ Becomes([World EXCEPT !.monitor =
            IF media.pos > @.lastPos THEN [@ EXCEPT !.inStall = FALSE, !.lastPos = media.pos]
            ELSE [@ EXCEPT !.inStall = TRUE]])
    /\ UNCHANGED env

------------------------------------------------------------------------------
(* ---- the element: what its resource does ---- *)
Quiet == ~MicrotaskPending /\ Len(queue) < MaxQueue

MetadataLoads ==
    /\ Quiet /\ media.ready = "nothing"
    /\ Becomes(fires([World EXCEPT !.media.ready = "metadata"], <<"loadedmetadata">>))
    /\ UNCHANGED env

DataArrives ==
    /\ Quiet /\ media.ready # "nothing"
    /\ ~media.buffered \/ media.ready # "future"
    /\ Becomes(fires([World EXCEPT !.media = [@ EXCEPT !.ready = "future", !.buffered = TRUE]],
                     IF media.ready # "future" /\ ~media.paused THEN <<"playing">> ELSE <<>>))
    /\ UNCHANGED env

DataRunsOut ==
    /\ Quiet /\ media.ready = "future" /\ ~media.seeking
    /\ faults < MaxFaults /\ faults' = faults + 1
    /\ Becomes(fires([World EXCEPT !.media = [@ EXCEPT !.ready = "metadata", !.buffered = FALSE]],
                     IF media.paused THEN <<>> ELSE <<"waiting">>))
    /\ UNCHANGED <<webkit, current, calls>>

(* Not every browser announces playing after a seek that kept the readyState.  *)
SeekCompletes ==
    /\ Quiet /\ media.seeking /\ media.buffered
    /\ \E events \in {<<"seeked">>, <<"seeked", "playing">>} :
          /\ Len(events) = 2 => ~webkit /\ ~media.paused /\ media.ready = "future"
          /\ Becomes(fires([World EXCEPT !.media.seeking = FALSE], events))
    /\ UNCHANGED env

(* Some versions of WebKit report seeked at another position.                  *)
SeekLandsAway ==
    /\ Quiet /\ media.seeking /\ media.buffered /\ webkit
    /\ faults < MaxFaults /\ faults' = faults + 1
    /\ \E away \in 0..End \ {media.pos} :
          Becomes(fires([World EXCEPT !.media = [@ EXCEPT !.seeking = FALSE, !.pos = away]],
                        <<"seeked">>))
    /\ UNCHANGED <<webkit, current, calls>>

Advances ==
    /\ Quiet /\ ~media.paused /\ media.ready = "future" /\ media.buffered /\ ~media.seeking
    /\ Becomes(IF media.pos < End THEN [World EXCEPT !.media.pos = @ + 1]
               ELSE fires(playsSettle([World EXCEPT !.media.paused = TRUE]),
                          <<"pause", "ended">>))
    /\ UNCHANGED env

------------------------------------------------------------------------------
(* ---- the application ---- *)
Call ==
    /\ SameTask \/ ~MicrotaskPending
    /\ Len(queue) < MaxQueue
    /\ calls < MaxCalls /\ calls' = calls + 1

Play ==
    /\ Call
    /\ IF pendingPlay # 0 THEN Becomes(startDetector(World))
       ELSE \E p \in Plays :
              /\ play[p].inner = "none" /\ \A q \in 1..(p - 1) : play[q].inner # "none"
              /\ Becomes([startDetector(World) EXCEPT
                    !.pendingPlay = p, !.playAbort = p,
                    !.play[p] = [inner |-> IF media.ready = "nothing" THEN "meta" ELSE "go",
                                 outer |-> "pending", aborted |-> FALSE]])
    /\ UNCHANGED <<webkit, current, faults>>

Pause ==
    /\ Call
    /\ LET w == [World EXCEPT !.pendingPlay = 0,
                    !.play = [p \in Plays |->
                        IF p = playAbort THEN [settles(@[p]) EXCEPT !.aborted = TRUE] ELSE @[p]]]
       IN Becomes(mediaPause(w))
    /\ UNCHANGED <<webkit, current, faults>>

SeekTo(t) ==
    /\ Call
    /\ current < MaxSeeks /\ current' = current + 1
    /\ LET old == IF current = 0 THEN World ELSE supersedes(World, current)
           w == [stopDetector(old) EXCEPT !.seek[current'].target = t]
       IN IF media.ready = "nothing" THEN Becomes([w EXCEPT !.seek[current'].phase = "meta"])
          ELSE \E data \in BOOLEAN : Becomes(doSeek(w, current', TRUE, data))
    /\ UNCHANGED <<webkit, faults>>

(* The track is changed: the element loads anew, and drops its events.         *)
LoadMedia ==
    /\ Call
    /\ media.ready # "nothing"
    /\ Becomes([playsSettle(World) EXCEPT !.media = emptyMedia, !.queue = <<"emptied">>])
    /\ UNCHANGED <<webkit, current, faults>>

Calls == Play \/ Pause \/ LoadMedia \/ \E t \in Targets : SeekTo(t)

Element == MetadataLoads \/ DataArrives \/ DataRunsOut \/ SeekCompletes \/ SeekLandsAway
           \/ Advances

Timers == SeekTimerFires \/ DetectorPolls \/ MonitorPolls
          \/ (\E s \in Seeks : SeekTimesOut(s)) \/ (\E p \in Plays : PlayTimesOut(p))

Next == Microtask \/ Deliver \/ Timers \/ Element \/ Calls

(* Promise reactions run, queued events are delivered, timers of seeks fire.   *)
Spec ==
    /\ Init /\ [][Next]_vars
    /\ WF_vars(Microtask) /\ WF_vars(Deliver)
    /\ \A s \in Seeks : WF_vars(SeekTimesOut(s))

------------------------------------------------------------------------------
(* Properties                                                                  *)

Rest == ~MicrotaskPending /\ queue = <<>> /\ ~seekTimer

(* When the events of the element are worked off, what the controller says     *)
(* agrees with the element, whatever was superseded, interrupted or left out:  *)
(* it neither plays nor waits while paused, never both, it seeks exactly when  *)
(* the element does, and no stall is reported of a head that is not meant to   *)
(* move (PlaybackControllerImpl.ts:330).                                       *)
RestAgrees ==
    Rest =>
        /\ ctl.playing \/ ctl.waiting => ~media.paused
        /\ ~(ctl.playing /\ ctl.waiting)
        /\ ctl.seeking = media.seeking
        /\ monitor.inStall => ~media.paused

(* A head that moves is announced as playing, even by browsers that leave out  *)
(* the event after a seek (PlaybackControllerImpl.ts:836).                     *)
AdvancingIsPlaying ==
    Rest /\ ~media.paused /\ ~media.seeking /\ media.ready = "future" /\ media.buffered
        => ctl.playing

(* At rest the controller tells the truth about the element, moving or not.    *)
ControllerAgrees == TypeOK /\ RestAgrees /\ AdvancingIsPlaying

(* A newer seek leaves no older one waiting: once the reactions have run, each *)
(* of those has settled (PlaybackControllerImpl.ts:688, 706).                  *)
SupersededSeeksEnd ==
    \A s \in Seeks : s < current /\ ~MicrotaskPending => seek[s].phase = "done"

(* The promise of seekTo settles, however the element behaves.                 *)
SeekSettles == \A s \in Seeks : seek[s].phase # "none" ~> seek[s].phase = "done"

==============================================================================
