------------------------------- MODULE Buffering -------------------------------
(* BufferingControllerImpl (vinyl/src/streaming/buffering) of one content      *)
(* stream in 'segments' mode, with the SourceBufferController it drives and    *)
(* the browser's source buffer: polling, appendNext and its awaits, partial    *)
(* appends, placement on the timeline, clear, errors, quota, codec fallback,   *)
(* activation and the end of the stream.                                       *)
(*                                                                             *)
(* The presentation timeline is cut into unit positions; segment n belongs at  *)
(* position n and is appended in at most Chunks pieces.  The playhead is in    *)
(* the first piece of a position, past the affordance and within the half      *)
(* second of needsBufferClear, so the tolerances of the code do not matter.    *)
(* The queue runs one task at a time, and the source buffer has one operation  *)
(* in flight, that of the running task.                                        *)
EXTENDS Integers, Sequences, FiniteSets, SequencesExt, FiniteSetsExt

CONSTANTS
    Static,         \* number of segments of the timeline when it is loaded
    MaxLast,        \* bound on the number of segments it may grow to
    PeriodStart,    \* segment -> position its media timestamps count from
    Qualities,      \* qualities, each with a decoder and codec of its own
    Hls,            \* kinds of streams; TRUE: no mediaTimeOffset, placement is anchored
    ChangeType,     \* TRUE: the browser has SourceBuffer.changeType
    Chunks,         \* bytes of a segment, in chunks
    MaxAppend,      \* kind -> options.maxAppendSize, in chunks
    MinAppend,      \* MIN_APPEND_SIZE, in chunks
    MinBuffer,      \* options.minBuffer, in positions
    MaxCalls,       \* bound on the calls and events from outside
    MaxFailures     \* kind -> bound on failed requests and appends

NoQuality == "none"

ASSUME BufferingAssumption ==
    /\ Static \in Nat \ {0} /\ MaxLast \in Nat /\ Static <= MaxLast
    /\ PeriodStart \in [0..MaxLast -> 0..MaxLast]
    /\ NoQuality \notin Qualities
    /\ Hls \subseteq BOOLEAN /\ ChangeType \in BOOLEAN
    /\ Chunks \in Nat \ {0}
    /\ MinAppend \in Nat \ {0}
    /\ MaxAppend \in [Hls -> Nat] /\ \A k \in Hls : MinAppend <= MaxAppend[k]
    /\ MinBuffer \in Nat
    /\ MaxCalls \in Nat /\ MaxFailures \in [Hls -> Nat]

VARIABLES
    hls,        \* the kind of the stream, which never changes
    last,       \* number of segments of the timeline
    time,       \* position of the playhead
    active,     \* _active
    ctl,        \* the controller's buffered state and error: see Controllers
    task,       \* the running task of the queue: see Tasks
    waiting,    \* clears waiting in the queue
    scheduled,  \* a poll is due: setTimeout or throttle
    ms,         \* readyState of the media source
    sb,         \* the source buffer of the activation: see SourceBuffers
    quota,      \* getMaxAppendSize
    denied,     \* qualities whose codec is denylisted
    calls,      \* history: calls and events from outside
    failures    \* history: failed requests and appends

vars == <<hls, last, time, active, ctl, task, waiting, scheduled, ms, sb, quota,
          denied, calls, failures>>

--------------------------------------------------------------------------------
\* State

Positions == 0..(2 * MaxLast)

None == -1

Offsets == -MaxLast..(2 * MaxLast)

NoOffset == 3 * MaxLast     \* timestampOffset = null

(* BufferedSegment: a segment and the position it was placed at.               *)
Items == [seg : 0..(MaxLast - 1), quality : Qualities, pos : Positions]

NoItem == [seg |-> None, quality |-> NoQuality, pos |-> None]

Requests == [seg : 0..MaxLast, quality : {NoQuality}, pos : {None}]

(* from: the position buffering last started at from an empty buffer, where    *)
(* the playhead was as well.                                                   *)
Controllers ==
    [decoderId : Qualities \cup {NoQuality}, quality : Qualities \cup {NoQuality},
     appendOffset : 0..Chunks, timestampOffset : Offsets \cup {NoOffset},
     from : Positions \cup {None}, buffered : Seq(Items), ended : BOOLEAN,
     reopen : BOOLEAN, error : BOOLEAN]

(* appendNext awaits getSegment ("get"), appendInit ("init") or append; a      *)
(* clear awaits remove.  An aborted task has yet to see the abort.  tail and   *)
(* item: the variables of appendNext; size: chunks being appended.             *)
Tasks ==
    [pc : {"none", "get", "init", "append", "remove", "aborted", "abortedClear"},
     tail : Items \cup {NoItem}, item : Items \cup Requests \cup {NoItem}, size : 0..Chunks]

NoTask == [pc |-> "none", tail |-> NoItem, item |-> NoItem, size |-> 0]

ClearTask == [NoTask EXCEPT !.pc = "remove"]

NoMedia == [seg |-> None, chunks |-> 0]

EmptyMedia == [p \in Positions |-> NoMedia]

(* init: the quality of the last init segment; at[p]: the media at position p  *)
(* and how much of it.                                                         *)
SourceBuffers ==
    [init : Qualities \cup {NoQuality}, offset : Offsets,
     at : [Positions -> [seg : 0..(MaxLast - 1), chunks : 1..Chunks] \cup {NoMedia}]]

NoBuffer == [init |-> NoQuality, offset |-> 0, at |-> EmptyMedia]

TypeOK ==
    /\ hls \in Hls
    /\ last \in Static..MaxLast
    /\ time \in 0..(last - 1)
    /\ active \in BOOLEAN
    /\ ctl \in Controllers
    /\ task \in Tasks
    /\ waiting \in Nat
    /\ waiting > 0 => task.pc # "none"
    /\ scheduled \in BOOLEAN
    /\ ms \in {"closed", "open", "ended"}
    /\ sb \in SourceBuffers
    /\ quota \in MinAppend..MaxAppend[hls]
    /\ denied \subseteq Qualities
    /\ calls \in 0..MaxCalls
    /\ failures \in 0..MaxFailures[hls]

Fresh ==
    [decoderId |-> NoQuality, quality |-> NoQuality, appendOffset |-> 0,
     timestampOffset |-> NoOffset, from |-> None, buffered |-> <<>>,
     ended |-> FALSE, reopen |-> FALSE, error |-> FALSE]

Init ==
    /\ hls \in Hls
    /\ last = Static
    /\ time = 0
    /\ active = FALSE
    /\ ctl = Fresh
    /\ task = NoTask
    /\ waiting = 0
    /\ scheduled = FALSE
    /\ ms = "closed"
    /\ sb = NoBuffer
    /\ quota = MaxAppend[hls]
    /\ denied = {}
    /\ calls = 0
    /\ failures = 0

--------------------------------------------------------------------------------
\* Helpers

Busy == task.pc # "none"

(* Mutant: the reset forgets the decoder.                                      *)
KeepsDecoder(c) == [Fresh EXCEPT !.decoderId = c.decoderId, !.reopen = c.reopen,
                                 !.error = c.error]

(* Mutant: the reset forgets that buffering has ended.                         *)
KeepsEnded(c) == [Fresh EXCEPT !.ended = c.ended, !.reopen = c.reopen,
                               !.error = c.error]

resetBufferedState(c) == [Fresh EXCEPT !.reopen = c.reopen, !.error = c.error]

Newest == IF ctl.buffered = <<>> THEN NoItem ELSE Last(ctl.buffered)

(* Chunks buffered without a gap from the start of position p.                 *)
BufferedFrom(p) ==
    LET end == Min({e \in Positions : e >= p /\ sb.at[e].chunks < Chunks})
    IN  (end - p) * Chunks + sb.at[end].chunks

Occupied == {p \in Positions : sb.at[p] # NoMedia}

(* ranges[0] is the first range; the playhead is disconnected from it when it  *)
(* is past its end, or before its start with nothing known to explain it.      *)
needsBufferClear ==
    /\ Occupied # {}
    /\ LET start == Min(Occupied)
       IN  \/ time * Chunks > start * Chunks + BufferedFrom(start)
           \/ /\ time < start
              /\ ctl.from = None \/ time < ctl.from \/ start > ctl.from

(* refreshHead drops the head once the playhead has passed it, never the tail. *)
Refreshed(list) ==
    IF Len(list) > 1 /\ time > Head(list).pos THEN Tail(list) ELSE list

shouldAppend ==
    /\ active
    /\ ~Busy
    /\ ~ctl.error
    /\ ms # "closed"
    /\ ~ctl.ended \/ ctl.reopen
    /\ BufferedFrom(time) <= MinBuffer * Chunks

MediaStart(seg) == seg - PeriodStart[seg]

(* Mutant: the anchor is kept across a discontinuity.                          *)
StaleAnchor(seg, tail) ==
    IF hls
    THEN IF tail # NoItem /\ ctl.timestampOffset # NoOffset
         THEN ctl.timestampOffset
         ELSE seg - MediaStart(seg)
    ELSE PeriodStart[seg]

(* placeSegment: the timestamp offset the segment is appended with.            *)
placeSegment(seg, tail) ==
    LET expected == IF tail = NoItem THEN seg ELSE tail.pos + 1
    IN  IF hls THEN expected - MediaStart(seg) ELSE PeriodStart[seg]

(* Appending, removing or a new timestampOffset reopens an ended source.       *)
Reopened == IF ms = "ended" THEN "open" ELSE ms

(* What the quota leaves for the rest of the segment; none if not positive.    *)
AppendSize(c) == Min({quota - BufferedFrom(time), Chunks - c.appendOffset})

(* A rejection the queue has not reported yet: it runs as a microtask, before  *)
(* the next event, timer or response.                                          *)
Settling == task.pc \in {"aborted", "abortedClear"}

Unhandled == UNCHANGED <<quota, denied>>

External == UNCHANGED <<hls, last, time, active, calls>>

(* The running task has ended: the next of the clears starts.                  *)
NextTask(clears) ==
    IF clears > 0
    THEN task' = ClearTask /\ waiting' = clears - 1
    ELSE task' = NoTask /\ waiting' = 0

(* A step of appendNext: the task goes on to its next await or ends, and then  *)
(* its finally polls.                                                          *)
Continue(step, polled) ==
    /\ ctl' = step.ctl /\ sb' = step.sb /\ ms' = step.ms
    /\ IF step.task = NoTask
       THEN NextTask(waiting) /\ scheduled' = (polled \/ active)
       ELSE task' = step.task /\ scheduled' = polled /\ UNCHANGED waiting

--------------------------------------------------------------------------------
\* appendNext

(* From the decoder check to the append.  Nothing is appended when the quota   *)
(* is used up, but the segment counts as begun.                                *)
Place(c, item, tail) ==
    LET first == c.appendOffset = 0
        offset == placeSegment(item.seg, tail)
        moves == first /\ offset # c.timestampOffset
        placed == IF moves THEN offset ELSE sb.offset
        size == AppendSize(c)
        pos == IF first THEN offset + MediaStart(item.seg) ELSE item.pos
    IN  [ctl |-> IF moves THEN [c EXCEPT !.timestampOffset = offset] ELSE c,
         sb |-> [sb EXCEPT !.offset = placed],
         ms |-> IF moves \/ size > 0 THEN Reopened ELSE ms,
         task |-> IF size <= 0 THEN NoTask
                  ELSE [pc |-> "append", tail |-> tail,
                        item |-> [item EXCEPT !.pos = pos],
                        size |-> size]]

(* The segment is known: the decoder is initialized first when it is another;  *)
(* without changeType a new source buffer replaces the present one.            *)
Proceed(c, item, tail) ==
    LET d == [c EXCEPT !.quality = item.quality]
        replaced == ~ChangeType /\ sb.init \notin {NoQuality, item.quality}
    IN  IF c.decoderId = item.quality
        THEN Place(d, item, tail)
        ELSE [ctl |-> [d EXCEPT !.decoderId = NoQuality],
              sb |-> IF replaced THEN NoBuffer ELSE sb,
              ms |-> Reopened,
              task |-> [pc |-> "init", tail |-> tail, item |-> item, size |-> 0]]

(* The segment at the end of the tail, or at the playhead, is requested.       *)
RequestNext(c) ==
    LET seg == IF Newest = NoItem THEN time ELSE Newest.seg + 1
    IN  [ctl |-> c, sb |-> sb, ms |-> ms,
         task |-> [pc |-> "get", tail |-> Newest, size |-> 0,
                   item |-> [NoItem EXCEPT !.seg = seg]]]

(* A partial append goes on with the tail, without a request.                  *)
appendNext(c) ==
    IF Newest # NoItem /\ c.appendOffset < Chunks
    THEN Proceed(c, Newest, Newest)
    ELSE RequestNext(c)

(* clear: aborts the getSegment and enqueues finishAndClearBuffers.            *)
clear ==
    IF task.pc = "none"
    THEN task' = ClearTask /\ UNCHANGED waiting
    ELSE /\ task' = IF task.pc = "get" THEN [task EXCEPT !.pc = "aborted"]
                    ELSE task
         /\ waiting' = waiting + 1

Poll ==
    /\ scheduled /\ ~Settling
    /\ LET c == [ctl EXCEPT !.buffered = Refreshed(@)]
       IN  \/ /\ ~shouldAppend
              /\ ctl' = c /\ scheduled' = FALSE
              /\ UNCHANGED <<task, waiting, sb, ms>>
           \/ /\ shouldAppend /\ needsBufferClear
              /\ ctl' = [c EXCEPT !.reopen = FALSE] /\ scheduled' = FALSE
              /\ clear
              /\ UNCHANGED <<sb, ms>>
           \/ /\ shouldAppend /\ ~needsBufferClear
              /\ Continue(appendNext([c EXCEPT !.reopen = FALSE]), FALSE)
    /\ Unhandled /\ External /\ UNCHANGED failures

(* getSegment resolves with the segment, in a quality that is not denylisted   *)
(* as long as there is one.                                                    *)
GotSegment(q) ==
    /\ task.pc = "get" /\ task.item.seg < last
    /\ q \in denied => denied = Qualities
    /\ Continue(Proceed([ctl EXCEPT !.appendOffset = 0],
                        [seg |-> task.item.seg, quality |-> q,
                         pos |-> task.item.seg], task.tail), scheduled)
    /\ Unhandled /\ External /\ UNCHANGED failures

(* getSegment resolves with null: endBuffering, for which the track answers    *)
(* with endOfStream.                                                           *)
GotEnd ==
    /\ task.pc = "get" /\ task.item.seg >= last
    /\ ms' = IF ms = "open" THEN "ended" ELSE ms
    /\ ctl' = IF ms = "open" THEN [ctl EXCEPT !.ended = TRUE, !.quality = NoQuality]
              ELSE ctl
    /\ NextTask(waiting) /\ scheduled' = (scheduled \/ active)
    /\ UNCHANGED sb /\ Unhandled /\ External /\ UNCHANGED failures

InitDone ==
    /\ task.pc = "init"
    /\ LET c == [ctl EXCEPT !.decoderId = task.item.quality]
           step == Place(c, task.item, task.tail)
       IN  Continue([step EXCEPT !.sb.init = task.item.quality], scheduled)
    /\ Unhandled /\ External /\ UNCHANGED failures

AppendDone ==
    /\ task.pc = "append"
    /\ LET first == ctl.appendOffset = 0
           offset == ctl.appendOffset + task.size
           list == IF first THEN Append(ctl.buffered, task.item) ELSE ctl.buffered
           at == sb.offset + MediaStart(task.item.seg)
       IN  /\ ctl' = [ctl EXCEPT
                !.appendOffset = offset,
                !.buffered = list,
                !.from = IF task.tail = NoItem /\ first THEN task.item.pos ELSE @]
           /\ sb' = [sb EXCEPT
                !.at = [@ EXCEPT ![at] = [seg |-> task.item.seg, chunks |-> offset]]]
    /\ NextTask(waiting) /\ scheduled' = (scheduled \/ active)
    /\ UNCHANGED ms /\ Unhandled /\ External /\ UNCHANGED failures

(* The remove of a clear is done: its finally resets and polls.                *)
ClearDone ==
    /\ task.pc = "remove"
    /\ sb' = IF active THEN [sb EXCEPT !.at = EmptyMedia] ELSE sb
    /\ ms' = IF active /\ sb # NoBuffer THEN Reopened ELSE ms
    /\ ctl' = resetBufferedState(ctl)
    /\ NextTask(waiting) /\ scheduled' = (scheduled \/ active)
    /\ Unhandled /\ External /\ UNCHANGED failures

(* An abort is a silent error: the finally of the task is all that is left.    *)
Aborted ==
    /\ Settling
    /\ ctl' = IF task.pc = "abortedClear" THEN resetBufferedState(ctl) ELSE ctl
    /\ NextTask(waiting) /\ scheduled' = (scheduled \/ active)
    /\ UNCHANGED <<sb, ms>> /\ Unhandled /\ External /\ UNCHANGED failures

--------------------------------------------------------------------------------
\* handleError

Failing(pcs) ==
    /\ task.pc \in pcs
    /\ failures < MaxFailures[hls]
    /\ failures' = failures + 1

FailFatally ==
    /\ ctl' = [ctl EXCEPT !.error = TRUE]
    /\ NextTask(waiting) /\ scheduled' = (scheduled \/ active)
    /\ UNCHANGED <<sb, ms>> /\ Unhandled /\ External

(* A failed request, or the time-out for all streams to be ready.              *)
Fail ==
    /\ Failing({"get", "init"})
    /\ FailFatally

(* appendBuffer throws a QuotaExceededError: the quota is reduced and the      *)
(* buffer cleared, down to MIN_APPEND_SIZE.                                    *)
QuotaExceeded ==
    /\ Failing({"init", "append"})
    /\ IF quota > MinAppend
       THEN /\ quota' = quota - 1
            /\ NextTask(waiting + 1) /\ scheduled' = (scheduled \/ active)
            /\ UNCHANGED <<ctl, sb, ms, denied>> /\ External
       ELSE FailFatally

(* deactivate: the request and the source buffer's operation are aborted.      *)
Deactivated ==
    /\ ctl' = resetBufferedState(ctl)
    /\ sb' = NoBuffer
    /\ ms' = "closed"

AbortedTask ==
    CASE task.pc = "none" -> NoTask
      [] task.pc \in {"remove", "abortedClear"} -> [NoTask EXCEPT !.pc = "abortedClear"]
      [] OTHER -> [NoTask EXCEPT !.pc = "aborted"]

(* The browser cannot decode what it claimed to: the codec is denylisted and   *)
(* the track reloaded, once per codec.                                         *)
DecodeError ==
    /\ Failing({"init", "append"})
    /\ IF ctl.quality \notin denied
       THEN /\ denied' = denied \cup {ctl.quality}
            /\ Deactivated
            /\ NextTask(waiting) /\ scheduled' = TRUE
            /\ UNCHANGED quota /\ External
       ELSE FailFatally

--------------------------------------------------------------------------------
\* Calls and events from outside

Call ==
    /\ ~Settling
    /\ calls < MaxCalls
    /\ calls' = calls + 1
    /\ UNCHANGED <<failures, quota, denied>>

Activate ==
    /\ Call /\ ~active
    /\ active' = TRUE
    /\ UNCHANGED <<hls, last, time, ctl, task, waiting, scheduled, ms, sb>>

Deactivate ==
    /\ Call /\ active
    /\ active' = FALSE
    /\ Deactivated
    /\ task' = AbortedTask
    /\ UNCHANGED <<hls, last, time, waiting, scheduled>>

(* A hard reset deactivates and activates in one go.                           *)
HardReset ==
    /\ Call /\ active
    /\ Deactivated
    /\ task' = AbortedTask
    /\ UNCHANGED <<hls, last, time, active, waiting, scheduled>>

Reset ==
    /\ Call /\ ctl.error
    /\ ctl' = [ctl EXCEPT !.error = FALSE]
    /\ scheduled' = (scheduled \/ active)
    /\ UNCHANGED <<hls, last, time, active, task, waiting, ms, sb>>

Clear ==
    /\ Call /\ active
    /\ clear
    /\ UNCHANGED <<hls, last, time, active, ctl, scheduled, ms, sb>>

(* Mutant: a seek does not reopen an ended stream.                             *)
SeekUnopened(p) ==
    /\ Call /\ p \in 0..(last - 1) /\ p # time
    /\ time' = p
    /\ scheduled' = (scheduled \/ active)
    /\ UNCHANGED <<hls, last, active, ctl, task, waiting, ms, sb>>

Seek(p) ==
    /\ Call /\ p \in 0..(last - 1) /\ p # time
    /\ time' = p
    /\ ctl' = [ctl EXCEPT !.reopen = active \/ @]
    /\ scheduled' = (scheduled \/ active)
    /\ UNCHANGED <<hls, last, active, task, waiting, ms, sb>>

(* The timeline has grown: 'change'.                                           *)
Change ==
    /\ Call /\ last < MaxLast
    /\ last' = last + 1
    /\ ctl' = [ctl EXCEPT !.reopen = active \/ @]
    /\ scheduled' = (scheduled \/ active)
    /\ UNCHANGED <<hls, time, active, task, waiting, ms, sb>>

SourceOpen ==
    /\ active /\ ms = "closed" /\ ~Settling
    /\ ms' = "open"
    /\ scheduled' = TRUE
    /\ UNCHANGED <<hls, last, time, active, ctl, task, waiting, sb, quota, denied,
                   calls, failures>>

(* The media plays on to the next position: timeUpdate polls.                  *)
Advance ==
    /\ ~Settling
    /\ time < last - 1 /\ BufferedFrom(time) > Chunks
    /\ time' = time + 1
    /\ scheduled' = (scheduled \/ active)
    /\ UNCHANGED <<hls, last, active, ctl, task, waiting, ms, sb, quota, denied,
                   calls, failures>>

--------------------------------------------------------------------------------

TaskStep ==
    \/ \E q \in Qualities : GotSegment(q)
    \/ GotEnd
    \/ InitDone
    \/ AppendDone
    \/ ClearDone
    \/ Aborted

Next ==
    \/ Poll
    \/ TaskStep
    \/ Fail \/ QuotaExceeded \/ DecodeError
    \/ Activate \/ Deactivate \/ HardReset \/ Reset \/ Clear
    \/ \E p \in 0..MaxLast : Seek(p)
    \/ Change
    \/ SourceOpen
    \/ Advance

Spec == Init /\ [][Next]_vars

(* Timers fire, requests and operations of the source buffer are answered, and *)
(* the browser opens an attached media source.                                 *)
FairSpec == Spec /\ WF_vars(Poll) /\ WF_vars(TaskStep) /\ WF_vars(SourceOpen)

--------------------------------------------------------------------------------
\* Properties

(* No media segment is appended to a source buffer that has not got the init   *)
(* segment of its quality: decoderId says what the source buffer was last      *)
(* given, across clears, failures, quality changes and reactivations.          *)
InitMatches ==
    task.pc = "append" => sb.init = task.item.quality

(* Every segment in the source buffer is where the timeline has it, whatever   *)
(* sequence of seeks, quality changes and re-initializations put it there.     *)
ContentInPlace ==
    \A p \in Occupied : sb.at[p].seg = p

(* The controller's list never names media that is not in the source buffer,   *)
(* so that it neither skips a segment nor waits at a hole.                     *)
ListInBuffer ==
    \A i \in 1..Len(ctl.buffered) :
        sb.at[ctl.buffered[i].pos].seg = ctl.buffered[i].seg

(* "buffering produces a single contiguous range in practice": only the last   *)
(* buffered segment may be incomplete.                                         *)
SingleRange ==
    \A p, r \in Occupied :
        p < r => p + 1 \in Occupied /\ sb.at[p].chunks = Chunks

(* The three descriptions of the source buffer agree: what it holds, the list  *)
(* the controller keeps of it, and the init segment it was last given.         *)
BufferAgrees == TypeOK /\ InitMatches /\ ListInBuffer /\ SingleRange

(* At rest after the end of the stream the last segment has been appended, as  *)
(* long as the timeline has not grown since (see BufferingProgress).           *)
EndedMeansBuffered ==
    ctl.ended /\ ~ctl.reopen /\ ~Busy /\ last = Static =>
        Newest # NoItem /\ Newest.seg = last - 1

(* As much as minBuffer, the timeline or the quota ask for is buffered ahead.  *)
BufferedAhead ==
    \/ BufferedFrom(time) > MinBuffer * Chunks
    \/ time * Chunks + BufferedFrom(time) >= last * Chunks
    \/ BufferedFrom(time) >= quota

(* An active controller eventually buffers ahead of the playhead, reports an   *)
(* error or is deactivated: no abort, clear, quota error or seek leaves it     *)
(* with nothing scheduled.  Stated for a timeline that does not grow: what     *)
(* grows after the end was reached is not buffered to its end (README).        *)
BufferingProgress ==
    [](active => <>(BufferedAhead \/ ctl.error \/ ~active \/ last > Static))
=============================================================================
