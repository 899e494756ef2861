---------------------------- MODULE BufferingProofs ----------------------------
(* Proofs about Buffering, for any timeline, periods, qualities, sizes of      *)
(* segments and appends, and any number of calls and failures.                 *)
EXTENDS Buffering, TLAPS, SequenceTheorems, WellFoundedInduction

------------------------------------------------------------------------------
\* The inductive invariant

(* What the theorems need of the browser and of the stream.  Without           *)
(* changeType a new source buffer counts from offset 0 while the controller    *)
(* keeps the offset it has set; and an HLS segment that is appended again is   *)
(* placed after itself.  So HLS segments are appended whole: the quota has     *)
(* room for all of them, and no append of theirs fails.  DASH is not limited.  *)
Placeable ==
    /\ ChangeType
    /\ TRUE \in Hls => /\ MaxFailures[TRUE] = 0
                       /\ (MaxLast + 1) * Chunks <= MaxAppend[TRUE]

newest(c) == IF c.buffered = <<>> THEN NoItem ELSE c.buffered[Len(c.buffered)]

(* The controller's decoderId and timestampOffset say what the source buffer   *)
(* was last given.                                                             *)
KeptInv(c, s) ==
    /\ c.decoderId # NoQuality => s.init = c.decoderId
    /\ c.timestampOffset # NoOffset => s.offset = c.timestampOffset

(* What is listed is buffered, where the timeline has it.                      *)
ListInv(c, s) ==
    /\ c.buffered = <<>> => c.appendOffset = 0
    /\ \A i \in 1..Len(c.buffered) :
          /\ c.buffered[i].pos = c.buffered[i].seg
          /\ s.at[c.buffered[i].seg] # NoMedia
          /\ c.buffered[i].seg < last

(* What is buffered is in place, without gaps up to the newest segment.        *)
MediaInv(c, s) ==
    \A p \in Positions : s.at[p] # NoMedia =>
        /\ s.at[p].seg = p
        /\ c.buffered # <<>> /\ p <= newest(c).seg
        /\ p < newest(c).seg => s.at[p].chunks = Chunks /\ s.at[p + 1] # NoMedia

(* appendOffset is how much of the newest segment is buffered; no offset is    *)
(* kept once a segment is about to be appended.                                *)
TailInv(c, s) ==
    c.buffered # <<>> =>
        /\ s.at[newest(c).seg].chunks = IF c.appendOffset = 0 THEN Chunks
                                        ELSE c.appendOffset
        /\ c.appendOffset # 0 /\ ~hls => s.offset = PeriodStart[newest(c).seg]

EndInv(c) == c.ended /\ last = Static => c.buffered # <<>> /\ newest(c).seg = last - 1

(* The segment an append is of: the next one, or in DASH the rest of the       *)
(* newest.                                                                     *)
Appends(c, item) ==
    /\ item \in Items /\ item.seg < last /\ item.pos = item.seg
    /\ c.appendOffset < Chunks
    /\ \/ /\ c.appendOffset = 0
          /\ c.buffered = <<>> \/ item.seg = newest(c).seg + 1
       \/ ~hls /\ c.buffered # <<>> /\ item.seg = newest(c).seg

(* What appendNext carries from one await to the next.                         *)
TaskInv(c, s, k) ==
    /\ k.pc \in {"get", "init", "append"} => k.tail = newest(c)
    /\ k.pc = "get" =>
          /\ k.item \in Requests
          /\ c.buffered = <<>> => k.item.seg < last
          /\ c.buffered # <<>> => k.item.seg = newest(c).seg + 1 /\ c.appendOffset = Chunks
    /\ k.pc \in {"init", "append"} => Appends(c, k.item) /\ c.quality = k.item.quality
    /\ k.pc = "append" =>
          /\ s.init = k.item.quality
          /\ s.offset = PeriodStart[k.item.seg]
          /\ k.size \in 1..(Chunks - c.appendOffset)
          /\ hls => k.size = Chunks

(* HLS segments are appended whole.                                            *)
HlsInv(c, k) ==
    hls => /\ quota = MaxAppend[TRUE]
           /\ c.buffered # <<>> /\ k.pc \notin {"init", "append"} => c.appendOffset = Chunks

(* A deactivated controller has no source buffer and appends nothing; a clear  *)
(* that was aborted has nothing left to clear.                                 *)
ActiveInv(a, s, k) ==
    /\ ~a \/ k.pc = "abortedClear" => s = NoBuffer
    /\ ~a => k.pc \notin {"get", "init", "append"}

BufferInv(c, s) ==
    KeptInv(c, s) /\ ListInv(c, s) /\ MediaInv(c, s) /\ TailInv(c, s) /\ EndInv(c)

MediaStates == {"closed", "open", "ended"}

Consistent(c, s, m, k) ==
    /\ c \in Controllers /\ s \in SourceBuffers /\ m \in MediaStates /\ k \in Tasks
    /\ BufferInv(c, s) /\ TaskInv(c, s, k) /\ HlsInv(c, k)

Inductive == TypeOK /\ Consistent(ctl, sb, ms, task) /\ ActiveInv(active, sb, task)

------------------------------------------------------------------------------
\* Constants and records

(* What the assumption on the constants says of each of them.                  *)
LEMMA Constants ==
    /\ MaxLast \in Nat \ {0} /\ Static \in Nat \ {0} /\ Static <= MaxLast
    /\ Chunks \in Nat \ {0} /\ MinAppend \in Nat \ {0}
    /\ NoQuality \notin Qualities
    /\ \A n \in 0..MaxLast : PeriodStart[n] \in 0..MaxLast
    /\ 0..MaxLast \subseteq Offsets /\ 0 \in Offsets /\ NoOffset \notin Offsets
    /\ Offsets \subseteq Int /\ NoOffset \in Int
    /\ Positions \subseteq Nat /\ 0..(MaxLast - 1) \subseteq Positions
    /\ \A k \in Hls : MaxAppend[k] \in Nat /\ MinAppend <= MaxAppend[k]
    /\ \A k \in Hls : MaxFailures[k] \in Nat
    /\ \A k \in Hls : k \in BOOLEAN
<1>1. \A n \in 0..MaxLast : PeriodStart[n] \in 0..MaxLast
  BY BufferingAssumption
<1>2. \A k \in Hls : /\ MaxAppend[k] \in Nat /\ MinAppend <= MaxAppend[k]
                     /\ MaxFailures[k] \in Nat /\ k \in BOOLEAN
  BY BufferingAssumption
<1>3. MaxLast \in Nat \ {0} /\ Static \in Nat \ {0} /\ Static <= MaxLast
  BY BufferingAssumption
<1>4. Chunks \in Nat \ {0} /\ MinAppend \in Nat \ {0} /\ NoQuality \notin Qualities
  BY BufferingAssumption
<1>5. QED
  BY <1>1, <1>2, <1>3, <1>4 DEF Offsets, NoOffset, Positions

(* A task that appends nothing.                                                *)
Idle(k) == /\ k \in Tasks
           /\ k.pc \in {"none", "remove", "aborted", "abortedClear"}

(* The records that stand for no task, a clear and an aborted one.             *)
LEMMA TaskRecords ==
    /\ Idle(NoTask) /\ NoTask.pc = "none"
    /\ Idle(ClearTask) /\ ClearTask.pc = "remove"
    /\ LET n == [NoTask EXCEPT !.pc = "aborted"]
       IN  Idle(n) /\ n.pc = "aborted"
    /\ LET n == [NoTask EXCEPT !.pc = "abortedClear"]
       IN  Idle(n) /\ n.pc = "abortedClear"
<1>1. NoTask \in Tasks /\ NoTask.pc = "none"
  BY Constants DEF NoTask, Tasks
<1>2. \A p \in {"remove", "aborted", "abortedClear"} :
          LET n == [NoTask EXCEPT !.pc = p] IN n \in Tasks /\ n.pc = p
  <2>1. TAKE p \in {"remove", "aborted", "abortedClear"}
  <2>2. QED
    BY <1>1 DEF Tasks
<1>3. QED
  BY <1>1, <1>2 DEF Idle, ClearTask

(* No segment is listed, placed or begun.                                      *)
Reset0(c) ==
    /\ c \in Controllers
    /\ c.decoderId = NoQuality /\ c.timestampOffset = NoOffset
    /\ c.buffered = <<>> /\ c.appendOffset = 0 /\ c.ended = FALSE

(* A controller that was just created has nothing buffered.                    *)
LEMMA FreshIsReset == Reset0(Fresh)
<1>1. <<>> \in Seq(Items)
  BY EmptySeq
<1>2. 0 \in 0..Chunks
  BY Constants
<1>3. QED
  BY <1>1, <1>2 DEF Reset0, Fresh, Controllers, None

(* resetBufferedState (BufferingController.ts) leaves nothing behind.          *)
LEMMA ResetState ==
    ASSUME NEW c \in Controllers
    PROVE  Reset0(resetBufferedState(c))
<1>1. Reset0(Fresh) /\ Fresh \in Controllers
  BY FreshIsReset DEF Reset0
<1>2. c.reopen \in BOOLEAN /\ c.error \in BOOLEAN
  BY DEF Controllers
<1>3. QED
  BY <1>1, <1>2 DEF Reset0, resetBufferedState, Controllers

(* What a source buffer may hold at a position.                                *)
LEMMA Media ==
    /\ NoMedia.seg = None /\ NoMedia.chunks = 0
    /\ NoBuffer \in SourceBuffers
    /\ \A p \in Positions : EmptyMedia[p] = NoMedia
    /\ NoBuffer.at = EmptyMedia /\ EmptyMedia \in [Positions -> {NoMedia}]
    /\ \A s \in SourceBuffers : \A p \in Positions :
          /\ s.at[p] # NoMedia => s.at[p].seg \in 0..(MaxLast - 1) /\ s.at[p].chunks \in 1..Chunks
          /\ s.at[p].chunks \in 0..Chunks
<1>1. NoMedia.seg = None /\ NoMedia.chunks = 0
  BY DEF NoMedia
<1>2. EmptyMedia \in [Positions -> {NoMedia}]
  BY DEF EmptyMedia
<1>3. NoBuffer \in SourceBuffers /\ NoBuffer.at = EmptyMedia
  BY <1>2, Constants DEF NoBuffer, SourceBuffers
<1>4. ASSUME NEW s \in SourceBuffers, NEW p \in Positions
      PROVE  /\ s.at[p] # NoMedia => s.at[p].seg \in 0..(MaxLast - 1) /\ s.at[p].chunks \in 1..Chunks
             /\ s.at[p].chunks \in 0..Chunks
  <2>1. s.at \in [Positions -> [seg : 0..(MaxLast - 1), chunks : 1..Chunks] \cup {NoMedia}]
    BY DEF SourceBuffers
  <2>2. s.at[p] \in [seg : 0..(MaxLast - 1), chunks : 1..Chunks] \/ s.at[p] = NoMedia
    BY <2>1
  <2>3. QED
    BY <2>2, <1>1, Constants
<1>5. QED
  BY <1>1, <1>2, <1>3, <1>4

(* The newest listed segment.                                                  *)
LEMMA NewestListed ==
    ASSUME NEW c \in Controllers
    PROVE  /\ c.buffered = <<>> => newest(c) = NoItem
           /\ c.buffered # <<>> => /\ Len(c.buffered) \in 1..Len(c.buffered)
                                   /\ newest(c) = c.buffered[Len(c.buffered)]
                                   /\ newest(c) \in Items /\ newest(c) # NoItem
                                   /\ newest(c).seg \in 0..(MaxLast - 1)
           /\ newest(c) \in Items \cup {NoItem}
<1>1. c.buffered \in Seq(Items)
  BY DEF Controllers
<1>2. CASE c.buffered = <<>>
  BY <1>2 DEF newest
<1>3. CASE c.buffered # <<>>
  <2>1. Len(c.buffered) \in Nat \ {0}
    BY <1>1, <1>3, EmptySeq
  <2>2. Len(c.buffered) \in 1..Len(c.buffered)
    BY <2>1
  <2>3. c.buffered[Len(c.buffered)] \in Items
    BY <1>1, <2>2, ElementOfSeq
  <2>4. \A i \in Items : i.seg \in 0..(MaxLast - 1) /\ i # NoItem
    BY Constants DEF Items, NoItem, None
  <2>5. QED
    BY <1>3, <2>2, <2>3, <2>4 DEF newest
<1>4. QED
  BY <1>2, <1>3

------------------------------------------------------------------------------
\* What leaves the state consistent

(* Another list with the same newest segment and none but the same segments,   *)
(* and other flags.                                                            *)
LEMMA Relisted ==
    ASSUME NEW c \in Controllers, NEW d \in Controllers, NEW s, NEW m, NEW k,
           Consistent(c, s, m, k),
           d.decoderId = c.decoderId, d.timestampOffset = c.timestampOffset,
           d.quality = c.quality, d.appendOffset = c.appendOffset, d.ended = c.ended,
           (d.buffered = <<>>) <=> (c.buffered = <<>>), newest(d) = newest(c),
           \A i \in 1..Len(d.buffered) : \E j \in 1..Len(c.buffered) :
              d.buffered[i] = c.buffered[j]
    PROVE  Consistent(d, s, m, k)
<1>1. KeptInv(d, s) /\ MediaInv(d, s) /\ TailInv(d, s) /\ EndInv(d)
  BY DEF Consistent, BufferInv, KeptInv, MediaInv, TailInv, EndInv
<1>2. ListInv(d, s)
  BY DEF Consistent, BufferInv, ListInv
<1>3. TaskInv(d, s, k)
  BY DEF Consistent, TaskInv, Appends
<1>4. HlsInv(d, k)
  BY DEF Consistent, HlsInv
<1>5. QED
  BY <1>1, <1>2, <1>3, <1>4 DEF Consistent, BufferInv

(* Other flags only.                                                           *)
LEMMA Flagged ==
    ASSUME NEW c \in Controllers, NEW d \in Controllers, NEW s, NEW m, NEW k,
           Consistent(c, s, m, k),
           d.decoderId = c.decoderId, d.timestampOffset = c.timestampOffset,
           d.quality = c.quality, d.appendOffset = c.appendOffset, d.ended = c.ended,
           d.buffered = c.buffered
    PROVE  Consistent(d, s, m, k)
<1>1. newest(d) = newest(c)
  BY DEF newest
<1>2. \A i \in 1..Len(d.buffered) : \E j \in 1..Len(c.buffered) :
          d.buffered[i] = c.buffered[j]
  OBVIOUS
<1>3. QED
  BY <1>1, <1>2, Relisted

(* refreshHead never drops the newest segment.                                 *)
LEMMA RefreshedList ==
    ASSUME NEW list \in Seq(Items)
    PROVE  LET r == Refreshed(list)
           IN  /\ r \in Seq(Items)
               /\ (r = <<>>) <=> (list = <<>>)
               /\ list # <<>> => r[Len(r)] = list[Len(list)]
               /\ \A i \in 1..Len(r) : \E j \in 1..Len(list) : r[i] = list[j]
<1> DEFINE r == Refreshed(list)
<1>1. CASE r = list
  BY <1>1
<1>2. CASE r # list
  <2>1. r = Tail(list) /\ Len(list) > 1
    BY <1>2 DEF Refreshed
  <2>2. list # <<>>
    BY <2>1, EmptySeq
  <2>3. /\ Tail(list) \in Seq(Items) /\ Len(Tail(list)) = Len(list) - 1
        /\ \A i \in 1..Len(Tail(list)) : Tail(list)[i] = list[i + 1]
    BY <2>2, HeadTailProperties
  <2>4. Len(list) \in Nat /\ Len(list) - 1 >= 1
    BY <2>1, LenProperties
  <2>5. r # <<>>
    <3>1. Len(Tail(list)) # 0 /\ Tail(list) \in Seq(Items)
      BY <2>3, <2>4
    <3>2. Tail(list) # <<>>
      BY <3>1, EmptySeq
    <3>3. QED
      BY <2>1, <3>2
  <2>6. Len(r) = Len(list) - 1 /\ r[Len(r)] = list[Len(list)]
    BY <2>1, <2>3, <2>4
  <2>7. \A i \in 1..Len(r) : i + 1 \in 1..Len(list) /\ r[i] = list[i + 1]
    BY <2>1, <2>3, <2>4
  <2>8. QED
    BY <2>1, <2>2, <2>3, <2>5, <2>6, <2>7
<1>3. QED
  BY <1>1, <1>2

(* The poll refreshes the head, and a pending reopen is taken or left.         *)
LEMMA RefreshedConsistent ==
    ASSUME NEW c \in Controllers, NEW s, NEW m, NEW k, Consistent(c, s, m, k)
    PROVE  LET d == [c EXCEPT !.buffered = Refreshed(@)]
               e == [d EXCEPT !.reopen = FALSE]
           IN  /\ Consistent(d, s, m, k) /\ Consistent(e, s, m, k)
               /\ newest(e) = newest(c)
<1> DEFINE d == [c EXCEPT !.buffered = Refreshed(@)]
           e == [d EXCEPT !.reopen = FALSE]
           r == Refreshed(c.buffered)
<1>1. c.buffered \in Seq(Items)
  BY DEF Controllers
<1>2. /\ r \in Seq(Items)
      /\ (r = <<>>) <=> (c.buffered = <<>>)
      /\ c.buffered # <<>> => r[Len(r)] = c.buffered[Len(c.buffered)]
      /\ \A i \in 1..Len(r) : \E j \in 1..Len(c.buffered) : r[i] = c.buffered[j]
  BY <1>1, RefreshedList
<1> HIDE DEF r
<1>3. d = [c EXCEPT !.buffered = r]
  BY DEF r
<1>4. /\ d \in Controllers /\ d.buffered = r /\ d.decoderId = c.decoderId
      /\ d.timestampOffset = c.timestampOffset /\ d.quality = c.quality
      /\ d.appendOffset = c.appendOffset /\ d.ended = c.ended
  <2> HIDE DEF d
  <2> QED
    BY <1>2, <1>3 DEF Controllers
<1> HIDE DEF d
<1>5. newest(d) = newest(c)
  BY <1>2, <1>4 DEF newest
<1>6. Consistent(d, s, m, k)
  BY <1>2, <1>4, <1>5, Relisted
<1>7. /\ e \in Controllers /\ e.buffered = r /\ e.decoderId = c.decoderId
      /\ e.timestampOffset = c.timestampOffset /\ e.quality = c.quality
      /\ e.appendOffset = c.appendOffset /\ e.ended = c.ended
  BY <1>4 DEF Controllers
<1> HIDE DEF e
<1>8. newest(e) = newest(c)
  BY <1>2, <1>7 DEF newest
<1>9. Consistent(e, s, m, k)
  BY <1>2, <1>7, <1>8, Relisted
<1>10. QED
  BY <1>6, <1>8, <1>9 DEF d, e

(* Nothing is buffered and nothing is listed.                                  *)
LEMMA Cleared ==
    ASSUME NEW c, Reset0(c), NEW s \in SourceBuffers, NEW m \in MediaStates, NEW k,
           Idle(k), \A p \in Positions : s.at[p] = NoMedia,
           hls => quota = MaxAppend[TRUE]
    PROVE  Consistent(c, s, m, k)
<1>1. KeptInv(c, s) /\ EndInv(c) /\ TailInv(c, s)
  BY DEF Reset0, KeptInv, EndInv, TailInv
<1>2. MediaInv(c, s)
  BY DEF MediaInv
<1>3. ListInv(c, s)
  <2>1. Len(c.buffered) = 0
    BY EmptySeq DEF Reset0
  <2>2. QED
    BY <2>1 DEF Reset0, ListInv
<1>4. TaskInv(c, s, k) /\ HlsInv(c, k)
  BY DEF Idle, TaskInv, HlsInv, Reset0
<1>5. QED
  BY <1>1, <1>2, <1>3, <1>4 DEF Consistent, BufferInv, Reset0, Idle

(* A source buffer that was just created is consistent with a reset list.      *)
LEMMA NoBufferCleared ==
    ASSUME NEW c, Reset0(c), NEW m \in MediaStates, NEW k, Idle(k),
           hls => quota = MaxAppend[TRUE]
    PROVE  Consistent(c, NoBuffer, m, k)
<1>1. NoBuffer \in SourceBuffers /\ \A p \in Positions : NoBuffer.at[p] = NoMedia
  BY Media
<1>2. QED
  BY <1>1, Cleared

(* The running task ends, or another takes its place, that appends nothing.    *)
LEMMA TaskEnds ==
    ASSUME NEW c, NEW s, NEW m, NEW k, NEW l, Consistent(c, s, m, k), Idle(l),
           hls => k.pc \notin {"init", "append"}
    PROVE  Consistent(c, s, m, l)
<1>1. TaskInv(c, s, l)
  BY DEF Idle, TaskInv
<1>2. HlsInv(c, l)
  BY DEF Idle, HlsInv, Consistent
<1>3. QED
  BY <1>1, <1>2 DEF Consistent, Idle

(* One step of the system from a consistent state to a consistent state.       *)
LEMMA Framed ==
    ASSUME Inductive,
           hls' = hls, last' = last, quota' = quota,
           Consistent(ctl', sb', ms', task'), ActiveInv(active', sb', task'),
           time' \in 0..(last - 1), active' \in BOOLEAN, scheduled' \in BOOLEAN,
           waiting' \in Nat, waiting' > 0 => task'.pc # "none",
           denied' \subseteq Qualities, calls' \in 0..MaxCalls,
           failures' \in 0..MaxFailures[hls]
    PROVE  Inductive'
<1>1. TypeOK'
  <2>1. ctl' \in Controllers /\ sb' \in SourceBuffers /\ task' \in Tasks
        /\ ms' \in {"closed", "open", "ended"}
    BY DEF Consistent, MediaStates
  <2>2. hls' \in Hls /\ last' \in Static..MaxLast /\ quota' \in MinAppend..MaxAppend[hls']
    BY DEF Inductive, TypeOK
  <2>3. QED
    BY <2>1, <2>2 DEF TypeOK
<1>2. BufferInv(ctl, sb)'
  BY DEF Consistent, BufferInv, KeptInv, ListInv, MediaInv, TailInv, EndInv, newest
<1>3. TaskInv(ctl, sb, task)'
  BY DEF Consistent, TaskInv, Appends, newest
<1>4. HlsInv(ctl, task)'
  BY DEF Consistent, HlsInv
<1>5. ActiveInv(active, sb, task)'
  BY DEF ActiveInv
<1>6. Consistent(ctl, sb, ms, task)'
  BY <1>2, <1>3, <1>4 DEF Consistent
<1>7. QED
  BY <1>1, <1>5, <1>6 DEF Inductive

(* What the typed variables are.                                               *)
LEMMA Typed ==
    ASSUME TypeOK
    PROVE  /\ hls \in BOOLEAN /\ hls \in Hls /\ last \in Nat /\ last >= Static /\ last <= MaxLast
           /\ time \in Nat /\ time < last /\ time \in 0..(last - 1) /\ active \in BOOLEAN
           /\ ctl \in Controllers /\ task \in Tasks /\ sb \in SourceBuffers
           /\ ms \in MediaStates /\ waiting \in Nat /\ scheduled \in BOOLEAN
           /\ quota \in Nat /\ denied \subseteq Qualities /\ calls \in 0..MaxCalls
           /\ failures \in 0..MaxFailures[hls] /\ failures \in Nat
           /\ waiting > 0 => task.pc # "none"
<1>1. hls \in BOOLEAN /\ hls \in Hls
  BY Constants DEF TypeOK
<1>2. last \in Nat /\ last >= Static /\ last <= MaxLast
  BY Constants DEF TypeOK
<1>3. time \in Nat /\ time < last /\ time \in 0..(last - 1)
  BY <1>2 DEF TypeOK
<1>4. quota \in Nat /\ failures \in Nat
  BY <1>1, Constants DEF TypeOK
<1>5. QED
  BY <1>1, <1>2, <1>3, <1>4 DEF TypeOK, MediaStates

(* The task ends: a waiting clear starts, or nothing runs.                     *)
LEMMA TaskDone ==
    ASSUME Inductive, NEW n \in Nat, NextTask(n),
           hls' = hls, last' = last, quota' = quota, time' = time, active' = active,
           Consistent(ctl', sb', ms', NoTask), ~active => sb' = NoBuffer,
           scheduled' \in BOOLEAN, denied' \subseteq Qualities, calls' \in 0..MaxCalls,
           failures' \in 0..MaxFailures[hls]
    PROVE  Inductive'
<1>1. Idle(task') /\ task'.pc \in {"none", "remove"}
  BY TaskRecords DEF NextTask
<1>2. waiting' \in Nat /\ (waiting' > 0 => task'.pc # "none")
  BY TaskRecords DEF NextTask
<1>3. Consistent(ctl', sb', ms', task')
  BY <1>1, TaskRecords, TaskEnds
<1>4. ActiveInv(active', sb', task')
  BY <1>1 DEF ActiveInv
<1>5. time' \in 0..(last - 1) /\ active' \in BOOLEAN
  BY Typed DEF Inductive
<1>6. QED
  BY <1>1, <1>2, <1>3, <1>4, <1>5, Framed

------------------------------------------------------------------------------
\* appendNext

(* Buffered ahead is an amount, and never more than the timeline may hold.     *)
LEMMA BufferedAmount ==
    ASSUME TypeOK, MediaInv(ctl, sb)
    PROVE  /\ BufferedFrom(time) \in Int
           /\ BufferedFrom(time) <= MaxLast * Chunks
<1> DEFINE gaps == {e \in Positions : e >= time /\ sb.at[e].chunks < Chunks}
           below == {ss \in Nat \X Nat : ss[1] < ss[2]}
           end == Min(gaps)
<1>1. /\ time \in Nat /\ time < MaxLast /\ MaxLast \in Positions
      /\ sb \in SourceBuffers /\ ctl \in Controllers
  BY Typed, Constants DEF Positions
<1>2. sb.at[MaxLast] = NoMedia
  BY <1>1, NewestListed, Constants DEF MediaInv
<1>3. MaxLast \in gaps
  BY <1>1, <1>2, Media, Constants
<1>4. gaps \subseteq Nat
  BY Constants
<1>5. IsWellFoundedOn(below, Nat)
  BY NatLessThanWellFounded DEF OpToRel
<1>6. PICK t \in gaps : \A u \in gaps : <<u, t>> \notin below
  <2> HIDE DEF below, gaps
  <2>1. QED
    BY <1>3, <1>4, <1>5, WFMin
<1>7. \A u \in gaps : t <= u
  <2> HIDE DEF gaps
  <2> TAKE u \in gaps
  <2>1. t \in Nat /\ u \in Nat /\ ~(u < t)
    BY <1>4, <1>6
  <2>2. QED
    BY <2>1
<1>8. end \in gaps /\ \A u \in gaps : end <= u
  <2> HIDE DEF gaps, below
  <2>1. QED
    BY <1>7 DEF Min
<1>9. BufferedFrom(time) = (end - time) * Chunks + sb.at[end].chunks
  BY DEF BufferedFrom
<1>10. end \in Positions /\ end \in Nat /\ end >= time /\ end <= MaxLast
  <2>1. end <= MaxLast
    BY <1>3, <1>8
  <2>2. end \in gaps
    BY <1>8
  <2> HIDE DEF end
  <2>3. QED
    BY <2>1, <2>2, Constants
<1>11. sb.at[end].chunks \in 0..Chunks /\ sb.at[end].chunks < Chunks
  <2>1. end \in gaps
    BY <1>8
  <2> HIDE DEF end
  <2>2. QED
    BY <2>1, <1>1, <1>10, Media
<1>12. end = MaxLast => sb.at[end].chunks = 0
  BY <1>2, Media
<1> HIDE DEF end, gaps, below
<1> DEFINE held == sb.at[end].chunks
           ahead == end - time
<1>13. held \in Int /\ ahead \in Nat /\ Chunks \in Nat /\ MaxLast \in Nat /\ held < Chunks
  BY <1>1, <1>10, <1>11, Constants
<1>14. ahead <= MaxLast /\ (held = 0 \/ ahead + 1 <= MaxLast) /\ held >= 0
  BY <1>1, <1>10, <1>11, <1>12, Constants
<1> HIDE DEF held, ahead
<1>15. ahead * Chunks + held \in Int
  BY <1>13
<1>16. ahead * Chunks + held <= MaxLast * Chunks
  <2>1. CASE held = 0
    BY <2>1, <1>13, <1>14
  <2>2. CASE ahead + 1 <= MaxLast
    <3>1. (ahead + 1) * Chunks <= MaxLast * Chunks
      BY <2>2, <1>13
    <3>2. (ahead + 1) * Chunks = ahead * Chunks + Chunks
      BY <1>13
    <3>3. ahead * Chunks \in Int /\ MaxLast * Chunks \in Int
      BY <1>13
    <3>4. QED
      BY <3>1, <3>2, <3>3, <1>13
  <2>3. QED
    BY <2>1, <2>2, <1>14
<1>17. QED
  BY <1>9, <1>15, <1>16 DEF held, ahead

(* An append is of what is left of the segment; in HLS, of all of it.          *)
LEMMA AppendSizes ==
    ASSUME Placeable, TypeOK, MediaInv(ctl, sb), hls => quota = MaxAppend[TRUE],
           NEW c \in Controllers, c.appendOffset < Chunks, hls => c.appendOffset = 0
    PROVE  /\ AppendSize(c) \in Int
           /\ AppendSize(c) <= Chunks - c.appendOffset
           /\ hls => AppendSize(c) = Chunks
<1> DEFINE a == quota - BufferedFrom(time)
           b == Chunks - c.appendOffset
<1>1. /\ BufferedFrom(time) \in Int /\ BufferedFrom(time) <= MaxLast * Chunks
      /\ quota \in Nat /\ c.appendOffset \in Nat /\ Chunks \in Nat /\ MaxLast \in Nat
  BY BufferedAmount, Typed, Constants DEF Controllers
<1>2. a \in Int /\ b \in Int
  BY <1>1
<1>3. hls => a >= Chunks /\ b = Chunks
  <2>1. CASE hls
    <3>1. hls = TRUE /\ TRUE \in Hls
      BY <2>1, Typed
    <3>2. (MaxLast + 1) * Chunks <= quota
      BY <2>1, <3>1 DEF Placeable
    <3>3. (MaxLast + 1) * Chunks = MaxLast * Chunks + Chunks /\ MaxLast * Chunks \in Int
      BY <1>1
    <3>4. quota - BufferedFrom(time) >= Chunks
      BY <1>1, <3>2, <3>3
    <3>5. Chunks - c.appendOffset = Chunks
      BY <1>1, <2>1
    <3>6. QED
      BY <3>4, <3>5
  <2>2. QED
    BY <2>1
<1>4. AppendSize(c) = Min({a, b})
  BY DEF AppendSize
<1> HIDE DEF a, b
<1>5. Min({a, b}) \in {a, b} /\ Min({a, b}) <= a /\ Min({a, b}) <= b
  <2>1. \E x \in {a, b} : \A y \in {a, b} : x <= y
    BY <1>2
  <2>2. QED
    BY <2>1 DEF Min
<1>6. AppendSize(c) \in Int /\ AppendSize(c) <= b
  BY <1>2, <1>4, <1>5
<1>7. hls => AppendSize(c) = Chunks
  BY <1>1, <1>2, <1>3, <1>4, <1>5
<1>8. QED
  BY <1>6, <1>7 DEF b

(* A segment is placed where its period says, by its media's timestamps in     *)
(* DASH and after the segment before it in HLS.                                *)
LEMMA PlacedByPeriod ==
    ASSUME TypeOK, NEW c \in Controllers, NEW item, Appends(c, item),
           NEW s, ListInv(c, s)
    PROVE  /\ placeSegment(item.seg, newest(c)) = PeriodStart[item.seg]
           /\ PeriodStart[item.seg] \in 0..MaxLast
           /\ MediaStart(item.seg) = item.seg - PeriodStart[item.seg]
           /\ item.seg \in 0..(MaxLast - 1) /\ item.seg \in Nat
<1>1. item.seg \in 0..(MaxLast - 1) /\ item.seg \in Nat
  BY Constants DEF Appends, Items
<1>2. PeriodStart[item.seg] \in 0..MaxLast
  BY <1>1, Constants
<1>3. MediaStart(item.seg) = item.seg - PeriodStart[item.seg]
  BY DEF MediaStart
<1>4. CASE ~hls
  BY <1>1, <1>2, <1>3, <1>4 DEF placeSegment
<1>5. CASE hls
  <2> DEFINE expected == IF newest(c) = NoItem THEN item.seg ELSE newest(c).pos + 1
  <2>1. c.buffered # <<>> => newest(c).pos = newest(c).seg
    BY NewestListed DEF ListInv
  <2>2. expected = item.seg
    <3>1. CASE c.buffered = <<>>
      BY <3>1, NewestListed
    <3>2. CASE c.buffered # <<>>
      BY <3>2, <1>5, <2>1, NewestListed DEF Appends
    <3>3. QED
      BY <3>1, <3>2
  <2>3. placeSegment(item.seg, newest(c)) = expected - MediaStart(item.seg)
    BY <1>5 DEF placeSegment
  <2> HIDE DEF expected
  <2>4. QED
    BY <1>1, <1>2, <1>3, <2>2, <2>3, Constants
<1>6. QED
  BY <1>1, <1>2, <1>3, <1>4, <1>5

(* From the decoder check to the append.                                       *)
LEMMA PlaceStep ==
    ASSUME Placeable, TypeOK, MediaInv(ctl, sb), hls => quota = MaxAppend[TRUE],
           NEW c \in Controllers, NEW item, Appends(c, item),
           c.quality = item.quality, c.decoderId = item.quality,
           NEW s \in SourceBuffers, BufferInv(c, s),
           s = [sb EXCEPT !.init = item.quality]
    PROVE  LET st == Place(c, item, newest(c))
           IN  /\ Consistent(st.ctl, [st.sb EXCEPT !.init = item.quality], st.ms, st.task)
               /\ st.task = NoTask \/ st.task.pc = "append"
<1> DEFINE tail == newest(c)
           period == PeriodStart[item.seg]
           first == c.appendOffset = 0
           moves == first /\ period # c.timestampOffset
           placed == IF moves THEN period ELSE sb.offset
           size == AppendSize(c)
           pos == IF first THEN period + MediaStart(item.seg) ELSE item.pos
           d == IF moves THEN [c EXCEPT !.timestampOffset = period] ELSE c
           t == [s EXCEPT !.offset = placed]
           m == IF moves \/ size > 0 THEN Reopened ELSE ms
           k == IF size <= 0 THEN NoTask
                ELSE [pc |-> "append", tail |-> tail,
                      item |-> [item EXCEPT !.pos = pos], size |-> size]
           st == Place(c, item, tail)
<1>1. /\ placeSegment(item.seg, tail) = period
      /\ period \in 0..MaxLast
      /\ MediaStart(item.seg) = item.seg - period
      /\ item.seg \in 0..(MaxLast - 1) /\ item.seg \in Nat
  BY PlacedByPeriod DEF BufferInv
<1>2. period \in Offsets /\ period \in Int /\ period # NoOffset
  BY <1>1, Constants
<1>3. sb \in SourceBuffers /\ s.at = sb.at /\ s.offset = sb.offset /\ s.init = item.quality
      /\ sb.offset \in Offsets
  BY Typed DEF SourceBuffers
<1>4. item \in Items /\ item.pos = item.seg /\ c.appendOffset < Chunks
      /\ c.appendOffset \in Nat
  BY Constants DEF Appends, Controllers
<1>5. /\ st.ctl = d /\ st.ms = m /\ st.task = k
      /\ st.sb = [sb EXCEPT !.offset = placed]
  BY <1>1 DEF Place
<1>6. hls => first
  BY DEF Appends
<1>7. size \in Int /\ size <= Chunks - c.appendOffset /\ (hls => size = Chunks)
  BY <1>4, <1>6, AppendSizes
<1>8. pos = item.seg
  BY <1>1, <1>4
<1> HIDE DEF pos, size
<1>9. [item EXCEPT !.pos = pos] = item
  BY <1>4, <1>8 DEF Items
<1>10. placed = period
  <2>1. CASE moves
    BY <2>1
  <2>2. CASE first /\ period = c.timestampOffset
    BY <2>2, <1>2, <1>3 DEF BufferInv, KeptInv
  <2>3. CASE ~first
    <3>1. ~hls /\ c.buffered # <<>> /\ item.seg = newest(c).seg
      BY <2>3 DEF Appends
    <3>2. s.offset = PeriodStart[newest(c).seg]
      BY <2>3, <3>1 DEF BufferInv, TailInv
    <3>3. QED
      BY <2>3, <3>1, <3>2, <1>3
  <2>4. QED
    BY <2>1, <2>2, <2>3
<1>11. /\ t \in SourceBuffers /\ t.at = s.at /\ t.offset = period /\ t.init = item.quality
       /\ (~moves => t.offset = s.offset)
  <2>1. t = [s EXCEPT !.offset = period]
    BY <1>10
  <2>2. ~moves => period = s.offset
    BY <1>3, <1>10
  <2> HIDE DEF t, moves
  <2>3. QED
    BY <2>1, <2>2, <1>2, <1>3 DEF SourceBuffers
<1>12. [st.sb EXCEPT !.init = item.quality] = t
  <2>1. st.sb = [sb EXCEPT !.offset = period] /\ t = [s EXCEPT !.offset = period]
    BY <1>5, <1>10
  <2> HIDE DEF st, t
  <2>2. QED
    BY <2>1, <1>3 DEF SourceBuffers
<1>13. /\ d \in Controllers /\ d.decoderId = c.decoderId /\ d.quality = c.quality
       /\ d.buffered = c.buffered /\ d.appendOffset = c.appendOffset /\ d.ended = c.ended
       /\ d.timestampOffset = IF moves THEN period ELSE c.timestampOffset
  BY <1>2 DEF Controllers
<1>14. newest(d) = tail /\ tail \in Items \cup {NoItem}
  BY <1>13, NewestListed DEF newest
<1>15. m \in MediaStates
  BY Typed DEF Reopened, MediaStates
<1> HIDE DEF st, d, t, placed, m
<1>16. BufferInv(d, t)
  <2>1. KeptInv(d, t)
    BY <1>11, <1>13 DEF BufferInv, KeptInv
  <2>2. ListInv(d, t)
    BY <1>11, <1>13 DEF BufferInv, ListInv
  <2>3. MediaInv(d, t)
    BY <1>11, <1>13, <1>14 DEF BufferInv, MediaInv
  <2>4. TailInv(d, t)
    <3>1. c.appendOffset # 0 => t.offset = s.offset
      BY <1>11
    <3>2. QED
      BY <3>1, <1>11, <1>13, <1>14 DEF BufferInv, TailInv
  <2>5. EndInv(d)
    BY <1>13, <1>14 DEF BufferInv, EndInv
  <2>6. QED
    BY <2>1, <2>2, <2>3, <2>4, <2>5 DEF BufferInv
<1>17. Appends(d, item)
  BY <1>13, <1>14 DEF Appends
<1>18. CASE size <= 0
  <2>1. k = NoTask /\ ~hls
    BY <1>18, <1>7, Constants
  <2>2. TaskInv(d, t, k) /\ HlsInv(d, k)
    BY <2>1, TaskRecords DEF TaskInv, HlsInv
  <2>3. k \in Tasks /\ k.pc = "none"
    BY <2>1, TaskRecords DEF Idle
  <2>4. Consistent(d, t, m, k)
    BY <2>2, <2>3, <1>11, <1>13, <1>15, <1>16 DEF Consistent
  <2>5. QED
    BY <2>1, <2>4, <1>5, <1>12 DEF st
<1>19. CASE size > 0
  <2>1. k = [pc |-> "append", tail |-> tail, item |-> item, size |-> size]
    BY <1>19, <1>7, <1>9
  <2>2. size \in 0..Chunks /\ size \in 1..(Chunks - c.appendOffset)
    BY <1>19, <1>4, <1>7, Constants
  <2>3. k \in Tasks /\ k.pc = "append" /\ k.tail = tail /\ k.item = item /\ k.size = size
    BY <2>1, <2>2, <1>4, <1>14 DEF Tasks
  <2> HIDE DEF k
  <2>4. TaskInv(d, t, k)
    BY <2>2, <2>3, <1>7, <1>11, <1>13, <1>14, <1>17 DEF TaskInv
  <2>5. HlsInv(d, k)
    BY <2>3 DEF HlsInv
  <2>6. Consistent(d, t, m, k)
    BY <2>3, <2>4, <2>5, <1>11, <1>13, <1>15, <1>16 DEF Consistent
  <2>7. QED
    BY <2>3, <2>6, <1>5, <1>12 DEF st
<1>20. QED
  BY <1>7, <1>18, <1>19

(* The decoder is initialized first when it is another.                        *)
LEMMA ProceedStep ==
    ASSUME Placeable, TypeOK, MediaInv(ctl, sb), hls => quota = MaxAppend[TRUE],
           NEW c \in Controllers, NEW item, Appends(c, item), BufferInv(c, sb)
    PROVE  LET st == Proceed(c, item, newest(c))
           IN  /\ Consistent(st.ctl, st.sb, st.ms, st.task)
               /\ st.task = NoTask \/ st.task.pc \in {"init", "append"}
<1> DEFINE tail == newest(c)
           d == [c EXCEPT !.quality = item.quality]
           st == Proceed(c, item, tail)
<1>1. item \in Items /\ item.quality \in Qualities
  BY DEF Appends, Items
<1>2. /\ d \in Controllers /\ d.decoderId = c.decoderId /\ d.quality = item.quality
      /\ d.buffered = c.buffered /\ d.appendOffset = c.appendOffset /\ d.ended = c.ended
      /\ d.timestampOffset = c.timestampOffset
  BY <1>1 DEF Controllers
<1> HIDE DEF d
<1>3. newest(d) = tail /\ tail \in Items \cup {NoItem}
  BY <1>2, NewestListed DEF newest
<1>4. Appends(d, item)
  BY <1>2, <1>3 DEF Appends
<1>5. BufferInv(d, sb)
  BY <1>2, <1>3 DEF BufferInv, KeptInv, ListInv, MediaInv, TailInv, EndInv
<1>6. sb \in SourceBuffers
  BY Typed
<1>7. CASE c.decoderId = item.quality
  <2> DEFINE pl == Place(d, item, tail)
  <2>1. st = pl
    BY <1>7 DEF Proceed, d
  <2>2. sb.init = item.quality
    BY <1>1, <1>7, Constants DEF BufferInv, KeptInv
  <2>3. sb = [sb EXCEPT !.init = item.quality]
    BY <2>2, <1>6 DEF SourceBuffers
  <2>4. /\ Consistent(pl.ctl, [pl.sb EXCEPT !.init = item.quality], pl.ms, pl.task)
        /\ pl.task = NoTask \/ pl.task.pc = "append"
    BY <2>3, <1>2, <1>3, <1>4, <1>5, <1>6, <1>7, PlaceStep, ZenonT(60)
  <2>5. \E o : pl.sb = [sb EXCEPT !.offset = o]
    BY DEF Place
  <2>6. [pl.sb EXCEPT !.init = item.quality] = pl.sb
    <3> PICK o : pl.sb = [sb EXCEPT !.offset = o]
      BY <2>5
    <3> HIDE DEF pl
    <3> QED
      BY <2>2, <1>6 DEF SourceBuffers
  <2>7. QED
    BY <2>1, <2>4, <2>6
<1>8. CASE c.decoderId # item.quality
  <2> DEFINE e == [d EXCEPT !.decoderId = NoQuality]
             k == [pc |-> "init", tail |-> tail, item |-> item, size |-> 0]
  <2>1. st.ctl = e /\ st.sb = sb /\ st.ms = Reopened /\ st.task = k
    BY <1>8 DEF Proceed, d, Placeable
  <2>2. /\ e \in Controllers /\ e.decoderId = NoQuality /\ e.quality = item.quality
        /\ e.buffered = c.buffered /\ e.appendOffset = c.appendOffset /\ e.ended = c.ended
        /\ e.timestampOffset = c.timestampOffset
    BY <1>2 DEF Controllers
  <2>3. k \in Tasks /\ k.pc = "init" /\ k.tail = tail /\ k.item = item
    BY <1>1, <1>3, Constants DEF Tasks
  <2> HIDE DEF e, k, st
  <2>4. newest(e) = tail
    BY <2>2 DEF newest
  <2>5. BufferInv(e, sb)
    BY <2>2, <2>4 DEF BufferInv, KeptInv, ListInv, MediaInv, TailInv, EndInv
  <2>6. TaskInv(e, sb, k)
    BY <2>2, <2>3, <2>4 DEF TaskInv, Appends
  <2>7. HlsInv(e, k)
    BY <2>3 DEF HlsInv
  <2>8. Reopened \in MediaStates
    BY Typed DEF Reopened, MediaStates
  <2>9. Consistent(e, sb, Reopened, k)
    BY <2>2, <2>3, <2>5, <2>6, <2>7, <2>8, <1>6 DEF Consistent
  <2>10. QED
    BY <2>1, <2>3, <2>9 DEF st
<1>9. QED
  BY <1>7, <1>8

(* The segment after the newest, or at the playhead, is requested; or the      *)
(* append of the newest goes on.                                               *)
LEMMA AppendNextStep ==
    ASSUME Placeable, TypeOK, MediaInv(ctl, sb),
           NEW c, NEW k, Consistent(c, sb, ms, k), newest(c) = Newest,
           k.pc = "none"
    PROVE  LET st == appendNext(c)
           IN  /\ Consistent(st.ctl, st.sb, st.ms, st.task)
               /\ st.task = NoTask \/ st.task.pc \in {"get", "init", "append"}
<1> DEFINE st == appendNext(c)
<1>1. c \in Controllers /\ BufferInv(c, sb) /\ (hls => quota = MaxAppend[TRUE])
  BY DEF Consistent, HlsInv
<1>2. /\ c.buffered # <<>> => newest(c) \in Items /\ newest(c) # NoItem
                              /\ newest(c).seg \in 0..(MaxLast - 1)
      /\ c.buffered = <<>> => newest(c) = NoItem
      /\ newest(c) \in Items \cup {NoItem}
  BY <1>1, NewestListed
<1>3. CASE Newest # NoItem /\ c.appendOffset < Chunks
  <2>1. st = Proceed(c, newest(c), newest(c))
    BY <1>3 DEF appendNext
  <2>2. c.buffered # <<>>
    BY <1>2, <1>3
  <2>3. newest(c).pos = newest(c).seg /\ newest(c).seg < last
    BY <1>1, <2>2, NewestListed DEF BufferInv, ListInv
  <2>4. ~hls
    <3>1. c.appendOffset # Chunks
      BY <1>1, <1>3, Constants DEF Controllers
    <3>2. QED
      BY <2>2, <3>1 DEF Consistent, HlsInv
  <2>5. Appends(c, newest(c))
    BY <1>2, <1>3, <2>2, <2>3, <2>4 DEF Appends
  <2>6. QED
    BY <1>1, <2>1, <2>5, ProceedStep
<1>4. CASE ~(Newest # NoItem /\ c.appendOffset < Chunks)
  <2> DEFINE seg == IF newest(c) = NoItem THEN time ELSE newest(c).seg + 1
             item == [NoItem EXCEPT !.seg = seg]
             n == [pc |-> "get", tail |-> newest(c), size |-> 0, item |-> item]
  <2>1. st.ctl = c /\ st.sb = sb /\ st.ms = ms /\ st.task = n
    BY <1>4 DEF appendNext, RequestNext
  <2>2. time \in Nat /\ time < last /\ last \in Nat /\ last <= MaxLast
    BY Typed
  <2>3. c.buffered # <<>> => newest(c).seg < last
    BY <1>1, NewestListed DEF BufferInv, ListInv
  <2>4. seg \in 0..MaxLast
    BY <1>2, <2>2, <2>3, Constants
  <2>5. /\ c.buffered = <<>> => seg < last
        /\ c.buffered # <<>> => seg = newest(c).seg + 1
    BY <1>2, <2>2
  <2>6. c.buffered # <<>> => c.appendOffset = Chunks
    <3>1. c.appendOffset \in Nat /\ c.appendOffset <= Chunks /\ Chunks \in Nat
      BY <1>1, Constants DEF Controllers
    <3>2. c.buffered # <<>> => ~(c.appendOffset < Chunks)
      BY <1>2, <1>4
    <3>3. QED
      BY <3>1, <3>2
  <2> HIDE DEF seg
  <2>7. item \in Requests /\ item.seg = seg
    BY <2>4 DEF NoItem, Requests
  <2> HIDE DEF item
  <2>8. n \in Tasks /\ n.pc = "get" /\ n.tail = newest(c) /\ n.item = item
    BY <1>2, <2>7, Constants DEF Tasks
  <2> HIDE DEF n
  <2>9. TaskInv(c, sb, n)
    BY <2>5, <2>6, <2>7, <2>8 DEF TaskInv
  <2>10. HlsInv(c, n)
    BY <2>6, <1>1 DEF HlsInv
  <2>11. Consistent(c, sb, ms, n)
    BY <2>8, <2>9, <2>10 DEF Consistent
  <2>12. QED
    BY <2>1, <2>8, <2>11
<1>5. QED
  BY <1>3, <1>4

(* A step of appendNext that goes on or ends.                                  *)
LEMMA Continued ==
    ASSUME Inductive, NEW step, NEW polled \in BOOLEAN, Continue(step, polled),
           active, task.pc # "abortedClear",
           hls' = hls, last' = last, quota' = quota, time' = time, active' = active,
           UNCHANGED <<denied, calls, failures>>,
           Consistent(step.ctl, step.sb, step.ms, step.task),
           step.task = NoTask \/ step.task.pc \in {"get", "init", "append"}
    PROVE  Inductive'
<1>1. ctl' = step.ctl /\ sb' = step.sb /\ ms' = step.ms
  BY DEF Continue
<1>2. /\ denied' \subseteq Qualities /\ calls' \in 0..MaxCalls
      /\ failures' \in 0..MaxFailures[hls] /\ waiting \in Nat
      /\ time' \in 0..(last - 1) /\ active' \in BOOLEAN
  BY Typed DEF Inductive
<1>3. CASE step.task = NoTask
  <2>1. NextTask(waiting) /\ scheduled' = (polled \/ active)
    BY <1>3 DEF Continue
  <2>2. scheduled' \in BOOLEAN
    BY <2>1
  <2>3. Consistent(ctl', sb', ms', NoTask)
    BY <1>1, <1>3
  <2>4. QED
    BY <1>2, <2>1, <2>2, <2>3, TaskDone
<1>4. CASE step.task # NoTask
  <2>1. task' = step.task /\ scheduled' = polled /\ waiting' = waiting
    BY <1>4 DEF Continue
  <2>2. Consistent(ctl', sb', ms', task')
    BY <1>1, <2>1
  <2>3. ActiveInv(active', sb', task')
    BY <1>4, <2>1 DEF ActiveInv
  <2>4. step.task.pc # "none"
    BY <1>4
  <2>5. QED
    BY <1>2, <2>1, <2>2, <2>3, <2>4, Framed
<1>5. QED
  BY <1>3, <1>4

------------------------------------------------------------------------------
\* The steps of the task

(* poll: shouldAppend, and the task that it starts.                            *)
LEMMA PollStep ==
    ASSUME Placeable, Inductive, Poll
    PROVE  Inductive'
<1> DEFINE d == [ctl EXCEPT !.buffered = Refreshed(@)]
           e == [d EXCEPT !.reopen = FALSE]
<1>1. TypeOK /\ Consistent(ctl, sb, ms, task) /\ ActiveInv(active, sb, task)
      /\ MediaInv(ctl, sb) /\ ctl \in Controllers
  BY DEF Inductive, Consistent, BufferInv
<1>2. /\ Consistent(d, sb, ms, task) /\ Consistent(e, sb, ms, task)
      /\ newest(e) = newest(ctl)
  BY <1>1, RefreshedConsistent
<1>3. newest(ctl) = Newest
  BY DEF newest, Newest, Last
<1> HIDE DEF d, e
<1>4. /\ hls' = hls /\ last' = last /\ time' = time /\ active' = active /\ calls' = calls
      /\ quota' = quota /\ denied' = denied /\ failures' = failures
  BY DEF Poll, Unhandled, External
<1>5. /\ time' \in 0..(last - 1) /\ active' \in BOOLEAN /\ denied' \subseteq Qualities
      /\ calls' \in 0..MaxCalls /\ failures' \in 0..MaxFailures[hls]
  BY <1>1, <1>4, Typed
<1>6. CASE ~shouldAppend /\ ctl' = d /\ scheduled' = FALSE /\ UNCHANGED <<task, waiting, sb, ms>>
  <2>1. Consistent(ctl', sb', ms', task') /\ ActiveInv(active', sb', task')
    BY <1>1, <1>2, <1>4, <1>6
  <2>2. waiting' \in Nat /\ (waiting' > 0 => task'.pc # "none") /\ scheduled' \in BOOLEAN
    BY <1>1, <1>6, Typed
  <2>3. QED
    BY <1>4, <1>5, <2>1, <2>2, Framed
<1>7. CASE shouldAppend /\ ctl' = e /\ scheduled' = FALSE /\ clear /\ UNCHANGED <<sb, ms>>
  <2>1. task.pc = "none" /\ active
    BY <1>7 DEF shouldAppend, Busy
  <2>2. task' = ClearTask /\ waiting' = waiting
    BY <1>7, <2>1 DEF clear
  <2>3. Consistent(ctl', sb', ms', task')
    BY <1>2, <1>7, <2>1, <2>2, TaskEnds, TaskRecords
  <2>4. ActiveInv(active', sb', task')
    BY <1>4, <2>1, <2>2, TaskRecords DEF ActiveInv
  <2>5. waiting' \in Nat /\ (waiting' > 0 => task'.pc # "none") /\ scheduled' \in BOOLEAN
    BY <1>1, <1>7, <2>2, Typed, TaskRecords
  <2>6. QED
    BY <1>4, <1>5, <2>3, <2>4, <2>5, Framed
<1>8. CASE shouldAppend /\ Continue(appendNext(e), FALSE)
  <2>1. task.pc = "none" /\ active
    BY <1>8 DEF shouldAppend, Busy
  <2> DEFINE st == appendNext(e)
  <2>2. /\ Consistent(st.ctl, st.sb, st.ms, st.task)
        /\ st.task = NoTask \/ st.task.pc \in {"get", "init", "append"}
    BY <1>1, <1>2, <1>3, <2>1, AppendNextStep
  <2> HIDE DEF st
  <2>3. Continue(st, FALSE)
    BY <1>8 DEF st
  <2>4. QED
    BY <1>4, <2>1, <2>2, <2>3, Continued
<1>9. QED
  BY <1>6, <1>7, <1>8 DEF Poll, d, e

(* A segment that has been requested is the next one.                          *)
LEMMA GotSegmentStep ==
    ASSUME Placeable, Inductive, NEW q \in Qualities, GotSegment(q)
    PROVE  Inductive'
<1> DEFINE c == [ctl EXCEPT !.appendOffset = 0]
           item == [seg |-> task.item.seg, quality |-> q, pos |-> task.item.seg]
           st == Proceed(c, item, task.tail)
<1>1. /\ TypeOK /\ TaskInv(ctl, sb, task) /\ HlsInv(ctl, task) /\ BufferInv(ctl, sb)
      /\ ActiveInv(active, sb, task) /\ MediaInv(ctl, sb) /\ ctl \in Controllers
  BY DEF Inductive, Consistent, BufferInv
<1>2. task.pc = "get" /\ task.item.seg < last /\ Continue(st, scheduled)
  BY DEF GotSegment
<1>3. /\ task.tail = newest(ctl) /\ task.item \in Requests
      /\ ctl.buffered # <<>> => /\ task.item.seg = newest(ctl).seg + 1
                                /\ ctl.appendOffset = Chunks
  BY <1>1, <1>2 DEF TaskInv
<1>4. /\ c \in Controllers /\ c.appendOffset = 0 /\ c.buffered = ctl.buffered
      /\ c.decoderId = ctl.decoderId /\ c.timestampOffset = ctl.timestampOffset
      /\ c.ended = ctl.ended
  BY <1>1, Constants, SMTT(30) DEF Controllers
<1> HIDE DEF c
<1>5. newest(c) = newest(ctl)
  BY <1>4 DEF newest
<1>6. item \in Items /\ item.seg = task.item.seg /\ item.pos = item.seg
  <2>1. last \in Nat /\ last <= MaxLast /\ task.item.seg \in 0..MaxLast
    BY <1>1, <1>3, Typed DEF Requests
  <2>2. task.item.seg \in 0..(MaxLast - 1) /\ task.item.seg \in Positions
    BY <1>2, <2>1, Constants
  <2>3. QED
    BY <2>2 DEF Items
<1>7. Appends(c, item)
  <2>1. c.appendOffset < Chunks
    BY <1>4, Constants
  <2>2. c.buffered = <<>> \/ item.seg = newest(c).seg + 1
    BY <1>3, <1>4, <1>5, <1>6
  <2>3. QED
    BY <1>2, <1>4, <1>6, <2>1, <2>2 DEF Appends
<1>8. BufferInv(c, sb)
  <2>1. TailInv(c, sb)
    <3>1. c.buffered # <<>> => sb.at[newest(c).seg].chunks = Chunks
      BY <1>1, <1>3, <1>4, <1>5, Constants DEF BufferInv, TailInv
    <3>2. QED
      BY <3>1, <1>4 DEF TailInv
  <2>2. QED
    BY <2>1, <1>1, <1>4, <1>5 DEF BufferInv, KeptInv, ListInv, MediaInv, EndInv
<1> HIDE DEF item
<1>9. st = Proceed(c, item, newest(c))
  BY <1>3, <1>5
<1> HIDE DEF st
<1>10. hls => quota = MaxAppend[TRUE]
  BY <1>1 DEF HlsInv
<1>11. /\ Consistent(st.ctl, st.sb, st.ms, st.task)
       /\ st.task = NoTask \/ st.task.pc \in {"init", "append"}
  BY <1>1, <1>4, <1>7, <1>8, <1>9, <1>10, ProceedStep
<1>12. active
  BY <1>1, <1>2 DEF ActiveInv
<1>13. scheduled \in BOOLEAN
  BY <1>1, Typed
<1>14. /\ hls' = hls /\ last' = last /\ quota' = quota /\ time' = time /\ active' = active
       /\ UNCHANGED <<denied, calls, failures>>
  BY DEF GotSegment, Unhandled, External
<1>15. QED
  BY <1>2, <1>11, <1>12, <1>13, <1>14, Continued

(* Only the segment after the last one is not there: all of them are listed.   *)
LEMMA GotEndStep ==
    ASSUME Inductive, GotEnd
    PROVE  Inductive'
<1> DEFINE d == [ctl EXCEPT !.ended = TRUE, !.quality = NoQuality]
<1>1. /\ TypeOK /\ Consistent(ctl, sb, ms, task) /\ TaskInv(ctl, sb, task)
      /\ ActiveInv(active, sb, task) /\ ctl \in Controllers
  BY DEF Inductive, Consistent
<1>2. task.pc = "get" /\ task.item.seg >= last /\ sb' = sb
  BY DEF GotEnd
<1>3. Consistent(ctl, sb, ms, NoTask)
  BY <1>1, <1>2, TaskEnds, TaskRecords
<1>4. ms' \in MediaStates
  BY <1>1, Typed DEF GotEnd, MediaStates
<1>5. ctl' = ctl \/ ctl' = d
  BY DEF GotEnd
<1>6. ASSUME ctl' = ctl
      PROVE  Consistent(ctl', sb', ms', NoTask)
  BY <1>2, <1>3, <1>4, <1>6 DEF Consistent
<1>7. ASSUME ctl' = d
      PROVE  Consistent(ctl', sb', ms', NoTask)
  <2>1. /\ d \in Controllers /\ d.buffered = ctl.buffered /\ d.decoderId = ctl.decoderId
        /\ d.timestampOffset = ctl.timestampOffset /\ d.appendOffset = ctl.appendOffset
    BY <1>1 DEF Controllers
  <2> HIDE DEF d
  <2>2. newest(d) = newest(ctl)
    BY <2>1 DEF newest
  <2>3. EndInv(d)
    <3>1. last \in Nat /\ task.item \in Requests /\ task.item.seg \in Nat
      BY <1>1, <1>2, Typed, Constants DEF TaskInv, Requests
    <3>2. ctl.buffered # <<>>
      BY <1>1, <1>2, <3>1 DEF TaskInv
    <3>3. task.item.seg = newest(ctl).seg + 1
      BY <1>1, <1>2, <3>2 DEF TaskInv
    <3>4. newest(ctl).seg < last /\ newest(ctl).seg \in Nat
      BY <1>1, <3>2, NewestListed, Constants DEF Consistent, BufferInv, ListInv
    <3>5. newest(ctl).seg = last - 1
      BY <1>2, <3>1, <3>3, <3>4
    <3>6. QED
      BY <2>1, <2>2, <3>2, <3>5 DEF EndInv
  <2>4. BufferInv(d, sb)
    BY <1>1, <2>1, <2>2, <2>3 DEF Consistent, BufferInv, KeptInv, ListInv, MediaInv, TailInv
  <2>5. TaskInv(d, sb, NoTask) /\ HlsInv(d, NoTask)
    BY <1>3, <2>1, TaskRecords DEF Consistent, TaskInv, HlsInv
  <2>6. QED
    BY <1>2, <1>3, <1>4, <1>7, <2>1, <2>4, <2>5 DEF Consistent
<1>8. ~active => sb' = NoBuffer
  BY <1>1, <1>2 DEF ActiveInv
<1>9. /\ hls' = hls /\ last' = last /\ quota' = quota /\ time' = time /\ active' = active
      /\ UNCHANGED <<denied, calls, failures>> /\ NextTask(waiting)
      /\ scheduled' = (scheduled \/ active)
  BY DEF GotEnd, Unhandled, External
<1>10. /\ waiting \in Nat /\ denied' \subseteq Qualities /\ calls' \in 0..MaxCalls
       /\ failures' \in 0..MaxFailures[hls]
  BY <1>1, <1>9, Typed
<1>11. scheduled' \in BOOLEAN
  BY <1>1, <1>9, Typed
<1>12. Consistent(ctl', sb', ms', NoTask)
  BY <1>5, <1>6, <1>7
<1> HIDE DEF d
<1>13. QED
  BY <1>8, <1>9, <1>10, <1>11, <1>12, TaskDone

(* The init segment has been appended: the source buffer has the decoder.      *)
LEMMA InitDoneStep ==
    ASSUME Placeable, Inductive, InitDone
    PROVE  Inductive'
<1> DEFINE q == task.item.quality
           c == [ctl EXCEPT !.decoderId = q]
           s == [sb EXCEPT !.init = q]
           pl == Place(c, task.item, task.tail)
           st == [pl EXCEPT !.sb.init = q]
<1>1. /\ TypeOK /\ TaskInv(ctl, sb, task) /\ HlsInv(ctl, task) /\ BufferInv(ctl, sb)
      /\ ActiveInv(active, sb, task) /\ MediaInv(ctl, sb)
      /\ ctl \in Controllers /\ sb \in SourceBuffers
  BY DEF Inductive, Consistent, BufferInv
<1>2. task.pc = "init" /\ Continue(st, scheduled)
  BY DEF InitDone
<1>3. task.tail = newest(ctl) /\ Appends(ctl, task.item) /\ ctl.quality = q
  BY <1>1, <1>2 DEF TaskInv
<1>4. q \in Qualities
  BY <1>3 DEF Appends, Items
<1>5. /\ c \in Controllers /\ c.decoderId = q /\ c.buffered = ctl.buffered
      /\ c.appendOffset = ctl.appendOffset /\ c.timestampOffset = ctl.timestampOffset
      /\ c.ended = ctl.ended /\ c.quality = ctl.quality
  BY <1>1, <1>4 DEF Controllers
<1>6. s \in SourceBuffers /\ s.at = sb.at /\ s.offset = sb.offset /\ s.init = q
  BY <1>1, <1>4 DEF SourceBuffers
<1>7. /\ st.ctl = pl.ctl /\ st.ms = pl.ms /\ st.task = pl.task
      /\ st.sb = [pl.sb EXCEPT !.init = q]
  BY DEF Place
<1>8. s = [sb EXCEPT !.init = q]
  OBVIOUS
<1> HIDE DEF c, s
<1>9. newest(c) = newest(ctl)
  BY <1>5 DEF newest
<1>10. Appends(c, task.item)
  BY <1>3, <1>5, <1>9 DEF Appends
<1>11. BufferInv(c, s)
  BY <1>1, <1>5, <1>6, <1>9 DEF BufferInv, KeptInv, ListInv, MediaInv, TailInv, EndInv
<1>12. hls => quota = MaxAppend[TRUE]
  BY <1>1 DEF HlsInv
<1>13. pl = Place(c, task.item, newest(c))
  BY <1>3, <1>9 DEF c
<1> HIDE DEF pl, st
<1>14. /\ Consistent(pl.ctl, [pl.sb EXCEPT !.init = q], pl.ms, pl.task)
       /\ pl.task = NoTask \/ pl.task.pc = "append"
  BY <1>1, <1>3, <1>5, <1>6, <1>8, <1>10, <1>11, <1>12, <1>13, PlaceStep
<1>15. /\ Consistent(st.ctl, st.sb, st.ms, st.task)
       /\ st.task = NoTask \/ st.task.pc = "append"
  BY <1>7, <1>14
<1>16. active
  BY <1>1, <1>2 DEF ActiveInv
<1>17. scheduled \in BOOLEAN
  BY <1>1, Typed
<1>18. /\ hls' = hls /\ last' = last /\ quota' = quota /\ time' = time /\ active' = active
       /\ UNCHANGED <<denied, calls, failures>>
  BY DEF InitDone, Unhandled, External
<1>19. QED
  BY <1>2, <1>15, <1>16, <1>17, <1>18, Continued

(* A part of the next segment, or of the newest one, has been appended.        *)
LEMMA AppendDoneStep ==
    ASSUME Inductive, AppendDone
    PROVE  Inductive'
<1> DEFINE item == task.item
           n == item.seg
           first == ctl.appendOffset = 0
           offset == ctl.appendOffset + task.size
           list == IF first THEN Append(ctl.buffered, item) ELSE ctl.buffered
           from == IF task.tail = NoItem /\ first THEN item.pos ELSE ctl.from
           d == [ctl EXCEPT !.appendOffset = offset, !.buffered = list, !.from = from]
           piece == [seg |-> n, chunks |-> offset]
           t == [sb EXCEPT !.at = [@ EXCEPT ![n] = piece]]
<1>1. /\ TypeOK /\ Consistent(ctl, sb, ms, task) /\ TaskInv(ctl, sb, task)
      /\ HlsInv(ctl, task) /\ BufferInv(ctl, sb) /\ ActiveInv(active, sb, task)
      /\ ctl \in Controllers /\ sb \in SourceBuffers /\ ms \in MediaStates
  BY DEF Inductive, Consistent
<1>2. task.pc = "append"
  BY DEF AppendDone
<1>3. /\ task.tail = newest(ctl) /\ Appends(ctl, item)
      /\ sb.offset = PeriodStart[n]
      /\ task.size \in 1..(Chunks - ctl.appendOffset)
      /\ hls => task.size = Chunks
  BY <1>1, <1>2 DEF TaskInv
<1>4. /\ item \in Items /\ n \in 0..(MaxLast - 1) /\ n \in Nat /\ n < last /\ item.pos = n
      /\ n \in Positions /\ item.pos \in Positions
  BY <1>3, Constants DEF Appends, Items
<1>5. /\ ctl.appendOffset \in Nat /\ ctl.appendOffset < Chunks
      /\ offset \in 1..Chunks /\ offset \in 0..Chunks /\ offset # 0
      /\ ctl.buffered \in Seq(Items)
      /\ ctl.from \in Positions \cup {None}
  <2>1. ctl.appendOffset \in Nat /\ ctl.appendOffset < Chunks
    BY <1>1, <1>3, Constants DEF Appends, Controllers
  <2>2. offset \in 1..Chunks /\ offset \in 0..Chunks /\ offset # 0
    BY <2>1, <1>3, Constants
  <2>3. QED
    BY <2>1, <2>2, <1>1 DEF Controllers
<1>6. sb.offset + MediaStart(n) = n
  BY <1>3, <1>4, Constants DEF MediaStart
<1>7. ctl' = d /\ sb' = t /\ ms' = ms
  BY <1>6 DEF AppendDone
<1>8. /\ list \in Seq(Items) /\ Len(list) \in Nat \ {0}
      /\ list[Len(list)] = IF first THEN item ELSE newest(ctl)
      /\ \A i \in 1..Len(list) : list[i] = item \/ \E j \in 1..Len(ctl.buffered) :
            list[i] = ctl.buffered[j]
  <2>1. CASE first
    <3>1. /\ Append(ctl.buffered, item) \in Seq(Items)
          /\ Len(Append(ctl.buffered, item)) = Len(ctl.buffered) + 1
          /\ \A i \in 1..Len(ctl.buffered) : Append(ctl.buffered, item)[i] = ctl.buffered[i]
          /\ Append(ctl.buffered, item)[Len(ctl.buffered) + 1] = item
      BY <1>4, <1>5, AppendProperties
    <3>2. Len(ctl.buffered) \in Nat
      BY <1>5, LenProperties
    <3>3. list = Append(ctl.buffered, item)
      BY <2>1
    <3> HIDE DEF list, first
    <3>4. QED
      BY <3>1, <3>2, <3>3, <2>1
  <2>2. CASE ~first
    <3>1. ctl.buffered # <<>>
      BY <2>2, <1>3 DEF Appends
    <3>2. list = ctl.buffered
      BY <2>2
    <3>3. Len(ctl.buffered) \in Nat \ {0} /\ newest(ctl) = ctl.buffered[Len(ctl.buffered)]
      BY <1>5, <3>1, EmptySeq DEF newest
    <3> HIDE DEF list, first
    <3>4. QED
      BY <3>2, <3>3, <2>2, <1>5
  <2>3. QED
    BY <2>1, <2>2
<1> HIDE DEF list, from
<1>9. list # <<>>
  BY <1>8, EmptySeq
<1>10. from \in Positions \cup {None}
  BY <1>4, <1>5 DEF from
<1>11. /\ d \in Controllers /\ d.buffered = list /\ d.appendOffset = offset
       /\ d.decoderId = ctl.decoderId /\ d.timestampOffset = ctl.timestampOffset
       /\ d.ended = ctl.ended
  <2> HIDE DEF offset
  <2>1. QED
    BY <1>1, <1>5, <1>8, <1>10 DEF Controllers
<1>12. /\ t \in SourceBuffers /\ t.init = sb.init /\ t.offset = sb.offset
       /\ t.at[n] = piece /\ piece.seg = n /\ piece.chunks = offset /\ piece # NoMedia
       /\ \A p \in Positions : p # n => t.at[p] = sb.at[p]
  <2>1. piece \in [seg : 0..(MaxLast - 1), chunks : 1..Chunks]
        /\ piece.seg = n /\ piece.chunks = offset
    BY <1>4, <1>5
  <2>2. piece # NoMedia
    BY <2>1, <1>5, Media
  <2> HIDE DEF piece
  <2>3. QED
    BY <2>1, <2>2, <1>1, <1>4 DEF SourceBuffers
<1>13. ctl.buffered # <<>> => /\ newest(ctl).seg \in Nat
                              /\ newest(ctl).seg \in Positions
                              /\ sb.at[newest(ctl).seg].chunks =
                                    IF first THEN Chunks ELSE ctl.appendOffset
                              /\ newest(ctl).pos = newest(ctl).seg
                              /\ n = newest(ctl).seg \/ (first /\ n = newest(ctl).seg + 1)
  <2>1. ctl.buffered # <<>> => /\ newest(ctl).seg \in Nat
                               /\ newest(ctl).seg \in Positions
    BY <1>1, NewestListed, Constants
  <2>2. ctl.buffered # <<>> => /\ sb.at[newest(ctl).seg].chunks =
                                    IF first THEN Chunks ELSE ctl.appendOffset
                               /\ newest(ctl).pos = newest(ctl).seg
    BY <1>1, NewestListed DEF BufferInv, ListInv, TailInv
  <2>3. ctl.buffered # <<>> => n = newest(ctl).seg \/ (first /\ n = newest(ctl).seg + 1)
    BY <1>3 DEF Appends
  <2>4. QED
    BY <2>1, <2>2, <2>3
<1>14. ctl.buffered = <<>> => first
  BY <1>3 DEF Appends
<1>15. newest(d) = IF first THEN item ELSE newest(ctl)
  BY <1>8, <1>9, <1>11 DEF newest
<1>16. newest(d).seg = n /\ d.buffered # <<>>
  BY <1>9, <1>11, <1>13, <1>14, <1>15
<1> HIDE DEF d, t, piece
<1>17. KeptInv(d, t)
  BY <1>1, <1>11, <1>12 DEF BufferInv, KeptInv
<1>18. ListInv(d, t)
  <2>1. ASSUME NEW i \in 1..Len(d.buffered)
        PROVE  /\ d.buffered[i].pos = d.buffered[i].seg
               /\ t.at[d.buffered[i].seg] # NoMedia
               /\ d.buffered[i].seg < last
    <3>1. CASE d.buffered[i] = item
      BY <3>1, <1>4, <1>12
    <3>2. CASE d.buffered[i] # item
      <4>1. PICK j \in 1..Len(ctl.buffered) : d.buffered[i] = ctl.buffered[j]
        BY <3>2, <2>1, <1>8, <1>11
      <4>2. ctl.buffered[j] \in Items
        BY <1>5, ElementOfSeq
      <4>3. ctl.buffered[j].seg \in Positions
        BY <4>2, Constants DEF Items
      <4>4. /\ ctl.buffered[j].pos = ctl.buffered[j].seg
            /\ sb.at[ctl.buffered[j].seg] # NoMedia
            /\ ctl.buffered[j].seg < last
        BY <1>1 DEF BufferInv, ListInv
      <4>5. t.at[ctl.buffered[j].seg] # NoMedia
        BY <4>3, <4>4, <1>12
      <4>6. QED
        BY <4>1, <4>4, <4>5
    <3>3. QED
      BY <3>1, <3>2
  <2>2. QED
    BY <2>1, <1>16 DEF ListInv
<1>19. MediaInv(d, t)
  <2>1. ASSUME NEW p \in Positions, t.at[p] # NoMedia
        PROVE  /\ t.at[p].seg = p
               /\ p <= n
               /\ p < n => t.at[p].chunks = Chunks /\ t.at[p + 1] # NoMedia
    <3>1. p \in Nat
      BY Constants
    <3>2. CASE p = n
      BY <3>1, <3>2, <1>12
    <3>3. CASE p # n
      <4>1. t.at[p] = sb.at[p]
        BY <3>3, <1>12
      <4>2. /\ sb.at[p].seg = p
            /\ ctl.buffered # <<>> /\ p <= newest(ctl).seg
            /\ p < newest(ctl).seg => sb.at[p].chunks = Chunks /\ sb.at[p + 1] # NoMedia
        BY <2>1, <4>1, <1>1 DEF BufferInv, MediaInv
      <4>3. p < n
        BY <3>1, <3>3, <4>2, <1>4, <1>13
      <4>4. sb.at[p].chunks = Chunks
        BY <3>1, <3>3, <4>2, <1>4, <1>13
      <4>5. t.at[p + 1] # NoMedia
        <5>1. CASE p + 1 = n
          BY <5>1, <1>12
        <5>2. CASE p + 1 # n
          <6>1. p < newest(ctl).seg
            BY <3>1, <3>3, <4>2, <5>2, <1>4, <1>13
          <6>2. p + 1 \in Positions
            BY <3>1, <4>3, <1>4, Constants
          <6>3. QED
            BY <4>2, <5>2, <6>1, <6>2, <1>12
        <5>3. QED
          BY <5>1, <5>2
      <4>6. t.at[p].seg = p /\ t.at[p].chunks = Chunks
        BY <4>1, <4>2, <4>4
      <4>7. p <= n
        BY <3>1, <4>3, <1>4
      <4>8. QED
        BY <4>5, <4>6, <4>7
    <3>4. QED
      BY <3>2, <3>3
  <2>2. QED
    BY <2>1, <1>16 DEF MediaInv
<1>20. TailInv(d, t)
  <2>1. t.at[newest(d).seg].chunks = offset /\ d.appendOffset = offset /\ offset # 0
    BY <1>5, <1>11, <1>12, <1>16
  <2>2. t.offset = PeriodStart[newest(d).seg]
    BY <1>3, <1>12, <1>16
  <2> HIDE DEF offset
  <2>3. QED
    BY <2>1, <2>2 DEF TailInv
<1>21. EndInv(d)
  <2>1. ctl.ended /\ last = Static => ctl.buffered # <<>> /\ newest(ctl).seg = last - 1
    BY <1>1 DEF BufferInv, EndInv
  <2>2. last \in Nat
    BY <1>1, Typed
  <2>3. ctl.ended /\ last = Static => n = last - 1
    BY <2>1, <2>2, <1>4, <1>13
  <2>4. QED
    BY <2>3, <1>11, <1>16 DEF EndInv
<1>22. HlsInv(d, NoTask)
  <2>1. hls => quota = MaxAppend[TRUE]
    BY <1>1 DEF HlsInv
  <2>2. hls => first /\ task.size = Chunks
    BY <1>3 DEF Appends
  <2>3. hls => offset = Chunks
    BY <2>2, Constants
  <2>4. QED
    BY <2>1, <2>3, <1>11 DEF HlsInv
<1>23. Consistent(d, t, ms, NoTask)
  <2>1. TaskInv(d, t, NoTask) /\ NoTask \in Tasks
    BY TaskRecords DEF TaskInv, Idle
  <2>2. QED
    BY <2>1, <1>1, <1>11, <1>12, <1>17, <1>18, <1>19, <1>20, <1>21, <1>22
       DEF Consistent, BufferInv
<1>24. active
  BY <1>1, <1>2 DEF ActiveInv
<1>25. /\ hls' = hls /\ last' = last /\ quota' = quota /\ time' = time /\ active' = active
       /\ UNCHANGED <<denied, calls, failures>> /\ NextTask(waiting)
       /\ scheduled' = (scheduled \/ active)
  BY DEF AppendDone, Unhandled, External
<1>26. /\ waiting \in Nat /\ denied' \subseteq Qualities /\ calls' \in 0..MaxCalls
       /\ failures' \in 0..MaxFailures[hls]
  BY <1>1, <1>25, Typed
<1>27. scheduled' \in BOOLEAN
  BY <1>24, <1>25
<1>28. QED
  BY <1>7, <1>23, <1>24, <1>25, <1>26, <1>27, TaskDone

(* A clear is done, or the task has seen that it was aborted.                  *)
LEMMA ClearDoneStep ==
    ASSUME Inductive, ClearDone
    PROVE  Inductive'
<1>1. /\ TypeOK /\ Consistent(ctl, sb, ms, task) /\ HlsInv(ctl, task)
      /\ ActiveInv(active, sb, task)
      /\ ctl \in Controllers /\ sb \in SourceBuffers /\ ms \in MediaStates
  BY DEF Inductive, Consistent
<1>2. Reset0(resetBufferedState(ctl)) /\ ctl' = resetBufferedState(ctl)
  BY <1>1, ResetState DEF ClearDone
<1>3. sb' \in SourceBuffers /\ \A p \in Positions : sb'.at[p] = NoMedia
  <2>1. CASE active
    <3>1. EmptyMedia \in [Positions -> {NoMedia}] /\ \A p \in Positions : EmptyMedia[p] = NoMedia
      BY Media
    <3>2. sb' = [sb EXCEPT !.at = EmptyMedia]
      BY <2>1 DEF ClearDone
    <3>3. sb' \in SourceBuffers /\ sb'.at = EmptyMedia
      BY <1>1, <3>1, <3>2 DEF SourceBuffers
    <3>4. QED
      BY <3>1, <3>3
  <2>2. CASE ~active
    <3>1. sb' = NoBuffer
      BY <2>2, <1>1 DEF ClearDone, ActiveInv
    <3>2. QED
      BY <3>1, Media
  <2>3. QED
    BY <2>1, <2>2
<1>4. ms' \in MediaStates
  BY <1>1 DEF ClearDone, Reopened, MediaStates
<1>5. Consistent(ctl', sb', ms', NoTask)
  BY <1>1, <1>2, <1>3, <1>4, Cleared, TaskRecords DEF HlsInv
<1>6. ~active => sb' = NoBuffer
  BY <1>1 DEF ClearDone, ActiveInv
<1>7. /\ hls' = hls /\ last' = last /\ quota' = quota /\ time' = time /\ active' = active
      /\ UNCHANGED <<denied, calls, failures>> /\ NextTask(waiting)
      /\ scheduled' = (scheduled \/ active)
  BY DEF ClearDone, Unhandled, External
<1>8. /\ waiting \in Nat /\ denied' \subseteq Qualities /\ calls' \in 0..MaxCalls
      /\ failures' \in 0..MaxFailures[hls] /\ scheduled' \in BOOLEAN
  BY <1>1, <1>7, Typed
<1>9. QED
  BY <1>5, <1>6, <1>7, <1>8, TaskDone

(* An aborted append or clear comes to its finally.                            *)
LEMMA AbortedStep ==
    ASSUME Inductive, Aborted
    PROVE  Inductive'
<1>1. /\ TypeOK /\ Consistent(ctl, sb, ms, task) /\ HlsInv(ctl, task)
      /\ ActiveInv(active, sb, task)
      /\ ctl \in Controllers /\ sb \in SourceBuffers /\ ms \in MediaStates
  BY DEF Inductive, Consistent
<1>2. task.pc \in {"aborted", "abortedClear"} /\ sb' = sb /\ ms' = ms
  BY DEF Aborted, Settling
<1>3. Consistent(ctl', sb', ms', NoTask)
  <2>1. CASE task.pc = "abortedClear"
    <3>1. Reset0(resetBufferedState(ctl)) /\ ctl' = resetBufferedState(ctl)
      BY <2>1, <1>1, ResetState DEF Aborted
    <3>2. sb' = NoBuffer
      BY <2>1, <1>1, <1>2 DEF ActiveInv
    <3>3. QED
      BY <3>1, <3>2, <1>1, <1>2, NoBufferCleared, TaskRecords DEF HlsInv
  <2>2. CASE task.pc = "aborted"
    <3>1. ctl' = ctl
      BY <2>2 DEF Aborted
    <3>2. Consistent(ctl, sb, ms, NoTask)
      BY <2>2, <1>1, TaskEnds, TaskRecords
    <3>3. QED
      BY <3>1, <3>2, <1>2
  <2>3. QED
    BY <2>1, <2>2, <1>2
<1>4. ~active => sb' = NoBuffer
  BY <1>1, <1>2 DEF ActiveInv
<1>5. /\ hls' = hls /\ last' = last /\ quota' = quota /\ time' = time /\ active' = active
      /\ UNCHANGED <<denied, calls, failures>> /\ NextTask(waiting)
      /\ scheduled' = (scheduled \/ active)
  BY DEF Aborted, Unhandled, External
<1>6. /\ waiting \in Nat /\ denied' \subseteq Qualities /\ calls' \in 0..MaxCalls
      /\ failures' \in 0..MaxFailures[hls] /\ scheduled' \in BOOLEAN
  BY <1>1, <1>5, Typed
<1>7. QED
  BY <1>3, <1>4, <1>5, <1>6, TaskDone

------------------------------------------------------------------------------
\* Failures

(* An append, an initialization or a decoder fails.                            *)
LEMMA FailStep ==
    ASSUME Placeable, Inductive, \/ Fail
                                 \/ QuotaExceeded
                                 \/ DecodeError
    PROVE  Inductive'
<1>1. /\ TypeOK /\ Consistent(ctl, sb, ms, task) /\ HlsInv(ctl, task)
      /\ ActiveInv(active, sb, task)
      /\ ctl \in Controllers /\ sb \in SourceBuffers /\ ms \in MediaStates
  BY DEF Inductive, Consistent
<1>2. /\ task.pc \in {"get", "init", "append"} /\ failures < MaxFailures[hls]
      /\ failures' = failures + 1
  BY DEF Fail, QuotaExceeded, DecodeError, Failing
<1>3. failures' \in 0..MaxFailures[hls] /\ ~hls /\ active
  <2>1. failures \in Nat /\ hls \in Hls /\ hls \in BOOLEAN /\ MaxFailures[hls] \in Nat
    BY <1>1, Typed, Constants
  <2>2. failures' \in 0..MaxFailures[hls] /\ MaxFailures[hls] # 0
    BY <1>2, <2>1
  <2>3. ~hls
    <3>1. hls = TRUE => TRUE \in Hls /\ MaxFailures[hls] = MaxFailures[TRUE]
      BY <2>1
    <3>2. QED
      BY <2>1, <2>2, <3>1 DEF Placeable
  <2>4. QED
    BY <1>1, <1>2, <2>2, <2>3 DEF ActiveInv
<1>4. Consistent(ctl, sb, ms, NoTask)
  BY <1>1, <1>3, TaskEnds, TaskRecords
<1>5. waiting \in Nat /\ waiting + 1 \in Nat /\ calls \in 0..MaxCalls /\ denied \subseteq Qualities
  BY <1>1, Typed
<1>6. CASE FailFatally
  <2> DEFINE d == [ctl EXCEPT !.error = TRUE]
  <2>1. ctl' = d /\ sb' = sb /\ ms' = ms
    BY <1>6 DEF FailFatally
  <2>2. /\ d \in Controllers /\ d.buffered = ctl.buffered /\ d.decoderId = ctl.decoderId
        /\ d.timestampOffset = ctl.timestampOffset /\ d.appendOffset = ctl.appendOffset
        /\ d.ended = ctl.ended /\ d.quality = ctl.quality
    BY <1>1 DEF Controllers
  <2> HIDE DEF d
  <2>3. Consistent(d, sb, ms, NoTask)
    BY <1>1, <1>4, <2>2, Flagged
  <2>4. Consistent(ctl', sb', ms', NoTask)
    BY <2>1, <2>3
  <2>5. /\ hls' = hls /\ last' = last /\ quota' = quota /\ time' = time /\ active' = active
        /\ denied' = denied /\ calls' = calls /\ NextTask(waiting)
        /\ scheduled' = (scheduled \/ active)
    BY <1>6 DEF FailFatally, Unhandled, External
  <2>6. scheduled' \in BOOLEAN
    BY <1>3, <2>5
  <2>7. denied' \subseteq Qualities /\ calls' \in 0..MaxCalls
    BY <1>5, <2>5
  <2>8. QED
    BY <1>3, <1>5, <2>4, <2>5, <2>6, <2>7, TaskDone
<1>7. CASE QuotaExceeded /\ quota > MinAppend
  <2>1. /\ hls' = hls /\ last' = last /\ quota' = quota - 1 /\ time' = time
        /\ active' = active /\ denied' = denied /\ calls' = calls /\ NextTask(waiting + 1)
        /\ scheduled' = (scheduled \/ active)
        /\ ctl' = ctl /\ sb' = sb /\ ms' = ms
    BY <1>7 DEF QuotaExceeded, External
  <2>2. Idle(task') /\ task'.pc # "none" /\ waiting' \in Nat
    BY <1>5, <2>1, TaskRecords DEF NextTask
  <2>3. Consistent(ctl, sb, ms, task')
    BY <1>4, <2>2, TaskEnds, <1>3
  <2>4. task' \in Tasks /\ scheduled' \in BOOLEAN
    BY <1>3, <2>1, <2>2 DEF Idle
  <2>5. quota' \in MinAppend..MaxAppend[hls]
    <3>1. quota \in MinAppend..MaxAppend[hls] /\ hls \in Hls
      BY <1>1 DEF TypeOK
    <3>2. QED
      BY <1>7, <2>1, <3>1, Constants
  <2>6. TypeOK'
    BY <1>1, <1>3, <2>1, <2>2, <2>4, <2>5 DEF TypeOK
  <2>7. Consistent(ctl, sb, ms, task)'
    <3>1. BufferInv(ctl, sb)'
      BY <2>1, <2>3 DEF Consistent, BufferInv, KeptInv, ListInv, MediaInv, TailInv, EndInv, newest
    <3>2. TaskInv(ctl, sb, task)' /\ HlsInv(ctl, task)'
      BY <1>3, <2>1, <2>2 DEF Idle, TaskInv, HlsInv
    <3>3. QED
      BY <1>1, <2>1, <2>4, <3>1, <3>2 DEF Consistent
  <2>8. ActiveInv(active, sb, task)'
    BY <1>3, <2>1, TaskRecords DEF NextTask, ActiveInv
  <2>9. QED
    BY <2>6, <2>7, <2>8 DEF Inductive
<1>8. CASE DecodeError /\ ctl.quality \notin denied
  <2>1. /\ hls' = hls /\ last' = last /\ quota' = quota /\ time' = time /\ active' = active
        /\ denied' = denied \cup {ctl.quality} /\ calls' = calls /\ NextTask(waiting)
        /\ scheduled' = TRUE /\ Deactivated
    BY <1>8 DEF DecodeError, External
  <2>2. ctl' = resetBufferedState(ctl) /\ sb' = NoBuffer /\ ms' = "closed"
    BY <2>1 DEF Deactivated
  <2>3. Consistent(ctl', sb', ms', NoTask)
    BY <1>1, <2>2, ResetState, NoBufferCleared, TaskRecords DEF HlsInv, MediaStates
  <2>4. ctl.quality \in Qualities
    <3>1. task.pc \in {"init", "append"}
      BY <1>8 DEF DecodeError, Failing
    <3>2. Appends(ctl, task.item) /\ ctl.quality = task.item.quality
      BY <1>1, <3>1 DEF Consistent, TaskInv
    <3>3. QED
      BY <3>2 DEF Appends, Items
  <2>5. denied' \subseteq Qualities /\ calls' \in 0..MaxCalls /\ scheduled' \in BOOLEAN
    BY <1>5, <2>1, <2>4
  <2>6. QED
    BY <1>3, <1>5, <2>1, <2>3, <2>5, TaskDone
<1>9. QED
  <2>1. CASE Fail
    BY <2>1, <1>6 DEF Fail
  <2>2. CASE QuotaExceeded
    BY <2>2, <1>6, <1>7 DEF QuotaExceeded
  <2>3. CASE DecodeError
    BY <2>3, <1>6, <1>8 DEF DecodeError
  <2>4. QED
    BY <2>1, <2>2, <2>3

------------------------------------------------------------------------------
\* Calls and events from outside

(* A call is counted.                                                          *)
LEMMA Counted ==
    ASSUME TypeOK, calls < MaxCalls, calls' = calls + 1
    PROVE  calls' \in 0..MaxCalls
<1>1. calls \in 0..MaxCalls /\ MaxCalls \in Nat
  BY Typed, BufferingAssumption
<1>2. QED
  BY <1>1

(* activate (BufferingController.ts).                                          *)
LEMMA ActivateStep ==
    ASSUME Inductive, Activate
    PROVE  Inductive'
<1>1. /\ TypeOK /\ Consistent(ctl, sb, ms, task) /\ ActiveInv(active, sb, task)
  BY DEF Inductive
<1>2. /\ UNCHANGED <<hls, last, time, ctl, task, waiting, scheduled, ms, sb, quota, denied,
                     failures>>
      /\ active' = TRUE /\ calls < MaxCalls /\ calls' = calls + 1
      /\ task.pc # "abortedClear"
  BY DEF Activate, Call, Settling
<1>3. calls' \in 0..MaxCalls
  BY <1>1, <1>2, Counted
<1>4. Consistent(ctl', sb', ms', task') /\ ActiveInv(active', sb', task')
  BY <1>1, <1>2 DEF ActiveInv
<1>5. /\ time' \in 0..(last - 1) /\ active' \in BOOLEAN /\ scheduled' \in BOOLEAN
      /\ waiting' \in Nat /\ (waiting' > 0 => task'.pc # "none")
      /\ denied' \subseteq Qualities /\ failures' \in 0..MaxFailures[hls]
  BY <1>1, <1>2, Typed
<1>6. QED
  BY <1>2, <1>3, <1>4, <1>5, Framed

(* The source buffer is given up, and what runs is aborted.                    *)
LEMMA DeactivateStep ==
    ASSUME Inductive, Deactivate \/ HardReset
    PROVE  Inductive'
<1>1. /\ TypeOK /\ Consistent(ctl, sb, ms, task) /\ HlsInv(ctl, task)
      /\ ActiveInv(active, sb, task) /\ ctl \in Controllers /\ task \in Tasks
  BY DEF Inductive, Consistent
<1>2. /\ UNCHANGED <<hls, last, time, waiting, scheduled, quota, denied, failures>>
      /\ active' \in BOOLEAN /\ calls < MaxCalls /\ calls' = calls + 1
      /\ Deactivated /\ task' = AbortedTask
  BY <1>1, Typed DEF Deactivate, HardReset, Call
<1>3. calls' \in 0..MaxCalls
  BY <1>1, <1>2, Counted
<1>4. ctl' = resetBufferedState(ctl) /\ sb' = NoBuffer /\ ms' = "closed"
  BY <1>2 DEF Deactivated
<1>5. Idle(task') /\ (task'.pc = "none" <=> task.pc = "none")
  <2>1. CASE task.pc = "none"
    BY <2>1, <1>2, TaskRecords DEF AbortedTask
  <2>2. CASE task.pc \in {"remove", "abortedClear"}
    BY <2>2, <1>2, TaskRecords DEF AbortedTask
  <2>3. CASE task.pc \notin {"none", "remove", "abortedClear"}
    BY <2>3, <1>2, TaskRecords DEF AbortedTask
  <2>4. QED
    BY <2>1, <2>2, <2>3
<1>6. Consistent(ctl', sb', ms', task')
  BY <1>1, <1>4, <1>5, ResetState, NoBufferCleared DEF HlsInv, MediaStates
<1>7. ActiveInv(active', sb', task')
  BY <1>4, <1>5 DEF ActiveInv, Idle
<1>8. /\ time' \in 0..(last - 1) /\ scheduled' \in BOOLEAN
      /\ waiting' \in Nat /\ (waiting' > 0 => task'.pc # "none")
      /\ denied' \subseteq Qualities /\ failures' \in 0..MaxFailures[hls]
  BY <1>1, <1>2, <1>5, Typed
<1>9. QED
  BY <1>2, <1>3, <1>6, <1>7, <1>8, Framed

(* clear (BufferingController.ts): what is under way is aborted.               *)
LEMMA ClearStep ==
    ASSUME Inductive, Clear
    PROVE  Inductive'
<1>1. /\ TypeOK /\ Consistent(ctl, sb, ms, task) /\ ActiveInv(active, sb, task)
  BY DEF Inductive
<1>2. /\ UNCHANGED <<hls, last, time, active, ctl, scheduled, ms, sb, quota, denied, failures>>
      /\ calls < MaxCalls /\ calls' = calls + 1 /\ clear /\ active
      /\ task.pc # "abortedClear"
  BY DEF Clear, Call, Settling
<1>3. calls' \in 0..MaxCalls
  BY <1>1, <1>2, Counted
<1>4. /\ Consistent(ctl, sb, ms, task') /\ task'.pc # "abortedClear" /\ task'.pc # "none"
      /\ waiting' \in Nat
  <2>1. CASE task.pc = "none"
    <3>1. task' = ClearTask /\ waiting' = waiting
      BY <2>1, <1>2 DEF clear
    <3>2. QED
      BY <2>1, <3>1, <1>1, TaskEnds, TaskRecords, Typed
  <2>2. CASE task.pc = "get"
    <3>1. task' = [task EXCEPT !.pc = "aborted"] /\ waiting' = waiting + 1
      BY <2>2, <1>2 DEF clear
    <3>2. Idle(task') /\ task'.pc = "aborted"
      BY <3>1, <1>1, Typed DEF Idle, Tasks
    <3>3. QED
      BY <2>2, <3>1, <3>2, <1>1, TaskEnds, Typed
  <2>3. CASE task.pc \notin {"none", "get"}
    <3>1. task' = task /\ waiting' = waiting + 1
      BY <2>3, <1>2 DEF clear
    <3>2. QED
      BY <2>3, <3>1, <1>1, <1>2, Typed
  <2>4. QED
    BY <2>1, <2>2, <2>3
<1>5. Consistent(ctl', sb', ms', task') /\ ActiveInv(active', sb', task')
  BY <1>1, <1>2, <1>4 DEF ActiveInv
<1>6. /\ time' \in 0..(last - 1) /\ active' \in BOOLEAN /\ scheduled' \in BOOLEAN
      /\ denied' \subseteq Qualities /\ failures' \in 0..MaxFailures[hls]
  BY <1>1, <1>2, Typed
<1>7. QED
  BY <1>2, <1>3, <1>4, <1>5, <1>6, Framed

(* A seek and reset() leave all but the flags as it is.                        *)
LEMMA SeekStep ==
    ASSUME Inductive, NEW p, Seek(p)
    PROVE  Inductive'
<1> DEFINE d == [ctl EXCEPT !.reopen = active \/ @]
<1>1. /\ TypeOK /\ Consistent(ctl, sb, ms, task) /\ ActiveInv(active, sb, task)
      /\ ctl \in Controllers
  BY DEF Inductive, Consistent
<1>2. /\ UNCHANGED <<hls, last, active, task, waiting, ms, sb, quota, denied, failures>>
      /\ calls < MaxCalls /\ calls' = calls + 1
      /\ p \in 0..(last - 1) /\ time' = p /\ ctl' = d
      /\ scheduled' = (scheduled \/ active)
  BY DEF Seek, Call
<1>3. calls' \in 0..MaxCalls
  BY <1>1, <1>2, Counted
<1>4. /\ d \in Controllers /\ d.buffered = ctl.buffered /\ d.decoderId = ctl.decoderId
      /\ d.timestampOffset = ctl.timestampOffset /\ d.appendOffset = ctl.appendOffset
      /\ d.ended = ctl.ended /\ d.quality = ctl.quality
  <2>1. (active \/ ctl.reopen) \in BOOLEAN
    OBVIOUS
  <2>2. QED
    BY <1>1, <2>1 DEF Controllers
<1> HIDE DEF d
<1>5. Consistent(d, sb, ms, task)
  BY <1>1, <1>4, Flagged
<1>6. Consistent(ctl', sb', ms', task') /\ ActiveInv(active', sb', task')
  BY <1>1, <1>2, <1>5
<1>7. time' \in 0..(last - 1) /\ scheduled' \in BOOLEAN
  BY <1>2
<1>8. /\ waiting' \in Nat /\ (waiting' > 0 => task'.pc # "none") /\ active' \in BOOLEAN
      /\ denied' \subseteq Qualities /\ failures' \in 0..MaxFailures[hls]
  BY <1>1, <1>2, Typed
<1>9. QED
  BY <1>2, <1>3, <1>6, <1>7, <1>8, Framed

(* reset (BufferingController.ts) forgets the error.                           *)
LEMMA ResetStep ==
    ASSUME Inductive, Reset
    PROVE  Inductive'
<1> DEFINE d == [ctl EXCEPT !.error = FALSE]
<1>1. /\ TypeOK /\ Consistent(ctl, sb, ms, task) /\ ActiveInv(active, sb, task)
      /\ ctl \in Controllers
  BY DEF Inductive, Consistent
<1>2. /\ UNCHANGED <<hls, last, time, active, task, waiting, ms, sb, quota, denied, failures>>
      /\ calls < MaxCalls /\ calls' = calls + 1 /\ ctl' = d
      /\ scheduled' = (scheduled \/ active)
  BY DEF Reset, Call
<1>3. calls' \in 0..MaxCalls
  BY <1>1, <1>2, Counted
<1>4. /\ d \in Controllers /\ d.buffered = ctl.buffered /\ d.decoderId = ctl.decoderId
      /\ d.timestampOffset = ctl.timestampOffset /\ d.appendOffset = ctl.appendOffset
      /\ d.ended = ctl.ended /\ d.quality = ctl.quality
  BY <1>1 DEF Controllers
<1> HIDE DEF d
<1>5. Consistent(d, sb, ms, task)
  BY <1>1, <1>4, Flagged
<1>6. Consistent(ctl', sb', ms', task') /\ ActiveInv(active', sb', task')
  BY <1>1, <1>2, <1>5
<1>7. scheduled' \in BOOLEAN
  BY <1>2
<1>8. /\ waiting' \in Nat /\ (waiting' > 0 => task'.pc # "none") /\ active' \in BOOLEAN
      /\ time' \in 0..(last - 1)
      /\ denied' \subseteq Qualities /\ failures' \in 0..MaxFailures[hls]
  BY <1>1, <1>2, Typed
<1>9. QED
  BY <1>2, <1>3, <1>6, <1>7, <1>8, Framed

(* What is listed and requested stays within a timeline that grows.            *)
LEMMA ChangeStep ==
    ASSUME Inductive, Change
    PROVE  Inductive'
<1> DEFINE d == [ctl EXCEPT !.reopen = active \/ @]
<1>1. /\ TypeOK /\ Consistent(ctl, sb, ms, task) /\ ActiveInv(active, sb, task)
      /\ ctl \in Controllers
  BY DEF Inductive, Consistent
<1>2. /\ UNCHANGED <<hls, time, active, task, waiting, ms, sb, quota, denied, failures>>
      /\ calls < MaxCalls /\ calls' = calls + 1
      /\ last < MaxLast /\ last' = last + 1 /\ ctl' = d
      /\ scheduled' = (scheduled \/ active)
  BY DEF Change, Call
<1>3. calls' \in 0..MaxCalls
  BY <1>1, <1>2, Counted
<1>4. /\ d \in Controllers /\ d.buffered = ctl.buffered /\ d.decoderId = ctl.decoderId
      /\ d.timestampOffset = ctl.timestampOffset /\ d.appendOffset = ctl.appendOffset
      /\ d.ended = ctl.ended /\ d.quality = ctl.quality
  <2>1. (active \/ ctl.reopen) \in BOOLEAN
    OBVIOUS
  <2>2. QED
    BY <1>1, <2>1 DEF Controllers
<1> HIDE DEF d
<1>5. Consistent(d, sb, ms, task)
  BY <1>1, <1>4, Flagged
<1>6. /\ last \in Nat /\ last >= Static /\ last' \in Static..MaxLast /\ last' # Static
      /\ \A n \in Int : n < last => n < last'
  BY <1>1, <1>2, Typed, Constants
<1>7. TypeOK'
  <2>1. time' \in 0..(last' - 1)
    BY <1>1, <1>2, <1>6, Typed
  <2>2. scheduled' \in BOOLEAN
    BY <1>2
  <2>3. QED
    BY <1>1, <1>2, <1>3, <1>4, <1>6, <2>1, <2>2 DEF TypeOK
<1>8. BufferInv(ctl, sb)'
  <2>1. (KeptInv(ctl, sb) /\ MediaInv(ctl, sb) /\ TailInv(ctl, sb))'
    BY <1>2, <1>5 DEF Consistent, BufferInv, KeptInv, MediaInv, TailInv, newest
  <2>2. ListInv(ctl, sb)'
    <3>1. \A i \in 1..Len(d.buffered) : d.buffered[i].seg \in Int
      <4>1. d.buffered \in Seq(Items)
        BY <1>4 DEF Controllers
      <4>2. \A i \in 1..Len(d.buffered) : d.buffered[i] \in Items
        BY <4>1, ElementOfSeq
      <4>3. QED
        BY <4>2, Constants DEF Items
    <3>2. QED
      BY <1>2, <1>5, <1>6, <3>1 DEF Consistent, BufferInv, ListInv
  <2>3. EndInv(ctl)'
    BY <1>2, <1>6 DEF EndInv
  <2>4. QED
    BY <2>1, <2>2, <2>3 DEF BufferInv
<1>9. TaskInv(ctl, sb, task)'
  <2>1. \A i \in Items \cup Requests : i.seg \in Int
    BY Constants DEF Items, Requests
  <2>2. ASSUME NEW i, Appends(d, i)
        PROVE  Appends(ctl, i)'
    <3>1. i \in Items /\ i.seg < last'
      BY <1>6, <2>1, <2>2 DEF Appends
    <3>2. newest(ctl)' = newest(d)
      BY <1>2 DEF newest
    <3>3. QED
      BY <1>2, <2>2, <3>1, <3>2 DEF Appends
  <2>3. TaskInv(d, sb, task)
    BY <1>5 DEF Consistent
  <2>4. newest(ctl)' = newest(d)
    BY <1>2 DEF newest
  <2>5. task.pc = "get" => task.item \in Requests /\ (d.buffered = <<>> => task.item.seg < last')
    BY <1>6, <2>1, <2>3 DEF TaskInv
  <2>6. QED
    BY <1>2, <2>2, <2>3, <2>4, <2>5 DEF TaskInv
<1>10. HlsInv(ctl, task)' /\ ActiveInv(active, sb, task)'
  BY <1>1, <1>2, <1>5 DEF Consistent, HlsInv, ActiveInv
<1>11. QED
  BY <1>1, <1>2, <1>4, <1>5, <1>7, <1>8, <1>9, <1>10 DEF Inductive, Consistent

(* The media source opens, or the playhead moves on.                           *)
LEMMA SourceStep ==
    ASSUME Inductive, SourceOpen \/ Advance
    PROVE  Inductive'
<1>1. /\ TypeOK /\ Consistent(ctl, sb, ms, task) /\ ActiveInv(active, sb, task)
  BY DEF Inductive
<1>2. /\ UNCHANGED <<hls, last, active, ctl, task, waiting, sb, quota, denied, calls, failures>>
      /\ ms' \in {ms, "open"} /\ time' \in {time, time + 1}
      /\ time' # time => time < last - 1
      /\ scheduled' \in {TRUE, (scheduled \/ active)}
  BY DEF SourceOpen, Advance
<1>3. Consistent(ctl', sb', ms', task') /\ ActiveInv(active', sb', task')
  BY <1>1, <1>2 DEF Consistent, MediaStates
<1>4. time' \in 0..(last - 1)
  BY <1>1, <1>2, Typed
<1>5. scheduled' \in BOOLEAN
  BY <1>2
<1>6. /\ waiting' \in Nat /\ (waiting' > 0 => task'.pc # "none") /\ active' \in BOOLEAN
      /\ denied' \subseteq Qualities /\ failures' \in 0..MaxFailures[hls]
      /\ calls' \in 0..MaxCalls
  BY <1>1, <1>2, Typed
<1>7. QED
  BY <1>2, <1>3, <1>4, <1>5, <1>6, Framed

------------------------------------------------------------------------------
\* The theorems

(* The invariant holds initially.                                              *)
LEMMA InitialState ==
    ASSUME Init
    PROVE  Inductive
<1>1. /\ Reset0(Fresh) /\ Idle(NoTask) /\ NoBuffer \in SourceBuffers
      /\ NoTask.pc = "none" /\ Fresh \in Controllers /\ NoTask \in Tasks
  BY FreshIsReset, TaskRecords, Media DEF Reset0, Idle
<1>2. TypeOK
  <2>1. last \in Static..MaxLast /\ time \in 0..(last - 1) /\ calls \in 0..MaxCalls
    BY Constants, BufferingAssumption DEF Init
  <2>2. quota \in MinAppend..MaxAppend[hls] /\ failures \in 0..MaxFailures[hls]
    BY Constants DEF Init
  <2>3. hls \in Hls /\ active \in BOOLEAN /\ scheduled \in BOOLEAN /\ denied \subseteq Qualities
    BY DEF Init
  <2>4. /\ ctl \in Controllers /\ task \in Tasks /\ sb \in SourceBuffers
        /\ ms \in {"closed", "open", "ended"}
    BY <1>1 DEF Init
  <2>5. waiting \in Nat /\ (waiting > 0 => task.pc # "none")
    BY DEF Init
  <2>6. QED
    BY <2>1, <2>2, <2>3, <2>4, <2>5 DEF TypeOK
<1>3. hls \in BOOLEAN
  BY <1>2, Typed
<1>4. hls => quota = MaxAppend[TRUE]
  <2>1. quota = MaxAppend[hls]
    BY DEF Init
  <2>2. CASE hls = TRUE
    BY <2>1, <2>2
  <2>3. CASE hls = FALSE
    BY <2>3
  <2>4. QED
    BY <1>3, <2>2, <2>3
<1>5. Consistent(ctl, sb, ms, task)
  BY <1>1, <1>4, NoBufferCleared DEF Init, MediaStates
<1>6. ActiveInv(active, sb, task)
  BY <1>1 DEF Init, ActiveInv
<1>7. QED
  BY <1>2, <1>5, <1>6 DEF Inductive

(* Every step keeps the invariant.                                             *)
LEMMA InductiveStep ==
    ASSUME Placeable, Inductive, [Next]_vars
    PROVE  Inductive'
<1>1. CASE Poll
  BY <1>1, PollStep
<1>2. CASE TaskStep
  BY <1>2, GotSegmentStep, GotEndStep, InitDoneStep, AppendDoneStep, ClearDoneStep,
     AbortedStep DEF TaskStep
<1>3. CASE Fail \/ QuotaExceeded \/ DecodeError
  BY <1>3, FailStep
<1>4. CASE Activate \/ Deactivate \/ HardReset \/ Reset \/ Clear
  BY <1>4, ActivateStep, DeactivateStep, ResetStep, ClearStep
<1>5. CASE \E p \in 0..MaxLast : Seek(p)
  BY <1>5, SeekStep
<1>6. CASE Change \/ SourceOpen \/ Advance
  BY <1>6, ChangeStep, SourceStep
<1>7. CASE UNCHANGED vars
  <2>1. UNCHANGED <<hls, last, time, active, ctl, task, waiting, scheduled, ms, sb, quota,
                    denied, calls, failures>>
    BY <1>7 DEF vars
  <2>2. TypeOK /\ Consistent(ctl, sb, ms, task) /\ ActiveInv(active, sb, task)
    BY DEF Inductive
  <2>3. Consistent(ctl', sb', ms', task') /\ ActiveInv(active', sb', task')
    BY <2>1, <2>2
  <2>4. /\ time' \in 0..(last - 1) /\ active' \in BOOLEAN /\ scheduled' \in BOOLEAN
        /\ waiting' \in Nat /\ (waiting' > 0 => task'.pc # "none")
        /\ denied' \subseteq Qualities /\ calls' \in 0..MaxCalls
        /\ failures' \in 0..MaxFailures[hls]
    BY <2>1, <2>2, Typed
  <2>5. QED
    BY <2>1, <2>3, <2>4, Framed
<1>8. QED
  BY <1>1, <1>2, <1>3, <1>4, <1>5, <1>6, <1>7 DEF Next

(* The inductive invariant holds: through the polls, awaits, partial appends,  *)
(* clears, aborts and failures of BufferingControllerImpl.                     *)
THEOREM InductiveHolds ==
    ASSUME Placeable
    PROVE  Spec => []Inductive
<1>1. Init => Inductive
  BY InitialState
<1>2. Inductive /\ [Next]_vars => Inductive'
  BY InductiveStep
<1>3. QED
  BY <1>1, <1>2, PTL DEF Spec

(* What the controller lists is in the source buffer, which holds one range    *)
(* and has the init segment of what is being appended: no clear, abort, quota  *)
(* error or reactivation between two awaits of appendNext makes the buffered   *)
(* state of BufferingControllerImpl and the SourceBuffer disagree.             *)
THEOREM BufferAndListAgree ==
    ASSUME Placeable
    PROVE  Spec => []BufferAgrees
<1>1. ASSUME Inductive
      PROVE  BufferAgrees
  <2>1. /\ TypeOK /\ TaskInv(ctl, sb, task) /\ ListInv(ctl, sb) /\ MediaInv(ctl, sb)
        /\ ctl \in Controllers
    BY <1>1 DEF Inductive, Consistent, BufferInv
  <2>2. InitMatches
    BY <2>1 DEF InitMatches, TaskInv
  <2>3. ListInBuffer
    <3>1. ASSUME NEW i \in 1..Len(ctl.buffered)
          PROVE  sb.at[ctl.buffered[i].pos].seg = ctl.buffered[i].seg
      <4>1. ctl.buffered \in Seq(Items)
        BY <2>1 DEF Controllers
      <4>2. ctl.buffered[i] \in Items
        BY <4>1, ElementOfSeq
      <4>3. ctl.buffered[i].seg \in Positions
        BY <4>2, Constants DEF Items
      <4>4. ctl.buffered[i].pos = ctl.buffered[i].seg /\ sb.at[ctl.buffered[i].seg] # NoMedia
        BY <2>1 DEF ListInv
      <4>5. QED
        BY <2>1, <4>3, <4>4 DEF MediaInv
    <3>2. QED
      BY <3>1 DEF ListInBuffer
  <2>4. SingleRange
    <3>1. ASSUME NEW p \in Occupied, NEW r \in Occupied, p < r
          PROVE  p + 1 \in Occupied /\ sb.at[p].chunks = Chunks
      <4>1. /\ p \in Positions /\ r \in Positions /\ p \in Nat /\ r \in Nat
            /\ sb.at[p] # NoMedia /\ sb.at[r] # NoMedia
        BY Constants DEF Occupied
      <4>2. ctl.buffered # <<>> /\ r <= newest(ctl).seg
        BY <2>1, <4>1 DEF MediaInv
      <4>3. newest(ctl).seg \in Nat
        BY <2>1, <4>2, NewestListed, Constants
      <4>4. p < newest(ctl).seg
        BY <3>1, <4>1, <4>2, <4>3
      <4>5. sb.at[p].chunks = Chunks /\ sb.at[p + 1] # NoMedia
        BY <2>1, <4>1, <4>4 DEF MediaInv
      <4>6. p + 1 \in Positions
        BY <3>1, <4>1, Constants DEF Positions
      <4>7. QED
        BY <4>5, <4>6 DEF Occupied
    <3>2. QED
      BY <3>1 DEF SingleRange
  <2>5. QED
    BY <2>1, <2>2, <2>3, <2>4 DEF BufferAgrees
<1>2. QED
  BY <1>1, InductiveHolds, PTL

(* Every piece that placeSegment puts into the source buffer is where the      *)
(* timeline has its segment, in every period, however the buffering got there. *)
THEOREM SegmentsAreInPlace ==
    ASSUME Placeable
    PROVE  Spec => []ContentInPlace
<1>1. ASSUME Inductive
      PROVE  ContentInPlace
  BY <1>1 DEF Inductive, Consistent, BufferInv, MediaInv, ContentInPlace, Occupied
<1>2. QED
  BY <1>1, InductiveHolds, PTL

(* endBuffering is never reached with segments of the timeline missing at the  *)
(* end of the buffer.                                                          *)
THEOREM EndIsBuffered ==
    ASSUME Placeable
    PROVE  Spec => []EndedMeansBuffered
<1>1. ASSUME Inductive
      PROVE  EndedMeansBuffered
  <2>1. ctl \in Controllers /\ EndInv(ctl)
    BY <1>1 DEF Inductive, Consistent, BufferInv
  <2>2. newest(ctl) = Newest
    BY DEF newest, Newest, Last
  <2>3. QED
    BY <2>1, <2>2, NewestListed DEF EndInv, EndedMeansBuffered
<1>2. QED
  BY <1>1, InductiveHolds, PTL

==============================================================================
