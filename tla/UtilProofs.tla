----------------------------- MODULE UtilProofs -----------------------------
(* Machine-checked proofs about what vinyl-util lends to the player: TaskQueue, *)
(* for every finite set of tasks, every priority assignment and every sequence  *)
(* of capacities, and TrackCache, the LruCache on its LinkedList under the      *)
(* tracks of TrackController, for every finite set of content, every options    *)
(* and every bound.                                                             *)
EXTENDS TaskQueue, TrackCache, FiniteSetTheorems, SequenceTheorems, WellFoundedInduction, TLAPS

--------------------------------------------------------------------------------
\* TaskQueue


(* The frames of the call stack: a task body is on the stack exactly while its *)
(* status says so, once, and always directly above the checkQueue loop that    *)
(* started it.                                                                 *)
FrameInv ==
    \A i \in 1..Len(stack) : stack[i] # CHECK =>
        /\ status[stack[i]] = "body"
        /\ i > 1
        /\ stack[i - 1] = CHECK
        /\ \A j \in 1..Len(stack) : stack[j] = stack[i] => j = i

(* Work that could start is being looked at by a loop further down the stack.  *)
WakeupInv == HasWork => \E i \in 1..Len(stack) : stack[i] = CHECK

Inv == TypeOK /\ RunningIsExact /\ FrameInv /\ WakeupInv

(* The running tasks are finitely many, and what starting or retiring one does *)
(* to their number.                                                            *)
LEMMA StartedFinite == ASSUME TypeOK PROVE IsFiniteSet(Started)
<1>1. Started \subseteq Tasks
  BY DEF Started
<1> QED
  BY <1>1, FS_Subset, TaskQueueAssumption

(* Starting a task counts it.                                                  *)
LEMMA StartedGrows ==
    ASSUME TypeOK, RunningIsExact,
           NEW t \in Tasks, t \notin Started, Started' = Started \cup {t},
           running' = running + 1
    PROVE  RunningIsExact'
<1>1. Cardinality(Started \cup {t}) = Cardinality(Started) + 1
  BY StartedFinite, FS_AddElement
<1> QED
  BY <1>1 DEF RunningIsExact

(* Retiring a task that was started uncounts it, and the counter stays a       *)
(* natural.                                                                    *)
LEMMA StartedShrinks ==
    ASSUME TypeOK, RunningIsExact,
           NEW t \in Tasks, t \in Started, Started' = Started \ {t},
           running' = running - 1
    PROVE  RunningIsExact' /\ running' \in Nat
<1>1. Cardinality(Started \ {t}) = Cardinality(Started) - 1 /\ Cardinality(Started) \in Nat
  BY StartedFinite, FS_RemoveElement, FS_CardinalityType
<1>2. Cardinality(Started \ {t}) \in Nat
  BY StartedFinite, FS_RemoveElement, FS_CardinalityType
<1> QED
  BY <1>1, <1>2 DEF RunningIsExact

(* A step that starts and retires nothing keeps the count exact.               *)
LEMMA StartedSame ==
    ASSUME RunningIsExact, Started' = Started, running' = running
    PROVE  RunningIsExact'
BY DEF RunningIsExact

(* The effect of pushing and popping on a sequence of frames.                  *)
LEMMA PushFrame ==
    ASSUME NEW S, NEW s \in Seq(S), NEW f \in S
    PROVE  /\ Append(s, f) \in Seq(S)
           /\ Len(Append(s, f)) = Len(s) + 1
           /\ \A i \in 1..Len(s) : Append(s, f)[i] = s[i]
           /\ Append(s, f)[Len(s) + 1] = f
OBVIOUS

(* Popping the top frame keeps those below it.                                 *)
LEMMA PopFrame ==
    ASSUME NEW S, NEW s \in Seq(S), s # <<>>
    PROVE  /\ Len(s) \in Nat /\ Len(s) > 0
           /\ SubSeq(s, 1, Len(s) - 1) \in Seq(S)
           /\ Len(SubSeq(s, 1, Len(s) - 1)) = Len(s) - 1
           /\ \A i \in 1..(Len(s) - 1) : SubSeq(s, 1, Len(s) - 1)[i] = s[i]
<1>1. Len(s) \in Nat /\ Len(s) > 0
  OBVIOUS
<1>2. Len(s) - 1 \in Int /\ \A i \in 1..(Len(s) - 1) : s[i] \in S
  BY <1>1
<1> DEFINE p == SubSeq(s, 1, Len(s) - 1)
<1>3. /\ p \in Seq(S)
      /\ Len(p) = IF 1 <= Len(s) - 1 THEN (Len(s) - 1) - 1 + 1 ELSE 0
      /\ \A i \in 1..((Len(s) - 1) - 1 + 1) : p[i] = s[1 + i - 1]
  BY <1>2, SubSeqProperties
<1> HIDE DEF p
<1>4. ASSUME NEW i \in 1..(Len(s) - 1) PROVE p[i] = s[i]
  <2>1. (Len(s) - 1) - 1 + 1 = Len(s) - 1 /\ 1 + i - 1 = i
    BY <1>1
  <2> QED
    BY <1>3, <2>1, Zenon
<1>5. Len(p) = Len(s) - 1
  <2>1. CASE 1 <= Len(s) - 1
    <3>1. Len(p) = (Len(s) - 1) - 1 + 1
      BY <1>3, <2>1, Zenon
    <3> QED
      BY <3>1, <1>1
  <2>2. CASE Len(s) = 1
    <3>1. ~(1 <= Len(s) - 1) /\ Len(s) - 1 = 0
      BY <2>2
    <3> QED
      BY <1>3, <3>1, Zenon
  <2> QED
    BY <1>1, <2>1, <2>2, SMTT(30)
<1> QED
  BY <1>1, <1>3, <1>4, <1>5 DEF p

(* The steps that leave every task body where it is and push a checkQueue      *)
(* frame, or nothing, keep the frames in order.                                *)
LEMMA FramesPushCheck ==
    ASSUME TypeOK, FrameInv, stack' = Append(stack, CHECK),
           \A t \in Tasks : status[t] = "body" => status'[t] = "body"
    PROVE  FrameInv' /\ \E i \in 1..Len(stack') : stack'[i] = CHECK
<1>1. /\ Len(stack) \in Nat
      /\ Len(stack') = Len(stack) + 1
      /\ \A i \in 1..Len(stack) : stack'[i] = stack[i]
      /\ stack'[Len(stack) + 1] = CHECK
  BY PushFrame DEF TypeOK
<1>2. \A i \in 1..Len(stack) : stack[i] \in Tasks \cup {CHECK}
  BY DEF TypeOK
<1>3. ASSUME NEW i \in 1..Len(stack'), stack'[i] # CHECK
      PROVE  /\ status'[stack'[i]] = "body"
             /\ i > 1
             /\ stack'[i - 1] = CHECK
             /\ \A j \in 1..Len(stack') : stack'[j] = stack'[i] => j = i
  <2>1. i \in 1..Len(stack) /\ stack'[i] = stack[i] /\ stack[i] \in Tasks
    BY <1>1, <1>2, <1>3
  <2>2. /\ status[stack[i]] = "body" /\ i > 1 /\ stack[i - 1] = CHECK
        /\ \A j \in 1..Len(stack) : stack[j] = stack[i] => j = i
    BY <2>1, <1>3 DEF FrameInv
  <2>3. i - 1 \in 1..Len(stack)
    BY <2>1, <2>2, <1>1
  <2> QED
    BY <1>1, <1>3, <2>1, <2>2, <2>3
<1>4. FrameInv'
  BY <1>3 DEF FrameInv
<1> QED
  BY <1>1, <1>4

(* The frames stay in order when the stack does and no body on it ends.        *)
LEMMA FramesSame ==
    ASSUME TypeOK, FrameInv, stack' = stack,
           \A t \in Tasks : status[t] = "body" => status'[t] = "body"
    PROVE  FrameInv'
<1>1. \A i \in 1..Len(stack) : stack[i] \in Tasks \cup {CHECK}
  BY DEF TypeOK
<1> QED
  BY <1>1 DEF FrameInv

(* Popping a frame keeps the frames in order; when the frame is a task's body, *)
(* the loop that started the task is still on the stack.                       *)
LEMMA FramesPop ==
    ASSUME TypeOK, FrameInv, stack # <<>>, stack' = Below,
           \A t \in Tasks : status[t] = "body" /\ t # Top => status'[t] = "body"
    PROVE  /\ FrameInv'
           /\ Top # CHECK => \E i \in 1..Len(stack') : stack'[i] = CHECK
<1>1. /\ Len(stack) \in Nat /\ Len(stack) > 0
      /\ Len(stack') = Len(stack) - 1
      /\ \A i \in 1..(Len(stack) - 1) : stack'[i] = stack[i]
  BY PopFrame DEF TypeOK, Below
<1>2. \A i \in 1..Len(stack) : stack[i] \in Tasks \cup {CHECK}
  BY DEF TypeOK
<1>3. ASSUME NEW i \in 1..Len(stack'), stack'[i] # CHECK
      PROVE  /\ status'[stack'[i]] = "body"
             /\ i > 1
             /\ stack'[i - 1] = CHECK
             /\ \A j \in 1..Len(stack') : stack'[j] = stack'[i] => j = i
  <2>1. i \in 1..Len(stack) /\ stack'[i] = stack[i] /\ stack[i] \in Tasks /\ i < Len(stack)
    BY <1>1, <1>2, <1>3
  <2>2. /\ status[stack[i]] = "body" /\ i > 1 /\ stack[i - 1] = CHECK
        /\ \A j \in 1..Len(stack) : stack[j] = stack[i] => j = i
    BY <2>1, <1>3 DEF FrameInv
  <2>3. stack[Len(stack)] # stack[i]
    BY <2>1, <2>2, <1>1
  <2>4. status'[stack[i]] = "body"
    BY <2>1, <2>2, <2>3 DEF Top
  <2>5. i - 1 \in 1..(Len(stack) - 1)
    BY <2>1, <2>2, <1>1
  <2>6. ASSUME NEW j \in 1..Len(stack'), stack'[j] = stack'[i]
        PROVE  j = i
    BY <1>1, <2>1, <2>2, <2>6
  <2> QED
    BY <1>1, <2>1, <2>2, <2>4, <2>5, <2>6
<1>4. FrameInv'
  BY <1>3 DEF FrameInv
<1>5. ASSUME Top # CHECK
      PROVE  \E i \in 1..Len(stack') : stack'[i] = CHECK
  <2>1. Len(stack) > 1 /\ stack[Len(stack) - 1] = CHECK
    BY <1>1, <1>5 DEF FrameInv, Top
  <2> QED
    BY <1>1, <2>1
<1> QED
  BY <1>4, <1>5

(* The task whose frame is on top of the stack is in its synchronous body.     *)
LEMMA BodyOnTop ==
    ASSUME Inv, NEW t \in Tasks, stack # <<>>, Top = t
    PROVE  status[t] = "body" /\ Top # CHECK
<1>1. Len(stack) \in 1..Len(stack)
  BY DEF Inv, TypeOK
<1>2. Top # CHECK
  BY TaskQueueAssumption
<1> QED
  BY <1>1, <1>2 DEF Inv, FrameInv, Top

(* The invariant is inductive.  One step per action; under it, one step per    *)
(* conjunct of the invariant the action can disturb.                           *)
LEMMA InitInv == Init => Inv
<1> SUFFICES ASSUME Init PROVE Inv
  OBVIOUS
<1>1. TypeOK
  BY DEF Init, TypeOK, Statuses
<1>2. Started = {} /\ pending = {}
  BY DEF Init, Started, pending
<1>3. RunningIsExact
  BY <1>2, FS_EmptySet DEF Init, RunningIsExact
<1>4. FrameInv /\ WakeupInv
  BY <1>2 DEF Init, FrameInv, WakeupInv, HasWork
<1> QED
  BY <1>1, <1>3, <1>4 DEF Inv

(* Inv is inductive: one step per action of the queue.                         *)
LEMMA NextInv == Inv /\ [Next]_vars => Inv'
<1> SUFFICES ASSUME Inv, [Next]_vars PROVE Inv'
  OBVIOUS
<1> USE DEF Inv
<1>0. CHECK \notin Tasks /\ Capacities \subseteq Nat
  BY TaskQueueAssumption
<1>1. ASSUME NEW t \in Tasks, enqueue(t) PROVE Inv'
  <2>0. IsFiniteSet({u \in Tasks : status[u] # "new"})
    BY TaskQueueAssumption, FS_Subset
  <2>1. TypeOK'
    <3>1. Cardinality({u \in Tasks : status[u] # "new"}) \in Nat
      BY <2>0, FS_CardinalityType
    <3> QED
      BY <1>1, <3>1 DEF enqueue, TypeOK, Statuses, Push
  <2>2. RunningIsExact'
    <3>1. Started' = Started
      BY <1>1 DEF enqueue, Started, TypeOK
    <3> QED
      BY <1>1, <3>1, StartedSame DEF enqueue
  <2>3. FrameInv' /\ \E i \in 1..Len(stack') : stack'[i] = CHECK
    BY <1>1, FramesPushCheck DEF enqueue, Push, TypeOK
  <2> QED
    BY <2>1, <2>2, <2>3 DEF WakeupInv
<1>2. ASSUME NEW n \in Capacities, setSimultaneous(n) PROVE Inv'
  <2>1. TypeOK'
    BY <1>0, <1>2 DEF setSimultaneous, TypeOK, Push
  <2>2. RunningIsExact'
    <3>1. Started' = Started
      BY <1>2 DEF setSimultaneous, Started
    <3> QED
      BY <1>2, <3>1, StartedSame DEF setSimultaneous
  <2>3. FrameInv' /\ \E i \in 1..Len(stack') : stack'[i] = CHECK
    BY <1>2, FramesPushCheck DEF setSimultaneous, Push
  <2> QED
    BY <2>1, <2>2, <2>3 DEF WakeupInv
<1>3. ASSUME checkQueue PROVE Inv'
  <2>0. PICK t \in pending : execute(t) \/ executeAborted(t)
    BY <1>3 DEF checkQueue
  <2>1. t \in Tasks /\ status[t] = "pending"
    BY <2>0 DEF pending
  <2>2. UNCHANGED <<simultaneous, order, slot, abort, doomed>>
    BY <1>3 DEF checkQueue
  <2>3. CASE execute(t)
    <3>1. TypeOK'
      BY <2>1, <2>2, <2>3 DEF execute, TypeOK, Statuses, Push
    <3>2. RunningIsExact'
      <4>1. t \notin Started /\ Started' = Started \cup {t}
        BY <2>1, <2>3 DEF execute, Started, TypeOK
      <4> QED
        BY <4>1, <2>1, <2>3, StartedGrows DEF execute
    <3>3. /\ Len(stack) \in Nat /\ Len(stack) > 0
          /\ Len(stack') = Len(stack) + 1
          /\ \A i \in 1..Len(stack) : stack'[i] = stack[i]
          /\ stack'[Len(stack) + 1] = t
          /\ stack[Len(stack)] = CHECK
          /\ \A i \in 1..Len(stack) : stack[i] \in Tasks \cup {CHECK}
      BY <1>3, <2>1, <2>3, PushFrame DEF execute, checkQueue, TypeOK, Push, Top
    <3>4. \A i \in 1..Len(stack) : stack[i] # t
      BY <1>0, <2>1, <3>3 DEF FrameInv
    <3>5. ASSUME NEW i \in 1..Len(stack'), stack'[i] # CHECK
          PROVE  /\ status'[stack'[i]] = "body"
                 /\ i > 1
                 /\ stack'[i - 1] = CHECK
                 /\ \A j \in 1..Len(stack') : stack'[j] = stack'[i] => j = i
      <4>1. CASE i = Len(stack) + 1
        <5>1. status'[t] = "body"
          BY <2>1, <2>3 DEF execute, TypeOK
        <5> QED
          BY <3>3, <3>4, <4>1, <5>1
      <4>2. CASE i \in 1..Len(stack)
        <5>1. stack'[i] = stack[i] /\ stack[i] \in Tasks /\ stack[i] # t
          BY <3>3, <3>4, <3>5, <4>2
        <5>2. /\ status[stack[i]] = "body" /\ i > 1 /\ stack[i - 1] = CHECK
              /\ \A j \in 1..Len(stack) : stack[j] = stack[i] => j = i
          BY <3>5, <4>2, <5>1 DEF FrameInv
        <5>3. status'[stack[i]] = "body"
          BY <2>1, <2>3, <5>1, <5>2 DEF execute, TypeOK
        <5>4. stack'[i - 1] = CHECK
          BY <3>3, <4>2, <5>2
        <5>5. ASSUME NEW j \in 1..Len(stack'), stack'[j] = stack'[i] PROVE j = i
          BY <3>3, <5>1, <5>2, <5>5
        <5> QED
          BY <5>1, <5>2, <5>3, <5>4, <5>5
      <4> QED
        BY <3>3, <4>1, <4>2
    <3>6. FrameInv'
      BY <3>5 DEF FrameInv
    <3>7. WakeupInv'
      BY <3>3 DEF WakeupInv
    <3> QED
      BY <3>1, <3>2, <3>6, <3>7
  <2>4. CASE executeAborted(t)
    <3>1. TypeOK'
      BY <2>1, <2>2, <2>4 DEF executeAborted, TypeOK, Statuses, Push
    <3>2. RunningIsExact'
      <4>1. Started' = Started
        BY <2>1, <2>4 DEF executeAborted, Started, TypeOK
      <4> QED
        BY <2>4, <4>1, StartedSame DEF executeAborted
    <3>3. FrameInv' /\ \E i \in 1..Len(stack') : stack'[i] = CHECK
      BY <2>1, <2>4, FramesPushCheck DEF executeAborted, Push, TypeOK
    <3> QED
      BY <3>1, <3>2, <3>3 DEF WakeupInv
  <2> QED
    BY <2>0, <2>3, <2>4
<1>4. ASSUME checkQueueReturn PROVE Inv'
  <2>1. TypeOK'
    BY <1>4, PopFrame DEF checkQueueReturn, TypeOK, Below
  <2>2. RunningIsExact'
    <3>1. Started' = Started
      BY <1>4 DEF checkQueueReturn, Started
    <3> QED
      BY <1>4, <3>1, StartedSame DEF checkQueueReturn
  <2>3. FrameInv'
    BY <1>4, FramesPop DEF checkQueueReturn
  <2>4. ~HasWork'
    BY <1>4 DEF checkQueueReturn, HasWork, pending
  <2> QED
    BY <2>1, <2>2, <2>3, <2>4 DEF WakeupInv
<1>5. ASSUME NEW t \in Tasks, bodyReturns(t) PROVE Inv'
  <2>0. status[t] = "body" /\ Top # CHECK
    BY <1>5, BodyOnTop DEF bodyReturns
  <2>1. TypeOK'
    BY <1>5, PopFrame DEF bodyReturns, TypeOK, Below, Statuses
  <2>2. RunningIsExact'
    <3>1. Started' = Started
      BY <1>5, <2>0 DEF bodyReturns, Started, TypeOK
    <3> QED
      BY <1>5, <3>1, StartedSame DEF bodyReturns
  <2>3. FrameInv' /\ \E i \in 1..Len(stack') : stack'[i] = CHECK
    BY <1>5, <2>0, FramesPop DEF bodyReturns, TypeOK
  <2> QED
    BY <2>1, <2>2, <2>3 DEF WakeupInv
<1>6. ASSUME NEW t \in Tasks, bodyThrows(t) PROVE Inv'
  <2>0. status[t] = "body" /\ Top # CHECK
    BY <1>6, BodyOnTop DEF bodyThrows
  <2>1. RunningIsExact' /\ running' \in Nat
    <3>1. t \in Started /\ Started' = Started \ {t}
      BY <1>6, <2>0 DEF bodyThrows, Started, TypeOK
    <3> QED
      BY <1>6, <3>1, StartedShrinks DEF bodyThrows
  <2>2. TypeOK'
    BY <1>6, <2>1, PopFrame DEF bodyThrows, TypeOK, Below, Statuses
  <2>3. FrameInv' /\ \E i \in 1..Len(stack') : stack'[i] = CHECK
    BY <1>6, <2>0, FramesPop DEF bodyThrows, TypeOK
  <2> QED
    BY <2>1, <2>2, <2>3 DEF WakeupInv
<1>7. ASSUME NEW t \in Tasks, workSettles(t) PROVE Inv'
  <2>1. TypeOK'
    BY <1>7 DEF workSettles, TypeOK, Statuses
  <2>2. RunningIsExact'
    <3>1. Started' = Started
      BY <1>7 DEF workSettles, Started, TypeOK
    <3> QED
      BY <1>7, <3>1, StartedSame DEF workSettles
  <2>3. FrameInv'
    BY <1>7, FramesSame DEF workSettles, TypeOK
  <2>4. pending' = pending
    BY <1>7 DEF workSettles, pending, TypeOK
  <2> QED
    BY <1>7, <2>1, <2>2, <2>3, <2>4 DEF WakeupInv, HasWork, workSettles
<1>8. ASSUME NEW t \in Tasks, finally(t) PROVE Inv'
  <2>1. RunningIsExact' /\ running' \in Nat
    <3>1. t \in Started /\ Started' = Started \ {t}
      BY <1>8 DEF finally, Started, TypeOK
    <3> QED
      BY <1>8, <3>1, StartedShrinks DEF finally
  <2>2. TypeOK'
    BY <1>8, <2>1 DEF finally, TypeOK, Statuses, Push
  <2>3. FrameInv' /\ \E i \in 1..Len(stack') : stack'[i] = CHECK
    BY <1>8, FramesPushCheck DEF finally, Push, TypeOK
  <2> QED
    BY <2>1, <2>2, <2>3 DEF WakeupInv
<1>9. ASSUME abortQueue PROVE Inv'
  <2>1. TypeOK'
    BY <1>9 DEF abortQueue, TypeOK, Statuses, pending, Started
  <2>2. Started' = Started /\ pending' = pending
    BY <1>9 DEF abortQueue, Started, pending, TypeOK
  <2>3. RunningIsExact'
    BY <1>9, <2>2, StartedSame DEF abortQueue
  <2>4. FrameInv'
    BY <1>9, FramesSame DEF abortQueue, TypeOK
  <2> QED
    BY <1>9, <2>1, <2>2, <2>3, <2>4 DEF WakeupInv, HasWork, abortQueue
<1>10. ASSUME UNCHANGED vars PROVE Inv'
  <2>1. Started' = Started /\ pending' = pending
    BY <1>10 DEF vars, Started, pending
  <2> QED
    BY <1>10, <2>1 DEF vars, TypeOK, RunningIsExact, FrameInv, WakeupInv, HasWork
<1> QED
  BY <1>1, <1>2, <1>3, <1>4, <1>5, <1>6, <1>7, <1>8, <1>9, <1>10 DEF Next

(* Type correctness of every reachable state of the queue.                     *)
THEOREM TypeCorrect == Spec => []TypeOK
<1>1. Inv => TypeOK
  BY DEF Inv
<1> QED
  BY InitInv, NextInv, <1>1, PTL DEF Spec

(* Slots are never leaked and never freed twice: `running` (TaskQueue.ts 86,   *)
(* 92, 99) is the number of tasks between their start and their finally        *)
(* callback, for any re-entrant use of the queue.                              *)
THEOREM RunningExact == Spec => []RunningIsExact
<1>1. Inv => RunningIsExact
  BY DEF Inv
<1> QED
  BY InitInv, NextInv, <1>1, PTL DEF Spec

(* No wakeup is lost: when the event loop is idle nothing that could start is  *)
(* waiting, although the throwing branch (TaskQueue.ts 90-93) frees a slot     *)
(* without calling checkQueue.                                                 *)
THEOREM WorkConserving == Spec => []NoLostWakeup
<1>1. Inv => NoLostWakeup
  BY DEF Inv, NoLostWakeup, WakeupInv, EventLoop
<1> QED
  BY InitInv, NextInv, <1>1, PTL DEF Spec

------------------------------------------------------------------------------
(* What abort() promises.  The queue must never be given a capacity of zero:   *)
(* then a task can be waiting while nothing runs, and abort() returns early.   *)
DoomInv ==
    /\ simultaneous > 0
    /\ \A t \in Tasks : abort[t] <= slot
    /\ \A t \in doomed : status[t] # "new" /\ (status[t] = "pending" => aborted(t))

(* When abort() finds nothing running, nothing is waiting either: the early    *)
(* return of TaskQueue.ts 144 skips no one.                                    *)
LEMMA EarlyReturnSkipsNoOne ==
    ASSUME Inv, DoomInv, CallerHasControl, running = 0
    PROVE  pending = {} /\ Started = {}
<1>1. Started = {}
  BY StartedFinite, FS_EmptySet DEF Inv, RunningIsExact
<1>2. stack = <<>>
  <2> SUFFICES ASSUME stack # <<>> PROVE FALSE
    OBVIOUS
  <2>1. Len(stack) \in 1..Len(stack) /\ stack[Len(stack)] \in Tasks \cup {CHECK}
    BY DEF Inv, TypeOK
  <2>2. stack[Len(stack)] \in Started
    BY <2>1 DEF Inv, FrameInv, CallerHasControl, Top, Started
  <2> QED
    BY <1>1, <2>2
<1>3. ~HasWork
  BY <1>2 DEF Inv, WakeupInv
<1> QED
  BY <1>1, <1>3 DEF HasWork, DoomInv

(* With capacities of at least one every step keeps DoomInv.                   *)
LEMMA NextDoomInv ==
    ASSUME 0 \notin Capacities, Inv, DoomInv, [Next]_vars
    PROVE  DoomInv'
<1> USE DEF Inv
<1>0. Capacities \subseteq Nat
  BY TaskQueueAssumption
<1>1. ASSUME NEW t \in Tasks, enqueue(t) PROVE DoomInv'
  BY <1>1 DEF enqueue, DoomInv, TypeOK, aborted
<1>2. ASSUME NEW n \in Capacities, setSimultaneous(n) PROVE DoomInv'
  BY <1>0, <1>2 DEF setSimultaneous, DoomInv, TypeOK, aborted
<1>3. ASSUME checkQueue PROVE DoomInv'
  <2>1. PICK t \in pending : execute(t) \/ executeAborted(t)
    BY <1>3 DEF checkQueue
  <2>2. \A u \in Tasks : status'[u] # status[u] => status'[u] \in {"body", "done"}
    BY <2>1 DEF execute, executeAborted, pending, TypeOK
  <2> QED
    BY <1>3, <2>2 DEF checkQueue, DoomInv, TypeOK, aborted
<1>4. ASSUME checkQueueReturn PROVE DoomInv'
  BY <1>4 DEF checkQueueReturn, DoomInv, aborted
<1>5. ASSUME NEW t \in Tasks, bodyReturns(t) PROVE DoomInv'
  <2>1. \A u \in Tasks : status'[u] # status[u] => status'[u] \in {"settled", "running"}
    BY <1>5 DEF bodyReturns, TypeOK
  <2> QED
    BY <1>5, <2>1 DEF bodyReturns, DoomInv, TypeOK, aborted
<1>6. ASSUME NEW t \in Tasks, bodyThrows(t) PROVE DoomInv'
  BY <1>6 DEF bodyThrows, DoomInv, TypeOK, aborted
<1>7. ASSUME NEW t \in Tasks, workSettles(t) PROVE DoomInv'
  BY <1>7 DEF workSettles, DoomInv, TypeOK, aborted
<1>8. ASSUME NEW t \in Tasks, finally(t) PROVE DoomInv'
  BY <1>8 DEF finally, DoomInv, TypeOK, aborted
<1>9. ASSUME abortQueue PROVE DoomInv'
  <2>1. CASE running = 0
    <3>1. pending = {} /\ Started = {}
      BY <1>9, <2>1, EarlyReturnSkipsNoOne DEF abortQueue
    <3> QED
      BY <1>9, <2>1, <3>1 DEF abortQueue, DoomInv, aborted
  <2>2. CASE running # 0
    <3>1. slot' = slot + 1 /\ UNCHANGED <<simultaneous, abort>>
      BY <1>9, <2>2 DEF abortQueue
    <3>2. \A u \in Tasks : status'[u] # status[u] => status'[u] = "settled"
      BY <1>9, <2>2 DEF abortQueue, TypeOK
    <3>3. \A u \in doomed' : u \in Tasks /\ status[u] # "new"
      BY <1>9 DEF abortQueue, DoomInv, TypeOK, pending, Started
    <3>4. \A u \in Tasks : abort[u] < slot'
      BY <3>1 DEF DoomInv, TypeOK
    <3> QED
      BY <3>1, <3>2, <3>3, <3>4 DEF DoomInv, TypeOK, aborted
  <2> QED
    BY <2>1, <2>2
<1>10. ASSUME UNCHANGED vars PROVE DoomInv'
  BY <1>10 DEF vars, DoomInv, aborted
<1> QED
  BY <1>1, <1>2, <1>3, <1>4, <1>5, <1>6, <1>7, <1>8, <1>9, <1>10 DEF Next

(* TaskQueue.ts 141, "Aborts all enqueued operations": as long as the capacity *)
(* is never zero, no task that was waiting when abort() was called starts.     *)
THEOREM AbortStopsWaiting ==
    ASSUME 0 \notin Capacities
    PROVE  Spec => DoomedNeverStart
<1>1. Init => DoomInv
  BY DEF Init, DoomInv
<1>2. Inv /\ DoomInv /\ [Next]_vars => DoomInv'
  BY NextDoomInv
<1>3. Inv /\ DoomInv /\ [Next]_vars =>
        [\A t \in doomed : status[t] = "pending" => status'[t] \in {"pending", "done"}]_vars
  <2> SUFFICES ASSUME Inv, DoomInv, [Next]_vars, NEW t \in doomed, status[t] = "pending"
               PROVE  status'[t] \in {"pending", "done"}
    OBVIOUS
  <2>1. t \in Tasks /\ aborted(t)
    BY DEF Inv, TypeOK, DoomInv
  <2>2. CASE checkQueue
    BY <2>1, <2>2 DEF checkQueue, execute, executeAborted, Inv, TypeOK, pending
  <2>3. CASE ~checkQueue /\ Next
    <3>1. ASSUME NEW u \in Tasks,
                 enqueue(u) \/ bodyReturns(u) \/ bodyThrows(u) \/ workSettles(u) \/ finally(u)
          PROVE  status'[t] \in {"pending", "done"}
      <4>1. u = t => bodyReturns(u) \/ bodyThrows(u)
        BY <3>1 DEF enqueue, workSettles, finally
      <4>2. bodyReturns(u) \/ bodyThrows(u) => status[u] = "body"
        BY BodyOnTop DEF bodyReturns, bodyThrows
      <4>3. u # t
        BY <4>1, <4>2
      <4> QED
        BY <3>1, <2>1, <4>3
           DEF enqueue, bodyReturns, bodyThrows, workSettles, finally, Inv, TypeOK
    <3>2. CASE abortQueue
      BY <2>1, <3>2 DEF abortQueue, Inv, TypeOK
    <3>3. CASE checkQueueReturn
      BY <3>3 DEF checkQueueReturn
    <3>4. CASE \E n \in Capacities : setSimultaneous(n)
      BY <3>4 DEF setSimultaneous
    <3> QED
      BY <2>3, <3>1, <3>2, <3>3, <3>4 DEF Next
  <2>4. CASE UNCHANGED vars
    BY <2>4 DEF vars
  <2> QED
    BY <2>2, <2>3, <2>4
<1> QED
  BY InitInv, NextInv, <1>1, <1>2, <1>3, PTL DEF Spec, DoomedNeverStart

------------------------------------------------------------------------------
(* The queue implements the abstract scheduler.  Every task captured the       *)
(* current Abort or one that has fired, so firing the current one cancels      *)
(* exactly what is enqueued.                                                   *)
done == {t \in Tasks : status[t] = "done"}

AbortInv == \A t \in Tasks : abort[t] <= slot

(* No task holds an abort newer than the current one, at any step.             *)
LEMMA NextAbortInv == Inv /\ AbortInv /\ [Next]_vars => AbortInv'
<1> SUFFICES ASSUME Inv, AbortInv, [Next]_vars PROVE AbortInv'
  OBVIOUS
<1> USE DEF Inv, TypeOK, AbortInv
<1>1. CASE \E t \in Tasks : enqueue(t)
  BY <1>1 DEF enqueue
<1>2. CASE abortQueue
  BY <1>2 DEF abortQueue
<1>3. CASE checkQueue \/ checkQueueReturn \/ (\E n \in Capacities : setSimultaneous(n))
  BY <1>3 DEF checkQueue, checkQueueReturn, setSimultaneous
<1>4. CASE \E t \in Tasks : bodyReturns(t) \/ bodyThrows(t) \/ workSettles(t) \/ finally(t)
  BY <1>4 DEF bodyReturns, bodyThrows, workSettles, finally
<1>5. CASE UNCHANGED vars
  BY <1>5 DEF vars
<1> QED
  BY <1>1, <1>2, <1>3, <1>4, <1>5 DEF Next

(* The tasks the scheduler knows are those that were enqueued.                 *)
LEMMA EnqueuedTasks ==
    ASSUME TypeOK
    PROVE  Abstract!Enqueued = {t \in Tasks : status[t] # "new"}
BY DEF TypeOK, Statuses, Abstract!Enqueued, pending, Started

(* An empty queue is an empty scheduler.                                       *)
LEMMA InitAbstract == Init => Abstract!Init
BY DEF Init, Abstract!Init, pending, Started, cancelled

(* The scheduler counts as the queue does.                                     *)
LEMMA SameCount == ASSUME NEW S PROVE Abstract!Cardinality(S) = Cardinality(S)
BY DEF Cardinality, Abstract!Cardinality

(* A step that leaves every task waiting, active or finished is a stutter.     *)
LEMMA Stutter ==
    ASSUME TypeOK, UNCHANGED <<simultaneous, order, abort, slot>>, status' \in [Tasks -> Statuses],
           \A t \in Tasks : \/ status'[t] = status[t]
                            \/ status[t] \in {"body", "running", "settled"} /\ status'[t] \in {"body", "running", "settled"}
    PROVE  UNCHANGED Abstract!vars
<1>1. pending' = pending /\ Started' = Started /\ done' = done
  BY DEF TypeOK, pending, Started, done
<1>2. cancelled' = cancelled
  BY DEF TypeOK, cancelled, aborted
<1> QED
  BY <1>1, <1>2 DEF Abstract!vars, done

(* A task that leaves its slot leaves the active tasks.                        *)
LEMMA FinishStep ==
    ASSUME TypeOK, NEW t \in Tasks, status[t] \in {"body", "running", "settled"},
           status' = [status EXCEPT ![t] = "done"],
           UNCHANGED <<simultaneous, order, abort, slot>>
    PROVE  Abstract!Finish(t)
<1>1. t \in Started /\ pending' = pending
  BY DEF TypeOK, pending, Started
<1>2. Started' = Started \ {t}
  BY DEF TypeOK, Started
<1>3. done' = done \cup {t}
  BY DEF TypeOK, done
<1>4. cancelled' = cancelled
  BY DEF TypeOK, cancelled, aborted
<1> QED
  BY <1>1, <1>2, <1>3, <1>4 DEF Abstract!Finish, done

(* Every step of the queue is a step of the scheduler or a stutter.            *)
LEMMA NextAbstract == Inv /\ AbortInv /\ [Next]_vars => [Abstract!Next]_(Abstract!vars)
<1> SUFFICES ASSUME Inv, AbortInv, [Next]_vars PROVE Abstract!Next \/ UNCHANGED Abstract!vars
  OBVIOUS
<1>0. TypeOK
  BY DEF Inv
<1>1. ASSUME NEW t \in Tasks, enqueue(t) PROVE Abstract!Enqueue(t)
  <2>1. t \notin Abstract!Enqueued
    BY <1>0, <1>1, EnqueuedTasks DEF enqueue
  <2>2. pending' = pending \cup {t} /\ Started' = Started /\ done' = done
    BY <1>0, <1>1 DEF enqueue, TypeOK, pending, Started, done
  <2>3. order' = [order EXCEPT ![t] = Abstract!Cardinality(Abstract!Enqueued)]
    BY <1>0, <1>1, EnqueuedTasks, SameCount DEF enqueue
  <2>4. cancelled' = cancelled
    BY <1>0, <1>1 DEF enqueue, TypeOK, cancelled, aborted
  <2> QED
    BY <1>1, <2>1, <2>2, <2>3, <2>4 DEF enqueue, Abstract!Enqueue, done
<1>2. ASSUME NEW n \in Capacities, setSimultaneous(n) PROVE Abstract!SetSimultaneous
  <2>1. simultaneous' \in Nat
    BY <1>2, TaskQueueAssumption DEF setSimultaneous
  <2>2. pending' = pending /\ Started' = Started /\ done' = done /\ cancelled' = cancelled
    BY <1>2 DEF setSimultaneous, pending, Started, done, cancelled, aborted
  <2> QED
    BY <1>2, <2>1, <2>2 DEF setSimultaneous, Abstract!SetSimultaneous, done
<1>3. ASSUME checkQueue PROVE \E t \in Tasks : Abstract!Start(t) \/ Abstract!Reject(t)
  <2>0. PICK t \in pending : IsHighestPriority(t) /\ (execute(t) \/ executeAborted(t))
    BY <1>3 DEF checkQueue
  <2>1. t \in Tasks /\ status[t] = "pending"
    BY <2>0 DEF pending
  <2>2. UNCHANGED <<simultaneous, order, slot, abort>> /\ HasWork
    BY <1>3 DEF checkQueue
  <2>3. CASE execute(t)
    <3>1. t \notin cancelled
      BY <2>3 DEF execute, cancelled
    <3>2. Abstract!Cardinality(Started) < simultaneous
      BY <2>2, SameCount DEF HasWork, Inv, RunningIsExact
    <3>3. \A u \in pending \ {t} : Abstract!Precedes(t, u)
      BY <2>0 DEF IsHighestPriority, Abstract!Precedes
    <3>4. pending' = pending \ {t} /\ Started' = Started \cup {t} /\ done' = done
      BY <1>0, <2>1, <2>3 DEF execute, TypeOK, pending, Started, done
    <3>5. cancelled' = cancelled
      BY <1>0, <2>1, <2>2, <2>3 DEF execute, TypeOK, cancelled, aborted
    <3>6. Abstract!Start(t)
      BY <2>0, <2>2, <3>1, <3>2, <3>3, <3>4, <3>5 DEF Abstract!Start, done
    <3> QED
      BY <2>1, <3>6
  <2>4. CASE executeAborted(t)
    <3>1. t \in cancelled
      BY <2>1, <2>4 DEF executeAborted, cancelled
    <3>2. pending' = pending \ {t} /\ Started' = Started /\ done' = done \cup {t}
      BY <1>0, <2>1, <2>4 DEF executeAborted, TypeOK, pending, Started, done
    <3>3. cancelled' = cancelled
      BY <1>0, <2>1, <2>2, <2>4 DEF executeAborted, TypeOK, cancelled, aborted
    <3>4. Abstract!Reject(t)
      BY <2>0, <2>2, <3>1, <3>2, <3>3 DEF Abstract!Reject, done
    <3> QED
      BY <2>1, <3>4
  <2> QED
    BY <2>0, <2>3, <2>4
<1>4. ASSUME checkQueueReturn PROVE UNCHANGED Abstract!vars
  BY <1>0, <1>4, Stutter DEF checkQueueReturn, TypeOK
<1>5. ASSUME NEW t \in Tasks, bodyReturns(t) PROVE UNCHANGED Abstract!vars
  <2>1. status[t] = "body"
    BY <1>5, BodyOnTop DEF bodyReturns
  <2>2. /\ status' \in [Tasks -> Statuses]
        /\ \A u \in Tasks : \/ status'[u] = status[u]
                            \/ status[u] = "body" /\ status'[u] \in {"running", "settled"}
    BY <1>0, <1>5, <2>1 DEF bodyReturns, TypeOK, Statuses
  <2> QED
    BY <1>0, <1>5, <2>2, Stutter DEF bodyReturns
<1>6. ASSUME NEW t \in Tasks, bodyThrows(t) PROVE Abstract!Finish(t)
  <2>1. status[t] = "body"
    BY <1>6, BodyOnTop DEF bodyThrows
  <2> QED
    BY <1>0, <1>6, <2>1, FinishStep DEF bodyThrows
<1>7. ASSUME NEW t \in Tasks, workSettles(t) PROVE UNCHANGED Abstract!vars
  <2>1. /\ status' \in [Tasks -> Statuses]
        /\ \A u \in Tasks : \/ status'[u] = status[u]
                            \/ status[u] = "running" /\ status'[u] = "settled"
    BY <1>0, <1>7 DEF workSettles, TypeOK, Statuses
  <2> QED
    BY <1>0, <1>7, <2>1, Stutter DEF workSettles
<1>8. ASSUME NEW t \in Tasks, finally(t) PROVE Abstract!Finish(t)
  BY <1>0, <1>8, FinishStep DEF finally
<1>9. ASSUME abortQueue PROVE Abstract!Abort \/ UNCHANGED Abstract!vars
  <2>1. CASE running = 0
    BY <1>0, <1>9, <2>1, Stutter DEF abortQueue, TypeOK
  <2>2. CASE running # 0
    <3>1. Started # {}
      BY <2>2, FS_EmptySet DEF Inv, RunningIsExact
    <3>2. slot' = slot + 1 /\ UNCHANGED <<simultaneous, order, abort>>
      BY <1>9, <2>2 DEF abortQueue
    <3>3. status' = [t \in Tasks |-> IF status[t] = "running" /\ abort[t] = slot
                                     THEN "settled" ELSE status[t]]
      BY <1>9, <2>2 DEF abortQueue
    <3>4. pending' = pending /\ Started' = Started /\ done' = done
      BY <1>0, <3>3 DEF TypeOK, pending, Started, done
    <3>5. \A t \in Tasks : aborted(t)' /\ (status'[t] # "new" <=> status[t] # "new")
      BY <1>0, <3>2, <3>3 DEF TypeOK, AbortInv, aborted
    <3>6. cancelled' = Abstract!Enqueued
      BY <1>0, <3>5, EnqueuedTasks DEF cancelled
    <3> QED
      BY <3>1, <3>2, <3>4, <3>6 DEF Abstract!Abort, done
  <2> QED
    BY <2>1, <2>2
<1>10. ASSUME UNCHANGED vars PROVE UNCHANGED Abstract!vars
  BY <1>0, <1>10, Stutter DEF vars, TypeOK
<1> QED
  BY <1>1, <1>2, <1>3, <1>4, <1>5, <1>6, <1>7, <1>8, <1>9, <1>10 DEF Next, Abstract!Next

(* The whole queue, for any tasks, priorities, capacities and re-entrant use,  *)
(* implements the scheduler.                                                   *)
THEOREM QueueImplementsScheduler == Spec => ImplementsScheduler
<1>1. Init => AbortInv
  BY DEF Init, AbortInv
<1> QED
  BY InitInv, NextInv, InitAbstract, NextAbortInv, NextAbstract, <1>1, PTL
     DEF Spec, ImplementsScheduler, Abstract!Spec

--------------------------------------------------------------------------------
\* The linked list

(* None and Gone stand for no uri.                                             *)
LEMMA NoneIsNoUri == None \notin Uris /\ Gone \notin Uris /\ None # Gone
BY TrackCacheAssumption DEF None, Gone

(* What LinkedList holds in memory.                                            *)
ListType == [head : Uris \cup {None}, tail : Uris \cup {None}, node : [Uris -> Nodes]]

(* An entry of a sequence, or none outside it: what head, tail and the         *)
(* pointers of a node hold.                                                    *)
Elem(q, i) == IF i \in 1..Len(q) THEN q[i] ELSE None

(* The pointers of l link the entries of q, in this order and each once.       *)
Linked(l, q) ==
    /\ l.head = Elem(q, 1) /\ l.tail = Elem(q, Len(q))
    /\ \A i \in 1..Len(q) :
        /\ \A j \in 1..Len(q) : q[i] = q[j] => i = j
        /\ ~l.node[q[i]].removed
        /\ l.node[q[i]].previous = Elem(q, i - 1)
        /\ l.node[q[i]].next = Elem(q, i + 1)

(* What is left of a sequence without one entry.                               *)
LEMMA RemoveAtEntries ==
    ASSUME NEW S, NEW q \in Seq(S), NEW i \in 1..Len(q)
    PROVE  /\ RemoveAt(q, i) \in Seq(S)
           /\ Len(RemoveAt(q, i)) = Len(q) - 1
           /\ \A j \in 1..(Len(q) - 1) : RemoveAt(q, i)[j] = IF j < i THEN q[j] ELSE q[j + 1]
<1> DEFINE a == SubSeq(q, 1, i - 1)
           b == SubSeq(q, i + 1, Len(q))
<1>1. a \in Seq(S) /\ Len(a) = i - 1 /\ \A j \in 1..(i - 1) : a[j] = q[j]
  OBVIOUS
<1>2. b \in Seq(S) /\ Len(b) = Len(q) - i /\ \A j \in 1..(Len(q) - i) : b[j] = q[j + i]
  <2>1. b \in Seq(S) /\ Len(b) = Len(q) - i
    OBVIOUS
  <2>2. ASSUME NEW j \in 1..(Len(q) - i) PROVE b[j] = q[j + i]
    BY <2>1
  <2> QED
    BY <2>1, <2>2
<1> HIDE DEF a, b
<1>3. a \o b \in Seq(S) /\ Len(a \o b) = Len(q) - 1
  <2>1. a \o b \in Seq(S) /\ Len(a \o b) = Len(a) + Len(b)
    BY <1>1, <1>2, ConcatProperties
  <2>2. Len(q) \in Nat
    OBVIOUS
  <2> QED
    BY <1>1, <1>2, <2>1, <2>2
<1>4. ASSUME NEW j \in 1..(Len(q) - 1)
      PROVE  (a \o b)[j] = IF j < i THEN q[j] ELSE q[j + 1]
  <2>1. CASE j < i
    BY <1>1, <1>2, <2>1
  <2>2. CASE ~(j < i)
    <3>1. (a \o b)[j] = b[j - (i - 1)] /\ j - (i - 1) \in 1..(Len(q) - i)
      BY <1>1, <1>2, <2>2
    <3>2. b[j - (i - 1)] = q[(j - (i - 1)) + i] /\ (j - (i - 1)) + i = j + 1
      BY <1>2, <3>1
    <3> QED
      BY <2>2, <3>1, <3>2
  <2> QED
    BY <2>1, <2>2
<1>5. RemoveAt(q, i) = a \o b
  BY DEF RemoveAt, a, b
<1> QED
  BY <1>3, <1>4, <1>5

(* The entries of a sequence with one more at the end.                         *)
LEMMA AppendEntries ==
    ASSUME NEW S, NEW q \in Seq(S), NEW u \in S
    PROVE  /\ Append(q, u) \in Seq(S)
           /\ Len(Append(q, u)) = Len(q) + 1
           /\ \A j \in 1..Len(q) : Append(q, u)[j] = q[j]
           /\ Append(q, u)[Len(q) + 1] = u
OBVIOUS

(* remove unlinks one entry and leaves the others as they were linked.         *)
LEMMA RemoveUnlinks ==
    ASSUME NEW l \in ListType, NEW q \in Seq(Uris), NEW i \in 1..Len(q), Linked(l, q)
    PROVE  /\ remove(l, q[i]) \in ListType
           /\ Linked(remove(l, q[i]), RemoveAt(q, i))
<1> DEFINE u == q[i]
           n == l.node[u]
           after == setNext(l.node, n.previous, n.next)
           linked == setPrevious(after, n.next, n.previous)
           r == RemoveAt(q, i)
<1>1. /\ u \in Uris /\ n \in Nodes
      /\ l.node \in [Uris -> Nodes]
      /\ l.head \in Uris \cup {None} /\ l.tail \in Uris \cup {None}
  BY DEF ListType
<1>2. /\ ~n.removed
      /\ n.previous = Elem(q, i - 1)
      /\ n.next = Elem(q, i + 1)
      /\ \A j \in 1..Len(q) : q[j] = u => i = j
  BY DEF Linked
<1>3. n.previous \in Uris \cup {None} /\ n.next \in Uris \cup {None}
  BY <1>1 DEF Nodes
<1>4. /\ r \in Seq(Uris)
      /\ Len(r) = Len(q) - 1
      /\ \A j \in 1..(Len(q) - 1) : r[j] = IF j < i THEN q[j] ELSE q[j + 1]
  BY RemoveAtEntries
<1>5. /\ after \in [Uris -> Nodes]
      /\ \A v \in Uris :
            after[v] = IF v = n.previous THEN [l.node[v] EXCEPT !.next = n.next] ELSE l.node[v]
  BY <1>1, <1>3, NoneIsNoUri DEF setNext, Nodes
<1> HIDE DEF after
<1>6. /\ linked \in [Uris -> Nodes]
      /\ \A v \in Uris :
            linked[v] = IF v = n.next THEN [after[v] EXCEPT !.previous = n.previous] ELSE after[v]
  <2>1. CASE n.next = None
    <3>1. linked = after
      BY <2>1 DEF setPrevious
    <3>2. \A v \in Uris : v # n.next
      BY <2>1, NoneIsNoUri
    <3> HIDE DEF linked, n
    <3> QED BY <1>5, <3>1, <3>2
  <2>2. CASE n.next # None
    <3>1. linked = [after EXCEPT ![n.next].previous = n.previous]
      BY <2>2 DEF setPrevious
    <3> HIDE DEF linked, n
    <3>2. n.next \in Uris /\ n.previous \in Uris \cup {None}
      BY <1>3, <2>2
    <3>3. [after[n.next] EXCEPT !.previous = n.previous] \in Nodes
      BY <1>5, <3>2 DEF Nodes
    <3> QED BY <1>5, <3>1, <3>2, <3>3
  <2> QED BY <2>1, <2>2
<1> HIDE DEF linked
<1> DEFINE nodes == [linked EXCEPT ![u].removed = TRUE]
<1>7. /\ nodes \in [Uris -> Nodes]
      /\ \A v \in Uris : v # u => nodes[v] = linked[v]
  BY <1>1, <1>6 DEF Nodes
<1>8. remove(l, u) = [head |-> IF l.head = u THEN n.next ELSE l.head,
                      tail |-> IF l.tail = u THEN n.previous ELSE l.tail,
                      node |-> nodes]
  BY <1>2 DEF remove, linked, after
<1> HIDE DEF nodes, n, r
<1>9. remove(l, u) \in ListType
  BY <1>1, <1>3, <1>7, <1>8 DEF ListType
<1>10. (IF l.head = u THEN n.next ELSE l.head) = Elem(r, 1)
  <2>1. l.head = Elem(q, 1)
    BY DEF Linked
  <2>2. CASE i = 1
    BY <1>2, <1>4, <2>1, <2>2 DEF Elem
  <2>3. CASE i # 1
    <3>1. l.head = q[1] /\ q[1] # u
      BY <1>2, <2>1, <2>3 DEF Elem
    <3>2. Elem(r, 1) = q[1]
      BY <1>4, <2>3 DEF Elem
    <3> QED
      BY <3>1, <3>2
  <2> QED
    BY <2>2, <2>3
<1>11. (IF l.tail = u THEN n.previous ELSE l.tail) = Elem(r, Len(r))
  <2>1. l.tail = Elem(q, Len(q))
    BY DEF Linked
  <2>2. CASE i = Len(q)
    BY <1>2, <1>4, <2>1, <2>2 DEF Elem
  <2>3. CASE i # Len(q)
    <3>1. l.tail = q[Len(q)] /\ q[Len(q)] # u
      BY <1>2, <2>1, <2>3 DEF Elem
    <3>2. Elem(r, Len(r)) = q[Len(q)]
      BY <1>4, <2>3 DEF Elem
    <3> QED
      BY <3>1, <3>2
  <2> QED
    BY <2>2, <2>3
<1>12. ASSUME NEW j \in 1..Len(r)
       PROVE  /\ \A k \in 1..Len(r) : r[j] = r[k] => j = k
              /\ ~nodes[r[j]].removed
              /\ nodes[r[j]].previous = Elem(r, j - 1)
              /\ nodes[r[j]].next = Elem(r, j + 1)
  <2> DEFINE p == IF j < i THEN j ELSE j + 1
  <2>1. p \in 1..Len(q) /\ p # i /\ r[j] = q[p] /\ q[p] \in Uris
    BY <1>4
  <2>2. /\ \A k \in 1..Len(q) : q[p] = q[k] => p = k
        /\ ~l.node[q[p]].removed
        /\ l.node[q[p]].previous = Elem(q, p - 1)
        /\ l.node[q[p]].next = Elem(q, p + 1)
    BY <2>1 DEF Linked
  <2>3. q[p] # u
    BY <1>2, <2>1
  <2>4. ASSUME NEW k \in 1..Len(r), r[j] = r[k] PROVE j = k
    <3> DEFINE m == IF k < i THEN k ELSE k + 1
    <3>1. m \in 1..Len(q) /\ r[k] = q[m]
      BY <1>4
    <3>2. p = m
      BY <2>1, <2>2, <2>4, <3>1
    <3> QED
      BY <3>2
  <2>5. (q[p] = n.previous) <=> (p = i - 1)
    BY <1>2, <2>1, <2>2, NoneIsNoUri DEF Elem
  <2>6. (q[p] = n.next) <=> (p = i + 1)
    BY <1>2, <2>1, <2>2, NoneIsNoUri DEF Elem
  <2>7. after[q[p]] = IF p = i - 1 THEN [l.node[q[p]] EXCEPT !.next = n.next] ELSE l.node[q[p]]
    BY <1>5, <2>1, <2>5
  <2>8. nodes[q[p]] = IF p = i + 1 THEN [after[q[p]] EXCEPT !.previous = n.previous] ELSE after[q[p]]
    BY <1>6, <1>7, <2>1, <2>3, <2>6
  <2>9. l.node[q[p]] \in Nodes
    BY <1>1, <2>1
  <2>10. /\ ~nodes[q[p]].removed
         /\ nodes[q[p]].previous = IF p = i + 1 THEN n.previous ELSE l.node[q[p]].previous
         /\ nodes[q[p]].next = IF p = i - 1 THEN n.next ELSE l.node[q[p]].next
    BY <2>2, <2>7, <2>8, <2>9, SMTT(30) DEF Nodes
  <2>11. nodes[q[p]].previous = Elem(r, j - 1)
    BY <1>2, <1>4, <2>1, <2>2, <2>10 DEF Elem
  <2>12. nodes[q[p]].next = Elem(r, j + 1)
    BY <1>2, <1>4, <2>1, <2>2, <2>10 DEF Elem
  <2> QED
    BY <2>1, <2>4, <2>10, <2>11, <2>12
<1>13. Linked(remove(l, u), r)
  BY <1>8, <1>10, <1>11, <1>12 DEF Linked
<1> QED
  BY <1>9, <1>13 DEF r

(* An entry linked at the end of the list, from which it was absent.           *)
Linking(l, u) ==
    [head |-> IF l.head = None THEN u ELSE l.head,
     tail |-> u,
     node |-> setNext([l.node EXCEPT ![u] =
                          [previous |-> l.tail, next |-> None, removed |-> FALSE]], l.tail, u)]

(* Linking a node behind the tail appends its uri to the entries that are      *)
(* linked.                                                                     *)
LEMMA LinkingAppends ==
    ASSUME NEW l \in ListType, NEW q \in Seq(Uris), Linked(l, q),
           NEW u \in Uris, \A i \in 1..Len(q) : q[i] # u
    PROVE  /\ Linking(l, u) \in ListType
           /\ Linked(Linking(l, u), Append(q, u))
<1> DEFINE n == [previous |-> l.tail, next |-> None, removed |-> FALSE]
           with == [l.node EXCEPT ![u] = n]
           nodes == setNext(with, l.tail, u)
           r == Append(q, u)
<1>1. /\ l.node \in [Uris -> Nodes]
      /\ l.head \in Uris \cup {None} /\ l.tail \in Uris \cup {None}
  BY DEF ListType
<1>2. /\ l.head = Elem(q, 1) /\ l.tail = Elem(q, Len(q))
      /\ \A i \in 1..Len(q) :
            /\ \A j \in 1..Len(q) : q[i] = q[j] => i = j
            /\ ~l.node[q[i]].removed
            /\ l.node[q[i]].previous = Elem(q, i - 1)
            /\ l.node[q[i]].next = Elem(q, i + 1)
  BY DEF Linked
<1>3. l.tail # u
  BY <1>2, NoneIsNoUri DEF Elem
<1>4. /\ n \in Nodes /\ with \in [Uris -> Nodes] /\ with[u] = n
      /\ \A v \in Uris : v # u => with[v] = l.node[v]
  BY <1>1 DEF Nodes
<1> HIDE DEF with
<1>5. /\ nodes \in [Uris -> Nodes]
      /\ \A v \in Uris :
            nodes[v] = IF v = l.tail THEN [with[v] EXCEPT !.next = u] ELSE with[v]
  BY <1>1, <1>4, NoneIsNoUri DEF setNext, Nodes
<1>6. nodes[u] = n
  BY <1>3, <1>4, <1>5
<1> HIDE DEF nodes
<1>7. Linking(l, u) = [head |-> IF l.head = None THEN u ELSE l.head, tail |-> u, node |-> nodes]
  BY DEF Linking, nodes, with
<1>8. Linking(l, u) \in ListType
  BY <1>1, <1>5, <1>7 DEF ListType
<1>9. /\ r \in Seq(Uris) /\ Len(r) = Len(q) + 1
      /\ \A j \in 1..Len(q) : r[j] = q[j]
      /\ r[Len(q) + 1] = u
  OBVIOUS
<1> HIDE DEF r
<1>10. (IF l.head = None THEN u ELSE l.head) = Elem(r, 1)
  BY <1>2, <1>9, NoneIsNoUri DEF Elem
<1>11. u = Elem(r, Len(r))
  BY <1>9 DEF Elem
<1>12. ASSUME NEW j \in 1..Len(r)
       PROVE  /\ \A k \in 1..Len(r) : r[j] = r[k] => j = k
              /\ ~nodes[r[j]].removed
              /\ nodes[r[j]].previous = Elem(r, j - 1)
              /\ nodes[r[j]].next = Elem(r, j + 1)
  <2>1. CASE j = Len(q) + 1
    <3>1. r[j] = u /\ \A k \in 1..Len(r) : r[j] = r[k] => j = k
      BY <1>9, <2>1
    <3>2. l.tail = Elem(r, j - 1) /\ None = Elem(r, j + 1)
      BY <1>2, <1>9, <2>1 DEF Elem
    <3> QED
      BY <1>6, <3>1, <3>2 DEF n
  <2>2. CASE j # Len(q) + 1
    <3>1. j \in 1..Len(q) /\ r[j] = q[j] /\ q[j] \in Uris /\ q[j] # u
      BY <1>9, <2>2
    <3>2. ASSUME NEW k \in 1..Len(r), r[j] = r[k] PROVE j = k
      <4>1. k \in 1..Len(q)
        BY <1>9, <3>1, <3>2
      <4> QED
        BY <1>2, <1>9, <3>1, <3>2, <4>1
    <3>3. (q[j] = l.tail) <=> (j = Len(q))
      BY <1>2, <3>1, NoneIsNoUri DEF Elem
    <3>4. nodes[q[j]] = IF j = Len(q) THEN [l.node[q[j]] EXCEPT !.next = u] ELSE l.node[q[j]]
      BY <1>4, <1>5, <3>1, <3>3
    <3>5. l.node[q[j]] \in Nodes
      BY <1>1, <3>1
    <3>6. /\ ~nodes[q[j]].removed
          /\ nodes[q[j]].previous = l.node[q[j]].previous
          /\ nodes[q[j]].next = IF j = Len(q) THEN u ELSE l.node[q[j]].next
      BY <1>2, <3>1, <3>4, <3>5 DEF Nodes
    <3>7. Elem(q, j - 1) = Elem(r, j - 1)
      BY <1>9, <3>1 DEF Elem
    <3>8. (IF j = Len(q) THEN u ELSE Elem(q, j + 1)) = Elem(r, j + 1)
      BY <1>9, <3>1 DEF Elem
    <3> QED
      BY <1>2, <3>1, <3>2, <3>6, <3>7, <3>8
  <2> QED
    BY <2>1, <2>2
<1>13. Linked(Linking(l, u), r)
  BY <1>7, <1>10, <1>11, <1>12 DEF Linked
<1> QED
  BY <1>8, <1>13 DEF r

(* pushNode moves an entry of the list to its end.                             *)
LEMMA PushNodeMoves ==
    ASSUME NEW l \in ListType, NEW q \in Seq(Uris), NEW i \in 1..Len(q), Linked(l, q)
    PROVE  /\ pushNode(l, q[i]) \in ListType
           /\ Linked(pushNode(l, q[i]), Append(RemoveAt(q, i), q[i]))
<1> DEFINE u == q[i]
           r == RemoveAt(q, i)
<1>1. u \in Uris /\ \A j \in 1..Len(q) : q[j] = u => i = j
  BY DEF Linked
<1>2. /\ r \in Seq(Uris)
      /\ Len(r) = Len(q) - 1
      /\ \A j \in 1..(Len(q) - 1) : r[j] = IF j < i THEN q[j] ELSE q[j + 1]
  BY RemoveAtEntries
<1>3. remove(l, u) \in ListType /\ Linked(remove(l, u), r)
  BY RemoveUnlinks
<1> HIDE DEF r
<1>4. CASE l.tail = u
  <2>1. i = Len(q)
    BY <1>1, <1>4, NoneIsNoUri DEF Linked, Elem
  <2>2. Append(r, u) \in Seq(Uris) /\ Len(Append(r, u)) = Len(q)
    BY <1>1, <1>2
  <2>3. \A j \in 1..Len(q) : Append(r, u)[j] = q[j]
    BY <1>1, <1>2, <2>1
  <2>4. Append(r, u) = q
    BY <2>2, <2>3
  <2>5. pushNode(l, u) = l
    BY <1>4 DEF pushNode
  <2> QED
    BY <2>4, <2>5 DEF r
<1>5. CASE l.tail # u
  <2>1. \A j \in 1..Len(r) : r[j] # u
    <3>1. ASSUME NEW j \in 1..Len(r) PROVE r[j] # u
      <4> DEFINE p == IF j < i THEN j ELSE j + 1
      <4>1. p \in 1..Len(q) /\ p # i /\ r[j] = q[p]
        BY <1>2
      <4> QED
        BY <1>1, <4>1
    <3> QED
      BY <3>1
  <2>2. pushNode(l, u) = Linking(remove(l, u), u)
    BY <1>5 DEF pushNode, Linking
  <2>3. Linking(remove(l, u), u) \in ListType /\ Linked(Linking(remove(l, u), u), Append(r, u))
    BY <1>1, <1>2, <1>3, <2>1, LinkingAppends
  <2> QED
    BY <2>2, <2>3 DEF r
<1> QED
  BY <1>4, <1>5

(* push appends an entry that was absent.                                      *)
LEMMA PushAppends ==
    ASSUME NEW l \in ListType, NEW q \in Seq(Uris), Linked(l, q),
           NEW u \in Uris, \A i \in 1..Len(q) : q[i] # u
    PROVE  /\ push(l, u) \in ListType
           /\ Linked(push(l, u), Append(q, u))
<1> DEFINE n == [previous |-> l.tail, next |-> None, removed |-> FALSE]
           k == [l EXCEPT !.node[u] = n]
           m == remove(k, u)
<1>1. /\ l.node \in [Uris -> Nodes]
      /\ l.head \in Uris \cup {None} /\ l.tail \in Uris \cup {None}
      /\ l = [head |-> l.head, tail |-> l.tail, node |-> l.node]
  BY DEF ListType
<1>2. n \in Nodes
  BY <1>1 DEF Nodes
<1>3. /\ k \in ListType /\ k.head = l.head /\ k.tail = l.tail /\ k.node[u] = n
      /\ \A v \in Uris : v # u => k.node[v] = l.node[v]
  BY <1>1, <1>2 DEF ListType
<1> HIDE DEF k
<1>4. l.head # u /\ l.tail # u
  BY NoneIsNoUri DEF Linked, Elem
<1>5. l.tail # None => l.node[l.tail].next = None
  BY NoneIsNoUri DEF Linked, Elem
<1>6. k.node \in [Uris -> Nodes]
  BY <1>3 DEF ListType
<1> DEFINE linked == setPrevious(setNext(k.node, l.tail, None), None, l.tail)
<1>7. linked = setNext(k.node, l.tail, None)
  BY DEF linked, setPrevious
<1>8. \A v \in Uris : linked[v] = k.node[v]
  <2>1. CASE l.tail = None
    BY <1>7, <2>1 DEF setNext
  <2>2. CASE l.tail # None
    <3>1. /\ l.tail \in Uris /\ k.node[l.tail] = l.node[l.tail]
          /\ k.node[l.tail] \in Nodes /\ k.node[l.tail].next = None
      BY <1>1, <1>3, <1>4, <1>5, <1>6, <2>2
    <3>2. [k.node[l.tail] EXCEPT !.next = None] = k.node[l.tail]
      BY <3>1 DEF Nodes
    <3>3. linked = [k.node EXCEPT ![l.tail] = [k.node[l.tail] EXCEPT !.next = None]]
      BY <1>7, <2>2 DEF setNext
    <3> QED
      BY <1>6, <3>1, <3>2, <3>3
  <2> QED
    BY <2>1, <2>2
<1>9. linked \in [Uris -> Nodes]
  BY <1>1, <1>6, <1>7, NoneIsNoUri DEF setNext, Nodes
<1> HIDE DEF linked
<1>10. m = [head |-> l.head, tail |-> l.tail, node |-> [linked EXCEPT ![u].removed = TRUE]]
  <2>1. m = [head |-> IF k.head = u THEN n.next ELSE k.head,
             tail |-> IF k.tail = u THEN n.previous ELSE k.tail,
             node |-> [linked EXCEPT ![u].removed = TRUE]]
    BY <1>3 DEF remove, linked
  <2> QED
    BY <1>3, <1>4, <2>1
<1> DEFINE nodes == [linked EXCEPT ![u].removed = TRUE]
<1>11. nodes \in [Uris -> Nodes] /\ \A v \in Uris : v # u => nodes[v] = l.node[v]
  BY <1>3, <1>8, <1>9 DEF Nodes
<1> HIDE DEF nodes
<1>12. m = [head |-> l.head, tail |-> l.tail, node |-> nodes]
  BY <1>10 DEF nodes
<1> HIDE DEF m
<1>13. m \in ListType /\ m.head = l.head /\ m.tail = l.tail /\ m.node = nodes
  BY <1>1, <1>11, <1>12 DEF ListType
<1>14. Linked(m, q)
  <2>1. \A i \in 1..Len(q) : m.node[q[i]] = l.node[q[i]]
    BY <1>11, <1>13
  <2> QED
    BY <1>13, <2>1 DEF Linked
<1>15. push(l, u) = Linking(m, u)
  BY <1>3, <1>4 DEF push, pushNode, Linking, m, k
<1>16. Linking(m, u) \in ListType /\ Linked(Linking(m, u), Append(q, u))
  BY <1>13, <1>14, LinkingAppends
<1> QED
  BY <1>15, <1>16

(* Numbers that exist have a least one.                                        *)
LEMMA LeastExists ==
    ASSUME NEW S \in SUBSET Nat, S # {}
    PROVE  \E i \in S : \A j \in S : i <= j
<1>1. PICK x \in S : \A y \in S : ~(<<y, x>> \in OpToRel(<, Nat))
  BY WFMin, NatLessThanWellFounded
<1>2. \A y \in S : ~(y < x)
  BY <1>1 DEF OpToRel
<1>3. ASSUME NEW y \in S PROVE x <= y
  <2>1. x \in Nat /\ y \in Nat /\ ~(y < x)
    BY <1>2
  <2> QED
    BY <2>1
<1> QED
  BY <1>3

(* A sequence without repetitions has as many entries as its length says.      *)
LEMMA DistinctEntries ==
    ASSUME NEW q \in Seq(Uris), \A i, j \in 1..Len(q) : q[i] = q[j] => i = j
    PROVE  /\ Range(q) \subseteq Uris /\ IsFiniteSet(Range(q))
           /\ Cardinality(Range(q)) = Len(q)
           /\ Len(q) <= Cardinality(Uris)
<1>1. DOMAIN q = 1..Len(q) /\ Len(q) \in Nat /\ Range(q) = {q[i] : i \in 1..Len(q)}
  BY DEF Range
<1>2. Range(q) \subseteq Uris
  BY <1>1
<1>3. IsFiniteSet(Range(q)) /\ Cardinality(Range(q)) <= Cardinality(Uris)
  BY <1>2, FS_Subset, TrackCacheAssumption
<1>4. q \in [1..Len(q) -> Range(q)]
  BY <1>1
<1>5. q \in Bijection(1..Len(q), Range(q))
  BY <1>1, <1>4 DEF Bijection, Injection, Surjection, IsInjective
<1>6. IsFiniteSet(1..Len(q)) /\ Cardinality(1..Len(q)) = Len(q)
  BY <1>1, FS_Interval
<1>7. Cardinality(Range(q)) = Len(q)
  BY <1>5, <1>6, FS_Bijection DEF ExistsBijection
<1> QED
  BY <1>2, <1>3, <1>7

(* Following the pointers from one end meets what they link, in this order.    *)
LEMMA WalkMeets ==
    ASSUME NEW q \in Seq(Uris), Len(q) <= Cardinality(Uris),
           NEW first, first = Elem(q, 1), NEW follow,
           \A i \in 1..Len(q) : follow[q[i]] = Elem(q, i + 1)
    PROVE  Walk(first, follow) = q
<1> DEFINE steps == 1..(Cardinality(Uris) + 1)
           F(at) == [n \in steps |-> IF n = 1 THEN first
                                     ELSE IF at[n - 1] = None THEN None ELSE follow[at[n - 1]]]
           w == [n \in steps |-> Elem(q, n)]
           at0 == CHOOSE at : at = F(at)
<1>1. Cardinality(Uris) \in Nat /\ Len(q) \in Nat
  BY FS_CardinalityType, TrackCacheAssumption
<1>2. ASSUME NEW n \in steps
      PROVE  w[n] = IF n = 1 THEN first
                    ELSE IF w[n - 1] = None THEN None ELSE follow[w[n - 1]]
  <2>1. CASE n = 1
    BY <2>1
  <2>2. CASE n # 1
    <3>1. n - 1 \in steps /\ w[n - 1] = Elem(q, n - 1) /\ w[n] = Elem(q, n)
      BY <1>1, <2>2
    <3>2. CASE n - 1 <= Len(q)
      <4>1. n - 1 \in 1..Len(q)
        BY <1>1, <2>2, <3>2
      <4>2. w[n - 1] = q[n - 1] /\ q[n - 1] \in Uris
        BY <3>1, <4>1 DEF Elem
      <4>3. follow[q[n - 1]] = Elem(q, (n - 1) + 1) /\ (n - 1) + 1 = n
        BY <1>1, <4>1
      <4> QED
        BY <2>2, <3>1, <4>2, <4>3, NoneIsNoUri
    <3>3. CASE ~(n - 1 <= Len(q))
      BY <1>1, <2>2, <3>1, <3>3 DEF Elem
    <3> QED
      BY <3>2, <3>3
  <2> QED
    BY <2>1, <2>2
<1>3. w = F(w)
  BY <1>2
<1> HIDE DEF w
<1>4. at0 = F(at0)
  BY <1>3
<1> HIDE DEF at0
<1>5. \A n \in steps : at0[n] = w[n]
  <2> DEFINE bad == {n \in steps : at0[n] # w[n]}
  <2> SUFFICES ASSUME bad # {} PROVE FALSE
    OBVIOUS
  <2>1. bad \in SUBSET Nat
    BY <1>1
  <2>2. PICK n \in bad : \A m \in bad : n <= m
    <3> HIDE DEF bad
    <3> QED
      BY <2>1, LeastExists
  <2>3. n \in steps /\ at0[n] # w[n]
    BY <2>2
  <2>4. at0[n] = IF n = 1 THEN first
                 ELSE IF at0[n - 1] = None THEN None ELSE follow[at0[n - 1]]
    BY <1>4, <2>3
  <2>5. n # 1 => n - 1 \in steps /\ n - 1 \notin bad
    BY <1>1, <2>2, <2>3
  <2>6. n # 1 => at0[n - 1] = w[n - 1]
    BY <2>5
  <2> QED
    BY <1>2, <2>3, <2>4, <2>6
<1>6. at0 = w
  <2>1. DOMAIN at0 = steps
    BY <1>4
  <2>2. DOMAIN w = steps
    BY <1>3
  <2>3. at0 = [n \in steps |-> at0[n]] /\ w = [n \in steps |-> w[n]]
    BY <1>3, <1>4
  <2> QED
    BY <1>5, <2>3
<1>7. \A n \in steps : w[n] = Elem(q, n)
  BY DEF w
<1>8. {m \in steps : w[m] # None} = 1..Len(q)
  BY <1>1, <1>7, NoneIsNoUri DEF Elem
<1>9. Cardinality(1..Len(q)) = Len(q)
  <2>1. 1 \in Int /\ Len(q) \in Int
    BY <1>1
  <2>2. Cardinality(1..Len(q)) = IF 1 > Len(q) THEN 0 ELSE Len(q) - 1 + 1
    BY <2>1, FS_Interval
  <2> QED
    BY <1>1, <2>2
<1>10. \A n \in 1..Len(q) : w[n] = q[n]
  BY <1>1, <1>7 DEF Elem
<1>11. Walk(first, follow) = [n \in 1..Cardinality({m \in steps : at0[m] # None}) |-> at0[n]]
  BY DEF Walk, at0
<1>12. Walk(first, follow) = [n \in 1..Len(q) |-> w[n]]
  BY <1>6, <1>8, <1>9, <1>11, ZenonT(60)
<1>13. [n \in 1..Len(q) |-> w[n]] = [n \in 1..Len(q) |-> q[n]]
  BY <1>10
<1> QED
  BY <1>12, <1>13

(* From either end, a list is walked as it is linked.                          *)
LEMMA ListIsWalked ==
    ASSUME NEW l \in ListType, NEW q \in Seq(Uris), Linked(l, q)
    PROVE  /\ FromHead(l) = q
           /\ FromTail(l) = Reverse(q)
           /\ Range(q) \subseteq Uris /\ IsFiniteSet(Range(q))
           /\ Cardinality(Range(q)) = Len(q)
           /\ \A i, j \in 1..Len(q) : q[i] = q[j] => i = j
<1>1. \A i, j \in 1..Len(q) : q[i] = q[j] => i = j
  BY DEF Linked
<1>2. /\ Range(q) \subseteq Uris /\ IsFiniteSet(Range(q))
      /\ Cardinality(Range(q)) = Len(q) /\ Len(q) <= Cardinality(Uris)
  BY <1>1, DistinctEntries
<1>3. FromHead(l) = q
  <2> DEFINE follow == [u \in Uris |-> l.node[u].next]
  <2>1. l.head = Elem(q, 1)
    BY DEF Linked
  <2>2. \A i \in 1..Len(q) : follow[q[i]] = Elem(q, i + 1)
    BY DEF Linked
  <2> HIDE DEF follow
  <2>3. Walk(l.head, follow) = q
    BY <1>2, <2>1, <2>2, WalkMeets
  <2> QED
    BY <2>3 DEF FromHead, follow
<1>4. FromTail(l) = Reverse(q)
  <2> DEFINE follow == [u \in Uris |-> l.node[u].previous]
             r == Reverse(q)
  <2>1. r \in Seq(Uris) /\ Len(r) = Len(q) /\ \A i \in 1..Len(q) : r[i] = q[(Len(q) - i) + 1]
    BY DEF Reverse
  <2>2. l.tail = Elem(r, 1)
    BY <2>1 DEF Linked, Elem
  <2>3. ASSUME NEW i \in 1..Len(r) PROVE follow[r[i]] = Elem(r, i + 1)
    <3> DEFINE p == (Len(q) - i) + 1
    <3>1. p \in 1..Len(q) /\ r[i] = q[p]
      BY <2>1
    <3>2. follow[q[p]] = Elem(q, p - 1)
      BY <3>1, SMTT(30) DEF Linked
    <3>3. Elem(q, p - 1) = Elem(r, i + 1)
      <4>1. CASE i = Len(q)
        BY <2>1, <4>1 DEF Elem
      <4>2. CASE i # Len(q)
        <5>1. i \in Nat /\ Len(q) \in Nat /\ 1 <= i /\ i <= Len(q) /\ Len(r) = Len(q)
          BY <2>1
        <5>2. i + 1 \in 1..Len(q) /\ p - 1 \in 1..Len(q)
          BY <4>2, <5>1
        <5>3. r[i + 1] = q[(Len(q) - (i + 1)) + 1] /\ (Len(q) - (i + 1)) + 1 = p - 1
          BY <2>1, <5>1, <5>2
        <5> QED
          BY <5>1, <5>2, <5>3 DEF Elem
      <4> QED
        BY <4>1, <4>2
    <3> QED
      BY <3>1, <3>2, <3>3
  <2> HIDE DEF follow, r
  <2>4. Walk(l.tail, follow) = r
    BY <1>2, <2>1, <2>2, <2>3, WalkMeets
  <2> QED
    BY <2>4 DEF FromTail, follow, r
<1> QED
  BY <1>1, <1>2, <1>3, <1>4

--------------------------------------------------------------------------------
\* The prefetch window and the agenda

(* A sequence has no more entries than its length says.                        *)
LEMMA RangeBound ==
    ASSUME NEW S, NEW q \in Seq(S)
    PROVE  /\ Range(q) = {q[i] : i \in 1..Len(q)} /\ Range(q) \subseteq S
           /\ IsFiniteSet(Range(q)) /\ Cardinality(Range(q)) <= Len(q)
<1>1. DOMAIN q = 1..Len(q) /\ Len(q) \in Nat
  OBVIOUS
<1>2. Range(q) = {q[i] : i \in 1..Len(q)} /\ Range(q) \subseteq S
  BY <1>1 DEF Range
<1>3. q \in [1..Len(q) -> Range(q)]
  BY <1>1, <1>2
<1>4. q \in Surjection(1..Len(q), Range(q))
  BY <1>2, <1>3 DEF Surjection
<1>5. IsFiniteSet(1..Len(q)) /\ Cardinality(1..Len(q)) = Len(q)
  <2>1. 1 \in Int /\ Len(q) \in Int
    BY <1>1
  <2>2. /\ IsFiniteSet(1..Len(q))
        /\ Cardinality(1..Len(q)) = IF 1 > Len(q) THEN 0 ELSE Len(q) - 1 + 1
    BY <2>1, FS_Interval
  <2> QED
    BY <1>1, <2>2
<1>6. IsFiniteSet(Range(q)) /\ Cardinality(Range(q)) <= Cardinality(1..Len(q))
  BY <1>4, <1>5, FS_Surjection
<1> QED
  BY <1>2, <1>5, <1>6

(* The window holds what is current, and count entries of the queue at most.   *)
LEMMA WindowIs ==
    ASSUME NEW c \in Uris \cup {None}, NEW q \in Seq(Uris), NEW count \in Nat
    PROVE  /\ window(c, q, count) \in Seq(Uris)
           /\ Len(window(c, q, count)) <= count + 1
           /\ Range(window(c, q, count)) \subseteq Uris
           /\ IsFiniteSet(Range(window(c, q, count)))
           /\ Cardinality(Range(window(c, q, count))) <= count + 1
           /\ c # None => c \in Range(window(c, q, count))
           /\ c = None /\ q = <<>> => window(c, q, count) = <<>>
<1> DEFINE n == IF Len(q) < count THEN Len(q) ELSE count
           a == IF c = None THEN <<>> ELSE <<c>>
           b == SubSeq(q, 1, n)
           w == a \o b
<1>1. n \in Nat /\ n <= Len(q) /\ n <= count
  OBVIOUS
<1> HIDE DEF n
<1>2. b \in Seq(Uris) /\ Len(b) = n
  BY <1>1
<1>3. a \in Seq(Uris) /\ Len(a) <= 1 /\ (c # None => Len(a) = 1 /\ a[1] = c)
  OBVIOUS
<1> HIDE DEF a, b
<1>4. w \in Seq(Uris) /\ Len(w) = Len(a) + Len(b)
  BY <1>2, <1>3, ConcatProperties
<1>5. ASSUME c # None PROVE 1 \in 1..Len(w) /\ w[1] = c
  <2>1. Len(a) = 1 /\ a[1] = c
    BY <1>3, <1>5
  <2>2. (a \o b)[1] = a[1]
    <3>1. a \in Seq(Uris) /\ b \in Seq(Uris) /\ 1 \in 1..(Len(a) + Len(b)) /\ 1 <= Len(a)
      BY <1>1, <1>2, <1>3, <2>1
    <3> QED
      BY <3>1, ConcatProperties
  <2> QED
    BY <1>1, <1>2, <1>4, <2>1, <2>2
<1>6. window(c, q, count) = w
  BY DEF window, w, a, b, n
<1>7. c = None /\ q = <<>> => w = <<>>
  <2> SUFFICES ASSUME c = None, q = <<>> PROVE w = <<>>
    OBVIOUS
  <2>1. Len(w) = 0
    BY <1>1, <1>2, <1>4 DEF a
  <2> QED
    BY <1>4, <2>1
<1> HIDE DEF w
<1>8. /\ Range(w) = {w[i] : i \in 1..Len(w)} /\ Range(w) \subseteq Uris
      /\ IsFiniteSet(Range(w)) /\ Cardinality(Range(w)) <= Len(w)
  BY <1>4, RangeBound
<1>9. Len(w) <= count + 1
  BY <1>1, <1>2, <1>3, <1>4
<1>10. Cardinality(Range(w)) \in Nat /\ Len(w) \in Nat
  BY <1>4, <1>8, FS_CardinalityType
<1> QED
  BY <1>4, <1>5, <1>6, <1>7, <1>8, <1>9, <1>10

(* An operation is still to come.                                              *)
Pends(ag, op) == \E i \in 1..Len(ag) : ag[i].op = op

(* The tracks still to be preloaded.                                           *)
Pending(ag) == {ag[i].uri : i \in {j \in 1..Len(ag) : ag[j].op = "preload"}}

(* The agendas of calls: a get precedes the set it is for, the capacity is     *)
(* looked at first, and the end of enqueue and of clearTrackCache are last.    *)
Shape(ag, c, us) ==
    \A i \in 1..Len(ag) :
        /\ ag[i].op = "get" => i = 1 /\ Len(ag) > 1 /\ ag[2].op = "set" /\ ag[1].uri = c
        /\ ag[i].op = "set" => i = 1 \/ (i = 2 /\ ag[1].op = "get")
        /\ ag[i].op \in {"capacity", "shrink"} => i = 1
        /\ ag[i].op = "idle" => i = Len(ag)
        /\ ag[i].op = "unload" =>
                /\ i = Len(ag)
                /\ \A j \in 1..Len(ag) : j < i => ag[j].op \in {"capacity", "shrink"}
        /\ ag[i].op = "preload" => ag[i].uri \in us

(* An agenda without its first operation.                                      *)
LEMMA TailShape ==
    ASSUME NEW ag \in Seq(Agendas), ag # <<>>, NEW c, NEW us, Shape(ag, c, us)
    PROVE  /\ Tail(ag) \in Seq(Agendas)
           /\ Shape(Tail(ag), c, us)
           /\ Head(ag) \in Agendas
           /\ ~Pends(Tail(ag), "capacity") /\ ~Pends(Tail(ag), "shrink")
           /\ Head(ag).op # "get" => ~Pends(Tail(ag), "set")
           /\ Head(ag).op \notin {"capacity", "shrink"} => ~Pends(Tail(ag), "unload")
           /\ Head(ag).op = "preload" => Head(ag).uri \in us
           /\ Head(ag).op = "get" => /\ Head(ag).uri = c
                                     /\ Tail(ag) # <<>> /\ Head(Tail(ag)).op = "set"
           /\ Head(ag).op \in {"idle", "unload"} => Tail(ag) = <<>>
           /\ Tail(ag) # <<>> /\ Head(Tail(ag)).op \notin {"preload", "idle"} =>
                    Head(ag).op \in {"get", "capacity", "shrink"}
           /\ Head(ag).op # "preload" => Pending(Tail(ag)) = Pending(ag)
           /\ Pending(ag) \subseteq Pending(Tail(ag)) \cup {Head(ag).uri}
           /\ \A op : Pends(ag, op) <=> (Head(ag).op = op \/ Pends(Tail(ag), op))
<1> DEFINE t == Tail(ag)
<1>1. /\ Len(ag) \in Nat /\ Len(ag) >= 1 /\ ag[1] = Head(ag) /\ Head(ag) \in Agendas
      /\ t \in Seq(Agendas) /\ Len(t) = Len(ag) - 1
      /\ \A i \in 1..Len(t) : t[i] = ag[i + 1]
  OBVIOUS
<1> HIDE DEF t
<1>2. /\ \A i \in 1..Len(t) : i + 1 \in 1..Len(ag) /\ t[i] = ag[i + 1] /\ i + 1 # 1
      /\ \A i \in 1..Len(ag) : i # 1 => i - 1 \in 1..Len(t) /\ t[i - 1] = ag[i]
  <2>1. ASSUME NEW i \in 1..Len(ag), i # 1 PROVE i - 1 \in 1..Len(t) /\ t[i - 1] = ag[i]
    <3>1. i - 1 \in 1..Len(t) /\ (i - 1) + 1 = i
      BY <1>1, <2>1
    <3> QED
      BY <1>1, <3>1
  <2> QED
    BY <1>1, <2>1
<1>3. ASSUME NEW i \in 1..Len(t)
      PROVE  /\ t[i].op # "get" /\ t[i].op \notin {"capacity", "shrink"}
             /\ t[i].op = "set" => i = 1 /\ Head(ag).op = "get"
             /\ t[i].op = "idle" => i = Len(t)
             /\ t[i].op = "unload" => i = Len(t) /\ i = 1 /\ Head(ag).op \in {"capacity", "shrink"}
             /\ t[i].op = "preload" => t[i].uri \in us
  <2>1. i + 1 \in 1..Len(ag) /\ t[i] = ag[i + 1] /\ i + 1 # 1
    BY <1>2
  <2>2. /\ t[i].op # "get" /\ t[i].op \notin {"capacity", "shrink"}
        /\ t[i].op = "set" => i + 1 = 2 /\ ag[1].op = "get"
        /\ t[i].op = "idle" => i + 1 = Len(ag)
        /\ t[i].op = "preload" => t[i].uri \in us
    BY <2>1 DEF Shape
  <2>3. ASSUME t[i].op = "unload"
        PROVE  i = Len(t) /\ i = 1 /\ Head(ag).op \in {"capacity", "shrink"}
    <3>1. i + 1 = Len(ag) /\ \A j \in 1..Len(ag) : j < i + 1 => ag[j].op \in {"capacity", "shrink"}
      BY <2>1, <2>3 DEF Shape
    <3>2. 1 \in 1..Len(ag) /\ 1 < i + 1
      BY <1>1, <2>1
    <3>3. ag[i].op \in {"capacity", "shrink"} /\ i \in 1..Len(ag)
      BY <1>1, <2>1, <3>1
    <3>4. i = 1
      BY <3>3 DEF Shape
    <3> QED
      BY <1>1, <3>1, <3>2, <3>4
  <2> QED
    BY <1>1, <2>2, <2>3
<1>4. Shape(t, c, us)
  <2> SUFFICES ASSUME NEW i \in 1..Len(t)
               PROVE  /\ t[i].op = "get" => i = 1 /\ Len(t) > 1 /\ t[2].op = "set" /\ t[1].uri = c
                      /\ t[i].op = "set" => i = 1 \/ (i = 2 /\ t[1].op = "get")
                      /\ t[i].op \in {"capacity", "shrink"} => i = 1
                      /\ t[i].op = "idle" => i = Len(t)
                      /\ t[i].op = "unload" =>
                            /\ i = Len(t)
                            /\ \A j \in 1..Len(t) : j < i => t[j].op \in {"capacity", "shrink"}
                      /\ t[i].op = "preload" => t[i].uri \in us
    BY DEF Shape
  <2> QED
    BY <1>3
<1>5. ~Pends(t, "capacity") /\ ~Pends(t, "shrink")
  BY <1>3 DEF Pends
<1>6. /\ Head(ag).op # "get" => ~Pends(t, "set")
      /\ (Head(ag).op \notin {"capacity", "shrink"} => ~Pends(t, "unload"))
  BY <1>3 DEF Pends
<1>7. t # <<>> => Len(t) >= 1 /\ Head(t) = t[1]
  BY <1>1
<1>8. /\ Head(ag).op = "preload" => Head(ag).uri \in us
      /\ Head(ag).op = "get" => Head(ag).uri = c /\ t # <<>> /\ Head(t).op = "set"
      /\ Head(ag).op \in {"idle", "unload"} => t = <<>>
  <2>1. 1 \in 1..Len(ag)
    BY <1>1
  <2>2. Head(ag).op = "preload" => Head(ag).uri \in us
    BY <1>1, <2>1 DEF Shape
  <2>3. ASSUME Head(ag).op = "get" PROVE Head(ag).uri = c /\ t # <<>> /\ Head(t).op = "set"
    <3>1. Len(ag) > 1 /\ ag[2].op = "set" /\ ag[1].uri = c
      BY <1>1, <2>1, <2>3 DEF Shape
    <3>2. 1 \in 1..Len(t) /\ t[1] = ag[1 + 1]
      BY <1>1, <3>1
    <3> QED
      BY <1>1, <1>7, <3>1, <3>2
  <2>4. ASSUME Head(ag).op \in {"idle", "unload"} PROVE t = <<>>
    <3>1. Len(ag) = 1
      BY <1>1, <2>1, <2>4 DEF Shape
    <3> QED
      BY <1>1, <3>1
  <2> QED
    BY <2>2, <2>3, <2>4
<1>9. ASSUME t # <<>>, Head(t).op \notin {"preload", "idle"}
      PROVE  Head(ag).op \in {"get", "capacity", "shrink"}
  <2>1. 1 \in 1..Len(t) /\ Head(t) = t[1] /\ t[1] \in Agendas
    BY <1>1, <1>7, <1>9
  <2>2. t[1].op \in {"get", "preload", "set", "capacity", "shrink", "idle", "unload"}
    BY <2>1 DEF Agendas
  <2>3. t[1].op \in {"set", "unload"}
    BY <1>3, <1>9, <2>1, <2>2
  <2> QED
    BY <1>3, <2>1, <2>3
<1>10. Pending(t) \subseteq Pending(ag)
  BY <1>2 DEF Pending
<1>11. ASSUME NEW v \in Pending(ag)
       PROVE  v \in Pending(t) \/ (v = Head(ag).uri /\ Head(ag).op = "preload")
  <2>1. PICK i \in 1..Len(ag) : ag[i].op = "preload" /\ ag[i].uri = v
    BY DEF Pending
  <2>2. CASE i = 1
    BY <1>1, <2>1, <2>2
  <2>3. CASE i # 1
    <3>1. i - 1 \in 1..Len(t) /\ t[i - 1].op = "preload" /\ t[i - 1].uri = v
      BY <1>2, <2>1, <2>3
    <3> QED
      BY <3>1 DEF Pending
  <2> QED
    BY <2>2, <2>3
<1>12. ASSUME NEW op PROVE Pends(ag, op) <=> (Head(ag).op = op \/ Pends(t, op))
  <2>1. Pends(ag, op) => (Head(ag).op = op \/ Pends(t, op))
    <3> SUFFICES ASSUME NEW i \in 1..Len(ag), ag[i].op = op
                 PROVE  Head(ag).op = op \/ Pends(t, op)
      BY DEF Pends
    <3> QED
      BY <1>1, <1>2 DEF Pends
  <2>2. Pends(t, op) => Pends(ag, op)
    BY <1>2 DEF Pends
  <2>3. Head(ag).op = op => Pends(ag, op)
    BY <1>1 DEF Pends
  <2> QED
    BY <2>1, <2>2, <2>3
<1> QED
  BY <1>1, <1>4, <1>5, <1>6, <1>8, <1>9, <1>10, <1>11, <1>12 DEF t

--------------------------------------------------------------------------------
\* What the operations of the cache do to the order of its entries

(* A list, the order of its entries and the keys of the map.                   *)
Ordered(l, q, keys) ==
    l \in ListType /\ q \in Seq(Uris) /\ Linked(l, q) /\ Range(q) = keys

(* The entry at i is the longest unused one that may be evicted.               *)
Victim(q, i) ==
    /\ i \in 1..Len(q) /\ onEvicting(q[i])
    /\ \A j \in 1..Len(q) : onEvicting(q[j]) => i <= j

(* In an ordered list both walks give the entries, which are the keys, each    *)
(* once.                                                                       *)
LEMMA OrderedIs ==
    ASSUME NEW l, NEW q, NEW keys, Ordered(l, q, keys)
    PROVE  /\ FromHead(l) = q /\ FromTail(l) = Reverse(q)
           /\ keys \subseteq Uris /\ IsFiniteSet(keys) /\ Cardinality(keys) = Len(q)
           /\ keys = {q[i] : i \in 1..Len(q)}
           /\ \A i, j \in 1..Len(q) : q[i] = q[j] => i = j
BY ListIsWalked, RangeBound DEF Ordered

(* Removing an entry takes its key away.                                       *)
LEMMA RangeRemove ==
    ASSUME NEW q \in Seq(Uris), NEW i \in 1..Len(q),
           \A j, k \in 1..Len(q) : q[j] = q[k] => j = k
    PROVE  Range(RemoveAt(q, i)) = Range(q) \ {q[i]}
<1> DEFINE r == RemoveAt(q, i)
<1>1. /\ r \in Seq(Uris) /\ Len(r) = Len(q) - 1
      /\ \A j \in 1..(Len(q) - 1) : r[j] = IF j < i THEN q[j] ELSE q[j + 1]
  BY RemoveAtEntries
<1> HIDE DEF r
<1>2. Range(r) = {r[j] : j \in 1..Len(r)} /\ Range(q) = {q[j] : j \in 1..Len(q)}
  BY <1>1, RangeBound
<1>3. ASSUME NEW j \in 1..Len(r) PROVE r[j] \in Range(q) \ {q[i]}
  <2> DEFINE p == IF j < i THEN j ELSE j + 1
  <2>1. p \in 1..Len(q) /\ p # i /\ r[j] = q[p]
    BY <1>1
  <2> QED
    BY <1>2, <2>1
<1>4. ASSUME NEW p \in 1..Len(q), p # i PROVE q[p] \in Range(r)
  <2> DEFINE j == IF p < i THEN p ELSE p - 1
  <2>1. j \in 1..Len(r) /\ r[j] = q[p]
    <3>1. CASE p < i
      BY <1>1, <3>1
    <3>2. CASE ~(p < i)
      <4>1. p - 1 \in 1..Len(r) /\ ~(p - 1 < i) /\ (p - 1) + 1 = p
        BY <1>1, <1>4, <3>2
      <4> QED
        BY <1>1, <3>2, <4>1
    <3> QED
      BY <3>1, <3>2
  <2> QED
    BY <1>2, <2>1
<1>5. ASSUME NEW v \in Range(q) \ {q[i]} PROVE v \in Range(r)
  <2>1. PICK p \in 1..Len(q) : v = q[p]
    BY <1>2
  <2> QED
    BY <1>4, <2>1
<1> QED
  BY <1>2, <1>3, <1>5 DEF r

(* Appending an entry adds its key.                                            *)
LEMMA RangeAppend ==
    ASSUME NEW q \in Seq(Uris), NEW u \in Uris
    PROVE  Range(Append(q, u)) = Range(q) \cup {u}
<1> DEFINE r == Append(q, u)
<1>1. r \in Seq(Uris) /\ Len(r) = Len(q) + 1 /\ r[Len(q) + 1] = u
      /\ \A j \in 1..Len(q) : r[j] = q[j]
  BY AppendEntries
<1> HIDE DEF r
<1>2. Range(r) = {r[j] : j \in 1..Len(r)} /\ Range(q) = {q[j] : j \in 1..Len(q)}
  BY <1>1, RangeBound
<1>3. 1..Len(r) = 1..Len(q) \cup {Len(q) + 1}
  BY <1>1
<1> QED
  BY <1>1, <1>2, <1>3 DEF r

(* An entry that is used again moves to the end.                               *)
LEMMA UsedMoves ==
    ASSUME NEW l, NEW q, NEW keys, Ordered(l, q, keys), NEW u \in keys
    PROVE  \E i \in 1..Len(q) :
                /\ q[i] = u
                /\ Ordered(pushNode(l, u), Append(RemoveAt(q, i), u), keys)
<1>1. PICK i \in 1..Len(q) : q[i] = u
  BY OrderedIs
<1>2. l \in ListType /\ q \in Seq(Uris) /\ Linked(l, q) /\ Range(q) = keys /\ u \in Uris
  BY OrderedIs DEF Ordered
<1>3. /\ pushNode(l, u) \in ListType
      /\ Linked(pushNode(l, u), Append(RemoveAt(q, i), u))
  BY <1>1, <1>2, PushNodeMoves
<1>4. RemoveAt(q, i) \in Seq(Uris)
  BY <1>2, RemoveAtEntries
<1>5. Append(RemoveAt(q, i), u) \in Seq(Uris)
  BY <1>2, <1>4, AppendEntries
<1>6. Range(Append(RemoveAt(q, i), u)) = keys
  <2>1. \A j, k \in 1..Len(q) : q[j] = q[k] => j = k
    BY OrderedIs
  <2>2. Range(RemoveAt(q, i)) = keys \ {u}
    BY <1>1, <1>2, <2>1, RangeRemove
  <2>3. Range(Append(RemoveAt(q, i), u)) = (keys \ {u}) \cup {u}
    BY <1>2, <1>4, <2>2, RangeAppend
  <2> QED
    BY <2>3
<1> QED
  BY <1>1, <1>3, <1>5, <1>6 DEF Ordered

(* An entry that is added is the last.                                         *)
LEMMA AddedIsLast ==
    ASSUME NEW l, NEW q, NEW keys, Ordered(l, q, keys), NEW u \in Uris \ keys
    PROVE  Ordered(push(l, u), Append(q, u), keys \cup {u})
<1>1. l \in ListType /\ q \in Seq(Uris) /\ Linked(l, q) /\ Range(q) = keys
  BY DEF Ordered
<1>2. \A i \in 1..Len(q) : q[i] # u
  BY OrderedIs
<1>3. push(l, u) \in ListType /\ Linked(push(l, u), Append(q, u))
  BY <1>1, <1>2, PushAppends
<1>4. Append(q, u) \in Seq(Uris) /\ Range(Append(q, u)) = keys \cup {u}
  BY <1>1, AppendEntries, RangeAppend
<1> QED
  BY <1>3, <1>4 DEF Ordered

(* What is evicted is the victim.                                              *)
LEMMA EvictsVictim ==
    ASSUME NEW l, NEW q, NEW keys, NEW begun, Ordered(l, q, keys),
           evictLeastRecentlyUsed(l, keys, begun)
    PROVE  \E i \in 1..Len(q) :
                /\ Victim(q, i)
                /\ Ordered(list', RemoveAt(q, i), cached')
                /\ cached' = keys \ {q[i]}
                /\ disposeTracks({q[i]}, begun)
<1>1. l \in ListType /\ q \in Seq(Uris) /\ Linked(l, q) /\ Range(q) = keys
  BY DEF Ordered
<1>2. FromHead(l) = q /\ DOMAIN q = 1..Len(q)
  BY <1>1, OrderedIs
<1>3. PICK i \in {j \in 1..Len(q) : onEvicting(q[j])} :
            /\ \A j \in {k \in 1..Len(q) : onEvicting(q[k])} : i <= j
            /\ list' = [remove(l, q[i]) EXCEPT !.node[q[i]] = NoNode]
            /\ cached' = keys \ {q[i]}
            /\ disposeTracks({q[i]}, begun)
  BY <1>2 DEF evictLeastRecentlyUsed
<1>4. i \in 1..Len(q) /\ Victim(q, i)
  BY <1>3 DEF Victim
<1> DEFINE r == RemoveAt(q, i)
           m == remove(l, q[i])
<1>5. m \in ListType /\ Linked(m, r)
  BY <1>1, <1>4, RemoveUnlinks
<1>6. r \in Seq(Uris) /\ Range(r) = keys \ {q[i]}
  <2>1. \A j, k \in 1..Len(q) : q[j] = q[k] => j = k
    BY OrderedIs
  <2> QED
    BY <1>1, <1>4, <2>1, RemoveAtEntries, RangeRemove
<1> HIDE DEF m, r
<1>7. \A j \in 1..Len(r) : r[j] \in Uris /\ r[j] # q[i]
  BY <1>6, RangeBound
<1>8. q[i] \in Uris /\ NoNode \in Nodes
  BY <1>1, <1>4 DEF NoNode, Nodes
<1>9. list' = [m EXCEPT !.node[q[i]] = NoNode]
  BY <1>3 DEF m
<1>10. /\ list' \in ListType /\ list'.head = m.head /\ list'.tail = m.tail
       /\ \A v \in Uris : v # q[i] => list'.node[v] = m.node[v]
  BY <1>5, <1>8, <1>9 DEF ListType
<1>11. Linked(list', r)
  <2>1. \A j \in 1..Len(r) : list'.node[r[j]] = m.node[r[j]]
    BY <1>7, <1>10
  <2> QED
    BY <1>5, <1>10, <2>1 DEF Linked
<1> QED
  BY <1>3, <1>4, <1>6, <1>10, <1>11 DEF Ordered, r

(* The three ways in which a track is asked of the cache.                      *)
Found(u, begun) ==
    /\ u \in cached
    /\ \E i \in 1..Len(FromHead(list)) :
        /\ FromHead(list)[i] = u
        /\ Ordered(list', Append(RemoveAt(FromHead(list), i), u), cached')
    /\ cached' = cached
    /\ disposeTracks({}, begun)

Added(u, begun) ==
    /\ u \notin cached /\ Cardinality(cached) < capacity
    /\ Ordered(list', Append(FromHead(list), u), cached')
    /\ cached' = cached \cup {u}
    /\ disposeTracks({}, begun)

Replaced(u, begun) ==
    /\ u \notin cached /\ Cardinality(cached) >= capacity
    /\ \E i \in 1..Len(Append(FromHead(list), u)) :
        LET q == Append(FromHead(list), u) IN
        /\ Victim(q, i)
        /\ Ordered(list', RemoveAt(q, i), cached')
        /\ cached' = (cached \cup {u}) \ {q[i]}
        /\ disposeTracks({q[i]}, begun)

(* getOrSet of a track finds it, adds it, or adds it in place of a victim.     *)
LEMMA GetsTrack ==
    ASSUME Ordered(list, FromHead(list), cached), capacity \in Nat,
           NEW u \in Uris, NEW begun, getOrCreateTrack(u, begun)
    PROVE  Found(u, begun) \/ Added(u, begun) \/ Replaced(u, begun)
<1> DEFINE q == FromHead(list)
<1>1. IsFiniteSet(cached) /\ Cardinality(cached) \in Nat
  BY OrderedIs, FS_CardinalityType
<1>2. CASE u \in cached
  <2>1. PICK i \in 1..Len(q) :
            q[i] = u /\ Ordered(pushNode(list, u), Append(RemoveAt(q, i), u), cached)
    BY <1>2, UsedMoves
  <2>2. list' = pushNode(list, u) /\ cached' = cached /\ disposeTracks({}, begun)
    <3>1. cached \cup {u} = cached
      BY <1>2
    <3> QED
      BY <1>2, <3>1 DEF getOrCreateTrack
  <2> QED
    BY <1>2, <2>1, <2>2 DEF Found
<1>3. CASE u \notin cached
  <2>1. Cardinality(cached \cup {u}) = Cardinality(cached) + 1
    BY <1>1, <1>3, FS_AddElement
  <2>2. Ordered(push(list, u), Append(q, u), cached \cup {u})
    BY <1>3, AddedIsLast
  <2>3. CASE Cardinality(cached) < capacity
    <3>1. list' = push(list, u) /\ cached' = cached \cup {u} /\ disposeTracks({}, begun)
      BY <1>1, <1>3, <2>1, <2>3 DEF getOrCreateTrack
    <3> QED
      BY <1>3, <2>2, <2>3, <3>1 DEF Added
  <2>4. CASE ~(Cardinality(cached) < capacity)
    <3>1. evictLeastRecentlyUsed(push(list, u), cached \cup {u}, begun)
      BY <1>1, <1>3, <2>1, <2>4 DEF getOrCreateTrack
    <3>2. \E i \in 1..Len(Append(q, u)) :
                /\ Victim(Append(q, u), i)
                /\ Ordered(list', RemoveAt(Append(q, u), i), cached')
                /\ cached' = (cached \cup {u}) \ {Append(q, u)[i]}
                /\ disposeTracks({Append(q, u)[i]}, begun)
      BY <2>2, <3>1, EvictsVictim
    <3>3. Cardinality(cached) >= capacity
      BY <1>1, <2>4
    <3> QED
      BY <1>3, <3>2, <3>3, Zenon DEF Replaced
  <2> QED
    BY <2>3, <2>4
<1> QED
  BY <1>2, <1>3

--------------------------------------------------------------------------------
\* The inductive invariant

(* What must stay in the cache, and what the last call has preloaded so far.   *)
Window == Range(getPrefetched)

Done == asked \ Pending(agenda)

(* What plays is the current entry, or an ad of it, and was not disposed.      *)
Agrees ==
    /\ adParent = ContentTrack(current)
    /\ playing.uri = current /\ ~playing.disposed
    /\ current \in cached \cup {None}

(* The pointers of the list link the keys of the map.                          *)
ListInv == Ordered(list, FromHead(list), cached)

AdsInv == adTracks \subseteq cached /\ loadingAds \subseteq cached \cup {Gone}

(* Who plays agrees with the current entry unless a set is to come, also the   *)
(* one that the end of clearTrackCache brings.                                 *)
CurrentInv ==
    /\ ~Pends(agenda, "set") /\ ~Pends(agenda, "unload") => Agrees
    /\ Pends(agenda, "unload") => cached = {} /\ (current = None => Agrees)
    /\ Doing("set") => current \in cached \cup {None}

(* The capacity follows the options and the preloaded lists, the cache follows *)
(* the capacity, and what was asked for fits beside the window.                *)
CapacityInv ==
    /\ ~Pends(agenda, "capacity") =>
            capacity = preloadCapacity + options.trackPrefetchCount + 1
    /\ ~Pends(agenda, "shrink") => Cardinality(cached) <= capacity
    /\ Cardinality(asked \ Window) <= auto

(* After what was preloaded, the order has only what is preloaded too.         *)
Fresh(q, loaded) == \A i, j \in 1..Len(q) : i < j /\ q[i] \in loaded => q[j] \in asked

PreloadInv ==
    /\ Done \subseteq cached
    /\ agenda # <<>> /\ Head(agenda).op \notin {"preload", "idle"} => Done = {}
    /\ agenda # <<>> => Fresh(FromHead(list), Done)

CacheInv ==
    /\ TrackCacheTypeOK /\ ListInv /\ AdsInv
    /\ Shape(agenda, current, asked)
    /\ CurrentInv /\ CapacityInv /\ PreloadInv

(* The sizes of the queue window and of what is preloaded, in terms of the     *)
(* options.                                                                    *)
LEMMA Sizes ==
    ASSUME TrackCacheTypeOK
    PROVE  /\ options.preloadCapacity \in Nat /\ options.trackPrefetchCount \in Nat
           /\ preloadCapacity \in Nat /\ preloadCapacity >= auto
           /\ getPrefetched \in Seq(Uris)
           /\ Window \subseteq Uris /\ IsFiniteSet(Window)
           /\ Cardinality(Window) <= options.trackPrefetchCount + 1
           /\ current # None => current \in Window
           /\ asked \subseteq Uris /\ IsFiniteSet(asked)
<1>1. /\ options \in Options /\ auto \in Nat /\ current \in Uris \cup {None}
      /\ queue \in Seq(Uris) /\ asked \subseteq Uris
  BY DEF TrackCacheTypeOK
<1>2. options.preloadCapacity \in Nat /\ options.trackPrefetchCount \in Nat
  BY <1>1, TrackCacheAssumption
<1>3. preloadCapacity \in Nat /\ preloadCapacity >= auto
  BY <1>1, <1>2 DEF preloadCapacity
<1>4. IsFiniteSet(asked)
  BY <1>1, FS_Subset, TrackCacheAssumption
<1> QED
  BY <1>1, <1>2, <1>3, <1>4, WindowIs DEF Window, getPrefetched

(* Disposing what left the cache keeps every reference and every ad as it      *)
(* should be, when the current entry does not leave.                           *)
LEMMA SurvivorsStay ==
    ASSUME TrackCacheTypeOK, NEW gone \in SUBSET Uris,
           NEW added \in SUBSET Uris, NEW begun \in SUBSET added,
           cached' = (cached \cup added) \ gone, disposeTracks(gone, begun),
           current' = current
    PROVE  /\ {playing', adParent'} \subseteq Refs \cup {NoTrack}
           /\ adTracks' \subseteq Uris /\ loadingAds' \subseteq Uris \cup {Gone}
           /\ AdsInv => AdsInv'
           /\ Agrees /\ current \notin gone => Agrees'
           /\ current \in (cached \cup added \cup {None}) \ gone => current' \in cached' \cup {None}
<1>1. /\ {playing, adParent} \subseteq Refs \cup {NoTrack}
      /\ adTracks \subseteq Uris /\ loadingAds \subseteq Uris \cup {Gone}
      /\ cached \subseteq Uris /\ current \in Uris \cup {None}
  BY DEF TrackCacheTypeOK
<1>2. /\ playing' = disposedRef(playing, gone) /\ adParent' = disposedRef(adParent, gone)
      /\ adTracks' = adTracks \ gone
      /\ loadingAds' = {IF p \in gone THEN Gone ELSE p : p \in loadingAds \cup begun}
  BY DEF disposeTracks
<1>4. ASSUME NEW ref \in Refs \cup {NoTrack}
      PROVE  /\ disposedRef(ref, gone) \in Refs \cup {NoTrack}
             /\ disposedRef(ref, gone).uri = ref.uri
             /\ ref.uri \notin gone => disposedRef(ref, gone) = ref
  <2>1. ref = [uri |-> ref.uri, ad |-> ref.ad, disposed |-> ref.disposed] /\ ref.disposed \in BOOLEAN
    <3>1. CASE ref \in Refs
      BY <3>1 DEF Refs
    <3>2. CASE ref = NoTrack
      BY <3>2 DEF NoTrack
    <3> QED
      BY <3>1, <3>2
  <2>2. disposedRef(ref, gone) = [uri |-> ref.uri, ad |-> ref.ad,
                                  disposed |-> (ref.disposed \/ ref.uri \in gone)]
    BY <2>1 DEF disposedRef
  <2>3. CASE ref.uri \in gone
    <3>1. ref \in Refs
      BY <2>3, NoneIsNoUri DEF NoTrack
    <3> QED
      BY <2>2, <2>3, <3>1 DEF Refs
  <2>4. CASE ref.uri \notin gone
    <3>1. (ref.disposed \/ ref.uri \in gone) = ref.disposed
      BY <2>1, <2>4
    <3> QED
      BY <2>1, <2>2, <2>4, <3>1
  <2> QED
    BY <2>3, <2>4
<1>5. {playing', adParent'} \subseteq Refs \cup {NoTrack}
  BY <1>1, <1>2, <1>4
<1>6. adTracks' \subseteq Uris /\ loadingAds' \subseteq Uris \cup {Gone}
  BY <1>1, <1>2
<1>7. AdsInv => AdsInv'
  <2> SUFFICES ASSUME AdsInv PROVE AdsInv'
    OBVIOUS
  <2>1. adTracks' \subseteq cached'
    BY <1>2 DEF AdsInv
  <2>2. ASSUME NEW p \in loadingAds \cup begun
        PROVE  (IF p \in gone THEN Gone ELSE p) \in cached' \cup {Gone}
    BY <2>2 DEF AdsInv
  <2>3. loadingAds' \subseteq cached' \cup {Gone}
    BY <1>2, <2>2
  <2> QED
    BY <2>1, <2>3 DEF AdsInv
<1>8. Agrees /\ current \notin gone => Agrees'
  <2> SUFFICES ASSUME Agrees, current \notin gone PROVE Agrees'
    OBVIOUS
  <2>1. /\ adParent = ContentTrack(current) /\ playing.uri = current
        /\ ~playing.disposed /\ current \in cached \cup {None}
    BY DEF Agrees
  <2>2. adParent.uri = current
    BY <2>1 DEF ContentTrack, NoTrack
  <2>3. adParent' = adParent /\ playing' = playing
    BY <1>1, <1>2, <1>4, <2>1, <2>2
  <2>4. current \in cached' \cup {None}
    BY <2>1
  <2>5. ContentTrack(current)' = ContentTrack(current)
    OBVIOUS
  <2> QED
    BY <2>1, <2>3, <2>4, <2>5 DEF Agrees
<1>9. current \in (cached \cup added \cup {None}) \ gone => current' \in cached' \cup {None}
  OBVIOUS
<1> QED
  BY <1>5, <1>6, <1>7, <1>8, <1>9

(* What asking for a track leaves of the cache.                                *)
LEMMA AfterGet ==
    ASSUME TrackCacheTypeOK, ListInv, NEW u \in Uris, NEW begun,
           getOrCreateTrack(u, begun), capacity' = capacity
    PROVE  /\ ListInv'
           /\ list' \in ListType /\ cached' \subseteq Uris
           /\ \E gone \in SUBSET (Uris \ Window) :
                /\ cached' = (cached \cup {u}) \ gone
                /\ disposeTracks(gone, begun)
           /\ Cardinality(cached) <= capacity => Cardinality(cached') <= capacity'
<1> DEFINE q == FromHead(list)
<1>1. Ordered(list, q, cached) /\ capacity \in Nat
  BY DEF ListInv, TrackCacheTypeOK
<1>2. IsFiniteSet(cached) /\ cached \subseteq Uris /\ Cardinality(cached) \in Nat
  BY <1>1, OrderedIs, FS_CardinalityType
<1>3. ASSUME NEW r, Ordered(list', r, cached')
      PROVE  ListInv' /\ list' \in ListType /\ cached' \subseteq Uris
  <2>1. FromHead(list') = r /\ cached' \subseteq Uris
    BY <1>3, OrderedIs
  <2> QED
    BY <1>3, <2>1 DEF ListInv, Ordered
<1>4. CASE Found(u, begun)
  <2>1. PICK i : Ordered(list', Append(RemoveAt(q, i), u), cached')
    BY <1>4 DEF Found
  <2>2. cached' = (cached \cup {u}) \ {} /\ disposeTracks({}, begun) /\ cached' = cached
    BY <1>4 DEF Found
  <2> QED
    BY <1>3, <2>1, <2>2
<1>5. CASE Added(u, begun)
  <2>1. /\ Ordered(list', Append(q, u), cached') /\ cached' = cached \cup {u}
        /\ disposeTracks({}, begun) /\ u \notin cached /\ Cardinality(cached) < capacity
    BY <1>5 DEF Added
  <2>2. Cardinality(cached') = Cardinality(cached) + 1
    BY <1>2, <2>1, FS_AddElement
  <2>3. Cardinality(cached') <= capacity
    BY <1>1, <1>2, <2>1, <2>2
  <2>4. cached' = (cached \cup {u}) \ {}
    BY <2>1
  <2> QED
    BY <1>3, <2>1, <2>3, <2>4
<1>6. CASE Replaced(u, begun)
  <2> DEFINE r == Append(q, u)
  <2>1. PICK i \in 1..Len(r) :
            /\ Victim(r, i) /\ Ordered(list', RemoveAt(r, i), cached')
            /\ cached' = (cached \cup {u}) \ {r[i]}
            /\ disposeTracks({r[i]}, begun)
    BY <1>6 DEF Replaced
  <2>2. u \notin cached
    BY <1>6 DEF Replaced
  <2>3. Ordered(push(list, u), r, cached \cup {u})
    BY <1>1, <2>2, AddedIsLast
  <2>4. r[i] \in cached \cup {u}
    <3> HIDE DEF r
    <3>1. cached \cup {u} = {r[j] : j \in 1..Len(r)}
      BY <2>3, OrderedIs
    <3> QED
      BY <2>1, <3>1
  <2>5. r[i] \in Uris \ Window
    BY <1>2, <2>1, <2>4 DEF Victim, onEvicting, Window
  <2>6. /\ IsFiniteSet(cached \cup {u}) /\ Cardinality(cached \cup {u}) = Cardinality(cached) + 1
    BY <1>2, <2>2, FS_AddElement
  <2>7. Cardinality(cached') = Cardinality(cached \cup {u}) - 1
    BY <2>1, <2>4, <2>6, FS_RemoveElement
  <2>8. Cardinality(cached') = Cardinality(cached)
    BY <1>2, <2>6, <2>7
  <2>9. {r[i]} \in SUBSET (Uris \ Window)
    BY <2>5
  <2> HIDE DEF r
  <2> QED
    BY <1>3, <2>1, <2>8, <2>9
<1> QED
  BY <1>1, <1>4, <1>5, <1>6, GetsTrack

(* Removing an entry brings nothing that was not asked for behind a loaded     *)
(* one.                                                                        *)
LEMMA FreshRemove ==
    ASSUME NEW q \in Seq(Uris), NEW i \in 1..Len(q), NEW loaded, Fresh(q, loaded)
    PROVE  Fresh(RemoveAt(q, i), loaded)
<1> DEFINE r == RemoveAt(q, i)
           p(j) == IF j < i THEN j ELSE j + 1
<1>1. /\ r \in Seq(Uris) /\ Len(r) = Len(q) - 1
      /\ \A j \in 1..(Len(q) - 1) : r[j] = IF j < i THEN q[j] ELSE q[j + 1]
  BY RemoveAtEntries
<1> HIDE DEF r
<1>2. \A j \in 1..Len(r) : p(j) \in 1..Len(q) /\ r[j] = q[p(j)]
  BY <1>1
<1>3. \A j, k \in 1..Len(r) : j < k => p(j) < p(k)
  BY <1>1
<1> HIDE DEF p
<1>4. ASSUME NEW j \in 1..Len(r), NEW k \in 1..Len(r), j < k, r[j] \in loaded
      PROVE  r[k] \in asked
  BY <1>2, <1>3, <1>4 DEF Fresh
<1> QED
  BY <1>4 DEF Fresh, r

(* An entry that was asked for may be loaded and go last.                      *)
LEMMA FreshAppend ==
    ASSUME NEW q \in Seq(Uris), NEW loaded, Fresh(q, loaded),
           NEW u \in Uris, u \in asked, \A i \in 1..Len(q) : q[i] # u
    PROVE  Fresh(Append(q, u), loaded \cup {u})
<1> DEFINE r == Append(q, u)
<1>1. /\ Len(q) \in Nat /\ Len(r) = Len(q) + 1 /\ r[Len(q) + 1] = u
      /\ \A j \in 1..Len(q) : r[j] = q[j]
  BY AppendEntries
<1> HIDE DEF r
<1>2. ASSUME NEW j \in 1..Len(r), NEW k \in 1..Len(r), j < k, r[j] \in loaded \cup {u}
      PROVE  r[k] \in asked
  <2>1. j \in 1..Len(q) /\ r[j] = q[j]
    BY <1>1, <1>2
  <2>2. q[j] \in loaded
    BY <1>2, <2>1
  <2>3. CASE k = Len(q) + 1
    BY <1>1, <2>3
  <2>4. CASE k # Len(q) + 1
    <3>1. k \in 1..Len(q) /\ r[k] = q[k]
      BY <1>1, <2>4
    <3> QED
      BY <1>2, <2>1, <2>2, <3>1 DEF Fresh
  <2> QED
    BY <2>3, <2>4
<1> QED
  BY <1>2 DEF Fresh, r

(* What was preloaded by this call is never the victim: were all entries that  *)
(* may be evicted among what the call asked for, they would all have room.     *)
LEMMA VictimIsNotDone ==
    ASSUME TrackCacheTypeOK, CapacityInv, ~Pends(agenda, "capacity"),
           NEW q \in Seq(Uris), NEW keys, Range(q) = keys,
           IsFiniteSet(keys), Cardinality(keys) > capacity,
           NEW loaded \in SUBSET asked, Fresh(q, loaded), NEW i \in 1..Len(q), Victim(q, i)
    PROVE  q[i] \notin loaded
<1> SUFFICES ASSUME q[i] \in loaded PROVE FALSE
  OBVIOUS
<1>1. ASSUME NEW j \in 1..Len(q) PROVE q[j] \in Window \cup asked
  <2>1. CASE j < i
    BY <2>1 DEF Victim, onEvicting, Window
  <2>2. CASE j = i
    BY <2>2
  <2>3. CASE i < j
    BY <2>3 DEF Fresh
  <2> QED
    BY <2>1, <2>2, <2>3
<1>2. keys \subseteq Window \cup (asked \ Window)
  BY <1>1, RangeBound
<1>3. /\ IsFiniteSet(Window) /\ IsFiniteSet(asked \ Window)
      /\ Cardinality(Window) <= options.trackPrefetchCount + 1
      /\ Cardinality(Window) \in Nat /\ Cardinality(asked \ Window) \in Nat
      /\ options.trackPrefetchCount \in Nat /\ preloadCapacity \in Nat /\ preloadCapacity >= auto
  BY Sizes, FS_Subset, FS_CardinalityType
<1>4. /\ IsFiniteSet(Window \cup (asked \ Window))
      /\ Cardinality(Window \cup (asked \ Window)) <= Cardinality(Window) + Cardinality(asked \ Window)
  <2>1. Window \cap (asked \ Window) = {}
    OBVIOUS
  <2>2. Cardinality(Window \cap (asked \ Window)) = 0
    BY <2>1, FS_EmptySet
  <2>3. /\ IsFiniteSet(Window \cup (asked \ Window))
        /\ Cardinality(Window \cup (asked \ Window))
              = Cardinality(Window) + Cardinality(asked \ Window)
                    - Cardinality(Window \cap (asked \ Window))
    BY <1>3, FS_Union
  <2> QED
    BY <1>3, <2>2, <2>3
<1>5. Cardinality(keys) <= Cardinality(Window \cup (asked \ Window))
  BY <1>2, <1>4, FS_Subset
<1>6. Cardinality(keys) \in Nat /\ Cardinality(Window \cup (asked \ Window)) \in Nat
  BY <1>4, FS_CardinalityType
<1>7. /\ capacity = preloadCapacity + options.trackPrefetchCount + 1
      /\ Cardinality(asked \ Window) <= auto
      /\ auto \in Nat /\ capacity \in Nat
  BY DEF CapacityInv, TrackCacheTypeOK
<1>8. Cardinality(keys) <= capacity
  BY <1>3, <1>4, <1>5, <1>6, <1>7, SMTT(30)
<1> QED
  BY <1>6, <1>7, <1>8

(* One more track of the call is preloaded, and none of those before is lost.  *)
LEMMA PreloadedStay ==
    ASSUME CacheInv, agenda # <<>>, Head(agenda).op = "preload",
           NEW u, u = Head(agenda).uri, u \in Uris, NEW begun, getOrCreateTrack(u, begun),
           agenda' = Tail(agenda), asked' = asked
    PROVE  PreloadInv'
<1> DEFINE q == FromHead(list)
           loaded == Done \cup {u}
<1>1. /\ TrackCacheTypeOK /\ ListInv /\ Shape(agenda, current, asked)
      /\ CapacityInv /\ PreloadInv
  BY DEF CacheInv
<1>2. agenda \in Seq(Agendas) /\ capacity \in Nat
  BY <1>1 DEF TrackCacheTypeOK
<1>3. /\ ~Pends(Tail(agenda), "capacity") /\ ~Pends(Tail(agenda), "shrink")
      /\ u \in asked
      /\ Pending(agenda) \subseteq Pending(Tail(agenda)) \cup {u}
      /\ \A op : Pends(agenda, op) <=> (Head(agenda).op = op \/ Pends(Tail(agenda), op))
      /\ Tail(agenda) # <<>> /\ Head(Tail(agenda)).op \notin {"preload", "idle"} =>
            Head(agenda).op \in {"get", "capacity", "shrink"}
  BY <1>1, <1>2, TailShape
<1>4. ~Pends(agenda, "capacity") /\ ~Pends(agenda, "shrink")
  BY <1>3
<1>5. Done' \subseteq loaded /\ loaded \subseteq asked
  BY <1>3 DEF Done
<1>6. Done \subseteq cached /\ Fresh(q, Done)
  BY <1>1 DEF PreloadInv
<1>7. Ordered(list, q, cached) /\ q \in Seq(Uris) /\ Range(q) = cached
  BY <1>1 DEF ListInv, Ordered
<1>8. /\ IsFiniteSet(cached) /\ Cardinality(cached) \in Nat
      /\ cached = {q[i] : i \in 1..Len(q)}
      /\ \A i, j \in 1..Len(q) : q[i] = q[j] => i = j
  BY <1>7, OrderedIs, FS_CardinalityType
<1> HIDE DEF q
<1>9. ASSUME NEW r, Ordered(list', r, cached'), Fresh(r, loaded), loaded \subseteq cached'
      PROVE  PreloadInv'
  <2>1. FromHead(list') = r
    BY <1>9, OrderedIs
  <2>2. Fresh(r, Done')
    BY <1>5, <1>9 DEF Fresh
  <2>3. Fresh(FromHead(list), Done)'
    BY <2>1, <2>2 DEF Fresh
  <2>4. agenda' # <<>> => Head(agenda').op \in {"preload", "idle"}
    BY <1>3
  <2> QED
    BY <1>5, <1>9, <2>3, <2>4 DEF PreloadInv
<1>10. CASE Found(u, begun)
  <2>1. PICK i \in 1..Len(q) :
            q[i] = u /\ Ordered(list', Append(RemoveAt(q, i), u), cached')
    BY <1>10 DEF Found, q
  <2>2. cached' = cached /\ u \in cached
    BY <1>10 DEF Found
  <2>3. RemoveAt(q, i) \in Seq(Uris) /\ Fresh(RemoveAt(q, i), Done)
    BY <1>6, <1>7, RemoveAtEntries, FreshRemove
  <2>4. \A j \in 1..Len(RemoveAt(q, i)) : RemoveAt(q, i)[j] # u
    <3>1. Range(RemoveAt(q, i)) = Range(q) \ {u}
      BY <1>7, <1>8, <2>1, RangeRemove
    <3>2. Range(RemoveAt(q, i)) = {RemoveAt(q, i)[j] : j \in 1..Len(RemoveAt(q, i))}
      BY <2>3, RangeBound
    <3> QED
      BY <3>1, <3>2
  <2>5. Fresh(Append(RemoveAt(q, i), u), loaded)
    BY <1>3, <2>3, <2>4, FreshAppend
  <2> QED
    BY <1>6, <1>9, <2>1, <2>2, <2>5
<1>11. CASE Added(u, begun) \/ Replaced(u, begun)
  <2> DEFINE r == Append(q, u)
  <2>1. u \notin cached
    BY <1>11 DEF Added, Replaced
  <2>2. \A i \in 1..Len(q) : q[i] # u
    BY <1>8, <2>1
  <2>3. r \in Seq(Uris) /\ Fresh(r, loaded) /\ Range(r) = cached \cup {u}
    BY <1>3, <1>6, <1>7, <2>2, FreshAppend, RangeAppend
  <2>4. CASE Added(u, begun)
    <3>1. Ordered(list', r, cached') /\ cached' = cached \cup {u}
      BY <2>4 DEF Added, q
    <3> QED
      BY <1>6, <1>9, <2>3, <3>1
  <2>5. CASE Replaced(u, begun)
    <3>1. PICK i \in 1..Len(r) :
              /\ Victim(r, i) /\ Ordered(list', RemoveAt(r, i), cached')
              /\ cached' = (cached \cup {u}) \ {r[i]}
      BY <2>5 DEF Replaced, q
    <3>2. Cardinality(cached) >= capacity
      BY <2>5 DEF Replaced
    <3>3. IsFiniteSet(cached \cup {u}) /\ Cardinality(cached \cup {u}) = Cardinality(cached) + 1
      BY <1>8, <2>1, FS_AddElement
    <3>4. Cardinality(cached \cup {u}) > capacity
      BY <1>2, <1>8, <3>2, <3>3
    <3> HIDE DEF r
    <3>5. r[i] \notin loaded
      BY <1>1, <1>4, <1>5, <2>3, <3>1, <3>3, <3>4, VictimIsNotDone
    <3>6. Fresh(RemoveAt(r, i), loaded)
      BY <2>3, <3>1, FreshRemove
    <3> QED
      BY <1>6, <1>9, <3>1, <3>5, <3>6
  <2> QED
    BY <1>11, <2>4, <2>5
<1> QED
  BY <1>2, <1>7, <1>10, <1>11, GetsTrack DEF q

--------------------------------------------------------------------------------
\* Agendas that calls begin with

(* Nothing is left to do in an empty agenda.                                   *)
LEMMA NothingPends == \A op : ~Pends(<<>>, op)
BY DEF Pends

(* Nothing is behind what was loaded when nothing was.                         *)
LEMMA FreshNothing == ASSUME NEW q PROVE Fresh(q, {})
BY DEF Fresh

(* The preloads of a call, after what comes before them.                       *)
LEMMA PreloadsFollow ==
    ASSUME NEW a \in Seq(Agendas), NEW us \in Seq(Uris), NEW c,
           \A i \in 1..Len(a) : a[i].op \notin {"preload", "idle", "unload"}, Shape(a, c, {})
    PROVE  /\ a \o Preloads(us) \in Seq(Agendas)
           /\ Shape(a \o Preloads(us), c, Range(us))
           /\ \A op : op # "preload" => (Pends(a \o Preloads(us), op) <=> Pends(a, op))
           /\ Range(us) \subseteq Pending(a \o Preloads(us))
           /\ a # <<>> => Head(a \o Preloads(us)) = a[1]
           /\ a = <<>> /\ a \o Preloads(us) # <<>> => Head(a \o Preloads(us)).op = "preload"
<1> DEFINE p == Preloads(us)
           ag == a \o p
<1>1. /\ Len(us) \in Nat /\ DOMAIN us = 1..Len(us)
      /\ Range(us) = {us[i] : i \in 1..Len(us)}
  BY RangeBound
<1>2. ASSUME NEW i \in 1..Len(us)
      PROVE  /\ Do("preload", us[i]) \in Agendas
             /\ Do("preload", us[i]).op = "preload" /\ Do("preload", us[i]).uri = us[i]
  BY DEF Do, Agendas
<1>3. /\ p \in Seq(Agendas) /\ Len(p) = Len(us)
      /\ \A i \in 1..Len(us) : p[i] = Do("preload", us[i])
  BY <1>1, <1>2 DEF Preloads
<1> HIDE DEF p
<1>4. /\ ag \in Seq(Agendas) /\ Len(ag) = Len(a) + Len(us) /\ Len(a) \in Nat
      /\ \A i \in 1..(Len(a) + Len(p)) : ag[i] = IF i <= Len(a) THEN a[i] ELSE p[i - Len(a)]
  <2>1. /\ a \o p \in Seq(Agendas) /\ Len(a \o p) = Len(a) + Len(p)
        /\ \A i \in 1..(Len(a) + Len(p)) : (a \o p)[i] = IF i <= Len(a) THEN a[i] ELSE p[i - Len(a)]
    BY <1>3, ConcatProperties
  <2>2. Len(a) \in Nat
    OBVIOUS
  <2> QED
    BY <1>3, <2>1, <2>2
<1> HIDE DEF ag
<1>5. /\ \A i \in 1..Len(a) : i \in 1..Len(ag) /\ ag[i] = a[i]
      /\ \A i \in 1..Len(us) : /\ Len(a) + i \in 1..Len(ag)
                               /\ ag[Len(a) + i] = Do("preload", us[i])
  <2>1. ASSUME NEW i \in 1..Len(us)
        PROVE  Len(a) + i \in 1..Len(ag) /\ ag[Len(a) + i] = Do("preload", us[i])
    <3>1. /\ Len(a) + i \in 1..(Len(a) + Len(p)) /\ Len(a) + i \in 1..Len(ag)
          /\ ~(Len(a) + i <= Len(a)) /\ (Len(a) + i) - Len(a) = i
      BY <1>1, <1>3, <1>4
    <3> QED
      BY <1>3, <1>4, <3>1
  <2> QED
    BY <1>3, <1>4, <2>1
<1>6. ASSUME NEW i \in 1..Len(ag), i > Len(a)
      PROVE  ag[i].op = "preload" /\ ag[i].uri \in Range(us)
  <2>1. i - Len(a) \in 1..Len(us) /\ ag[i] = p[i - Len(a)]
    BY <1>1, <1>3, <1>4, <1>6
  <2> QED
    BY <1>1, <1>2, <1>3, <2>1
<1>7. ASSUME NEW op, op # "preload" PROVE Pends(ag, op) <=> Pends(a, op)
  <2>1. ASSUME NEW i \in 1..Len(ag), ag[i].op = op PROVE i \in 1..Len(a) /\ a[i].op = op
    <3>1. ~(i > Len(a))
      BY <1>6, <1>7, <2>1
    <3>2. i \in 1..Len(a)
      BY <1>4, <3>1
    <3> QED
      BY <1>5, <2>1, <3>2
  <2> QED
    BY <1>5, <2>1 DEF Pends
<1>8. Range(us) \subseteq Pending(ag)
  <2> SUFFICES ASSUME NEW i \in 1..Len(us) PROVE us[i] \in Pending(ag)
    BY <1>1
  <2>1. Len(a) + i \in 1..Len(ag) /\ ag[Len(a) + i].op = "preload" /\ ag[Len(a) + i].uri = us[i]
    BY <1>2, <1>5
  <2> QED
    BY <2>1 DEF Pending
<1>9. Shape(ag, c, Range(us))
  <2> SUFFICES ASSUME NEW i \in 1..Len(ag)
               PROVE  /\ ag[i].op = "get" =>
                            i = 1 /\ Len(ag) > 1 /\ ag[2].op = "set" /\ ag[1].uri = c
                      /\ ag[i].op = "set" => i = 1 \/ (i = 2 /\ ag[1].op = "get")
                      /\ ag[i].op \in {"capacity", "shrink"} => i = 1
                      /\ ag[i].op = "idle" => i = Len(ag)
                      /\ ag[i].op = "unload" =>
                            /\ i = Len(ag)
                            /\ \A j \in 1..Len(ag) : j < i => ag[j].op \in {"capacity", "shrink"}
                      /\ ag[i].op = "preload" => ag[i].uri \in Range(us)
    BY DEF Shape
  <2>1. CASE i > Len(a)
    BY <1>6, <2>1
  <2>2. CASE ~(i > Len(a))
    <3>1. i \in 1..Len(a) /\ ag[i] = a[i] /\ ag[1] = a[1] /\ 1 \in 1..Len(a)
      BY <1>4, <1>5, <2>2
    <3>2. /\ a[i].op \notin {"preload", "idle", "unload"}
          /\ a[i].op = "get" => i = 1 /\ Len(a) > 1 /\ a[2].op = "set" /\ a[1].uri = c
          /\ a[i].op = "set" => i = 1 \/ (i = 2 /\ a[1].op = "get")
          /\ a[i].op \in {"capacity", "shrink"} => i = 1
      BY <3>1 DEF Shape
    <3>3. Len(a) > 1 => ag[2] = a[2] /\ Len(ag) > 1
      BY <1>1, <1>4, <1>5
    <3> QED
      BY <3>1, <3>2, <3>3
  <2> QED
    BY <2>1, <2>2
<1>10. a # <<>> => Head(ag) = a[1]
  <2> SUFFICES ASSUME a # <<>> PROVE Head(ag) = a[1]
    OBVIOUS
  <2>1. 1 \in 1..Len(a)
    BY <1>4
  <2>2. Head(ag) = ag[1]
    BY <1>4
  <2> QED
    BY <1>5, <2>1, <2>2
<1>11. a = <<>> /\ ag # <<>> => Head(ag).op = "preload"
  <2> SUFFICES ASSUME a = <<>>, ag # <<>> PROVE Head(ag).op = "preload"
    OBVIOUS
  <2>1. Len(a) = 0 /\ 1 \in 1..Len(ag) /\ Head(ag) = ag[1]
    BY <1>4
  <2> QED
    BY <1>6, <2>1
<1> QED
  BY <1>4, <1>7, <1>8, <1>9, <1>10, <1>11 DEF ag, p

(* What comes before them in setQueue and in preload.                          *)
LEMMA Beginnings ==
    ASSUME NEW c \in Uris \cup {None}
    PROVE  LET get == IF c = None THEN <<>> ELSE <<Do("get", c)>>
               a == Append(get, Do("set", None))
               b == <<Do("capacity", None)>>
           IN  /\ a \in Seq(Agendas) /\ Shape(a, c, {}) /\ Pends(a, "set") /\ a # <<>>
               /\ \A i \in 1..Len(a) : a[i].op \in {"get", "set"}
               /\ a[1].op = "set" => c = None
               /\ b \in Seq(Agendas) /\ Shape(b, c, {}) /\ Pends(b, "capacity") /\ b # <<>>
               /\ \A i \in 1..Len(b) : b[i].op = "capacity"
<1> DEFINE get == IF c = None THEN <<>> ELSE <<Do("get", c)>>
           a == Append(get, Do("set", None))
           b == <<Do("capacity", None)>>
<1>1. Do("set", None) \in Agendas /\ Do("set", None).op = "set"
  BY DEF Do, Agendas
<1>2. Do("capacity", None) \in Agendas /\ Do("capacity", None).op = "capacity"
  BY DEF Do, Agendas
<1>3. b \in Seq(Agendas) /\ Len(b) = 1 /\ b[1].op = "capacity"
  BY <1>2
<1>4. Shape(b, c, {}) /\ Pends(b, "capacity")
  BY <1>3 DEF Shape, Pends
<1>5. CASE c = None
  <2>1. a = <<Do("set", None)>>
    BY <1>5
  <2> HIDE DEF a
  <2>2. a \in Seq(Agendas) /\ Len(a) = 1 /\ a[1].op = "set" /\ a # <<>>
    BY <1>1, <2>1
  <2>3. Shape(a, c, {}) /\ Pends(a, "set")
    BY <2>2 DEF Shape, Pends
  <2>4. \A i \in 1..Len(a) : a[i].op \in {"get", "set"}
    BY <2>2
  <2> QED
    BY <1>3, <1>4, <1>5, <2>2, <2>3, <2>4 DEF a
<1>6. CASE c # None
  <2>1. Do("get", c) \in Agendas /\ Do("get", c).op = "get" /\ Do("get", c).uri = c
    BY <1>6 DEF Do, Agendas
  <2>2. get \in Seq(Agendas) /\ Len(get) = 1 /\ get[1] = Do("get", c)
    BY <1>6, <2>1
  <2> HIDE DEF get
  <2>3. /\ a \in Seq(Agendas) /\ Len(a) = 2 /\ a # <<>>
        /\ a[1].op = "get" /\ a[1].uri = c /\ a[2].op = "set"
    <3>1. /\ a \in Seq(Agendas) /\ Len(a) = Len(get) + 1
          /\ \A j \in 1..Len(get) : a[j] = get[j]
          /\ a[Len(get) + 1] = Do("set", None)
      <4> HIDE DEF a
      <4>1. ASSUME NEW s \in Agendas, a = Append(get, s)
            PROVE  /\ a \in Seq(Agendas) /\ Len(a) = Len(get) + 1
                   /\ \A j \in 1..Len(get) : a[j] = get[j]
                   /\ a[Len(get) + 1] = s
        <5>1. /\ Append(get, s) \in Seq(Agendas) /\ Len(Append(get, s)) = Len(get) + 1
              /\ \A j \in 1..Len(get) : Append(get, s)[j] = get[j]
              /\ Append(get, s)[Len(get) + 1] = s
          <6>1. get \in Seq(Agendas)
            BY <2>2
          <6> QED
            BY <6>1, AppendEntries
        <5> QED
          BY <4>1, <5>1
      <4>2. a = Append(get, Do("set", None))
        BY DEF a
      <4> QED
        BY <1>1, <4>1, <4>2
    <3> HIDE DEF a
    <3>2. Len(a) = 2 /\ a[1] = get[1] /\ a[2] = Do("set", None)
      BY <2>2, <3>1
    <3>3. a # <<>>
      BY <3>2
    <3> QED
      BY <1>1, <2>1, <2>2, <3>1, <3>2, <3>3, Zenon
  <2> HIDE DEF a
  <2>4. Shape(a, c, {}) /\ Pends(a, "set")
    BY <2>3 DEF Shape, Pends
  <2>5. \A i \in 1..Len(a) : a[i].op \in {"get", "set"}
    BY <2>3
  <2>6. a[1].op # "set"
    BY <2>3
  <2> QED
    BY <1>3, <1>4, <2>3, <2>4, <2>5, <2>6 DEF a, get
<1> QED
  BY <1>5, <1>6

--------------------------------------------------------------------------------
\* Every step keeps the invariant

(* setQueue, at the end of the call in progress: who plays is set again, or it *)
(* is the current entry already.                                               *)
LEMMA SetsQueue ==
    ASSUME CacheInv, NEW c \in Uris \cup {None}, NEW q \in Seq(Uris), Len(q) <= MaxQueue,
           NEW fresh \in BOOLEAN, setQueue(c, q, fresh),
           agenda = <<>> \/ Tail(agenda) = <<>>,
           ~Pends(agenda, "capacity"), ~Pends(agenda, "shrink"),
           ~fresh => c = current /\ Agrees,
           UNCHANGED <<cacheVars, options, auto, trackVars>>
    PROVE  CacheInv'
<1> DEFINE w == window(c, q, options.trackPrefetchCount)
           get == IF c = None THEN <<>> ELSE <<Do("get", c)>>
           a == IF fresh THEN Append(get, Do("set", None)) ELSE <<>>
<1>1. TrackCacheTypeOK /\ ListInv /\ AdsInv /\ CapacityInv
  BY DEF CacheInv
<1>2. /\ list' = list /\ cached' = cached /\ capacity' = capacity
      /\ options' = options /\ auto' = auto
      /\ playing' = playing /\ adParent' = adParent
      /\ adTracks' = adTracks /\ loadingAds' = loadingAds
  BY DEF cacheVars, trackVars
<1>3. options.trackPrefetchCount \in Nat
  BY <1>1, Sizes
<1>4. w \in Seq(Uris) /\ Range(w) \subseteq Uris
  BY <1>3, WindowIs
<1>5. /\ a \in Seq(Agendas) /\ Shape(a, c, {})
      /\ \A i \in 1..Len(a) : a[i].op \in {"get", "set"}
      /\ fresh => Pends(a, "set") /\ a # <<>> /\ (a[1].op = "set" => c = None)
      /\ ~fresh => a = <<>>
  <2>1. CASE fresh
    BY <2>1, Beginnings
  <2>2. CASE ~fresh
    BY <2>2 DEF Shape
  <2> QED
    BY <2>1, <2>2
<1>6. /\ current' = c /\ queue' = q /\ asked' = Range(w)
      /\ agenda' = (a \o Preloads(w)) \o (IF agenda = <<>> THEN <<>> ELSE Tail(agenda))
  BY DEF setQueue
<1> HIDE DEF a, w
<1>7. \A i \in 1..Len(a) : a[i].op \notin {"preload", "idle", "unload"}
  BY <1>5
<1>8. /\ a \o Preloads(w) \in Seq(Agendas)
      /\ Shape(a \o Preloads(w), c, Range(w))
      /\ \A op : op # "preload" => (Pends(a \o Preloads(w), op) <=> Pends(a, op))
      /\ Range(w) \subseteq Pending(a \o Preloads(w))
      /\ a # <<>> => Head(a \o Preloads(w)) = a[1]
      /\ a = <<>> /\ a \o Preloads(w) # <<>> => Head(a \o Preloads(w)).op = "preload"
  BY <1>4, <1>5, <1>7, PreloadsFollow
<1>9. agenda' = a \o Preloads(w)
  <2>1. agenda' = (a \o Preloads(w)) \o <<>>
    BY <1>6
  <2> QED
    BY <1>8, <2>1, ConcatEmptySeq
<1>10. TrackCacheTypeOK'
  BY <1>1, <1>2, <1>4, <1>6, <1>8, <1>9 DEF TrackCacheTypeOK
<1>11. ListInv' /\ AdsInv'
  BY <1>1, <1>2 DEF ListInv, AdsInv
<1>12. Shape(agenda, current, asked)'
  BY <1>6, <1>8, <1>9
<1>13. /\ \A op : op \notin {"preload", "get", "set"} => ~Pends(agenda', op)
       /\ Pends(agenda', "set") <=> fresh
  <2>1. ASSUME NEW op, op \notin {"preload", "get", "set"} PROVE ~Pends(agenda', op)
    <3>1. ~Pends(a, op)
      BY <1>5, <2>1 DEF Pends
    <3> QED
      BY <1>8, <1>9, <2>1, <3>1
  <2>2. Pends(agenda', "set") <=> Pends(a, "set")
    BY <1>8, <1>9
  <2>3. ~fresh => ~Pends(a, "set")
    BY <1>5, NothingPends
  <2> QED
    BY <1>5, <2>1, <2>2, <2>3
<1>14. CurrentInv'
  <2>1. ~Pends(agenda', "unload")
    BY <1>13
  <2>2. ~fresh => Agrees'
    BY <1>2, <1>6 DEF Agrees
  <2>3. Doing("set")' => current' \in cached' \cup {None}
    <3> SUFFICES ASSUME agenda' # <<>>, Head(agenda').op = "set"
                 PROVE  current' \in cached' \cup {None}
      BY DEF Doing
    <3>1. fresh /\ a # <<>>
      BY <1>5, <1>8, <1>9
    <3> QED
      BY <1>5, <1>6, <1>8, <1>9, <3>1
  <2> QED
    BY <1>13, <2>1, <2>2, <2>3 DEF CurrentInv
<1>15. CapacityInv'
  <2>1. Window' = asked'
    BY <1>2, <1>6 DEF Window, getPrefetched, w
  <2>2. Cardinality(asked' \ Window') = 0
    <3>1. asked' \ Window' = {}
      BY <2>1
    <3> QED
      BY <3>1, FS_EmptySet
  <2>3. auto' \in Nat
    BY <1>1, <1>2 DEF TrackCacheTypeOK
  <2>4. Cardinality(asked' \ Window') <= auto'
    BY <2>2, <2>3
  <2>5. preloadCapacity' = preloadCapacity
    BY <1>2 DEF preloadCapacity
  <2> QED
    BY <1>1, <1>2, <2>4, <2>5 DEF CapacityInv
<1>16. PreloadInv'
  <2>1. Done' = {}
    BY <1>6, <1>8, <1>9 DEF Done
  <2>2. Fresh(FromHead(list), Done)'
    BY <2>1 DEF Fresh
  <2> QED
    BY <2>1, <2>2 DEF PreloadInv
<1> QED
  BY <1>10, <1>11, <1>12, <1>14, <1>15, <1>16 DEF CacheInv

(* The lists an application loads or enqueues.                                 *)
LEMMA ListsAre ==
    ASSUME NEW us \in Lists(MaxQueue)
    PROVE  us \in Seq(Uris) /\ Len(us) <= MaxQueue /\ us # <<>>
<1>1. PICK k \in 1..MaxQueue : us \in [1..k -> Uris]
  BY DEF Lists
<1> QED
  BY <1>1, TrackCacheAssumption

(* Loading a list, empty or not, at the end of a call keeps the invariant.     *)
LEMMA LoadsList ==
    ASSUME CacheInv, NEW us \in Seq(Uris), Len(us) <= MaxQueue, loadList(us),
           agenda = <<>> \/ Tail(agenda) = <<>>,
           ~Pends(agenda, "capacity"), ~Pends(agenda, "shrink"),
           UNCHANGED <<cacheVars, options, auto, trackVars>>
    PROVE  CacheInv'
<1>1. CASE us = <<>>
  <2>1. setQueue(None, <<>>, TRUE)
    BY <1>1 DEF loadList
  <2>2. <<>> \in Seq(Uris) /\ Len(<<>>) <= MaxQueue
    BY <1>1
  <2> QED
    BY <2>1, <2>2, SetsQueue
<1>2. CASE us # <<>>
  <2>1. setQueue(Head(us), Tail(us), TRUE)
    BY <1>2 DEF loadList
  <2>2. Head(us) \in Uris /\ Tail(us) \in Seq(Uris) /\ Len(Tail(us)) <= MaxQueue
    BY <1>2, TrackCacheAssumption
  <2> QED
    BY <2>1, <2>2, SetsQueue
<1> QED
  BY <1>1, <1>2

(* Between calls nothing pends, and what plays agrees with the current entry.  *)
LEMMA AtRest ==
    ASSUME CacheInv, Rest
    PROVE  /\ agenda = <<>> /\ (\A op : ~Pends(agenda, op)) /\ Agrees
           /\ capacity = preloadCapacity + options.trackPrefetchCount + 1
           /\ Cardinality(cached) <= capacity
           /\ asked \subseteq cached
<1>1. agenda = <<>> /\ \A op : ~Pends(agenda, op)
  BY NothingPends DEF Rest
<1>2. Pending(agenda) = {}
  BY <1>1 DEF Pending
<1> QED
  BY <1>1, <1>2 DEF CacheInv, CurrentInv, CapacityInv, PreloadInv, Done

(* load().                                                                     *)
LEMMA LoadKeeps == CacheInv /\ Load => CacheInv'
<1> SUFFICES ASSUME CacheInv, Load PROVE CacheInv'
  OBVIOUS
<1>1. Rest /\ UNCHANGED <<cacheVars, options, auto, trackVars>>
  BY DEF Load
<1>2. PICK us \in Lists(MaxQueue) \cup {<<>>} : loadList(us)
  BY DEF Load
<1>3. us \in Seq(Uris) /\ Len(us) <= MaxQueue
  <2>1. <<>> \in Seq(Uris) /\ Len(<<>>) <= MaxQueue
    BY TrackCacheAssumption
  <2>2. us \in Lists(MaxQueue) => us \in Seq(Uris) /\ Len(us) <= MaxQueue
    BY ListsAre
  <2> QED
    BY <1>2, <2>1, <2>2
<1> QED
  BY <1>1, <1>2, <1>3, AtRest, LoadsList

(* next().                                                                     *)
LEMMA NextTrackKeeps == CacheInv /\ NextTrack => CacheInv'
<1> SUFFICES ASSUME CacheInv, NextTrack PROVE CacheInv'
  OBVIOUS
<1>1. Rest /\ loadList(queue) /\ UNCHANGED <<cacheVars, options, auto, trackVars>>
  BY DEF NextTrack
<1>2. queue \in Seq(Uris) /\ Len(queue) <= MaxQueue
  BY DEF CacheInv, TrackCacheTypeOK
<1> QED
  BY <1>1, <1>2, AtRest, LoadsList

(* clearQueue().                                                               *)
LEMMA ClearQueueKeeps == CacheInv /\ ClearQueue => CacheInv'
<1> SUFFICES ASSUME CacheInv, ClearQueue PROVE CacheInv'
  OBVIOUS
<1>1. Rest /\ setQueue(current, <<>>, FALSE) /\ UNCHANGED <<cacheVars, options, auto, trackVars>>
  BY DEF ClearQueue
<1>2. current \in Uris \cup {None} /\ <<>> \in Seq(Uris) /\ Len(<<>>) <= MaxQueue
  BY TrackCacheAssumption DEF CacheInv, TrackCacheTypeOK
<1> QED
  BY <1>1, <1>2, AtRest, SetsQueue

(* The agenda after its first operation.                                       *)
LEMMA AgendaGoesOn ==
    ASSUME CacheInv, NEW op, Doing(op)
    PROVE  /\ agenda # <<>> /\ agenda \in Seq(Agendas) /\ Head(agenda).op = op
           /\ Head(agenda) \in Agendas
           /\ Tail(agenda) \in Seq(Agendas) /\ Shape(Tail(agenda), current, asked)
           /\ ~Pends(Tail(agenda), "capacity") /\ ~Pends(Tail(agenda), "shrink")
           /\ op # "capacity" => ~Pends(agenda, "capacity")
           /\ op # "shrink" => ~Pends(agenda, "shrink")
           /\ op # "get" => ~Pends(Tail(agenda), "set")
           /\ op \notin {"capacity", "shrink"} => ~Pends(Tail(agenda), "unload")
           /\ op = "get" => Head(agenda).uri = current
                            /\ Tail(agenda) # <<>> /\ Head(Tail(agenda)).op = "set"
           /\ op \in {"idle", "unload"} => Tail(agenda) = <<>>
           /\ Tail(agenda) # <<>> /\ Head(Tail(agenda)).op \notin {"preload", "idle"} =>
                    op \in {"get", "capacity", "shrink"}
           /\ op # "preload" => Pending(Tail(agenda)) = Pending(agenda)
           /\ \A o : Pends(agenda, o) <=> (op = o \/ Pends(Tail(agenda), o))
<1>1. agenda # <<>> /\ agenda \in Seq(Agendas) /\ Head(agenda).op = op
  BY DEF Doing, CacheInv, TrackCacheTypeOK
<1>2. Shape(agenda, current, asked)
  BY DEF CacheInv
<1> QED
  BY <1>1, <1>2, TailShape

(* The next() at the end of enqueue(), when nothing is current.                *)
LEMMA NextIfIdleKeeps == CacheInv /\ NextIfIdle => CacheInv'
<1> SUFFICES ASSUME CacheInv, NextIfIdle PROVE CacheInv'
  OBVIOUS
<1>1. Doing("idle") /\ UNCHANGED <<cacheVars, options, auto, trackVars>>
  BY DEF NextIfIdle
<1>2. queue \in Seq(Uris) /\ Len(queue) <= MaxQueue
  BY DEF CacheInv, TrackCacheTypeOK
<1>3. /\ Tail(agenda) = <<>> /\ ~Pends(agenda, "capacity") /\ ~Pends(agenda, "shrink")
      /\ ~Pends(agenda, "set") /\ ~Pends(agenda, "unload")
      /\ Pending(Tail(agenda)) = Pending(agenda)
  BY <1>1, AgendaGoesOn
<1>4. CASE playing = NoTrack /\ queue # <<>>
  <2>1. loadList(queue)
    BY <1>4 DEF NextIfIdle
  <2> QED
    BY <1>1, <1>2, <1>3, <2>1, LoadsList
<1>5. CASE ~(playing = NoTrack /\ queue # <<>>)
  <2>1. /\ agenda' = <<>> \o Tail(agenda) /\ UNCHANGED <<current, queue, asked>>
    BY <1>5 DEF NextIfIdle, Then
  <2>2. agenda' = <<>>
    BY <1>3, <2>1
  <2>3. /\ list' = list /\ cached' = cached /\ capacity' = capacity
        /\ options' = options /\ auto' = auto
        /\ playing' = playing /\ adParent' = adParent
        /\ adTracks' = adTracks /\ loadingAds' = loadingAds
        /\ current' = current /\ queue' = queue /\ asked' = asked
    BY <1>1, <2>1 DEF cacheVars, trackVars
  <2>4. \A op : ~Pends(agenda', op)
    BY <2>2, NothingPends
  <2>5. TrackCacheTypeOK'
    BY <2>2, <2>3 DEF CacheInv, TrackCacheTypeOK
  <2>6. ListInv' /\ AdsInv'
    BY <2>3 DEF CacheInv, ListInv, AdsInv
  <2>7. Shape(agenda, current, asked)'
    BY <2>2 DEF Shape
  <2>8. CurrentInv'
    <3>1. Agrees'
      BY <1>3, <2>3 DEF CacheInv, CurrentInv, Agrees
    <3> QED
      BY <2>2, <2>4, <3>1 DEF CurrentInv, Doing
  <2>9. CapacityInv'
    BY <1>3, <2>3 DEF CacheInv, CapacityInv, preloadCapacity, Window, getPrefetched
  <2>10. PreloadInv'
    <3>1. Pending(agenda') = Pending(agenda)
      BY <1>3, <2>2
    <3>2. Done' = Done
      BY <2>3, <3>1 DEF Done
    <3> QED
      BY <2>2, <2>3, <3>2 DEF CacheInv, PreloadInv
  <2> QED
    BY <2>5, <2>6, <2>7, <2>8, <2>9, <2>10 DEF CacheInv
<1> QED
  BY <1>4, <1>5

(* The unload() inside clearTrackCache().                                      *)
LEMMA UnloadKeeps == CacheInv /\ Unload => CacheInv'
<1> SUFFICES ASSUME CacheInv, Unload PROVE CacheInv'
  OBVIOUS
<1>1. /\ Doing("unload") /\ setQueue(None, <<>>, current # None)
      /\ UNCHANGED <<cacheVars, options, auto, trackVars>>
  BY DEF Unload
<1>2. /\ Tail(agenda) = <<>> /\ ~Pends(agenda, "capacity") /\ ~Pends(agenda, "shrink")
      /\ Pends(agenda, "unload")
  BY <1>1, AgendaGoesOn
<1>3. <<>> \in Seq(Uris) /\ Len(<<>>) <= MaxQueue /\ (current # None) \in BOOLEAN
  BY TrackCacheAssumption
<1>4. ~(current # None) => None = current /\ Agrees
  BY <1>2 DEF CacheInv, CurrentInv
<1> QED
  BY <1>1, <1>2, <1>3, <1>4, SetsQueue

(* The preloads of enqueue, and its end.                                       *)
LEMMA EnqueueKeeps == CacheInv /\ Enqueue => CacheInv'
<1> SUFFICES ASSUME CacheInv, Enqueue PROVE CacheInv'
  OBVIOUS
<1>1. /\ Rest /\ Len(queue) < MaxQueue
      /\ UNCHANGED <<cacheVars, options, auto, current, trackVars>>
  BY DEF Enqueue
<1>2. PICK u \in Uris :
        LET q == Append(queue, u)
            w == window(current, q, options.trackPrefetchCount)
        IN  /\ queue' = q
            /\ asked' = Range(w)
            /\ agenda' = Append(Preloads(w), Do("idle", None))
  BY DEF Enqueue
<1> DEFINE w == window(current, queue', options.trackPrefetchCount)
           p == Preloads(w)
           idle == Do("idle", None)
<1>3. queue' = Append(queue, u) /\ asked' = Range(w) /\ agenda' = Append(p, idle)
  BY <1>2
<1>4. TrackCacheTypeOK /\ ListInv /\ AdsInv /\ CapacityInv /\ Agrees
  BY <1>1, AtRest DEF CacheInv
<1>5. /\ list' = list /\ cached' = cached /\ capacity' = capacity
      /\ options' = options /\ auto' = auto /\ current' = current
      /\ playing' = playing /\ adParent' = adParent
      /\ adTracks' = adTracks /\ loadingAds' = loadingAds
  BY <1>1 DEF cacheVars, trackVars
<1>6. queue' \in Seq(Uris) /\ Len(queue') <= MaxQueue /\ current \in Uris \cup {None}
  <2>1. queue \in Seq(Uris) /\ current \in Uris \cup {None}
    BY <1>4 DEF TrackCacheTypeOK
  <2> QED
    BY <1>1, <1>3, <2>1, TrackCacheAssumption
<1>7. w \in Seq(Uris) /\ Range(w) \subseteq Uris
  <2>1. options.trackPrefetchCount \in Nat
    BY <1>4, Sizes
  <2> QED
    BY <1>6, <2>1, WindowIs
<1>8. idle \in Agendas /\ idle.op = "idle"
  BY DEF Do, Agendas
<1>9. /\ p \in Seq(Agendas) /\ Range(w) \subseteq Pending(p)
      /\ \A i \in 1..Len(p) : p[i].op = "preload" /\ p[i].uri \in Range(w)
  <2>1. DOMAIN w = 1..Len(w) /\ Len(w) \in Nat /\ Range(w) = {w[i] : i \in 1..Len(w)}
    BY <1>7, RangeBound
  <2>2. ASSUME NEW i \in 1..Len(w)
        PROVE  /\ Do("preload", w[i]) \in Agendas
               /\ Do("preload", w[i]).op = "preload" /\ Do("preload", w[i]).uri = w[i]
    BY <1>7 DEF Do, Agendas
  <2> HIDE DEF w
  <2>3. /\ p \in Seq(Agendas) /\ Len(p) = Len(w)
        /\ \A i \in 1..Len(w) : p[i] = Do("preload", w[i])
    BY <2>1, <2>2 DEF Preloads
  <2> HIDE DEF p
  <2>4. \A i \in 1..Len(p) : p[i].op = "preload" /\ p[i].uri = w[i] /\ p[i].uri \in Range(w)
    BY <2>1, <2>2, <2>3
  <2>5. Range(w) \subseteq Pending(p)
    BY <2>1, <2>3, <2>4 DEF Pending
  <2> QED
    BY <2>3, <2>4, <2>5
<1> HIDE DEF w, p, idle
<1>10. /\ agenda' \in Seq(Agendas) /\ Len(agenda') = Len(p) + 1 /\ Len(p) \in Nat
       /\ \A i \in 1..Len(p) : agenda'[i] = p[i]
       /\ agenda'[Len(p) + 1] = idle
  BY <1>3, <1>8, <1>9, AppendEntries
<1>11. ASSUME NEW i \in 1..Len(agenda')
       PROVE  \/ agenda'[i].op = "preload" /\ agenda'[i].uri \in Range(w)
              \/ agenda'[i].op = "idle" /\ i = Len(agenda')
  <2>1. CASE i = Len(p) + 1
    BY <1>8, <1>10, <2>1
  <2>2. CASE i # Len(p) + 1
    <3>1. i \in 1..Len(p) /\ agenda'[i] = p[i]
      BY <1>10, <2>2
    <3> QED
      BY <1>9, <3>1
  <2> QED
    BY <2>1, <2>2
<1>12. \A op : op \notin {"preload", "idle"} => ~Pends(agenda', op)
  BY <1>11 DEF Pends
<1>13. Range(w) \subseteq Pending(agenda')
  <2>1. Pending(p) \subseteq Pending(agenda')
    BY <1>10 DEF Pending
  <2> QED
    BY <1>9, <2>1
<1>14. TrackCacheTypeOK'
  BY <1>3, <1>4, <1>5, <1>6, <1>7, <1>10 DEF TrackCacheTypeOK
<1>15. ListInv' /\ AdsInv'
  BY <1>4, <1>5 DEF ListInv, AdsInv
<1>16. Shape(agenda, current, asked)'
  <2>1. Shape(agenda', current', Range(w))
    <3> SUFFICES ASSUME NEW i \in 1..Len(agenda')
                 PROVE  /\ agenda'[i].op = "idle" => i = Len(agenda')
                        /\ agenda'[i].op = "preload" => agenda'[i].uri \in Range(w)
                        /\ agenda'[i].op \notin {"get", "set", "capacity", "shrink", "unload"}
      BY DEF Shape
    <3> QED
      BY <1>11
  <2> QED
    BY <1>3, <2>1
<1>17. CurrentInv'
  <2>1. Agrees'
    BY <1>4, <1>5 DEF Agrees
  <2>2. ~Pends(agenda', "unload")
    BY <1>12
  <2>3. ~Doing("set")'
    <3> SUFFICES ASSUME agenda' # <<>>, Head(agenda').op = "set" PROVE FALSE
      BY DEF Doing
    <3>1. 1 \in 1..Len(agenda') /\ Head(agenda') = agenda'[1]
      BY <1>10
    <3> QED
      BY <1>11, <3>1
  <2> QED
    BY <2>1, <2>2, <2>3 DEF CurrentInv
<1>18. CapacityInv'
  <2>1. Window' = asked'
    BY <1>3, <1>5 DEF Window, getPrefetched, w
  <2>2. Cardinality(asked' \ Window') = 0
    <3>1. asked' \ Window' = {}
      BY <2>1
    <3> QED
      BY <3>1, FS_EmptySet
  <2>3. auto' \in Nat
    BY <1>4, <1>5 DEF TrackCacheTypeOK
  <2>4. Cardinality(asked' \ Window') <= auto'
    BY <2>2, <2>3
  <2>5. preloadCapacity' = preloadCapacity
    BY <1>5 DEF preloadCapacity
  <2>6. /\ capacity = preloadCapacity + options.trackPrefetchCount + 1
        /\ Cardinality(cached) <= capacity
    BY <1>1, AtRest
  <2> QED
    BY <1>5, <2>4, <2>5, <2>6 DEF CapacityInv
<1>19. PreloadInv'
  <2>1. Done' = {}
    BY <1>3, <1>13 DEF Done
  <2>2. Fresh(FromHead(list), Done)'
    BY <2>1 DEF Fresh
  <2> QED
    BY <2>1, <2>2 DEF PreloadInv
<1> QED
  BY <1>14, <1>15, <1>16, <1>17, <1>18, <1>19 DEF CacheInv

(* preload: what it asks for beyond the window is no more than it counts.      *)
LEMMA RequiredSuffices ==
    ASSUME NEW us \in Seq(Uris)
    PROVE  LET required == Cardinality({i \in DOMAIN us : onEvicting(us[i])})
           IN  required \in Nat /\ Cardinality(Range(us) \ Window) <= required
<1> DEFINE S == {i \in DOMAIN us : onEvicting(us[i])}
           T == Range(us) \ Window
           f == [i \in S |-> us[i]]
<1>1. DOMAIN us = 1..Len(us) /\ Len(us) \in Nat /\ Range(us) = {us[i] : i \in 1..Len(us)}
  BY RangeBound
<1>2. IsFiniteSet(S)
  <2>1. IsFiniteSet(1..Len(us))
    BY <1>1, FS_Interval
  <2>2. S \subseteq 1..Len(us)
    BY <1>1
  <2> HIDE DEF S
  <2> QED
    BY <2>1, <2>2, FS_Subset
<1>3. \A i \in S : us[i] \in T
  BY <1>1 DEF onEvicting, Window
<1>4. ASSUME NEW v \in T PROVE \E i \in S : us[i] = v
  BY <1>1 DEF onEvicting, Window
<1> HIDE DEF S, T
<1>5. f \in Surjection(S, T)
  BY <1>3, <1>4 DEF Surjection
<1> HIDE DEF f
<1>6. Cardinality(T) <= Cardinality(S)
  BY <1>2, <1>5, FS_Surjection
<1>7. Cardinality(S) \in Nat
  BY <1>2, FS_CardinalityType
<1> QED
  BY <1>6, <1>7 DEF S, T

(* preload(), which may raise the capacity for the tracks asked for.           *)
LEMMA PreloadKeeps == CacheInv /\ Preload => CacheInv'
<1> SUFFICES ASSUME CacheInv, Preload PROVE CacheInv'
  OBVIOUS
<1>1. Rest /\ UNCHANGED <<cacheVars, options, current, queue, trackVars>>
  BY DEF Preload
<1>2. PICK us \in Lists(MaxQueue) :
        LET required == Cardinality({i \in DOMAIN us : onEvicting(us[i])})
            grows == auto < required
        IN  /\ auto' = IF grows THEN required ELSE auto
            /\ agenda' = (IF grows THEN <<Do("capacity", None)>> ELSE <<>>) \o Preloads(us)
            /\ asked' = Range(us)
  BY DEF Preload
<1> DEFINE required == Cardinality({i \in DOMAIN us : onEvicting(us[i])})
           grows == auto < required
           a == IF grows THEN <<Do("capacity", None)>> ELSE <<>>
<1>3. us \in Seq(Uris)
  BY ListsAre
<1>4. required \in Nat /\ Cardinality(Range(us) \ Window) <= required
  BY <1>3, RequiredSuffices
<1>5. /\ auto' = IF grows THEN required ELSE auto
      /\ agenda' = a \o Preloads(us) /\ asked' = Range(us)
  BY <1>2
<1>6. TrackCacheTypeOK /\ ListInv /\ AdsInv /\ CapacityInv /\ Agrees
  BY <1>1, AtRest DEF CacheInv
<1>7. /\ list' = list /\ cached' = cached /\ capacity' = capacity
      /\ options' = options /\ current' = current /\ queue' = queue
      /\ playing' = playing /\ adParent' = adParent
      /\ adTracks' = adTracks /\ loadingAds' = loadingAds
  BY <1>1 DEF cacheVars, trackVars
<1>8. current \in Uris \cup {None} /\ auto \in Nat
  BY <1>6 DEF TrackCacheTypeOK
<1> HIDE DEF required
<1>9. /\ a \in Seq(Agendas) /\ Shape(a, current, {})
      /\ \A i \in 1..Len(a) : a[i].op = "capacity"
      /\ grows => Pends(a, "capacity") /\ a # <<>>
      /\ ~grows => a = <<>>
  <2>1. CASE grows
    BY <1>8, <2>1, Beginnings
  <2>2. CASE ~grows
    BY <2>2 DEF Shape
  <2> QED
    BY <2>1, <2>2
<1> HIDE DEF a
<1>10. \A i \in 1..Len(a) : a[i].op \notin {"preload", "idle", "unload"}
  BY <1>9
<1>11. /\ agenda' \in Seq(Agendas)
       /\ Shape(agenda', current, Range(us))
       /\ \A op : op # "preload" => (Pends(agenda', op) <=> Pends(a, op))
       /\ Range(us) \subseteq Pending(agenda')
       /\ a # <<>> => Head(agenda') = a[1]
       /\ a = <<>> /\ agenda' # <<>> => Head(agenda').op = "preload"
  BY <1>3, <1>5, <1>9, <1>10, PreloadsFollow
<1>12. /\ \A op : op \notin {"preload", "capacity"} => ~Pends(agenda', op)
       /\ Pends(agenda', "capacity") <=> grows
  <2>1. ASSUME NEW op, op \notin {"preload", "capacity"} PROVE ~Pends(agenda', op)
    <3>1. ~Pends(a, op)
      BY <1>9, <2>1 DEF Pends
    <3> QED
      BY <1>11, <2>1, <3>1
  <2>2. ~grows => ~Pends(a, "capacity")
    BY <1>9, NothingPends
  <2> QED
    BY <1>9, <1>11, <2>1, <2>2
<1>13. auto' \in Nat /\ Range(us) \subseteq Uris
  BY <1>3, <1>4, <1>5, <1>8, RangeBound
<1>14. TrackCacheTypeOK'
  BY <1>5, <1>6, <1>7, <1>11, <1>13 DEF TrackCacheTypeOK
<1>15. ListInv' /\ AdsInv'
  BY <1>6, <1>7 DEF ListInv, AdsInv
<1>16. Shape(agenda, current, asked)'
  BY <1>5, <1>7, <1>11
<1>17. CurrentInv'
  <2>1. Agrees'
    BY <1>6, <1>7 DEF Agrees
  <2>2. ~Pends(agenda', "unload")
    BY <1>12
  <2>3. ~Doing("set")'
    <3> SUFFICES ASSUME agenda' # <<>>, Head(agenda').op = "set" PROVE FALSE
      BY DEF Doing
    <3>1. 1 \in 1..Len(agenda') /\ Head(agenda') = agenda'[1]
      BY <1>11
    <3>2. Pends(agenda', "set")
      BY <3>1 DEF Pends
    <3> QED
      BY <1>12, <3>2
  <2> QED
    BY <2>1, <2>2, <2>3 DEF CurrentInv
<1>18. CapacityInv'
  <2>1. Window' = Window
    BY <1>7 DEF Window, getPrefetched
  <2>2. Cardinality(asked' \ Window') <= auto'
    <3>1. required <= auto'
      BY <1>4, <1>5, <1>8
    <3>2. IsFiniteSet(Range(us) \ Window)
      BY <1>3, RangeBound, FS_Subset
    <3>3. Cardinality(Range(us) \ Window) \in Nat
      BY <3>2, FS_CardinalityType
    <3>4. Cardinality(Range(us) \ Window) <= auto'
      BY <1>4, <1>13, <3>1, <3>3
    <3> QED
      BY <1>5, <2>1, <3>4
  <2>3. ~grows => preloadCapacity' = preloadCapacity
    BY <1>5, <1>7 DEF preloadCapacity
  <2>4. /\ capacity = preloadCapacity + options.trackPrefetchCount + 1
        /\ Cardinality(cached) <= capacity
    BY <1>1, AtRest
  <2> QED
    BY <1>7, <1>12, <2>2, <2>3, <2>4 DEF CapacityInv
<1>19. PreloadInv'
  <2>1. Done' = {}
    BY <1>5, <1>11 DEF Done
  <2>2. Fresh(FromHead(list), Done)'
    BY <2>1 DEF Fresh
  <2> QED
    BY <2>1, <2>2 DEF PreloadInv
<1> QED
  BY <1>14, <1>15, <1>16, <1>17, <1>18, <1>19 DEF CacheInv

(* configure() of the prefetch count and the preload capacity.                 *)
LEMMA ConfigureKeeps == CacheInv /\ Configure => CacheInv'
<1> SUFFICES ASSUME CacheInv, Configure PROVE CacheInv'
  OBVIOUS
<1> DEFINE b == <<Do("capacity", None)>>
<1>1. /\ Rest /\ options' \in Options /\ agenda' = b /\ asked' = {}
      /\ UNCHANGED <<cacheVars, auto, current, queue, trackVars>>
  BY DEF Configure
<1>2. TrackCacheTypeOK /\ ListInv /\ AdsInv /\ CapacityInv /\ Agrees
  BY <1>1, AtRest DEF CacheInv
<1>3. /\ list' = list /\ cached' = cached /\ capacity' = capacity
      /\ auto' = auto /\ current' = current /\ queue' = queue
      /\ playing' = playing /\ adParent' = adParent
      /\ adTracks' = adTracks /\ loadingAds' = loadingAds
  BY <1>1 DEF cacheVars, trackVars
<1>4. current \in Uris \cup {None} /\ auto \in Nat
  BY <1>2 DEF TrackCacheTypeOK
<1>5. /\ b \in Seq(Agendas) /\ Shape(b, current, {}) /\ Pends(b, "capacity") /\ b # <<>>
      /\ \A i \in 1..Len(b) : b[i].op = "capacity"
  BY <1>4, Beginnings
<1> HIDE DEF b
<1>6. \A op : op # "capacity" => ~Pends(b, op)
  BY <1>5 DEF Pends
<1>7. TrackCacheTypeOK'
  BY <1>1, <1>2, <1>3, <1>5 DEF TrackCacheTypeOK
<1>8. ListInv' /\ AdsInv'
  BY <1>2, <1>3 DEF ListInv, AdsInv
<1>9. Shape(agenda, current, asked)'
  BY <1>1, <1>3, <1>5
<1>10. CurrentInv'
  <2>1. Agrees'
    BY <1>2, <1>3 DEF Agrees
  <2>2. Head(b).op = "capacity"
    <3>1. 1 \in 1..Len(b) /\ Head(b) = b[1]
      BY <1>5
    <3> QED
      BY <1>5, <3>1
  <2> QED
    BY <1>1, <1>6, <2>1, <2>2 DEF CurrentInv, Doing
<1>11. CapacityInv'
  <2>1. Cardinality(asked' \ Window') = 0
    <3>1. asked' \ Window' = {}
      BY <1>1
    <3> QED
      BY <3>1, FS_EmptySet
  <2>2. Cardinality(asked' \ Window') <= auto'
    BY <1>3, <1>4, <2>1
  <2>3. Cardinality(cached') <= capacity'
    BY <1>1, <1>3, AtRest
  <2> QED
    BY <1>1, <1>5, <2>2, <2>3 DEF CapacityInv
<1>12. PreloadInv'
  <2>1. Done' = {}
    BY <1>1 DEF Done
  <2>2. Fresh(FromHead(list), Done)'
    BY <2>1 DEF Fresh
  <2> QED
    BY <2>1, <2>2 DEF PreloadInv
<1> QED
  BY <1>7, <1>8, <1>9, <1>10, <1>11, <1>12 DEF CacheInv

(* A capacity that changed is looked at again by the cache.                    *)
LEMMA ShrinkFollows ==
    ASSUME NEW ag \in Seq(Agendas), ag # <<>>, NEW c, NEW us, Shape(ag, c, us),
           Head(ag).op = "capacity"
    PROVE  LET b == <<Do("shrink", None)>> \o Tail(ag)
           IN  /\ b \in Seq(Agendas) /\ b # <<>> /\ Head(b).op = "shrink"
               /\ Shape(b, c, us)
               /\ Pending(b) = Pending(ag)
               /\ \A op : Pends(b, op) <=> (op = "shrink" \/ Pends(Tail(ag), op))
<1> DEFINE s == Do("shrink", None)
           t == Tail(ag)
           b == <<s>> \o t
<1>1. /\ Len(ag) \in Nat /\ Len(ag) >= 1 /\ ag[1] = Head(ag)
      /\ t \in Seq(Agendas) /\ Len(t) = Len(ag) - 1
      /\ \A i \in 1..Len(t) : t[i] = ag[i + 1]
  OBVIOUS
<1>2. s \in Agendas /\ s.op = "shrink"
  BY DEF Do, Agendas
<1> HIDE DEF s, t
<1>3. <<s>> \in Seq(Agendas) /\ Len(<<s>>) = 1 /\ <<s>>[1] = s
  BY <1>2
<1>4. /\ b \in Seq(Agendas) /\ Len(b) = 1 + Len(t)
      /\ \A i \in 1..(1 + Len(t)) : b[i] = IF i <= 1 THEN <<s>>[i] ELSE t[i - 1]
  <2>1. /\ <<s>> \o t \in Seq(Agendas) /\ Len(<<s>> \o t) = Len(<<s>>) + Len(t)
        /\ \A i \in 1..(Len(<<s>>) + Len(t)) :
                (<<s>> \o t)[i] = IF i <= Len(<<s>>) THEN <<s>>[i] ELSE t[i - Len(<<s>>)]
    BY <1>1, <1>3, ConcatProperties
  <2> QED
    BY <1>3, <2>1
<1> HIDE DEF b
<1>5. /\ Len(b) = Len(ag) /\ b[1] = s /\ 1 \in 1..Len(b)
      /\ \A i \in 1..Len(b) : i # 1 => i - 1 \in 1..Len(t) /\ b[i] = t[i - 1] /\ b[i] = ag[i]
  <2>1. ASSUME NEW i \in 1..Len(b), i # 1
        PROVE  i - 1 \in 1..Len(t) /\ b[i] = t[i - 1] /\ b[i] = ag[i]
    <3>1. i - 1 \in 1..Len(t) /\ b[i] = t[i - 1] /\ (i - 1) + 1 = i
      BY <1>1, <1>4, <2>1
    <3> QED
      BY <1>1, <3>1
  <2> QED
    BY <1>1, <1>3, <1>4, <2>1
<1>6. b # <<>> /\ Head(b).op = "shrink"
  <2>1. Head(b) = b[1] /\ b # <<>>
    BY <1>4, <1>5
  <2> QED
    BY <1>2, <1>5, <2>1
<1>7. Shape(b, c, us)
  <2> SUFFICES ASSUME NEW i \in 1..Len(b)
               PROVE  /\ b[i].op = "get" => i = 1 /\ Len(b) > 1 /\ b[2].op = "set" /\ b[1].uri = c
                      /\ b[i].op = "set" => i = 1 \/ (i = 2 /\ b[1].op = "get")
                      /\ b[i].op \in {"capacity", "shrink"} => i = 1
                      /\ b[i].op = "idle" => i = Len(b)
                      /\ b[i].op = "unload" =>
                            /\ i = Len(b)
                            /\ \A j \in 1..Len(b) : j < i => b[j].op \in {"capacity", "shrink"}
                      /\ b[i].op = "preload" => b[i].uri \in us
    BY DEF Shape
  <2>1. CASE i = 1
    BY <1>2, <1>5, <2>1
  <2>2. CASE i # 1
    <3>1. b[i] = ag[i] /\ i \in 1..Len(ag)
      BY <1>5, <2>2
    <3>2. ag[1].op # "get"
      BY <1>1
    <3>3. /\ ag[i].op # "get" /\ ag[i].op # "set" /\ ag[i].op \notin {"capacity", "shrink"}
          /\ ag[i].op = "idle" => i = Len(ag)
          /\ ag[i].op = "preload" => ag[i].uri \in us
      BY <2>2, <3>1, <3>2 DEF Shape
    <3>4. ASSUME ag[i].op = "unload"
          PROVE  /\ i = Len(b)
                 /\ \A j \in 1..Len(b) : j < i => b[j].op \in {"capacity", "shrink"}
      <4>1. i = Len(ag) /\ \A j \in 1..Len(ag) : j < i => ag[j].op \in {"capacity", "shrink"}
        BY <3>1, <3>4 DEF Shape
      <4>2. ASSUME NEW j \in 1..Len(b), j < i PROVE b[j].op \in {"capacity", "shrink"}
        <5>1. CASE j = 1
          BY <1>2, <1>5, <5>1
        <5>2. CASE j # 1
          BY <1>5, <4>1, <4>2, <5>2
        <5> QED
          BY <5>1, <5>2
      <4> QED
        BY <1>5, <4>1, <4>2
    <3> QED
      BY <1>5, <3>1, <3>3, <3>4
  <2> QED
    BY <2>1, <2>2
<1>8. Pending(b) = Pending(ag)
  <2>1. ASSUME NEW i \in 1..Len(b), b[i].op = "preload"
        PROVE  i \in 1..Len(ag) /\ ag[i].op = "preload" /\ ag[i].uri = b[i].uri
    BY <1>2, <1>5, <2>1
  <2>2. ASSUME NEW i \in 1..Len(ag), ag[i].op = "preload"
        PROVE  i \in 1..Len(b) /\ b[i].op = "preload" /\ ag[i].uri = b[i].uri
    BY <1>1, <1>5, <2>2
  <2> QED
    BY <2>1, <2>2 DEF Pending
<1>9. ASSUME NEW op PROVE Pends(b, op) <=> (op = "shrink" \/ Pends(t, op))
  <2>1. Pends(b, op) => (op = "shrink" \/ Pends(t, op))
    <3> SUFFICES ASSUME NEW i \in 1..Len(b), b[i].op = op PROVE op = "shrink" \/ Pends(t, op)
      BY DEF Pends
    <3> QED
      BY <1>2, <1>5 DEF Pends
  <2>2. op = "shrink" => Pends(b, op)
    BY <1>2, <1>5 DEF Pends
  <2>3. Pends(t, op) => Pends(b, op)
    <3> SUFFICES ASSUME NEW i \in 1..Len(t), t[i].op = op PROVE Pends(b, op)
      BY DEF Pends
    <3>1. i + 1 \in 1..Len(b) /\ i + 1 # 1 /\ (i + 1) - 1 = i
      BY <1>1, <1>4
    <3>2. b[i + 1] = t[(i + 1) - 1]
      BY <1>5, <3>1
    <3> QED
      BY <3>1, <3>2 DEF Pends
  <2> QED
    BY <2>1, <2>2, <2>3
<1> QED
  BY <1>4, <1>6, <1>7, <1>8, <1>9 DEF b, s, t

(* checkCacheCapacity(), which evicts where the capacity has changed.          *)
LEMMA checkCacheCapacityKeeps == CacheInv /\ checkCacheCapacity => CacheInv'
<1> SUFFICES ASSUME CacheInv, checkCacheCapacity PROVE CacheInv'
  OBVIOUS
<1>1. /\ Doing("capacity")
      /\ capacity' = preloadCapacity + options.trackPrefetchCount + 1
      /\ agenda' = (IF capacity' = capacity THEN <<>> ELSE <<Do("shrink", None)>>) \o Tail(agenda)
      /\ UNCHANGED <<list, cached, queueVars, trackVars>>
  BY DEF checkCacheCapacity, Then
<1>2. TrackCacheTypeOK /\ ListInv /\ AdsInv /\ CurrentInv /\ CapacityInv /\ PreloadInv
      /\ Shape(agenda, current, asked)
  BY DEF CacheInv
<1>3. /\ list' = list /\ cached' = cached /\ options' = options
      /\ auto' = auto /\ current' = current /\ queue' = queue /\ asked' = asked
      /\ playing' = playing /\ adParent' = adParent
      /\ adTracks' = adTracks /\ loadingAds' = loadingAds
  BY <1>1 DEF queueVars, trackVars
<1>4. /\ agenda # <<>> /\ agenda \in Seq(Agendas) /\ Head(agenda).op = "capacity"
      /\ Tail(agenda) \in Seq(Agendas) /\ Shape(Tail(agenda), current, asked)
      /\ ~Pends(Tail(agenda), "capacity") /\ ~Pends(Tail(agenda), "shrink")
      /\ ~Pends(agenda, "shrink") /\ ~Pends(Tail(agenda), "set")
      /\ Pending(Tail(agenda)) = Pending(agenda)
      /\ \A o : Pends(agenda, o) <=> ("capacity" = o \/ Pends(Tail(agenda), o))
  BY <1>1, AgendaGoesOn
<1>5. /\ agenda' \in Seq(Agendas) /\ Shape(agenda', current, asked)
      /\ Pending(agenda') = Pending(agenda)
      /\ \A o : o # "shrink" => (Pends(agenda', o) <=> Pends(Tail(agenda), o))
      /\ ~Pends(agenda', "shrink") => capacity' = capacity
  <2>1. CASE capacity' = capacity
    <3>1. agenda' = Tail(agenda)
      BY <1>1, <1>4, <2>1, ConcatEmptySeq
    <3> QED
      BY <1>4, <2>1, <3>1
  <2>2. CASE capacity' # capacity
    <3>1. agenda' = <<Do("shrink", None)>> \o Tail(agenda)
      BY <1>1, <2>2
    <3> QED
      BY <1>2, <1>4, <3>1, ShrinkFollows
  <2> QED
    BY <2>1, <2>2
<1>6. capacity' \in Nat
  <2>1. preloadCapacity \in Nat /\ options.trackPrefetchCount \in Nat
    BY <1>2, Sizes
  <2> QED
    BY <1>1, <2>1
<1>7. TrackCacheTypeOK'
  BY <1>2, <1>3, <1>5, <1>6 DEF TrackCacheTypeOK
<1>8. ListInv' /\ AdsInv'
  BY <1>2, <1>3 DEF ListInv, AdsInv
<1>9. Shape(agenda, current, asked)'
  BY <1>3, <1>5
<1>10. CurrentInv'
  <2>1. ~Pends(agenda', "set") /\ ~Pends(agenda, "set")
        /\ (Pends(agenda', "unload") <=> Pends(agenda, "unload"))
    BY <1>4, <1>5
  <2>2. Agrees => Agrees'
    BY <1>3 DEF Agrees
  <2>3. ~Doing("set")'
    <3> SUFFICES ASSUME agenda' # <<>>, Head(agenda').op = "set" PROVE FALSE
      BY DEF Doing
    <3>1. 1 \in 1..Len(agenda') /\ Head(agenda') = agenda'[1]
      BY <1>5
    <3> QED
      BY <2>1, <3>1 DEF Pends
  <2> QED
    BY <1>2, <1>3, <2>1, <2>2, <2>3 DEF CurrentInv
<1>11. CapacityInv'
  <2>1. Window' = Window /\ preloadCapacity' = preloadCapacity
    BY <1>3 DEF Window, getPrefetched, preloadCapacity
  <2> QED
    BY <1>1, <1>2, <1>3, <1>4, <1>5, <2>1 DEF CapacityInv
<1>12. PreloadInv'
  <2>1. Done = {}
    BY <1>2, <1>4 DEF PreloadInv
  <2>2. Done' = {}
    BY <1>3, <1>5, <2>1 DEF Done
  <2>3. Fresh(FromHead(list), Done)'
    BY <2>2 DEF Fresh
  <2> QED
    BY <2>2, <2>3 DEF PreloadInv
<1> QED
  BY <1>7, <1>8, <1>9, <1>10, <1>11, <1>12 DEF CacheInv

(* setCurrentTrack() with content, or with none.                               *)
LEMMA SetCurrentTrackKeeps == CacheInv /\ SetCurrentTrack => CacheInv'
<1> SUFFICES ASSUME CacheInv, SetCurrentTrack PROVE CacheInv'
  OBVIOUS
<1>1. /\ Doing("set") /\ playing' = ContentTrack(current) /\ adParent' = playing'
      /\ agenda' = <<>> \o Tail(agenda)
      /\ UNCHANGED <<cacheVars, queueVars, adTracks, loadingAds>>
  BY DEF SetCurrentTrack, Then
<1>2. TrackCacheTypeOK /\ ListInv /\ AdsInv /\ CurrentInv /\ CapacityInv /\ PreloadInv
      /\ Shape(agenda, current, asked)
  BY DEF CacheInv
<1>3. /\ list' = list /\ cached' = cached /\ capacity' = capacity /\ options' = options
      /\ auto' = auto /\ current' = current /\ queue' = queue /\ asked' = asked
      /\ adTracks' = adTracks /\ loadingAds' = loadingAds
  BY <1>1 DEF cacheVars, queueVars
<1>4. /\ Head(agenda).op = "set" /\ agenda # <<>>
      /\ Tail(agenda) \in Seq(Agendas) /\ Shape(Tail(agenda), current, asked)
      /\ ~Pends(agenda, "capacity") /\ ~Pends(agenda, "shrink")
      /\ ~Pends(Tail(agenda), "set") /\ ~Pends(Tail(agenda), "unload")
      /\ Pending(Tail(agenda)) = Pending(agenda)
  BY <1>1, AgendaGoesOn
<1>5. agenda' = Tail(agenda)
  BY <1>1, <1>4, ConcatEmptySeq
<1>6. current \in cached \cup {None} /\ current \in Uris \cup {None}
  BY <1>1, <1>2 DEF CurrentInv, TrackCacheTypeOK
<1>7. /\ ContentTrack(current) \in Refs \cup {NoTrack}
      /\ ContentTrack(current).uri = current /\ ~ContentTrack(current).disposed
  BY <1>6 DEF ContentTrack, NoTrack, Refs
<1>8. TrackCacheTypeOK'
  BY <1>1, <1>2, <1>3, <1>4, <1>5, <1>7 DEF TrackCacheTypeOK
<1>9. ListInv' /\ AdsInv'
  BY <1>2, <1>3 DEF ListInv, AdsInv
<1>10. Shape(agenda, current, asked)'
  BY <1>3, <1>4, <1>5
<1>11. CurrentInv'
  <2>1. Agrees'
    BY <1>1, <1>3, <1>6, <1>7 DEF Agrees
  <2>2. ~Doing("set")'
    <3> SUFFICES ASSUME agenda' # <<>>, Head(agenda').op = "set" PROVE FALSE
      BY DEF Doing
    <3>1. 1 \in 1..Len(agenda') /\ Head(agenda') = agenda'[1]
      BY <1>4, <1>5
    <3> QED
      BY <1>4, <1>5, <3>1 DEF Pends
  <2> QED
    BY <1>4, <1>5, <2>1, <2>2 DEF CurrentInv
<1>12. CapacityInv'
  <2>1. Window' = Window /\ preloadCapacity' = preloadCapacity
    BY <1>3 DEF Window, getPrefetched, preloadCapacity
  <2> QED
    BY <1>2, <1>3, <1>4, <2>1 DEF CapacityInv
<1>13. PreloadInv'
  <2>1. Done = {}
    BY <1>2, <1>4 DEF PreloadInv
  <2>2. Done' = {}
    BY <1>3, <1>4, <1>5, <2>1 DEF Done
  <2>3. Fresh(FromHead(list), Done)'
    BY <2>2 DEF Fresh
  <2> QED
    BY <2>2, <2>3 DEF PreloadInv
<1> QED
  BY <1>8, <1>9, <1>10, <1>11, <1>12, <1>13 DEF CacheInv

(* An empty list has no entries.                                               *)
LEMMA EmptyIsOrdered == Ordered(EmptyList, <<>>, {})
<1>1. EmptyList \in ListType
  BY DEF EmptyList, ListType, NoNode, Nodes
<1>2. Linked(EmptyList, <<>>)
  BY DEF EmptyList, Linked, Elem
<1>3. <<>> \in Seq(Uris) /\ Range(<<>>) = {}
  BY DEF Range
<1> QED
  BY <1>1, <1>2, <1>3 DEF Ordered

(* clearTrackCache(), which disposes every track.                              *)
LEMMA ClearTrackCacheKeeps == CacheInv /\ ClearTrackCache => CacheInv'
<1> SUFFICES ASSUME CacheInv, ClearTrackCache PROVE CacheInv'
  OBVIOUS
<1> DEFINE b == <<Do("capacity", None), Do("unload", None)>>
<1>1. /\ Rest /\ disposeTracks(cached, {}) /\ list' = EmptyList /\ cached' = {}
      /\ auto' = 0 /\ agenda' = b /\ asked' = {}
      /\ capacity' = capacity /\ options' = options /\ current' = current /\ queue' = queue
  BY DEF ClearTrackCache
<1>2. TrackCacheTypeOK /\ ListInv /\ AdsInv /\ CapacityInv /\ Agrees
  BY <1>1, AtRest DEF CacheInv
<1>3. /\ {playing', adParent'} \subseteq Refs \cup {NoTrack}
      /\ adTracks' \subseteq Uris /\ loadingAds' \subseteq Uris \cup {Gone}
      /\ AdsInv => AdsInv'
      /\ Agrees /\ current \notin cached => Agrees'
  <2>1. cached \in SUBSET Uris /\ cached' = (cached \cup {}) \ cached
    BY <1>1, <1>2 DEF TrackCacheTypeOK
  <2>2. {} \in SUBSET Uris /\ {} \in SUBSET {}
    OBVIOUS
  <2> QED
    BY <1>1, <1>2, <2>1, <2>2, SurvivorsStay
<1>4. /\ b \in Seq(Agendas) /\ Len(b) = 2 /\ b[1].op = "capacity" /\ b[2].op = "unload"
      /\ b # <<>> /\ Head(b).op = "capacity"
  <2>1. /\ Do("capacity", None) \in Agendas /\ Do("capacity", None).op = "capacity"
        /\ Do("unload", None) \in Agendas /\ Do("unload", None).op = "unload"
    BY DEF Do, Agendas
  <2> QED
    BY <2>1
<1> HIDE DEF b
<1>5. Shape(b, current, {})
  <2> SUFFICES ASSUME NEW i \in 1..Len(b)
               PROVE  /\ b[i].op \in {"capacity", "shrink"} => i = 1
                      /\ b[i].op = "unload" =>
                            /\ i = Len(b)
                            /\ \A j \in 1..Len(b) : j < i => b[j].op \in {"capacity", "shrink"}
                      /\ b[i].op \notin {"get", "set", "idle", "preload"}
    BY DEF Shape
  <2>1. CASE i = 1
    BY <1>4, <2>1
  <2>2. CASE i = 2
    <3>1. \A j \in 1..Len(b) : j < 2 => j = 1
      BY <1>4
    <3> QED
      BY <1>4, <2>2, <3>1
  <2> QED
    BY <1>4, <2>1, <2>2
<1>6. Pends(b, "capacity") /\ \A op : op \notin {"capacity", "unload"} => ~Pends(b, op)
  <2>1. \A i \in 1..Len(b) : b[i].op \in {"capacity", "unload"}
    BY <1>4
  <2>2. 1 \in 1..Len(b)
    BY <1>4
  <2> QED
    BY <1>4, <2>1, <2>2 DEF Pends
<1>7. TrackCacheTypeOK'
  <2>1. list' \in ListType
    BY <1>1, EmptyIsOrdered DEF Ordered
  <2> QED
    BY <1>1, <1>2, <1>3, <1>4, <2>1 DEF TrackCacheTypeOK, ListType
<1>8. ListInv'
  <2>1. FromHead(EmptyList) = <<>>
    BY EmptyIsOrdered, OrderedIs
  <2> QED
    BY <1>1, <2>1, EmptyIsOrdered DEF ListInv
<1>9. AdsInv'
  BY <1>2, <1>3
<1>10. Shape(agenda, current, asked)'
  BY <1>1, <1>5
<1>11. CurrentInv'
  <2>1. current' = None => Agrees'
    BY <1>1, <1>2, <1>3, NoneIsNoUri DEF TrackCacheTypeOK
  <2>2. ~Doing("set")'
    BY <1>1, <1>4 DEF Doing
  <2>3. Pends(b, "unload")
    BY <1>4 DEF Pends
  <2> QED
    BY <1>1, <2>1, <2>2, <2>3 DEF CurrentInv
<1>12. CapacityInv'
  <2>1. Cardinality(asked' \ Window') = 0 /\ Cardinality(cached') = 0
    <3>1. asked' \ Window' = {}
      BY <1>1
    <3> QED
      BY <1>1, <3>1, FS_EmptySet
  <2>2. capacity' \in Nat
    BY <1>1, <1>2 DEF TrackCacheTypeOK
  <2>3. Cardinality(asked' \ Window') <= auto' /\ Cardinality(cached') <= capacity'
    BY <1>1, <2>1, <2>2
  <2> QED
    BY <1>1, <1>6, <2>3 DEF CapacityInv
<1>13. PreloadInv'
  <2>1. Done' = {}
    BY <1>1 DEF Done
  <2>2. Fresh(FromHead(list), Done)'
    BY <2>1 DEF Fresh
  <2> QED
    BY <2>1, <2>2 DEF PreloadInv
<1> QED
  BY <1>7, <1>8, <1>9, <1>10, <1>11, <1>12, <1>13 DEF CacheInv

(* Between calls, a step that leaves the keys, the queue and the options alone *)
(* has only the list and the references to answer for.                         *)
LEMMA RestKeeps ==
    ASSUME CacheInv, Rest, agenda' = agenda,
           list' \in ListType, ListInv', AdsInv', Agrees', cached' = cached,
           capacity' = capacity, options' = options, auto' = auto, current' = current,
           queue' = queue, asked' = asked,
           {playing', adParent'} \subseteq Refs \cup {NoTrack},
           adTracks' \subseteq Uris, loadingAds' \subseteq Uris \cup {Gone}
    PROVE  CacheInv'
<1>1. /\ agenda = <<>> /\ \A op : ~Pends(agenda, op)
      /\ TrackCacheTypeOK /\ CapacityInv /\ PreloadInv /\ Shape(agenda, current, asked)
  BY AtRest DEF CacheInv
<1>2. TrackCacheTypeOK'
  BY <1>1 DEF TrackCacheTypeOK, ListType
<1>3. Shape(agenda, current, asked)'
  BY <1>1
<1>4. CurrentInv'
  BY <1>1 DEF CurrentInv, Doing
<1>5. CapacityInv'
  <2>1. Window' = Window /\ preloadCapacity' = preloadCapacity
    BY DEF Window, getPrefetched, preloadCapacity
  <2> QED
    BY <1>1, <2>1 DEF CapacityInv
<1>6. PreloadInv'
  <2>1. Done' = Done
    BY DEF Done
  <2> QED
    BY <1>1, <2>1 DEF PreloadInv
<1> QED
  BY <1>2, <1>3, <1>4, <1>5, <1>6 DEF CacheInv

(* getCachedTrack(), which only moves a track in the order of use.             *)
LEMMA GetCachedTrackKeeps ==
    ASSUME CacheInv, NEW u \in Uris, GetCachedTrack(u) PROVE CacheInv'
<1>1. /\ Rest /\ u \in cached /\ list' = pushNode(list, u)
      /\ UNCHANGED <<cached, capacity, queueVars, trackVars, agenda>>
  BY DEF GetCachedTrack
<1>2. TrackCacheTypeOK /\ ListInv /\ AdsInv /\ Agrees
  BY <1>1, AtRest DEF CacheInv
<1>3. PICK i \in 1..Len(FromHead(list)) :
            Ordered(list', Append(RemoveAt(FromHead(list), i), u), cached)
  BY <1>1, <1>2, UsedMoves DEF ListInv
<1>4. cached' = cached
  BY <1>1
<1>5. list' \in ListType /\ ListInv'
  <2>1. FromHead(list') = Append(RemoveAt(FromHead(list), i), u)
    BY <1>3, OrderedIs
  <2> QED
    BY <1>3, <1>4, <2>1 DEF ListInv, Ordered
<1>6. /\ agenda' = agenda /\ capacity' = capacity /\ options' = options /\ auto' = auto
      /\ current' = current /\ queue' = queue /\ asked' = asked
      /\ playing' = playing /\ adParent' = adParent
      /\ adTracks' = adTracks /\ loadingAds' = loadingAds
  BY <1>1 DEF queueVars, trackVars
<1>7. AdsInv' /\ Agrees'
  BY <1>2, <1>4, <1>6 DEF AdsInv, Agrees
<1>8. /\ {playing', adParent'} \subseteq Refs \cup {NoTrack}
      /\ adTracks' \subseteq Uris /\ loadingAds' \subseteq Uris \cup {Gone}
  BY <1>2, <1>6 DEF TrackCacheTypeOK
<1> QED
  BY <1>1, <1>4, <1>5, <1>6, <1>7, <1>8, RestKeeps

(* The references to the current entry and its ads.                            *)
LEMMA AdStepKeeps ==
    ASSUME CacheInv, Rest, UNCHANGED <<cacheVars, queueVars, adParent, agenda>>,
           \/ playing' \in {playing, adParent}
           \/ adParent # NoTrack /\ playing' = [ContentTrack(adParent.uri) EXCEPT !.ad = TRUE],
           adTracks' \subseteq cached, loadingAds' \subseteq cached \cup {Gone}
    PROVE  CacheInv'
<1>1. TrackCacheTypeOK /\ ListInv /\ AdsInv /\ Agrees
  BY AtRest DEF CacheInv
<1>2. /\ list' = list /\ cached' = cached /\ capacity' = capacity /\ options' = options
      /\ auto' = auto /\ current' = current /\ queue' = queue /\ asked' = asked
      /\ adParent' = adParent /\ agenda' = agenda
  BY DEF cacheVars, queueVars
<1>3. /\ {playing, adParent} \subseteq Refs \cup {NoTrack}
      /\ current \in Uris \cup {None} /\ cached \subseteq Uris
      /\ list \in ListType
  BY <1>1 DEF TrackCacheTypeOK, ListType
<1>4. /\ adParent = ContentTrack(current) /\ playing.uri = current /\ ~playing.disposed
      /\ current \in cached \cup {None}
  BY <1>1 DEF Agrees
<1>5. adParent.uri = current /\ ~adParent.disposed
  BY <1>4 DEF ContentTrack, NoTrack
<1>6. adParent # NoTrack => current # None /\ current \in Uris
  BY <1>3, <1>4 DEF ContentTrack
<1> DEFINE adTrack == [ContentTrack(adParent.uri) EXCEPT !.ad = TRUE]
<1>7. adParent # NoTrack => adTrack \in Refs /\ adTrack.uri = current /\ ~adTrack.disposed
  BY <1>5, <1>6 DEF ContentTrack, Refs
<1> HIDE DEF adTrack
<1>8. playing' \in Refs \cup {NoTrack} /\ playing'.uri = current /\ ~playing'.disposed
  <2>1. CASE playing' = playing
    BY <1>3, <1>4, <2>1
  <2>2. CASE playing' = adParent
    BY <1>3, <1>5, <2>2
  <2>3. CASE playing' # playing /\ playing' # adParent
    <3>1. adParent # NoTrack /\ playing' = adTrack
      BY <2>3 DEF adTrack
    <3> QED
      BY <1>7, <3>1
  <2> QED
    BY <2>1, <2>2, <2>3
<1>9. Agrees'
  BY <1>2, <1>4, <1>8 DEF Agrees
<1>10. ListInv' /\ AdsInv'
  BY <1>1, <1>2 DEF ListInv, AdsInv
<1>11. /\ {playing', adParent'} \subseteq Refs \cup {NoTrack}
       /\ adTracks' \subseteq Uris /\ loadingAds' \subseteq Uris \cup {Gone}
  BY <1>2, <1>3, <1>8
<1> QED
  BY <1>2, <1>3, <1>9, <1>10, <1>11, RestKeeps

(* Entering and leaving ads and preloading the tracks of a break: all of them  *)
(* at rest.                                                                    *)
LEMMA AdsKeep ==
    CacheInv /\ (\/ EnterAd \/ LeaveAd \/ PreloadBreakAds
                 \/ \E parent \in loadingAds : PreloadAd(parent)) => CacheInv'
<1> SUFFICES ASSUME CacheInv,
                    \/ EnterAd \/ LeaveAd \/ PreloadBreakAds
                    \/ \E parent \in loadingAds : PreloadAd(parent)
             PROVE  CacheInv'
  OBVIOUS
<1>1. Rest
  BY DEF EnterAd, LeaveAd, PreloadBreakAds, PreloadAd
<1>2. AdsInv /\ Agrees /\ adTracks \subseteq cached /\ loadingAds \subseteq cached \cup {Gone}
  BY <1>1, AtRest DEF CacheInv, AdsInv
<1>3. /\ adParent # NoTrack => adParent.uri \in cached
      /\ ~adParent.disposed
  BY <1>2 DEF Agrees, ContentTrack, NoTrack
<1>4. CASE EnterAd
  <2>1. /\ adParent # NoTrack
        /\ playing' = [ContentTrack(adParent.uri) EXCEPT !.ad = TRUE]
        /\ adTracks' = adTracks \cup {adParent.uri}
        /\ UNCHANGED <<cacheVars, queueVars, adParent, loadingAds, agenda>>
    BY <1>4 DEF EnterAd
  <2>2. adTracks' \subseteq cached /\ loadingAds' \subseteq cached \cup {Gone}
    BY <1>2, <1>3, <2>1
  <2> QED
    BY <1>1, <2>1, <2>2, AdStepKeeps
<1>5. CASE LeaveAd
  <2>1. playing' = adParent /\ UNCHANGED <<cacheVars, queueVars, adParent, adTracks, loadingAds, agenda>>
    BY <1>5 DEF LeaveAd
  <2>2. adTracks' \subseteq cached /\ loadingAds' \subseteq cached \cup {Gone}
    BY <1>2, <2>1
  <2> QED
    BY <1>1, <2>1, <2>2, AdStepKeeps
<1>6. CASE PreloadBreakAds
  <2>1. /\ adParent # NoTrack
        /\ loadingAds' = loadingAds \cup {adParent.uri}
        /\ UNCHANGED <<cacheVars, queueVars, playing, adParent, adTracks, agenda>>
    BY <1>3, <1>6 DEF PreloadBreakAds
  <2>2. adTracks' \subseteq cached /\ loadingAds' \subseteq cached \cup {Gone} /\ playing' = playing
    BY <1>2, <1>3, <2>1
  <2> QED
    BY <1>1, <2>1, <2>2, AdStepKeeps
<1>7. CASE \E parent \in loadingAds : PreloadAd(parent)
  <2>1. PICK parent \in loadingAds : PreloadAd(parent)
    BY <1>7
  <2>2. /\ loadingAds' = loadingAds \ {parent}
        /\ adTracks' = IF parent = Gone THEN adTracks ELSE adTracks \cup {parent}
        /\ UNCHANGED <<cacheVars, queueVars, playing, adParent, agenda>>
    BY <2>1 DEF PreloadAd
  <2>3. adTracks' \subseteq cached /\ loadingAds' \subseteq cached \cup {Gone} /\ playing' = playing
    BY <1>2, <2>2
  <2> QED
    BY <1>1, <2>2, <2>3, AdStepKeeps
<1> QED
  BY <1>4, <1>5, <1>6, <1>7

(* What the steps that use or fill the cache have in common: the first         *)
(* operation of the agenda is done, or goes on.                                *)
LEMMA CacheStepKeeps ==
    ASSUME CacheInv, ListInv', list' \in ListType, cached' \subseteq Uris,
           NEW gone \in SUBSET (Uris \ Window), NEW added \in SUBSET Uris,
           NEW begun \in SUBSET added,
           cached' = (cached \cup added) \ gone, disposeTracks(gone, begun),
           UNCHANGED <<capacity, queueVars>>,
           agenda' \in Seq(Agendas), Shape(agenda', current, asked),
           ~Pends(agenda, "capacity"),
           ~Pends(agenda', "set") /\ ~Pends(agenda', "unload") => Agrees,
           Pends(agenda', "unload") => Pends(agenda, "unload") /\ added = {},
           Doing("set")' => current \in cached \cup added \cup {None},
           ~Pends(agenda', "shrink") => Cardinality(cached') <= capacity,
           PreloadInv'
    PROVE  CacheInv'
<1>1. TrackCacheTypeOK /\ AdsInv /\ CurrentInv /\ CapacityInv
  BY DEF CacheInv
<1>2. /\ capacity' = capacity /\ options' = options /\ auto' = auto
      /\ current' = current /\ queue' = queue /\ asked' = asked
  BY DEF queueVars
<1>3. current \notin gone
  BY <1>1, Sizes, NoneIsNoUri DEF TrackCacheTypeOK
<1>4. /\ {playing', adParent'} \subseteq Refs \cup {NoTrack}
      /\ adTracks' \subseteq Uris /\ loadingAds' \subseteq Uris \cup {Gone}
      /\ AdsInv => AdsInv'
      /\ Agrees => Agrees'
      /\ current \in cached \cup added \cup {None} => current' \in cached' \cup {None}
  <2>1. gone \in SUBSET Uris
    OBVIOUS
  <2> QED
    BY <1>1, <1>2, <1>3, <2>1, SurvivorsStay
<1>5. TrackCacheTypeOK'
  BY <1>1, <1>2, <1>4 DEF TrackCacheTypeOK, ListType
<1>6. AdsInv' /\ Shape(agenda, current, asked)'
  BY <1>1, <1>2, <1>4
<1>7. CurrentInv'
  BY <1>1, <1>2, <1>4 DEF CurrentInv
<1>8. CapacityInv'
  <2>1. Window' = Window /\ preloadCapacity' = preloadCapacity
    BY <1>2 DEF Window, getPrefetched, preloadCapacity
  <2> QED
    BY <1>1, <1>2, <2>1 DEF CapacityInv
<1> QED
  BY <1>5, <1>6, <1>7, <1>8 DEF CacheInv

(* The track created or found for an entry of the queue.                       *)
LEMMA GetOrCreateKeeps == CacheInv /\ GetOrCreate => CacheInv'
<1> SUFFICES ASSUME CacheInv, GetOrCreate PROVE CacheInv'
  OBVIOUS
<1> DEFINE u == Head(agenda).uri
<1>1. /\ Doing("get") /\ getOrCreateTrack(u, {}) /\ agenda' = <<>> \o Tail(agenda)
      /\ UNCHANGED <<capacity, queueVars>>
  BY DEF GetOrCreate, Then
<1>2. TrackCacheTypeOK /\ ListInv /\ CapacityInv /\ PreloadInv
  BY DEF CacheInv
<1>3. /\ agenda # <<>> /\ Head(agenda).op = "get"
      /\ Tail(agenda) \in Seq(Agendas) /\ Shape(Tail(agenda), current, asked)
      /\ ~Pends(agenda, "capacity") /\ ~Pends(agenda, "shrink")
      /\ ~Pends(Tail(agenda), "unload")
      /\ u = current /\ Tail(agenda) # <<>> /\ Head(Tail(agenda)).op = "set"
      /\ Head(agenda) \in Agendas
      /\ Pending(Tail(agenda)) = Pending(agenda)
  BY <1>1, AgendaGoesOn
<1>4. agenda' = Tail(agenda)
  BY <1>1, <1>3, ConcatEmptySeq
<1>5. u \in Uris
  BY <1>3 DEF Agendas
<1> HIDE DEF u
<1>6. /\ ListInv' /\ list' \in ListType /\ cached' \subseteq Uris
      /\ Cardinality(cached) <= capacity => Cardinality(cached') <= capacity'
  BY <1>1, <1>2, <1>5, AfterGet
<1>7. PICK gone \in SUBSET (Uris \ Window) :
            cached' = (cached \cup {u}) \ gone /\ disposeTracks(gone, {})
  BY <1>1, <1>2, <1>5, AfterGet
<1>8. Pends(agenda', "set")
  <2>1. 1 \in 1..Len(agenda') /\ Head(agenda') = agenda'[1]
    BY <1>3, <1>4
  <2> QED
    BY <1>3, <1>4, <2>1 DEF Pends
<1>9. Cardinality(cached') <= capacity
  BY <1>1, <1>2, <1>3, <1>6 DEF CapacityInv
<1>10. PreloadInv'
  <2>1. Done = {} /\ asked' = asked
    BY <1>1, <1>2, <1>3 DEF PreloadInv, queueVars
  <2>2. Done' = {}
    BY <1>3, <1>4, <2>1 DEF Done
  <2>3. Fresh(FromHead(list), Done)'
    BY <2>2 DEF Fresh
  <2> QED
    BY <2>2, <2>3 DEF PreloadInv
<1>11. {u} \in SUBSET Uris /\ {} \in SUBSET {u} /\ current \in cached \cup {u} \cup {None}
  BY <1>3, <1>5
<1> QED
  BY <1>1, <1>3, <1>4, <1>6, <1>7, <1>8, <1>9, <1>10, <1>11, CacheStepKeeps

(* One track of the preload: loaded, after a victim was evicted where the      *)
(* cache is full.                                                              *)
LEMMA PreloadTrackKeeps == CacheInv /\ PreloadTrack => CacheInv'
<1> SUFFICES ASSUME CacheInv, PreloadTrack PROVE CacheInv'
  OBVIOUS
<1> DEFINE u == Head(agenda).uri
<1>1. /\ Doing("preload") /\ agenda' = <<>> \o Tail(agenda)
      /\ UNCHANGED <<capacity, queueVars>>
  BY DEF PreloadTrack, Then
<1>2. PICK begun \in {{}, {u}} : getOrCreateTrack(u, begun)
  BY DEF PreloadTrack
<1>3. TrackCacheTypeOK /\ ListInv /\ CurrentInv /\ CapacityInv
  BY DEF CacheInv
<1>4. /\ agenda # <<>> /\ Head(agenda).op = "preload"
      /\ Tail(agenda) \in Seq(Agendas) /\ Shape(Tail(agenda), current, asked)
      /\ ~Pends(agenda, "capacity") /\ ~Pends(agenda, "shrink")
      /\ ~Pends(Tail(agenda), "set") /\ ~Pends(Tail(agenda), "unload")
      /\ Head(agenda) \in Agendas
      /\ \A o : Pends(agenda, o) <=> ("preload" = o \/ Pends(Tail(agenda), o))
  BY <1>1, AgendaGoesOn
<1>5. agenda' = Tail(agenda)
  BY <1>1, <1>4, ConcatEmptySeq
<1>6. u \in Uris
  BY <1>4 DEF Agendas
<1>7. PreloadInv'
  BY <1>1, <1>2, <1>4, <1>5, <1>6, PreloadedStay DEF queueVars
<1> HIDE DEF u
<1>8. /\ ListInv' /\ list' \in ListType /\ cached' \subseteq Uris
      /\ Cardinality(cached) <= capacity => Cardinality(cached') <= capacity'
  BY <1>1, <1>2, <1>3, <1>6, AfterGet
<1>9. PICK gone \in SUBSET (Uris \ Window) :
            cached' = (cached \cup {u}) \ gone /\ disposeTracks(gone, begun)
  BY <1>1, <1>2, <1>3, <1>6, AfterGet
<1>10. Agrees
  BY <1>3, <1>4 DEF CurrentInv
<1>11. ~Doing("set")'
  <2> SUFFICES ASSUME agenda' # <<>>, Head(agenda').op = "set" PROVE FALSE
    BY DEF Doing
  <2>1. 1 \in 1..Len(agenda') /\ Head(agenda') = agenda'[1]
    BY <1>4, <1>5
  <2> QED
    BY <1>4, <1>5, <2>1 DEF Pends
<1>12. Cardinality(cached') <= capacity
  BY <1>1, <1>3, <1>4, <1>8 DEF CapacityInv
<1>13. {u} \in SUBSET Uris /\ begun \in SUBSET {u}
  BY <1>6
<1> QED
  BY <1>1, <1>4, <1>5, <1>7, <1>8, <1>9, <1>10, <1>11, <1>12, <1>13, CacheStepKeeps

(* One eviction of the loop that lowers the capacity, or its end.              *)
LEMMA ShrinkKeeps == CacheInv /\ Shrink => CacheInv'
<1> SUFFICES ASSUME CacheInv, Shrink PROVE CacheInv'
  OBVIOUS
<1> DEFINE q == FromHead(list)
<1>1. Doing("shrink") /\ UNCHANGED <<capacity, queueVars>>
  BY DEF Shrink
<1>2. /\ TrackCacheTypeOK /\ ListInv /\ CurrentInv /\ CapacityInv /\ PreloadInv
      /\ Shape(agenda, current, asked)
  BY DEF CacheInv
<1>3. /\ agenda # <<>> /\ agenda \in Seq(Agendas) /\ Head(agenda).op = "shrink"
      /\ Tail(agenda) \in Seq(Agendas) /\ Shape(Tail(agenda), current, asked)
      /\ ~Pends(agenda, "capacity") /\ ~Pends(Tail(agenda), "set")
      /\ Pending(Tail(agenda)) = Pending(agenda)
      /\ \A o : Pends(agenda, o) <=> ("shrink" = o \/ Pends(Tail(agenda), o))
  BY <1>1, AgendaGoesOn
<1>4. ~Pends(agenda, "set") /\ Pends(agenda, "shrink")
  BY <1>3
<1>5. asked' = asked /\ Done = {}
  BY <1>1, <1>2, <1>3 DEF queueVars, PreloadInv
<1>6. Ordered(list, q, cached) /\ cached \subseteq Uris /\ list \in ListType
  BY <1>2, OrderedIs DEF ListInv, Ordered
<1>7. IsFiniteSet(cached) /\ Cardinality(cached) \in Nat /\ capacity \in Nat
  BY <1>2, <1>6, OrderedIs, FS_CardinalityType DEF TrackCacheTypeOK
<1>8. ASSUME Pending(agenda') = Pending(agenda) PROVE PreloadInv'
  <2>1. Done' = {}
    BY <1>5, <1>8 DEF Done
  <2>2. Fresh(FromHead(list), Done)'
    BY <2>1 DEF Fresh
  <2> QED
    BY <2>1, <2>2 DEF PreloadInv
<1> HIDE DEF q
<1>9. CASE Cardinality(cached) > capacity
  <2>1. evictLeastRecentlyUsed(list, cached, {}) /\ agenda' = agenda
    BY <1>9 DEF Shrink
  <2>2. PICK i \in 1..Len(q) :
            /\ Victim(q, i) /\ Ordered(list', RemoveAt(q, i), cached')
            /\ cached' = cached \ {q[i]} /\ disposeTracks({q[i]}, {})
    BY <1>6, <2>1, EvictsVictim
  <2>3. q[i] \in Uris \ Window
    BY <1>6, <2>2, OrderedIs DEF Victim, onEvicting, Window
  <2>4. ListInv' /\ list' \in ListType /\ cached' \subseteq Uris
    <3>1. FromHead(list') = RemoveAt(q, i)
      BY <2>2, OrderedIs
    <3> QED
      BY <1>6, <2>2, <3>1 DEF ListInv, Ordered
  <2>5. ~Pends(agenda', "set") /\ ~Pends(agenda', "unload") => Agrees
    BY <1>2, <2>1 DEF CurrentInv
  <2>6. ~Doing("set")'
    BY <1>3, <2>1 DEF Doing
  <2>7. PreloadInv'
    BY <1>8, <2>1
  <2>8. {q[i]} \in SUBSET (Uris \ Window) /\ {} \in SUBSET Uris /\ {} \in SUBSET {}
        /\ cached' = (cached \cup {}) \ {q[i]}
    BY <2>2, <2>3
  <2> QED
    BY <1>1, <1>2, <1>3, <1>4, <2>1, <2>2, <2>4, <2>5, <2>6, <2>7, <2>8, CacheStepKeeps
<1>10. CASE ~(Cardinality(cached) > capacity)
  <2>1. agenda' = <<>> \o Tail(agenda) /\ UNCHANGED <<list, cached, trackVars>>
    BY <1>10 DEF Shrink, Then
  <2>2. agenda' = Tail(agenda)
    BY <1>3, <2>1, ConcatEmptySeq
  <2>3. /\ list' = list /\ cached' = cached /\ playing' = playing /\ adParent' = adParent
        /\ adTracks' = adTracks /\ loadingAds' = loadingAds
        /\ capacity' = capacity /\ options' = options /\ auto' = auto
        /\ current' = current /\ queue' = queue /\ asked' = asked
    BY <1>1, <2>1 DEF trackVars, queueVars
  <2>4. TrackCacheTypeOK'
    BY <1>2, <1>3, <2>2, <2>3 DEF TrackCacheTypeOK
  <2>5. ListInv' /\ AdsInv'
    BY <2>3 DEF CacheInv, ListInv, AdsInv
  <2>6. Shape(agenda, current, asked)'
    BY <1>3, <2>2, <2>3
  <2>7. CurrentInv'
    <3>1. Agrees => Agrees'
      BY <2>3 DEF Agrees
    <3>2. Pends(agenda', "unload") <=> Pends(agenda, "unload")
      BY <1>3, <2>2
    <3>3. ~Doing("set")'
      <4> SUFFICES ASSUME agenda' # <<>>, Head(agenda').op = "set" PROVE FALSE
        BY DEF Doing
      <4>1. 1 \in 1..Len(agenda') /\ Head(agenda') = agenda'[1]
        BY <1>3, <2>2
      <4> QED
        BY <1>3, <2>2, <4>1 DEF Pends
    <3> QED
      BY <1>2, <1>4, <2>3, <3>1, <3>2, <3>3 DEF CurrentInv
  <2>8. CapacityInv'
    <3>1. Window' = Window /\ preloadCapacity' = preloadCapacity
      BY <2>3 DEF Window, getPrefetched, preloadCapacity
    <3>2. Cardinality(cached') <= capacity'
      BY <1>7, <1>10, <2>3
    <3> QED
      BY <1>2, <1>3, <2>3, <3>1, <3>2 DEF CapacityInv
  <2>9. PreloadInv'
    BY <1>3, <1>8, <2>2
  <2> QED
    BY <2>4, <2>5, <2>6, <2>7, <2>8, <2>9 DEF CacheInv
<1> QED
  BY <1>9, <1>10

(* An empty cache satisfies the invariant.                                     *)
LEMMA CacheInvInitially == TrackCacheInit => CacheInv
<1> SUFFICES ASSUME TrackCacheInit PROVE CacheInv
  OBVIOUS
<1>1. /\ list = EmptyList /\ cached = {} /\ options \in Options /\ auto = 0
      /\ capacity = options.preloadCapacity + options.trackPrefetchCount + 1
      /\ current = None /\ queue = <<>> /\ playing = NoTrack /\ adParent = NoTrack
      /\ adTracks = {} /\ loadingAds = {} /\ agenda = <<>> /\ asked = {}
  BY DEF TrackCacheInit
<1>2. options.preloadCapacity \in Nat /\ options.trackPrefetchCount \in Nat
  BY <1>1, TrackCacheAssumption
<1>3. ListInv
  <2>1. FromHead(EmptyList) = <<>>
    BY EmptyIsOrdered, OrderedIs
  <2> QED
    BY <1>1, <2>1, EmptyIsOrdered DEF ListInv
<1>4. TrackCacheTypeOK
  <2>1. list \in ListType
    BY <1>1, EmptyIsOrdered DEF Ordered
  <2>2. capacity \in Nat /\ queue \in Seq(Uris) /\ Len(queue) <= MaxQueue /\ agenda \in Seq(Agendas)
    BY <1>1, <1>2, TrackCacheAssumption
  <2> QED
    BY <1>1, <2>1, <2>2 DEF TrackCacheTypeOK, ListType
<1>5. AdsInv /\ Shape(agenda, current, asked)
  BY <1>1 DEF AdsInv, Shape
<1>6. CurrentInv
  BY <1>1 DEF CurrentInv, Agrees, ContentTrack, NoTrack, Pends, Doing
<1>7. CapacityInv
  <2>1. preloadCapacity = options.preloadCapacity
    BY <1>1, <1>2 DEF preloadCapacity
  <2>2. asked \ Window = {} /\ Cardinality({}) = 0
    BY <1>1, FS_EmptySet
  <2>3. Cardinality(asked \ Window) <= auto /\ Cardinality(cached) <= capacity
    BY <1>1, <1>2, <2>2
  <2> QED
    BY <1>1, <2>1, <2>3 DEF CapacityInv
<1>8. PreloadInv
  BY <1>1 DEF PreloadInv, Done
<1> QED
  BY <1>3, <1>4, <1>5, <1>6, <1>7, <1>8 DEF CacheInv

(* Every step keeps the invariant.                                             *)
LEMMA CacheInvStep == CacheInv /\ [TrackCacheNext]_trackCacheVars => CacheInv'
<1> SUFFICES ASSUME CacheInv, [TrackCacheNext]_trackCacheVars PROVE CacheInv'
  OBVIOUS
<1>1. CASE UNCHANGED trackCacheVars
  BY <1>1 DEF trackCacheVars, CacheInv, TrackCacheTypeOK, ListInv, AdsInv, CurrentInv, Agrees,
              Doing, CapacityInv, preloadCapacity, Window, getPrefetched, PreloadInv, Done, Fresh
<1>2. CASE \/ GetOrCreate \/ PreloadTrack \/ checkCacheCapacity \/ Shrink
           \/ SetCurrentTrack \/ NextIfIdle \/ Unload
  BY <1>2, GetOrCreateKeeps, PreloadTrackKeeps, checkCacheCapacityKeeps, ShrinkKeeps,
     SetCurrentTrackKeeps, NextIfIdleKeeps, UnloadKeeps
<1>3. CASE \/ Load \/ NextTrack \/ Enqueue \/ ClearQueue
           \/ Preload \/ Configure \/ ClearTrackCache
  BY <1>3, LoadKeeps, NextTrackKeeps, EnqueueKeeps, ClearQueueKeeps, PreloadKeeps,
     ConfigureKeeps, ClearTrackCacheKeeps
<1>4. CASE \E u \in Uris : GetCachedTrack(u)
  BY <1>4, GetCachedTrackKeeps
<1>5. CASE \/ EnterAd \/ LeaveAd \/ PreloadBreakAds
           \/ \E parent \in loadingAds : PreloadAd(parent)
  BY <1>5, AdsKeep
<1> QED
  BY <1>1, <1>2, <1>3, <1>4, <1>5 DEF TrackCacheNext

(* The cache and the references to its tracks are in order, always.            *)
THEOREM CacheInvAlways == TrackCacheSpec => []CacheInv
BY CacheInvInitially, CacheInvStep, PTL DEF TrackCacheSpec

(* The invariant gives the safety property of the run.                         *)
LEMMA CacheInvSuffices == CacheInv => TracksSound
<1> SUFFICES ASSUME CacheInv PROVE TracksSound
  OBVIOUS
<1>1. TrackCacheTypeOK /\ ListInv /\ AdsInv
  BY DEF CacheInv
<1>2. ListIsMap
  <2>1. Ordered(list, FromHead(list), cached)
    BY <1>1 DEF ListInv
  <2> QED
    BY <2>1, OrderedIs DEF ListIsMap, Ordered
<1>3. AdTracksPegged
  BY <1>1 DEF AdsInv, AdTracksPegged
<1>4. CurrentSurvives
  BY AtRest DEF CurrentSurvives, Agrees
<1>5. PreloadedSurvive
  BY AtRest DEF PreloadedSurvive
<1> QED
  BY <1>1, <1>2, <1>3, <1>4, <1>5 DEF TracksSound

(* The list and the map are one cache, no ad outlives its content, the current *)
(* entry is cached and was not disposed between calls, and all that the last   *)
(* call preloaded is there, within the capacity.                               *)
THEOREM TracksAlwaysSound == TrackCacheSpec => []TracksSound
BY CacheInvAlways, CacheInvSuffices, PTL

--------------------------------------------------------------------------------
\* The order of last use

(* The abstract order is built from the same operators.                        *)
LEMMA SameOperators ==
    /\ \A q, i : Lru!RemoveAt(q, i) = RemoveAt(q, i)
    /\ \A q : Lru!Range(q) = Range(q)
BY DEF Lru!RemoveAt, RemoveAt, Lru!Range, Range

(* The victim found along the pointers is the one the abstract cache drops.    *)
LEMMA VictimIsEvicted ==
    ASSUME NEW q \in Seq(Uris), NEW i, Victim(q, i)
    PROVE  Lru!Evicted(q) = RemoveAt(q, i)
<1> DEFINE droppable == {j \in DOMAIN q : q[j] \notin Range(getPrefetched)}
           k == CHOOSE j \in droppable : \A m \in droppable : j <= m
<1>1. DOMAIN q = 1..Len(q) /\ Len(q) \in Nat
  OBVIOUS
<1>2. i \in droppable /\ \A m \in droppable : i <= m
  BY <1>1 DEF Victim, onEvicting
<1>3. droppable \subseteq Nat
  BY <1>1
<1>4. Lru!Evicted(q) = RemoveAt(q, k)
  BY SameOperators DEF Lru!Evicted
<1> HIDE DEF droppable
<1>5. k \in droppable /\ \A m \in droppable : k <= m
  BY <1>2
<1> HIDE DEF k
<1>6. i <= k /\ k <= i /\ i \in Nat /\ k \in Nat
  BY <1>2, <1>3, <1>5
<1>7. i = k
  BY <1>6
<1> QED
  BY <1>4, <1>7

(* The protected keys change only with options, current track or queue.        *)
LEMMA ProtectedKept ==
    UNCHANGED <<options, current, queue>> => Range(getPrefetched)' = Range(getPrefetched)
BY DEF getPrefetched

(* An order that stays allows any new capacity and protection.                 *)
LEMMA OrderKept ==
    ASSUME TrackCacheTypeOK', list' = list
    PROVE  Lru!Next
<1>1. capacity' \in Nat
  BY DEF TrackCacheTypeOK
<1>2. Range(getPrefetched)' \subseteq Uris
  <2>1. options' \in Options /\ current' \in Uris \cup {None} /\ queue' \in Seq(Uris)
    BY DEF TrackCacheTypeOK
  <2>2. options'.trackPrefetchCount \in Nat
    BY <2>1, TrackCacheAssumption
  <2>3. Range(window(current', queue', options'.trackPrefetchCount)) \subseteq Uris
    BY <2>1, <2>2, WindowIs
  <2> QED
    BY <2>3 DEF getPrefetched
<1>3. Lru!Configure
  BY <1>1, <1>2 DEF Lru!Configure
<1> QED
  BY <1>3 DEF Lru!Next

(* getOrSet is a use or an insertion of the abstract cache.                    *)
LEMMA GetRefines ==
    ASSUME TrackCacheTypeOK, ListInv, NEW u \in Uris, NEW begun, getOrCreateTrack(u, begun),
           UNCHANGED <<capacity, queueVars>>
    PROVE  Lru!Next
<1> DEFINE q == FromHead(list)
<1>1. /\ Ordered(list, q, cached) /\ capacity \in Nat /\ q \in Seq(Uris)
      /\ cached = Range(q) /\ Cardinality(cached) = Len(q)
  BY OrderedIs DEF ListInv, TrackCacheTypeOK, Ordered
<1>2. /\ capacity' = capacity /\ Range(getPrefetched)' = Range(getPrefetched)
  BY ProtectedKept DEF queueVars
<1>3. CASE Found(u, begun)
  <2>1. PICK i \in 1..Len(q) :
            q[i] = u /\ Ordered(list', Append(RemoveAt(q, i), u), cached')
    BY <1>3 DEF Found
  <2>2. FromHead(list)' = Append(RemoveAt(q, i), u)
    BY <2>1, OrderedIs
  <2>3. i \in DOMAIN q
    BY <1>1, <2>1
  <2>4. Lru!Use(u)
    BY <1>2, <2>1, <2>2, <2>3, SameOperators DEF Lru!Use
  <2> QED
    BY <2>4 DEF Lru!Next
<1>4. CASE Added(u, begun)
  <2>1. /\ u \notin cached /\ Cardinality(cached) < capacity
        /\ Ordered(list', Append(q, u), cached')
    BY <1>4 DEF Added
  <2>2. FromHead(list)' = Append(q, u)
    BY <2>1, OrderedIs
  <2>3. Lru!Add(u)
    BY <1>1, <1>2, <2>1, <2>2, SameOperators DEF Lru!Add
  <2> QED
    BY <2>3 DEF Lru!Next
<1>5. CASE Replaced(u, begun)
  <2> DEFINE r == Append(q, u)
  <2>1. u \notin cached /\ Cardinality(cached) >= capacity
    BY <1>5 DEF Replaced
  <2>2. PICK i \in 1..Len(r) : Victim(r, i) /\ Ordered(list', RemoveAt(r, i), cached')
    BY <1>5 DEF Replaced
  <2>3. FromHead(list)' = RemoveAt(r, i)
    BY <2>2, OrderedIs
  <2>4. r \in Seq(Uris)
    BY <1>1, AppendEntries
  <2>5. Lru!Evicted(r) = RemoveAt(r, i)
    <3> HIDE DEF r
    <3> QED
      BY <2>2, <2>4, VictimIsEvicted
  <2>6. ~(Len(q) < capacity)
    BY <1>1, <2>1
  <2>7. Lru!Add(u)
    BY <1>1, <1>2, <2>1, <2>3, <2>5, <2>6, SameOperators DEF Lru!Add
  <2> QED
    BY <2>7 DEF Lru!Next
<1> QED
  BY <1>1, <1>3, <1>4, <1>5, GetsTrack

(* Lowering the capacity drops, one by one, what the abstract cache drops.     *)
LEMMA ShrinkRefines ==
    ASSUME CacheInv, CacheInv', Shrink PROVE Lru!Next
<1> DEFINE q == FromHead(list)
<1>1. TrackCacheTypeOK' /\ TrackCacheTypeOK /\ ListInv
  BY DEF CacheInv
<1>2. /\ Ordered(list, q, cached) /\ q \in Seq(Uris) /\ Cardinality(cached) = Len(q)
  BY <1>1, OrderedIs DEF ListInv, Ordered
<1>3. capacity' = capacity /\ Range(getPrefetched)' = Range(getPrefetched)
  BY ProtectedKept DEF Shrink, queueVars
<1>4. CASE Cardinality(cached) > capacity
  <2>1. evictLeastRecentlyUsed(list, cached, {})
    BY <1>4 DEF Shrink
  <2>2. PICK i \in 1..Len(q) : Victim(q, i) /\ Ordered(list', RemoveAt(q, i), cached')
    BY <1>2, <2>1, EvictsVictim
  <2>3. FromHead(list)' = RemoveAt(q, i)
    BY <2>2, OrderedIs
  <2>4. Lru!Evicted(q) = RemoveAt(q, i)
    <3> HIDE DEF q
    <3> QED
      BY <1>2, <2>2, VictimIsEvicted
  <2>5. Lru!Evict
    BY <1>2, <1>3, <1>4, <2>3, <2>4 DEF Lru!Evict
  <2> QED
    BY <2>5 DEF Lru!Next
<1>5. CASE ~(Cardinality(cached) > capacity)
  BY <1>1, <1>5, OrderKept DEF Shrink
<1> QED
  BY <1>4, <1>5

(* A lookup is a use of the abstract cache.                                    *)
LEMMA GetCachedRefines ==
    ASSUME CacheInv, NEW u \in Uris, GetCachedTrack(u) PROVE Lru!Next
<1> DEFINE q == FromHead(list)
<1>1. Ordered(list, q, cached) /\ q \in Seq(Uris)
  BY DEF CacheInv, ListInv, Ordered
<1>2. u \in cached /\ list' = pushNode(list, u) /\ capacity' = capacity
  BY DEF GetCachedTrack
<1>3. Range(getPrefetched)' = Range(getPrefetched)
  BY ProtectedKept DEF GetCachedTrack, queueVars
<1>4. PICK i \in 1..Len(q) :
            q[i] = u /\ Ordered(list', Append(RemoveAt(q, i), u), cached)
  BY <1>1, <1>2, UsedMoves
<1>5. FromHead(list)' = Append(RemoveAt(q, i), u) /\ i \in DOMAIN q
  <2>1. FromHead(list') = Append(RemoveAt(q, i), u)
    BY <1>4, OrderedIs
  <2> QED
    BY <1>1, <1>4, <2>1
<1>6. Lru!Use(u)
  BY <1>2, <1>3, <1>4, <1>5, SameOperators DEF Lru!Use
<1> QED
  BY <1>6 DEF Lru!Next

(* Clearing the cache clears the abstract one.                                 *)
LEMMA ClearRefines ==
    ASSUME ClearTrackCache PROVE Lru!Next
<1>1. list' = EmptyList /\ capacity' = capacity
  BY DEF ClearTrackCache
<1>2. FromHead(list)' = <<>>
  BY <1>1, EmptyIsOrdered, OrderedIs
<1>3. Range(getPrefetched)' = Range(getPrefetched)
  BY ProtectedKept DEF ClearTrackCache
<1>4. Lru!Clear
  BY <1>1, <1>2, <1>3 DEF Lru!Clear
<1> QED
  BY <1>4 DEF Lru!Next

(* An empty list of pointers is an empty order.                                *)
LEMMA LruInitially == TrackCacheInit => Lru!Init
<1> SUFFICES ASSUME TrackCacheInit PROVE Lru!Init
  OBVIOUS
<1>1. list = EmptyList /\ options \in Options /\ current = None /\ queue = <<>>
  BY DEF TrackCacheInit
<1>2. FromHead(list) = <<>>
  BY <1>1, EmptyIsOrdered, OrderedIs
<1>3. capacity \in Nat
  BY CacheInvInitially DEF CacheInv, TrackCacheTypeOK
<1>4. Range(getPrefetched) = {}
  <2>1. options.trackPrefetchCount \in Nat /\ <<>> \in Seq(Uris)
    BY <1>1, TrackCacheAssumption
  <2>2. window(None, <<>>, options.trackPrefetchCount) = <<>>
    BY <2>1, WindowIs
  <2> QED
    BY <1>1, <2>2 DEF getPrefetched, Range
<1> QED
  BY <1>2, <1>3, <1>4 DEF Lru!Init

(* Every step of the cache is a step of the abstract cache or a stutter.       *)
LEMMA LruStep ==
    ASSUME CacheInv, CacheInv', [TrackCacheNext]_trackCacheVars
    PROVE  [Lru!Next]_<<FromHead(list), capacity, Range(getPrefetched)>>
<1>1. TrackCacheTypeOK /\ ListInv /\ TrackCacheTypeOK'
  BY DEF CacheInv
<1>2. CASE UNCHANGED trackCacheVars
  BY <1>2 DEF trackCacheVars, getPrefetched
<1>3. CASE GetOrCreate
  <2>1. /\ Doing("get") /\ getOrCreateTrack(Head(agenda).uri, {})
        /\ UNCHANGED <<capacity, queueVars>>
    BY <1>3 DEF GetOrCreate
  <2>2. Head(agenda).uri \in Uris
    BY <2>1, AgendaGoesOn DEF Agendas
  <2> QED
    BY <1>1, <2>1, <2>2, GetRefines
<1>4. CASE PreloadTrack
  <2>1. Doing("preload") /\ UNCHANGED <<capacity, queueVars>>
    BY <1>4 DEF PreloadTrack
  <2>2. PICK begun : getOrCreateTrack(Head(agenda).uri, begun)
    BY <1>4 DEF PreloadTrack
  <2>3. Head(agenda).uri \in Uris
    BY <2>1, AgendaGoesOn DEF Agendas
  <2> QED
    BY <1>1, <2>1, <2>2, <2>3, GetRefines
<1>5. CASE Shrink
  BY <1>5, ShrinkRefines
<1>6. CASE \/ checkCacheCapacity \/ SetCurrentTrack \/ NextIfIdle \/ Unload
           \/ Load \/ NextTrack \/ Enqueue \/ ClearQueue \/ Preload \/ Configure
  <2>1. list' = list
    BY <1>6 DEF checkCacheCapacity, SetCurrentTrack, NextIfIdle, Unload, Load, NextTrack,
                Enqueue, ClearQueue, Preload, Configure, cacheVars
  <2> QED
    BY <1>1, <2>1, OrderKept
<1>7. CASE ClearTrackCache
  BY <1>7, ClearRefines
<1>8. CASE \E u \in Uris : GetCachedTrack(u)
  BY <1>8, GetCachedRefines
<1>9. CASE \/ EnterAd \/ LeaveAd \/ PreloadBreakAds
           \/ \E parent \in loadingAds : PreloadAd(parent)
  <2>1. list' = list
    BY <1>9 DEF EnterAd, LeaveAd, PreloadBreakAds, PreloadAd, cacheVars
  <2> QED
    BY <1>1, <2>1, OrderKept
<1> QED
  BY <1>2, <1>3, <1>4, <1>5, <1>6, <1>7, <1>8, <1>9 DEF TrackCacheNext

(* The linked list and the map implement the order of last use: a track that   *)
(* is used becomes the last, and only the longest unused one outside the       *)
(* prefetch window is evicted, above the capacity.                             *)
THEOREM CacheImplementsLru == TrackCacheSpec => ImplementsLru
<1>1. TrackCacheInit => Lru!Init
  BY LruInitially
<1>2. CacheInv /\ CacheInv' /\ [TrackCacheNext]_trackCacheVars
        => [Lru!Next]_<<FromHead(list), capacity, Range(getPrefetched)>>
  BY LruStep
<1> QED
  BY <1>1, <1>2, CacheInvAlways, PTL DEF TrackCacheSpec, ImplementsLru, Lru!Spec, Lru!vars

=============================================================================
