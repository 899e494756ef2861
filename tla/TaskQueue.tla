------------------------------ MODULE TaskQueue ------------------------------
(* vinyl-util/src/util/async/TaskQueue.ts: a queue that starts at most         *)
(* `simultaneous` tasks at a time, the most urgent first, and whose abort()    *)
(* is meant to stop everything enqueued so far.  The buffering, source-buffer  *)
(* and prefetch pipelines of the player are all serialized through it.         *)
(*                                                                             *)
(* JavaScript runs each synchronous stretch to completion, so the only         *)
(* interleavings are (a) the order in which settled promises are delivered and *)
(* (b) re-entrancy: a task's synchronous body may itself call enqueue, abort   *)
(* or the `simultaneous` setter.  Re-entrancy is modelled by an explicit call  *)
(* stack; promise reactions are taken only when that stack is empty.           *)
EXTENDS Integers, Sequences, FiniteSets

CONSTANTS
    Tasks,          \* the tasks that may be enqueued, each at most once
    Priority,       \* Tasks -> Int; comparator order, smaller runs first
    Capacities,     \* the values given to the `simultaneous` setter
    MaxAborts       \* bound on the number of effective abort() calls

CHECK == "checkQueue"   \* stack frame of a running checkQueue loop

ASSUME TaskQueueAssumption ==
    /\ IsFiniteSet(Tasks)
    /\ CHECK \notin Tasks
    /\ Priority \in [Tasks -> Int]
    /\ Capacities \subseteq Nat
    /\ MaxAborts \in Nat

VARIABLES
    simultaneous,   \* _simultaneous
    running,        \* _running
    status,         \* where each task is: see Statuses
    order,          \* position of each task in the pending list's insertion order
    slot,           \* which Abort the abortSlot currently holds
    abort,          \* the Abort each task captured when it was enqueued
    doomed,         \* history: tasks enqueued, not settled, when abort() was called
    stack           \* call stack: CHECK, or the task whose synchronous body runs

vars == <<simultaneous, running, status, order, slot, abort, doomed, stack>>

(* "new": not enqueued; "pending": in the list; "body": task(abort) is on the  *)
(* stack; "running": its promise is awaited; "settled": withAbort has settled, *)
(* the finally callback has not run; "done": settled and accounted for.        *)
Statuses == {"new", "pending", "body", "running", "settled", "done"}

TypeOK ==
    /\ simultaneous \in Nat
    /\ running \in Nat
    /\ status \in [Tasks -> Statuses]
    /\ order \in [Tasks -> Nat]
    /\ slot \in Nat
    /\ abort \in [Tasks -> Nat]
    /\ doomed \subseteq Tasks
    /\ stack \in Seq(Tasks \cup {CHECK})

Init ==
    /\ simultaneous = 1
    /\ running = 0
    /\ status = [t \in Tasks |-> "new"]
    /\ order = [t \in Tasks |-> 0]
    /\ slot = 0
    /\ abort = [t \in Tasks |-> 0]
    /\ doomed = {}
    /\ stack = <<>>

------------------------------------------------------------------------------
pending == {t \in Tasks : status[t] = "pending"}

Started == {t \in Tasks : status[t] \in {"body", "running", "settled"}}

Push(frame) == stack' = Append(stack, frame)

Top == stack[Len(stack)]

Below == SubSeq(stack, 1, Len(stack) - 1)

(* Code outside the queue has control: an event handler (empty stack) or the   *)
(* synchronous body of a task.                                                 *)
CallerHasControl == stack # <<>> => Top # CHECK

(* A promise reaction or timer may be delivered.                               *)
EventLoop == stack = <<>>

(* Aborts are replaced as they fire, so those before the current one are fired.*)
aborted(t) == abort[t] < slot

(* enqueue(): capture the current Abort, append, checkQueue().                 *)
enqueue(t) ==
    /\ CallerHasControl
    /\ status[t] = "new"
    /\ status' = [status EXCEPT ![t] = "pending"]
    /\ order' = [order EXCEPT ![t] = Cardinality({u \in Tasks : status[u] # "new"})]
    /\ abort' = [abort EXCEPT ![t] = slot]
    /\ Push(CHECK)
    /\ UNCHANGED <<simultaneous, running, slot, doomed>>

(* The `simultaneous` setter.                                                  *)
setSimultaneous(n) ==
    /\ CallerHasControl
    /\ n # simultaneous
    /\ simultaneous' = n
    /\ Push(CHECK)
    /\ UNCHANGED <<running, status, order, slot, abort, doomed>>

(* Mutant: one slot too few.                                                   *)
MutHasWorkOffByOne == pending # {} /\ running < simultaneous - 1

(* The condition of the while loop in checkQueue.                              *)
HasWork == pending # {} /\ running < simultaneous

(* Mutant: the scan prefers the later of two equal priorities.                 *)
MutScanLast(t) ==
    /\ t \in pending
    /\ \A u \in pending \ {t} :
        \/ Priority[t] < Priority[u]
        \/ Priority[t] = Priority[u] /\ order[t] > order[u]

(* The scan of checkQueue: the first of the nodes the comparator puts first.   *)
IsHighestPriority(t) ==
    /\ t \in pending
    /\ \A u \in pending \ {t} :
        \/ Priority[t] < Priority[u]
        \/ Priority[t] = Priority[u] /\ order[t] < order[u]

(* Mutant: execute() does not look at the captured Abort.                      *)
MutExecuteUnchecked(t) ==
    /\ running' = running + 1
    /\ status' = [status EXCEPT ![t] = "body"]
    /\ Push(t)

(* One iteration that starts a task: execute() up to the call task(abort).     *)
execute(t) ==
    /\ ~aborted(t)
    /\ running' = running + 1
    /\ status' = [status EXCEPT ![t] = "body"]
    /\ Push(t)

(* One iteration that meets an aborted task: reject, and checkQueue() again.   *)
executeAborted(t) ==
    /\ aborted(t)
    /\ status' = [status EXCEPT ![t] = "done"]
    /\ Push(CHECK)
    /\ UNCHANGED running

checkQueue ==
    /\ stack # <<>>
    /\ Top = CHECK
    /\ HasWork
    /\ \E t \in pending : IsHighestPriority(t) /\ (execute(t) \/ executeAborted(t))
    /\ UNCHANGED <<simultaneous, order, slot, abort, doomed>>

checkQueueReturn ==
    /\ stack # <<>>
    /\ Top = CHECK
    /\ ~HasWork
    /\ stack' = Below
    /\ UNCHANGED <<simultaneous, running, status, order, slot, abort, doomed>>

(* task(abort) returned: withAbort awaits the result, and rejects right away   *)
(* when the body aborted its own queue.                                        *)
bodyReturns(t) ==
    /\ stack # <<>>
    /\ Top = t
    /\ stack' = Below
    /\ status' = [status EXCEPT ![t] = IF aborted(t) THEN "settled" ELSE "running"]
    /\ UNCHANGED <<simultaneous, running, order, slot, abort, doomed>>

(* Mutant: the catch branch forgets _running--.                                *)
MutThrowKeepsSlot(t) ==
    /\ stack # <<>> /\ Top = t
    /\ stack' = Below
    /\ status' = [status EXCEPT ![t] = "done"]
    /\ UNCHANGED <<simultaneous, running, order, slot, abort, doomed>>

(* task(abort) threw synchronously: reject and free the slot, with no          *)
(* checkQueue() of its own.                                                    *)
bodyThrows(t) ==
    /\ stack # <<>>
    /\ Top = t
    /\ stack' = Below
    /\ status' = [status EXCEPT ![t] = "done"]
    /\ running' = running - 1
    /\ UNCHANGED <<simultaneous, order, slot, abort, doomed>>

(* The task's own promise settles, resolved or rejected.                       *)
workSettles(t) ==
    /\ EventLoop
    /\ status[t] = "running"
    /\ status' = [status EXCEPT ![t] = "settled"]
    /\ UNCHANGED <<simultaneous, running, order, slot, abort, doomed, stack>>

(* Mutant: the finally callback does not look for more work.                   *)
MutFinallyNoCheck(t) ==
    /\ EventLoop
    /\ status[t] = "settled"
    /\ status' = [status EXCEPT ![t] = "done"]
    /\ running' = running - 1
    /\ UNCHANGED <<simultaneous, order, slot, abort, doomed, stack>>

(* The finally callback of a settled task.                                     *)
finally(t) ==
    /\ EventLoop
    /\ status[t] = "settled"
    /\ status' = [status EXCEPT ![t] = "done"]
    /\ running' = running - 1
    /\ Push(CHECK)
    /\ UNCHANGED <<simultaneous, order, slot, abort, doomed>>

(* Mutant: the result is awaited without withAbort.                            *)
MutAbortNotRaced ==
    /\ CallerHasControl
    /\ slot < MaxAborts
    /\ doomed' = doomed \cup pending \cup Started
    /\ slot' = IF running = 0 THEN slot ELSE slot + 1
    /\ UNCHANGED <<simultaneous, running, status, order, abort, stack>>

(* abort(): nothing unless a task runs; else fire the current Abort, which     *)
(* rejects every awaited task that captured it, and install a fresh one.       *)
abortQueue ==
    /\ CallerHasControl
    /\ slot < MaxAborts
    /\ doomed' = doomed \cup pending \cup Started
    /\ IF running = 0
       THEN UNCHANGED <<status, slot>>
       ELSE /\ slot' = slot + 1
            /\ status' = [t \in Tasks |->
                            IF status[t] = "running" /\ abort[t] = slot
                            THEN "settled" ELSE status[t]]
    /\ UNCHANGED <<simultaneous, running, order, abort, stack>>

Next ==
    \/ \E t \in Tasks : enqueue(t)
    \/ \E n \in Capacities : setSimultaneous(n)
    \/ checkQueue
    \/ checkQueueReturn
    \/ \E t \in Tasks : bodyReturns(t)
    \/ \E t \in Tasks : bodyThrows(t)
    \/ \E t \in Tasks : workSettles(t)
    \/ \E t \in Tasks : finally(t)
    \/ abortQueue

Spec == Init /\ [][Next]_vars

(* The engine finishes every synchronous stretch, however often a body calls   *)
(* back into the queue, and delivers every settled promise, however many other *)
(* events come first: hence strong fairness.  Nothing is assumed of the work a *)
(* task awaits: a fetch may hang.                                              *)
Fairness ==
    /\ WF_vars(checkQueue \/ checkQueueReturn)
    /\ \A t \in Tasks : SF_vars(bodyReturns(t) \/ bodyThrows(t))
    /\ \A t \in Tasks : SF_vars(finally(t))

FairSpec == Spec /\ Fairness

------------------------------------------------------------------------------
(* `running` counts exactly the tasks between their start and their finally    *)
(* callback, whatever the bodies re-enter, so a slot is never leaked or freed  *)
(* twice (TaskQueue.ts 86, 92, 99).                                            *)
RunningIsExact == running = Cardinality(Started)

(* No wakeup is lost: whenever the event loop is idle, a task that could be    *)
(* started has been.  The synchronous-throw path (TaskQueue.ts 90-93) frees a  *)
(* slot without checkQueue() and relies on the loop that called it.            *)
NoLostWakeup == EventLoop => ~HasWork

(* TaskQueue.ts 141, "Aborts all enqueued operations": a task that was waiting *)
(* when abort() was called never starts.                                       *)
DoomedNeverStart ==
    [][\A t \in doomed : status[t] = "pending" => status'[t] \in {"pending", "done"}]_vars

(* The tasks that an abort found enqueued: they captured an Abort that fired.  *)
cancelled == {t \in Tasks : status[t] # "new" /\ aborted(t)}

Abstract == INSTANCE Scheduler WITH
    waiting <- pending,
    active <- Started,
    finished <- {t \in Tasks : status[t] = "done"},
    arrival <- order

(* The queue implements a scheduler: at most `simultaneous` tasks, the most    *)
(* urgent first, equals in order of arrival, each once, and none that an abort *)
(* cancelled while it waited - whatever the bodies re-enter, throw or leave    *)
(* hanging.                                                                    *)
ImplementsScheduler == Abstract!Spec

(* A task that had started when abort() was called settles and frees its slot, *)
(* even when the work it awaits never does: a fetch that hangs cannot wedge    *)
(* the queue (TaskQueue.ts 95).  A task still waiting is rejected only when    *)
(* the loop reaches it, behind any more urgent task enqueued meanwhile, so the *)
(* same cannot be said of it.                                                  *)
AbortedSettle == \A t \in Tasks : (t \in doomed \cap Started) ~> (status[t] = "done")

(* When the awaited work always settles, every enqueued task settles.          *)
AllSettle ==
    (\A t \in Tasks : SF_vars(workSettles(t))) =>
        \A t \in Tasks : (status[t] = "pending") ~> (status[t] = "done")

=============================================================================
