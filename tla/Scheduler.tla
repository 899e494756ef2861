----------------------------- MODULE Scheduler -----------------------------
(* What a TaskQueue promises its callers, without call stack, promises or      *)
(* generations of aborts: it starts at most `simultaneous` tasks at a time,    *)
(* each once, the most urgent first and equals in order of arrival, and        *)
(* nothing that an abort cancelled while it was waiting.                       *)
EXTENDS Integers, FiniteSets

CONSTANTS
    Tasks,          \* the tasks that may be enqueued, each at most once
    Priority        \* Tasks -> Int; smaller runs first

VARIABLES
    simultaneous,   \* how many tasks may be active
    waiting,        \* enqueued, not started
    active,         \* started, not finished
    finished,       \* settled, or rejected without having started
    arrival,        \* the position of each task in the order of arrival
    cancelled       \* enqueued before an abort that found a task active

vars == <<simultaneous, waiting, active, finished, arrival, cancelled>>

Enqueued == waiting \cup active \cup finished

Init ==
    /\ simultaneous = 1
    /\ waiting = {} /\ active = {} /\ finished = {} /\ cancelled = {}
    /\ arrival = [t \in Tasks |-> 0]

Enqueue(t) ==
    /\ t \notin Enqueued
    /\ waiting' = waiting \cup {t}
    /\ arrival' = [arrival EXCEPT ![t] = Cardinality(Enqueued)]
    /\ UNCHANGED <<simultaneous, active, finished, cancelled>>

SetSimultaneous ==
    /\ simultaneous' \in Nat
    /\ UNCHANGED <<waiting, active, finished, arrival, cancelled>>

Precedes(t, u) ==
    \/ Priority[t] < Priority[u]
    \/ Priority[t] = Priority[u] /\ arrival[t] < arrival[u]

Start(t) ==
    /\ t \in waiting \ cancelled
    /\ Cardinality(active) < simultaneous
    /\ \A u \in waiting \ {t} : Precedes(t, u)
    /\ waiting' = waiting \ {t}
    /\ active' = active \cup {t}
    /\ UNCHANGED <<simultaneous, finished, arrival, cancelled>>

Finish(t) ==
    /\ t \in active
    /\ active' = active \ {t}
    /\ finished' = finished \cup {t}
    /\ UNCHANGED <<simultaneous, waiting, arrival, cancelled>>

(* A cancelled task is rejected when its turn would come, not at the abort.    *)
Reject(t) ==
    /\ t \in waiting \cap cancelled
    /\ waiting' = waiting \ {t}
    /\ finished' = finished \cup {t}
    /\ UNCHANGED <<simultaneous, active, arrival, cancelled>>

(* Without an active task an abort has no effect, whatever is waiting.         *)
Abort ==
    /\ active # {}
    /\ cancelled' = Enqueued
    /\ UNCHANGED <<simultaneous, waiting, active, finished, arrival>>

Next ==
    \/ \E t \in Tasks : Enqueue(t) \/ Start(t) \/ Finish(t) \/ Reject(t)
    \/ SetSimultaneous
    \/ Abort

Spec == Init /\ [][Next]_vars
=============================================================================
