------------------------------- MODULE LruOrder -------------------------------
(* What a cache that keeps the most recently used promises: keys in the order  *)
(* of their last use, dropped only when there are too many, the longest unused *)
(* first, and never one that is protected.                                     *)
EXTENDS Naturals, Sequences, FiniteSets, SequencesExt

CONSTANT Keys

VARIABLES
    order,      \* the cached keys, the longest unused first
    capacity,   \* how many there may be
    protected   \* the keys that must stay

vars == <<order, capacity, protected>>

Init ==
    /\ order = <<>>
    /\ capacity \in Nat
    /\ protected = {}

Use(k) ==
    /\ \E i \in DOMAIN order : order[i] = k /\ order' = Append(RemoveAt(order, i), k)
    /\ UNCHANGED <<capacity, protected>>

(* The keys without the one to drop.                                           *)
Evicted(keys) ==
    LET droppable == {i \in DOMAIN keys : keys[i] \notin protected} IN
    RemoveAt(keys, CHOOSE i \in droppable : \A j \in droppable : i <= j)

Add(k) ==
    /\ k \notin Range(order)
    /\ order' = IF Len(order) < capacity THEN Append(order, k) ELSE Evicted(Append(order, k))
    /\ UNCHANGED <<capacity, protected>>

Evict ==
    /\ Len(order) > capacity
    /\ order' = Evicted(order)
    /\ UNCHANGED <<capacity, protected>>

Clear ==
    /\ order' = <<>>
    /\ UNCHANGED <<capacity, protected>>

Configure ==
    /\ capacity' \in Nat
    /\ protected' \in SUBSET Keys
    /\ UNCHANGED order

Next == (\E k \in Keys : Use(k) \/ Add(k)) \/ Evict \/ Clear \/ Configure

Spec == Init /\ [][Next]_vars
=============================================================================
