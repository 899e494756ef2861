----------------------------- MODULE MCTrackCache -----------------------------
(* Constants for model checking TrackCache.                                    *)
EXTENDS TrackCache, TLC

MCOptions == {[preloadCapacity |-> 1, trackPrefetchCount |-> 0],
              [preloadCapacity |-> 0, trackPrefetchCount |-> 1]}

Symmetry == Permutations(Uris)
=============================================================================
