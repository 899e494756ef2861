-------------------------- MODULE MCTrackController --------------------------
EXTENDS TrackController, TLC

CONSTANTS songA, songB, pre, mid, post

EveryPlacement == (songA :> {pre, mid, post}) @@ (songB :> {})

MCStart == (pre :> 0) @@ (mid :> 1) @@ (post :> 2)

MCPlacement ==
    [x \in Breaks |->
        CASE x = pre -> "preroll"
          [] x = mid -> "midroll"
          [] x = post -> "postroll"]
=============================================================================
