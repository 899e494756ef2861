CONSTANTS
    Uris = {a, b, c}
    Options <- MCOptions
    MaxQueue = 2
    MaxLoading = 1
SPECIFICATION TrackCacheSpec
INVARIANT TracksSound
PROPERTY ImplementsLru
SYMMETRY Symmetry
