CONSTANTS
    Manifests <- MCManifests
    Options <- MCOptions
    Bandwidths = {1, 4, 20}
    Affordance = 1
    EndOfTime = 12
SPECIFICATION StreamingSpec
INVARIANTS
    EveryTimeIsServed
    QualityFits
CHECK_DEADLOCK FALSE
