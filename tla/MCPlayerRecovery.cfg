CONSTANTS
    audio = audio
    video = video
    Streams <- MCStreams
    MaxRetries = 2
    MaxErrors = 5
SPECIFICATION RecoveryFairSpec
INVARIANTS
    ErrorsAgree
    RetryBound
PROPERTIES
    PendingResetEnds
