\* Buffers of two or three buckets.
SPECIFICATION Spec
CONSTANTS
    Sizes <- SmallSizes
    Grains <- SmallGrains
    Lengths <- SmallLengths
    AllowedAges = {0, 1}
    IdleRedraw = 2
    MaxTime = 11
INVARIANTS
    HistoryKeepsLog
    GraphComplete
    GraphKeepsMoving
