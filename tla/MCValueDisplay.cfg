\* An instrument of each class, with a time-out of two seconds and without one.
SPECIFICATION Spec
CONSTANTS
    Classes = {"number", "text", "position", "dial", "scale"}
    AllowedAges = {0, 2}
    MaxAge = 4
INVARIANTS
    ValueTimesOut
    WatchedStaleDashed
    WatchedFreshShown
PROPERTIES
    LatestShown
