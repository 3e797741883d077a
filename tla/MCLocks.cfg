\* Two paths, three modes, two of the locks persistent.
SPECIFICATION FairSpec
CONSTANTS
    wind = wind
    depth = depth
    Bases = {wind, depth}
    Sources = {1}
    Sensors <- ThreeSensors
    Direct = Direct
    NoSource = NoSource
    Container = Container
    Keys <- FourKeys
    NoKey = NoKey
    Primary <- WindPersist
    AllowedAge = 1
    MaxLoads = 1
INVARIANTS
    MirrorAgrees
    RoundTrip
PROPERTIES
    SessionLockKept
    PersistentLockKept
    MissingSourceFallsBack
