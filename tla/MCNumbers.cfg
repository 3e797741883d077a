\* A number instrument that follows a path without naming a source.
SPECIFICATION Spec
CHECK_DEADLOCK FALSE
CONSTANTS
    canon = canon
    raw = raw
    a = a
    b = b
    d1 = d1
    d2 = d2
    speed = speed
    depth = depth
    count = count
    Ids = {canon, raw}
    NoId = NoId
    SelfWord = SelfWord
    Absent = Absent
    NormalForm <- MCNormalForm
    Paths = {speed}
    Sources = {1}
    NoSource = NoSource
    AnySource = AnySource
    Members = {count}
    Scalar = Scalar
    Instruments = {a}
    Dashboards = {d1}
    NoDashboard = NoDashboard
    Messages <- TreeMessages
    Configs <- NoConfigs
    Keys <- SourceKeys
    NoKey = NoKey
INVARIANTS
    NumbersAreScalars
