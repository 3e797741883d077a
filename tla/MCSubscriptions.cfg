\* Two instruments, two dashboards, two paths; plain and complex values.
SPECIFICATION Spec
CHECK_DEADLOCK FALSE
CONSTANTS
    canon = canon
    raw = raw
    a = a
    b = b
    d1 = d1
    d2 = d2
    speed = speed
    depth = depth
    count = count
    Ids = {canon, raw}
    NoId = NoId
    SelfWord = SelfWord
    Absent = Absent
    NormalForm <- MCNormalForm
    Paths = {speed, depth}
    Sources = {1}
    NoSource = NoSource
    AnySource = AnySource
    Members = {count}
    Scalar = Scalar
    Instruments = {a, b}
    Dashboards = {d1, d2}
    NoDashboard = NoDashboard
    Messages <- MixedMessages
    Configs <- FewConfigs
    Keys <- PlainKeys
    NoKey = NoKey
SYMMETRY Symmetry
INVARIANTS
    TypeOK
    SubscribersAlive
    SubscriptionsMatchKeys
    SelfPointerCurrent
PROPERTIES
    NormalDataNotifies
    OnlyInterestedNotified
    ImplementsPubSub
