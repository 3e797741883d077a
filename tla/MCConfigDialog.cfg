\* Two dashboards with up to two instruments, three at once.
SPECIFICATION Spec
CONSTANTS
    MaxDashboards = 2
    MaxInstruments = 2
    Settings <- ThreeSettings
    Named <- NamedByKey
    Typed = {"new", "keyed"}
    InstrumentFiles = {"named"}
    Default = "new"
    NoObject = NoObject
    Blank = Blank
    Closed = Closed
    EditorConfigs <- TwoConfigs
    DashboardFiles <- OneFile
INVARIANTS
    EditedAlive
    ControlsShowEdited
PROPERTIES
    EditsKept
    SelectionFollows
CONSTRAINT
    ThreeInstruments
