\* Two dashboards, one or two canvases, three pages.
SPECIFICATION Spec
CHECK_DEADLOCK FALSE
CONSTANTS
    Canvases = {0, 1}
    CanvasCounts = {1, 2}
    Pages = {1, 2, 3}
    Dashboards = {d1, d2}
    NoPlace = NoPlace
    NoPager = NoPager
    NoPage = NoPage
    Closed = Closed
    Unreadable = Unreadable
    EditorConfigs <- TwoConfigs
SYMMETRY Symmetry
INVARIANTS
    PagerOffersPages
    ChangesSaved
PROPERTIES
    SelectionKept
    ViewRestored
