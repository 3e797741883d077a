\* Two bundled skins and one of the user.
SPECIFICATION Spec
CONSTANTS
    Slots = {0, 1}
    Paths = {"angle", "revolutions"}
    NoPath = NoPath
    ZoneTexts = {"red", "green"}
    NoZones = NoZones
    Numbers = {0, 1, 2}
    NoScale = NoScale
    Names = {"wind", "tachometer", "own"}
    DefaultName = "wind"
    Bundled <- TwoBundled
    Imports <- TwoImports
    Missing = Missing
    Broken = Broken
INVARIANTS
    EnteredStays
    SuggestionsTaken
    RoundTrip
