\* An instrument of each class, and three changes by the user.
SPECIFICATION SettingsSpec
CONSTANTS
    Classes = {"number", "gauge", "combined", "text", "position",
               "histogram", "wind", "divider", "spacer"}
    MaxEdits = 3
INVARIANTS
    ReloadsSame
PROPERTIES
    OnlyEnteredChanges
