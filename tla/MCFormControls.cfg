\* A tree of three paths and three sources, two of them alike; up to two zones.
SPECIFICATION FormSpec
CONSTANTS
    DataPaths <- SomePaths
    Sources = {1, 2, 3}
    Folded <- TwoAlike
    TypedKeys <- SomeKeys
    ConfiguredZones <- SomeZones
    Limits <- SomeLimits
    Top = 9999900
    MaxZones = 2
    Unsaid = Unsaid
CONSTRAINT
    OneControl
INVARIANTS
    ZonesTakeEffect
PROPERTIES
    PickedKeyExists
    KeyKept
