\* A slot the own ship stands in for and one it does not.
SPECIFICATION Spec
CONSTANTS
    Classes = {"wind", "svg"}
    Slots = {"heading", "awa"}
    OwnShipSlots = {"heading"}
    Sensors <- ThreeSensors
    Choices <- KeysOfSlots
    Values = {1}
    NoValue = NoValue
    NoKey = NoKey
    AllowedAges = {0, 1}
    MaxAge = 2
INVARIANTS
    SlotTimesOut
    SlotShowsLatest
