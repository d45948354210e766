SPECIFICATION Spec
CONSTANTS
    Bodies <- MCBodies
    Blank = "blank"
    Invalid <- MCInvalid
    Tables <- MCTables
    Slots <- MCSlots
    MaxRows = 3
INVARIANTS
    TypeOK
    ShownIsStored
    BadgeIsTrue
    LoadingIsUnderWay
