SPECIFICATION CargoSpec
CONSTANTS
    Ships = {"ship"}
    Lands = {"train", "inf"}
    Planes = {"pln", "fgt"}
    Nukes = {"nuke"}
    Trains = {"train"}
    Owners = {"a", "b"}
    Spots = {1, 2}
    CargoRoom = 2
    CheRoom = 2
    MaxCargoOps = 4
INVARIANT SlotsAreEmpty
CHECK_DEADLOCK FALSE
