SPECIFICATION WorldSpec
CONSTANTS
    Sources <- HarborShipAndUnit
    Carriers = {"harbor", "unit"}
    Stock = 2
    Mobility = 2
    Want = 3
    Countries = {a, b, c}
    Slots = 1
    MaxAmount = 2
    Purse = 2
    Reserve = 1
    Sack = 3
    MaxDesks = 2
    MaxSacked = 1
    Commands = {"move", "explore"}
    ItemMax = 2
    MaxMobil = 2
    MaxEvents = 3
    Files <- ThreeFiles
    Entries = 4
    Window = 1
    Horizon = 11
    Delays = {0, 1}
    Ships = {"ship"}
    Lands = {"train", "inf"}
    Planes = {"pln", "fgt"}
    Nukes = {"nuke"}
    Trains = {"train"}
    Owners = {"x", "y"}
    Spots = {1, 2}
    CargoRoom = 2
    CheRoom = 1
    MaxCargoOps = 3
    WorldX = 6
    WorldY = 4
    PathWorlds <- ChangingWorld
    PathActors = {"x"}
    PathSources <- TwoStarts
    PathDests <- ThreeEnds
    VisitMod = 8
    TmpSize = 2
    NoHex = NoHex
    LwpThreads = {w1, w2, r1, r2}
    LwpWriters = {w1, w2}
    None = None
INVARIANTS
    CargoInOrder
    PathsAreCheapest
    AssertionsCatchSharing
    NobodyForgotten
PROPERTIES
    SuppliesAsPromised
    LoansInOrder
    MovesInOrder
    PlansStand
SYMMETRY AnyCountry
CHECK_DEADLOCK FALSE
