SPECIFICATION GameSpec
CONSTANTS
    Threads = {t1, t2}
    NoCopy = NoCopy
    Junk = Junk
    Slots = 2
    SeqnoMod = 2
    GenMod = 2
    MaxIds = 3
    MaxData = 3
    MaxYields = 2
    Size = 3
    FullMil = 10
    Worlds <- AllWorlds
    Friends = {}
    Allies = {}
    Gone = {}
    Unhappy = {}
    Slack = 12
    WorldX = 8
    WorldY = 4
    Orders <- SmallOrders
INVARIANTS
    CacheAgrees
    ClobbersAreCaught
    FreshIsQuiet
    UpdateInOrder
    WorldAsAsked
PROPERTIES
    KeepsTable
    GoodsAreMoved
    BudgetForetells
    DriftSpreads
CHECK_DEADLOCK FALSE
