SPECIFICATION CommandsSpec
CONSTANTS
    N = 4
    Turns = 2
    Watched = {"deliver", "distribute", "threshold", "designate", "territory",
        "give", "setresource", "setsector", "improve",
        "antigovernment", "convert", "demobilize", "enlist", "grind",
        "shoot", "wipe", "startsector", "spy", "morale", "range",
        "name", "arm", "disarm", "army", "fleetadd", "wingadd",
        "stockpile", "fortify", "harden", "upgradeland", "upgradeship",
        "upgradeplane", "work", "startunit", "transportnuke",
        "transportplane", "sabotage", "mine", "landmine", "supply",
        "retreat", "mission", "load", "loadunit", "tend", "tendunits",
        "offer", "consider", "repay", "collect", "shark", "torpedo",
        "fireland", "firefort", "storm", "assault", "boardatsea",
        "landboard", "paradrop", "buildunit", "buildbridge",
        "fly", "reconnaissance", "drop", "bomb", "launch", "interdict",
        "support", "shipmissiles", "landmissiles", "navigate", "marchon",
        "editsector", "editunit"}
INVARIANTS FreshWrites NothingUndone
PROPERTY AbortedEnds
CHECK_DEADLOCK FALSE
