SPECIFICATION UpdateSpec
CONSTANTS
    Size = 3
    FullMil = 100
    Worlds <- SeethingOnly
    Friends = {}
    Allies = {}
    Gone = {}
    Unhappy = {}
    Slack = 12
PROPERTIES
    RisingKeepsPeople
CHECK_DEADLOCK FALSE
