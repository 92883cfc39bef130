-------------------------- MODULE EmpUnitCommands --------------------------
(***************************************************************************)
(* The commands that change ships, planes, land units and nukes one by     *)
(* one, or move things between two objects.                                *)
(***************************************************************************)
EXTENDS EmpFlow

\* s_commod() for a sink in v: takes from sectors, ships and land units
\* around it, and writes the sink
SupplyShip(v) == Touch("sect") \o Others(<<v>>) \o Touch("land") \o Put(v)
SupplyLand(v) == Touch("sect") \o Touch("ship") \o Others(<<v>>) \o Put(v)
SupplySect(v) == Others(<<v>>) \o Touch("ship") \o Touch("land") \o Put(v)
\* lnd_supply_all(): food, then shells
SupplyAll(v) == May(SupplyLand(v)) \o May(SupplyLand(v))

\* unit_give_away(): the unit, then what is on it; no write when it is the
\* recipient's already
GiveAway(v, cargo) == May(Put(v) \o cargo)

Morale ==
    Ask \o
    Each("land", Perhaps(Next) \o Ask \o Check("land", Next) \o Perhaps(Next) \o Put("land"))

Range ==
    Ask \o
    Each("plane", Perhaps(Next) \o Ask \o Check("plane", Quit) \o Perhaps(Next) \o Put("plane"))

Name ==
    Ask \o
    Each("ship", Perhaps(Next) \o Ask \o Perhaps(Quit) \o Check("ship", Quit) \o Put("ship"))

Arm ==
    Ask \o
    Each("plane",
         Perhaps(Next) \o Perhaps(Quit)
         \o Either(Get("nuke"),
                   Ask \o Perhaps(Quit) \o Check("plane", Quit) \o Get("nuke") \o Perhaps(Quit))
         \o Perhaps(Quit) \o Ask
         \o Check("plane", Quit) \o Check("nuke", Quit) \o Perhaps(Quit)
         \o GiveAway("nuke", <<>>)
         \o Put("plane") \o Put("nuke"))

Disarm ==
    Ask \o
    Each("plane",
         Perhaps(Next) \o Get("nuke") \o Perhaps(Next) \o Perhaps(Quit) \o Get("sect")
         \o Perhaps(Next) \o GiveAway("nuke", <<>>)
         \o Put("plane") \o Put("nuke"))

Army ==
    Ask \o Perhaps(Quit) \o Ask \o
    Each("land", Perhaps(Next) \o Each("land2", Perhaps(Next) \o May(Go(Leave))) \o Put("land"))

FleetAdd ==
    Ask \o Perhaps(Quit) \o Ask \o
    Each("ship", Perhaps(Next) \o Each("ship2", Perhaps(Next) \o May(Go(Leave))) \o Put("ship"))

WingAdd == Ask \o Perhaps(Quit) \o Ask \o Each("plane", Perhaps(Next) \o Put("plane"))

Stockpile == Ask \o Perhaps(Quit) \o Ask \o Each("nuke", Perhaps(Next) \o Put("nuke"))

Fortify ==
    Ask \o Ask \o
    Each("land", Perhaps(Next) \o Reget("land") \o Perhaps(Next) \o Put("land"))

Harden ==
    Ask \o Ask \o
    Each("plane", Perhaps(Next) \o Get("sect") \o Perhaps(Next) \o Put("plane") \o Put("sect"))

UpgradeLand ==
    Ask \o Ask \o Each("land", Perhaps(Next) \o Get("sect") \o Perhaps(Next)
                               \o Put("land") \o Put("sect"))
UpgradeShip ==
    Ask \o Ask \o Each("ship", Perhaps(Next) \o Get("sect") \o Perhaps(Next)
                               \o Put("ship") \o Put("sect"))
UpgradePlane ==
    Ask \o Ask \o Each("plane", Perhaps(Next) \o Get("sect") \o Perhaps(Next)
                                \o Put("plane") \o Put("sect"))

Work ==
    Ask \o Ask \o
    Each("land", Perhaps(Next) \o Get("sect") \o Perhaps(Next) \o Perhaps(Leave)
                 \o Put("land") \o Put("sect"))

StartStopUnit == Ask \o Ask \o Each("unit", Perhaps(Next) \o Put("unit"))

\* The path is asked for between the two passes over the selection.
TransportNuke ==
    Ask \o Ask \o Each("nuke", Perhaps(Next) \o Perhaps(Quit)) \o Perhaps(Quit)
    \o Get("sect") \o Perhaps(Quit) \o Ask
    \o Each("nuke", Perhaps(Next) \o Put("nuke"))
    \o Reget("sect") \o Put("sect")

TransportPlane ==
    Ask \o Ask \o Each("plane", Perhaps(Next) \o Perhaps(Quit)) \o Perhaps(Quit)
    \o Get("sect") \o Perhaps(Quit) \o Ask
    \o Each("plane", Perhaps(Next) \o Put("plane"))
    \o Reget("sect") \o Put("sect")

\* The spy is hidden from sectdamage() by a copy that nobody owns; its own
\* copy takes over the age of that one.
Sabotage ==
    Ask \o
    Each("land",
         Perhaps(Next) \o Get("sect") \o Perhaps(Next)
         \o May(Put("land") \o Go(Next))
         \o Perhaps(Next)
         \o Put("land")
         \o Others(<<"land">>) \o Touch("plane") \o Put("sect")
         \o Put("land"))

Mine ==
    Ask \o Ask \o
    Each("ship", Perhaps(Next) \o Get("sect") \o Perhaps(Next) \o Put("sect") \o Put("ship"))

LandMine ==
    Ask \o
    Each("land",
         Perhaps(Next) \o Get("sect") \o Perhaps(Next)
         \o AskOr(Quit) \o Perhaps(Next) \o Check("land", Next) \o Check("sect", Next)
         \o May(SupplyLand("land")) \o Put("land")
         \o May(SupplyLand("land") \o Put("land"))
         \o SupplyAll("land")
         \o Reget("sect") \o Put("sect"))

Supply == Ask \o Each("land", Perhaps(Next) \o SupplyAll("land"))

\* mutant: the retreat path is asked for until the player gives one
RetreatStubborn ==
    Ask \o
    Either(Go(1), Ask \o Perhaps(Quit)
                  \o May(Forever(ConfirmOr(Next) \o Perhaps(Next) \o Perhaps(Quit)
                                 \o Go(Leave))))
    \o Each("unit", Perhaps(Next) \o Put("unit"))

Retreat ==
    Ask \o
    Either(Go(1), Ask \o Perhaps(Quit)
                  \o May(Each("unit", Perhaps(Next)) \o Go(Quit))
                  \o May(Forever(Confirm \o Perhaps(Next) \o Perhaps(Quit)
                                 \o Go(Leave))))
    \o Each("unit", Perhaps(Next) \o Put("unit"))

\* who can do it gets it
MissionGiven == Each("unit", Perhaps(Next) \o Put("unit"))

Mission ==
    Ask \o Ask \o Ask
    \o May(Each("unit", Put("unit")) \o Go(Quit))
    \o May(Each("unit", Perhaps(Next)) \o Go(Quit))
    \o Ask \o Perhaps(Quit)
    \o MissionGiven

----------------------------------------------------------------------------
(* Scrapping and scuttling: two passes over the selection, with a question *)
(* between them, and one more for every trade ship.                        *)

\* unit_drop_cargo() writes what is on the unit, with buffers of its own
DropCargo(v) == Others(<<v>>)

Scrap ==
    Ask \o Ask \o Each("unit", Perhaps(Next)) \o Confirm
    \o Each("unit",
            Perhaps(Next) \o Get("sect") \o Perhaps(Next)
            \o May(ConfirmOr(Next))
            \o DropCargo("unit")
            \o Put("unit") \o Put("sect"))

Scuttle ==
    Ask \o Ask \o Each("unit", Perhaps(Next)) \o Confirm
    \o Each("unit",
            Perhaps(Next)
            \o May(Get("sect2") \o May(ConfirmOr(Next) \o Perhaps(Next)))
            \o Get("sect") \o May(DropCargo("unit"))
            \o Put("unit"))
=============================================================================
