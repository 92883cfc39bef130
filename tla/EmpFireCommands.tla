-------------------------- MODULE EmpFireCommands --------------------------
(***************************************************************************)
(* The commands that shoot, build and edit.  Their victims defend          *)
(* themselves within the same command: ships, units and sectors that the   *)
(* command holds copies of may fire back, expend shells, retreat, be hit   *)
(* or sink.                                                                *)
(***************************************************************************)
EXTENDS EmpCargoCommands

\* retreat_ship(): writes the ship, moves it and its group with copies of
\* its own through mines and interdiction, and reads it again; planes that
\* are up stay as they are
RetreatShip(v) ==
    May(Put(v) \o Touch("sect") \o Touch("ship") \o Touch("land")
        \o Others(<<"plane", "plane2", "plane3", "plane4">>) \o Touch("nuke") \o Reget(v))

----------------------------------------------------------------------------
(* Torpedoes.                                                              *)

\* fire_torp() and fire_dchrg() of a ship in ship4 at the attacker in ship3;
\* neither supplies the other, for their owners differ
ReturnFire ==
    May(Others(<<"ship4", "ship3">>) \o Touch("sect") \o Touch("land") \o Put("ship4"))
    \o Perhaps(Next) \o May(Put("ship3"))

AntiTorp ==
    Copy("ship3", "ship") \o Reget("ship3")
    \o May(Each("ship4", Perhaps(Next) \o Unless("ship4", "ship3", Next) \o ReturnFire))

\* mutant: the victim is hit in the copy from before it fired back
TorpedoOldVictim ==
    Ask \o Each("ship", Perhaps(Next))
    \o Each("ship",
            Perhaps(Next) \o Ask \o Check("ship", Quit) \o Perhaps(Quit)
            \o Get("ship2") \o Perhaps(Quit) \o Unless("ship2", "ship", Next) \o Perhaps(Next)
            \o SupplyShip("ship") \o Put("ship") \o Perhaps(Next)
            \o May(AntiTorp) \o Reget("ship") \o Perhaps(Next)
            \o May(RetreatShip("ship2") \o Put("ship2")))

Torpedo ==
    Ask \o Each("ship", Perhaps(Next))
    \o Each("ship",
            Perhaps(Next) \o Ask \o Check("ship", Quit) \o Perhaps(Quit)
            \o Get("ship2") \o Perhaps(Quit) \o Unless("ship2", "ship", Next) \o Perhaps(Next)
            \o SupplyShip("ship") \o Put("ship") \o Perhaps(Next)
            \o May(AntiTorp) \o Reget("ship") \o Perhaps(Next)
            \o Reget("ship2")
            \o May(RetreatShip("ship2") \o Put("ship2")))

----------------------------------------------------------------------------
(* Guns.                                                                   *)

\* defend(): whoever helps the victim fires; the damage is done at the end
Defend == Touch("ship") \o Touch("land") \o Touch("sect")
\* do_defdam(): ships and sectors that fired are read, hit and written
ReturnDamage == Touch("ship") \o Touch("sect") \o Touch("plane") \o Touch("land") \o Touch("nuke")

\* what is fired from, and who fires
FireFrom == Ask \o Ask

\* target is a sector, or a ship that may retreat
Hit(ship) ==
    Either(Reget("sect2") \o Touch("plane") \o Touch("land") \o Touch("ship") \o Put("sect2"),
           Reget(ship) \o RetreatShip(ship) \o Put(ship))

FireLand ==
    FireFrom \o
    Each("land", Perhaps(Next) \o Get("sect") \o Perhaps(Next) \o AskOr(Quit) \o May(Go(Next))
                 \o Get("ship") \o Get("sect2") \o Perhaps(Next)
                 \o Check("land", Quit) \o Perhaps(Next)
                 \o SupplyLand("land") \o Put("land") \o Perhaps(Next)
                 \o Defend \o Hit("ship"))
    \o ReturnDamage

FireFort ==
    FireFrom \o
    Each("sect", Perhaps(Next) \o AskOr(Quit) \o May(Go(Next))
                 \o Get("ship") \o Get("sect2") \o Perhaps(Next)
                 \o Check("sect", Quit) \o Perhaps(Next)
                 \o SupplySect("sect") \o Put("sect") \o Perhaps(Next)
                 \o Defend \o Hit("ship"))
    \o ReturnDamage

\* shp_missdef() puts the copy into the list that missiles are fired at, and
\* the list writes what they hit.
FireShip ==
    FireFrom \o
    Each("ship", Perhaps(Next) \o AskOr(Quit) \o May(Go(Next))
                 \o Get("ship2") \o Get("sect2") \o Perhaps(Next)
                 \o Check("ship", Quit) \o Unless("ship2", "ship", Next)
                 \o SupplyShip("ship") \o Put("ship") \o May(Put("ship")) \o Perhaps(Next)
                 \o Defend \o Hit("ship2")
                 \o May(May(Put("ship")) \o Reget("ship")))
    \o ReturnDamage

----------------------------------------------------------------------------
(* Building and editing.                                                   *)

\* a unit that does not exist, in the sector that pays for it
BuildShip  == Perhaps(Next) \o Blank("unit") \o Put("unit")
BuildLand  == BuildShip
BuildPlane == BuildShip
\* a nuke looks at the sector it goes to like any other
BuildNuke  == Perhaps(Next) \o Blank("unit") \o Put("unit")

BuildUnit ==
    Ask \o Ask \o Ask \o May(Confirm) \o Perhaps(Quit)
    \o Each("sect", Either(Either(BuildShip, BuildLand), Either(BuildPlane, BuildNuke))
                    \o Put("sect"))

\* in the neighbour in the direction given
BuildSpan ==
    Perhaps(Next) \o AskOr(Next) \o Check("sect", Next) \o Perhaps(Next)
    \o GetOther("sect2", "sect") \o Perhaps(Next) \o Put("sect2")
\* away from land
BuildTower ==
    Perhaps(Next) \o AskOr(Next) \o Check("sect", Next) \o Perhaps(Next)
    \o GetOther("sect2", "sect") \o Perhaps(Next)
    \o May(Get("sect3") \o Perhaps(Next)) \o Put("sect2")

BuildBridge ==
    Ask \o Each("sect", Perhaps(Next) \o Either(BuildSpan, BuildTower) \o Put("sect"))

\* What a key does to the copy.  Each may be refused with its value; the copy
\* may get the number of another object, and with it that one's age.
EditSectI == Perhaps(Quit)
EditSect  == Either(EditSectI, Perhaps(Quit) \o May(Get("sect2") \o Blank("sect")))

EditAnyUnit == Perhaps(Quit) \o May(Blank("unit") \o Perhaps(Quit))
EditShip    == Either(EditAnyUnit, Perhaps(Quit))
\* divine_load(): the carrier says where the unit goes
DivineLoad  == May(Get("ship"))
EditLand    == Either(EditShip, Perhaps(Quit) \o DivineLoad)
EditPlane   == Either(EditShip, Perhaps(Quit) \o DivineLoad)
EditNuke    == Either(EditShip, Perhaps(Quit) \o DivineLoad)

\* one key and its value
EditKey(v, edit) == Check(v, Quit) \o edit \o Put(v)

Edit(v, edit) ==
    Ask \o Ask
    \o Each(v, Either(EditKey(v, edit) \o Perhaps(Next) \o EditKey(v, edit),
                      Forever(Confirm \o May(Go(Leave)) \o EditKey(v, edit))))

EditSector == Edit("sect", EditSect)
EditUnit   == Edit("unit", Either(EditShip, Either(EditLand, Either(EditPlane, EditNuke))))
=============================================================================
