---------------------------- MODULE EmpMissions ----------------------------
(***************************************************************************)
(* Units on a mission: what one country's land units, ships, missiles and  *)
(* planes do when somebody moves, fights or is seen in their area.  The    *)
(* whole list is copied before the first of them acts.  It runs within the *)
(* command of the victim, or of the friend they support, and asks nobody.  *)
(*                                                                         *)
(* Units that supply others are not in the list, and no base of a bomber   *)
(* is bombed by another one of the same mission.                           *)
(***************************************************************************)
EXTENDS EmpAirCommands

Guns     == <<"land">>
Batteries == <<"ship">>
Missiles == <<"plane">>
Raiders  == <<"plane2">>

\* msl_sel()
FindMissiles == May(GetNone("plane", Airborne, 1))

\* build_mission_list(), find_escorts()
BuildMissionList ==
    Pick(Guns, LAMBDA v : <<>>) \o Pick(Batteries, LAMBDA v : <<>>)
    \o FindMissiles \o May(GetNone("plane2", Airborne, 1))
    \o Have(Guns \o Batteries \o Missiles \o Raiders, Quit)
FindEscorts == May(GetNone("plane3", Airborne, 1))

\* lnd_fire(), shp_fire(), shp_dchrg(), shp_torp(): shells are got by supply,
\* from units that are not on a mission
Shells == May(Touch("sect") \o Others(Guns) \o Others(Batteries))

\* it is written even when it did not fire
PerformMissionLand == For(Guns, LAMBDA v : May(Shells \o Put(v)) \o Drop(v))
PerformMissionShip == For(Batteries, LAMBDA v : May(Shells \o Put(v)) \o Drop(v))

\* a missile that was not launched is not written
PerformMissionMsl ==
    For(Missiles, LAMBDA v : May(Equip \o MslLaunch(v) \o Put(v)) \o Drop(v))

\* mission_pln_sel(): who cannot go is struck, the others are written
MissionPlnSel(list) == For(list, LAMBDA v : May(Drop(v) \o Go(Next)) \o Put(v))
MissionPlnArm(list) == For(list, LAMBDA v : May(Drop(v) \o Go(Next)) \o MissionPlnEquip \o Put(v))

\* air_damage(): bombs that miss hit something else
AirDamage == For(Raiders, LAMBDA v : May(Collateral))

PerformMissionBomb ==
    Call(Have(Raiders, Return) \o FindEscorts
         \o MissionPlnSel(Raiders) \o MissionPlnSel(Escorts)
         \o Perhaps(Return)
         \o MissionPlnArm(Raiders) \o Have(Raiders, Return) \o MissionPlnArm(Escorts)
         \o AcEncounter(Raiders, Escorts) \o AirDamage
         \o PlnPut(Raiders) \o PlnPut(Escorts))

PerformMission ==
    PerformMissionLand \o PerformMissionShip \o PerformMissionMsl \o PerformMissionBomb

\* unit_interdict(), ground_interdict(): the damage that is left over
UnitInterdict == BuildMissionList \o PerformMission \o May(Touch("sect") \o Touch("land") \o Touch("plane"))
\* dosupport(): the damage is the caller's
DoSupport == BuildMissionList \o PerformMission

\* shp_damage_one(): the ship may have changed, launching interceptors or
\* defending itself; lnd_damage()
DamageOne(v) == Reget(v) \o Put(v) \o May(Drop(v))

\* what is fired at is in ship, or land
ShpMissileInterdiction ==
    Get("ship") \o FindMissiles
    \o For(Missiles, LAMBDA p :
            Call(Have(<<"ship">>, Return) \o Perhaps(Return) \o Equip \o MslLaunch(p)
                 \o May(Either(DamageOne("ship"), Collateral)) \o Put(p))
            \o Drop(p))

LndMissileInterdiction ==
    Get("land") \o FindMissiles
    \o For(Missiles, LAMBDA p : May(Equip \o MslLaunch(p) \o May(Collateral) \o Put(p)) \o Drop(p))
    \o May(Collateral \o DamageOne("land"))
=============================================================================
