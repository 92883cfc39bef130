--------------------------- MODULE EmpAirCommands ---------------------------
(***************************************************************************)
(* Planes and missiles: the commands that fly them, what they meet on      *)
(* their way, and what they do at the target.                              *)
(*                                                                         *)
(* A flight copies its planes into lists: bombers (plane, plane2), escorts *)
(* (plane3), interceptors (plane4).  Planes that are up are marked, and    *)
(* everybody else leaves them alone; a pinpoint bomber asks its player     *)
(* what to bomb all the same, and the marks do not keep the copies fresh.  *)
(***************************************************************************)
EXTENDS EmpFireCommands

Bombers  == <<"plane", "plane2">>
Escorts  == <<"plane3">>
Flight   == Bombers \o Escorts
Enemies  == <<"plane4">>
Airborne == Flight \o Enemies

\* pln_equip(): fuel and load come from the sector, ship or unit the plane is
\* on, which may get them by supply
Equip == Touch("sect") \o Touch("ship") \o Touch("land")
\* without orders: what is supplied is written as it was got
MissionPlnEquip == Equip

\* collateral_damage(), sectdamage(): everything in a sector but the planes
\* that are up
Collateral == Touch("sect") \o Touch("land") \o Others(Airborne)

\* a plane comes back, or down: pln_put1(); ac_putplane() of one that may
\* stay up
PlnPut1(v)    == Put(v) \o Drop(v)
PlnPut(list)  == For(list, PlnPut1)
AcPutPlane(v) == Put(v) \o May(Drop(v))

----------------------------------------------------------------------------
(* Before the flight.                                                      *)

\* get_planes(), get_assembly_point(), getpath()
GetPlanes == Ask \o Ask
GetRoute  == Ask \o Ask

\* pln_where_to_land()
WhereToLand ==
    May(Forever(ConfirmOr(Quit) \o May(Go(Leave)))) \o Perhaps(Quit)

\* the same plane may be among the bombers and the escorts
PlnSel(list) == Pick(list, Put)

\* the planes are read again: a bomber is up when the escorts are armed
PlnArm(list) ==
    For(list, LAMBDA v :
        Reget(v) \o May(Drop(v) \o Go(Next)) \o Equip \o Put(v))

PlnArmEscorts ==
    For(Escorts, LAMBDA v :
        Reget(v)
        \o Unless(v, Bombers[1], 3) \o Unless(v, Bombers[2], 2) \o Go(3) \o Drop(v) \o Go(Next)
        \o May(Drop(v) \o Go(Next)) \o Equip \o Put(v))

Prepare ==
    PlnSel(Bombers) \o PlnSel(Escorts) \o Perhaps(Quit)
    \o PlnArm(Bombers) \o Have(Bombers, Quit) \o PlnArmEscorts

----------------------------------------------------------------------------
(* On the way.                                                             *)

\* ac_dog(), of one of ours and one of theirs
AcDog(v, e) == AcPutPlane(v) \o AcPutPlane(e)

\* ac_doflak(), ac_shipflak(), ac_landflak(): who fires is not written
Flak(mine) == For(mine, AcPutPlane)

\* a surface-to-air missile rises if it can be equipped, and does not return
SamIntercept(mine, e) ==
    For(mine, LAMBDA v :
        Have(<<e>>, Leave)
        \o May(May(Drop(e) \o Go(Leave)) \o MissionPlnEquip \o Put(e) \o AcPutPlane(v) \o PlnPut1(e)))

AcAirToAir(mine, e) == For(mine, LAMBDA v : Have(<<e>>, Leave) \o AcDog(v, e))

AcIntercept(bombers, escorts, e) ==
    Call(SamIntercept(bombers, e) \o SamIntercept(escorts, e)
         \o Have(bombers \o escorts, Return) \o Have(<<e>>, Return) \o Perhaps(Return)
         \o May(Drop(e) \o Go(Return)) \o MissionPlnEquip \o Put(e)
         \o AcAirToAir(escorts, e) \o AcAirToAir(bombers, e)
         \o Have(<<e>>, Return) \o PlnPut1(e))

\* mines in the sector it flies over
PlaneSweep == May(Touch("sect"))

\* getilists() once; then for each sector of the path: flak, fighters, and
\* sweeping mines
AcEncounter(bombers, escorts) ==
    May(GetNone(Enemies[1], bombers \o escorts, 1))
    \o Forever(
        May(May(Flak(bombers)) \o Have(bombers, Leave)
            \o For(Enemies, LAMBDA e : Have(bombers, Leave) \o AcIntercept(bombers, escorts, e)))
        \o PlaneSweep \o May(Go(Leave)) \o Have(bombers, Leave))
    \o PlnPut(Enemies)

\* pln_dropoff(), pln_mine()
PlnDropoff == May(Touch("sect")) \o May(Touch("ship"))

\* pln_newlanding(): only a plane that gets onto a carrier is written
PlnNewLanding(list) == For(list, LAMBDA v : May(Put(v)))

Land == PlnPut(Bombers) \o PlnPut(Escorts)

Encounter == AcEncounter(Bombers, Escorts)

Fly ==
    GetPlanes \o GetRoute \o Ask \o WhereToLand \o Prepare \o Encounter
    \o May(PlnDropoff \o PlnNewLanding(Flight)) \o Land

\* reco, sweep
Reconnaissance ==
    GetPlanes \o GetRoute \o WhereToLand \o Prepare \o Encounter
    \o May(PlnNewLanding(Flight)) \o Land

AirDrop ==
    GetPlanes \o GetRoute \o Ask \o Perhaps(Quit) \o Prepare \o Encounter
    \o May(PlnDropoff) \o Land

----------------------------------------------------------------------------
(* Bombing.                                                                *)

\* changed_plane_aborts(): a plane that changed goes home
ChangedPlaneAborts(v) ==
    Check(v, 2) \o Go(5) \o Reget(v) \o PlnPut1(v) \o Go(Next)

\* eff_bomb(), comm_bomb(), which asks what to bomb
SectorBomb(list) ==
    May(Forever(ConfirmOr(Return) \o May(Go(Leave))))
    \o For(list, ChangedPlaneAborts) \o Touch("sect") \o Collateral

\* each plane has a target of its own, perhaps with flak
TargetBomb(list, w, pick, retreat) ==
    For(list, LAMBDA v :
        ChangedPlaneAborts(v) \o Perhaps(Next) \o Drop(w)
        \o Forever(ConfirmOr(Return) \o May(Go(Leave))
                   \o pick \o May(Go(Leave)) \o Drop(w))
        \o Have(<<w>>, Next) \o ChangedPlaneAborts(v)
        \o May(Put(v) \o May(Go(Next)))
        \o May(Collateral \o Go(Next))
        \o retreat \o Put(w) \o Collateral)

ShipBomb(list)  == TargetBomb(list, "ship", Get("ship"), RetreatShip("ship"))
PlaneBomb(list) == TargetBomb(list, "plane4", GetNone("plane4", Flight, 1), <<>>)
\* retreat_land() writes the unit
LandBomb(list)  ==
    TargetBomb(list, "land", Get("land"), May(Put("land") \o Touch("sect") \o Reget("land")))

PinBomb(list) ==
    Call(Forever(ConfirmOr(Return) \o May(Go(Return)) \o May(Go(Leave)))
         \o Either(SectorBomb(list),
            Either(ShipBomb(list), Either(PlaneBomb(list), LandBomb(list)))))
    \o Drop("plane4") \o For(Flight, ChangedPlaneAborts)

\* detonate(): whatever is around, but planes that are up
DetonateUnits == Touch("land") \o Touch("ship") \o Touch("nuke")
Detonate ==
    Touch("nuke") \o Touch("sect") \o Others(Airborne) \o DetonateUnits

StratBomb == For(Bombers, LAMBDA v : May(Detonate)) \o May(Collateral)

Bomb ==
    GetPlanes \o Ask \o GetRoute \o Prepare \o Encounter
    \o May(Either(PinBomb(Bombers), StratBomb)) \o Land

----------------------------------------------------------------------------
(* Missiles.                                                               *)

\* msl_sel(): somebody else's; msl_intercept(): interceptors are used up
MslSel == May(GetNone(Enemies[1], Flight, 1))
MslIntercept ==
    MslSel
    \o For(Enemies, LAMBDA e : May(Drop(e) \o Go(Next)) \o Equip \o Put(e))
    \o For(Enemies, LAMBDA e : May(Put(e) \o May(Touch("nuke")) \o Put(e)) \o Drop(e))

\* shp_missile_defense(): ships and land units around use up shells
MissileDefense == Touch("ship") \o Touch("land") \o Touch("sect")

\* the missile in v may blow up, and take its nuke with it
MslLaunch(v) ==
    Put(v) \o Either(Touch("nuke"), Either(MslIntercept, MissileDefense))

LaunchMissile ==
    Ask \o Check("plane", Quit) \o Perhaps(Quit)
    \o Either(Equip \o Perhaps(Quit) \o MslLaunch("plane") \o May(Either(Detonate, Collateral)),
              Get("ship") \o Perhaps(Quit) \o Equip \o Perhaps(Quit) \o MslLaunch("plane")
              \o May(Reget("ship")
                     \o Either(Collateral, May(RetreatShip("ship")) \o Put("ship"))))

\* nothing stops it
LaunchAntiSatellite ==
    Ask \o Check("plane", Quit) \o GetOther("plane2", "plane") \o Perhaps(Quit)
    \o Equip \o Perhaps(Quit) \o Put("plane") \o Either(Touch("nuke"), May(Put("plane2")))

LaunchSatellite ==
    Ask \o Check("plane", Quit) \o Perhaps(Quit) \o Confirm \o Check("plane", Quit)
    \o Equip \o Perhaps(Quit) \o May(MslIntercept \o May(Put("plane") \o Go(Next)))

Launch ==
    Ask \o
    Each("plane", Perhaps(Next)
                  \o Either(LaunchMissile, Either(LaunchAntiSatellite, LaunchSatellite))
                  \o Put("plane"))
=============================================================================
