-------------------------- MODULE EmpMarchCommands --------------------------
(***************************************************************************)
(* Moving a group of ships (navigate) or of land units (march).  The group *)
(* is held in copies for as long as the player goes on giving directions;  *)
(* after each answer, and after everything the group runs into, the copies *)
(* are read again.                                                         *)
(***************************************************************************)
EXTENDS EmpMissions

Fleet   == <<"ship", "ship2">>
Column  == <<"land", "land2">>

\* what fires at the group writes units of all kinds, and the group's bases
\* and carriers
World ==
    Touch("sect") \o Touch("ship") \o Touch("land") \o Others(Airborne) \o Touch("nuke")

\* shp_sel(), lnd_sel(): the mission and the retreat orders are gone
UnitSel(list) == Pick(list, Put) \o Have(list, Quit)

\* shp_nav_put(), lnd_mar_put()
NavPutOne(v)  == Put(v) \o Drop(v)
NavPut(list)  == For(list, NavPutOne)

\* shp_may_nav(), lnd_may_mar(): on the trading block, aboard, without a
\* crew, stuck, kidnapped, or not with the leader
MayGoOn(v) == May(NavPutOne(v))

\* shp_nav_stay_behind(), lnd_mar_stay_behind(): one may be sunk or captured
StayBehind(list) == For(list, LAMBDA v : Reget(v) \o Either(Drop(v), MayGoOn(v)))

\* shp_check_one_mines(), lnd_check_one_mines()
CheckOneMine(v) == May(Touch("sect") \o Put(v) \o May(Drop(v)))
CheckMines(list) == For(list, CheckOneMine)

\* shp_sweep(), lnd_sweep()
Sweep(list) ==
    For(list, LAMBDA v :
        Perhaps(Next) \o Put(v) \o Perhaps(Next) \o Put(v) \o Touch("sect") \o CheckOneMine(v))

\* shp_damage(), lnd_damage()
Damage(list) == For(list, LAMBDA v : May(DamageOne(v)))

\* shp_interdict(), lnd_interdict(): forts, missions and missiles in turn
InterdictOnce(list) == May(World \o Damage(list))
Interdict(list) ==
    InterdictOnce(list) \o Have(list, 1) \o InterdictOnce(list) \o Have(list, 1)
    \o InterdictOnce(list)

\* shp_nav_gauntlet(), lnd_mar_gauntlet()
Gauntlet(list) ==
    Call(Have(list, Return) \o Sweep(list) \o Have(list, Return) \o CheckMines(list)
         \o Have(list, Return) \o May(Interdict(list)))

\* shp_nav_dir(): those that cannot follow stay behind
ShpNavDir ==
    Call(Perhaps(Return) \o For(Fleet, LAMBDA v : Put(v) \o May(Drop(v))))

\* lnd_mar_dir(): each that leaves writes the sector it left, where the
\* others may take over; a spy may be shot
LndMarDir ==
    Call(Get("sect") \o Perhaps(Return)
         \o For(Column, LAMBDA v :
                May(NavPutOne(v) \o Go(Next))
                \o Put(v) \o Put("sect") \o Reget("sect") \o May(Put(v) \o NavPutOne(v))))

\* unit_move_non_dir(): sweep, or a command with prompts and copies of its own
NonDir(list) == Either(Sweep(list), May(ConfirmOr(1) \o World))

\* unit_move_getpath() fails: all stop where they are
GetPath(list) ==
    LET stop == StayBehind(list) \o NavPut(list) \o Go(Quit)
    IN  ConfirmOr(2) \o Go(Len(stop) + 1) \o stop

\* the end of each round of unit_move()
Settle(list) == StayBehind(list) \o Have(list, Quit)

\* a character of the path: a direction, stop, or something else
Character(list, dir) ==
    Either(NavPut(list) \o Go(Quit), Either(dir \o Gauntlet(list), NonDir(list)))
    \o Settle(list)

\* a path is up to two characters long; the first one may be an argument
Path(list, dir) == May(Character(list, dir) \o May(Character(list, dir)))
Moves(list, dir) ==
    Path(list, dir) \o Forever(GetPath(list) \o Settle(list) \o Path(list, dir))

Navigate == Ask \o UnitSel(Fleet) \o Moves(Fleet, ShpNavDir)

\* march from a sector that is not lost when the group leaves it
MarchOn == Ask \o UnitSel(Column) \o Moves(Column, LndMarDir)

\* lnd_abandon_askyn(): asked before the first step, when the sector would be
\* lost; after any other answer than yes all of them stop
AbandonAskyn ==
    LET stop == NavPut(Column) \o Go(Quit)
        ask == Get("sect") \o May(ConfirmOr(1)) \o Check("sect", Return)
               \o For(Column, LAMBDA v : Check(v, Return)) \o Perhaps(Return)
    IN  Call(ask \o Go(Len(stop) + 1)) \o stop

March ==
    Ask \o UnitSel(Column)
    \o Either(Go(1), Forever(GetPath(Column) \o Settle(Column)
                             \o Either(NonDir(Column) \o Settle(Column), Go(Leave))))
    \o AbandonAskyn \o LndMarDir \o Gauntlet(Column) \o Settle(Column)
    \o Moves(Column, LndMarDir)
=============================================================================
