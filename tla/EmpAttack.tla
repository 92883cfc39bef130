------------------------------ MODULE EmpAttack ------------------------------
(***************************************************************************)
(* Taking something by force: attack, assault, paradrop and board.         *)
(*                                                                         *)
(* Each side is a combat object per sector or ship, off, off2 and def,     *)
(* and a list of land units, Party and Garrison.  A combat object is no    *)
(* copy of a game object: it holds some of its fields, and put_combat()    *)
(* writes these into whatever the object has become.  file.c cannot tell   *)
(* that they are old; here they are as old as they are.                    *)
(***************************************************************************)
EXTENDS EmpMarchCommands

Party    == <<"land", "land2">>
Garrison == <<"land3", "land4">>
Sides(off) == off \o <<"def">>

\* att_get_combat(): it may be lost, have moved, or belong to somebody else
GetCombat(v) == Reget(v) \o May(Drop(v))
\* put_combat(), which ends by att_get_combat()
PutCombat(v) == For(<<v>>, LAMBDA u : Put(u) \o GetCombat(u))

\* att_abort(), board_abort(), land_board_abort(): the attack must still be
\* possible; attacking sectors are not looked at
AttAbort(forces) ==
    Every(forces, LAMBDA v : Have(<<v>>, Quit) \o Reget(v) \o Perhaps(Quit))

\* att_approach(): whoever defends a ship fires at the boarder
AttApproach ==
    May(Touch("ship") \o Touch("sect") \o Touch("land") \o Touch("plane")
        \o Touch("off") \o Reget("off") \o Perhaps(Quit))

----------------------------------------------------------------------------
(* Before the fight: the attacker answers.                                 *)

\* ask_off()
AskOff(v, forces) ==
    Call(Have(<<v>>, Return) \o GetCombat(v) \o Have(<<v>>, Return) \o Perhaps(Return)
         \o Confirm \o AttAbort(forces) \o GetCombat(v))

\* att_prompt(), until the answer makes sense
AttPrompt(else) == Forever(ConfirmOr(else) \o May(Go(Leave)))

\* ask_olist(): a unit is supplied, which may take from those before it,
\* and joins
AskOlist(slots, forces) ==
    LET join(v) == SupplyAll(v) \o May(Drop(v) \o Go(Return))
                   \o May(AttPrompt(Quit) \o AttAbort(forces) \o May(Drop(v)))
    IN  Call(Every(slots, LAMBDA v : May(GetNone(v, Party, Len(join(v)) + 1) \o join(v))))

\* att_ask_support(), att_ask_offense()
AskSupport(forces) == May(Ask \o Ask \o Ask \o Ask) \o AttAbort(forces)
AskOne(v, slots, forces) ==
    Call(Have(<<v>>, Return) \o AskOff(v, forces) \o AttAbort(forces)
         \o AskOlist(slots, forces) \o AttAbort(forces))

\* get_oland(), get_dland(): who is gone is written as it was just read
GetLand(v) == Reget(v) \o May(NavPutOne(v) \o Go(Next))

\* get_ototal(), get_dtotal() with check set
GetOtotal(off) ==
    For(off, GetCombat) \o For(Party, LAMBDA v : GetLand(v) \o May(NavPutOne(v)))
GetDtotal == GetCombat("def") \o For(Garrison, GetLand)

\* att_get_offense()
GetOffense(off, forces) == GetOtotal(off) \o Perhaps(Return) \o AttAbort(forces)

----------------------------------------------------------------------------
(* The fight: nobody is asked.                                             *)

\* att_reacting_units(): a unit is supplied, moved and written
React(v) ==
    Call(May(GetNone(v, Party \o Garrison, 1) \o SupplyAll(v)
             \o May(Drop(v) \o Go(Return)) \o Put(v)))
AttReactingUnits == GetDtotal \o React("land4")

\* lnd_supply_all(): what supplies may be another unit of the garrison, or
\* only what is not near the fight
SupplyFromAfar(v) ==
    May(Touch("sect") \o Touch("ship") \o Others(<<v>> \o Garrison) \o Put(v))
Supplied(v, near) == IF near THEN SupplyAll(v) ELSE SupplyFromAfar(v)

\* get_dlist(), att_get_defense(): reacting units come to a sector only
GetDlist(slots, near) ==
    Every(slots, LAMBDA v :
        May(GetNone(v, Party \o Garrison, Len(Supplied(v, near)) + 1)
            \o Supplied(v, near)))
GetDefense == GetDlist(<<"land3">>, TRUE) \o May(AttReactingUnits)

\* get_osupport(), get_dsupport(): forts, ships, units and planes fire and
\* bomb; what they miss or destroy may be part of the fight
Fire(off) == World \o Every(Sides(off), Touch)
\* att_get_support()
AttGetSupport(off, osupport) ==
    osupport \o GetOtotal(off) \o Perhaps(Return) \o GetDtotal
    \o May(Fire(off) \o May(GetDtotal \o Fire(off)))
    \o GetOtotal(off) \o Perhaps(Return) \o GetDtotal

\* lnd_take_casualty(): a unit dies, retreats or leaves
LndTakeCasualty(v) == May(NavPutOne(v))
\* take_casualty() as long as both fight, kill_land()
TakeCasualty(units) == For(units, LndTakeCasualty)
\* until one side is no more
Battle(check) == check \o TakeCasualty(Party \o Garrison)

\* send_reacting_units_home() and lnd_put(); put_oland()
PutGarrison == For(Garrison, NavPutOne)
PutOland    == For(Party, LAMBDA v : Put(v) \o May(Drop(v) \o Go(Next)) \o GetLand(v))

\* takeover(), takeover_unit(): what is in it changes hands or is blown up,
\* but for what already belongs to the new owner and planes that are up
Takeover ==
    Touch("sect") \o Touch("ship") \o Others(Party) \o Others(Airborne) \o Touch("nuke")

\* take_def(): a soldier moves in, or the first unit, which is written before
\* the rest changes hands, or after it
Enter == For(Party, LAMBDA v : NavPutOne(v) \o Go(Leave))
TakeDef ==
    Either(Enter \o PutCombat("def") \o Takeover, PutCombat("def") \o Takeover \o Enter)
    \o GetCombat("def")

\* att_move_land(), move_in_land()
AttMoveLand == For(Party, GetLand)
MoveInLand  == AttMoveLand \o May(Sweep(Party) \o CheckMines(Party)) \o NavPut(Party)

\* att_move_in_off(): and the lunch they pack
AttMoveInOff(off) ==
    MoveInLand \o Every(off, LAMBDA v : PutCombat(v) \o May(Touch("ship")))
    \o PutCombat("def") \o May(Touch("sect"))

\* att_fight(); after a victory the attackers move in
AttFight(off, check, move) ==
    Call(Battle(check) \o PutGarrison \o PutOland
         \o Either(Every(Sides(off), PutCombat) \o Go(Return), TakeDef)
         \o Every(off, PutCombat) \o move)

----------------------------------------------------------------------------
(* Attack.                                                                 *)

Field == <<"off", "off2">>
Single == <<"off">>

\* ask_move_in_off()
AskMoveInOff(v) ==
    Call(GetCombat(v) \o Have(<<v>>, Return) \o GetCombat("def") \o Have(<<"def">>, Return)
         \o Perhaps(Return) \o ConfirmOr(Return) \o Perhaps(Return)
         \o GetCombat(v) \o Have(<<v>>, Return) \o GetCombat("def") \o Have(<<"def">>, Return)
         \o Perhaps(Return) \o PutCombat(v)
         \o May(World \o Touch("def") \o GetCombat("def") \o Have(<<"def">>, Return))
         \o PutCombat("def"))

\* ask_move_in(): who was answered for may wait while the next one is asked
\* about
AskMoveInLand(v) ==
    GetCombat("def") \o May(Go(Next)) \o GetLand(v)
    \o May(AttPrompt(Leave) \o GetCombat("def") \o GetLand(v)) \o May(NavPutOne(v))

AskMoveIn ==
    Call(For(Field, AskMoveInOff)
         \o Have(Party, Return) \o For(Party, AskMoveInLand) \o Have(Party, Return)
         \o May(For(Party, LAMBDA v : GetLand(v) \o NavPutOne(v)) \o Go(Return))
         \o May(Interdict(Party)) \o MoveInLand)

AttackWith(field, ask, move) ==
    Ask \o Get("def") \o AttAbort(<<"def">>) \o AskSupport(<<"def">>)
    \o Every(field, LAMBDA v : May(GetNone(v, Sides(field), 1))) \o Have(field, Quit)
    \o ask \o GetOffense(field, <<"def">>) \o GetDefense
    \o AttGetSupport(field, May(Fire(field))) \o AttAbort(<<"def">>)
    \o AttFight(field, GetOtotal(field), move \o Every(field, PutCombat))

\* the answers to ask_move_in() come after the fight, and at the end the
\* attacking sectors are written once more as they were before them
Attack ==
    AttackWith(Field,
               AskOne("off", <<"land">>, <<"def">>) \o AskOne("off2", <<"land2">>, <<"def">>),
               AskMoveIn)

\* attack from one sector, when nobody is left who could move in
Storm == AttackWith(Single, AskOne("off", Party, <<"def">>), <<>>)

----------------------------------------------------------------------------
(* Assault from a ship, boarding from a ship or a sector, paradrop.        *)

\* sneak_ashore()
SneakAshore == AttMoveLand \o NavPut(Party)

Assault ==
    Ask \o Get("def") \o AttAbort(<<"def">>)
    \o Ask \o GetNone("off", <<"def">>, Quit) \o AttAbort(Sides(Single))
    \o AskSupport(Sides(Single)) \o AskOne("off", Party, Sides(Single))
    \o May(AttMoveInOff(Single) \o Go(Quit)) \o May(SneakAshore \o Go(Quit))
    \o GetOffense(Single, Sides(Single))
    \o GetDefense
    \o AttGetSupport(Single, May(Fire(Single))) \o AttAbort(Sides(Single))
    \o AttFight(Single, GetOtotal(Single), AttMoveInOff(Single))

\* the combat objects are not got again between the supply of the garrison
\* and the fight
BoardWith(approach, slots, near) ==
    Ask \o Ask \o May(Get("sect") \o Perhaps(Quit))
    \o Get("def") \o GetNone("off", <<"def">>, Quit) \o AttAbort(Sides(Single))
    \o approach \o AttAbort(Sides(Single)) \o AskOne("off", slots, Sides(Single))
    \o GetOffense(Single, Sides(Single)) \o GetDlist(Garrison, near)
    \o AttFight(Single, GetOtotal(Single), AttMoveInOff(Single))

Boarding(near) ==
    BoardWith(AttApproach, Party, near) \o Get("ship") \o May(RetreatShip("ship") \o Put("ship"))

\* in a harbor one unit of the garrison may supply another
Board      == Boarding(TRUE)
BoardAtSea == Boarding(FALSE)
\* boarding a land unit whose cargo supplies nobody
LandBoard  == BoardWith(<<>>, <<>>, FALSE)

\* paradrop(): the planes are up
DropTroops ==
    Call(Get("def") \o Perhaps(Return)
         \o GetDefense
         \o AttGetSupport(<<>>, <<>>) \o Reget("def") \o Perhaps(Return)
         \o AttFight(<<>>, <<>>, AttMoveInOff(<<>>)))

Paradrop ==
    GetPlanes \o GetRoute \o Perhaps(Quit) \o Prepare \o Encounter
    \o May(DropTroops) \o Land
=============================================================================
