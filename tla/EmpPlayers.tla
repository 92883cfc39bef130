----------------------------- MODULE EmpPlayers -----------------------------
(***************************************************************************)
(* What players do, for TLC: the session of one with his client, and the   *)
(* market, where what they do meets.  The two share no state; the initial  *)
(* state decides which of them plays while the other rests.                *)
(***************************************************************************)
EXTENDS EmpMarket, EmpWire

VARIABLE scene

playersVars == <<scene, vars, wireVars>>

PlayersInit ==
    /\ scene \in {"market", "session"}
    /\ Init
    /\ IF scene = "session" THEN WireInit ELSE WireAtRest /\ typed = <<>>

PlayersNext ==
    /\ UNCHANGED scene
    /\ \/ scene = "market" /\ Next /\ UNCHANGED wireVars
       \/ scene = "session" /\ WireNext /\ UNCHANGED vars

PlayersSpec == PlayersInit /\ [][PlayersNext]_playersVars
=============================================================================
