---------------------------- MODULE EmpCommands ----------------------------
(***************************************************************************)
(* A player's command at work among others: the machine that runs the      *)
(* bodies of EmpSectorCommands, EmpUnitCommands, EmpCargoCommands,         *)
(* EmpFireCommands and EmpAirCommands.  Only what matters to the copies is *)
(* kept of an object: which one it is, whether the processor was yielded   *)
(* since the copy was read (its generation is then old, and writing it is  *)
(* an oops), and whether somebody wrote the object since (its seqno is     *)
(* then behind, and writing it undoes what they wrote, another oops).      *)
(*                                                                         *)
(* The threads are cooperative: other commands run, and write any object   *)
(* they like, only while this one waits for its player.                    *)
(***************************************************************************)
EXTENDS EmpSectorCommands, EmpAttack, FiniteSets

CONSTANTS Watched,    \* the commands that run
          N,          \* there are objects 1..N of each kind
          Turns       \* the longest selection of objects

ASSUME CommandsAssumption == N \in Nat \ {0} /\ Turns \in Nat

Catalog ==
    [deliver |-> Deliver, distribute |-> Distribute, threshold |-> Threshold,
     designate |-> Designate, territory |-> Territory, give |-> Give,
     setresource |-> SetResource, setsector |-> SetSector, improve |-> Improve,
     antigovernment |-> Antigovernment, convert |-> Convert, demobilize |-> Demobilize,
     enlist |-> Enlist, grind |-> Grind, shoot |-> Shoot, wipe |-> Wipe,
     startsector |-> StartStopSector, swap |-> SwapSector, spy |-> Spy,
     morale |-> Morale, range |-> Range, name |-> Name, arm |-> Arm, disarm |-> Disarm,
     army |-> Army, fleetadd |-> FleetAdd, wingadd |-> WingAdd, stockpile |-> Stockpile,
     fortify |-> Fortify, harden |-> Harden, upgradeland |-> UpgradeLand,
     upgradeship |-> UpgradeShip, upgradeplane |-> UpgradePlane, work |-> Work,
     startunit |-> StartStopUnit, transportnuke |-> TransportNuke,
     transportplane |-> TransportPlane, sabotage |-> Sabotage, mine |-> Mine,
     landmine |-> LandMine, supply |-> Supply, retreat |-> Retreat, mission |-> Mission,
     scrap |-> Scrap, scuttle |-> Scuttle,
     load |-> Load, loadunit |-> LoadUnit, tend |-> Tend, tendunits |-> TendUnits,
     offer |-> Offer, consider |-> Consider, repay |-> Repay, collect |-> Collect,
     shark |-> Shark,
     torpedo |-> Torpedo, fireland |-> FireLand, firefort |-> FireFort, fireship |-> FireShip,
     board |-> Board, boardatsea |-> BoardAtSea, landboard |-> LandBoard,
     attack |-> Attack, storm |-> Storm, assault |-> Assault, paradrop |-> Paradrop,
     buildunit |-> BuildUnit, buildbridge |-> BuildBridge,
     fly |-> Fly, reconnaissance |-> Reconnaissance, drop |-> AirDrop, bomb |-> Bomb,
     launch |-> Launch,
     interdict |-> UnitInterdict, support |-> DoSupport,
     navigate |-> Navigate, march |-> March, marchon |-> MarchOn,
     shipmissiles |-> ShpMissileInterdiction, landmissiles |-> LndMissileInterdiction,
     editsector |-> EditSector, editunit |-> EditUnit]

Sectors == {"sect", "sect2", "sect3"}
Ships   == {"ship", "ship2", "ship3", "ship4"}
Lands   == {"land", "land2", "land3", "land4"}
Forces  == {"off", "off2", "def"}
Planes  == {"plane", "plane2", "plane3", "plane4"}
Buffers == Sectors \cup Ships \cup Lands \cup Planes \cup Forces \cup {"nuke", "loan", "unit"}
Kind(v) == IF v \in Sectors THEN "sect" ELSE IF v \in Ships THEN "ship"
           ELSE IF v \in Lands THEN "land" ELSE IF v \in Planes THEN "plane"
           ELSE IF v \in Forces THEN "force" ELSE v

VARIABLES
    cmd,        \* the command that runs
    body,       \* what it does
    pc,         \* its next step; 0 when it has ended
    buf,        \* what it knows of the objects in its buffers
    turn,       \* how often a loop has turned
    aborted     \* player->aborted

vars == <<cmd, body, pc, buf, turn, aborted>>

None == [at |-> 0, fresh |-> TRUE, same |-> TRUE]
Read(n) == [at |-> n, fresh |-> TRUE, same |-> TRUE]

step == body[pc]
v == step.vs[1]
w == step.vs[2]

CommandsInit ==
    /\ cmd \in Watched
    /\ body = Catalog[cmd]
    /\ pc = 1
    /\ buf = [b \in Buffers |-> None]
    /\ turn = [b \in Buffers |-> 0]
    /\ aborted = FALSE

----------------------------------------------------------------------------

Target(d) == IF d = Quit \/ pc + d > Len(body) THEN 0 ELSE pc + d
Onward == pc' = Target(1)
Away == pc' = Target(step.else)

\* copies of the objects of v's kind in S fall behind
Written(b, s) == [u \in Buffers |-> IF Kind(u) = Kind(b) /\ buf[u].at \in s
                                    THEN [buf[u] EXCEPT !.same = FALSE] ELSE buf[u]]

\* ef_make_stale(), and what the others do until the player answers
Yield ==
    \E hit \in SUBSET {<<Kind(b), buf[b].at>> : b \in {x \in Buffers : buf[x].at # 0}} :
        buf' = [b \in Buffers |->
                    IF buf[b].at = 0 THEN buf[b]
                    ELSE [buf[b] EXCEPT !.fresh = FALSE,
                                        !.same = @ /\ <<Kind(b), buf[b].at>> \notin hit]]

\* the player answers, or the prompt ends with nothing: end of file, an
\* interrupt, or the update aborts the command
Prompt ==
    /\ step.op \in {"ask", "confirm"}
    /\ ~aborted
    /\ Yield
    /\ \/ Onward /\ UNCHANGED aborted
       \/ Away /\ aborted' \in BOOLEAN
    /\ UNCHANGED <<cmd, body, turn>>

\* no waiting: the argument is on the command line
Argument ==
    /\ step.op = "ask"
    /\ Onward
    /\ UNCHANGED <<cmd, body, buf, turn, aborted>>

\* an aborted command gets nothing from a prompt, at once
PromptAborted ==
    /\ step.op \in {"ask", "confirm"}
    /\ aborted
    /\ Away
    /\ UNCHANGED <<cmd, body, buf, turn, aborted>>

\* an object that is in a buffer, or one of those that are not: it does not
\* matter which
Choices(b) ==
    LET held == {buf[u].at : u \in {x \in Buffers : Kind(x) = Kind(b)}}
    IN  {n \in 1..N : n \in held \/ \A m \in 1..(n - 1) : m \in held}

Excepted == {buf[step.vs[i]].at : i \in 2..Len(step.vs)}

Gets ==
    /\ \/ step.op \in {"get", "blank"} /\ \E n \in Choices(v) : buf' = [buf EXCEPT ![v] = Read(n)]
       \/ step.op = "other" /\ \E n \in Choices(v) \ Excepted : buf' = [buf EXCEPT ![v] = Read(n)]
       \/ step.op = "drop" /\ buf' = [buf EXCEPT ![v] = None]
       \/ step.op = "again" /\ buf' = [buf EXCEPT ![v] = Read(@.at)]
       \/ step.op = "copy" /\ buf' = [buf EXCEPT ![v] = buf[w]]
    /\ Onward
    /\ UNCHANGED <<cmd, body, turn, aborted>>

Perhapses ==
    /\ \/ step.op = "perhaps" /\ Onward
       \/ step.op \in {"perhaps", "go"} /\ Away
       \/ step.op = "other" /\ Choices(v) \subseteq Excepted /\ Away
       \/ /\ step.op = "have"
          /\ IF \E i \in DOMAIN step.vs : buf[step.vs[i]].at # 0 THEN Onward ELSE Away
    /\ UNCHANGED <<cmd, body, buf, turn, aborted>>

\* check_obj_ok(): a copy that stands is fresh again
Checks ==
    /\ step.op = "check"
    /\ \/ buf[v].same /\ Onward /\ buf' = [buf EXCEPT ![v].fresh = TRUE]
       \/ ~buf[v].same /\ Away /\ UNCHANGED buf
    /\ UNCHANGED <<cmd, body, turn, aborted>>

Compares ==
    /\ step.op = "unless"
    /\ IF buf[v].at = buf[w].at THEN Away ELSE Onward
    /\ UNCHANGED <<cmd, body, buf, turn, aborted>>

\* ef_write(): the other copies of the object fall behind
Puts ==
    /\ step.op = "put"
    /\ buf' = [Written(v, {buf[v].at}) EXCEPT ![v] = [buf[v] EXCEPT !.same = TRUE]]
    /\ Onward
    /\ UNCHANGED <<cmd, body, turn, aborted>>

\* functions that work with copies of their own
Touches ==
    /\ \E s \in SUBSET (1..N) :
          /\ \/ step.op = "touch"
             \/ step.op = "others" /\ \A i \in DOMAIN step.vs : buf[step.vs[i]].at \notin s
          /\ buf' = Written(v, s)
    /\ Onward
    /\ UNCHANGED <<cmd, body, turn, aborted>>

\* snxtitem(), snxtsct(), and nxtitem(), nxtsct()
Selects ==
    /\ step.op = "first"
    /\ turn' = [turn EXCEPT ![v] = 0]
    /\ Onward
    /\ UNCHANGED <<cmd, body, buf, aborted>>

Turn ==
    /\ step.op = "next"
    /\ turn[v] < Turns
    /\ turn' = [turn EXCEPT ![v] = @ + 1]
    /\ \E n \in Choices(v) : buf' = [buf EXCEPT ![v] = Read(n)]
    /\ Onward
    /\ UNCHANGED <<cmd, body, aborted>>

NoMoreTurns ==
    /\ step.op = "next"
    /\ Away
    /\ UNCHANGED <<cmd, body, buf, turn, aborted>>

CommandsNext ==
    /\ pc # 0
    /\ \/ Prompt \/ Argument \/ PromptAborted \/ Gets \/ Perhapses \/ Checks \/ Compares
       \/ Puts \/ Touches \/ Selects \/ Turn \/ NoMoreTurns

CommandsSpec == CommandsInit /\ [][CommandsNext]_vars /\ WF_vars(CommandsNext)

----------------------------------------------------------------------------
(* What the commands promise.                                              *)

Writing == pc # 0 /\ step.op = "put"

\* What a command writes it has read, or found unchanged, since it last
\* waited for its player: must_be_fresh() in file.c never complains.
FreshWrites == Writing => buf[v].at # 0 /\ buf[v].fresh

\* What a command writes does not undo what somebody else, another of its
\* buffers or a function it called, wrote to the object in the meantime:
\* new_seqno() in file.c never complains.
NothingUndone == Writing => buf[v].same

\* Once the update, a shutdown or the player aborted a command it ends, and
\* the locks it keeps are free again: no loop is left by an answer only.
AbortedEnds == aborted ~> (pc = 0)
=============================================================================
