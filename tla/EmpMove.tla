------------------------------ MODULE EmpMove ------------------------------
(***************************************************************************)
(* The move and explore commands (lib/commands/move.c, expl.c) among the   *)
(* things that happen to their sectors meanwhile.                          *)
(*                                                                         *)
(* The goods are taken out of the start sector before the player is asked  *)
(* where they go; until the command ends they are nowhere, and the flag    *)
(* MOVE_IN_PROGRESS keeps the empty start sector his (sct_prewrite()).     *)
(* When he has come to the end of his way everything the command found out *)
(* at its beginning may be wrong: the sector he goes to, and the one he    *)
(* came from, may be somebody else's, full, or gone.                       *)
(*                                                                         *)
(* Left out: plague, loyalty and work, terrain, test moves and deities.    *)
(***************************************************************************)
EXTENDS Integers

CONSTANTS Commands,   \* "move", "explore"
          ItemMax,    \* the most a sector holds (ITEM_MAX)
          MaxMobil,   \* bound: most mobility of the start sector
          MaxEvents   \* bound: how often others touch the sectors

ASSUME MoveAssumption ==
    /\ Commands \subseteq {"move", "explore"}
    /\ ItemMax \in Nat /\ MaxMobil \in Nat /\ MaxEvents \in Nat

Sectors == {"start", "dest", "side"}   \* "dest" and "side" are next to "start"

VARIABLES
    mvCmd,    \* the command; and whether it moves people or goods
    mvKind,
    mvAt,     \* "begin", "asked", the sector the goods have come to, "done"
    own,      \* whose the sectors are: "me", "foe", or "none"
    item,     \* how many of what is moved they hold
    folk,     \* whether somebody else lives there
    flag,     \* MOVE_IN_PROGRESS
    mob,      \* mobility of the start sector
    seen,     \* the command's first copy of the start sector
    hand,     \* what is on the way
    cost,     \* mobility the way takes; -1: nothing has left the start sector
    events

moveVars == <<mvCmd, mvKind, mvAt, own, item, folk, flag, mob, seen, hand, cost, events>>
sectorVars == <<own, item, folk, flag, mob>>

StartNow == [own |-> own["start"], item |-> item["start"], folk |-> folk["start"], mob |-> mob]

MoveInit ==
    /\ mvCmd \in Commands /\ mvKind \in IF mvCmd = "explore" THEN {"people"} ELSE {"people", "goods"}
    /\ mvAt = "begin" /\ hand = 0 /\ cost = -1 /\ events = 0
    /\ own \in [Sectors -> {"me", "none"}] /\ own["start"] = "me"
    /\ item \in [Sectors -> 0..ItemMax] /\ item["start"] > 0
    /\ folk = [s \in Sectors |-> own[s] = "me"]
    /\ \A s \in Sectors : own[s] = "none" => item[s] = 0
    /\ flag = [s \in Sectors |-> FALSE]
    /\ mob \in 1..MaxMobil
    /\ seen = StartNow

\* sct_prewrite(): a sector where nobody lives reverts to nobody
Reverts(s, i, f, flags) ==
    own[s] # "none" /\ ~f /\ ~(mvKind = "people" /\ i > 0) /\ ~flags

\* putsect() of a sector with these contents
Put(s, o, i, f, flags) ==
    /\ own' = [own EXCEPT ![s] = IF Reverts(s, i, f, flags) THEN "none" ELSE o]
    /\ item' = [item EXCEPT ![s] = i]
    /\ folk' = [folk EXCEPT ![s] = f]
    /\ flag' = [flag EXCEPT ![s] = flags]

----------------------------------------------------------------------------
(* The others, while the command waits for its player.                     *)

Waiting == mvAt \in Sectors \cup {"asked"}

Happens ==
    /\ Waiting /\ events < MaxEvents /\ events' = events + 1
    /\ UNCHANGED <<mvCmd, mvKind, mvAt, seen, hand, cost>>

Captured(s) ==
    /\ Happens /\ own[s] # "foe"
    /\ Put(s, "foe", item[s], TRUE, flag[s])
    /\ UNCHANGED mob
Bombed(s) ==
    /\ Happens /\ own[s] # "none"
    /\ \E i \in 0..item[s], f \in {folk[s], FALSE} : Put(s, own[s], i, f, flag[s])
    /\ UNCHANGED mob
Filled(s) ==
    /\ Happens /\ own[s] = "me"
    /\ Put(s, own[s], ItemMax, folk[s], flag[s])
    /\ UNCHANGED mob
\* a unit draws supplies, with the mobility of the start sector
MobilityDrawn ==
    /\ Happens /\ mob > 0
    /\ mob' = mob - 1
    /\ UNCHANGED <<own, item, folk, flag>>

----------------------------------------------------------------------------
(* The command up to the end of the way.                                   *)

Ask ==
    /\ mvAt = "begin"
    /\ mvAt' = "asked" /\ seen' = StartNow
    /\ UNCHANGED <<mvCmd, mvKind, sectorVars, hand, cost, events>>

\* check_sect_ok() fails, or the player thinks better of it
GiveUp ==
    /\ mvAt = "asked"
    /\ mvAt' = "done"
    /\ UNCHANGED <<mvCmd, mvKind, sectorVars, seen, hand, cost, events>>

Take(n) ==
    /\ mvAt = "asked" /\ seen = StartNow /\ n <= seen.item
    /\ hand' = n
    /\ Put("start", own["start"], item["start"] - n, folk["start"], TRUE)
    /\ mvAt' = "start"
    /\ UNCHANGED <<mvCmd, mvKind, mob, seen, cost, events>>

\* move_ground(): into a sector of his own, or exploring into an empty one;
\* the mobility is that of the first copy
Step(s) ==
    /\ mvAt \in Sectors /\ s # mvAt
    /\ \/ own[s] = "me"
       \/ mvCmd = "explore" /\ item[s] = 0 /\ ~folk[s]
    /\ cost < seen.mob
    /\ mvAt' = s
    /\ cost' = IF cost = -1 THEN 1 ELSE cost + 1
    /\ UNCHANGED <<mvCmd, mvKind, sectorVars, seen, hand, events>>

\* what of the goods mines and interdiction leave
Arriving(n) == mvAt \in Sectors /\ n \in (IF cost = -1 THEN {hand} ELSE 0..hand)
Arrived ==
    /\ mvAt' = "done" /\ hand' = 0
    /\ UNCHANGED <<mvCmd, mvKind, seen, cost, events>>

Room(s) == ItemMax - item[s]
Capped(n, s) == IF n > Room(s) THEN Room(s) ELSE n

\* the mobility that the way cost
Charged == IF cost = -1 THEN mob ELSE IF mob < cost THEN 0 ELSE mob - cost

\* the sectors as written at the end: n more in sector s, flags as in fl, the
\* start sector's mobility m
Deliver(n, s, o, fl, m) ==
    /\ item' = [item EXCEPT ![s] = @ + n]
    /\ flag' = fl
    /\ own' = [x \in Sectors |->
                 IF x \notin {s, "start"} THEN own[x]
                 ELSE LET i == IF x = s THEN item[x] + n ELSE item[x]
                      IN  IF Reverts(x, i, folk[x], fl[x]) THEN "none"
                          ELSE IF x = s THEN o ELSE own[x]]
    /\ mob' = IF own'["start"] = "none" THEN 0 ELSE m
    /\ UNCHANGED folk

Unflagged == [flag EXCEPT !["start"] = FALSE]

----------------------------------------------------------------------------
(* The end of a move.                                                      *)

\* where the goods go: where they have come to, or back when that sector is
\* lost, has no room, or civilians do not want to stay
Refuses(n, refused) == own[mvAt] # "me" \/ refused \/ n > Room(mvAt)
Home(n, refused) == IF Refuses(n, refused) THEN "start" ELSE mvAt

\* when the start sector is lost, a neighbor takes what goes back, the first
\* with room if there is one
Dumps == {s \in {"dest", "side"} : own[s] = "me"}
Dump(n, s) == s \in Dumps /\ (n > Room(s) => \A x \in Dumps : n > Room(x))

\* the copy that an aborted move works with has the mobility of the first
\* copy; it is written unless the sector was read again since
MoveMobil(n, refused) ==
    IF cost = -1 /\ ~Refuses(n, refused) /\ n > 0 THEN seen.mob ELSE Charged

MoveLost(n) ==
    /\ mvCmd = "move" /\ Arriving(n)
    /\ n = 0
    /\ Deliver(0, "start", own["start"], Unflagged, Charged)
    /\ Arrived

MoveDelivers(n, refused) ==
    /\ mvCmd = "move" /\ Arriving(n) /\ n > 0
    /\ LET s == Home(n, refused)
       IN  /\ own[s] = "me"
           /\ Deliver(Capped(n, s), s, own[s], Unflagged, MoveMobil(n, refused))
    /\ Arrived

\* mutant: the goods are dumped on top of what is there
MoveDumpsAll(n, refused, s) ==
    /\ mvCmd = "move" /\ Arriving(n) /\ n > 0
    /\ Home(n, refused) = "start" /\ own["start"] # "me"
    /\ Dump(n, s)
    /\ Deliver(ItemMax, s, own[s], Unflagged, Charged)
    /\ Arrived

MoveDumps(n, refused, s) ==
    /\ mvCmd = "move" /\ Arriving(n) /\ n > 0
    /\ Home(n, refused) = "start" /\ own["start"] # "me"
    /\ Dump(n, s)
    /\ Deliver(Capped(n, s), s, own[s], Unflagged, Charged)
    /\ Arrived

MoveDestroys(n, refused) ==
    /\ mvCmd = "move" /\ Arriving(n) /\ n > 0
    /\ Home(n, refused) = "start" /\ own["start"] # "me" /\ Dumps = {}
    /\ Deliver(0, "start", own["start"], Unflagged, Charged)
    /\ Arrived

----------------------------------------------------------------------------
(* The end of exploring.                                                   *)

\* all are dead: the sector written without the flag is the one they came to
ExploreLost(n) ==
    /\ mvCmd = "explore" /\ Arriving(n)
    /\ n = 0
    /\ Deliver(0, mvAt, own[mvAt], [flag EXCEPT ![mvAt] = FALSE], Charged)
    /\ Arrived

\* the bridge they stand on is gone; or somebody else was faster, or they do
\* not want to stay, and there is no way back
ExploreStranded(n) ==
    /\ mvCmd = "explore" /\ Arriving(n) /\ n > 0
    /\ mvAt # "start" \/ own["start"] # "me"
    /\ Deliver(0, "start", own["start"], Unflagged, Charged)
    /\ Arrived

\* they go where they came to, and take it when nobody has it; or back
ExploreSettles(n, refused) ==
    /\ mvCmd = "explore" /\ Arriving(n) /\ n > 0
    /\ LET back == own[mvAt] = "foe" \/ (own[mvAt] = "me" /\ refused)
           s == IF back THEN "start" ELSE mvAt
           full == Room(s) = 0
       IN  /\ back => own["start"] = "me"
           /\ IF full
              THEN \* they go back, into a copy of the start sector that then
                   \* gets what the full sector has
                   Deliver(item[s] - item["start"], "start", own["start"], Unflagged, Charged)
              ELSE Deliver(Capped(n, s), s, "me", Unflagged,
                           IF cost = -1 /\ ~back THEN seen.mob ELSE Charged)
    /\ Arrived

MoveNext ==
    \/ \E s \in Sectors : Captured(s) \/ Bombed(s) \/ Filled(s) \/ Step(s)
    \/ MobilityDrawn
    \/ Ask \/ GiveUp \/ \E n \in 1..ItemMax : Take(n)
    \/ \E n \in 0..ItemMax :
        \/ MoveLost(n) \/ ExploreLost(n) \/ ExploreStranded(n)
        \/ \E refused \in {FALSE, mvKind = "people"} :
            \/ MoveDelivers(n, refused) \/ MoveDestroys(n, refused)
            \/ \E s \in {"dest", "side"} : MoveDumps(n, refused, s)
            \/ ExploreSettles(n, refused)

MoveSpec == MoveInit /\ [][MoveNext]_moveVars

----------------------------------------------------------------------------
(* What moving promises.                                                   *)

Total == hand + item["start"] + item["dest"] + item["side"]
Commanded == events' = events

\* A command leaves no more goods behind than it found, whatever became of
\* the sectors in the meantime.
NothingFromNowhere == [][Commanded => Total' <= Total]_moveVars

\* move, that is: exploring into a full sector does not (see above)
MoveCreatesNothing == [][mvCmd = "move" /\ Commanded => Total' <= Total]_moveVars

\* While goods are on the way the sector they come from may be lost to a foe
\* but not to the emptiness they leave; and when a move has ended, on whatever
\* way out, no flag is left behind and no sector is kept that nobody lives in.
StartKeptWhileMoving ==
    /\ mvAt \in Sectors => own["start"] # "none"
    /\ mvCmd = "move" /\ mvAt = "done" =>
           \A s \in Sectors : ~flag[s] /\ (own[s] = "me" => folk[s] \/ item[s] > 0)

\* What moving promises: goods end in one place at most, and both ends of the
\* way are as they should be whatever happened to them meanwhile.
MovesInOrder == MoveCreatesNothing /\ []StartKeptWhileMoving
=============================================================================
