------------------------------- MODULE EmpGame -------------------------------
(***************************************************************************)
(* The game's data, for TLC: how fairland makes the world, the tables that *)
(* hold it, and what the update does with what is in them.  Each of the    *)
(* three has an abstraction of its own of a sector, so they share no       *)
(* state; the initial state decides which of them runs.                    *)
(***************************************************************************)
EXTENDS EmpFile, EmpUpdateWorlds, EmpFairland

VARIABLE runs

gameVars == <<runs, vars, upVars, fairVars>>

\* Worlds that need a second try, islands nearer than continents, option -i
\* and a single continent
Order(n, size, islands, average, apart, near, again, dist) ==
    [nc |-> n, sc |-> size, ni |-> islands, is |-> average, sp |-> 10,
     di |-> apart, id |-> near, tries |-> again, distinct |-> dist]
SmallOrders == {Order(2, 3, 4, 2, 1, 0, 2, TRUE), Order(2, 2, 2, 2, 0, 0, 1, FALSE),
                Order(2, 4, 2, 2, 1, 0, 1, TRUE), Order(1, 3, 2, 2, 1, 1, 1, TRUE)}

FileRests == Init /\ running = CHOOSE t \in Threads : TRUE

\* before the first update, in one of the worlds
UpdateRests == UpdateInit /\ sect = (CHOOSE w \in Worlds : TRUE).sect

FairRests == FairInit /\ order = CHOOSE o \in Orders : TRUE

GameInit ==
    /\ runs \in {"tables", "update", "fairland"}
    /\ IF runs = "tables" THEN Init ELSE FileRests
    /\ IF runs = "update" THEN UpdateInit ELSE UpdateRests
    /\ IF runs = "fairland" THEN FairInit ELSE FairRests

GameNext ==
    /\ UNCHANGED runs
    /\ \/ runs = "tables" /\ Next /\ UNCHANGED <<upVars, fairVars>>
       \/ runs = "update" /\ UpdateNext /\ UNCHANGED <<vars, fairVars>>
       \/ runs = "fairland" /\ FairNext /\ UNCHANGED <<vars, upVars>>

GameSpec == GameInit /\ [][GameNext]_gameVars
=============================================================================
