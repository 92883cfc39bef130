------------------------------ MODULE EmpWorld ------------------------------
(***************************************************************************)
(* Small models side by side, for TLC: supply, loans, move and explore,    *)
(* the schedule of updates and shutdowns, cargo lists, path finding, and   *)
(* the lock of the LWP thread package, which all of them are run under.    *)
(* They share no state, so a behavior of one of them while the others rest *)
(* says all there is to say; the initial state decides which one it is.    *)
(***************************************************************************)
EXTENDS EmpSupply, EmpLoans, EmpMove, EmpSchedule, EmpCargo, EmpPaths, LwpRWLock

\* a harbor that is a depot, and a supply ship and a supply unit after it
HarborShipAndUnit ==
    << [kind |-> "depot", carrier |-> "harbor", cost |-> 1],
       [kind |-> "ship",  carrier |-> "harbor", cost |-> 1],
       [kind |-> "land",  carrier |-> "unit",   cost |-> 0] >>

\* every two minutes; single updates and a repeated one with a limit, which
\* meets none of them, and a skip; updates half a minute apart
ThreeFiles ==
    { << <<"every", 4, 99>> >>,
      << <<"at", 5>>, <<"every", 3, 14>>, <<"skip", 8>> >>,
      << <<"at", 4>>, <<"at", 9>>, <<"at", 10>> >> }

\* half of the map is another country's, and costs differ; next time some of
\* it cannot be entered
FirstWorld == [s \in Hexes |-> [own |-> IF s[2] < 3 THEN "x" ELSE "y", mcost |-> 1 + ((s[1] * 3 + s[2]) % 4),
                                sail |-> s[1] % 3 = 0]]
NextWorld  == [s \in Hexes |-> [own |-> IF s[1] < 3 THEN "x" ELSE "y", mcost |-> IF s[1] = s[2] THEN -1 ELSE 5 - (s[1] % 3),
                                sail |-> (s[1] + s[2]) % 6 # 2]]
ChangingWorld == {FirstWorld, NextWorld}
TwoStarts == {<<0, 0>>, <<3, 1>>}
ThreeEnds == {<<0, 2>>, <<4, 2>>, <<5, 3>>}

\* the countries are alike
AnyCountry == Permutations(Countries)

VARIABLE plays    \* which of them it is

worldVars == <<plays, supplyVars, loanVars, moveVars, scheduleVars, cargoVars, pathVars, lwpVars>>

SupplyRests ==
    /\ supAt = Finished /\ supReal = FALSE /\ supWanted = 0 /\ hold = 0
    /\ stock = [p \in Places |-> 0] /\ keep = stock /\ mobil = [c \in Carriers |-> 0]
    /\ supTarget = 0 /\ could = FALSE /\ supplied = FALSE
MoveRests ==
    /\ mvCmd = "move" /\ mvKind = "goods" /\ mvAt = "done" /\ hand = 0 /\ cost = -1
    /\ own = [s \in Sectors |-> "none"] /\ item = [s \in Sectors |-> 0]
    /\ folk = [s \in Sectors |-> FALSE] /\ flag = folk /\ mob = 0
    /\ seen = StartNow /\ events = 0
ScheduleRests ==
    /\ now = 0 /\ file = <<>> /\ sched = <<>> /\ anchor = 0 /\ next = 0
    /\ upd = "asleep" /\ wanted = FALSE /\ disabled = TRUE /\ ran = <<>>
    /\ pending = 0 /\ shut = "none" /\ shutAt = 0 /\ down = FALSE /\ request = 0

CargoRests ==
    /\ unit = [u \in Units |-> Dead([own |-> Nil, at |-> Nil, ship |-> Nil, land |-> Nil, plane |-> Nil])]
    /\ head = [c \in Units |-> [t \in ToSet(Types) |-> Nil]] /\ succ = [u \in Units |-> Nil]
    /\ oops = FALSE /\ cargoOps = 0

PathsRest ==
    /\ pfCost = <<>> /\ pfMap = <<>> /\ pfHeap = <<>> /\ pfVisit = 0
    /\ pfSource = NoHex /\ pfTo = NoHex /\ pfFound = NoHex

WorldInit ==
    /\ plays \in {"supply", "loans", "move", "schedule", "cargo", "paths", "lock"}
    /\ IF plays = "supply" THEN SupplyInit ELSE SupplyRests
    /\ LoansInit
    /\ IF plays = "move" THEN MoveInit ELSE MoveRests
    /\ IF plays = "schedule" THEN ScheduleInit ELSE ScheduleRests
    /\ IF plays = "cargo" THEN CargoInitial ELSE CargoRests
    /\ IF plays = "paths" THEN PathInit ELSE PathsRest
    /\ LwpInit

WorldNext ==
    /\ UNCHANGED plays
    /\ \/ plays = "supply" /\ SupplyNext
           /\ UNCHANGED <<loanVars, moveVars, scheduleVars, cargoVars, pathVars, lwpVars>>
       \/ plays = "loans" /\ LoansNext
           /\ UNCHANGED <<supplyVars, moveVars, scheduleVars, cargoVars, pathVars, lwpVars>>
       \/ plays = "move" /\ MoveNext
           /\ UNCHANGED <<supplyVars, loanVars, scheduleVars, cargoVars, pathVars, lwpVars>>
       \/ plays = "schedule" /\ ScheduleNext
           /\ UNCHANGED <<supplyVars, loanVars, moveVars, cargoVars, pathVars, lwpVars>>
       \/ plays = "cargo" /\ CargoNext
           /\ UNCHANGED <<supplyVars, loanVars, moveVars, scheduleVars, pathVars, lwpVars>>
       \/ plays = "paths" /\ PathNext
           /\ UNCHANGED <<supplyVars, loanVars, moveVars, scheduleVars, cargoVars, lwpVars>>
       \/ plays = "lock" /\ LwpNext
           /\ UNCHANGED <<supplyVars, loanVars, moveVars, scheduleVars, cargoVars, pathVars>>

WorldSpec == WorldInit /\ [][WorldNext]_worldVars
=============================================================================
