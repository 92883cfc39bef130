------------------------------ MODULE EmpCargo ------------------------------
(***************************************************************************)
(* Who carries what (lib/common/cargo.c, the prewrite callbacks of ships,  *)
(* planes, land units and nukes, lib/subs/unitsub.c).                      *)
(*                                                                         *)
(* A unit names its carrier in the file.  Beside the files the server      *)
(* keeps lists: a carrier has the first unit of each type it carries, and  *)
(* a unit the next one on its carrier.  Writing a unit moves it from list  *)
(* to list and, when a carrier moves or dies, writes what is aboard, which *)
(* moves or kills what is aboard that.  A list is walked while its units   *)
(* are written.                                                            *)
(*                                                                         *)
(* Left out: efficiency, except dead or alive; what a unit can carry       *)
(* beside its type and number; the growth of the tables.                   *)
(***************************************************************************)
EXTENDS Integers, Sequences, SequencesExt, FiniteSets

CONSTANTS Ships, Lands, Planes, Nukes,  \* sets of units
          Trains,      \* the land units that carry others
          Owners,      \* countries
          Spots,       \* sectors
          CargoRoom,        \* most units of a type a carrier takes
          CheRoom,     \* most units of a type on one that guerrillas kill
          MaxCargoOps  \* bound: commands and updates

ASSUME CargoAssumption == Trains \subseteq Lands /\ CargoRoom \in Nat /\ CheRoom \in Nat

Units == Ships \cup Lands \cup Planes \cup Nukes
Nil   == "none"      \* the UID -1, and country 0
Types == <<Planes, Lands, Nukes>>    \* EF_PLANE to EF_NUKE, in this order

VARIABLES
    unit,       \* the files: [own, at, ship, land, plane], the last three carriers
    head,       \* clink[].head
    succ,       \* clink[].next
    oops,       \* an assertion has failed
    cargoOps

cargoVars == <<unit, head, succ, oops, cargoOps>>

----------------------------------------------------------------------------
(* The lists.  w is all there is: [unit, head, succ, oops].                *)

TypeOf(u)    == CHOOSE t \in ToSet(Types) : u \in t
Bearers(r)   == {r.ship, r.land, r.plane} \ {Nil}
Oops(w)      == [w EXCEPT !.oops = TRUE]

\* the list of the units of type t on c
Chain(w, c, t) ==
    SelectSeq(FoldLeft(LAMBDA list, n : IF Last(list) = Nil THEN list ELSE Append(list, w.succ[Last(list)]),
                       <<w.head[c][t]>>, [n \in 1..Cardinality(Units) |-> n]),
              LAMBDA u : u # Nil)

\* clink_add()
Link(w, c, u) ==
    [w EXCEPT !.succ[u] = w.head[c][TypeOf(u)], !.head[c][TypeOf(u)] = u,
              !.oops = @ \/ w.succ[u] # Nil]

\* clink_rem()
Unlink(w, c, u) ==
    IF u \notin ToSet(Chain(w, c, TypeOf(u))) THEN Oops(w)
    ELSE IF w.head[c][TypeOf(u)] = u
    THEN [w EXCEPT !.head[c][TypeOf(u)] = w.succ[u], !.succ[u] = Nil]
    ELSE [w EXCEPT !.succ[CHOOSE p \in TypeOf(u) : w.succ[p] = u] = w.succ[u], !.succ[u] = Nil]

\* unit_carrier_change()
CarrierChange(w, u, old, new) ==
    LET v == IF old # Nil THEN Unlink(w, old, u) ELSE w
    IN  IF new = Nil THEN v ELSE Link(v, new, u)

----------------------------------------------------------------------------
(* Writing a unit.                                                         *)

Dead(r) == [r EXCEPT !.own = Nil, !.ship = Nil, !.land = Nil, !.plane = Nil]

RECURSIVE PutUnit(_, _, _), UpdateCargo(_, _, _), UpdateOnes(_, _, _)

\* a unit goes from the lists it was on to those it is on now
Relinked(w, u, old, r) ==
    FoldLeft(LAMBDA v, f : IF old[f] # r[f] THEN CarrierChange(v, u, old[f], r[f]) ELSE v,
             w, <<"ship", "land", "plane">>)

\* a unit is built in a slot that something is still aboard of
StaleCargo(w, u, old, r) ==
    old.own = Nil /\ r.own # Nil /\ \E t \in ToSet(Types) : w.head[u][t] # Nil

StaleDies(w, u, old, r) ==
    IF StaleCargo(w, u, old, r) THEN UpdateCargo(Oops(w), u, old) ELSE w

Follows(w, u, old, r) ==
    IF r.own = Nil \/ r.at # old.at THEN UpdateCargo(w, u, r) ELSE w

\* shp_prewrite(), pln_prewrite(), lnd_prewrite(), nuk_prewrite(), then the file
PutUnit(w, u, new) ==
    LET r   == IF new.own = Nil THEN Dead(new) ELSE new
        old == w.unit[u]
    IN  [Follows(StaleDies(Relinked(w, u, old, r), u, old, r), u, old, r) EXCEPT !.unit[u] = r]

\* the one to go on with when i is written: w before it, v after it
NextOneLate(w, v, i) == v.succ[i]   \* bug: looked up when i is off the list
NextOne(w, v, i) == w.succ[i]

\* unit_update_cargo()
UpdateOnes(w, i, r) ==
    IF i = Nil THEN w
    ELSE LET v == PutUnit(w, i, [w.unit[i] EXCEPT !.at = IF r.own # Nil THEN r.at ELSE @,
                                                  !.own = IF r.own # Nil THEN @ ELSE Nil])
         IN  UpdateOnes(v, NextOne(w, v, i), r)

UpdateCargo(w, c, r) ==
    FoldLeft(LAMBDA v, t : UpdateOnes(v, v.head[c][t], r), w, Types)

----------------------------------------------------------------------------
(* Commands.                                                               *)

World == [unit |-> unit, head |-> head, succ |-> succ, oops |-> oops]
Becomes(w) ==
    /\ unit' = w.unit /\ head' = w.head /\ succ' = w.succ /\ oops' = w.oops
    /\ cargoOps < MaxCargoOps /\ cargoOps' = cargoOps + 1

Alive(u) == unit[u].own # Nil
Unloaded(u) == Alive(u) /\ Bearers(unit[u]) = {}

On(r, c) ==
    IF c \in Ships THEN [r EXCEPT !.ship = c]
    ELSE IF c \in Lands THEN [r EXCEPT !.land = c] ELSE [r EXCEPT !.plane = c]

\* build_ship(), build_land(), build_plane(), build_nuke(): in the slot of a dead one
Build(u, o, s) ==
    /\ ~Alive(u)
    /\ Becomes(PutUnit(World, u,
           [own |-> o, at |-> s, ship |-> Nil, land |-> Nil, plane |-> Nil]))

RECURSIVE GiveAway(_, _, _, _), GiveOnes(_, _, _)

\* unit_give_away() of a unit whose copy is r
GiveAway(w, u, r, o) ==
    IF r.own = o THEN w
    ELSE LET v == PutUnit(w, u, [r EXCEPT !.own = o])
         IN  FoldLeft(LAMBDA x, t : GiveOnes(x, x.head[u][t], o), v, Types)
GiveOnes(w, i, o) ==
    IF i = Nil THEN w ELSE GiveOnes(GiveAway(w, i, w.unit[i], o), w.succ[i], o)

Count(c, u) == Len(Chain(World, c, TypeOf(u)))

\* what is put on somebody else's carrier is his
Aboard(u, c, most) ==
    /\ Unloaded(u) /\ Alive(c)
    /\ unit[u].at = unit[c].at /\ Count(c, u) < most
    /\ LET r == On([unit[u] EXCEPT !.own = unit[c].own], c)
       IN  Becomes(PutUnit(GiveAway(World, u, [r EXCEPT !.own = unit[u].own], r.own), u, r))

LoadPlaneShip(u, c) == u \in Planes /\ c \in Ships /\ Aboard(u, c, CargoRoom)
LoadPlaneLand(u, c) == u \in Planes /\ c \in Trains /\ Aboard(u, c, CargoRoom)

\* the land units that carry others are too heavy to be loaded
LoadLandShip(u, c) == u \in Lands \ Trains /\ c \in Ships /\ Aboard(u, c, CargoRoom)
LoadLandLand(u, c) == u \in Lands \ Trains /\ c \in Trains /\ Aboard(u, c, CargoRoom)

Arm(u, c) == u \in Nukes /\ c \in Planes /\ Aboard(u, c, 1)

\* o has the sector
Off(u, o) ==
    /\ Alive(u) /\ Bearers(unit[u]) # {}
    /\ LET r == [unit[u] EXCEPT !.ship = Nil, !.land = Nil, !.plane = Nil]
       IN  Becomes(PutUnit(GiveAway(World, u, r, o), u, [r EXCEPT !.own = o]))

Unload(u, o) == u \in Planes \cup Lands /\ Off(u, o)
Disarm(u, o) == u \in Nukes /\ Off(u, o)

\* a carrier goes to another sector, with what is aboard
Move(u, s) ==
    /\ Unloaded(u) /\ unit[u].at # s
    /\ Becomes(PutUnit(World, u, [unit[u] EXCEPT !.at = s]))

\* a unit is destroyed, aboard or not
Destroy(u) == Alive(u) /\ Becomes(PutUnit(World, u, [unit[u] EXCEPT !.own = Nil]))

RECURSIVE DropOnes(_, _, _)

\* unit_drop_cargo(): o, if any, gets what is dropped.  unit_give_away() writes
\* the copy that is no longer aboard, which is written again.
DropOnes(w, i, o) ==
    IF i = Nil THEN w
    ELSE LET r == [w.unit[i] EXCEPT !.ship = Nil, !.land = Nil, !.plane = Nil]
             v == IF o # Nil THEN GiveAway(w, i, r, o) ELSE w
         IN  DropOnes(PutUnit(v, i, [r EXCEPT !.own = IF o # Nil THEN o ELSE @]), w.succ[i], o)
DropCargo(w, u, o) == FoldLeft(LAMBDA v, t : DropOnes(v, v.head[u][t], o), w, Types)

\* c_scuttle() in the owner's sector, c_scrap() also in a friend's; scuttling
\* elsewhere drops nothing
Scuttle(u, o) ==
    /\ Alive(u) /\ (u \in Lands => unit[u].ship = Nil)
    /\ Becomes(PutUnit(DropCargo(World, u, o), u, [unit[u] EXCEPT !.own = Nil]))

\* check_trade() delivers what was bought: a ship as it is, a plane or a nuke
\* without what carries it, a land unit without its cargo too
Trade(u, o, s) ==
    /\ Alive(u) /\ unit[u].own # o
    /\ LET off == [unit[u] EXCEPT !.at = s, !.ship = Nil, !.land = Nil, !.plane = Nil]
           w   == IF u \in Lands THEN DropCargo(World, u, Nil) ELSE World
           r   == IF u \in Ships THEN unit[u] ELSE off
       IN  Becomes(PutUnit(GiveAway(w, u, r, o), u, [r EXCEPT !.own = o]))

RECURSIVE TakeOver(_, _, _, _), TakeOnes(_, _, _)

\* takeover_unit()
TakeOver(w, u, r, o) ==
    LET v == PutUnit(w, u, [r EXCEPT !.own = o])
    IN  FoldLeft(LAMBDA x, t : TakeOnes(x, x.head[u][t], o), v, Types)
TakeOnes(w, i, o) ==
    IF i = Nil THEN w
    ELSE TakeOnes(IF w.unit[i].own = o THEN w ELSE TakeOver(w, i, w.unit[i], o), w.succ[i], o)

\* takeover_ship(), takeover_land(), takeover_plane(): the crew may blow it up
Capture(u, o) ==
    /\ u \notin Nukes /\ Unloaded(u) /\ unit[u].own # o
    /\ \/ Becomes(TakeOver(World, u, unit[u], o))
       \/ u \notin Ships /\ Becomes(PutUnit(World, u, [unit[u] EXCEPT !.own = Nil]))

----------------------------------------------------------------------------
(* The update writes the files in memory, and keeps the lists itself.      *)

RECURSIVE LandOnes(_, _), PlaneOnes(_, _)

\* lnd_dies_fighting_che(): here the next one is looked up after the list
\* has changed
LandOnes(w, i) ==
    IF i = Nil THEN w
    ELSE LET v == CarrierChange(w, i, w.unit[i].land, Nil)
         IN  LandOnes([v EXCEPT !.unit[i].land = Nil], v.succ[i])

NukeDies(w, p) ==
    LET n == w.head[p][Nukes]
    IN  IF n = Nil THEN w
        ELSE LET v == CarrierChange(w, n, w.unit[n].plane, Nil)
             IN  [v EXCEPT !.unit[n].own = Nil, !.unit[n].plane = Nil]

PlaneOnes(w, i) ==
    IF i = Nil THEN w
    ELSE LET v == CarrierChange(w, i, w.unit[i].land, Nil)
             x == NukeDies([v EXCEPT !.unit[i].own = Nil, !.unit[i].land = Nil], i)
         IN  PlaneOnes(x, x.succ[i])

DiesFightingChe(w, u) ==
    LET a == [w EXCEPT !.unit[u].own = Nil]
        b == IF w.unit[u].land # Nil
             THEN [CarrierChange(a, u, w.unit[u].land, Nil) EXCEPT !.unit[u].land = Nil]
             ELSE a
        c == LandOnes(b, b.head[u][Lands])
    IN  PlaneOnes(c, c.head[u][Planes])

\* unit_cargo_init(), by the units' numbers: at the end of an update, and
\* when the server starts
CargoInit(w, order) ==
    LET none == [w EXCEPT !.head = [c \in Units |-> [t \in ToSet(Types) |-> Nil]],
                          !.succ = [u \in Units |-> Nil]]
        Enter(v, u) ==
            LET r == v.unit[u]
            IN  IF r.own = Nil
                THEN IF Bearers(r) # {} THEN Oops([v EXCEPT !.unit[u] = Dead(r)]) ELSE v
                ELSE CarrierChange(CarrierChange(CarrierChange(v, u, Nil, r.ship),
                         u, Nil, r.land), u, Nil, r.plane)
    IN  FoldLeft(Enter, none, order)

InOrder == SetToSeq(Planes) \o SetToSeq(Lands) \o SetToSeq(Nukes)

\* an update in which guerrillas kill the land units us, none of them on a ship
Update(us) ==
    /\ \A u \in ToSet(us) : Alive(u) /\ unit[u].ship = Nil
           /\ \A t \in ToSet(Types) : Len(Chain(World, u, t)) <= CheRoom
    /\ Becomes(CargoInit(FoldLeft(DiesFightingChe, World, us), InOrder))

CargoInitial ==
    /\ unit = [u \in Units |-> [own |-> CHOOSE o \in Owners : TRUE, at |-> CHOOSE s \in Spots : TRUE,
                                ship |-> Nil, land |-> Nil, plane |-> Nil]]
    /\ head = [c \in Units |-> [t \in ToSet(Types) |-> Nil]]
    /\ succ = [u \in Units |-> Nil]
    /\ oops = FALSE /\ cargoOps = 0

CargoNext ==
    \/ \E u \in Units, o \in Owners, s \in Spots : Build(u, o, s) \/ Trade(u, o, s)
    \/ \E u, c \in Units : \/ LoadPlaneShip(u, c) \/ LoadPlaneLand(u, c)
                          \/ LoadLandShip(u, c) \/ LoadLandLand(u, c) \/ Arm(u, c)
    \/ \E u \in Units, o \in Owners : Unload(u, o) \/ Disarm(u, o) \/ Capture(u, o)
    \/ \E u \in Units, s \in Spots : Move(u, s)
    \/ \E u \in Units : Destroy(u)
    \/ \E u \in Units \ Nukes, o \in Owners : Scuttle(u, o)
    \/ \E us \in {s \in BoundedSeq(Lands, 2) : IsInjective(s)} : Update(us)

----------------------------------------------------------------------------
(* What is wanted.                                                         *)

Field(r, c) == IF c \in Ships THEN r.ship ELSE IF c \in Lands THEN r.land ELSE r.plane

\* No assertion of the lists fails, no unit is twice on a list, and a list
\* has just those that say they are on its carrier: the lists and the files
\* agree after every command, however deep what is aboard is aboard.
ListsInOrder ==
    cargoOps > 0 =>
        /\ ~oops
        /\ \A c \in Units, t \in ToSet(Types) :
              LET list == Chain(World, c, t)
              IN  IsInjective(list) /\ ToSet(list) = {u \in t : Field(unit[u], c) = c}

\* ... and what is aboard is aboard one carrier, which is there, in the same sector,
\* and belongs to the same country, after moving, trading, giving, capturing
\* and sinking carriers of carriers.
AboardTogether ==
    cargoOps > 0 =>
        \A u \in Units : \A c \in Bearers(unit[u]) :
            /\ Bearers(unit[u]) = {c} /\ Alive(u) /\ Alive(c)
            /\ unit[u].at = unit[c].at /\ unit[u].own = unit[c].own
CargoInOrder == ListsInOrder /\ AboardTogether

\* The assertions of the lists hold: a slot that a new unit is built in has
\* nothing aboard (shp_prewrite(), pln_prewrite(), lnd_prewrite()).
SlotsAreEmpty == ~oops

CargoSpec == CargoInitial /\ [][CargoNext]_cargoVars
=============================================================================
