----------------------------- MODULE EmpSupply -----------------------------
(***************************************************************************)
(* Supply: how a unit, a ship or a fortress draws food or shells.          *)
(*                                                                         *)
(* s_commod() of lib/subs/supply.c goes through the sector the sink is in, *)
(* the owner's depots (warehouses, headquarters and harbors), his supply   *)
(* ships in harbors and his supply units, and takes what each can spare    *)
(* and carry until the sink has enough.  lnd_could_be_supplied() asks the  *)
(* same function whether supply would do, without doing it.  The model     *)
(* asks first and then draws, as an attack does with its reserves.         *)
(*                                                                         *)
(* Left out: which sources are in range, owned and connected (one that is  *)
(* not is one with nothing to spare).                                      *)
(***************************************************************************)
EXTENDS Integers, Sequences

CONSTANTS Sources,    \* in the order they are asked; each is a record with
                      \*   kind: "depot", "ship" or "land"
                      \*   carrier: whose mobility moves the goods
                      \*   cost: twice what moving one costs
          Carriers,   \* sectors and supply units that have mobility
          Stock,      \* bound: most a place holds of the commodity
          Mobility,   \* bound: most mobility of a carrier
          Want        \* bound: most the sink asks for

ASSUME SupplyAssumption ==
    /\ Sources \in Seq([kind : {"depot", "ship", "land"}, carrier : Carriers, cost : Nat])
    /\ Stock \in Nat /\ Mobility \in Nat /\ Want \in Nat

VARIABLES
    supAt,      \* where s_commod() looks: 0 is the sink's sector, then
                \* the sources; or between the calls
    supReal,    \* actually_doit
    supWanted,  \* what is still wanted
    hold,       \* what the sink has
    stock,      \* what the places have; the sink's sector is place 0
    keep,       \* the least a place must keep: food for its people, shells
                \* to fire once
    mobil,      \* the carriers' mobility
    supTarget,  \* what the sink asked for
    could,      \* the answer of the call that only asks
    supplied    \* the answer of the call that draws

supplyVars == <<supAt, supReal, supWanted, hold, stock, keep, mobil,
                supTarget, could, supplied>>

Places == 0..Len(Sources)
Unasked == -1
Answered == -2
Finished == -3

SupplyInit ==
    /\ supAt = Unasked /\ supReal = FALSE /\ supWanted = 0
    /\ hold \in 0..Want
    /\ stock \in [Places -> 0..Stock]
    /\ keep \in {[p \in Places |-> 0], [p \in Places |-> 1]}
    /\ mobil \in [Carriers -> 0..Mobility]
    /\ supTarget \in 1..Want
    /\ could = FALSE /\ supplied = FALSE

----------------------------------------------------------------------------

\* s_commod() with or without actually_doit; nothing to do when the sink has
\* enough
Call(really) ==
    /\ supReal' = really
    /\ supAt' = IF supTarget <= hold THEN Answered ELSE 0
    /\ supWanted' = supTarget - hold
    /\ IF really THEN /\ supplied' = (supTarget <= hold) /\ UNCHANGED could
                 ELSE /\ could' = (supTarget <= hold) /\ UNCHANGED supplied
    /\ UNCHANGED <<hold, stock, keep, mobil, supTarget>>

CouldBeSupplied == supAt = Unasked /\ Call(FALSE)
DrawSupplies == supAt = Answered /\ ~supReal /\ Call(TRUE)
Supplied ==
    /\ supAt = Answered /\ supReal
    /\ supAt' = Finished
    /\ UNCHANGED <<supReal, supWanted, hold, stock, keep, mobil, supTarget,
                   could, supplied>>

Answer(yes) ==
    /\ supAt' = Answered
    /\ IF supReal THEN supplied' = yes /\ UNCHANGED could
                  ELSE could' = yes /\ UNCHANGED supplied

\* only when actually_doit the changed copies are written
Give(p, n, gets) ==
    IF supReal THEN /\ stock' = [stock EXCEPT ![p] = @ - n]
                    /\ hold' = hold + gets
               ELSE UNCHANGED <<stock, hold>>

GoOn == supAt' = supAt + 1 /\ UNCHANGED <<could, supplied>>

\* the sector the sink is in: what it spares is all taken.  When that is not
\* enough the sector is emptied first and the sink then gets what the sector
\* has above its minimum, which is nothing.
OwnSector ==
    /\ supAt = 0
    /\ LET spare == stock[0] - keep[0]
       IN  \/ /\ spare >= supWanted
              /\ Give(0, supWanted, supWanted)
              /\ Answer(TRUE)
              /\ UNCHANGED supWanted
           \/ /\ spare < supWanted
              /\ supWanted' = supWanted - (IF spare > 0 THEN spare ELSE 0)
              /\ IF spare > 0 THEN Give(0, spare, 0) ELSE UNCHANGED <<stock, hold>>
              /\ GoOn
    /\ UNCHANGED <<supReal, keep, mobil, supTarget>>

\* mutant: what the source must keep is forgotten
SpareAll(p) == stock[p]

Spare(p) == stock[p] - keep[p]

\* what source p can deliver: what it spares and its carrier can move
CanMove(p) ==
    LET s == Sources[p]
        moves == (2 * mobil[s.carrier]) \div s.cost
    IN  IF s.cost = 0 \/ moves > Spare(p) THEN Spare(p) ELSE moves

\* the mobility it costs is rounded up or down at random, and is at most
\* what the carrier has
Charge(p, n) ==
    IF supReal
    THEN \E fee \in {(n * Sources[p].cost) \div 2, (n * Sources[p].cost + 1) \div 2} :
            mobil' = [mobil EXCEPT ![Sources[p].carrier] = IF fee > @ THEN 0 ELSE @ - fee]
    ELSE UNCHANGED mobil

\* a depot or a unit gives the sink what it wants, a ship all it can move
Depot == supAt \in 1..Len(Sources) /\ Sources[supAt].kind \in {"depot", "land"}
Ship  == supAt \in 1..Len(Sources) /\ Sources[supAt].kind = "ship"

NothingToSpare ==
    /\ Depot \/ Ship
    /\ Spare(supAt) <= 0 \/ CanMove(supAt) <= 0
    /\ GoOn
    /\ UNCHANGED <<supReal, supWanted, hold, stock, keep, mobil, supTarget>>

GivesTheRest ==
    /\ Depot \/ Ship
    /\ CanMove(supAt) > 0 /\ CanMove(supAt) >= supWanted
    /\ Give(supAt, supWanted, IF Ship THEN CanMove(supAt) ELSE supWanted)
    /\ Charge(supAt, supWanted)
    /\ Answer(TRUE)
    /\ UNCHANGED <<supReal, supWanted, keep, supTarget>>

GivesSome ==
    /\ Depot \/ Ship
    /\ CanMove(supAt) \in 1..(supWanted - 1)
    /\ Give(supAt, CanMove(supAt), CanMove(supAt))
    /\ Charge(supAt, CanMove(supAt))
    /\ supWanted' = supWanted - CanMove(supAt)
    /\ GoOn
    /\ UNCHANGED <<supReal, keep, supTarget>>

NobodyLeft ==
    /\ supAt = Len(Sources) + 1
    /\ Answer(FALSE)
    /\ UNCHANGED <<supReal, supWanted, hold, stock, keep, mobil, supTarget>>

SupplyNext ==
    \/ CouldBeSupplied \/ DrawSupplies \/ Supplied
    \/ OwnSector \/ NothingToSpare \/ GivesTheRest \/ GivesSome \/ NobodyLeft

SupplySpec == SupplyInit /\ [][SupplyNext]_supplyVars

----------------------------------------------------------------------------
(* What supply promises (info/supply.t).                                   *)

\* No source gives so much that its people starve, or that a supply unit
\* cannot fire once.
SourcesKeepTheirNeeds ==
    [][\A p \in Places : stock'[p] < stock[p] => stock'[p] >= keep[p]]_supplyVars

\* A sink that got its supplies has what it asked for.
SuppliedIsEnough == supAt = Finished /\ supplied => hold >= supTarget

\* A sink that got its supplies has all it asked for, unless its own sector
\* was drawn down to what it must keep (see above); and who asked before was
\* told that it could be supplied: the answer without doing is never more
\* careful than doing it, whichever of the sources fail on the way.  (The
\* other way round does not hold: two sources may share a harbor's mobility.)
SuppliedAsTold ==
    supAt = Finished /\ supplied => could /\ (stock[0] # keep[0] => hold >= supTarget)

\* Both: what a sink is told comes true, and not at the cost of the sources.
SuppliesAsPromised == SourcesKeepTheirNeeds /\ []SuppliedAsTold
=============================================================================
