----------------------------- MODULE EmpUprising -----------------------------
(***************************************************************************)
(* Guerrillas in a sector at the update: guards raid them; if their target *)
(* is gone they retire; else they subvert, shoot it out with fewer         *)
(* soldiers, blow things up, or leave; the sector may go over to them;     *)
(* they recruit; they move to a neighbor that looks better.                *)
(*                                                                         *)
(* guerrilla() keeps copies of the sector's civilians, workers, military   *)
(* and guerrillas, and writes them back here and there; the record g is    *)
(* its local variables.  Countries are equally happy.                      *)
(***************************************************************************)
EXTENDS EmpUpdateSectors, Functions

CONSTANTS Size       \* the sectors are 1..Size, in a row
    , FullMil        \* military of a land unit at full strength
ASSUME SizeAssumption == Size \in Nat \ {0} /\ FullMil \in Nat \ {0}

MinEff == 10         \* LAND_MINEFF, SHIP_MINEFF, PLANE_MINEFF

\* land units that count: on the ground, the sector owner's
Garrison(g) ==
    {u \in DOMAIN g.unit : /\ g.unit[u].kind = "land" /\ g.unit[u].at = g.n
                           /\ g.unit[u].own # 0 /\ g.unit[u].own = g.sect[g.n].own
                           /\ g.unit[u].ship = "none"}
Troops(g, us) == MapThenSumSet(LAMBDA u : g.unit[u].item.mil, us)
Cur(g) == g.sect[g.n]

Muster(sect, unit, n) ==
    LET g == [sect |-> sect, unit |-> unit, n |-> n, victim |-> sect[n].own,
              target |-> sect[n].tgt, che |-> sect[n].che, mil |-> sect[n].item.mil,
              civ |-> sect[n].item.civ, uw |-> sect[n].item.uw, bonus |-> 0,
              fought |-> FALSE, recruit |-> FALSE, convert |-> FALSE, move |-> FALSE,
              oops |-> FALSE]
    IN  [g EXCEPT !.mil = @ + Troops(g, Garrison(g))]

\* security troops kill up to a fifth of their number (a tenth of a percent of
\* efficiency counts)
Raid(g) ==
    LET guards == IF Cur(g).tgt # Cur(g).own THEN {}
                  ELSE {u \in Garrison(g) : g.unit[u].security}
        strength(u) == (g.unit[u].item.mil * g.unit[u].eff) \div 500
        kills(up) == MapThenSumSet(LAMBDA u : IF up THEN strength(u) ELSE Cap(1, strength(u)), guards)
    IN  {[g EXCEPT !.che = Floor0(@ - kills(up)),
                   !.bonus = MapThenSumSet(LAMBDA u :
                       (3 * g.unit[u].item.mil * g.unit[u].eff) \div 100, guards)] :
            up \in BOOLEAN}

\* mutant: units that should be spared may die
FromUnitsToDeath(r, us, each) ==
    FoldSet(LAMBDA u, acc :
        LET lu == acc.g.unit[u]
            dead == Min({lu.item.mil, acc.want}
                        \cup IF each >= 0 THEN {each} ELSE {})
            hurt == [lu EXCEPT !.eff = @ - (dead * 100) \div FullMil,
                               !.mob = @ - (dead * 50) \div FullMil, !.item.mil = @ - dead]
        IN  IF dead <= 0 THEN acc
            ELSE IF hurt.eff < MinEff
            THEN [acc EXCEPT !.g.unit[u] = [hurt EXCEPT !.own = 0, !.eff = 0, !.item.mil = 0],
                             !.g.oops = @ \/ each >= 0,
                             !.want = @ - dead - hurt.item.mil]
            ELSE [acc EXCEPT !.g.unit[u] = hurt, !.want = @ - dead], r, us)

\* one pass over some units: spare them (each >= 0) or not
FromUnits(r, us, each) ==
    FoldSet(LAMBDA u, acc :
        LET lu == acc.g.unit[u]
            dead == Min({lu.item.mil, acc.want}
                        \cup IF each >= 0 THEN {each, ((lu.eff - 40) * FullMil) \div 100} ELSE {})
            hurt == [lu EXCEPT !.eff = @ - (dead * 100) \div FullMil,
                               !.mob = @ - (dead * 50) \div FullMil, !.item.mil = @ - dead]
        IN  IF dead <= 0 THEN acc
            ELSE IF hurt.eff < MinEff
            THEN [acc EXCEPT !.g.unit[u] = [hurt EXCEPT !.own = 0, !.eff = 0, !.item.mil = 0],
                             !.g.oops = @ \/ each >= 0,
                             !.want = @ - dead - hurt.item.mil]
            ELSE [acc EXCEPT !.g.unit[u] = hurt, !.want = @ - dead], r, us)

\* casualties come out of the sector first; then evenly out of the units,
\* guards before others, and none killed; then units die, others before guards
TakeCasualties(g, mc) ==
    LET here   == Cur(g).item.mil
        bare   == [g EXCEPT !.sect[g.n].item.mil = Floor0(@ - mc)]
        us     == {u \in Garrison(g) : g.unit[u].item.mil > 0}
        guards == {u \in us : g.unit[u].security}
        each   == ((mc - here) \div Cardinality(us)) + 2
        pass1  == FromUnits([g |-> bare, want |-> mc - here], guards, each)
        pass2  == FromUnits(pass1, us \ guards, each)
        pass3  == FromUnits(pass2, us \ guards, -1)
        pass4  == FromUnits(pass3, guards, -1)
    IN  IF mc <= here THEN [g |-> bare, taken |-> mc]
        ELSE IF us = {} THEN [g |-> [bare EXCEPT !.oops = TRUE], taken |-> here]
        ELSE [g |-> [pass4.g EXCEPT !.oops = @ \/ pass4.want > 0], taken |-> mc - pass4.want]

\* a fight of che against n soldiers to the end of one side
Fight(g, n) ==
    LET lose(mc, cc) == LET t == TakeCasualties(g, mc)
                        IN  [t.g EXCEPT !.che = @ - cc, !.mil = @ - t.taken, !.fought = TRUE]
    IN  {lose(n, cc) : cc \in Roll0(g.che)} \cup {lose(mc, g.che) : mc \in Roll0(n)}

\* sect_damage(): a few percent of what is there
Disrupt(g, n) ==
    LET dam == n \div 10
        pct == (100 * dam) \div (100 + dam)
        s == Cur(g)
        hurt(x, p, up) == x - (x * p + up * 99) \div 100
    IN  {IF dam = 0 THEN [g EXCEPT !.sect[g.n].work = Floor0(@ - n)]
         ELSE [g EXCEPT !.sect[g.n] =
                 [s EXCEPT !.work = Floor0(@ - n), !.eff = hurt(@, dam, up),
                           !.avail = hurt(@, dam, up), !.mob = IF @ > 0 THEN hurt(@, dam, up) ELSE @,
                           !.item = [i \in Items |-> hurt(s.item[i], pct, up)]]] :
            up \in {0, 1}}

\* subvert, shoot it out with fewer soldiers, blow things up, or leave
Act(g) ==
    LET ratio(n) == g.mil + g.bonus >= n * g.che IN
    IF g.mil = 0 THEN {[g EXCEPT !.recruit = TRUE, !.convert = TRUE]}
    ELSE IF g.che > g.mil
    THEN UNION {IF f.che > 0 \/ f.mil <= 0
                THEN {[f EXCEPT !.recruit = TRUE, !.convert = TRUE]}
                ELSE {[f EXCEPT !.sect[g.n].loyal = Floor0(@ - r)] : r \in Roll0(15)} :
                f \in Fight(g, g.mil)}
    ELSE IF ~ratio(5)
    THEN UNION {{[d EXCEPT !.recruit = TRUE] : d \in Disrupt(g, Cap(a + b, 100))} :
                a \in Roll0(10), b \in Roll0(g.che)}
    ELSE {[g EXCEPT !.move = TRUE]}

\* soldiers may catch them; a fifth of the soldiers fight
Caught(g) ==
    IF g.mil <= 0 \/ g.che <= 0 THEN {g}
    ELSE (IF g.mil + g.bonus >= 10 * g.che THEN {} ELSE {g})
         \cup {[f EXCEPT !.recruit = FALSE] : f \in Fight(g, g.mil \div 5 + 1)}

\* the sector goes over to its old owner, or to nobody; takeover() wipes its
\* orders and work and captures or blows up the units of the old owner
Convert(g) ==
    LET s == Cur(g)
        to == IF s.own = s.oldown THEN 0 ELSE s.oldown
        folk == g.civ + g.uw
        mil == folk \div 20
        lost == {u \in DOMAIN g.unit : g.unit[u].at = g.n /\ g.unit[u].own = s.own
                                       /\ g.unit[u].kind # "ship" /\ g.unit[u].ship = "none"}
        taken(u) == IF u.eff - 30 < MinEff THEN [u EXCEPT !.own = 0, !.eff = 0]
                    ELSE [u EXCEPT !.own = to, !.eff = @ - 30]
    IN  IF ~g.convert \/ s.loyal < 50 THEN {g}
        ELSE {[g EXCEPT !.sect[g.n] =
                  [s EXCEPT !.own = to, !.oldown = to, !.off = (s.own # 0), !.avail = 0,
                            !.del = None, !.dist = None, !.distTo = g.n, !.loyal = 0,
                            !.item.civ = Cap(folk - mil, ITEM_MAX), !.item.mil = mil,
                            !.item.uw = Floor0(folk - mil - ITEM_MAX)],
                !.unit = [u \in DOMAIN g.unit |->
                             IF u \notin lost THEN g.unit[u]
                             ELSE IF spared THEN taken(g.unit[u])
                             ELSE [g.unit[u] EXCEPT !.own = 0, !.eff = 0]],
                !.move = TRUE, !.recruit = FALSE] : spared \in BOOLEAN}

\* loyalty drops while they recruit; disloyal civilians and workers join.  What
\* is written back is what was there before the damage
Recruit(g) ==
    LET s == Cur(g)
        gained(l) == IF l < 30 THEN Roll(5)
                     ELSE IF l < 70 THEN {r + 3 : r \in Roll(10)} ELSE {0}
        join(n, che) == IF n + che > CHE_MAX THEN CHE_MAX - che ELSE n
    IN  IF ~g.recruit \/ g.che <= 0 THEN {g}
        ELSE {LET loyal == Cap(s.loyal + l, 127)
                  open == s.oldown # s.own \/ loyal > 100
                  c == IF open THEN join((g.civ * r) \div 200, g.che) ELSE 0
                  u == join((g.uw * q) \div 200, g.che + c)
              IN  [g EXCEPT !.che = @ + c + u,
                            !.sect[g.n] = [s EXCEPT !.loyal = loyal, !.item.uw = g.uw - u,
                                                    !.item.civ = IF open THEN g.civ - c ELSE @]] :
                 l \in gained(s.loyal), r \in Roll0(3), q \in Roll0(3)}

\* move to the neighbor with the fewest soldiers, roughly counted
Flee(g) ==
    LET fewest == IF g.convert THEN 999 ELSE g.mil
        about(m, r) == ((m + 5) \div 10) * 10 + r - 6
        nice == {m \in {g.n - 1, g.n + 1} \cap 1..Size :
                   LET s == g.sect[m] IN
                   /\ SectorTypes[s.type].pass /\ s.own = g.target
                   /\ s.che > 0 => s.tgt = g.target /\ s.che + g.che <= CHE_MAX
                   /\ about(s.item.mil, 1) < fewest}
        sure == {m \in nice : about(g.sect[m].item.mil, 10) < fewest}
    IN  IF ~g.move \/ g.che <= 0 THEN {g}
        ELSE {[g EXCEPT !.sect[m].che = @ + g.che, !.sect[m].tgt = g.target, !.che = 0] : m \in nice}
             \cup (IF sure = {} THEN {g} ELSE {})

Settle(g) ==
    [sect |-> [g.sect EXCEPT ![g.n].che = Floor0(g.che), ![g.n].tgt = IF g.che > 0 THEN g.target ELSE 0],
     unit |-> g.unit, oops |-> g.oops]

Guerrilla(sect, unit, n, gone) ==
    LET g == Muster(sect, unit, n)
        rising(r) == UNION {UNION {UNION {Recruit(v) : v \in Convert(c)} : c \in Caught(a)} : a \in Act(r)}
        acts(r) ==
            IF r.che = 0 THEN {Settle(r)}
            ELSE IF r.target \in gone
            THEN {Settle([r EXCEPT !.che = 0, !.sect[n].item.civ = Cap(g.civ + r.che, ITEM_MAX)])}
            ELSE IF Cur(r).own # r.target
            THEN {Settle(f) : f \in Flee([r EXCEPT !.move = TRUE])}
            ELSE {Settle(f) : f \in UNION {Flee(w) : w \in rising(r)}}
    IN  IF g.che = 0 THEN {[sect |-> sect, unit |-> unit, oops |-> FALSE]}
        ELSE UNION {acts(r) : r \in Raid(g)}
==============================================================================
