--------------------------- MODULE EmpUpdateSectors ---------------------------
(***************************************************************************)
(* What an update does to one sector: it taxes, feeds and multiplies the   *)
(* people, lets plague and fallout at them, builds the sector up and lets  *)
(* it produce.  Each function of the code is an operator that gives the    *)
(* set of its outcomes: roundavg() rounds up or down as it pleases, a roll *)
(* is its lowest or its highest.                                           *)
(*                                                                         *)
(* The rates are the defaults for an update of 60 ETUs, money is counted   *)
(* in thousandths of a dollar.                                             *)
(***************************************************************************)
EXTENDS Integers, Sequences, FiniteSets, FiniteSetsExt, SequencesExt

Etus == 60
ITEM_MAX == 9999
CHE_MAX == 255
RolloverMax == 50

Cap(n, hi) == IF n < hi THEN n ELSE hi
Floor0(n) == IF n < 0 THEN 0 ELSE n

\* the outcomes of roundavg(num / den), and of the dice
Round(num, den) == {num \div den, (num + den - 1) \div den}
Roll(n) == {1, n}
Roll0(n) == {0, n - 1}

\* in the order of the item loops
ItemOrder == <<"civ", "mil", "iron", "dust", "bar", "food", "oil", "lcm", "uw">>
Items == ToSet(ItemOrder)
Folk == {"civ", "mil", "uw"}
Stored(few) == [i \in Items |-> IF i \in DOMAIN few THEN few[i] ELSE 0]

\* the types of sectors: product, cost and work to build 100 %, materials for
\* it, upkeep, population, whether people and goods pass
None == [i \in {} |-> 0]
SectorTypes ==
    LET Land == [prd |-> "none", work |-> 100, mat |-> None, cost |-> 100,
                 maint |-> 0, pop |-> 1000, pass |-> TRUE]
    IN  [water  |-> [Land EXCEPT !.pop = 0, !.pass = FALSE],
         sanct  |-> [Land EXCEPT !.pass = FALSE],
         wilder |-> [Land EXCEPT !.cost = 0],
         capital |-> [Land EXCEPT !.maint = 1],
         mine   |-> [Land EXCEPT !.prd = "iron"],
         oilfield |-> [Land EXCEPT !.prd = "oil"],
         factory |-> [Land EXCEPT !.prd = "lcm"],
         bank   |-> [Land EXCEPT !.prd = "bar"],
         harbor |-> Land, airport |-> Land, enlist |-> Land,
         fort   |-> [Land EXCEPT !.cost = 500, !.mat = [lcm |-> 100]]]
\* a product: materials and work for one, its cost, its depletion of the ground
Products ==
    [iron |-> [mat |-> None, work |-> 1, cost |-> 0, dep |-> 0, ground |-> TRUE],
     oil  |-> [mat |-> None, work |-> 1, cost |-> 0, dep |-> 10, ground |-> TRUE],
     bar  |-> [mat |-> [dust |-> 5], work |-> 5, cost |-> 10000, dep |-> 0, ground |-> FALSE],
     lcm  |-> [mat |-> [iron |-> 1], work |-> 1, cost |-> 0, dep |-> 0, ground |-> FALSE]]

People(item) == item.civ + item.mil + item.uw

(***************************************************************************)
(* Food: three hundredths for each                                         *)
(***************************************************************************)
FamineVictims(item) ==
    LET p == People(item) IN
    IF 3 * p <= 100 * item.food THEN 0
    ELSE IF 100 * item.food <= 3 * (p \div 2) THEN p \div 2
    ELSE (3 * p - 100 * item.food) \div 3

\* workers starve first, then civilians, then the military; the rest eats
FeedPeople(item) ==
    LET victims == FamineVictims(item)
        uw  == Cap(victims, item.uw)
        civ == Cap(victims - uw, item.civ)
        mil == Cap(victims - uw - civ, item.mil)
        left == [item EXCEPT !.uw = @ - uw, !.civ = @ - civ, !.mil = @ - mil]
    IN  {[item |-> [left EXCEPT !.food = Floor0(@ - r)], starved |-> uw + civ + mil] :
            r \in Round(3 * People(left), 100)}

Babies(adults, num, den, food, most) ==
    IF adults >= most THEN {0}
    ELSE {Cap(Cap(b, (food * 1000) \div 12), most - adults) : b \in Round(num * adults, den)}

GrowPeople(item, most) ==
    UNION {{[item EXCEPT !.civ = @ + c, !.uw = @ + u,
                         !.food = IF c + u = 0 THEN @ ELSE @ - r] :
                r \in Round(6 * (c + u), 1000)} :
           c \in Babies(item.civ, 3, 10, item.food, most),
           u \in Babies(item.uw, 15, 100, item.food, most)}

TotalWork(work, item, most) ==
    Round(Cap(item.civ, most) * work * 60 + Cap(item.mil, most) * 2400
              + Cap(item.uw, most) * 6000, 10000)

\* work left from the last update is kept, up to a limit
NewWork(s, delta) ==
    delta + IF s.type # s.new THEN 0
            ELSE Cap(Cap(s.avail, RolloverMax), delta \div 2 + 1)

\* emergency rations cost twice the work
Rations(s, work) ==
    Cap(Cap((work * 13) \div 10000, (72 * s.fert) \div 1000), ITEM_MAX - s.item.food)

TruncPeople(s) ==
    LET most == SectorTypes[s.type].pop
    IN  [s EXCEPT !.item.civ = Cap(@, most), !.item.uw = Cap(@, most)]

Starve(s, fed, avail) ==
    {[s EXCEPT !.item = fed, !.loyal = @ + r + 1, !.work = 0, !.avail = avail] : r \in Roll(8)}

Thrive(s, fed) ==
    LET most == SectorTypes[s.type].pop IN
    UNION {{[s EXCEPT !.item = grown, !.che = c, !.avail = NewWork(s, w),
                      !.work = IF @ < 100 THEN Cap(@ + 7 + r, 100) ELSE @] :
                c \in Round(s.che * 39, 40), w \in TotalWork(s.work, grown, most),
                r \in IF s.work < 100 THEN Roll(15) ELSE {0}} :
           grown \in GrowPeople(fed, most)}

Feed(s) ==
    LET most   == SectorTypes[s.type].pop
        hungry == s.item.food < (3 * People(s.item) + 99) \div 100
    IN  UNION {
            LET work  == NewWork(s, w)
                grown == IF hungry THEN Rations(s, work \div 2) ELSE 0
                manna == hungry /\ s.item.food + grown = 0
                meal  == [s.item EXCEPT !.food = IF manna THEN 1 ELSE @ + grown]
                avail == work - 2 * ((grown * 10000) \div 13)
                end(t) == TruncPeople(IF manna THEN [t EXCEPT !.item.food = 0] ELSE t)
            IN  {end(t) : t \in UNION {IF f.starved > 0 THEN Starve(s, f.item, avail)
                                       ELSE Thrive(s, f.item) : f \in FeedPeople(meal)}}
            : w \in TotalWork(s.work, s.item, most)}

(***************************************************************************)
(* Loyalty                                                                 *)
(***************************************************************************)
\* guerrillas rise: civilians first, then workers.  sct_che is a byte
Revolt(s) ==
    IF \/ s.che # 0 /\ (s.tgt # s.own \/ s.che >= CHE_MAX)
       \/ s.che > (s.item.civ + s.item.uw) * 3
    THEN {s}
    ELSE UNION {
        LET raw == 3 + (IF s.item.civ * n < 0 THEN -((-(s.item.civ * n)) \div 500)
                        ELSE (s.item.civ * n) \div 500)
            some == IF raw < 0 THEN 0 ELSE IF raw * 3 > s.item.civ THEN s.item.civ \div 3 ELSE raw
            civ == Cap(some, CHE_MAX - s.che)
            che == s.che + civ
        IN  {LET few == Cap(5 + ((s.item.uw * m) \div 500), s.item.uw)
                 uw  == IF che >= CHE_MAX THEN 0
                        ELSE IF che + few > CHE_MAX THEN CHE_MAX - few ELSE few
             IN  IF civ + uw <= 0 THEN s
                 ELSE [s EXCEPT !.tgt = s.own, !.che = (che + uw) % 256,
                                !.item.civ = @ - civ,
                                !.item.uw = IF uw > 0 THEN @ - uw ELSE @] :
                m \in {10, 39}} :
        n \in {10, -9}}

\* the people of a conquered sector come round, the unhappy turn away, and
\* where too few soldiers hold a disloyal sector, it may revolt
Populace(s, unhappy) ==
    IF People(s.item) = 0 THEN {s}
    ELSE LET mine == IF s.loyal = 0 THEN [s EXCEPT !.oldown = s.own] ELSE s
             soured == IF unhappy /\ mine.own = mine.oldown
                       THEN {mine} \cup {[mine EXCEPT !.loyal = Cap(@ + r, 127)] : r \in Roll(8)}
                       ELSE {mine}
             restless(t) ==
                 IF t.loyal > 65 /\ t.item.mil < t.item.civ \div 20
                 THEN UNION {LET idle == [t EXCEPT !.work = Floor0(@ - (t.loyal - (49 + r)))]
                             IN  {idle} \cup Revolt(idle) : r \in Roll(15)}
                 ELSE {t}
             settled(t) ==
                 IF t.loyal = 0 THEN {t}
                 ELSE {[t EXCEPT !.loyal = n, !.oldown = IF n = 0 THEN t.own ELSE @] :
                          n \in {Floor0(t.loyal - 15)}
                                 \cup {Cap(t.loyal + u, 127) : u \in Round(15, 2)}}
         IN  UNION {settled(t) : t \in UNION {restless(u) : u \in soured}}

(***************************************************************************)
(* Plague and fallout                                                      *)
(***************************************************************************)
\* stages: healthy, dying, infectious, incubating, exposed
Sicken(item, stage, time) ==
    LET left == time - Etus
        survive(n) == IF 5 * (left + 1) < time + 1 THEN n \div 5
                      ELSE (n * (left + 1)) \div (time + 1)
        next == [dying |-> "healthy", infect |-> "dying", incubate |-> "infect",
                 exposed |-> "incubate"]
    IN  {[item |-> IF stage = "dying"
                   THEN [i \in Items |-> IF i \in Folk THEN survive(item[i]) ELSE item[i]]
                   ELSE item,
          pst   |-> IF stage = "exposed" \/ left <= 0 THEN next[stage] ELSE stage,
          ptime |-> IF stage = "exposed" \/ left <= 0 THEN Etus \div 2 + r ELSE left] :
            r \in Roll0(Etus)}

\* where many live in little space and dirt (technology at 100, research at 0)
MayBreakOut(s) ==
    People(s.item) * (s.item.iron + s.item.oil + 2000)
        > SectorTypes[s.type].pop * 10 * (s.eff + s.mob + 100)
Plague(s) ==
    IF s.pst = "healthy"
    THEN {[s EXCEPT !.ptime = 0]}
             \cup (IF MayBreakOut(s) THEN {[s EXCEPT !.pst = "exposed", !.ptime = 0]} ELSE {})
    ELSE {[s EXCEPT !.item = r.item, !.pst = r.pst, !.ptime = r.ptime] :
             r \in Sicken(s.item, s.pst, s.ptime)}

\* fallout works for 24 ETUs at most
MeltDenom == [civ |-> 4, mil |-> 20, iron |-> 100, dust |-> 100, bar |-> 200, food |-> 2,
              oil |-> 50, lcm |-> 100, uw |-> 2]
Melt(item, fallout) ==
    {[i \in Items |-> item[i] - Cap((item[i] * 24 * fallout + up * (1000 * MeltDenom[i] - 1))
                                        \div (1000 * MeltDenom[i]), item[i])] : up \in {0, 1}}
\* a sector with fallout leaks it to its neighbors, and what it has decays
Leak(fall) == {Floor0(r - 1) : r \in Round(fall * 12, 100)}
Decay(fall) == {Floor0(fall - r) : r \in Round(fall * 72, 100)}

(***************************************************************************)
(* Building and production                                                 *)
(***************************************************************************)
\* take the materials for pct of something, or for what they suffice for
GetMaterials(item, mat, pct) ==
    LET suffice == Min({pct} \cup {(item[i] * 100) \div mat[i] :
                                      i \in {j \in DOMAIN mat : item[j] * 100 < mat[j] * pct}})
    IN  {[build |-> suffice,
          item  |-> [i \in Items |->
                        IF i \in DOMAIN mat
                        THEN Floor0(item[i] - (mat[i] * suffice + up * 99) \div 100)
                        ELSE item[i]]] : up \in {0, 1}}

\* tear the old sector down, then build the new one; half the work may go
\* into it.  Gives the sector and the cost
BuildEff(s) ==
    LET hundreds == (s.avail \div 2) * 100
        dcp   == SectorTypes[s.type]
        can   == (4 * hundreds) \div dcp.work
        razed == Cap(can, s.eff)
        done  == can > s.eff
        start == IF s.type = s.new
                 THEN {[t |-> s, left |-> hundreds, cost |-> 0]}
                 ELSE {[t |-> [s EXCEPT !.eff = @ - razed,
                                        !.type = IF done THEN s.new ELSE @],
                        left |-> hundreds - r, cost |-> 250 * razed] :
                          r \in Round(razed * dcp.work, 4)}
        finish(b) ==
            IF b.t.type # b.t.new THEN {b}
            ELSE LET new == SectorTypes[b.t.type]
                 IN  {[t |-> [b.t EXCEPT !.item = m.item, !.eff = @ + m.build],
                       left |-> b.left - m.build * new.work,
                       cost |-> b.cost + m.build * new.cost * 10] :
                         m \in GetMaterials(b.t.item, new.mat,
                                  Cap(Floor0(b.left) \div new.work, 100 - b.t.eff))}
    IN  {[t |-> [b.t EXCEPT !.avail = (s.avail + 1) \div 2 + b.left \div 100],
          cost |-> b.cost] : b \in UNION {finish(x) : x \in start}}

\* military drill civilians; three dollars each
Enlist(s) ==
    LET room == (s.item.civ \div 2) - s.item.mil
        n == IF room <= 0 THEN 0 ELSE Cap(3 * (10 + s.item.mil), room)
    IN  [t |-> [s EXCEPT !.item.civ = @ - n, !.item.mil = @ + n], cost |-> 3000 * n]

\* the product in whole units, and what its materials, the workers and the
\* ground allow.  Levels are high enough and efficiency 1 (prodeff)
ProdOutput(s) ==
    LET p == Products[SectorTypes[s.type].prd]
        pe == s.eff * (IF p.ground THEN s.res ELSE 100)     \* in 10000ths
        limits == {ITEM_MAX * 10000, (s.avail * pe) \div p.work}
                    \cup {(s.item[i] * 10000) \div p.mat[i] : i \in DOMAIN p.mat}
                    \cup (IF p.dep > 0 THEN {(s.res * 1000000) \div p.dep} ELSE {})
        item == SectorTypes[s.type].prd
        out == Min({Min(limits) \div 10000, 999, ITEM_MAX - s.item[item]})
        made == [i \in Items |-> IF i = item THEN s.item[i] + out
                                 ELSE IF i \in DOMAIN p.mat THEN s.item[i] - p.mat[i] * out
                                 ELSE s.item[i]]
    IN  IF Min(limits) = 0 THEN {[t |-> s, cost |-> 0]}
        ELSE {[t |-> [s EXCEPT !.item = made, !.res = Floor0(@ - d),
                               !.avail = @ - Cap(u, s.avail)], cost |-> p.cost * out] :
                 d \in Round(p.dep * out, 100), u \in Round(p.work * out * 10000, pe)}
===============================================================================
