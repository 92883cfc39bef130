------------------------------ MODULE EmpUpdate ------------------------------
(***************************************************************************)
(* The update (update_main()) and the command that predicts it (c_budget(),*)
(* which runs the same code with player->simulation set).  The update runs *)
(* in one piece under the update lock; a step of this module is one call   *)
(* for one sector or unit, in the order of the code.                       *)
(*                                                                         *)
(* The simulation works on a copy of each sector and throws it away; what  *)
(* later parts need (military, construction material and available work)   *)
(* it keeps in a map of its own, for the sectors of the player and those   *)
(* its units are in.                                                       *)
(***************************************************************************)
EXTENDS EmpUprising, TLC

CONSTANTS Worlds     \* what there is at first: sectors, units, treasury, reserve
    , Friends, Allies    \* pairs of countries
    , Gone           \* countries that have been dissolved
    , Unhappy        \* countries whose people are not content
    , Slack          \* how far the prediction may be off by rounding, in dollars

\* What a sector has.  Its orders are carried out as they stand: goods go to a
\* sector there is, and the threshold, which is a number of goods, is left out
\* where it is none (thre.c:79-91, deli.c:87).
Marks == {"own", "oldown", "type", "new", "eff", "mob", "off", "loyal", "work", "avail", "item", "del",
          "dist", "distTo", "pst", "ptime", "che", "tgt", "fert", "res", "fall"}
Laid(s)    == s = [f \in Marks |-> s[f]]
Ordered(s) ==
    /\ \A i \in DOMAIN s.del : s.del[i].to \in 1..Size /\ s.del[i].thresh \in Nat
    /\ s.distTo \in 1..Size
    /\ \A i \in DOMAIN s.dist : s.dist[i] \in 1..ITEM_MAX
Sectors(ss) == /\ ss = [n \in 1..Size |-> ss[n]]
               /\ \A n \in 1..Size : Laid(ss[n]) /\ Ordered(ss[n])
\* No unit is a wreck: writing one makes it nobody's (shp_prewrite() in
\* ship.c:68, pln_prewrite() in plane.c:68, lnd_prewrite() in land.c:67).
Intact(us) == us = [u \in DOMAIN us |-> us[u]] /\ \A u \in DOMAIN us : us[u].own = 0 \/ ~(us[u].eff < MinEff)

\* the worlds are such as the commands between two updates leave behind
ASSUME WorldsAssumption ==
    \A w \in Worlds : Sectors(w.sect) /\ IsFiniteSet(DOMAIN w.unit) /\ Intact(w.unit)

\* country 0 is nobody
Lands == 0..3
Player == 1
Friendly(a, b) == a = b \/ <<a, b>> \in Friends \cup Allies
Allied(a, b) == a = b \/ <<a, b>> \in Allies

VARIABLES
    sect, unit, treasury, reserve,
    budget,      \* nat_budget[]: where the money of each country went
    scratch,     \* the sector at hand, which in a simulation is a copy
    bp,          \* the values a simulation keeps, by sector
    simulation,  \* player->simulation
    upAt, upN,   \* the part of the update, and the sector or unit in it
    forecast,    \* what the budget command told the player, and in what state
    cantHappen   \* some CANT_HAPPEN() found its condition true

upVars == <<sect, unit, treasury, reserve, budget, scratch, bp, simulation,
            upAt, upN, forecast, cantHappen>>

(***************************************************************************)
(* Money                                                                   *)
(***************************************************************************)
Accounts == {"civ", "uw", "mil", "bars", "prod", "shipkeep", "planekeep", "landkeep",
             "shipbuild", "planebuild", "landbuild", "sectkeep", "sectbuild"}
NoBudget(start) == [start |-> start, money |-> start, item |-> [a \in Accounts |-> 0]]
Paid(b, c, a, amount) ==
    [b EXCEPT ![c].money = @ + amount, ![c].item[a] = @ + amount]
Broke(c) == budget[c].money < 0

(***************************************************************************)
(* The order of the parts                                                  *)
(***************************************************************************)
UnitOrder == \* ships, planes, land units
    SetToSortSeq(DOMAIN unit, LAMBDA a, b :
        LET rank == [ship |-> 1, plane |-> 2, land |-> 3]
        IN  rank[unit[a].kind] < rank[unit[b].kind])
LastOf(part) ==
    CASE part \in {"prep", "maintain", "build"} -> Len(UnitOrder)
      [] part \in {"guerrilla", "produce", "deliver", "export", "import"} -> Size
      [] OTHER -> 1
PartOrder == <<"prep", "fallout", "guerrilla", "reserve", "maintain", "produce", "build",
               "deliver", "export", "import", "nations", "mobility", "done">>
After(part) == PartOrder[SelectInSeq(PartOrder, LAMBDA x : x = part) + 1]
\* nothing to do for a part without units
Next1(part) == IF LastOf(part) > 0 THEN part ELSE After(part)

\* on to the next sector or unit of this part, or to the next part; the
\* prediction ends with building, and has no fallout
Advance(part) ==
    IF upN < LastOf(part) THEN upN' = upN + 1 /\ upAt' = part
    ELSE /\ upN' = 1
         /\ upAt' = IF ~simulation THEN Next1(After(part))
                    ELSE IF part = "prep" THEN "guerrilla"
                    ELSE IF Next1(After(part)) = "deliver" THEN "told" ELSE Next1(After(part))
Within(part) == upAt' = part /\ upN' = upN

Unit(n) == UnitOrder[n]
Skipped(n) == simulation /\ bp[n].status = "unused"
Idle(s) == s.type \in {"water", "sanct"}
BpOf(s) == [status |-> "used", mil |-> s.item.mil, lcm |-> s.item.lcm, avail |-> s.avail]

\* the sector that production and repair work with, and keeping what they made
\* of it: in a simulation that is a copy with the kept values put back
Worked(n) ==
    IF simulation THEN [sect[n] EXCEPT !.item.mil = bp[n].mil, !.item.lcm = bp[n].lcm,
                                       !.avail = bp[n].avail]
    ELSE sect[n]
Unkept(n) == simulation /\ bp[n].status # "used"
\* mutant: production forgets what building took from the work kept
KeepWorkForgets(n, s) ==
    IF simulation THEN bp' = [bp EXCEPT ![n].status = "used"] /\ UNCHANGED sect
    ELSE sect' = [sect EXCEPT ![n] = s] /\ UNCHANGED bp
KeepWork(n, s) ==
    IF simulation THEN bp' = [bp EXCEPT ![n] = BpOf(s)] /\ UNCHANGED sect
    ELSE sect' = [sect EXCEPT ![n] = s] /\ UNCHANGED bp

(***************************************************************************)
(* Units get paid and fed                                                  *)
(***************************************************************************)
\* cost, work and materials for 100 %, the crew of a plane, and how fast they
\* build and get mobile
UnitTypes ==
    [ship  |-> [cost |-> 500, work |-> 160, mat |-> [lcm |-> 60], crew |-> 0, grow |-> 180, gain |-> 90],
     plane |-> [cost |-> 400, work |-> 30, mat |-> [lcm |-> 20], crew |-> 1, grow |-> 120, gain |-> 60],
     land  |-> [cost |-> 300, work |-> 40, mat |-> [lcm |-> 20], crew |-> 0, grow |-> 120, gain |-> 60]]

\* a ship takes food from its land units, but does not starve them
Scrounge(u) ==
    LET aboard == {l \in DOMAIN unit : unit[l].kind = "land" /\ unit[l].ship = u /\ unit[l].own # 0}
        need(x) == (3 * People(x.item) + 99) \div 100
        spare(l) == Floor0((100 * unit[l].item.food - 3 * People(unit[l].item)) \div 100)
    IN  FoldSet(LAMBDA l, us :
            LET take == Cap(spare(l), Floor0(need(us[u]) - us[u].item.food))
            IN  [us EXCEPT ![u].item.food = @ + take, ![l].item.food = @ - take], unit, aboard)

\* the people of a unit eat, or starve, and the plague takes its course
Mess(us, u) ==
    LET sick(f) == IF us[u].pst = "healthy" THEN {[item |-> f.item, pst |-> us[u].pst, ptime |-> us[u].ptime]}
                   ELSE Sicken(f.item, us[u].pst, us[u].ptime)
    IN  {[us EXCEPT ![u].item = p.item, ![u].pst = p.pst, ![u].ptime = p.ptime] :
            p \in UNION {sick(f) : f \in FeedPeople(us[u].item)}}

Crewed(kind) == kind \in {"ship", "land"}
PrepUnit ==
    LET u == Unit(upN)  v == unit[u]
        pay == -5000 * IF Crewed(v.kind) THEN v.item.mil ELSE 5 * UnitTypes[v.kind].crew
    IN  /\ upAt = "prep"
        /\ IF v.own = 0
           THEN UNCHANGED <<unit, budget, bp, cantHappen>>
           ELSE IF v.eff < MinEff
           THEN /\ unit' = [unit EXCEPT ![u].own = 0]
                /\ cantHappen' = (cantHappen \/ Crewed(v.kind))
                /\ UNCHANGED <<budget, bp>>
           ELSE /\ budget' = Paid(budget, v.own, IF Crewed(v.kind) THEN "mil" ELSE "planekeep", pay)
                /\ bp' = IF simulation /\ v.own = Player /\ bp[v.at].status = "unused"
                         THEN [bp EXCEPT ![v.at].status = "wanted"] ELSE bp
                /\ IF simulation \/ ~Crewed(v.kind) THEN UNCHANGED unit
                   ELSE unit' \in Mess(IF v.kind = "ship" THEN Scrounge(u) ELSE unit, u)
                /\ UNCHANGED cantHappen
        /\ Advance("prep")
        /\ UNCHANGED <<sect, treasury, reserve, scratch, simulation, forecast>>

(***************************************************************************)
(* prepare_sects()                                                         *)
(***************************************************************************)
\* only the sectors that had fallout at first leak, each what it has by then
Leaked(up) ==
    FoldLeft(LAMBDA f, n : [m \in 1..Size |->
                IF sect[n].fall > 0 /\ m \in {n - 1, n + 1} /\ sect[m].type # "sanct"
                THEN Cap(f[m] + (IF up THEN Max(Leak(f[n])) ELSE Min(Leak(f[n]))), 9999)
                ELSE f[m]],
             [n \in 1..Size |-> sect[n].fall], [n \in 1..Size |-> n])
Rests(vec, f, up) == IF up THEN CHOOSE i \in Melt(vec, f) : \A j \in Melt(vec, f) : i.civ <= j.civ
                     ELSE CHOOSE i \in Melt(vec, f) : \A j \in Melt(vec, f) : i.civ >= j.civ

\* fallout melts the people and goods of the sectors and units, spreads to the
\* neighbors and decays
Fallout ==
    LET sorry(n) == sect[n].fall > 0 /\ sect[n].type # "sanct"
    IN  /\ upAt = "fallout"
        /\ \E up \in BOOLEAN :
              /\ sect' = [n \in 1..Size |->
                            [sect[n] EXCEPT !.item = IF sorry(n) THEN Rests(@, sect[n].fall, up) ELSE @,
                                            !.fall = Min(Decay(Leaked(up)[n]))]]
              /\ unit' = [u \in DOMAIN unit |->
                            IF unit[u].own # 0 /\ Crewed(unit[u].kind) /\ sorry(unit[u].at)
                            THEN [unit[u] EXCEPT !.item = Rests(@, sect[unit[u].at].fall, up)]
                            ELSE unit[u]]
        /\ Advance("fallout")
        /\ UNCHANGED <<treasury, reserve, budget, scratch, bp, simulation, forecast, cantHappen>>

\* the next sector: what is skipped, and where a simulation begins
NextSector ==
    /\ upAt = "guerrilla"
    /\ IF Skipped(upN) \/ Idle(sect[upN]) \/ simulation
       THEN /\ bp' = IF simulation /\ ~Skipped(upN) THEN [bp EXCEPT ![upN] = BpOf(sect[upN])] ELSE bp
            /\ IF Skipped(upN) \/ Idle(sect[upN]) THEN Advance("guerrilla") /\ UNCHANGED scratch
               ELSE Within("tax") /\ scratch' = sect[upN]
            /\ UNCHANGED <<sect, unit, cantHappen>>
       ELSE /\ \E r \in Guerrilla(sect, unit, upN, Gone) :
                  sect' = r.sect /\ unit' = r.unit /\ cantHappen' = (cantHappen \/ r.oops)
            /\ Within("populace")
            /\ UNCHANGED <<bp, scratch>>
    /\ UNCHANGED <<treasury, reserve, budget, simulation, forecast>>

AtHand == IF simulation THEN scratch ELSE sect[upN]
Becomes(s) ==
    IF simulation THEN scratch' = s /\ UNCHANGED sect
    ELSE sect' = [sect EXCEPT ![upN] = s] /\ UNCHANGED scratch

PopulaceStep ==
    /\ upAt = "populace"
    /\ \E s \in Populace(sect[upN], sect[upN].own \in Unhappy) : sect' = [sect EXCEPT ![upN] = s]
    /\ Within("tax")
    /\ UNCHANGED <<unit, treasury, reserve, budget, scratch, bp, simulation, forecast, cantHappen>>

\* captured civilians pay a quarter; gold in a bank bears interest
Tax ==
    LET s == AtHand  c == s.own
        civ == (s.item.civ * 5 * s.eff) \div IF c = s.oldown THEN 1 ELSE 4
        bars == IF s.type = "bank" THEN 150 * s.item.bar * s.eff ELSE 0
    IN  /\ upAt = "tax"
        /\ budget' = Paid(Paid(Paid(Paid(budget, c, "civ", civ), c, "uw", s.item.uw * s.eff),
                               c, "mil", -5000 * s.item.mil), c, "bars", bars)
        /\ Within("feed")
        /\ UNCHANGED <<sect, unit, treasury, reserve, scratch, bp, simulation, forecast, cantHappen>>

FeedStep ==
    /\ upAt = "feed"
    /\ \E s \in Feed(AtHand) : Becomes(s)
    /\ Within(IF simulation THEN "loss" ELSE "plague")
    /\ UNCHANGED <<unit, treasury, reserve, budget, bp, simulation, forecast, cantHappen>>

PlagueStep ==
    /\ upAt = "plague"
    /\ \E s \in Plague(sect[upN]) : sect' = [sect EXCEPT ![upN] = s]
    /\ Within("loss")
    /\ UNCHANGED <<unit, treasury, reserve, budget, scratch, bp, simulation, forecast, cantHappen>>

\* a sector without people and units is lost
CheckPopLoss ==
    LET s == AtHand
        calm == IF s.item.civ = 0 THEN [s EXCEPT !.work = 100, !.loyal = 0, !.oldown = s.own] ELSE s
        held == \E u \in DOMAIN unit : unit[u].own = s.own /\ unit[u].at = upN /\ unit[u].kind = "land"
        end  == IF s.own # 0 /\ s.item.civ = 0 /\ s.item.mil = 0 /\ ~held
                THEN [calm EXCEPT !.own = 0, !.oldown = 0, !.mob = 0] ELSE calm
    IN  /\ upAt = "loss"
        /\ IF simulation
           THEN bp' = [bp EXCEPT ![upN] = BpOf(end)] /\ scratch' = {} /\ UNCHANGED sect
           ELSE sect' = [sect EXCEPT ![upN] = end] /\ UNCHANGED <<bp, scratch>>
        /\ Advance("guerrilla")
        /\ UNCHANGED <<unit, treasury, reserve, budget, simulation, forecast, cantHappen>>

PayReserve ==
    /\ upAt = "reserve"
    /\ budget' = [c \in Lands |-> IF simulation /\ c # Player THEN budget[c]
                                  ELSE Paid(budget, c, "mil", -500 * reserve[c])[c]]
    /\ Advance("reserve")
    /\ UNCHANGED <<sect, unit, treasury, reserve, scratch, bp, simulation, forecast, cantHappen>>

(***************************************************************************)
(* Upkeep, production, building                                            *)
(***************************************************************************)
Keep == [ship |-> "shipkeep", plane |-> "planekeep", land |-> "landkeep"]
Make == [ship |-> "shipbuild", plane |-> "planebuild", land |-> "landbuild"]

\* what the owner cannot pay for decays, though not to pieces; a prediction
\* charges it regardless
Maintain ==
    LET u == Unit(upN)  v == unit[u]
        cost == v.mult * Etus * UnitTypes[v.kind].cost
        decay == Cap(Etus \div 5, v.eff - MinEff)
    IN  /\ upAt = "maintain"
        /\ IF v.own = 0 \/ Skipped(v.at) THEN UNCHANGED <<unit, budget>>
           ELSE IF budget[v.own].money < cost /\ ~simulation
           THEN unit' = [unit EXCEPT ![u].eff = @ - Floor0(decay)] /\ UNCHANGED budget
           ELSE budget' = Paid(budget, v.own, Keep[v.kind], -cost) /\ UNCHANGED unit
        /\ Advance("maintain")
        /\ UNCHANGED <<sect, treasury, reserve, scratch, bp, simulation, forecast, cantHappen>>

\* upkeep; a stopped sector or a broke owner does no work; else build, enlist
\* and produce, the last only with money left
ProduceSect ==
    LET s == Worked(upN)  c == s.own
        kept == Paid(budget, c, "sectkeep", -1000 * Etus * SectorTypes[s.type].maint)
        unfinished == s.eff < 100 \/ s.type # s.new
        builds == IF unfinished THEN BuildEff(s) ELSE {[t |-> s, cost |-> 0]}
        drills(t) == t.type = "enlist" /\ t.eff >= 60 /\ t.own = t.oldown
    IN  /\ upAt = "produce"
        /\ IF Skipped(upN) \/ Idle(s) THEN UNCHANGED <<sect, bp, budget>>
           ELSE IF s.off \/ kept[c].money < 0
           THEN budget' = kept /\ KeepWork(upN, [s EXCEPT !.avail = 0])
           ELSE \E b \in builds :
                LET built == Paid(kept, c, "sectbuild", -b.cost)
                    e == IF drills(b.t) THEN Enlist(b.t) ELSE [t |-> b.t, cost |-> 0]
                    drilled == Paid(built, c, "prod", -e.cost)
                IN  IF e.t.eff >= 60 /\ drilled[c].money >= 0 /\ SectorTypes[e.t.type].prd # "none"
                    THEN \E p \in ProdOutput(e.t) :
                            budget' = Paid(drilled, c, "prod", -p.cost) /\ KeepWork(upN, p.t)
                    ELSE budget' = drilled /\ KeepWork(upN, e.t)
        /\ cantHappen' = (cantHappen \/ (Unkept(upN) /\ ~Skipped(upN)))
        /\ Advance("produce")
        /\ UNCHANGED <<unit, treasury, reserve, scratch, simulation, forecast>>

\* work on unit u in sector s: the efficiency it gains and the sector after
Repair(v, s) ==
    LET t == UnitTypes[v.kind]
        carried == v.kind = "plane" /\ v.ship # "none"
        crew  == CASE v.kind = "ship"  -> ((Etus * v.item.mil) \div 2)
                                             \div IF s.type = "harbor" THEN 1 ELSE 3
                   [] carried -> (Etus * unit[v.ship].item.mil) \div 2
                   [] OTHER -> 0
        work  == crew + IF v.kind = "ship" /\ s.type # "harbor" THEN 0 ELSE s.avail * 100
        delta == Min({work \div t.work, t.grow, 100 - v.eff})
        home  == [ship |-> "harbor", plane |-> "airport", land |-> "fort"][v.kind]
        used(b) == IF v.kind = "ship" THEN Floor0(b * t.work - crew) ELSE b * t.work
        left(b) == IF used(b) = 0 THEN {s.avail} ELSE {Floor0(r) : r \in Round(s.avail * 100 - used(b), 100)}
        end(b)  == CASE v.kind = "ship" /\ s.type # home -> Floor0(Cap(b, 80 - v.eff))
                     [] v.kind = "plane" -> Cap(IF s.type # home THEN b \div 3 ELSE b,
                                                IF carried THEN 80 - v.eff ELSE 100)
                     [] OTHER -> b
    IN  IF delta <= 0 THEN {}
        ELSE UNION {LET b == CASE v.kind = "ship" /\ s.type # home -> delta
                               [] carried -> delta
                               [] v.kind = "land" /\ s.type # home -> m.build \div 3
                               [] OTHER -> m.build
                    IN  {[build |-> end(b), sect |-> [s EXCEPT !.item = m.item, !.avail = a]] : a \in left(b)} :
                    m \in GetMaterials(s.item, t.mat, delta)}

MayRepair(u) ==
    LET v == unit[u]  s == sect[v.at]
        carrier == IF v.ship = "none" \/ v.kind = "land" THEN "none" ELSE v.ship
    IN  /\ ~v.off /\ ~Broke(v.own) /\ v.eff < 100 /\ ~s.off
        /\ CASE v.kind = "ship" -> s.own = 0 \/ Friendly(s.own, v.own)
             [] carrier # "none" -> v.eff < 80 /\ ~unit[carrier].off /\ Allied(unit[carrier].own, v.own)
             [] OTHER -> Allied(s.own, v.own)

\* an oil derrick at sea
OilOutput(v, s, money) ==
    IF v.kind # "ship" \/ ~v.derrick \/ v.off \/ money[v.own].money < 0 \/ s.type # "water" THEN {0}
    ELSE {LET room == Cap(o, 10 - v.item.oil)
          IN  IF room > 0 THEN Cap(room, (s.res * 100) \div 10) ELSE room :
             o \in UNION {Round(w * v.eff * s.res, 10000) : w \in TotalWork(100, v.item, ITEM_MAX)}}

BuildUnit ==
    LET u == Unit(upN)  v == unit[u]
        works == MayRepair(u) /\ Repair(v, Worked(v.at)) # {}
    IN  /\ upAt = "build"
        /\ IF v.own = 0 \/ Skipped(v.at) THEN UNCHANGED <<unit, sect, bp, budget>>
           ELSE \E r \in IF works THEN Repair(v, Worked(v.at)) ELSE {[build |-> 0, sect |-> sect[v.at]]} :
                LET cost == v.mult * UnitTypes[v.kind].cost * r.build * 10
                    after == IF works THEN Paid(budget, v.own, Make[v.kind], -cost) ELSE budget
                IN  /\ budget' = after
                    /\ IF simulation
                       THEN /\ UNCHANGED <<unit, sect>>
                            /\ bp' = IF works THEN [bp EXCEPT ![v.at] = BpOf(r.sect)] ELSE bp
                       ELSE /\ \E o \in OilOutput([v EXCEPT !.eff = @ + r.build], r.sect, after) :
                               \E dep \in Round(o * 10, 100) :
                                  /\ unit' = [unit EXCEPT ![u].eff = @ + r.build, ![u].off = FALSE,
                                                          ![u].item.oil = @ + o]
                                  /\ sect' = [sect EXCEPT ![v.at] = [r.sect EXCEPT !.res = @ - Cap(dep, @)]]
                            /\ UNCHANGED bp
        /\ cantHappen' = (cantHappen \/ (v.own # 0 /\ ~Skipped(v.at) /\ MayRepair(u) /\ Unkept(v.at)))
        /\ Advance("build")
        /\ UNCHANGED <<treasury, reserve, scratch, simulation, forecast>>

(***************************************************************************)
(* Goods are delivered and distributed                                     *)
(***************************************************************************)
\* what it costs to enter a sector, in thousandths; weight and packing of goods
MoveCost(s) == IF ~SectorTypes[s.type].pass THEN -1 ELSE 400 - 2 * s.eff
Pounds == [i \in Items |-> CASE i = "bar" -> 50 [] i = "dust" -> 5 [] i = "uw" -> 2 [] OTHER -> 1]
Pack(i, s) ==
    CASE s.eff < 60 -> 1
      [] i = "civ" -> 10
      [] s.type = "harbor" /\ i # "mil" -> IF i = "bar" THEN 5 ELSE IF i = "uw" THEN 2 ELSE 10
      [] s.type = "bank" /\ i = "bar" -> 4
      [] OTHER -> 1

MilitaryControl(n) ==
    LET s == sect[n]
        guards == {u \in DOMAIN unit : /\ unit[u].kind = "land" /\ unit[u].security
                                       /\ unit[u].own = s.own /\ unit[u].at = n}
        strength == MapThenSumSet(LAMBDA u : (unit[u].item.mil * unit[u].eff) \div 100, guards)
    IN  s.own = s.oldown \/ (s.item.mil + strength) * 10 >= s.item.civ
Catch(s, from) == IF from = "infect" /\ s.pst = "healthy" THEN "exposed" ELSE s.pst

\* goods go from sector a, which has that mobility left, to sector b, where
\* they may bring the plague; a sector may deliver to itself
Ship(ss, a, b, i, amt, mob, pst) ==
    LET sent == [ss EXCEPT ![a].item[i] = @ - amt, ![a].mob = mob]
    IN  [sent EXCEPT ![b].item[i] = @ + amt, ![b].pst = pst]

\* one item to the next sector, if the people there are ours and it can be
\* spared; half the mobility may go into it
Deliver(ss, n, i, plague) ==
    LET from == ss[n]  to == ss[from.del[i].to]
        spare == from.item[i] - from.del[i].thresh
        stay == i = "civ" \/ (i = "mil" /\ to.item.civ = 0)
        cost == MoveCost(to) * Pounds[i]
        den  == 4000 * Pack(i, from)
        want == IF stay THEN spare - 1 ELSE spare
        short == (from.mob \div 2) * den < cost * want
        can  == IF short THEN ((from.mob \div 2) * den) \div cost ELSE want
        amt  == Cap(can, ITEM_MAX - to.item[i])
    IN  IF \/ spare <= 0 \/ ~MilitaryControl(n) \/ to.own # from.own
           \/ i = "civ" /\ (from.own # from.oldown \/ to.own # to.oldown)
           \/ short /\ can <= 0
        THEN ss
        ELSE Ship(ss, n, from.del[i].to, i, amt, Floor0(from.mob - (cost * amt) \div den), Catch(to, plague))

Moving(n) == sect[n].own # 0 /\ sect[n].type # "sanct" /\ ~Broke(sect[n].own)
Still == UNCHANGED <<unit, treasury, reserve, budget, scratch, bp, simulation, forecast>>

DeliverStep ==
    /\ upAt = "deliver"
    /\ sect' = IF ~Moving(upN) \/ sect[upN].mob <= 0 THEN sect
               ELSE FoldLeft(LAMBDA ss, i : IF i \in DOMAIN sect[upN].del /\ ss[upN].mob > 0
                                            THEN Deliver(ss, upN, i, sect[upN].pst) ELSE ss,
                             sect, ItemOrder)
    /\ Advance("deliver")
    /\ Still /\ UNCHANGED cantHappen

\* from the distribution center to sector n through sectors of one owner
PathCost(n) ==
    LET d == sect[n].distTo
        way == IF d < n THEN (d + 1)..n ELSE n..(d - 1)
        barred == {m \in way : sect[m].own # sect[d].own \/ MoveCost(sect[m]) < 0}
    IN  IF d = n \/ barred # {} THEN -1
        ELSE MapThenSumSet(LAMBDA m : MoveCost(sect[m]), way)

\* mutant: looks for civilians where the goods go, as deliver() does
ImportAbandons(ss, n, i) ==
    LET sp == ss[n]  d == sp.distTo  dist == ss[d]
        want == sp.dist[i] - sp.item[i]
        stays == IF i = "civ" \/ (i = "mil" /\ sp.item.civ = 0) THEN 1 ELSE 0
        have == Cap(want, dist.item[i] - stays)
        cost == PathCost(n) * Pounds[i]
        den  == 10000 * Pack(i, dist)
        amt  == IF dist.mob * den < cost * have THEN (dist.mob * den) \div cost ELSE have
    IN  IF \/ want <= 0 \/ have <= 0 \/ dist.mob <= 0 \/ ~MilitaryControl(d)
           \/ i = "civ" /\ (sp.own # sp.oldown \/ dist.own # dist.oldown)
        THEN ss
        ELSE Ship(ss, d, n, i, amt, dist.mob - (cost * amt) \div den, Catch(sp, dist.pst))

\* up to the threshold from the center, with its mobility; it is not emptied
Import(ss, n, i) ==
    LET sp == ss[n]  d == sp.distTo  dist == ss[d]
        want == sp.dist[i] - sp.item[i]
        stays == IF i = "civ" \/ (i = "mil" /\ dist.item.civ = 0) THEN 1 ELSE 0
        have == Cap(want, dist.item[i] - stays)
        cost == PathCost(n) * Pounds[i]
        den  == 10000 * Pack(i, dist)
        amt  == IF dist.mob * den < cost * have THEN (dist.mob * den) \div cost ELSE have
    IN  IF \/ want <= 0 \/ have <= 0 \/ dist.mob <= 0 \/ ~MilitaryControl(d)
           \/ i = "civ" /\ (sp.own # sp.oldown \/ dist.own # dist.oldown)
        THEN ss
        ELSE Ship(ss, d, n, i, amt, dist.mob - (cost * amt) \div den, Catch(sp, dist.pst))

\* what is above the threshold to the center; idle civilians stay
Export(ss, n, i) ==
    LET sp == ss[n]  d == sp.distTo  dist == ss[d]
        want == sp.item[i] - sp.dist[i]
        cost == (PathCost(n) - MoveCost(sp) + MoveCost(dist)) * Pounds[i]
        den  == 10000 * Max({Pack(i, sp), Pack(i, dist)})
        can  == IF sp.mob * den < cost * want THEN (sp.mob * den) \div cost ELSE want
        amt  == Cap(can, ITEM_MAX - dist.item[i])
    IN  IF \/ want < 0 \/ amt = 0 \/ sp.mob <= 0 \/ ~MilitaryControl(n)
           \/ i = "civ" /\ (sp.own # sp.oldown \/ dist.own # dist.oldown \/ sp.work < 100)
        THEN ss
        ELSE Ship(ss, n, d, i, amt, sp.mob - (cost * amt) \div den, Catch(dist, sp.pst))

Distributes(n) == Moving(n) /\ PathCost(n) >= 0
ExportStep ==
    /\ upAt = "export"
    /\ sect' = IF ~Distributes(upN) \/ MoveCost(sect[sect[upN].distTo]) < 0 THEN sect
               ELSE FoldLeft(LAMBDA ss, i : IF i \in DOMAIN sect[upN].dist THEN Export(ss, upN, i) ELSE ss,
                             sect, ItemOrder)
    /\ Advance("export")
    /\ Still /\ UNCHANGED cantHappen

\* and every sector may work again
ImportStep ==
    /\ upAt = "import"
    /\ LET on == [sect EXCEPT ![upN].off = FALSE]
       IN  sect' = IF ~Distributes(upN) THEN on
                   ELSE FoldLeft(LAMBDA ss, i : IF i \in DOMAIN sect[upN].dist THEN Import(ss, upN, i) ELSE ss,
                                 on, ItemOrder)
    /\ Advance("import")
    /\ Still /\ UNCHANGED cantHappen

(***************************************************************************)
(* Treasuries, reserves, mobility                                          *)
(***************************************************************************)
Nations ==
    /\ upAt = "nations"
    /\ \E up \in {0, 999} :
          treasury' = [c \in Lands |-> IF c \in Gone THEN treasury[c] ELSE (budget[c].money + up) \div 1000]
    /\ \E r \in [Lands -> {0, 1}] :
          reserve' = [c \in Lands |-> IF c \in Gone THEN reserve[c] ELSE (reserve[c] * 39 + 39 * r[c]) \div 40]
    /\ Advance("nations")
    /\ UNCHANGED <<sect, unit, budget, scratch, bp, simulation, forecast, cantHappen>>

Mobilize ==
    /\ upAt = "mobility"
    /\ sect' = [n \in 1..Size |-> IF sect[n].own = 0 \/ Idle(sect[n]) THEN sect[n]
                                  ELSE [sect[n] EXCEPT !.mob = Cap(@ + Etus, 127)]]
    /\ unit' = [u \in DOMAIN unit |-> IF unit[u].own = 0 THEN unit[u]
                                      ELSE [unit[u] EXCEPT !.mob = Cap(@ + UnitTypes[unit[u].kind].gain, 127)]]
    /\ Advance("mobility")
    /\ UNCHANGED <<treasury, reserve, budget, scratch, bp, simulation, forecast, cantHappen>>

(***************************************************************************)
(* The budget command, then the update                                     *)
(***************************************************************************)
Unused == [status |-> "unused", mil |-> 0, lcm |-> 0, avail |-> 0]
UpdateInit ==
    /\ \E w \in Worlds : sect = w.sect /\ unit = w.unit /\ treasury = w.treasury /\ reserve = w.reserve
    /\ budget = [c \in Lands |-> NoBudget(1000 * IF c = Player THEN treasury[c] ELSE 1000000)]
    /\ bp = [n \in 1..Size |-> IF sect[n].own = Player THEN [Unused EXCEPT !.status = "wanted"] ELSE Unused]
    /\ simulation = TRUE /\ scratch = {} /\ forecast = [calm |-> FALSE, new |-> 0] /\ cantHappen = FALSE
    /\ upAt = (IF LastOf("prep") > 0 THEN "prep" ELSE "guerrilla") /\ upN = 1

\* nothing is about to happen that the prediction leaves out: no hunger, plague,
\* fallout, unrest or bankruptcy, no sector that becomes another, none where
\* the newborn would be drilled
Calm ==
    /\ \A n \in 1..Size :
          LET s == sect[n] IN
          /\ s.che = 0 /\ s.loyal = 0 /\ s.pst = "healthy" /\ s.fall = 0 /\ s.type = s.new
          /\ 100 * s.item.food >= 6 * People(s.item) /\ s.type # "enlist"
    /\ \A u \in DOMAIN unit : unit[u].pst = "healthy" /\ 100 * unit[u].item.food >= 3 * People(unit[u].item)
    /\ budget[Player].money >= 0 /\ treasury[Player] > 1000
\* the player is told the new treasury; then the update itself begins
Told ==
    /\ upAt = "told"
    /\ forecast' = [calm |-> Calm, new |-> treasury[Player]
                                       + (budget[Player].money - budget[Player].start) \div 1000]
    /\ budget' = [c \in Lands |-> NoBudget(1000 * treasury[c])]
    /\ simulation' = FALSE /\ upAt' = Next1("prep") /\ upN' = 1
    /\ bp' = [n \in 1..Size |-> Unused]
    /\ UNCHANGED <<sect, unit, treasury, reserve, scratch, cantHappen>>

UpdateNext ==
    \/ PrepUnit \/ Fallout \/ NextSector \/ PopulaceStep \/ Tax \/ FeedStep \/ PlagueStep
    \/ CheckPopLoss \/ PayReserve \/ Maintain \/ ProduceSect \/ BuildUnit \/ DeliverStep
    \/ ExportStep \/ ImportStep \/ Nations \/ Mobilize \/ Told

UpdateSpec == UpdateInit /\ [][UpdateNext]_upVars

(***************************************************************************)
(* Properties                                                              *)
(***************************************************************************)
Total(ss, i) == MapThenSumSet(LAMBDA n : ss[n].item[i], 1..Size)
Held(s) == s.item.civ + s.item.mil > 0

\* Whatever the update does to a sector or a unit, its numbers stay where they
\* belong, no impossible case is met, and all money that a country has gained
\* or lost is in one of its accounts (struct budget).
UpdateInOrder ==
    /\ \A n \in 1..Size :
          /\ sect[n].item \in [Items -> 0..ITEM_MAX]
          /\ sect[n].eff \in 0..100 /\ sect[n].avail >= 0 /\ sect[n].mob \in -127..127
          /\ sect[n].che \in 0..CHE_MAX /\ (sect[n].che > 0 => sect[n].tgt # 0)
          /\ sect[n].loyal \in 0..255 /\ sect[n].work \in 0..100
    /\ \A u \in DOMAIN unit : unit[u].eff \in 0..100 /\ unit[u].item \in [Items -> 0..ITEM_MAX]
    /\ \A c \in Lands : budget[c].money = budget[c].start
                          + MapThenSumSet(LAMBDA a : budget[c].item[a], Accounts)
    /\ ~cantHappen

\* Deliveries and distribution move goods and people between sectors: they
\* neither make nor lose any and never overdraw the mobility of a sector.
\* Distribution empties no sector of people, so that its owner keeps it ("make
\* sure not to abandon the sector", distribute.c).
GoodsAreMoved ==
    [][(upAt \in {"deliver", "export", "import"}) =>
          /\ \A i \in Items : Total(sect', i) = Total(sect, i)
          /\ \A n \in 1..Size : sect'[n].mob < sect[n].mob => sect'[n].mob >= 0
          /\ upAt # "deliver" => \A n \in 1..Size : Held(sect[n]) => Held(sect'[n])]_upVars

\* The same said of deliveries, by the comment at deliver.c:91.
DeliveryAbandonsNone ==
    [][upAt = "deliver" => \A n \in 1..Size : Held(sect[n]) => Held(sect'[n])]_upVars

\* The budget command changes nothing, and where nothing happens that it leaves
\* out, the update ends with the treasury it told, but for rounding.
BudgetForetells ==
    /\ [][simulation => UNCHANGED <<sect, unit, treasury, reserve>>]_upVars
    /\ [](upAt = "done" /\ forecast.calm
            => treasury[Player] - forecast.new \in -Slack..Slack)

\* Who joins a rising leaves the civilians or the workers: nobody appears or
\* vanishes, and the guerrillas fit the sector's count of them (sect.h:209).
RisingKeepsPeople ==
    [][upAt = "populace"
         => \A n \in 1..Size : sect'[n].item.civ + sect'[n].item.uw + sect'[n].che
                             = sect[n].item.civ + sect[n].item.uw + sect[n].che]_upVars
==============================================================================
