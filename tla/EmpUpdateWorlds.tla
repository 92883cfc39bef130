--------------------------- MODULE EmpUpdateWorlds ---------------------------
(***************************************************************************)
(* Small worlds for TLC to update: three sectors in a row.                 *)
(***************************************************************************)
EXTENDS EmpUpdate

Land(n, type, few) ==
    [own |-> 1, oldown |-> 1, type |-> type, new |-> type, eff |-> 100, mob |-> 60,
     off |-> FALSE, loyal |-> 0, work |-> 100, avail |-> 0, item |-> Stored(few),
     del |-> None, dist |-> None, distTo |-> n, pst |-> "healthy", ptime |-> 0,
     che |-> 0, tgt |-> 0, fert |-> 0, res |-> 0, fall |-> 0]
Sea == [Land(1, "water", None) EXCEPT !.own = 0, !.oldown = 0, !.mob = 0, !.res = 50]
Craft(kind, at, eff, few) ==
    [kind |-> kind, own |-> 1, at |-> at, ship |-> "none", eff |-> eff, mob |-> 0, off |-> FALSE,
     item |-> Stored(few), security |-> FALSE, derrick |-> FALSE, mult |-> 1,
     pst |-> "healthy", ptime |-> 0]
World(s1, s2, s3, units, money) ==
    [sect |-> <<s1, s2, s3>>, unit |-> units,
     treasury |-> [c \in Lands |-> IF c = 1 THEN money ELSE 500],
     reserve |-> [c \in Lands |-> IF c = 1 THEN 40 ELSE 0]]

\* a mine delivers to a harbor, a factory sends what it makes to the harbor and
\* gets ore from there; a ship, a plane aboard and a unit are being built
Trade ==
    World([Land(1, "mine", [civ |-> 100, food |-> 20, iron |-> 40]) EXCEPT !.res = 50,
              !.del = [iron |-> [to |-> 2, thresh |-> 8]]],
          [Land(2, "harbor", [civ |-> 40, mil |-> 25, food |-> 20, lcm |-> 30, iron |-> 9985]) EXCEPT !.eff = 90],
          [Land(3, "factory", [civ |-> 50, food |-> 20]) EXCEPT !.distTo = 2,
              !.dist = [lcm |-> 5, iron |-> 20], !.eff = 90],
          [s1 |-> Craft("ship", 2, 70, [mil |-> 10, food |-> 1]),
           p1 |-> [Craft("plane", 2, 70, None) EXCEPT !.ship = "s1"],
           l1 |-> Craft("land", 2, 85, [mil |-> 5, food |-> 1])], 5000)
\* nobody pays for this one
Poor ==
    World([Land(1, "capital", [civ |-> 20, mil |-> 75, food |-> 20]) EXCEPT !.new = "bank", !.avail = 70],
          [Land(2, "enlist", [civ |-> 100, mil |-> 25, food |-> 20]) EXCEPT !.eff = 60],
          [Land(3, "bank", [civ |-> 50, food |-> 20, dust |-> 50, bar |-> 1]) EXCEPT !.off = TRUE],
          [s1 |-> Craft("ship", 2, 20, [mil |-> 50, food |-> 2]),
           l1 |-> Craft("land", 1, 15, [mil |-> 5, food |-> 1])], 290)

\* a conquered sector whose people rise against few soldiers and one guard
Rising ==
    World([Land(1, "capital", [civ |-> 40, mil |-> 6, uw |-> 10, food |-> 20]) EXCEPT
              !.oldown = 2, !.loyal = 75, !.che = 9, !.tgt = 1], Sea, Sea,
          [l1 |-> [Craft("land", 1, 80, [mil |-> 5, food |-> 1]) EXCEPT !.security = TRUE],
           l2 |-> Craft("land", 1, 42, [mil |-> 2, food |-> 1])], 5000)
\* one that may revolt, and guerrillas who fight a country that is no more
Restless ==
    World([Land(1, "capital", [civ |-> 45, mil |-> 1, food |-> 20]) EXCEPT !.loyal = 70], Sea,
          [Land(3, "harbor", [civ |-> 10, mil |-> 2, food |-> 20]) EXCEPT
              !.own = 2, !.oldown = 2, !.che = 5, !.tgt = 3],
          None, 5000)
\* guerrillas flee from many soldiers to few and act again there
Fleeing ==
    World([Land(1, "fort", [civ |-> 20, mil |-> 200, food |-> 20]) EXCEPT !.che = 12, !.tgt = 1],
          Land(2, "capital", [civ |-> 20, mil |-> 4, food |-> 20]), Sea,
          [l1 |-> Craft("land", 2, 40, [mil |-> 5, food |-> 1])], 5000)

\* too little to eat, nothing at all, the plague, and fallout
Hunger ==
    World([Land(1, "capital", [civ |-> 100, mil |-> 20, uw |-> 30, food |-> 2, iron |-> 5000]) EXCEPT
              !.fert = 50, !.mob = -100],
          [Land(2, "harbor", [civ |-> 30, mil |-> 5]) EXCEPT !.pst = "exposed", !.ptime = 20,
              !.del = [civ |-> [to |-> 3, thresh |-> 10], mil |-> [to |-> 1, thresh |-> 2]]],
          [Land(3, "airport", [civ |-> 50, mil |-> 10, food |-> 20, dust |-> 30]) EXCEPT
              !.pst = "dying", !.ptime = 70, !.work = 60],
          [s1 |-> [Craft("ship", 2, 60, [mil |-> 40]) EXCEPT !.pst = "incubate", !.ptime = 10],
           l1 |-> [Craft("land", 2, 50, [mil |-> 10, food |-> 5]) EXCEPT !.ship = "s1"]], 5000)
Glowing ==
    World([Land(1, "capital", [civ |-> 100, mil |-> 20, food |-> 20]) EXCEPT !.fall = 60],
          Land(2, "sanct", [civ |-> 50]),
          [Land(3, "mine", [civ |-> 50, mil |-> 10, food |-> 20]) EXCEPT !.fall = 10],
          [l1 |-> Craft("land", 1, 80, [mil |-> 10, food |-> 5])], 5000)

\* an oil derrick; a guest is repaired in a friend's harbor; the last soldiers
\* and workers of the harbor are wanted elsewhere
Coast ==
    World(Sea,
          [Land(2, "harbor", [mil |-> 3, uw |-> 30, food |-> 20, lcm |-> 50]) EXCEPT !.avail = 20],
          [Land(3, "oilfield", [civ |-> 2, lcm |-> 3]) EXCEPT !.res = 60,
              !.distTo = 2, !.dist = [mil |-> 10, uw |-> 40, lcm |-> 1]],
          [s1 |-> [Craft("ship", 1, 60, [civ |-> 100, mil |-> 10, food |-> 5]) EXCEPT !.derrick = TRUE],
           s2 |-> [Craft("ship", 2, 40, [mil |-> 5, food |-> 1]) EXCEPT !.own = 2],
           p1 |-> [Craft("plane", 3, 50, None) EXCEPT !.off = TRUE]], 5000)

\* soldiers alone hold a sector and are delivered to a town; a town that rises
\* when the guerrillas of it are nearly as many as fit
Outpost ==
    World([Land(1, "fort", [mil |-> 12, food |-> 20]) EXCEPT !.del = [mil |-> [to |-> 2, thresh |-> 0]]],
          Land(2, "capital", [civ |-> 50, food |-> 20]), Sea, None, 5000)
Seething ==
    World([Land(1, "capital", [civ |-> 400, uw |-> 100, food |-> 50]) EXCEPT
              !.loyal = 80, !.che = 250, !.tgt = 1], Sea, Sea,
          [l \in {"l1", "l2", "l3"} |-> Craft("land", 1, 100, [mil |-> 100, food |-> 9])], 5000)

AllWorlds == {Trade, Poor, Rising, Restless, Fleeing, Hunger, Glowing, Coast}
OutpostOnly == {Outpost}
SeethingOnly == {Seething}
Befriended == {<<1, 2>>}
Dissolved == {3}
Angry == {2}
==============================================================================
