------------------------------- MODULE EmpHex --------------------------------
(***************************************************************************)
(* The map: a torus of hexagons.  Sector x, y exists where x + y is even;  *)
(* its neighbors are one to the side and one up or down, or two to the     *)
(* side.                                                                   *)
(***************************************************************************)
EXTENDS Integers

CONSTANTS WorldX, WorldY    \* WORLD_X, WORLD_Y

ASSUME HexAssumption == {WorldX, WorldY} \subseteq Nat \ {0} /\ WorldX % 2 = 0 /\ WorldY % 2 = 0

Hexes == {s \in (0..WorldX - 1) \X (0..WorldY - 1) : (s[1] + s[2]) % 2 = 0}

\* diroff[], from DIR_FIRST to DIR_LAST
DirOff == << <<1, -1>>, <<2, 0>>, <<1, 1>>, <<-1, 1>>, <<-2, 0>>, <<-1, -1>> >>
Dirs == DOMAIN DirOff
Moved(s, dx, dy) == << (s[1] + dx + WorldX) % WorldX, (s[2] + dy + WorldY) % WorldY >>
Neighbor == [s \in Hexes |-> [d \in Dirs |-> Moved(s, DirOff[d][1], DirOff[d][2])]]
Around(s) == {Neighbor[s][d] : d \in Dirs}
DirBack(d) == IF d > 3 THEN d - 3 ELSE d + 3

Half(n) == n \div 2
Delta(a, b, size) == LET d == (IF a < b THEN b - a ELSE a - b) % size
                     IN  IF d > Half(size) THEN size - d ELSE d
MapDist == [s \in Hexes |-> [t \in Hexes |->
              LET dx == Delta(s[1], t[1], WorldX)
                  dy == Delta(s[2], t[2], WorldY)
              IN  IF dx > dy THEN Half(dx - dy) + dy ELSE dy]]
=============================================================================
