------------------------------ MODULE EmpPaths -------------------------------
(***************************************************************************)
(* common/pathfind.c: cheapest paths by Dijkstra's algorithm.  A caller    *)
(* sets the source, asks for the cost to one destination after another,    *)
(* and for the route to one it has got a cost for.  What a search has      *)
(* found is kept for the next one, and is told from what earlier sources   *)
(* left in the same array by a counter of few bits, pf_visit.              *)
(***************************************************************************)
EXTENDS EmpHex, FiniteSets, FiniteSetsExt, SequencesExt, TLC

CONSTANTS PathWorlds,   \* what the sectors may be like when a source is set
          PathActors,
          PathSources, PathDests,
          VisitMod,     \* one more than the greatest unsigned short
          TmpSize,      \* size of bufrotate()'s tmp[]
          NoHex

VARIABLES pfCost,       \* pf_sct_cost(pf_actor, uid)
          pfSource,
          pfVisit,      \* pf_visit, 0 before there is a map
          pfMap, pfHeap,
          pfTo,         \* the destination path_find_to() is looking for
          pfFound       \* the last it was asked for, and the cost it returned

pathVars == <<pfCost, pfSource, pfVisit, pfMap, pfHeap, pfTo, pfFound>>

DirStop == 0
MobTypes == {"land", "sail", "fly"}

-----------------------------------------------------------------------------
(* What it costs to enter a sector; -1 means it can't be entered *)

CostLand(sect, actor) == IF sect.own # actor THEN -1 ELSE sect.mcost
CostSail(sect) == IF sect.sail THEN 1 ELSE -1
CostTab(world, actor, mobtype) ==
    [s \in Hexes |-> IF mobtype = "land" THEN CostLand(world[s], actor)
                     ELSE IF mobtype = "sail" THEN CostSail(world[s]) ELSE 1]
Costs == {CostTab(w, a, m) : w \in PathWorlds, a \in PathActors, m \in MobTypes}

ASSUME PathAssumption ==
    /\ PathSources \cup PathDests \subseteq Hexes /\ NoHex \notin Hexes
    /\ VisitMod \in Nat /\ VisitMod > 3 /\ TmpSize \in Nat \ {0}
    /\ \A w \in PathWorlds, s \in Hexes : w[s].mcost \in {-1} \cup (Nat \ {0})

-----------------------------------------------------------------------------
(***************************************************************************)
(* The heap.  p is pf_map, pf_heap and the element that moves.             *)
(***************************************************************************)
HeapSize(p) == Cardinality(DOMAIN p.heap)
Times(n) == [i \in 1..n |-> i]

HeapSwap(p, i, j) ==
    [p EXCEPT !.heap[i] = p.heap[j], !.heap[j] = p.heap[i],
              !.map[p.heap[j].uid].heapi = i, !.map[p.heap[i].uid].heapi = j]

\* Restore heap property after element n's cost decreased: at 0 it stops.
SiftUp(p, n) ==
    LET up(q, k) ==
          LET parent == (q.at - 1) \div 2
          IN  IF q.at = 0 \/ q.heap[parent].cost < q.heap[q.at].cost THEN [q EXCEPT !.at = 0]
              ELSE [HeapSwap(q, parent, q.at) EXCEPT !.at = parent]
    IN  FoldLeft(up, [p EXCEPT !.at = n], Times(n))

\* Restore heap property after element n's cost increased.
SiftDown(p, n) ==
    LET size == HeapSize(p)
        down(q, k) ==
          LET left == 2 * q.at + 1
              child == IF left + 1 < size /\ q.heap[left].cost > q.heap[left + 1].cost
                       THEN left + 1 ELSE left
          IN  IF left >= size \/ q.heap[q.at].cost < q.heap[child].cost THEN [q EXCEPT !.at = size]
              ELSE [HeapSwap(q, q.at, child) EXCEPT !.at = child]
    IN  FoldLeft(down, [p EXCEPT !.at = n], Times(size))

PathIsOpen(map, s)      == map[s].visit = pfVisit
PathIsClosed(map, s)    == map[s].visit > pfVisit
PathIsUnvisited(map, s) == map[s].visit < pfVisit

\* What members of an unvisited sector's entry are is forgotten.
Unvisited(visit) == [visit |-> visit, dir |-> DirStop, heapi |-> 0, cost |-> 0]

PathOpen(p, visit, s, dir, cost) ==
    LET i == HeapSize(p)
    IN  SiftUp([p EXCEPT !.map[s] = [visit |-> visit, dir |-> dir, heapi |-> i, cost |-> cost],
                         !.heap = [k \in 0..i |-> IF k = i THEN [uid |-> s, cost |-> cost] ELSE @[k]]], i)

PathClose(p) ==
    LET s == p.heap[0].uid
        n == HeapSize(p) - 1
        q == [p EXCEPT !.heap = [k \in 0..n - 1 |-> IF k = 0 THEN @[n] ELSE @[k]]]
        r == IF n = 0 THEN q ELSE SiftDown([q EXCEPT !.map[q.heap[0].uid].heapi = 0], 0)
    IN  [r EXCEPT !.map[s].visit = (pfVisit + 1) % VisitMod, !.map[s].heapi = 0]

Pf == [map |-> pfMap, heap |-> pfHeap, at |-> 0]
SetPf(p) == pfMap' = p.map /\ pfHeap' = p.heap

-----------------------------------------------------------------------------
(* The calls *)

PathInit ==
    /\ pfCost \in Costs /\ pfSource = NoHex /\ pfVisit = 0
    /\ pfMap = [s \in Hexes |-> Unvisited(0)] /\ pfHeap = <<>>
    /\ pfTo = NoHex /\ pfFound = [dest |-> NoHex, cost |-> -1]

\* Mutant: room for the open ones only.
VisitWrapsLate == (pfVisit + 2) % VisitMod < pfVisit

VisitWraps == (pfVisit + 3) % VisitMod < pfVisit

\* pf_set_source()
SetSource(s) ==
    LET clear == pfVisit = 0 \/ VisitWraps
        left == [t \in Hexes |-> Unvisited(IF clear THEN 0 ELSE pfMap[t].visit)]
    IN  /\ pfVisit' = IF clear THEN 1 ELSE pfVisit + 2
        /\ pfSource' = s
        /\ SetPf(PathOpen([map |-> left, heap |-> <<>>, at |-> 0], pfVisit', s, DirStop, 0))

\* The world may have changed since the last call.
PathFindFrom ==
    /\ pfTo = NoHex
    /\ pfCost' \in Costs
    /\ \E s \in PathSources : SetSource(s)
    /\ pfFound' = [dest |-> NoHex, cost |-> -1]
    /\ UNCHANGED pfTo

PathFindTo ==
    /\ pfTo = NoHex /\ pfVisit # 0
    /\ \E d \in PathDests :
         IF PathIsClosed(pfMap, d)
         THEN pfFound' = [dest |-> d, cost |-> pfMap[d].cost] /\ UNCHANGED pfTo
         ELSE pfTo' = d /\ UNCHANGED pfFound
    /\ UNCHANGED <<pfCost, pfSource, pfVisit, pfMap, pfHeap>>

Visit(p, top, d) ==
    LET s == Neighbor[top.uid][d]
    IN  IF ~PathIsUnvisited(p.map, s) \/ pfCost[s] < 0 THEN p
        ELSE PathOpen(p, pfVisit, s, d, top.cost + pfCost[s])

\* one turn of its loop
CloseCheapest ==
    /\ pfTo # NoHex /\ DOMAIN pfHeap # {} /\ pfHeap[0].uid # pfTo
    /\ SetPf(FoldLeft(LAMBDA p, d : Visit(p, pfHeap[0], d), PathClose(Pf), Times(6)))
    /\ UNCHANGED <<pfCost, pfSource, pfVisit, pfTo, pfFound>>

PathFound ==
    /\ pfTo # NoHex /\ (DOMAIN pfHeap # {} => pfHeap[0].uid = pfTo)
    /\ pfFound' = [dest |-> pfTo, cost |-> IF DOMAIN pfHeap = {} THEN -1 ELSE pfMap[pfTo].cost]
    /\ pfTo' = NoHex
    /\ UNCHANGED <<pfCost, pfSource, pfVisit, pfMap, pfHeap>>

PathNext == PathFindFrom \/ PathFindTo \/ CloseCheapest \/ PathFound

PathSpec == PathInit /\ [][PathNext]_pathVars

-----------------------------------------------------------------------------
(***************************************************************************)
(* path_find_route() writes the route from its end, from the end of the    *)
(* buffer, and goes on at the buffer's end when it reaches its beginning.  *)
(***************************************************************************)
Nul == 0
Rotate(buf, size, n) == [k \in 0..size - 1 |-> buf[(k + n) % size]]
BufRotate(buf, size, n) ==
    LET turn(q, k) == LET m == Min({q.left, TmpSize})
                      IN  [buf |-> Rotate(q.buf, size, m), left |-> q.left - m]
    IN  [FoldLeft(turn, [buf |-> buf, left |-> n], Times(n)).buf EXCEPT ![size - 1] = Nul]

Written(buf) == LET end == Min({k \in DOMAIN buf : buf[k] = Nul})
                IN  [k \in 1..end |-> buf[k - 1]]

PathFindRoute(size, s, d) ==
    LET back(q, k) ==
          LET dir == pfMap[q.at].dir
              i == (IF q.i = 0 THEN size ELSE q.i) - 1
          IN  IF dir = DirStop \/ q.at = s THEN q
              ELSE [q EXCEPT !.buf[i] = dir, !.i = i, !.len = @ + 1, !.at = Neighbor[@][DirBack(dir)]]
        end == FoldLeft(back, [at |-> d, i |-> size - 1, len |-> 0, buf |-> [k \in 0..size - 1 |-> Nul]],
                        Times(Cardinality(Hexes)))
    IN  [at |-> end.at, len |-> end.len,
         route |-> Written(IF end.len >= size THEN BufRotate(end.buf, size, end.i)
                           ELSE [k \in 0..end.len |-> end.buf[end.i + k]])]

-----------------------------------------------------------------------------
(* What is promised *)

Infinity == 1000000

\* The cost of the cheapest path, by relaxing all sectors as often as there
\* are some
CheapestPaths(cost, source) ==
    LET relax(best, k) ==
          [s \in Hexes |-> IF s = source THEN 0 ELSE IF cost[s] < 0 THEN Infinity
                           ELSE Min({best[s]} \cup {best[t] + cost[s] : t \in Around(s)})] @@ <<>>
        end == FoldLeft(relax, [s \in Hexes |-> IF s = source THEN 0 ELSE Infinity], Times(Cardinality(Hexes)))
    IN  [s \in Hexes |-> IF end[s] >= Infinity THEN -1 ELSE end[s]]
CheapestFrom == [c \in Costs |-> [s \in PathSources |-> CheapestPaths(c, s)]]
Cheapest(s) == CheapestFrom[pfCost][pfSource][s]

Walk(from, route) == FoldLeft(LAMBDA s, d : Neighbor[s][d], from, route)
Toll(from, route) ==
    FoldLeft(LAMBDA q, d : LET s == Neighbor[q.at][d] IN [at |-> s, sum |-> q.sum + pfCost[s]],
             [at |-> from, sum |-> 0], route).sum

\* pf_check()
HeapInOrder ==
    /\ \A i \in DOMAIN pfHeap :
         /\ pfMap[pfHeap[i].uid].heapi = i /\ PathIsOpen(pfMap, pfHeap[i].uid)
         /\ pfMap[pfHeap[i].uid].cost <= pfHeap[i].cost
         /\ \A c \in {2 * i + 1, 2 * i + 2} \cap DOMAIN pfHeap : pfHeap[i].cost <= pfHeap[c].cost
    /\ \A s \in Hexes : /\ pfMap[s].visit <= pfVisit + 1
                        /\ PathIsOpen(pfMap, s) => pfHeap[pfMap[s].heapi].uid = s

\* "If the route is longer than bufsiz-1 characters, it's truncated."
RouteAsAsked(size, d) ==
    LET all == PathFindRoute(Cardinality(Hexes) + 1, pfSource, d).route
        cut == PathFindRoute(size, pfSource, d)
    IN  /\ Walk(pfSource, all) = d /\ Toll(pfSource, all) = pfFound.cost
        /\ cut.len = Len(all) /\ cut.route = SubSeq(all, 1, Min({Len(all), size - 1}))
        /\ \A k \in DOMAIN all :
             LET from == Walk(pfSource, SubSeq(all, 1, k)) IN
             PathFindRoute(Cardinality(Hexes) + 1, from, d).route = SubSeq(all, k + 1, Len(all))

\* Whatever was asked before, with whatever sources in whatever world: a
\* sector that is closed has the cost of the cheapest path to it, so has the
\* answer, no path is found only where there is none, and the route that is
\* written leads there, costs that, and is cut where the buffer ends.
PathsAreCheapest ==
    pfVisit # 0 =>
      /\ HeapInOrder
      /\ \A s \in Hexes : PathIsClosed(pfMap, s) => pfMap[s].cost = Cheapest(s)
      /\ pfFound.dest # NoHex => pfFound.cost = Cheapest(pfFound.dest)
      /\ (pfTo = NoHex /\ pfFound.cost >= 0) => \A n \in 1..4 : RouteAsAsked(n, pfFound.dest)
=============================================================================
