----------------------------- MODULE EmpFairland -----------------------------
(***************************************************************************)
(* util/fairland.c: make a world.  Capitals drift apart on a torus of      *)
(* hexagons, a continent grows around each of them, and then every         *)
(* continent gets as many islands of the same sizes in its sphere of       *)
(* influence.  When the room does not suffice all is begun again.          *)
(*                                                                         *)
(* Random numbers with weights are choices among what has a weight.  The   *)
(* arrays own and adj_land always agree with sect[][] and isecs[], and are *)
(* defined from them.  Elevations and resources, which follow, change      *)
(* nothing that is of interest here.                                       *)
(***************************************************************************)
EXTENDS EmpHex, FiniteSetsExt, SequencesExt

CONSTANT Orders   \* the command lines

VARIABLES
  order,     \* what parse_args() makes of one: the next variables of the code
  phase,     \* "drift", "capitals", "continents", "spheres", "zones", "place", "grow", "done", "failed"
  try,
  cap,       \* capital locations
  isl,       \* sect[] and isecs[]: the sectors of each island, in order
  xzone,     \* exclusive zones: an island, None1 or Many
  closest,   \* closest continent, None1 if no single one is
  sizes,     \* island_size[]
  group,     \* i in grow_islands()
  j,         \* the next continent, in any of the loops over them
  secs,      \* drift: the number of turns; else what it is in the code
  done, carry,
  mc,        \* stable()'s
  aborted    \* an assertion failed

fairVars == <<order, phase, try, cap, isl, xzone, closest, sizes, group, j, secs, done, carry, mc, aborted>>

None1 == -1
Many == -2
NoZones == [s \in Hexes |-> None1]

Nc == order.nc                      \* number and
Sc == order.sc                      \* size of continents
Ni == order.ni                      \* number and
Is == order.is                      \* average size of islands
Spike == order.sp                   \* per cent
Di == order.di                      \* least distances
Id == order.id
DistinctIslands == order.distinct   \* DISTINCT_ISLANDS; option -i clears it
NumTries == order.tries             \* NUMTRIES

FairMin(a, b) == IF a < b THEN a ELSE b

Conts == 0..Nc - 1
Islands == 0..Nc + Ni - 1
PerCont == Ni \div Nc               \* islands for each continent
\* parse_args(); with no islands size_islands() would write where nothing is.
\* drift() exits when there is no room for the capitals.  In a world of two
\* columns a sector is next to itself, and an assertion of add_sector() fails.
ASSUME FairlandAssumption ==
  /\ WorldX > 2
  /\ \A o \in Orders :
       /\ {o.nc, o.ni, o.is, o.tries} \subseteq Nat \ {0} /\ o.sc \in Nat \ {0, 1} /\ o.ni % o.nc = 0
       /\ o.sp \in 0..100 /\ {o.di, o.id} \subseteq Nat /\ o.distinct \in BOOLEAN
       /\ \A i \in 0..o.nc - 1 : (2 * i) \div WorldX < WorldY

-----------------------------------------------------------------------------
(* Drifting capitals *)

DriftBeforeCheck == Half(WorldX + WorldY)
DriftMax == (WorldX + WorldY) * 2
StableCycle == 4

\* iso(); INT_MAX is further than anything
Iso(c, s) == Min({WorldX + WorldY} \cup {MapDist[cap[i]][s] : i \in Conts \ {c}})

Isolation == Max({Iso(c, cap[c]) : c \in Conts})

\* The first capital is at 0, 0 and the next ones are right to it.
FirstCaps == [i \in Conts |-> LET y == (2 * i) \div WorldX IN <<((2 * i) % WorldX) + (y % 2), y>>]

FairInit ==
  /\ order \in Orders
  /\ phase = "drift" /\ try = 0 /\ cap = FirstCaps
  /\ isl = [c \in Islands |-> <<>>] /\ xzone = NoZones /\ closest = NoZones
  /\ sizes = <<>> /\ group = 0 /\ j = 0 /\ secs = 0 /\ done = TRUE /\ carry = 0
  /\ mc = [i \in 0..StableCycle - 1 |-> i] /\ aborted = FALSE

(***************************************************************************)
(* A turn of drift() begins with stable().                                 *)
(***************************************************************************)
IsStable == secs > DriftBeforeCheck /\ \A i \in DOMAIN mc : mc[i] = Isolation

DriftEnds ==
  /\ phase = "drift" /\ j = 0
  /\ secs = DriftMax \/ IsStable
  /\ phase' = "capitals" /\ secs' = 0
  /\ UNCHANGED <<order, try, cap, isl, xzone, closest, sizes, group, j, done, carry, mc, aborted>>

\* Mutant: any step is as good.
AnyBetter(c, s) == TRUE

AtLeastAsIsolated(c, s) == Iso(c, s) >= Iso(c, cap[c])

DriftCapital ==
  /\ phase = "drift" /\ secs < DriftMax /\ (j = 0 => ~IsStable)
  /\ LET better == {s \in Around(cap[j]) : AtLeastAsIsolated(j, s)}
     IN  IF better = {} THEN UNCHANGED cap
         ELSE \E s \in better : cap' = [cap EXCEPT ![j] = s]
  /\ mc' = IF j = 0 /\ secs > DriftBeforeCheck THEN [mc EXCEPT ![secs % StableCycle] = Isolation] ELSE mc
  /\ j' = (j + 1) % Nc
  /\ secs' = IF j' = 0 THEN secs + 1 ELSE secs
  /\ UNCHANGED <<order, phase, try, isl, xzone, closest, sizes, group, done, carry, aborted>>

-----------------------------------------------------------------------------
(* Land and the zones around it *)

AllLand == UNION {ToSet(isl[c]) : c \in Islands}
Near(s, d) == {t \in Hexes : MapDist[s][t] <= d}

XzoneOk(zone, c, s) == zone[s] \in {c, None1}

\* Mutant: an overlap belongs to who came last.
AroundSectorLast(zone, c, s, d) ==
  [t \in Hexes |-> IF t \in Near(s, d) THEN c ELSE zone[t]]

\* xzone_around_sector()
AroundSector(zone, c, s, d) ==
  [t \in Hexes |-> IF t = s THEN c
                   ELSE IF t \notin Near(s, d) \/ zone[t] = c THEN zone[t]
                   ELSE IF zone[t] = None1 THEN c ELSE Many]

\* xzone_around_island(); y.ok is whether the assertion in xzone_around_sector() held
AroundIsland(y, c, sectors, d) ==
  LET sector(z, s) == [ok |-> z.ok /\ XzoneOk(z.zone, c, s), zone |-> AroundSector(z.zone, c, s, d)]
  IN  FoldLeft(sector, y, sectors)

\* xzone_init()
XzoneInit(n) ==
  LET island(y, c) == AroundIsland(y, c, isl[c], Id)
  IN  FoldLeft(island, [ok |-> TRUE, zone |-> NoZones], [i \in 1..n |-> i - 1])

Sphere(c, s) == c < Nc \/ closest[s] = c % Nc
CanGrowAt(zone, land, c, s) == s \notin land /\ XzoneOk(zone, c, s) /\ Sphere(c, s)

Width(c) == IF c < Nc THEN Di ELSE IF DistinctIslands THEN Id ELSE 0

\* add_sector()
AddSector(c, s) ==
  /\ isl' = [isl EXCEPT ![c] = Append(@, s)]
  /\ xzone' = AroundSector(xzone, c, s, Width(c))

(***************************************************************************)
(* grow_one_sector().  A spike does not grow where only land is around: if *)
(* such a place is looked at first, roll0() is asked for a number below 0. *)
(***************************************************************************)
Weight(s, spike) == LET n == Cardinality({d \in Dirs : Neighbor[s][d] \in AllLand})
                    IN  IF spike THEN (6 - n) * (6 - n) ELSE n * n * n

Places(c) == {s \in UNION {Around(t) : t \in ToSet(isl[c])} : CanGrowAt(xzone, AllLand, c, s)}

\* in the order they are looked at: island's sectors first to last, then directions
FirstPlace(c) ==
  LET seen == FlattenSeq([i \in DOMAIN isl[c] |-> Neighbor[isl[c][i]]])
  IN  seen[SelectInSeq(seen, LAMBDA s : s \in Places(c))]

Grows(c, s, spike) == s \in Places(c) /\ Weight(s, spike) > 0
Spikes == {b \in BOOLEAN : IF b THEN Spike > 0 ELSE Spike < 100}
Hangs(c, spike) == Places(c) # {} /\ Weight(FirstPlace(c), spike) = 0

-----------------------------------------------------------------------------
(* Continents *)

\* What is written again before it is read is forgotten at once.
StartOver ==
  IF try + 1 < NumTries
  THEN /\ phase' = "drift" /\ try' = try + 1 /\ cap' = FirstCaps /\ secs' = 0 /\ j' = 0
       /\ isl' = [c \in Islands |-> <<>>] /\ mc' = [i \in DOMAIN mc |-> i] /\ done' = TRUE
       /\ xzone' = NoZones /\ closest' = NoZones /\ sizes' = <<>> /\ group' = 0 /\ carry' = 0
  ELSE phase' = "failed" /\ UNCHANGED <<try, cap, secs, j, isl, mc, done, xzone, closest, sizes, group, carry>>

Right(s) == Neighbor[s][2]

\* The first two sectors of continent c.
GrowCapital(w, c) ==
  IF \E s \in {cap[c], Right(cap[c])} : ~CanGrowAt(w.zone, UNION {ToSet(w.isl[i]) : i \in Conts}, c, s)
  THEN [w EXCEPT !.done = FALSE]
  ELSE [w EXCEPT !.isl[c] = <<cap[c], Right(cap[c])>>,
                 !.zone = AroundSector(AroundSector(@, c, cap[c], Di), c, Right(cap[c]), Di)]

GrowCapitals ==
  LET end == FoldLeft(GrowCapital, [isl |-> isl, zone |-> NoZones, done |-> TRUE], [i \in 1..Nc |-> i - 1])
  IN  /\ phase = "capitals"
      /\ IF end.done
         THEN /\ isl' = end.isl /\ phase' = "continents" /\ secs' = 2 /\ j' = 0 /\ done' = TRUE
              /\ xzone' = end.zone
              /\ UNCHANGED <<try, cap, mc, closest, sizes, group, carry>>
         ELSE StartOver
      /\ UNCHANGED <<order, aborted>>

\* One sector for island c, or not
GrowOneSector(c) ==
  \/ \E spike \in Spikes, s \in Hexes :
       Grows(c, s, spike) /\ ~Hangs(c, spike) /\ AddSector(c, s) /\ UNCHANGED done
  \/ Places(c) = {} /\ done' = FALSE /\ UNCHANGED <<isl, xzone>>

Turn == /\ j' = (j + 1) % Nc
        /\ secs' = IF j' = 0 THEN secs + 1 ELSE secs

GrowContinent ==
  /\ phase = "continents" /\ secs < Sc /\ (j = 0 => done)
  /\ GrowOneSector(j) /\ Turn
  /\ UNCHANGED <<order, phase, try, cap, closest, sizes, group, carry, mc, aborted>>

-----------------------------------------------------------------------------
(***************************************************************************)
(* Spheres of influence.  The searches are breadth first: what is reached  *)
(* from several sources at once belongs to them all if they are of one     *)
(* continent, else to none.  The first starts from the coasts.  The second *)
(* starts from the borders, whose distance it sets to Id + 1, and goes     *)
(* where that makes the distance shorter.                                  *)
(***************************************************************************)
CoastOf(c) == {s \in ToSet(isl[c]) : ~(Around(s) \subseteq AllLand)}
Coasts == UNION {CoastOf(c) : c \in Conts}
Owner(s) == CHOOSE c \in Islands : s \in ToSet(isl[c])

DistTo(s, sources) == Min({MapDist[s][t] : t \in sources})
Nearest(s, sources) == LET d == DistTo(s, sources) IN {t \in sources : MapDist[s][t] = d}
Single(owners) == IF Cardinality(owners) = 1 THEN CHOOSE c \in owners : TRUE ELSE None1

FromCoasts == [s \in Hexes |-> Single({Owner(t) : t \in Nearest(s, Coasts)})]

Influence(first, border, s) ==
  LET coast == DistTo(s, Coasts)
      dist(t) == Id + 1 + DistTo(t, border)
      owner(t) == Single({first[b] : b \in Nearest(t, border)})
      reached(t) == t \in border \/ dist(t) < DistTo(t, Coasts)
  IN  IF border = {} \/ s \in border \/ dist(s) > coast THEN first[s]
      ELSE IF reached(s) THEN owner(s)
      ELSE Single({first[s]} \cup {owner(t) : t \in {t \in Around(s) : reached(t) /\ dist(t) = coast - 1}})

Spheres(first) ==
  LET border == {s \in Hexes : /\ DistTo(s, Coasts) > Id + 1 /\ first[s] # None1
                                /\ \E t \in Around(s) : first[t] # first[s]}
  IN  [s \in Hexes |-> Influence(first, border, s)]

-----------------------------------------------------------------------------
(* Islands *)

\* size_islands(): sizes are neighbors' differences, largest first
Descending(s) == SortSeq(s, LAMBDA a, b : a > b)
Sizes == {Descending([i \in 1..PerCont |-> Is + r[i] - r[IF i = 1 THEN PerCont ELSE i - 1]]) :
            r \in [1..PerCont -> 0..Is - 1]}

ContinentsDone ==
  /\ phase = "continents" /\ j = 0 /\ (secs = Sc \/ ~done)
  /\ IF done
     THEN /\ sizes' \in Sizes /\ closest' = FromCoasts /\ carry' = 0
          /\ phase' = "spheres" /\ group' = 0
          /\ UNCHANGED <<try, cap, secs, j, isl, mc, done, xzone>>
     ELSE StartOver
  /\ UNCHANGED <<order, aborted>>

BordersSearched ==
  /\ phase = "spheres" /\ phase' = "zones" /\ closest' = Spheres(closest)
  /\ UNCHANGED <<order, try, cap, isl, xzone, sizes, group, j, secs, done, carry, mc, aborted>>

FirstOf == Nc + group * Nc          \* c in grow_islands()
ToGrow == FairMin(2 * Is, carry)    \* isiz

\* The beginning of a turn of grow_islands()'s loop, or its end
NextGroup ==
  /\ phase = "zones"
  /\ IF group = PerCont
     THEN phase' = "done" /\ UNCHANGED <<xzone, aborted, carry, j>>
     ELSE LET z == XzoneInit(FirstOf)
          IN  /\ xzone' = z.zone /\ aborted' = (aborted \/ ~z.ok)
              /\ carry' = carry + sizes[group + 1]
              /\ phase' = "place" /\ j' = 0
  /\ UNCHANGED <<order, try, cap, isl, closest, sizes, group, secs, done, mc>>

\* place_island() for all continents in turn
PlaceIsland ==
  /\ phase = "place"
  /\ LET room == {s \in Hexes : CanGrowAt(xzone, AllLand, FirstOf + j, s)}
     IN  IF room = {} THEN StartOver
         ELSE /\ \E s \in room : AddSector(FirstOf + j, s)
              /\ j' = (j + 1) % Nc
              /\ phase' = IF j' = 0 THEN "grow" ELSE "place"
              /\ secs' = 1 /\ done' = TRUE
              /\ UNCHANGED <<try, cap, mc, group, closest, sizes, carry>>
  /\ UNCHANGED <<order, aborted>>

GrowIsland ==
  /\ phase = "grow" /\ secs < ToGrow /\ (j = 0 => done)
  /\ GrowOneSector(FirstOf + j) /\ Turn
  /\ UNCHANGED <<order, phase, try, cap, closest, sizes, group, carry, mc, aborted>>

\* What has grown a sector more than it may gives it back.
GroupDone ==
  /\ phase = "grow" /\ j = 0 /\ (secs = ToGrow \/ ~done)
  /\ LET size == IF done THEN secs ELSE secs - 1
     IN  /\ isl' = [c \in Islands |-> IF c \in FirstOf..FirstOf + Nc - 1 THEN SubSeq(isl[c], 1, size) ELSE isl[c]]
         /\ carry' = carry - size
  /\ group' = group + 1 /\ phase' = "zones"
  /\ UNCHANGED <<order, try, cap, xzone, closest, sizes, j, secs, done, mc, aborted>>

FairNext ==
  \/ DriftEnds \/ DriftCapital \/ GrowCapitals \/ GrowContinent \/ ContinentsDone \/ BordersSearched
  \/ NextGroup \/ PlaceIsland \/ GrowIsland \/ GroupDone

FairSpec == FairInit /\ [][FairNext]_fairVars

-----------------------------------------------------------------------------
LeastDistance(caps) == Min({WorldX + WorldY} \cup
    {MapDist[caps[p[1]]][caps[p[2]]] : p \in {p \in Conts \X Conts : p[1] # p[2]}})

\* Drifting never brings the two closest capitals closer.
DriftSpreads == [][(phase = "drift" /\ phase' = "drift" /\ try' = try) => LeastDistance(cap') >= LeastDistance(cap)]_fairVars

Apart(c, d, dist) == \A s \in ToSet(isl[c]), t \in ToSet(isl[d]) : MapDist[s][t] > dist

\* All of an island is reached from its first sector over its own.
Whole(c) == LET all == ToSet(isl[c])
                more(r, n) == r \cup {t \in all : \E u \in r : t \in Around(u)}
            IN  all = {} \/ FoldLeft(more, {isl[c][1]}, isl[c]) = all

WorldAsAsked ==
  /\ \A c \in Islands : IsInjective(isl[c]) /\ Whole(c)
  /\ \A c, d \in Conts : c # d => Apart(c, d, Di)
  /\ \A c \in Conts, d \in Islands \ Conts : Apart(c, d, Id)
  /\ DistinctIslands => \A c, d \in Islands \ Conts : c # d => Apart(c, d, Id)
  /\ phase = "done" =>
       /\ \A c \in Conts : Len(isl[c]) = Sc
       /\ \A g \in 0..PerCont - 1 : \A a, b \in Conts : Len(isl[Nc + g * Nc + a]) = Len(isl[Nc + g * Nc + b])
  /\ ~aborted
=============================================================================
