------------------------------- MODULE Routes -------------------------------
(***************************************************************************)
(* The pure algorithms of the floor and of the road: picker paths          *)
(* (examples/wms/src/picking.rs), tours and their 2-opt refinement         *)
(* (examples/tms/src/route.rs), geofences (examples/tms/src/geo.rs).       *)
(*                                                                         *)
(* Bins are points of a grid.  Distances between stops are any symmetric   *)
(* table of naturals: the haversine formula is not modelled.  Fences are   *)
(* polygons with integer vertices.                                         *)
(***************************************************************************)
EXTENDS Integers, Sequences, FiniteSets, SequencesExt, FiniteSetsExt

CONSTANTS
  PickLists,   \* sequences of bins <<x, y>> to visit, x the aisle
  Legs,        \* the distances considered between two stops
  Stops,       \* the number of stops, the depot among them
  MaxPasses,   \* passes of two_opt_improve
  Fences,      \* polygons: sequences of vertices
  Spots,       \* positions a vehicle reports
  MaxFixes     \* positions reported (bound)

ASSUME RoutesAssumption ==
  /\ Legs \subseteq Nat /\ Stops \in Nat \ {0} /\ MaxPasses \in Nat /\ MaxFixes \in Nat

VARIABLES
  task,    \* what is computed: "none" yet, "picks", "tour" or "fences"
  picks,   \* the pick list
  far,     \* the distance of each pair of stops, 0 the depot
  tour,    \* the tour of two_opt_improve so far, stops but the depot
  passes,  \* passes made
  fixes,   \* history: the positions a vehicle reported
  zoned    \* history: the zone events of each fence, entered or not

rovars == <<task, picks, far, tour, passes, fixes, zoned>>

-----------------------------------------------------------------------------
(* Picker paths: permutations of the indices of a pick list.               *)

Indices(locs) == 1..Len(locs)
SquareDist(p, q) == (p[1] - q[1]) * (p[1] - q[1]) + (p[2] - q[2]) * (p[2] - q[2])
IsRoute(locs, order) == Len(order) = Len(locs) /\ Range(order) = Indices(locs)

\* The closest location not yet visited, the first of them in the list: from the
\* depot at the origin.
NearestNeighborRoute(locs) ==
  LET next(order, k) ==
        LET here == IF order = <<>> THEN <<0, 0>> ELSE locs[Last(order)]
            open == Indices(locs) \ Range(order)
            best == Min({SquareDist(here, locs[i]) : i \in open})
        IN Append(order, Min({i \in open : SquareDist(here, locs[i]) = best}))
  IN FoldLeft(next, <<>>, [k \in Indices(locs) |-> k])

Before(p, q) == p[1] < q[1] \/ (p[1] = q[1] /\ p[2] < q[2])
\* By aisle, then position; equal bins in the order of the list.
BatchRoute(locs) ==
  SetToSortSeq(Indices(locs), LAMBDA i, j : \/ Before(locs[i], locs[j])
                                            \/ locs[i] = locs[j] /\ i < j)

\* Aisles in order, every second visited one walked downwards.
SShapeRoute(locs) ==
  LET aisles == SetToSortSeq({locs[i][1] : i \in Indices(locs)}, LAMBDA a, b : a < b)
      up(a) == SelectSeq(BatchRoute(locs), LAMBDA i : locs[i][1] = a)
      walk(k) == IF k % 2 = 1 THEN up(aisles[k]) ELSE Reverse(up(aisles[k]))
  IN FoldLeft(LAMBDA r, k : r \o walk(k), <<>>, [k \in DOMAIN aisles |-> k])

-----------------------------------------------------------------------------
(* Tours.                                                                  *)

Pairs == {s \in SUBSET (0..(Stops - 1)) : Cardinality(s) = 2}
Leg(d, a, b) == IF a = b THEN 0 ELSE d[{a, b}]
\* tour_distance: from the depot round to the depot.
TourLength(d, t) ==
  IF t = <<>> THEN 0
  ELSE Leg(d, 0, t[1]) + Leg(d, Last(t), 0)
       + FoldLeft(LAMBDA n, i : n + Leg(d, t[i], t[i + 1]), 0, [i \in 1..(Len(t) - 1) |-> i])

\* nearest_neighbor_tour: the first of the closest stops, again and again.
NearestNeighborTour(d) ==
  LET next(t, k) ==
        LET here == IF t = <<>> THEN 0 ELSE Last(t)
            open == (1..(Stops - 1)) \ Range(t)
            best == Min({Leg(d, here, j) : j \in open})
        IN Append(t, Min({j \in open : Leg(d, here, j) = best}))
  IN FoldLeft(next, <<>>, [k \in 1..(Stops - 1) |-> k])

\* The tour with its stretch from i to j reversed.
Reversed(t, i, j) == [k \in DOMAIN t |-> IF k \in i..j THEN t[i + j - k] ELSE t[k]]
Swaps(t) == {s \in (DOMAIN t) \X (DOMAIN t) : s[1] < s[2]}
Gain(d, t, s) == TourLength(d, t) - TourLength(d, Reversed(t, s[1], s[2]))

-----------------------------------------------------------------------------
(* Geofences.                                                              *)

\* One step of point_in_polygon: the ray from p crosses the edge from a to b; the
\* division of the source is multiplied out.  Points are <<lat, lng>>.
Crosses(p, a, b) ==
  /\ (a[1] > p[1]) # (b[1] > p[1])
  /\ LET cross == (b[2] - a[2]) * (p[1] - a[1]) - (p[2] - a[2]) * (b[1] - a[1])
     IN IF b[1] > a[1] THEN cross > 0 ELSE cross < 0

\* contains(): the even-odd rule; a ring of two points contains nothing.
Inside(ring, p) ==
  /\ Len(ring) >= 3
  /\ Cardinality({i \in DOMAIN ring :
       Crosses(p, ring[i], ring[IF i = 1 THEN Len(ring) ELSE i - 1])}) % 2 = 1

\* crossing(): the zone event between two positions, if any: entered or left.
Crossing(ring, was, is) ==
  IF Inside(ring, was) = Inside(ring, is) THEN <<>> ELSE <<Inside(ring, is)>>

-----------------------------------------------------------------------------
(* Steps.                                                                  *)

RoInit ==
  /\ task = "none" /\ picks = <<>> /\ far = <<>> /\ tour = <<>> /\ passes = 0
  /\ fixes = <<>> /\ zoned = [f \in DOMAIN Fences |-> <<>>]

\* A pick list to route.
TakeList(locs) ==
  /\ task = "none" /\ task' = "picks" /\ picks' = locs
  /\ UNCHANGED <<far, tour, passes, fixes, zoned>>
\* Stops to tour: optimize() starts from the greedy tour.
TakeStops(d) ==
  /\ task = "none" /\ task' = "tour" /\ far' = d /\ tour' = NearestNeighborTour(d)
  /\ UNCHANGED <<picks, passes, fixes, zoned>>

\* variant: any swap is taken
TwoOptPass_blind ==
  /\ task = "tour" /\ passes < MaxPasses /\ Swaps(tour) # {}
  /\ \E s \in Swaps(tour) : tour' = Reversed(tour, s[1], s[2])
  /\ passes' = passes + 1
  /\ UNCHANGED <<task, picks, far, fixes, zoned>>
\* One pass of two_opt_improve: a best one among the improving swaps; which, when
\* several gain the same, depends on the order they come in.
TwoOptPass ==
  /\ task = "tour" /\ passes < MaxPasses /\ Swaps(tour) # {}
  /\ \E s \in Swaps(tour) :
       /\ Gain(far, tour, s) > 0
       /\ \A r \in Swaps(tour) : Gain(far, tour, r) <= Gain(far, tour, s)
       /\ tour' = Reversed(tour, s[1], s[2])
  /\ passes' = passes + 1
  /\ UNCHANGED <<task, picks, far, fixes, zoned>>

\* A vehicle reports its position; the fences compare it with the one before.
Report(p) ==
  /\ task \in {"none", "fences"} /\ Len(fixes) < MaxFixes
  /\ task' = "fences"
  /\ fixes' = Append(fixes, p)
  /\ zoned' = [f \in DOMAIN Fences |->
                 IF fixes = <<>> THEN zoned[f] ELSE zoned[f] \o Crossing(Fences[f], Last(fixes), p)]
  /\ UNCHANGED <<picks, far, tour, passes>>

RoNext ==
  \/ \E locs \in PickLists : TakeList(locs)
  \/ \E d \in [Pairs -> Legs] : TakeStops(d)
  \/ TwoOptPass
  \/ \E p \in Spots : Report(p)
RoSpec == RoInit /\ [][RoNext]_rovars

-----------------------------------------------------------------------------
(* Properties.                                                             *)

\* The serpentine visits every bin once, no aisle twice, and turns at the end of
\* every aisle it visits, empty aisles in between or not.
SerpentineTurns ==
  LET r == SShapeRoute(picks)
      y(k) == picks[r[k]][2]
      x(k) == picks[r[k]][1]
      before(k) == {x(i) : i \in 1..k}
  IN /\ IsRoute(picks, r) /\ IsRoute(picks, NearestNeighborRoute(picks)) /\ IsRoute(picks, BatchRoute(picks))
     /\ \A k \in 1..(Len(r) - 1) : x(k) <= x(k + 1)
     /\ \A k \in 1..(Len(r) - 1) :
          x(k) = x(k + 1) => IF Cardinality(before(k)) % 2 = 1 THEN y(k) <= y(k + 1) ELSE y(k) >= y(k + 1)

\* Refinement keeps the tour a tour and never makes it longer than its seed.
TourNeverWorse ==
  task = "tour" =>
  /\ Len(tour) = Stops - 1 /\ Range(tour) = 1..(Stops - 1)
  /\ TourLength(far, tour) <= TourLength(far, NearestNeighborTour(far))

\* Fences that share an edge share no position, a position on the edge included:
\* a vehicle is in one zone at most, and a zone's events tell whether it is there,
\* alternating between entries and exits.
ZonesTellPosition ==
  /\ \A f, g \in DOMAIN Fences : \A p \in Range(fixes) :
       f # g => ~(Inside(Fences[f], p) /\ Inside(Fences[g], p))
  /\ \A f \in DOMAIN Fences :
       /\ \A k \in 1..(Len(zoned[f]) - 1) : zoned[f][k] # zoned[f][k + 1]
       /\ zoned[f] # <<>> => Last(zoned[f]) = Inside(Fences[f], Last(fixes))

\* What the route code promises: the serpentine is one, refinement never lengthens a
\* tour, and zone events tell where the vehicle is.
RoutesSound ==
  /\ SerpentineTurns
  /\ TourNeverWorse
  /\ ZonesTellPosition
=============================================================================
