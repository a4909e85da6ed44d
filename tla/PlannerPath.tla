---------------------------- MODULE PlannerPath ----------------------------
(***************************************************************************)
(* The path Planner::plan makes of the search's: the previous plan's may   *)
(* be kept instead, and the path is ended where it comes to an unknown     *)
(* cell and where the horizon ends it.  It goes on to the corridor, and    *)
(* its end may become the goal.                                            *)
(*                                                                         *)
(* Points are in quarters of a cell from the map's origin.  Lethal cells   *)
(* lie within inscribed ones, occupied_val, and are not told apart.        *)
(***************************************************************************)
EXTENDS JPS

CONSTANTS
  Unknowns,  \* sets of cells, each all that hold NO_INFORMATION
  OldPaths   \* paths of earlier plans on this map; the empty one without jps_hysteresis

Points == (0 .. 4 * sizeX - 1) \X (0 .. 4 * sizeY - 1)

ASSUME PlannerPathAssumption ==
  /\ Unknowns \subseteq SUBSET Cells
  /\ \A p \in OldPaths : p \in Seq(Points) /\ Len(p) # 1

VARIABLES
  stage,         \* "search", "chosen", "refined", then "corridor" or "refused"
  unknown,
  plan_in_free,
  kept,          \* the path is the earlier plan's
  jpsPath,
  _goal

path_vars == <<stage, unknown, plan_in_free, kept, jpsPath, _goal>>

-----------------------------------------------------------------------------
(* The grid (map_util.h).                                                   *)

Centre(c) == <<4 * c[1] + 2, 4 * c[2] + 2>>
world_to_map(p) == <<p[1] \div 4, p[2] \div 4>>

index_to_cells(n) == <<n % sizeX, n \div sizeX>>
cells_to_index(c) == c[2] * sizeX + c[1]
map_to_world(n) == Centre(index_to_cells(n))

is_occupied(n) == n \in occupied

\* The obstacles that the corridor is cut round (corridor.h).
getOccupied == {map_to_world(n) : n \in {n \in 0 .. sizeX * sizeY - 1 : is_occupied(n)}}

\* The first index on the ray that is to stop it, or the last; each turn of the loop looks
\* before and after its step aside.
bresenham(da, db, offset_a, offset_b, offset, stops) ==
  LET At(n) == offset + ((n + 1) \div 2) * offset_a
                      + ((da \div 2 + (n \div 2) * db) \div da) * offset_b
      hits == {n \in 1 .. 2 * da : At(n) \in stops}
  IN IF da = 0 THEN offset ELSE At(IF hits = {} THEN 2 * da ELSE Min(hits))

\* The centre of the cell where the ray from p's cell to e's ends.
raycast(p, e, stops) ==
  LET s == world_to_map(p)
      dx == world_to_map(e)[1] - s[1]
      dy == world_to_map(e)[2] - s[2]
      offset_dx == IF dx > 0 THEN 1 ELSE -1
      offset_dy == (IF dy > 0 THEN 1 ELSE -1) * sizeX
      from == cells_to_index(s)
  IN map_to_world(
       IF Abs(dx) >= Abs(dy)
       THEN bresenham(Abs(dx), Abs(dy), offset_dx, offset_dy, from, stops)
       ELSE bresenham(Abs(dy), Abs(dx), offset_dy, offset_dx, from, stops))

-----------------------------------------------------------------------------
(* The path's choice and its two cuts.                                      *)

Minus(p, e) == <<p[1] - e[1], p[2] - e[2]>>
Dot(v, w) == v[1] * w[1] + v[2] * w[2]

\* Some ray along the path ends more than a cell's width before its point: obstacles closer
\* to a point are not noticed.
JPSIntersectObs(p) ==
  \E n \in 1 .. Len(p) - 1 :
    LET short == Minus(p[n + 1], raycast(p[n], p[n + 1], occupied)) IN Dot(short, short) > 16

\* The angle between the ways from first to last point is over 30 degrees; a path that
\* comes back to its start has none.
Turned(p, e) ==
  LET v == Minus(Last(p), Head(p))
      w == Minus(Last(e), Head(e))
  IN /\ Dot(v, v) * Dot(w, w) # 0
     /\ Dot(v, w) < 0 \/ 4 * Dot(v, w) * Dot(v, w) < 3 * Dot(v, v) * Dot(w, w)

\* A slip: the path goes on behind the unknown cell.
getJPSInFreeBeyond(p) ==
  LET free[n \in 1 .. Len(p)] ==
        IF n = 1 THEN <<p[1]>>
        ELSE Append(free[n - 1],
                    raycast(p[n - 1], p[n], {cells_to_index(c) : c \in unknown}))
  IN free[Len(p)]

\* Up to the first unknown cell a ray along the path looks at, that cell included.
getJPSInFree(p) ==
  LET end[n \in 1 .. Len(p) - 1] ==
        raycast(p[n], p[n + 1], {cells_to_index(c) : c \in unknown})
      ended == {n \in DOMAIN end : end[n] # p[n + 1]}
  IN IF ended = {} THEN p ELSE Append(SubSeq(p, 1, Min(ended)), end[Min(ended)])

\* The path to a quarter of its n-th segment; the horizon may end in any segment
\* that has a length.
truncateJPS(p, n, quarter) ==
  Append(SubSeq(p, 1, n),
         LET step == Minus(p[n + 1], p[n])
         IN <<p[n][1] + (quarter * step[1]) \div 4,
                p[n][2] + (quarter * step[2]) \div 4>>)

-----------------------------------------------------------------------------
(* Planner::plan, up to the corridor.                                       *)

\* set_start, set_goal and set_costmap; the goal is anywhere in its cell.
PlanInit ==
  /\ Init
  /\ stage = "search" /\ unknown = {} /\ plan_in_free = FALSE
  /\ kept = FALSE /\ jpsPath = <<>>
  /\ _goal = <<4 * dest[1] + 1, 4 * dest[2] + 3>>

\* The search and getPath are JPSPlan's.
Searching == stage = "search" /\ (Search \/ getPath) /\ UNCHANGED path_vars

\* JPSPlan is plan's own and ends with the search.
ForgetSearch ==
  /\ phase' = "start"
  /\ q' = EmptyBag /\ closedSet' = {} /\ parents' = <<>> /\ straight' = <<>>
  /\ diag' = [from |-> start, at |-> start, dir |-> <<1, 1>>, cost |-> 0]
  /\ simplify' = simplify /\ path' = <<>> /\ i' = start /\ k' = 1
  /\ UNCHANGED input

Failed == phase = "none" \/ (phase = "done" /\ Len(path) < 2)

JPSFails ==
  /\ stage = "search" /\ Failed
  /\ stage' = "refused"
  /\ ForgetSearch
  /\ UNCHANGED <<unknown, plan_in_free, kept, jpsPath, _goal>>

\* The earlier plan's path is taken when it leads elsewhere and the new one is not clearly
\* shorter.  The search took unknown cells for free: they are chosen here.
ChoosePath(old) ==
  /\ stage = "search" /\ phase = "done" /\ ~Failed
  /\ LET new == [n \in DOMAIN path |-> Centre(path[n])]
     IN \E longer \in BOOLEAN :
          /\ kept' = (old # <<>> /\ ~JPSIntersectObs(old) /\ Turned(old, new) /\ longer)
          /\ jpsPath' = IF kept' THEN old ELSE new
  /\ \E u \in Unknowns : unknown' = u \ {c \in Cells : Occ(c)}
  /\ plan_in_free' \in BOOLEAN
  /\ stage' = "chosen"
  /\ ForgetSearch /\ UNCHANGED _goal

RefinePath ==
  /\ stage = "chosen" /\ stage' = "refined"
  /\ jpsPath' = IF plan_in_free THEN getJPSInFree(jpsPath) ELSE jpsPath
  /\ UNCHANGED <<vars, unknown, plan_in_free, kept, _goal>>

\* The horizon is longer than the path, or cuts it and makes its end the goal.
TruncatePath ==
  /\ stage = "refined" /\ stage' = "corridor"
  /\ \/ UNCHANGED <<jpsPath, _goal>>
     \/ \E n \in 1 .. Len(jpsPath) - 1, quarter \in 1 .. 4 :
          /\ jpsPath[n] # jpsPath[n + 1]
          /\ jpsPath' = truncateJPS(jpsPath, n, quarter)
          /\ _goal' = Last(jpsPath')
  /\ UNCHANGED <<vars, unknown, plan_in_free, kept>>

PathReady ==
  /\ stage \in {"corridor", "refused"} \/ phase = "undefined"
  /\ UNCHANGED <<vars, path_vars>>

PlanNext ==
  \/ Searching \/ JPSFails
  \/ \E old \in OldPaths : ChoosePath(old)
  \/ RefinePath \/ TruncatePath \/ PathReady

PlanSpec == PlanInit /\ [][PlanNext]_<<vars, path_vars>>

-----------------------------------------------------------------------------
(* Properties.                                                              *)

\* What the corridor is made along has two points at least, and with plan_in_free the rays
\* between its points look at nothing unknown, but for the last ray, which the cuts change.
\* When it is the path found, as getPath traced it, it begins in the robot's cell, which
\* getPath's limit cannot cut off a map of fewer cells; it ends off the obstacles, or where
\* cells meet, unless it ends in the unknown, where a ray's cell may be beside the path;
\* and the solver's goal is where it ends, or that is unknown.
Fits ==
  LET cell == [n \in DOMAIN jpsPath |-> world_to_map(jpsPath[n])]
  IN /\ Len(jpsPath) >= 2
     /\ plan_in_free =>
          \A n \in 1 .. Len(cell) - 2 :
            Ray(cell[n], cell[n + 1]) \cap unknown \subseteq {cell[n], cell[n + 1]}
     /\ ~kept /\ ~simplify =>
          /\ MaxLinks >= sizeX * sizeY => Head(cell) = start
          /\ \/ plan_in_free
             \/ Centre(Last(cell)) \notin getOccupied
             \/ \A x \in {1, 2} : Last(jpsPath)[x] % 4 = 0
          /\ world_to_map(_goal) = Last(cell) \/ Last(cell) \in unknown

\* What plan_in_free changes ends the path, which is as it was up to there.
CutOnce == IsPrefix(Front(jpsPath'), jpsPath)

\* The ray ends in a cell's centre: it does not reach a point of an earlier path that an
\* earlier horizon put elsewhere in its cell.
CutOffCentre ==
  LET p == jpsPath[Len(jpsPath')]
  IN kept /\ p # Centre(world_to_map(p)) /\ Last(jpsPath') = Centre(world_to_map(p))

\* The path fits the start, the goal and the grid after both cuts.  The first of them comes
\* once, where the unknown begins or a kept path was cut before; a point of the path found
\* that is itself in an unknown cell is not noticed.
RouteFits ==
  [][/\ stage = "chosen" /\ jpsPath' # jpsPath =>
          CutOnce /\ (world_to_map(Last(jpsPath')) \in unknown \/ CutOffCentre)
     /\ stage = "refined" => Fits']_<<vars, path_vars>>
=============================================================================
