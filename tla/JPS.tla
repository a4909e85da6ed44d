-------------------------------- MODULE JPS --------------------------------
(***************************************************************************)
(* The jump point search of JPS.cpp: JPSPlan::JPS, which fills in parents, *)
(* and JPSPlan::getPath, which reads the path from them.  A cell is a pair *)
(* <<x, y>>; the map is the set of the indices that hold occupied_val, and *)
(* is read by index as the code does: one column further than the last is  *)
(* the first of the next row, and what lies beyond the map is memory.      *)
(* The priority queue is a bag of which any best node may be on top.       *)
(***************************************************************************)
EXTENDS Integers, Sequences, SequencesExt, Bags

CONSTANTS
  sizeX, sizeY,  \* the map's columns and rows
  Maps,          \* sets of occupied indices, of the map and of the memory around it
  Queries,       \* pairs of a start and a destination
  Simplify,      \* values of getPath's parameter
  MaxLinks       \* the links getPath follows at most

Cells == (0 .. sizeX - 1) \X (0 .. sizeY - 1)

ASSUME JPSAssumption ==
  /\ sizeX \in Nat \ {0} /\ sizeY \in Nat \ {0}
  /\ Maps \subseteq SUBSET Int
  /\ Queries \subseteq Cells \X Cells
  /\ Simplify \subseteq BOOLEAN
  /\ MaxLinks \in Nat

VARIABLES
  occupied, start, dest,            \* set_map, set_start, set_destination
  phase,       \* "start", "pop", "diagonal", then "none" or "trace" .. "done", "undefined"
  q, closedSet, parents,
  straight,    \* the explore_straight calls to come, first to last
  diag,        \* the explore_diagonal under way: where from, where it is, its cost there
  simplify,    \* getPath's parameter
  path, i, k   \* getPath's ret and its two indices

input  == <<occupied, start, dest>>
search == <<q, closedSet, parents, straight, diag>>
result == <<simplify, path, i, k>>
vars   == <<input, phase, search, result>>

Cardinals == {<<1, 0>>, <<-1, 0>>, <<0, 1>>, <<0, -1>>}
Diagonals == {1, -1} \X {1, -1}
Dirs == Cardinals \cup Diagonals

Steps == 1 .. sizeX + sizeY  \* bound: no line through the map is longer

Abs(n) == IF n < 0 THEN -n ELSE n
Plus(c, d) == <<c[1] + d[1], c[2] + d[2]>>
Along(c, d, n) == <<c[1] + n * d[1], c[2] + n * d[2]>>
Index(c) == c[2] * sizeX + c[1]

Occ(c) == Index(c) \in occupied
Free(c) == c \in Cells /\ ~Occ(c)

chebyshev_dist(c, e) == Max({Abs(e[1] - c[1]), Abs(e[2] - c[2])})
manhattan_distance(c) == Abs(dest[1] - c[1]) + Abs(dest[2] - c[2])

-----------------------------------------------------------------------------
(* add_to_queue and add_to_parents.                                         *)

Node(c, d, cost) == [at |-> c, dir |-> d, cost |-> cost]

add_to_queue(nodes, closed) ==
  q' = q (+) SetToBag({n \in nodes : n.at \notin closed})

Link(c, from, cost) ==
  [n \in DOMAIN parents \cup {c} |->
     IF n = c THEN [from |-> from, cost |-> cost] ELSE parents[n]]

add_to_parents(c, from, cost) ==
  parents' = IF c \in DOMAIN parents => cost < parents[c].cost
             THEN Link(c, from, cost) ELSE parents

\* The cost an exploration starts from; parents[c].cost has the last link in it already.
StartCost(c) == parents[c].cost + chebyshev_dist(parents[c].from, c)

-----------------------------------------------------------------------------
(* The search.                                                              *)

Init ==
  /\ occupied \in Maps
  /\ \E query \in Queries : start = query[1] /\ dest = query[2]
  /\ phase = "start"
  /\ q = EmptyBag /\ closedSet = {} /\ parents = <<>> /\ straight = <<>>
  /\ diag = [from |-> start, at |-> start, dir |-> <<1, 1>>, cost |-> 0]
  /\ simplify = FALSE /\ path = <<>> /\ i = start /\ k = 1

NoDiagonal == diag' = [from |-> start, at |-> start, dir |-> <<1, 1>>, cost |-> 0]

\* Without an end outside obstacles there is nothing to search.
Begin ==
  /\ phase = "start"
  /\ IF Occ(start) \/ Occ(dest)
     THEN phase' = "none" /\ UNCHANGED <<q, parents>>
     ELSE /\ phase' = "pop"
          /\ q' = SetToBag({Node(start, d, 0) : d \in Dirs})
          /\ parents' = [c \in {start} |-> [from |-> start, cost |-> 0]]
  /\ UNCHANGED <<input, closedSet, straight, diag, result>>

Estimate(n) == n.cost + manhattan_distance(n.at)

Top(n) == BagIn(n, q) /\ \A m \in BagToSet(q) : Estimate(n) <= Estimate(m)

PopNothing ==
  /\ phase = "pop" /\ straight = <<>> /\ q = EmptyBag
  /\ phase' = "none"
  /\ UNCHANGED <<input, search, result>>

Pop(n) ==
  /\ phase = "pop" /\ straight = <<>>
  /\ Top(n)
  /\ q' = q (-) SetToBag({n})
  /\ UNCHANGED <<input, parents>>

PopGoal(n) ==
  /\ Pop(n) /\ n.at = dest
  /\ phase' = "trace"
  /\ simplify' \in Simplify
  /\ path' = <<dest>> /\ i' = parents[dest].from
  /\ UNCHANGED <<closedSet, straight, diag, k>>

\* A slip: the node's cell is not compared with the destination.
PopStraightOn(n) ==
  /\ Pop(n) /\ n.dir \in Cardinals
  /\ straight' = <<[at |-> n.at, dir |-> n.dir]>>
  /\ UNCHANGED <<phase, closedSet, diag, result>>

PopStraight(n) ==
  /\ Pop(n) /\ n.at # dest /\ n.dir \in Cardinals
  /\ straight' = <<[at |-> n.at, dir |-> n.dir]>>
  /\ UNCHANGED <<phase, closedSet, diag, result>>

PopDiagonal(n) ==
  /\ Pop(n) /\ n.at # dest /\ n.dir \in Diagonals
  /\ phase' = "diagonal"
  /\ closedSet' = closedSet \cup {n.at}
  /\ diag' = [from |-> n.at, at |-> n.at, dir |-> n.dir, cost |-> StartCost(n.at)]
  /\ UNCHANGED <<straight, result>>

\* The directions in which c, reached straight on in direction d, has a forced neighbour:
\* round an obstacle at its side.
Forced(c, d) ==
  {Plus(d, p) : p \in {p \in Cardinals :
      /\ p[1] * d[1] + p[2] * d[2] = 0
      /\ Plus(c, p) \in Cells /\ Occ(Plus(c, p))
      /\ ~Occ(Plus(Plus(c, p), d))}}

StopsAt(c, d) == ~Free(c) \/ c = dest \/ Forced(c, d) # {}

\* The whole call: from c in direction d to the first cell, n steps on, that stops it.
explore_straight(n) ==
  /\ straight # <<>>
  /\ straight' = Tail(straight)
  /\ LET c == Head(straight).at
         d == Head(straight).dir
         jump == Along(c, d, n)
         cost == StartCost(c) + n
     IN /\ StopsAt(jump, d)
        /\ \A m \in 1 .. n - 1 : ~StopsAt(Along(c, d, m), d)
        /\ closedSet' = closedSet \cup {c}
        /\ IF ~Free(jump)
           THEN UNCHANGED <<q, parents>>
           ELSE /\ add_to_parents(jump, c, cost)
                /\ add_to_queue({Node(jump, e, cost) :
                                   e \in {d} \cup (IF jump = dest THEN {} ELSE Forced(jump, d))},
                                closedSet')
  /\ UNCHANGED <<input, phase, diag, result>>

\* The same for a diagonal step from b to c: round an obstacle beside the step.
ForcedBeside(b, c, d) ==
  {e \in {<<-d[1], d[2]>>, <<d[1], -d[2]>>} :
     LET side == IF e[2] = d[2] THEN <<b[1], c[2]>> ELSE <<c[1], b[2]>>
         on   == IF e[2] = d[2] THEN <<0, d[2]>> ELSE <<d[1], 0>>
     IN Occ(side) /\ ~Occ(Plus(side, on))}

\* One turn of explore_diagonal's loop; the straight explorations follow it.
explore_diagonal ==
  /\ phase = "diagonal" /\ straight = <<>>
  /\ LET c == Plus(diag.at, diag.dir)
         d == diag.dir
         cost == diag.cost + 1
     IN IF ~Free(c)
        THEN /\ phase' = "pop" /\ NoDiagonal
             /\ UNCHANGED <<q, parents, straight>>
        ELSE /\ add_to_parents(c, diag.from, cost)
             /\ add_to_queue({Node(c, e, cost) :
                                e \in IF c = dest THEN {d} ELSE ForcedBeside(diag.at, c, d)},
                             closedSet)
             /\ IF c = dest
                THEN phase' = "pop" /\ NoDiagonal /\ UNCHANGED straight
                ELSE /\ straight' = <<[at |-> c, dir |-> <<d[1], 0>>],
                                      [at |-> c, dir |-> <<0, d[2]>>]>>
                     /\ diag' = [diag EXCEPT !.at = c, !.cost = cost]
                     /\ UNCHANGED phase
  /\ UNCHANGED <<input, closedSet, result>>

-----------------------------------------------------------------------------
(* getPath.  The path is built from its end, which reversing it undoes; the *)
(* conversion to world coordinates at the end is left out.                  *)

\* A slip: the last cell read is not added.
TraceShort ==
  /\ phase = "trace"
  /\ IF i # start /\ Len(path) <= MaxLinks
     THEN i' = parents[i].from /\ path' = <<i>> \o path /\ UNCHANGED phase
     ELSE phase' = (IF simplify THEN "simplify" ELSE "done") /\ UNCHANGED <<i, path>>
  /\ UNCHANGED <<input, search, simplify, k>>

Trace ==
  /\ phase = "trace"
  /\ path' = <<i>> \o path
  /\ IF i # start /\ Len(path) <= MaxLinks
     THEN i' = parents[i].from /\ UNCHANGED phase
     ELSE phase' = (IF simplify THEN "simplify" ELSE "done") /\ UNCHANGED i
  /\ UNCHANGED <<input, search, simplify, k>>

\* The cells that bresenham looks at between c and e; both are in the map.
Ray(c, e) ==
  LET dx == Abs(e[1] - c[1])
      dy == Abs(e[2] - c[2])
      da == Max({dx, dy})
      db == Min({dx, dy})
      sx == IF e[1] > c[1] THEN 1 ELSE -1
      sy == IF e[2] > c[2] THEN 1 ELSE -1
      At(a, b) == IF dx >= dy THEN <<c[1] + sx * a, c[2] + sy * b>>
                              ELSE <<c[1] + sx * b, c[2] + sy * a>>
      Side(a) == (da \div 2 + a * db) \div da
  IN UNION {{At(a, Side(a - 1)), At(a, Side(a))} : a \in 1 .. da}

isBlocked(c, e) == \E cell \in Ray(c, e) : Occ(cell)

\* p lies on the segment from c to e, which is neither level nor upright when slanted.
Between(c, p, e) ==
  /\ (p[1] - c[1]) * (e[2] - p[2]) = (p[2] - c[2]) * (e[1] - p[1])
  /\ (p[1] - c[1]) * (e[1] - p[1]) + (p[2] - c[2]) * (e[2] - p[2]) >= 0
Slanted(c, e) == c[1] # e[1] /\ c[2] # e[2]

\* A slip: what lies on the shortcut is not looked at.
ShorterBlindly(c, p, e, tested, rounding) ==
  ~Between(c, p, e) \/ (Slanted(c, e) /\ rounding)

\* cost3 < cost1 + cost2, where a blocked segment costs infinity; the first segment is
\* tested, later ones are not.  When p is on the segment the sums are equal, but for the
\* rounding of a slanted segment's length.
Shorter(c, p, e, tested, rounding) ==
  /\ ~isBlocked(c, e)
  /\ \/ tested /\ isBlocked(c, p)
     \/ isBlocked(p, e)
     \/ ~Between(c, p, e)
     \/ Slanted(c, e) /\ rounding

simplifyPath(p, rounding) ==
  LET kept[n \in 1 .. Len(p)] ==
        IF n = 1 THEN <<p[1]>>
        ELSE IF n < Len(p) /\ Shorter(Last(kept[n - 1]), p[n], p[n + 1], n = 2, rounding)
             THEN kept[n - 1]
             ELSE Append(kept[n - 1], p[n])
  IN kept[Len(p)]

\* From the start, then from the end.
SimplifyTwice ==
  /\ phase = "simplify"
  /\ \E r1, r2 \in BOOLEAN :
       path' = Reverse(simplifyPath(Reverse(simplifyPath(path, r1)), r2))
  /\ phase' = "prune"
  /\ UNCHANGED <<input, search, simplify, i, k>>

\* The point at (zero-based) n is as far from the one before as from the one after.
Extraneous(p, n) ==
  \A x \in {1, 2} : p[n + 2][x] - p[n + 1][x] = p[n + 1][x] - p[n][x]

\* What is erased is the element with the start cell's index, where there is one.
Prune ==
  /\ phase = "prune" /\ k < Len(path) - 1
  /\ IF Extraneous(path, k)
     THEN IF Index(i) < Len(path)
          THEN path' = RemoveAt(path, Index(i) + 1) /\ UNCHANGED <<phase, k>>
          ELSE phase' = "undefined" /\ UNCHANGED <<path, k>>
     ELSE k' = k + 1 /\ UNCHANGED <<phase, path>>
  /\ UNCHANGED <<input, search, simplify, i>>

PruneEnd ==
  /\ phase = "prune" /\ k >= Len(path) - 1
  /\ phase' = "done"
  /\ UNCHANGED <<input, search, result>>

Finished == phase \in {"none", "done", "undefined"} /\ UNCHANGED vars

Search ==
  \/ Begin \/ PopNothing
  \/ \E n \in BagToSet(q) : PopGoal(n) \/ PopStraight(n) \/ PopDiagonal(n)
  \/ \E n \in Steps : explore_straight(n)
  \/ explore_diagonal

getPath == Trace \/ SimplifyTwice \/ Prune \/ PruneEnd

Next == Search \/ getPath \/ Finished

Spec == Init /\ [][Next]_vars

-----------------------------------------------------------------------------
(* Properties.                                                              *)

\* The search's variables keep their types, and no node is of a cell without a parent.
TypeOK ==
  /\ occupied \subseteq Int /\ start \in Cells /\ dest \in Cells /\ simplify \in BOOLEAN
  /\ phase \in {"start", "pop", "diagonal", "none", "trace", "simplify", "prune", "done",
                "undefined"}
  /\ closedSet \subseteq Cells
  /\ DOMAIN parents \subseteq Cells
  /\ \A c \in DOMAIN parents : parents[c].from \in DOMAIN parents /\ parents[c].cost \in Nat
  /\ \A n \in BagToSet(q) : n.at \in DOMAIN parents /\ n.dir \in Dirs /\ n.cost \in Nat

\* From b to c in one straight or diagonal line, with every cell but b looked at and free.
Jump(b, c) ==
  \E d \in Dirs, n \in Steps :
     c = Along(b, d, n) /\ \A m \in 1 .. n : Free(Along(b, d, m))

\* Each cell that was given a parent can be driven to from it in one line, and has cost
\* more: following the parents comes to the start, whatever order the search found and
\* improved them in.
LinksLeadBack ==
  \A c \in DOMAIN parents \ {start} :
    /\ Jump(parents[c].from, c)
    /\ parents[parents[c].from].cost < parents[c].cost

\* The path that getPath returns goes from the start, unless it has too many links, to the
\* destination by jumps through free cells.
PathIsFree ==
  phase = "done" /\ ~simplify =>
    /\ Last(path) = dest
    /\ Head(path) = start \/ Len(path) = MaxLinks + 2
    /\ start = dest \/ \A n \in 1 .. Len(path) - 1 : Jump(path[n], path[n + 1])

Neighbours(c) == {e \in {Plus(c, d) : d \in Dirs} : Free(e)}
Reachable ==
  LET within[n \in 0 .. sizeX * sizeY] ==
        IF n = 0 THEN {start}
        ELSE LET near == within[n - 1]
             IN near \cup UNION {Neighbours(c) : c \in near}
  IN within[sizeX * sizeY]

\* "terminates when the goal has been found or all grid cells have been examined"
\* (JPS.cpp:437): a search that gives up has missed nothing, although it drops the nodes of
\* cells that are closed, which were explored in other directions only.
NoPathMissed == phase = "none" /\ Free(start) /\ Free(dest) => dest \notin Reachable

\* A destination that an exploration has come to is not lost again: no cell is closed
\* against it and no better node takes its place, so that the search does not give up.
FoundIsReported == phase = "none" => dest \notin DOMAIN parents

\* Simplifying keeps the ends that getPath read, and what it joins is free of obstacles as
\* bresenham sees it, from one side or the other, where it was not a jump before.
SimplifiedIsFree ==
  [][phase = "simplify" /\ phase' = "prune" =>
       /\ Last(path') = dest
       /\ Head(path') = start \/ Len(path) = MaxLinks + 2
       /\ \A n \in 1 .. Len(path') - 1 :
            \/ start = dest
            \/ Jump(path'[n], path'[n + 1])
            \/ ~isBlocked(path'[n], path'[n + 1]) \/ ~isBlocked(path'[n + 1], path'[n])]_vars
=============================================================================
