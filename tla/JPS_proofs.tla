----------------------------- MODULE JPS_proofs -----------------------------
(***************************************************************************)
(* For every map, whatever memory lies around it, and every query: the     *)
(* links that the search makes lead back to the start along free lines,    *)
(* and so does the path that getPath reads from them.                      *)
(*                                                                         *)
(* The invariant says the same of an exploration under way: it is of a     *)
(* cell with a parent, it has come from there by free cells only, and its  *)
(* cost is no less than that cell's.                                       *)
(*                                                                         *)
(* What simplifyPath computes is shown by the least of its steps that      *)
(* would be wrong: there is none.                                          *)
(*                                                                         *)
(* Of the plan: a ray's cells are on the map and end in its last one, so   *)
(* that the cut at the unknown ends a path where RouteFits says; and what  *)
(* is chosen of the path found is, up to there, a drive through free cells *)
(* whose costs rise, so that no cell comes twice and MaxLinks is never     *)
(* reached on a map of no more cells.                                      *)
(***************************************************************************)
EXTENDS PlannerPath, FiniteSetTheorems, WellFoundedInduction, TLAPS

\* Every cell with a parent is linked, and the start is the root.
Tree ==
  /\ start \in DOMAIN parents
  /\ parents[start].from = start /\ parents[start].cost = 0
  /\ DOMAIN parents \subseteq Cells
  /\ \A c \in DOMAIN parents : parents[c].from \in DOMAIN parents /\ parents[c].cost \in Nat
  /\ LinksLeadBack

\* n steps from b in direction d all lead to free cells.
FreeLine(b, d, n) == \A m \in 1 .. n : Free(Along(b, d, m))

Explorations ==
  /\ straight \in Seq([at : Cells, dir : Cardinals])
  /\ \A n \in 1 .. Len(straight) : straight[n].at \in DOMAIN parents
  /\ straight # <<>> => phase \in {"pop", "diagonal"}
  /\ phase = "diagonal" =>
       /\ diag.from \in DOMAIN parents /\ diag.dir \in Diagonals
       /\ diag.cost \in Nat /\ diag.cost >= parents[diag.from].cost
       /\ diag = [from |-> diag.from, at |-> diag.at, dir |-> diag.dir, cost |-> diag.cost]
       /\ \E n \in Nat : diag.at = Along(diag.from, diag.dir, n)
                          /\ FreeLine(diag.from, diag.dir, n)

SearchInv ==
  /\ TypeOK
  /\ \/ phase \in {"start", "none"} /\ DOMAIN parents = {} /\ straight = <<>>
     \/ phase # "start" /\ Tree
  /\ Explorations

-----------------------------------------------------------------------------
(* Arithmetic of cells.                                                     *)

\* The community module's Max of two integers is one of them and no less than either.
LEMMA MaxOfTwo == \A a, b \in Int : Max({a, b}) \in {a, b} /\ Max({a, b}) >= a /\ Max({a, b}) >= b
<1>1. SUFFICES ASSUME NEW a \in Int, NEW b \in Int
               PROVE  Max({a, b}) \in {a, b} /\ Max({a, b}) >= a /\ Max({a, b}) >= b
  OBVIOUS
<1>2. \E m \in {a, b} : \A y \in {a, b} : m >= y
  <2>1. CASE a >= b
    BY <2>1
  <2>2. CASE b >= a
    BY <2>2
  <2>3. QED
    BY <2>1, <2>2
<1>3. QED
  BY <1>2 DEF Max

\* A distance on the map is a natural number.
LEMMA DistanceIsNat == \A c, e \in Cells : chebyshev_dist(c, e) \in Nat
<1>1. SUFFICES ASSUME NEW c \in Cells, NEW e \in Cells
               PROVE  chebyshev_dist(c, e) \in Nat
  OBVIOUS
<1> DEFINE x == Abs(e[1] - c[1])
           y == Abs(e[2] - c[2])
<1>2. x \in Nat /\ y \in Nat
  BY JPSAssumption DEF Cells, Abs
<1>3. Max({x, y}) \in Nat
  <2> HIDE DEF x, y
  <2>1. x \in Int /\ y \in Int
    BY <1>2
  <2>2. Max({x, y}) \in {x, y}
    BY <2>1, MaxOfTwo, Zenon
  <2>3. QED
    BY <1>2, <2>2
<1>4. QED
  BY <1>3 DEF chebyshev_dist

\* A line of free cells that comes from a cell of the map is within the bound Steps.
LEMMA LineIsShort ==
  ASSUME NEW b \in Cells, NEW d \in Dirs, NEW n \in Nat \ {0}, Along(b, d, n) \in Cells
  PROVE  n \in Steps
<1>1. /\ b[1] \in 0 .. sizeX - 1 /\ b[2] \in 0 .. sizeY - 1
      /\ b[1] + n * d[1] \in 0 .. sizeX - 1 /\ b[2] + n * d[2] \in 0 .. sizeY - 1
  BY DEF Cells, Along
<1>2. d[1] \in {1, -1} \/ d[2] \in {1, -1}
  BY DEF Dirs, Cardinals, Diagonals
<1>3. n * d[1] \in {n, -n} \/ n * d[2] \in {n, -n}
  <2>1. n * 1 = n /\ n * (-1) = -n
    OBVIOUS
  <2>2. QED
    BY <1>2, <2>1
<1>4. n <= sizeX - 1 \/ n <= sizeY - 1
  <2>1. d[1] \in Int /\ d[2] \in Int
    BY DEF Dirs, Cardinals, Diagonals
  <2>2. CASE n * d[1] \in {n, -n}
    BY <2>2, <1>1, JPSAssumption
  <2>3. CASE n * d[2] \in {n, -n}
    BY <2>3, <1>1, JPSAssumption
  <2>4. QED
    BY <2>2, <2>3, <1>3
<1>5. QED
  BY <1>4, JPSAssumption DEF Steps

-----------------------------------------------------------------------------
(* add_to_parents and add_to_queue.                                         *)

\* A new or better parent that costs less, with a free line from it, keeps the tree.
LEMMA ParentKeepsTree ==
  ASSUME Tree, start \in Cells, NEW c \in Cells, NEW from \in DOMAIN parents, NEW cost \in Nat,
         cost > parents[from].cost, Jump(from, c),
         add_to_parents(c, from, cost), UNCHANGED input
  PROVE  /\ Tree'
         /\ DOMAIN parents' = DOMAIN parents \cup {c} \/ parents' = parents
         /\ c \in DOMAIN parents' /\ DOMAIN parents \subseteq DOMAIN parents'
         /\ \A b \in DOMAIN parents : parents'[b].cost <= parents[b].cost
<1>1. CASE parents' = parents /\ c \in DOMAIN parents
  BY <1>1 DEF Tree, LinksLeadBack, Jump, Free, Occ, Index, input
<1>2. CASE parents' = Link(c, from, cost) /\ (c \in DOMAIN parents => cost < parents[c].cost)
  <2>1. /\ DOMAIN parents' = DOMAIN parents \cup {c}
        /\ parents'[c].from = from /\ parents'[c].cost = cost
        /\ \A b \in DOMAIN parents : b # c => parents'[b] = parents[b]
    BY <1>2 DEF Link
  <2>2. c # start
    BY <1>2 DEF Tree
  <2>3. \A b \in DOMAIN parents : parents'[b].cost <= parents[b].cost
    BY <1>2, <2>1 DEF Tree
  <2>4. c # from
    BY <1>2 DEF Tree
  <2>5. ASSUME NEW b \in DOMAIN parents' \ {start}
        PROVE  /\ Jump(parents'[b].from, b)
               /\ parents'[parents'[b].from].cost < parents'[b].cost
    <3>1. CASE b = c
      BY <3>1, <2>1, <2>4
    <3>2. CASE b # c
      <4>1. b \in DOMAIN parents \ {start} /\ parents'[b] = parents[b]
        BY <3>2, <2>1
      <4>2. Jump(parents[b].from, b) /\ parents[parents[b].from].cost < parents[b].cost
        BY <4>1 DEF Tree, LinksLeadBack
      <4>3. parents[b].from \in DOMAIN parents
            /\ parents'[parents[b].from].cost <= parents[parents[b].from].cost
        BY <4>1, <2>3 DEF Tree
      <4>4. parents'[parents[b].from].cost \in Nat
        BY <4>3, <2>1 DEF Tree
      <4>5. QED
        BY <4>1, <4>2, <4>3, <4>4 DEF Tree
    <3>3. QED
      BY <3>1, <3>2
  <2>6. LinksLeadBack'
    BY <2>5 DEF LinksLeadBack, Jump, Free, Occ, Index, input
  <2>7. QED
    BY <2>1, <2>2, <2>3, <2>6 DEF Tree, input
<1>3. QED
  BY <1>1, <1>2 DEF add_to_parents

-----------------------------------------------------------------------------
(* The search.                                                              *)

\* What holds of the parents goes on to hold where nothing it speaks of changes.
LEMMA TreeStays == Tree /\ UNCHANGED <<occupied, start, parents>> => Tree'
  BY DEF Tree, LinksLeadBack, Jump, Free, Occ, Index

LEMMA ExplorationsStay ==
  ASSUME Explorations, UNCHANGED <<input, parents, straight>>,
         phase' # "diagonal" \/ UNCHANGED <<phase, diag>>,
         straight = <<>> \/ phase' \in {"pop", "diagonal"}
  PROVE  Explorations'
BY DEF Explorations, input, FreeLine, Free, Occ, Index

\* Forced neighbours lie diagonally.
LEMMA ForcedAreDiagonals ==
  /\ \A c, d : d \in Cardinals => Forced(c, d) \subseteq Diagonals
  /\ \A b, c, d : d \in Diagonals => ForcedBeside(b, c, d) \subseteq Diagonals
<1>1. ASSUME NEW c, NEW d \in Cardinals, NEW e \in Forced(c, d)
      PROVE  e \in Diagonals
  <2>1. PICK p \in Cardinals : e = Plus(d, p) /\ p[1] * d[1] + p[2] * d[2] = 0
    BY <1>1 DEF Forced
  <2>2. QED
    BY <2>1, SMTT(30) DEF Cardinals, Diagonals, Plus
<1>2. ASSUME NEW b, NEW c, NEW d \in Diagonals, NEW e \in ForcedBeside(b, c, d)
      PROVE  e \in Diagonals
  BY <1>2 DEF ForcedBeside, Diagonals
<1>3. QED
  BY <1>1, <1>2

\* What is queued are nodes of one cell that has a parent.
LEMMA QueuedHaveParents ==
  ASSUME NEW nodes, NEW closed, add_to_queue(nodes, closed),
         \A n \in BagToSet(q) : n.at \in DOMAIN parents /\ n.dir \in Dirs /\ n.cost \in Nat,
         DOMAIN parents \subseteq DOMAIN parents',
         \A n \in nodes : n.at \in DOMAIN parents' /\ n.dir \in Dirs /\ n.cost \in Nat
  PROVE  (\A n \in BagToSet(q) : n.at \in DOMAIN parents /\ n.dir \in Dirs /\ n.cost \in Nat)'
<1>1. BagToSet(q') = BagToSet(q) \cup {n \in nodes : n.at \notin closed}
  BY DEF add_to_queue, BagToSet, SetToBag, (+)
<1>2. QED
  BY <1>1

LEMMA PoppedIsSubset == ASSUME NEW n, Pop(n) PROVE BagToSet(q') \subseteq BagToSet(q)
BY DEF Pop, BagToSet, (-)

\* No step changes the question that the search is about.
LEMMA InputStays == Next => UNCHANGED input
BY DEF Next, Search, getPath, Begin, PopNothing, PopGoal, PopStraight, PopDiagonal, Pop,
       explore_straight, explore_diagonal, Trace, SimplifyTwice, Prune, PruneEnd, Finished, vars

LEMMA InitSearch == Init => SearchInv
<1> SUFFICES ASSUME Init PROVE SearchInv
  OBVIOUS
<1>1. start \in Cells /\ dest \in Cells /\ occupied \subseteq Int
  BY JPSAssumption DEF Init
<1>2. DOMAIN parents = {} /\ BagToSet(q) = {}
  BY DEF Init, BagToSet, EmptyBag, SetToBag
<1>3. Explorations
  BY DEF Init, Explorations
<1>4. QED
  BY <1>1, <1>2, <1>3 DEF Init, SearchInv, TypeOK

LEMMA BeginKeeps == SearchInv /\ Begin => SearchInv'
<1> SUFFICES ASSUME SearchInv, Begin PROVE SearchInv'
  OBVIOUS
<1>1. UNCHANGED <<input, straight, diag, closedSet, simplify>> /\ phase' \in {"none", "pop"}
  BY DEF Begin, result
<1>2. DOMAIN parents = {} /\ straight = <<>>
  BY DEF SearchInv, Begin
<1>3. CASE UNCHANGED <<q, parents>> /\ phase' = "none"
  <2>1. Explorations'
    BY <1>1, <1>2, <1>3, ExplorationsStay DEF SearchInv
  <2>2. QED
    BY <1>1, <1>2, <1>3, <2>1 DEF SearchInv, TypeOK, input
<1>4. CASE /\ q' = SetToBag({Node(start, d, 0) : d \in Dirs})
           /\ parents' = [c \in {start} |-> [from |-> start, cost |-> 0]]
           /\ phase' = "pop"
  <2>1. DOMAIN parents' = {start} /\ parents'[start] = [from |-> start, cost |-> 0]
    BY <1>4
  <2>2. Tree'
    BY <1>1, <2>1 DEF SearchInv, TypeOK, Tree, LinksLeadBack, input
  <2>3. \A n \in BagToSet(q') : n.at = start /\ n.dir \in Dirs /\ n.cost = 0
    BY <1>4 DEF BagToSet, SetToBag, Node
  <2>4. Explorations'
    BY <1>1, <1>2, <1>4 DEF SearchInv, Explorations
  <2>5. QED
    BY <1>1, <1>4, <2>1, <2>2, <2>3, <2>4 DEF SearchInv, TypeOK, input
<1>5. QED
  BY <1>3, <1>4 DEF Begin

LEMMA PopKeeps ==
  ASSUME SearchInv, NEW n \in BagToSet(q), PopGoal(n) \/ PopStraight(n) \/ PopDiagonal(n)
  PROVE  SearchInv'
<1>1. UNCHANGED <<input, parents>> /\ phase = "pop" /\ straight = <<>> /\ Pop(n)
  BY DEF PopGoal, PopStraight, PopDiagonal, Pop
<1>2. Tree /\ n.at \in DOMAIN parents /\ n.at \in Cells /\ n.dir \in Dirs
  BY <1>1 DEF SearchInv, TypeOK, Tree
<1>3. Tree'
  BY <1>1, <1>2, TreeStays DEF input
<1>4. \A m \in BagToSet(q') : m.at \in DOMAIN parents' /\ m.dir \in Dirs /\ m.cost \in Nat
  BY <1>1, PoppedIsSubset DEF SearchInv, TypeOK
<1>5. CASE PopGoal(n)
  <2>1. Explorations'
    BY <1>1, <1>5, ExplorationsStay DEF SearchInv, PopGoal
  <2>2. simplify' \in BOOLEAN
    BY <1>5, JPSAssumption DEF PopGoal
  <2>3. QED
    BY <1>1, <1>3, <1>4, <1>5, <2>1, <2>2 DEF SearchInv, TypeOK, PopGoal, input
<1>6. CASE PopStraight(n)
  <2>1. straight' = <<[at |-> n.at, dir |-> n.dir]>> /\ n.dir \in Cardinals
        /\ UNCHANGED <<phase, closedSet, diag, simplify>>
    BY <1>6 DEF PopStraight, result
  <2>2. Explorations'
    BY <1>1, <1>2, <2>1 DEF Explorations
  <2>3. QED
    BY <1>1, <1>3, <1>4, <2>1, <2>2 DEF SearchInv, TypeOK, input
<1>7. CASE PopDiagonal(n)
  <2>1. /\ diag' = [from |-> n.at, at |-> n.at, dir |-> n.dir, cost |-> StartCost(n.at)]
        /\ n.dir \in Diagonals /\ phase' = "diagonal" /\ straight' = straight
        /\ closedSet' = closedSet \cup {n.at} /\ UNCHANGED simplify
    BY <1>7 DEF PopDiagonal, result
  <2>2. StartCost(n.at) \in Nat /\ StartCost(n.at) >= parents[n.at].cost
    BY <1>2, DistanceIsNat DEF StartCost, Tree
  <2>3. diag'.at = Along(diag'.from, diag'.dir, 0)
    BY <1>2, <2>1, JPSAssumption DEF Along, Cells, Diagonals
  <2>4. FreeLine(diag'.from, diag'.dir, 0)
    BY DEF FreeLine
  <2>5. Explorations'
    BY <1>1, <1>2, <2>1, <2>2, <2>3, <2>4 DEF Explorations, FreeLine, Free, Occ, Index, input
  <2>6. QED
    BY <1>1, <1>2, <1>3, <1>4, <2>1, <2>5 DEF SearchInv, TypeOK, input
<1>8. QED
  BY <1>5, <1>6, <1>7

LEMMA StraightKeeps ==
  ASSUME SearchInv, NEW n \in Steps, explore_straight(n)
  PROVE  SearchInv'
<1> DEFINE c == straight[1].at
           d == straight[1].dir
           jump == Along(c, d, n)
           cost == StartCost(c) + n
           on == {d} \cup (IF jump = dest THEN {} ELSE Forced(jump, d))
           nodes == {Node(jump, e, cost) : e \in on}
<1>1. UNCHANGED <<input, phase, diag, simplify>> /\ straight # <<>> /\ straight' = Tail(straight)
  BY DEF explore_straight, result
<1>2. Tree /\ phase # "start"
  BY <1>1 DEF SearchInv
<1>3. c \in DOMAIN parents /\ c \in Cells /\ d \in Cardinals
  <2>1. straight \in Seq([at : Cells, dir : Cardinals])
    BY DEF SearchInv, Explorations
  <2>2. 1 \in 1 .. Len(straight)
    BY <1>1, <2>1
  <2>3. straight[1] \in [at : Cells, dir : Cardinals]
    <3>1. \A S : \A s \in Seq(S) : \A m \in 1 .. Len(s) : s[m] \in S
      OBVIOUS
    <3>2. QED
      BY <2>1, <2>2, <3>1, Zenon
  <2>4. QED
    BY <2>2, <2>3 DEF SearchInv, Explorations
<1>4. /\ straight' \in Seq([at : Cells, dir : Cardinals])
      /\ \A m \in 1 .. Len(straight') : straight'[m].at \in DOMAIN parents
  BY <1>1 DEF SearchInv, Explorations
<1>5. closedSet' = closedSet \cup {c} /\ closedSet' \subseteq Cells
  BY <1>3 DEF explore_straight, SearchInv, TypeOK
<1>6. CASE UNCHANGED <<q, parents>>
  <2>1. Tree'
    BY <1>1, <1>2, <1>6, TreeStays DEF input
  <2>2. Explorations'
    BY <1>1, <1>4, <1>6 DEF SearchInv, Explorations, FreeLine, Free, Occ, Index, input
  <2>3. QED
    BY <1>1, <1>2, <1>5, <1>6, <2>1, <2>2 DEF SearchInv, TypeOK, input
<1>7. CASE /\ Free(jump) /\ add_to_parents(jump, c, cost) /\ add_to_queue(nodes, closedSet')
  <2>1. n \in Nat \ {0}
    BY JPSAssumption DEF Steps
  <2>2. Jump(c, jump)
    <3>1. \A m \in 1 .. n - 1 : Free(Along(c, d, m))
      BY DEF explore_straight, StopsAt
    <3>2. \A m \in 1 .. n : Free(Along(c, d, m))
      BY <1>7, <2>1, <3>1
    <3>3. d \in Dirs
      BY <1>3 DEF Dirs
    <3>4. QED
      BY <3>2, <3>3 DEF Jump
  <2>3. cost \in Nat /\ cost > parents[c].cost
    <3>1. chebyshev_dist(parents[c].from, c) \in Nat /\ parents[c].cost \in Nat
      BY <1>2, <1>3, DistanceIsNat DEF Tree
    <3>2. QED
      BY <2>1, <3>1 DEF StartCost
  <2>4. jump \in Cells
    BY <1>7 DEF Free
  <2>5. /\ Tree' /\ jump \in DOMAIN parents' /\ DOMAIN parents \subseteq DOMAIN parents'
        /\ \A b \in DOMAIN parents : parents'[b].cost <= parents[b].cost
    <3> HIDE DEF c, jump, cost
    <3>1. start \in Cells
      BY DEF SearchInv, TypeOK
    <3>2. QED
      BY <1>1, <1>2, <1>3, <1>7, <2>2, <2>3, <2>4, <3>1, ParentKeepsTree
  <2>6. on \subseteq Dirs
    BY <1>3, ForcedAreDiagonals DEF Dirs
  <2>7. \A m \in nodes : m.at \in DOMAIN parents' /\ m.dir \in Dirs /\ m.cost \in Nat
    BY <2>3, <2>5, <2>6 DEF Node
  <2>8. \A m \in BagToSet(q') : m.at \in DOMAIN parents' /\ m.dir \in Dirs /\ m.cost \in Nat
    <3> HIDE DEF nodes
    <3>1. QED
      BY <1>7, <2>5, <2>7, QueuedHaveParents DEF SearchInv, TypeOK
  <2>9. Explorations'
    <3>1. \A m \in 1 .. Len(straight') : straight'[m].at \in DOMAIN parents'
      BY <1>4, <2>5
    <3>2. phase' = "diagonal" => diag.cost >= parents'[diag.from].cost /\ diag.from \in DOMAIN parents'
      <4>1. SUFFICES ASSUME phase = "diagonal"
                     PROVE  diag.cost >= parents'[diag.from].cost /\ diag.from \in DOMAIN parents'
        BY <1>1
      <4>2. /\ diag.from \in DOMAIN parents /\ diag.cost \in Nat
            /\ diag.cost >= parents[diag.from].cost
        BY <4>1 DEF SearchInv, Explorations
      <4>3. parents'[diag.from].cost <= parents[diag.from].cost
            /\ parents'[diag.from].cost \in Nat /\ parents[diag.from].cost \in Nat
        BY <4>2, <2>5, <1>2 DEF Tree
      <4>4. QED
        BY <4>2, <4>3, <2>5
    <3>3. QED
      BY <1>1, <1>4, <3>1, <3>2
         DEF SearchInv, Explorations, FreeLine, Free, Occ, Index, input
  <2>10. QED
    BY <1>1, <1>2, <1>5, <2>5, <2>8, <2>9 DEF SearchInv, TypeOK, Tree, input
<1>8. Head(straight) = straight[1]
  BY <1>1 DEF SearchInv, Explorations
<1>9. QED
  BY <1>6, <1>7, <1>8 DEF explore_straight

\* One diagonal step further on is one step longer.
LEMMA OneFurther ==
  ASSUME NEW b \in Cells, NEW d \in Diagonals, NEW n \in Nat, FreeLine(b, d, n),
         Free(Plus(Along(b, d, n), d))
  PROVE  /\ Plus(Along(b, d, n), d) = Along(b, d, n + 1)
         /\ FreeLine(b, d, n + 1)
<1>1. Plus(Along(b, d, n), d) = Along(b, d, n + 1)
  <2>1. b[1] \in Int /\ b[2] \in Int
    BY JPSAssumption DEF Cells
  <2>2. n * 1 + 1 = (n + 1) * 1 /\ n * (-1) + (-1) = (n + 1) * (-1)
    OBVIOUS
  <2>3. d[1] \in {1, -1} /\ d[2] \in {1, -1}
    BY DEF Diagonals
  <2>4. n * d[1] \in Int /\ n * d[2] \in Int
        /\ n * d[1] + d[1] = (n + 1) * d[1] /\ n * d[2] + d[2] = (n + 1) * d[2]
    BY <2>2, <2>3
  <2>5. QED
    BY <2>1, <2>3, <2>4 DEF Plus, Along
<1>2. QED
  BY <1>1 DEF FreeLine

LEMMA DiagonalKeeps == SearchInv /\ explore_diagonal => SearchInv'
<1> SUFFICES ASSUME SearchInv, explore_diagonal PROVE SearchInv'
  OBVIOUS
<1> DEFINE c == Plus(diag.at, diag.dir)
           d == diag.dir
           cost == diag.cost + 1
           on == IF c = dest THEN {d} ELSE ForcedBeside(diag.at, c, d)
           nodes == {Node(c, e, cost) : e \in on}
<1>1. UNCHANGED <<input, closedSet, simplify>> /\ phase = "diagonal"
  BY DEF explore_diagonal, result
<1>2. Tree
  BY <1>1 DEF SearchInv
<1>3. /\ diag.from \in DOMAIN parents /\ diag.from \in Cells /\ d \in Diagonals
      /\ diag.cost \in Nat /\ diag.cost >= parents[diag.from].cost
      /\ diag = [from |-> diag.from, at |-> diag.at, dir |-> diag.dir, cost |-> diag.cost]
  BY <1>1, <1>2 DEF SearchInv, Explorations, Tree
<1>4. PICK n \in Nat : diag.at = Along(diag.from, d, n) /\ FreeLine(diag.from, d, n)
  BY <1>1 DEF SearchInv, Explorations
<1>5. CASE UNCHANGED <<q, parents, straight>> /\ phase' = "pop"
  <2>1. Tree'
    BY <1>1, <1>2, <1>5, TreeStays DEF input
  <2>2. Explorations'
    BY <1>1, <1>5, ExplorationsStay DEF SearchInv
  <2>3. QED
    BY <1>1, <1>5, <2>1, <2>2 DEF SearchInv, TypeOK, input
<1>6. ASSUME Free(c), add_to_parents(c, diag.from, cost), add_to_queue(nodes, closedSet)
      PROVE  /\ Tree' /\ c \in DOMAIN parents' /\ DOMAIN parents \subseteq DOMAIN parents'
             /\ \A b \in DOMAIN parents : parents'[b].cost <= parents[b].cost
             /\ \A m \in BagToSet(q') :
                  m.at \in DOMAIN parents' /\ m.dir \in Dirs /\ m.cost \in Nat
  <2>1. c = Along(diag.from, d, n + 1) /\ FreeLine(diag.from, d, n + 1)
    BY <1>3, <1>4, <1>6, OneFurther
  <2>2. c \in Cells
    BY <1>6 DEF Free
  <2>3. n + 1 \in Steps
    BY <1>3, <2>1, <2>2, LineIsShort DEF Dirs
  <2>4. Jump(diag.from, c)
    BY <1>3, <2>1, <2>3 DEF Jump, FreeLine, Dirs
  <2>5. cost \in Nat /\ cost > parents[diag.from].cost
    BY <1>2, <1>3 DEF Tree
  <2>6. /\ Tree' /\ c \in DOMAIN parents' /\ DOMAIN parents \subseteq DOMAIN parents'
        /\ \A b \in DOMAIN parents : parents'[b].cost <= parents[b].cost
    <3> HIDE DEF c, cost
    <3>1. start \in Cells
      BY DEF SearchInv, TypeOK
    <3>2. QED
      BY <1>1, <1>2, <1>3, <1>6, <2>2, <2>4, <2>5, <3>1, ParentKeepsTree
  <2>7. on \subseteq Dirs
    BY <1>3, ForcedAreDiagonals DEF Dirs
  <2>8. \A m \in nodes : m.at \in DOMAIN parents' /\ m.dir \in Dirs /\ m.cost \in Nat
    BY <2>5, <2>6, <2>7 DEF Node
  <2>9. QED
    <3> HIDE DEF nodes
    <3>1. QED
      BY <1>6, <2>6, <2>8, QueuedHaveParents DEF SearchInv, TypeOK
<1>7. CASE /\ Free(c) /\ add_to_parents(c, diag.from, cost) /\ add_to_queue(nodes, closedSet)
           /\ phase' = "pop" /\ UNCHANGED straight
  <2>1. Explorations'
    BY <1>6, <1>7 DEF SearchInv, Explorations
  <2>2. QED
    BY <1>1, <1>6, <1>7, <2>1 DEF SearchInv, TypeOK, Tree, input
<1>8. CASE /\ Free(c) /\ add_to_parents(c, diag.from, cost) /\ add_to_queue(nodes, closedSet)
           /\ straight' = <<[at |-> c, dir |-> <<d[1], 0>>], [at |-> c, dir |-> <<0, d[2]>>]>>
           /\ diag' = [diag EXCEPT !.at = c, !.cost = cost] /\ UNCHANGED phase
  <2>1. c \in Cells /\ c = Along(diag.from, d, n + 1) /\ FreeLine(diag.from, d, n + 1)
    BY <1>3, <1>4, <1>8, OneFurther DEF Free
  <2>2. diag' = [from |-> diag.from, at |-> c, dir |-> d, cost |-> cost]
    BY <1>3, <1>8
  <2>3. cost \in Nat /\ cost >= parents'[diag.from].cost /\ diag.from \in DOMAIN parents'
    <3>1. parents[diag.from].cost \in Nat /\ parents'[diag.from].cost \in Nat
      BY <1>2, <1>3, <1>6, <1>8 DEF Tree
    <3>2. QED
      BY <1>3, <1>6, <1>8, <3>1
  <2>4. straight' \in Seq([at : Cells, dir : Cardinals])
        /\ \A m \in 1 .. Len(straight') : straight'[m].at \in DOMAIN parents'
    <3>1. <<d[1], 0>> \in Cardinals /\ <<0, d[2]>> \in Cardinals
      BY <1>3 DEF Diagonals, Cardinals
    <3> HIDE DEF c, d
    <3>2. QED
      BY <1>6, <1>8, <2>1, <3>1
  <2>5. Explorations'
    <3>1. \E m \in Nat : diag'.at = Along(diag'.from, diag'.dir, m)
                         /\ \A j \in 1 .. m : Free(Along(diag'.from, diag'.dir, j))
      BY <2>1, <2>2 DEF FreeLine
    <3>2. QED
      BY <1>1, <1>3, <1>8, <2>2, <2>3, <2>4, <3>1
         DEF Explorations, FreeLine, Free, Occ, Index, input
  <2>6. QED
    BY <1>1, <1>6, <1>8, <2>5 DEF SearchInv, TypeOK, Tree, input
<1>9. QED
  BY <1>5, <1>7, <1>8 DEF explore_diagonal

LEMMA PathKeepsSearch == SearchInv /\ (getPath \/ PopNothing \/ UNCHANGED vars) => SearchInv'
<1> SUFFICES ASSUME SearchInv, getPath \/ PopNothing \/ UNCHANGED vars PROVE SearchInv'
  OBVIOUS
<1>1. /\ UNCHANGED <<input, search, simplify>>
      /\ \/ UNCHANGED phase
         \/ /\ phase \in {"pop", "trace", "simplify", "prune"}
            /\ phase = "pop" => straight = <<>>
            /\ phase' \in {"none", "simplify", "prune", "done", "undefined"}
  BY DEF getPath, Trace, SimplifyTwice, Prune, PruneEnd, PopNothing, result, vars
<1>2. Explorations'
  <2>1. straight = <<>> \/ phase' \in {"pop", "diagonal"}
    BY <1>1 DEF SearchInv, Explorations
  <2>2. QED
    BY <1>1, <2>1, ExplorationsStay DEF SearchInv, search
<1>3. Tree => Tree'
  BY <1>1, TreeStays DEF input, search
<1>4. QED
  BY <1>1, <1>2, <1>3 DEF SearchInv, TypeOK, input, search

LEMMA StepSearch == SearchInv /\ [Next]_vars => SearchInv'
<1> SUFFICES ASSUME SearchInv, [Next]_vars PROVE SearchInv'
  OBVIOUS
<1>1. CASE Begin
  BY <1>1, BeginKeeps
<1>2. ASSUME NEW n \in BagToSet(q), PopGoal(n) \/ PopStraight(n) \/ PopDiagonal(n)
      PROVE  SearchInv'
  BY <1>2, PopKeeps
<1>3. ASSUME NEW n \in Steps, explore_straight(n) PROVE SearchInv'
  BY <1>3, StraightKeeps
<1>4. CASE explore_diagonal
  BY <1>4, DiagonalKeeps
<1>5. CASE getPath \/ PopNothing \/ UNCHANGED vars
  BY <1>5, PathKeepsSearch
<1>6. QED
  BY <1>1, <1>2, <1>3, <1>4, <1>5 DEF Next, Search, Finished

-----------------------------------------------------------------------------
(* The destination.                                                         *)

\* No exploration starts from the destination, and one that has come to it has left a
\* node of it in the queue.
FoundInv ==
  /\ \A m \in BagToSet(q) : q[m] \in Nat \ {0}
  /\ phase = "start" => DOMAIN parents = {} /\ closedSet = {}
  /\ phase \in {"pop", "diagonal"} =>
       /\ dest \notin closedSet
       /\ dest \in DOMAIN parents => \E m \in BagToSet(q) : m.at = dest
  /\ \A n \in 1 .. Len(straight) : straight[n].at # dest
  /\ phase = "diagonal" => diag.from # dest
  /\ FoundIsReported

\* What the queue holds after nodes of open cells have joined it.
LEMMA QueueGrows ==
  ASSUME NEW nodes, NEW closed, add_to_queue(nodes, closed),
         \A m \in BagToSet(q) : q[m] \in Nat \ {0}
  PROVE  /\ BagToSet(q') = BagToSet(q) \cup {n \in nodes : n.at \notin closed}
         /\ \A m \in BagToSet(q') : q'[m] \in Nat \ {0}
<1> DEFINE new == {n \in nodes : n.at \notin closed}
           on(m) == (IF m \in DOMAIN q THEN q[m] ELSE 0) + (IF m \in new THEN 1 ELSE 0)
<1>1. q' = [m \in DOMAIN q \cup new |-> on(m)]
  BY DEF add_to_queue, BagToSet, SetToBag, (+)
<1>2. BagToSet(q) = DOMAIN q /\ BagToSet(q') = DOMAIN q \cup new
  BY <1>1 DEF BagToSet
<1>3. \A m \in DOMAIN q \cup new : on(m) \in Nat \ {0}
  BY <1>2
<1> QED
  BY <1>1, <1>2, <1>3

\* Taking one node out leaves the others.
LEMMA QueueShrinks ==
  ASSUME NEW n, Pop(n), \A m \in BagToSet(q) : q[m] \in Nat \ {0}
  PROVE  /\ \A m \in BagToSet(q) \ {n} : m \in BagToSet(q')
         /\ \A m \in BagToSet(q') : q'[m] \in Nat \ {0}
<1> DEFINE left(m) == IF m \in {n} THEN q[m] - 1 ELSE q[m]
<1>1. q' = [m \in {m \in DOMAIN q : left(m) > 0} |-> left(m)]
  BY DEF Pop, BagToSet, SetToBag, (-)
<1>2. BagToSet(q) = DOMAIN q /\ BagToSet(q') = {m \in DOMAIN q : left(m) > 0}
  BY <1>1 DEF BagToSet
<1>3. \A m \in DOMAIN q : left(m) \in Int
  BY <1>2
<1> QED
  BY <1>1, <1>2, <1>3

\* An exploration that comes to c and queues a node of it where c is the destination.
LEMMA ComesTo ==
  ASSUME FoundInv, phase \in {"pop", "diagonal"}, phase' \in {"pop", "diagonal"},
         UNCHANGED dest, dest \notin closedSet',
         NEW nodes, NEW closed, add_to_queue(nodes, closed), dest \notin closed,
         NEW c, NEW from, NEW cost, add_to_parents(c, from, cost),
         c = dest => \E m \in nodes : m.at = dest,
         \A n \in 1 .. Len(straight') : straight'[n].at # dest,
         phase' = "diagonal" => diag'.from # dest
  PROVE  FoundInv'
<1>1. /\ BagToSet(q') = BagToSet(q) \cup {n \in nodes : n.at \notin closed}
      /\ \A m \in BagToSet(q') : q'[m] \in Nat \ {0}
  BY QueueGrows DEF FoundInv
<1>2. DOMAIN parents' \subseteq DOMAIN parents \cup {c}
  BY DEF add_to_parents, Link
<1>3. dest \in DOMAIN parents' => \E m \in BagToSet(q') : m.at = dest
  BY <1>1, <1>2 DEF FoundInv
<1> QED
  BY <1>1, <1>3 DEF FoundInv, FoundIsReported

LEMMA InitFound == Init => FoundInv
<1> SUFFICES ASSUME Init PROVE FoundInv
  OBVIOUS
<1>1. BagToSet(q) = {}
  BY DEF Init, BagToSet, EmptyBag, SetToBag
<1> QED
  BY <1>1 DEF Init, FoundInv, FoundIsReported

LEMMA BeginKeepsFound == FoundInv /\ SearchInv /\ Begin => FoundInv'
<1> SUFFICES ASSUME FoundInv, SearchInv, Begin PROVE FoundInv'
  OBVIOUS
<1>1. UNCHANGED <<input, straight, closedSet>> /\ phase = "start"
  BY DEF Begin
<1>2. CASE UNCHANGED <<q, parents>> /\ phase' = "none"
  BY <1>1, <1>2 DEF FoundInv, FoundIsReported, input
<1>3. CASE /\ q' = SetToBag({Node(start, d, 0) : d \in Dirs})
           /\ parents' = [c \in {start} |-> [from |-> start, cost |-> 0]]
           /\ phase' = "pop"
  <2>1. /\ BagToSet(q') = {Node(start, d, 0) : d \in Dirs}
        /\ \A m \in BagToSet(q') : q'[m] = 1
    BY <1>3 DEF BagToSet, SetToBag
  <2>2. Node(start, <<1, 0>>, 0) \in BagToSet(q') /\ Node(start, <<1, 0>>, 0).at = start
    BY <2>1 DEF Dirs, Cardinals, Node
  <2>3. dest' = dest /\ straight' = straight /\ closedSet' = {} /\ DOMAIN parents' = {start}
    BY <1>1, <1>3 DEF FoundInv, input
  <2>4. dest \in DOMAIN parents' => \E m \in BagToSet(q') : m.at = dest
    BY <2>2, <2>3
  <2>5. \A m \in BagToSet(q') : q'[m] \in Nat \ {0}
    BY <2>1
  <2>6. \A n \in 1 .. Len(straight') : straight'[n].at # dest'
    BY <2>3 DEF FoundInv
  <2> QED
    BY <1>3, <2>3, <2>4, <2>5, <2>6 DEF FoundInv, FoundIsReported
<1> QED
  BY <1>2, <1>3 DEF Begin

LEMMA PopKeepsFound ==
  ASSUME FoundInv, NEW n \in BagToSet(q), PopGoal(n) \/ PopStraight(n) \/ PopDiagonal(n)
  PROVE  FoundInv'
<1>1. UNCHANGED <<input, parents>> /\ phase = "pop" /\ straight = <<>> /\ Pop(n)
  BY DEF PopGoal, PopStraight, PopDiagonal, Pop
<1>2. /\ \A m \in BagToSet(q) \ {n} : m \in BagToSet(q')
      /\ \A m \in BagToSet(q') : q'[m] \in Nat \ {0}
  BY <1>1, QueueShrinks DEF FoundInv
<1>3. CASE PopGoal(n)
  BY <1>1, <1>2, <1>3 DEF PopGoal, FoundInv, FoundIsReported, input
<1>4. CASE PopStraight(n)
  <2>1. straight' = <<[at |-> n.at, dir |-> n.dir]>> /\ n.at # dest /\ UNCHANGED <<phase, closedSet>>
    BY <1>4 DEF PopStraight
  <2>2. Len(straight') = 1 /\ straight'[1].at = n.at
    BY <2>1
  <2> QED
    BY <1>1, <1>2, <2>1, <2>2 DEF FoundInv, FoundIsReported, input
<1>5. CASE PopDiagonal(n)
  <2>1. /\ n.at # dest /\ diag'.from = n.at /\ closedSet' = closedSet \cup {n.at}
        /\ phase' = "diagonal" /\ UNCHANGED straight
    BY <1>5 DEF PopDiagonal
  <2> QED
    BY <1>1, <1>2, <2>1 DEF FoundInv, FoundIsReported, input
<1> QED
  BY <1>3, <1>4, <1>5

LEMMA StraightKeepsFound ==
  ASSUME SearchInv, FoundInv, NEW n \in Steps, explore_straight(n)
  PROVE  FoundInv'
<1> DEFINE c == Head(straight).at
           d == Head(straight).dir
           jump == Along(c, d, n)
           cost == StartCost(c) + n
           nodes == {Node(jump, e, cost) :
                       e \in {d} \cup (IF jump = dest THEN {} ELSE Forced(jump, d))}
<1>1. /\ UNCHANGED <<input, phase, diag>> /\ straight # <<>> /\ straight' = Tail(straight)
      /\ closedSet' = closedSet \cup {c}
  BY DEF explore_straight
<1>2. phase \in {"pop", "diagonal"} /\ straight \in Seq([at : Cells, dir : Cardinals])
  BY <1>1 DEF SearchInv, Explorations
<1>3. Head(straight) = straight[1] /\ Len(straight) >= 1
  BY <1>1, <1>2
<1>4. c # dest
  BY <1>2, <1>3 DEF FoundInv
<1>5. \A m \in 1 .. Len(straight') : straight'[m].at # dest
  <2>1. \A m \in 1 .. Len(straight') : m + 1 \in 1 .. Len(straight) /\ straight'[m] = straight[m + 1]
    BY <1>1, <1>2
  <2> QED
    BY <2>1 DEF FoundInv
<1>6. CASE UNCHANGED <<q, parents>>
  BY <1>1, <1>2, <1>4, <1>5, <1>6 DEF FoundInv, FoundIsReported, input
<1>7. CASE add_to_parents(jump, c, cost) /\ add_to_queue(nodes, closedSet')
  <2>1. Node(jump, d, cost) \in nodes /\ Node(jump, d, cost).at = jump
    BY DEF Node
  <2>2. dest \notin closedSet' /\ UNCHANGED dest
    BY <1>1, <1>2, <1>4 DEF FoundInv, input
  <2>3. phase' \in {"pop", "diagonal"} /\ (phase' = "diagonal" => diag'.from # dest)
    BY <1>1, <1>2 DEF FoundInv
  <2> HIDE DEF c, d, jump, cost, nodes
  <2> QED
    BY <1>2, <1>5, <1>7, <2>1, <2>2, <2>3, ComesTo
<1> QED
  BY <1>6, <1>7 DEF explore_straight

LEMMA DiagonalKeepsFound == SearchInv /\ FoundInv /\ explore_diagonal => FoundInv'
<1> SUFFICES ASSUME SearchInv, FoundInv, explore_diagonal PROVE FoundInv'
  OBVIOUS
<1> DEFINE c == Plus(diag.at, diag.dir)
           d == diag.dir
           cost == diag.cost + 1
           nodes == {Node(c, e, cost) : e \in IF c = dest THEN {d} ELSE ForcedBeside(diag.at, c, d)}
<1>1. UNCHANGED <<input, closedSet>> /\ phase = "diagonal" /\ straight = <<>>
  BY DEF explore_diagonal
<1>2. CASE phase' = "pop" /\ UNCHANGED <<q, parents, straight>>
  BY <1>1, <1>2 DEF FoundInv, FoundIsReported, input
<1>3. CASE /\ add_to_parents(c, diag.from, cost) /\ add_to_queue(nodes, closedSet)
           /\ IF c = dest
              THEN phase' = "pop" /\ UNCHANGED straight
              ELSE /\ straight' = <<[at |-> c, dir |-> <<d[1], 0>>],
                                    [at |-> c, dir |-> <<0, d[2]>>]>>
                   /\ diag' = [diag EXCEPT !.at = c, !.cost = cost]
                   /\ UNCHANGED phase
  <2>1. c = dest => \E m \in nodes : m.at = dest
    <3>1. c = dest => Node(c, d, cost) \in nodes
      OBVIOUS
    <3> QED
      BY <3>1 DEF Node
  <2>2. \A m \in 1 .. Len(straight') : straight'[m].at # dest
    <3> HIDE DEF c, cost
    <3> QED
      BY <1>1, <1>3
  <2>3. phase' \in {"pop", "diagonal"} /\ (phase' = "diagonal" => diag'.from # dest)
    <3>1. diag = [from |-> diag.from, at |-> diag.at, dir |-> diag.dir, cost |-> diag.cost]
      BY <1>1 DEF SearchInv, Explorations
    <3>2. diag.from # dest
      BY <1>1 DEF FoundInv
    <3> HIDE DEF c, cost
    <3> QED
      BY <1>1, <1>3, <3>1, <3>2
  <2>4. dest \notin closedSet /\ dest \notin closedSet' /\ UNCHANGED dest
    BY <1>1 DEF FoundInv, input
  <2> HIDE DEF c, d, cost, nodes
  <2> QED
    BY <1>1, <1>3, <2>1, <2>2, <2>3, <2>4, ComesTo
<1> QED
  BY <1>2, <1>3 DEF explore_diagonal

LEMMA StepFound == SearchInv /\ FoundInv /\ [Next]_vars => FoundInv'
<1> SUFFICES ASSUME SearchInv, FoundInv, [Next]_vars PROVE FoundInv'
  OBVIOUS
<1>1. CASE Begin
  BY <1>1, BeginKeepsFound
<1>2. ASSUME NEW n \in BagToSet(q), PopGoal(n) \/ PopStraight(n) \/ PopDiagonal(n)
      PROVE  FoundInv'
  BY <1>2, PopKeepsFound
<1>3. ASSUME NEW n \in Steps, explore_straight(n) PROVE FoundInv'
  BY <1>3, StraightKeepsFound
<1>4. CASE explore_diagonal
  BY <1>4, DiagonalKeepsFound
<1>5. CASE PopNothing
  <2>1. BagToSet(q) = {}
    BY <1>5 DEF PopNothing, BagToSet, EmptyBag, SetToBag
  <2> QED
    BY <1>5, <2>1 DEF PopNothing, FoundInv, FoundIsReported, input, search
<1>6. CASE getPath \/ UNCHANGED vars
  <2>1. /\ UNCHANGED <<input, search>>
        /\ UNCHANGED phase \/ phase' \in {"simplify", "prune", "done", "undefined"}
    BY <1>6 DEF getPath, Trace, SimplifyTwice, Prune, PruneEnd, vars
  <2> QED
    BY <2>1 DEF FoundInv, FoundIsReported, input, search
<1> QED
  BY <1>1, <1>2, <1>3, <1>4, <1>5, <1>6 DEF Next, Search, Finished

-----------------------------------------------------------------------------
(* The path.                                                                *)

Linked(p) == \A n \in 1 .. Len(p) - 1 : Jump(p[n], p[n + 1])

Tracing ==
  /\ path \in Seq(Cells) /\ 1 <= Len(path) /\ Len(path) <= MaxLinks + 1
  /\ path[Len(path)] = dest
  /\ start = dest => i = start
  /\ start # dest => /\ path[1] \in DOMAIN parents \ {start}
                     /\ i = parents[path[1]].from
                     /\ Linked(path)

\* What is traced, before it is simplified.
Traced ==
  /\ path \in Seq(Cells) /\ Len(path) >= 1 /\ path[Len(path)] = dest
  /\ path[1] = start \/ Len(path) = MaxLinks + 2
  /\ start # dest => Linked(path)

PathInv ==
  /\ phase = "trace" => Tracing
  /\ phase = "simplify" => Traced
  /\ phase \in {"simplify", "prune"} => simplify
  /\ PathIsFree

\* A jump put before a chain of jumps makes a longer one, with the same end.
LEMMA Prepend ==
  ASSUME NEW p \in Seq(Cells), Len(p) >= 1, NEW e \in Cells
  PROVE  /\ <<e>> \o p \in Seq(Cells) /\ Len(<<e>> \o p) = Len(p) + 1
         /\ (<<e>> \o p)[1] = e /\ (<<e>> \o p)[Len(p) + 1] = p[Len(p)]
         /\ Jump(e, p[1]) /\ Linked(p) => Linked(<<e>> \o p)
<1>1. /\ <<e>> \o p \in Seq(Cells) /\ Len(<<e>> \o p) = Len(p) + 1
      /\ (<<e>> \o p)[1] = e /\ \A n \in 1 .. Len(p) : (<<e>> \o p)[n + 1] = p[n]
  OBVIOUS
<1>2. ASSUME Jump(e, p[1]), Linked(p), NEW n \in 1 .. Len(p)
      PROVE  Jump((<<e>> \o p)[n], (<<e>> \o p)[n + 1])
  <2>1. CASE n = 1
    BY <1>1, <1>2, <2>1
  <2>2. CASE n # 1
    <3>1. n - 1 \in 1 .. Len(p) - 1 /\ (n - 1) + 1 = n
      BY <2>2
    <3>2. Jump(p[n - 1], p[n])
      BY <1>2, <3>1 DEF Linked
    <3>3. (<<e>> \o p)[n] = p[n - 1] /\ (<<e>> \o p)[n + 1] = p[n]
      BY <1>1, <3>1
    <3>4. QED
      BY <3>2, <3>3
  <2>3. QED
    BY <2>1, <2>2
<1>3. ASSUME Jump(e, p[1]), Linked(p) PROVE Linked(<<e>> \o p)
  <2>1. \A n \in 1 .. Len(p) : Jump((<<e>> \o p)[n], (<<e>> \o p)[n + 1])
    BY <1>2, <1>3
  <2>2. Len(<<e>> \o p) - 1 = Len(p)
    BY <1>1
  <2>3. QED
    BY <2>1, <2>2, Zenon DEF Linked
<1>4. QED
  BY <1>1, <1>3

\* The moment the destination is on top of the queue.
LEMMA GoalStartsTrace ==
  ASSUME SearchInv, NEW n \in BagToSet(q), PopGoal(n)
  PROVE  PathInv'
<1>1. /\ phase' = "trace" /\ path' = <<dest>> /\ i' = parents[dest].from /\ n.at = dest
      /\ phase = "pop" /\ UNCHANGED <<input, parents>>
  BY DEF PopGoal, Pop
<1>2. dest \in DOMAIN parents /\ Tree /\ dest \in Cells
  BY <1>1 DEF SearchInv, TypeOK
<1>3. Len(path') = 1 /\ path'[1] = dest /\ path' \in Seq(Cells)
  BY <1>1, <1>2
<1>4. Tracing'
  BY <1>1, <1>2, <1>3, JPSAssumption DEF Tracing, Linked, Tree, input
<1>5. QED
  BY <1>1, <1>4 DEF PathInv, PathIsFree

LEMMA TraceKeeps == SearchInv /\ PathInv /\ Trace => PathInv'
<1> SUFFICES ASSUME SearchInv, PathInv, Trace PROVE PathInv'
  OBVIOUS
<1> DEFINE p == <<i>> \o path
<1>1. /\ phase = "trace" /\ path' = p /\ UNCHANGED <<input, search, simplify>> /\ Tracing /\ Tree
  BY DEF Trace, PathInv, SearchInv
<1>2. i \in DOMAIN parents /\ i \in Cells
  BY <1>1 DEF Tracing, Tree
<1>3. /\ p \in Seq(Cells) /\ Len(p) = Len(path) + 1 /\ p[1] = i /\ p[Len(p)] = dest
      /\ start # dest => Linked(p)
  <2>1. start # dest => Jump(i, path[1]) /\ Linked(path)
    BY <1>1 DEF Tracing, Tree, LinksLeadBack
  <2>2. QED
    BY <1>1, <1>2, <2>1, Prepend DEF Tracing
<1> HIDE DEF p
<1>5. CASE /\ i # start /\ Len(path) <= MaxLinks /\ i' = parents[i].from /\ phase' = phase
  <2>1. start # dest
    BY <1>1, <1>5 DEF Tracing
  <2>2. Linked(path)'
    BY <1>1, <1>3, <2>1 DEF Linked, Jump, Free, Occ, Index, input
  <2>3. Tracing'
    BY <1>1, <1>2, <1>3, <1>5, <2>1, <2>2, JPSAssumption DEF Tracing, input, search
  <2>4. QED
    BY <1>1, <1>5, <2>3 DEF PathInv, PathIsFree
<1>6. CASE /\ i = start \/ Len(path) > MaxLinks
           /\ phase' = IF simplify THEN "simplify" ELSE "done"
  <2>1. Len(p) >= 1 /\ Last(p) = p[Len(p)] /\ Head(p) = p[1]
    BY <1>1, <1>3 DEF Last, Tracing
  <2>2. Head(p) = start \/ Len(p) = MaxLinks + 2
    BY <1>1, <1>3, <1>6, <2>1, JPSAssumption DEF Tracing
  <2>3. start # dest => \A n \in 1 .. Len(path') - 1 : Jump(path'[n], path'[n + 1])
    BY <1>1, <1>3 DEF Linked
  <2>4. PathIsFree'
    BY <1>1, <1>3, <2>1, <2>2, <2>3 DEF PathIsFree, Jump, Free, Occ, Index, input
  <2>5. Linked(path)' <=> Linked(p)
    BY <1>1 DEF Linked, Jump, Free, Occ, Index, input
  <2>6. Traced'
    BY <1>1, <1>3, <2>1, <2>2, <2>5 DEF Traced, input
  <2>7. QED
    BY <1>1, <1>6, <2>4, <2>6 DEF PathInv
<1>7. QED
  BY <1>1, <1>5, <1>6, JPSAssumption DEF Trace, Tracing

\* Outside trace the path is simplified, pruned or left alone.
LEMMA PathStays ==
  ASSUME PathInv, UNCHANGED <<input, simplify>>,
         \/ phase' \in {"start", "pop", "diagonal", "none", "undefined"}
         \/ UNCHANGED <<phase, path, i, parents>>
         \/ phase \in {"simplify", "prune"} /\ phase' \in {"prune", "done"}
  PROVE  PathInv'
<1>1. CASE phase' \in {"start", "pop", "diagonal", "none", "undefined"}
  BY <1>1 DEF PathInv, PathIsFree
<1>2. CASE UNCHANGED <<phase, path, i, parents>>
  BY <1>2 DEF PathInv, PathIsFree, Tracing, Traced, Linked, Jump, Free, Occ, Index, input
<1>3. CASE phase \in {"simplify", "prune"} /\ phase' \in {"prune", "done"}
  BY <1>3 DEF PathInv, PathIsFree
<1>4. QED
  BY <1>1, <1>2, <1>3

LEMMA StepPath == SearchInv /\ PathInv /\ [Next]_vars => PathInv'
<1> SUFFICES ASSUME SearchInv, PathInv, [Next]_vars PROVE PathInv'
  OBVIOUS
<1>1. CASE Begin \/ PopNothing \/ explore_diagonal
  <2>1. phase' \in {"pop", "none", "diagonal"} /\ UNCHANGED <<input, simplify>>
    BY <1>1 DEF Begin, PopNothing, explore_diagonal, result
  <2>2. QED
    BY <2>1, PathStays
<1>2. ASSUME NEW n \in BagToSet(q), PopGoal(n) PROVE PathInv'
  BY <1>2, GoalStartsTrace
<1>3. ASSUME NEW n \in BagToSet(q), PopStraight(n) \/ PopDiagonal(n) PROVE PathInv'
  <2>1. phase' \in {"pop", "diagonal"} /\ UNCHANGED <<input, simplify>>
    BY <1>3 DEF PopStraight, PopDiagonal, Pop, result
  <2>2. QED
    BY <2>1, PathStays
<1>4. ASSUME NEW n \in Steps, explore_straight(n) PROVE PathInv'
  <2>1. straight # <<>> /\ UNCHANGED <<phase, input, simplify>>
    BY <1>4 DEF explore_straight, result
  <2>2. phase \in {"pop", "diagonal"}
    BY <2>1 DEF SearchInv, Explorations
  <2>3. QED
    BY <2>1, <2>2, PathStays
<1>5. CASE Trace
  BY <1>5, TraceKeeps
<1>6. CASE SimplifyTwice \/ Prune \/ PruneEnd
  <2>1. /\ phase \in {"simplify", "prune"} /\ phase' \in {"prune", "done", "undefined"}
        /\ UNCHANGED <<input, simplify>>
    BY <1>6 DEF SimplifyTwice, Prune, PruneEnd, result
  <2>2. QED
    BY <2>1, PathStays
<1>7. CASE UNCHANGED vars
  BY <1>7, PathStays DEF vars, search, result
<1>8. QED
  BY <1>1, <1>2, <1>3, <1>4, <1>5, <1>6, <1>7 DEF Next, Search, getPath, Finished

LEMMA InitPath == Init => PathInv
  BY DEF Init, PathInv, PathIsFree

-----------------------------------------------------------------------------
(* The simplified path.                                                     *)

\* A set of natural numbers has a least element.
LEMMA LeastExists ==
  ASSUME NEW S, S \subseteq Nat, S # {}
  PROVE  \E x \in S : \A y \in S : x <= y
<1> DEFINE R == OpToRel(<, Nat)
<1>1. IsWellFoundedOn(R, Nat)
  BY NatLessThanWellFounded
<1>2. \A x, y \in Nat : y < x => <<y, x>> \in R
  BY DEF OpToRel
<1> HIDE DEF R
<1>3. \E x \in S : \A y \in S : <<y, x>> \notin R
  BY <1>1, WFMin
<1>4. PICK x \in S : \A y \in S : <<y, x>> \notin R
  BY <1>3
<1>5. ASSUME NEW y \in S PROVE x <= y
  <2>1. x \in Nat /\ y \in Nat
    OBVIOUS
  <2>2. ~(y < x)
    BY <1>2, <1>4, <2>1
  <2> QED
    BY <2>1, <2>2
<1> QED
  BY <1>5

\* What simplifyPath has kept after each of the first m points.
Kept(g, p, rounding, m) ==
  g = [n \in 1 .. m |->
         IF n = 1 THEN <<p[1]>>
         ELSE IF n < Len(p) /\ Shorter(Last(g[n - 1]), p[n], p[n + 1], n = 2, rounding)
              THEN g[n - 1]
              ELSE Append(g[n - 1], p[n])]

LEMMA KeptExists ==
  ASSUME NEW p, NEW rounding, NEW n \in Nat
  PROVE  \E g : Kept(g, p, rounding, n)
<1> DEFINE S == {m \in Nat : ~ \E g : Kept(g, p, rounding, m)}
<1> SUFFICES ASSUME S # {} PROVE FALSE
  OBVIOUS
<1>1. PICK m \in S : \A j \in S : m <= j
  <2>1. S \subseteq Nat
    OBVIOUS
  <2> HIDE DEF S
  <2> QED
    BY <2>1, LeastExists
<1>2. m \in Nat /\ ~ \E g : Kept(g, p, rounding, m)
  OBVIOUS
<1> DEFINE Next1(h, x) ==
             IF x = 1 THEN <<p[1]>>
             ELSE IF x < Len(p) /\ Shorter(Last(h[x - 1]), p[x], p[x + 1], x = 2, rounding)
                  THEN h[x - 1]
                  ELSE Append(h[x - 1], p[x])
<1>3. \A g, l : Kept(g, p, rounding, l) <=> g = [x \in 1 .. l |-> Next1(g, x)]
  BY DEF Kept
<1>4. CASE m = 0
  <2> DEFINE g == [x \in 1 .. 0 |-> <<>>]
  <2>1. g = [x \in 1 .. 0 |-> Next1(g, x)]
    <3> HIDE DEF Next1
    <3> QED
      OBVIOUS
  <2> HIDE DEF g, Next1
  <2> QED
    BY <1>2, <1>3, <1>4, <2>1
<1>5. CASE m # 0
  <2>1. m - 1 \in Nat /\ ~(m <= m - 1)
    BY <1>2, <1>5
  <2>2. PICK h : Kept(h, p, rounding, m - 1)
    BY <1>1, <2>1
  <2> DEFINE g == [x \in 1 .. m |-> Next1(h, x)]
  <2>3. ASSUME NEW x \in 1 .. m PROVE Next1(h, x) = Next1(g, x)
    <3>1. CASE x = 1
      BY <3>1
    <3>2. CASE x # 1
      <4>1. x - 1 \in 1 .. m - 1 /\ x - 1 \in 1 .. m
        BY <1>2, <3>2
      <4>2. h[x - 1] = g[x - 1]
        <5>1. h[x - 1] = Next1(h, x - 1)
          <6> HIDE DEF Next1
          <6> QED
            BY <1>3, <2>2, <4>1
        <5>2. g[x - 1] = Next1(h, x - 1)
          <6> HIDE DEF Next1
          <6> QED
            BY <4>1
        <5> QED
          BY <5>1, <5>2, Zenon
      <4> HIDE DEF g
      <4> QED
        BY <4>2
    <3> QED
      BY <3>1, <3>2
  <2>4. g = [x \in 1 .. m |-> Next1(g, x)]
    <3> DEFINE f == [x \in 1 .. m |-> Next1(h, x)]
    <3> HIDE DEF Next1
    <3>1. \A x \in 1 .. m : Next1(h, x) = Next1(f, x)
      BY <2>3
    <3>2. f = [x \in 1 .. m |-> Next1(f, x)]
      BY <3>1
    <3> QED
      BY <3>2
  <2> HIDE DEF g, Next1
  <2> QED
    BY <1>2, <1>3, <2>4
<1> QED
  BY <1>4, <1>5

\* Each point of a path and the next are related by G.
Through(p, G) == \A n \in 1 .. Len(p) - 1 : <<p[n], p[n + 1]>> \in G

\* A part of a path's points, kept up to the n-th point, that may go on with the next one.
KeepsTo(s, p, G, n) ==
  /\ s \in Seq(Cells) /\ Len(s) >= 1 /\ s[1] = p[1]
  /\ Through(s, G)
  /\ IF n = Len(p) THEN s[Len(s)] = p[n] ELSE <<s[Len(s)], p[n + 1]>> \in G

LEMMA AppendKeeps ==
  ASSUME NEW p \in Seq(Cells), NEW G, NEW s, NEW n \in 2 .. Len(p),
         KeepsTo(s, p, G, n - 1), Through(p, G)
  PROVE  KeepsTo(Append(s, p[n]), p, G, n)
<1> DEFINE t == Append(s, p[n])
           len == Len(s)
<1>1. /\ s \in Seq(Cells) /\ len \in Nat /\ len >= 1 /\ s[1] = p[1]
      /\ \A m \in 1 .. len - 1 : <<s[m], s[m + 1]>> \in G
  BY DEF KeepsTo, Through
<1>2. <<s[len], p[n]>> \in G
  <2>1. n - 1 # Len(p) /\ (n - 1) + 1 = n
    OBVIOUS
  <2> QED
    BY <2>1 DEF KeepsTo
<1>3. p[n] \in Cells
  OBVIOUS
<1>4. t \in Seq(Cells) /\ Len(t) = len + 1 /\ t[len + 1] = p[n] /\ \A m \in 1 .. len : t[m] = s[m]
  BY <1>1, <1>3
<1>5. n # Len(p) => <<p[n], p[n + 1]>> \in G
  BY DEF Through
<1> HIDE DEF t, len
<1>6. t[1] = p[1] /\ t[len] = s[len]
  <2>1. 1 \in 1 .. len /\ len \in 1 .. len
    BY <1>1
  <2> QED
    BY <1>1, <1>4, <2>1
<1>7. ASSUME NEW m \in 1 .. Len(t) - 1 PROVE <<t[m], t[m + 1]>> \in G
  <2>1. CASE m = len
    BY <1>2, <1>4, <1>6, <2>1
  <2>2. CASE m # len
    <3>1. m \in 1 .. len - 1 /\ m \in 1 .. len /\ m + 1 \in 1 .. len
      BY <1>1, <1>4, <2>2
    <3> QED
      BY <1>1, <1>4, <3>1
  <2> QED
    BY <2>1, <2>2
<1>8. Through(t, G)
  BY <1>7, Zenon DEF Through
<1>9. Len(t) >= 1 /\ t[Len(t)] = p[n]
  BY <1>1, <1>4
<1> QED
  BY <1>4, <1>5, <1>6, <1>8, <1>9 DEF KeepsTo, t

\* The relations that simplifyPath keeps: they hold of all cells with a free ray between.
HoldsOfFreeRays(G) == \A c, e \in Cells : ~isBlocked(c, e) => <<c, e>> \in G

LEMMA KeptKeeps ==
  ASSUME NEW p \in Seq(Cells), NEW G, NEW rounding, Through(p, G), HoldsOfFreeRays(G),
         NEW g, Kept(g, p, rounding, Len(p)), NEW n \in 1 .. Len(p)
  PROVE  KeepsTo(g[n], p, G, n)
<1> DEFINE S == {m \in 1 .. Len(p) : ~KeepsTo(g[m], p, G, m)}
<1> SUFFICES ASSUME S # {} PROVE FALSE
  OBVIOUS
<1>1. PICK m \in S : \A j \in S : m <= j
  <2>1. S \subseteq Nat
    OBVIOUS
  <2> HIDE DEF S
  <2> QED
    BY <2>1, LeastExists
<1>2. m \in 1 .. Len(p) /\ ~KeepsTo(g[m], p, G, m)
  OBVIOUS
<1>3. g[m] = IF m = 1 THEN <<p[1]>>
             ELSE IF m < Len(p) /\ Shorter(Last(g[m - 1]), p[m], p[m + 1], m = 2, rounding)
                  THEN g[m - 1]
                  ELSE Append(g[m - 1], p[m])
  BY <1>2 DEF Kept
<1>4. CASE m = 1
  <2>1. p[1] \in Cells
    BY <1>2, <1>4
  <2> DEFINE t == <<p[1]>>
  <2>2. t \in Seq(Cells) /\ Len(t) = 1 /\ t[1] = p[1]
    BY <2>1
  <2>3. 1 # Len(p) => <<p[1], p[1 + 1]>> \in G
    <3> SUFFICES ASSUME 1 # Len(p) PROVE <<p[1], p[1 + 1]>> \in G
      OBVIOUS
    <3> DEFINE len == Len(p)
    <3>1. len \in Nat /\ n \in 1 .. len /\ len # 1
      OBVIOUS
    <3> HIDE DEF len
    <3>2. 1 \in 1 .. len - 1
      <4>1. n \in Int /\ 1 <= n /\ n <= len
        BY <3>1, SMT
      <4> QED
        BY <3>1, <4>1, SMT
    <3> QED
      BY <3>2, Zenon DEF Through, len
  <2> HIDE DEF t
  <2>4. Through(t, G)
    BY <2>2 DEF Through
  <2>5. KeepsTo(t, p, G, 1)
    BY <2>2, <2>3, <2>4 DEF KeepsTo
  <2> QED
    BY <1>2, <1>3, <1>4, <2>5 DEF t
<1>5. CASE m # 1
  <2>1. m - 1 \in 1 .. Len(p) /\ ~(m <= m - 1) /\ m \in 2 .. Len(p)
    BY <1>2, <1>5
  <2>2. KeepsTo(g[m - 1], p, G, m - 1)
    BY <1>1, <2>1
  <2>3. CASE m < Len(p) /\ Shorter(Last(g[m - 1]), p[m], p[m + 1], m = 2, rounding)
    <3> DEFINE s == g[m - 1]
    <3>1. s \in Seq(Cells) /\ Len(s) >= 1 /\ s[1] = p[1] /\ Through(s, G)
      BY <2>2 DEF KeepsTo
    <3>2. ~isBlocked(s[Len(s)], p[m + 1])
      BY <2>3 DEF Shorter, Last
    <3> HIDE DEF s
    <3>3. s[Len(s)] \in Cells /\ p[m + 1] \in Cells
      BY <1>2, <2>3, <3>1
    <3>4. <<s[Len(s)], p[m + 1]>> \in G
      BY <3>2, <3>3 DEF HoldsOfFreeRays
    <3>5. KeepsTo(s, p, G, m)
      BY <1>2, <2>3, <3>1, <3>4 DEF KeepsTo
    <3> QED
      BY <1>2, <1>3, <1>5, <2>3, <3>5 DEF s
  <2>4. CASE ~(m < Len(p) /\ Shorter(Last(g[m - 1]), p[m], p[m + 1], m = 2, rounding))
    <3>1. KeepsTo(Append(g[m - 1], p[m]), p, G, m)
      BY <2>1, <2>2, AppendKeeps
    <3> QED
      BY <1>2, <1>3, <1>5, <2>4, <3>1
  <2> QED
    BY <2>3, <2>4
<1> QED
  BY <1>4, <1>5

\* simplifyPath keeps both ends and every relation that holds of free rays.
LEMMA SimplifyKeeps ==
  ASSUME NEW p \in Seq(Cells), Len(p) >= 1, NEW G, NEW rounding, Through(p, G),
         HoldsOfFreeRays(G), NEW s, s = simplifyPath(p, rounding)
  PROVE  /\ s \in Seq(Cells) /\ Len(s) >= 1
         /\ s[1] = p[1] /\ s[Len(s)] = p[Len(p)] /\ Through(s, G)
<1> DEFINE g == CHOOSE h : Kept(h, p, rounding, Len(p))
<1>1. Len(p) \in Nat /\ Len(p) \in 1 .. Len(p)
  OBVIOUS
<1>2. Kept(g, p, rounding, Len(p))
  BY <1>1, KeptExists, Zenon
<1>3. s = g[Len(p)]
  BY Zenon DEF simplifyPath, Kept
<1> HIDE DEF g
<1>4. KeepsTo(g[Len(p)], p, G, Len(p))
  BY <1>1, <1>2, KeptKeeps
<1> QED
  BY <1>3, <1>4 DEF KeepsTo

\* G between the points the other way round.
Inverted(G) == {e \in Cells \X Cells : <<e[2], e[1]>> \in G}

LEMMA ReverseKeeps ==
  ASSUME NEW p \in Seq(Cells), Len(p) >= 1, NEW G, Through(p, G)
  PROVE  /\ Reverse(p) \in Seq(Cells) /\ Len(Reverse(p)) = Len(p)
         /\ Reverse(p)[1] = p[Len(p)] /\ Reverse(p)[Len(p)] = p[1]
         /\ Through(Reverse(p), Inverted(G))
<1> DEFINE r == Reverse(p)
           len == Len(p)
<1>1. len \in Nat /\ len >= 1 /\ \A n \in 1 .. len : p[n] \in Cells
  OBVIOUS
<1>2. \A n \in 1 .. len : (len - n) + 1 \in 1 .. len
  BY <1>1
<1>3. r = [n \in 1 .. len |-> p[(len - n) + 1]]
  BY DEF Reverse
<1> HIDE DEF r
<1>4. r \in Seq(Cells) /\ Len(r) = len /\ \A n \in 1 .. len : r[n] = p[(len - n) + 1]
  <2>1. r \in [1 .. len -> Cells]
    BY <1>1, <1>2, <1>3
  <2>2. \A f \in [1 .. len -> Cells] : f \in Seq(Cells) /\ Len(f) = len
    BY <1>1
  <2> HIDE DEF len
  <2> QED
    BY <1>3, <2>1, <2>2
<1>5. r[1] = p[len] /\ r[len] = p[1]
  <2>1. 1 \in 1 .. len /\ len \in 1 .. len /\ (len - 1) + 1 = len /\ (len - len) + 1 = 1
    BY <1>1
  <2> HIDE DEF len
  <2> QED
    BY <1>4, <2>1
<1>6. ASSUME NEW n \in 1 .. len - 1 PROVE <<r[n], r[n + 1]>> \in Inverted(G)
  <2> DEFINE m == len - n
  <2>1. /\ m \in 1 .. len - 1 /\ n \in 1 .. len /\ n + 1 \in 1 .. len
        /\ (len - (n + 1)) + 1 = m /\ m \in 1 .. len /\ m + 1 \in 1 .. len
    BY <1>1
  <2>2. <<p[m], p[m + 1]>> \in G
    BY <2>1 DEF Through
  <2> HIDE DEF m, len
  <2>3. r[n] = p[m + 1] /\ r[n + 1] = p[m]
    BY <1>4, <2>1 DEF m
  <2> QED
    BY <1>1, <2>1, <2>2, <2>3 DEF Inverted
<1> HIDE DEF len
<1>7. Through(r, Inverted(G))
  BY <1>4, <1>6 DEF Through
<1> QED
  BY <1>4, <1>5, <1>7 DEF r, len

\* What SimplifiedIsFree says of two points that the simplified path joins.
Joins ==
  {e \in Cells \X Cells :
     start = dest \/ Jump(e[1], e[2]) \/ ~isBlocked(e[1], e[2]) \/ ~isBlocked(e[2], e[1])}

LEMMA TracedJoins == Traced => Through(path, Joins)
<1> SUFFICES ASSUME Traced, NEW n \in 1 .. Len(path) - 1 PROVE <<path[n], path[n + 1]>> \in Joins
  BY Zenon DEF Through
<1>1. path[n] \in Cells /\ path[n + 1] \in Cells
  BY DEF Traced
<1>2. start # dest => Jump(path[n], path[n + 1])
  BY DEF Traced, Linked
<1> QED
  BY <1>1, <1>2 DEF Joins

\* Simplifying from the start and then from the end.
LEMMA TwiceKeeps ==
  ASSUME NEW p \in Seq(Cells), Len(p) >= 1, Through(p, Joins), NEW r1, NEW r2,
         NEW s, s = Reverse(simplifyPath(Reverse(simplifyPath(p, r1)), r2))
  PROVE  /\ s \in Seq(Cells) /\ Len(s) >= 1
         /\ s[1] = p[1] /\ s[Len(s)] = p[Len(p)] /\ Through(s, Joins)
<1> DEFINE there == simplifyPath(p, r1)
           turned == Reverse(there)
           back == simplifyPath(turned, r2)
<1>1. HoldsOfFreeRays(Joins) /\ HoldsOfFreeRays(Inverted(Joins))
  <2> SUFFICES ASSUME NEW c \in Cells, NEW e \in Cells, ~isBlocked(c, e)
               PROVE  <<c, e>> \in Joins /\ <<c, e>> \in Inverted(Joins)
    BY Zenon DEF HoldsOfFreeRays
  <2> QED
    BY DEF Joins, Inverted
<1>2. Inverted(Inverted(Joins)) = Joins
  BY DEF Inverted, Joins
<1>3. s = Reverse(back)
  OBVIOUS
<1>4. /\ there \in Seq(Cells) /\ Len(there) >= 1
      /\ there[1] = p[1] /\ there[Len(there)] = p[Len(p)] /\ Through(there, Joins)
  BY <1>1, SimplifyKeeps
<1> HIDE DEF there
<1>5. /\ turned \in Seq(Cells) /\ Len(turned) = Len(there)
      /\ turned[1] = there[Len(there)] /\ turned[Len(there)] = there[1]
      /\ Through(turned, Inverted(Joins))
  BY <1>4, ReverseKeeps
<1> HIDE DEF turned
<1>6. /\ back \in Seq(Cells) /\ Len(back) >= 1
      /\ back[1] = turned[1] /\ back[Len(back)] = turned[Len(turned)]
      /\ Through(back, Inverted(Joins))
  <2>1. Len(turned) >= 1
    BY <1>4, <1>5
  <2> QED
    BY <1>1, <1>5, <2>1, SimplifyKeeps
<1> HIDE DEF back
<1>7. /\ s \in Seq(Cells) /\ Len(s) = Len(back)
      /\ s[1] = back[Len(back)] /\ s[Len(back)] = back[1]
      /\ Through(s, Inverted(Inverted(Joins)))
  BY <1>3, <1>6, ReverseKeeps
<1> QED
  BY <1>2, <1>4, <1>5, <1>6, <1>7

\* Simplifying keeps what getPath read: its ends, and that it goes on by jumps or free rays.
LEMMA TwiceIsFree == SearchInv /\ PathInv /\ [Next]_vars =>
  (phase = "simplify" /\ phase' = "prune" =>
       /\ Last(path') = dest
       /\ Head(path') = start \/ Len(path) = MaxLinks + 2
       /\ \A n \in 1 .. Len(path') - 1 :
            \/ start = dest
            \/ Jump(path'[n], path'[n + 1])
            \/ ~isBlocked(path'[n], path'[n + 1]) \/ ~isBlocked(path'[n + 1], path'[n]))
<1> SUFFICES ASSUME SearchInv, PathInv, [Next]_vars, phase = "simplify", phase' = "prune"
             PROVE  /\ Last(path') = dest
                    /\ Head(path') = start \/ Len(path) = MaxLinks + 2
                    /\ \A n \in 1 .. Len(path') - 1 :
                         \/ start = dest
                         \/ Jump(path'[n], path'[n + 1])
                         \/ ~isBlocked(path'[n], path'[n + 1])
                         \/ ~isBlocked(path'[n + 1], path'[n])
  OBVIOUS
<1>1. PICK r1, r2 \in BOOLEAN :
        path' = Reverse(simplifyPath(Reverse(simplifyPath(path, r1)), r2))
  <2>1. straight = <<>>
    BY DEF SearchInv, Explorations
  <2>2. SimplifyTwice
    BY <2>1 DEF Next, Search, getPath, Finished, vars, Begin, PopNothing, PopGoal, PopStraight,
                PopDiagonal, Pop, explore_straight, explore_diagonal, Trace, Prune, PruneEnd
  <2> QED
    BY <2>2 DEF SimplifyTwice
<1>2. Traced
  BY DEF PathInv
<1>3. Through(path, Joins)
  BY <1>2, TracedJoins
<1>4. /\ path' \in Seq(Cells) /\ Len(path') >= 1
      /\ path'[1] = path[1] /\ path'[Len(path')] = path[Len(path)] /\ Through(path', Joins)
  <2>1. path \in Seq(Cells) /\ Len(path) >= 1
    BY <1>2 DEF Traced
  <2> QED
    BY <1>1, <1>3, <2>1, TwiceKeeps
<1>5. Last(path') = dest /\ (Head(path') = start \/ Len(path) = MaxLinks + 2)
  BY <1>2, <1>4 DEF Traced, Last
<1>6. ASSUME NEW n \in 1 .. Len(path') - 1
      PROVE  \/ start = dest
             \/ Jump(path'[n], path'[n + 1])
             \/ ~isBlocked(path'[n], path'[n + 1]) \/ ~isBlocked(path'[n + 1], path'[n])
  <2>1. <<path'[n], path'[n + 1]>> \in Joins
    BY <1>4, Zenon DEF Through
  <2> QED
    BY <2>1 DEF Joins
<1> QED
  BY <1>5, <1>6

-----------------------------------------------------------------------------
(* Division.                                                                *)

LEMMA Products ==
  \A a, b, c \in Nat : /\ a <= b => a * c <= b * c /\ c * a <= c * b
                       /\ a < b => (b - a) * c >= c
                       /\ (a + 1) * c = a * c + c
  OBVIOUS

LEMMA QuotientOf ==
  ASSUME NEW x \in Nat, NEW b \in Nat \ {0}
  PROVE  /\ x \div b \in Nat /\ (x \div b) * b <= x /\ x < (x \div b) * b + b
         /\ x % b = x - (x \div b) * b
OBVIOUS

\* The quotient is the number of times that the divisor goes into the dividend.
LEMMA QuotientIs ==
  ASSUME NEW x \in Nat, NEW b \in Nat \ {0}, NEW m \in Nat, m * b <= x, x < m * b + b
  PROVE  x \div b = m /\ x % b = x - m * b
<1> DEFINE y == x \div b
<1>1. y \in Nat /\ y * b <= x /\ x < y * b + b /\ x % b = x - y * b
  BY QuotientOf
<1> HIDE DEF y
<1>2. b \in Nat /\ m * b \in Nat /\ y * b \in Nat
  BY <1>1
<1>3. ~(y < m)
  <2> SUFFICES ASSUME y < m PROVE FALSE
    OBVIOUS
  <2>1. y + 1 \in Nat /\ y + 1 <= m
    BY <1>1
  <2>2. (y + 1) * b <= m * b /\ (y + 1) * b = y * b + b
    BY <1>1, <1>2, <2>1, Products
  <2> QED
    BY <1>1, <1>2, <2>2
<1>4. ~(m < y)
  <2> SUFFICES ASSUME m < y PROVE FALSE
    OBVIOUS
  <2>1. m + 1 \in Nat /\ m + 1 <= y
    BY <1>1
  <2>2. (m + 1) * b <= y * b /\ (m + 1) * b = m * b + b
    BY <1>1, <1>2, <2>1, Products
  <2> QED
    BY <1>1, <1>2, <2>2
<1>5. y = m
  BY <1>1, <1>3, <1>4
<1> QED
  BY <1>1, <1>5 DEF y

\* A cell's index leads back to it.
LEMMA IndexIsOfCell == \A c \in Cells : index_to_cells(cells_to_index(c)) = c
<1> SUFFICES ASSUME NEW c \in Cells PROVE index_to_cells(cells_to_index(c)) = c
  OBVIOUS
<1>1. c[1] \in Nat /\ c[2] \in Nat /\ c[1] < sizeX /\ c = <<c[1], c[2]>> /\ sizeX \in Nat \ {0}
  BY JPSAssumption DEF Cells
<1> DEFINE x == c[2] * sizeX + c[1]
<1>2. x \in Nat /\ c[2] * sizeX <= x /\ x < c[2] * sizeX + sizeX /\ x - c[2] * sizeX = c[1]
  <2>1. c[2] * sizeX \in Nat
    BY <1>1
  <2> QED
    BY <1>1, <2>1
<1> HIDE DEF x
<1>3. x \div sizeX = c[2] /\ x % sizeX = c[1]
  BY <1>1, <1>2, QuotientIs
<1> QED
  BY <1>1, <1>3 DEF index_to_cells, cells_to_index, x

LEMMA CentreIsOfCell == \A c \in Cells : Centre(c) \in Points /\ world_to_map(Centre(c)) = c
<1> SUFFICES ASSUME NEW c \in Cells PROVE Centre(c) \in Points /\ world_to_map(Centre(c)) = c
  OBVIOUS
<1>1. /\ c[1] \in Nat /\ c[2] \in Nat /\ c[1] < sizeX /\ c[2] < sizeY /\ c = <<c[1], c[2]>>
      /\ sizeX \in Nat /\ sizeY \in Nat
  BY JPSAssumption DEF Cells
<1>2. (4 * c[1] + 2) \div 4 = c[1] /\ (4 * c[2] + 2) \div 4 = c[2]
  BY <1>1
<1> QED
  BY <1>1, <1>2 DEF Centre, world_to_map, Points

LEMMA PointIsInCell == \A p \in Points : world_to_map(p) \in Cells
  BY JPSAssumption DEF Points, world_to_map, Cells

\* The community module's Min of natural numbers is the least of them.
LEMMA MinIs ==
  ASSUME NEW S, S \subseteq Nat, S # {}
  PROVE  Min(S) \in S /\ \A y \in S : Min(S) <= y
<1>1. \E m \in S : \A y \in S : m <= y
  BY LeastExists
<1> QED
  BY <1>1 DEF Min

-----------------------------------------------------------------------------
(* Rays.                                                                    *)

\* How far a ray that goes da cells along and db aside is aside after j cells.
Aside(da, db, j) == (da \div 2 + j * db) \div da

LEMMA AsideIs ==
  ASSUME NEW da \in Nat \ {0}, NEW db \in 0 .. da, NEW j \in 0 .. da
  PROVE  Aside(da, db, j) \in 0 .. db /\ Aside(da, db, da) = db
<1> DEFINE half == da \div 2
           x == half + j * db
           y == half + da * db
<1>1. half \in Nat /\ half < da
  OBVIOUS
<1>2. j * db \in Nat /\ da * db \in Nat /\ j * db <= da * db /\ db * da = da * db
  BY Products
<1> HIDE DEF half
<1>3. x \in Nat /\ y \in Nat /\ x <= y
  BY <1>1, <1>2
<1>4. y \div da = db
  <2>1. db * da <= y /\ y < db * da + da /\ db \in Nat
    BY <1>1, <1>2
  <2> HIDE DEF y
  <2> QED
    BY <1>3, <2>1, QuotientIs
<1>5. x \div da \in Nat /\ x \div da <= db
  <2> DEFINE m == x \div da
  <2> HIDE DEF x
  <2>1. m \in Nat /\ m * da <= x
    BY <1>3, QuotientOf
  <2> SUFFICES ASSUME ~(m <= db) PROVE FALSE
    BY <2>1
  <2> HIDE DEF m
  <2>2. db + 1 <= m /\ db + 1 \in Nat /\ da \in Nat /\ db \in Nat
    BY <2>1
  <2>3. (db + 1) * da <= m * da
    BY <2>1, <2>2, Products
  <2>4. (db + 1) * da = db * da + da
    BY <2>2, Products
  <2>5. db * da + da <= x
    BY <2>1, <2>3, <2>4, <1>2, <1>3
  <2> QED
    BY <1>1, <1>2, <1>3, <2>5 DEF y
<1> QED
  BY <1>4, <1>5 DEF Aside, half

Away(n) == IF n > 0 THEN 1 ELSE -1

\* The n-th cell that a ray from s to e looks at, each step's after the one before.
RayCell(s, e, n) ==
  LET dx == Abs(e[1] - s[1])
      dy == Abs(e[2] - s[2])
      a == (n + 1) \div 2
      b == IF dx >= dy THEN Aside(dx, dy, n \div 2) ELSE Aside(dy, dx, n \div 2)
      along == IF dx >= dy THEN a ELSE b
      up == IF dx >= dy THEN b ELSE a
  IN <<s[1] + Away(e[1] - s[1]) * along, s[2] + Away(e[2] - s[2]) * up>>

Longer(s, e) == LET dx == Abs(e[1] - s[1])
                    dy == Abs(e[2] - s[2])
                IN IF dx >= dy THEN dx ELSE dy

\* A ray's cells are on the map, and the last is its end.
LEMMA RayCellIs ==
  ASSUME NEW s \in Cells, NEW e \in Cells, NEW n \in 1 .. 2 * Longer(s, e)
  PROVE  RayCell(s, e, n) \in Cells /\ RayCell(s, e, 2 * Longer(s, e)) = e
<1> DEFINE dx == Abs(e[1] - s[1])
           dy == Abs(e[2] - s[2])
           da == Longer(s, e)
           a == (n + 1) \div 2
           j == n \div 2
<1>1. /\ s[1] \in 0 .. sizeX - 1 /\ s[2] \in 0 .. sizeY - 1 /\ s = <<s[1], s[2]>>
      /\ e[1] \in 0 .. sizeX - 1 /\ e[2] \in 0 .. sizeY - 1 /\ e = <<e[1], e[2]>>
      /\ sizeX \in Nat /\ sizeY \in Nat
  BY JPSAssumption DEF Cells
<1>2. /\ dx \in Nat /\ dy \in Nat /\ da = (IF dx >= dy THEN dx ELSE dy)
      /\ e[1] = s[1] + Away(e[1] - s[1]) * dx /\ e[2] = s[2] + Away(e[2] - s[2]) * dy
  BY <1>1 DEF Abs, Away, Longer
<1>3. /\ Away(e[1] - s[1]) \in {1, -1} /\ Away(e[2] - s[2]) \in {1, -1}
  BY DEF Away
<1>4. \A x \in 0 .. dx, y \in 0 .. dy :
        <<s[1] + Away(e[1] - s[1]) * x, s[2] + Away(e[2] - s[2]) * y>> \in Cells
  <2> DEFINE ax == Away(e[1] - s[1])
             ay == Away(e[2] - s[2])
  <2> SUFFICES ASSUME NEW x \in 0 .. dx, NEW y \in 0 .. dy
               PROVE  <<s[1] + ax * x, s[2] + ay * y>> \in Cells
    OBVIOUS
  <2>1. s[1] + ax * x \in 0 .. sizeX - 1
    BY <1>1, <1>2, <1>3
  <2>2. s[2] + ay * y \in 0 .. sizeY - 1
    BY <1>1, <1>2, <1>3
  <2> QED
    BY <2>1, <2>2 DEF Cells
<1>5. da \in Nat \ {0} /\ a \in 0 .. da /\ j \in 0 .. da
  BY <1>2
<1>6. (2 * da + 1) \div 2 = da /\ (2 * da) \div 2 = da
  BY <1>5
<1>7. CASE dx >= dy
  <2>1. da = dx /\ dy \in 0 .. da
    BY <1>2, <1>7
  <2>2. Aside(dx, dy, j) \in 0 .. dy /\ Aside(dx, dy, da) = dy
    <3> HIDE DEF j, da, dx, dy
    <3> QED
      BY <1>5, <2>1, AsideIs
  <2>3. RayCell(s, e, n) = <<s[1] + Away(e[1] - s[1]) * a, s[2] + Away(e[2] - s[2]) * Aside(dx, dy, j)>>
    BY <1>7, Zenon DEF RayCell
  <2>4. RayCell(s, e, 2 * da) =
          <<s[1] + Away(e[1] - s[1]) * da, s[2] + Away(e[2] - s[2]) * Aside(dx, dy, da)>>
    BY <1>6, <1>7 DEF RayCell
  <2> HIDE DEF dx, dy, a, j, da
  <2> QED
    BY <1>1, <1>2, <1>4, <1>5, <2>1, <2>2, <2>3, <2>4 DEF da
<1>8. CASE ~(dx >= dy)
  <2>1. da = dy /\ dx \in 0 .. da
    BY <1>2, <1>8
  <2>2. Aside(dy, dx, j) \in 0 .. dx /\ Aside(dy, dx, da) = dx
    <3> HIDE DEF j, da, dx, dy
    <3> QED
      BY <1>5, <2>1, AsideIs
  <2>3. RayCell(s, e, n) = <<s[1] + Away(e[1] - s[1]) * Aside(dy, dx, j), s[2] + Away(e[2] - s[2]) * a>>
    BY <1>8, Zenon DEF RayCell
  <2>4. RayCell(s, e, 2 * da) =
          <<s[1] + Away(e[1] - s[1]) * Aside(dy, dx, da), s[2] + Away(e[2] - s[2]) * da>>
    BY <1>6, <1>8 DEF RayCell
  <2> HIDE DEF dx, dy, a, j, da
  <2> QED
    BY <1>1, <1>2, <1>4, <1>5, <2>1, <2>2, <2>3, <2>4 DEF da
<1> QED
  BY <1>7, <1>8

\* What the ray stops at: the first of its cells with an index in stops, or the last.
StopsOf(s, e, stops) == {n \in 1 .. 2 * Longer(s, e) : cells_to_index(RayCell(s, e, n)) \in stops}

LEMMA RaycastIs ==
  ASSUME NEW p \in Points, NEW r \in Points, NEW stops,
         NEW s, s = world_to_map(p), NEW e, e = world_to_map(r)
  PROVE  raycast(p, r, stops) =
           IF Longer(s, e) = 0 THEN Centre(e)
           ELSE IF StopsOf(s, e, stops) = {} THEN Centre(e)
           ELSE Centre(RayCell(s, e, Min(StopsOf(s, e, stops))))
<1> DEFINE dx == e[1] - s[1]
           dy == e[2] - s[2]
           da == Longer(s, e)
           ox == IF dx > 0 THEN 1 ELSE -1
           oy == (IF dy > 0 THEN 1 ELSE -1) * sizeX
           from == cells_to_index(s)
           long == Abs(dx) >= Abs(dy)
           db == IF long THEN Abs(dy) ELSE Abs(dx)
           oa == IF long THEN ox ELSE oy
           ob == IF long THEN oy ELSE ox
           At(n) == from + ((n + 1) \div 2) * oa + Aside(da, db, n \div 2) * ob
           hits == {n \in 1 .. 2 * da : At(n) \in stops}
<1>1. s \in Cells /\ e \in Cells
  BY PointIsInCell
<1>2. /\ s[1] \in Nat /\ s[2] \in Nat /\ e[1] \in Nat /\ e[2] \in Nat /\ sizeX \in Nat
      /\ s = <<s[1], s[2]>> /\ e = <<e[1], e[2]>>
  BY <1>1, JPSAssumption DEF Cells
<1>3. raycast(p, r, stops) =
        map_to_world(IF da = 0 THEN from ELSE At(IF hits = {} THEN 2 * da ELSE Min(hits)))
  <2>1. raycast(p, r, stops) = map_to_world(bresenham(da, db, oa, ob, from, stops))
    <3>1. CASE long
      <4>1. da = Abs(dx) /\ db = Abs(dy) /\ oa = ox /\ ob = oy
        BY <3>1 DEF Longer
      <4> HIDE DEF da, db, oa, ob
      <4> QED
        BY <3>1, <4>1 DEF raycast
    <3>2. CASE ~long
      <4>1. da = Abs(dy) /\ db = Abs(dx) /\ oa = oy /\ ob = ox
        BY <3>2 DEF Longer
      <4> HIDE DEF da, db, oa, ob
      <4> QED
        BY <3>2, <4>1 DEF raycast
    <3> QED
      BY <3>1, <3>2
  <2>2. bresenham(da, db, oa, ob, from, stops) =
          IF da = 0 THEN from ELSE At(IF hits = {} THEN 2 * da ELSE Min(hits))
    <3> HIDE DEF da, db, oa, ob, from
    <3> QED
      BY Zenon DEF bresenham, Aside
  <2> HIDE DEF hits, At, da, db, oa, ob, from
  <2> QED
    BY <2>1, <2>2
<1>4. da \in Nat /\ db \in Nat /\ db \in 0 .. da
  BY <1>2 DEF Longer, Abs
<1>5. CASE da = 0
  <2>1. s = e
    BY <1>2, <1>5 DEF Longer, Abs
  <2>2. map_to_world(from) = Centre(s)
    BY <1>1, IndexIsOfCell DEF map_to_world
  <2> QED
    BY <1>3, <1>5, <2>1, <2>2
<1>6. CASE da # 0
  <2>1. ASSUME NEW n \in 1 .. 2 * da PROVE At(n) = cells_to_index(RayCell(s, e, n))
    <3> DEFINE a == (n + 1) \div 2
               b == Aside(da, db, n \div 2)
    <3>1. a \in Nat /\ b \in Nat
      <4>1. n \div 2 \in 0 .. da /\ da \in Nat \ {0}
        BY <1>4, <1>6
      <4> HIDE DEF da, db
      <4>2. Aside(da, db, n \div 2) \in 0 .. db
        BY <1>4, <4>1, AsideIs
      <4> QED
        BY <1>4, <4>2
    <3>2. \A x, y \in Nat :
            cells_to_index(<<s[1] + Away(dx) * x, s[2] + Away(dy) * y>>) = from + x * ox + y * oy
      <4> SUFFICES ASSUME NEW x \in Nat, NEW y \in Nat
                   PROVE  (s[2] + Away(dy) * y) * sizeX + (s[1] + Away(dx) * x)
                            = (s[2] * sizeX + s[1]) + x * ox + y * oy
        BY DEF cells_to_index
      <4>1. Away(dx) = ox /\ ox \in {1, -1} /\ Away(dx) * x = x * ox
        BY DEF Away
      <4>2. (s[2] + Away(dy) * y) * sizeX = s[2] * sizeX + y * oy
        <5>1. (s[2] + y) * sizeX = s[2] * sizeX + y * sizeX
              /\ (s[2] - y) * sizeX = s[2] * sizeX - y * sizeX
          BY <1>2
        <5>2. y * (1 * sizeX) = y * sizeX /\ y * ((-1) * sizeX) = -(y * sizeX)
          BY <1>2
        <5>3. CASE dy > 0
          BY <1>2, <5>1, <5>2, <5>3 DEF Away
        <5>4. CASE ~(dy > 0)
          BY <1>2, <5>1, <5>2, <5>4 DEF Away
        <5> QED
          BY <5>3, <5>4
      <4>3. s[2] * sizeX \in Nat /\ y * oy \in Int /\ x * ox \in Int
        BY <1>2, <4>1
      <4> HIDE DEF ox, oy, dx, dy
      <4> QED
        BY <1>2, <4>1, <4>2, <4>3
    <3>3. CASE long
      <4>1. RayCell(s, e, n) = <<s[1] + Away(dx) * a, s[2] + Away(dy) * b>>
        BY <3>3, Zenon DEF RayCell, Longer
      <4> HIDE DEF a, b, da, db, dx, dy, ox, oy, from
      <4>2. cells_to_index(RayCell(s, e, n)) = from + a * ox + b * oy
        BY <3>1, <3>2, <4>1
      <4> QED
        BY <3>3, <4>2 DEF a, b
    <3>4. CASE ~long
      <4>1. RayCell(s, e, n) = <<s[1] + Away(dx) * b, s[2] + Away(dy) * a>>
        BY <3>4, Zenon DEF RayCell, Longer
      <4> HIDE DEF a, b, da, db, dx, dy, ox, from
      <4>2. cells_to_index(RayCell(s, e, n)) = from + b * ox + a * oy
        BY <3>1, <3>2, <4>1
      <4>3. from \in Int /\ b * ox \in Int /\ a * oy \in Int
        <5>1. ox \in Int /\ from \in Int
          BY <1>2 DEF ox, from, cells_to_index
        <5>2. oy \in Int
          BY <1>2
        <5> HIDE DEF oy
        <5> QED
          BY <3>1, <5>1, <5>2
      <4> HIDE DEF oy
      <4>4. from + b * ox + a * oy = from + a * oy + b * ox
        BY <4>3
      <4> QED
        BY <3>4, <4>2, <4>4 DEF a, b
    <3> QED
      BY <3>3, <3>4
  <2>2. ASSUME NEW n \in 1 .. 2 * da PROVE map_to_world(At(n)) = Centre(RayCell(s, e, n))
    <3>1. RayCell(s, e, n) \in Cells
      BY <1>1, RayCellIs
    <3> HIDE DEF At
    <3> QED
      BY <2>1, <3>1, IndexIsOfCell DEF map_to_world
  <2>3. hits = StopsOf(s, e, stops)
    <3> HIDE DEF At
    <3> QED
      BY <2>1 DEF StopsOf
  <2>4. RayCell(s, e, 2 * da) = e /\ 2 * da \in 1 .. 2 * da
    <3>1. 2 * da \in 1 .. 2 * da
      BY <1>4, <1>6
    <3> QED
      BY <1>1, <3>1, RayCellIs
  <2>5. hits # {} => Min(hits) \in 1 .. 2 * da
    <3>1. hits \subseteq Nat /\ hits \subseteq 1 .. 2 * da
      BY <1>4
    <3> HIDE DEF hits
    <3> QED
      BY <3>1, MinIs
  <2> HIDE DEF At, da
  <2>6. CASE hits = {}
    <3> HIDE DEF hits
    <3>1. raycast(p, r, stops) = map_to_world(At(2 * da))
      BY <1>3, <1>6, <2>6
    <3> QED
      BY <1>6, <2>2, <2>3, <2>4, <2>6, <3>1 DEF da
  <2>7. CASE hits # {}
    <3> HIDE DEF hits
    <3>1. raycast(p, r, stops) = map_to_world(At(Min(hits)))
      BY <1>3, <1>6, <2>7
    <3> QED
      BY <1>6, <2>2, <2>3, <2>5, <2>7, <3>1 DEF da
  <2> QED
    BY <2>6, <2>7
<1> QED
  BY <1>5, <1>6

\* Only the last two turns of a ray look at its end.
LEMMA EndIsLast ==
  ASSUME NEW s \in Cells, NEW e \in Cells, NEW n \in 1 .. 2 * Longer(s, e), RayCell(s, e, n) = e
  PROVE  (n + 1) \div 2 = Longer(s, e)
<1> DEFINE dx == e[1] - s[1]
           dy == e[2] - s[2]
           a == (n + 1) \div 2
           long == Abs(dx) >= Abs(dy)
           b == IF long THEN Aside(Abs(dx), Abs(dy), n \div 2) ELSE Aside(Abs(dy), Abs(dx), n \div 2)
<1>1. s[1] \in Int /\ s[2] \in Int /\ e[1] \in Int /\ e[2] \in Int /\ a \in Nat
  BY JPSAssumption DEF Cells, Longer, Abs
<1>2. CASE long
  <2>1. RayCell(s, e, n)[1] = s[1] + Away(dx) * a
    <3>1. RayCell(s, e, n) = <<s[1] + Away(dx) * a, s[2] + Away(dy) * b>>
      BY <1>2, Zenon DEF RayCell
    <3> QED
      BY <3>1
  <2>2. Away(dx) * a = dx
    <3> HIDE DEF a
    <3> QED
      BY <1>1, <2>1 DEF Away
  <2> HIDE DEF a
  <2> QED
    BY <1>1, <1>2, <2>2 DEF Away, Abs, Longer, a
<1>3. CASE ~long
  <2>1. RayCell(s, e, n)[2] = s[2] + Away(dy) * a
    <3>1. RayCell(s, e, n) = <<s[1] + Away(dx) * b, s[2] + Away(dy) * a>>
      BY <1>3, Zenon DEF RayCell
    <3> QED
      BY <3>1
  <2>2. Away(dy) * a = dy
    <3> HIDE DEF a
    <3> QED
      BY <1>1, <2>1 DEF Away
  <2> HIDE DEF a
  <2> QED
    BY <1>1, <1>3, <2>2 DEF Away, Abs, Longer, a
<1> QED
  BY <1>2, <1>3

\* JPS.cpp's bresenham and map_util.h's look at the same cells.
LEMMA RaysAgree ==
  ASSUME NEW s \in Cells, NEW e \in Cells, NEW c \in Ray(s, e)
  PROVE  \E n \in 1 .. 2 * Longer(s, e) : c = RayCell(s, e, n)
<1> DEFINE x == Abs(e[1] - s[1])
           y == Abs(e[2] - s[2])
           da == Longer(s, e)
           db == IF x >= y THEN y ELSE x
           At(a, b) == IF x >= y
                       THEN <<s[1] + Away(e[1] - s[1]) * a, s[2] + Away(e[2] - s[2]) * b>>
                       ELSE <<s[1] + Away(e[1] - s[1]) * b, s[2] + Away(e[2] - s[2]) * a>>
<1>1. s[1] \in Int /\ s[2] \in Int /\ e[1] \in Int /\ e[2] \in Int
  BY JPSAssumption DEF Cells
<1>2. x \in Nat /\ y \in Nat
  BY <1>1 DEF Abs
<1>3. Max({x, y}) = da /\ Min({x, y}) = db
  <2> HIDE DEF x, y
  <2>1. Max({x, y}) = IF x >= y THEN x ELSE y
    BY <1>2, MaxOfTwo
  <2>2. {x, y} \subseteq Nat /\ {x, y} # {}
    BY <1>2
  <2>3. Min({x, y}) \in {x, y} /\ \A m \in {x, y} : Min({x, y}) <= m
    BY <2>2, MinIs
  <2>4. Min({x, y}) = db
    BY <1>2, <2>3
  <2> QED
    BY <2>1, <2>4 DEF Longer, x, y
<1>4. (IF e[1] > s[1] THEN 1 ELSE -1) = Away(e[1] - s[1])
      /\ (IF e[2] > s[2] THEN 1 ELSE -1) = Away(e[2] - s[2])
  BY <1>1 DEF Away
<1>5. PICK a \in 1 .. da : c \in {At(a, Aside(da, db, a - 1)), At(a, Aside(da, db, a))}
  <2> HIDE DEF x, y, da, db
  <2>1. c \in UNION {{At(a, (da \div 2 + (a - 1) * db) \div da), At(a, (da \div 2 + a * db) \div da)} :
                      a \in 1 .. da}
    BY <1>3, <1>4, ZenonT(30) DEF Ray, x, y
  <2> HIDE DEF At
  <2> QED
    BY <2>1 DEF Aside
<1>6. \A n \in 1 .. 2 * da : RayCell(s, e, n) = At((n + 1) \div 2, Aside(da, db, n \div 2))
  BY DEF RayCell, Longer
<1>7. da \in Nat
  BY <1>2 DEF Longer
<1> HIDE DEF At, da, db
<1>8. CASE c = At(a, Aside(da, db, a - 1))
  <2> DEFINE n == 2 * a - 1
  <2>1. n \in 1 .. 2 * da /\ (n + 1) \div 2 = a /\ n \div 2 = a - 1
    BY <1>7
  <2> HIDE DEF n
  <2> QED
    BY <1>6, <1>8, <2>1 DEF da
<1>9. CASE c = At(a, Aside(da, db, a))
  <2> DEFINE n == 2 * a
  <2>1. n \in 1 .. 2 * da /\ (n + 1) \div 2 = a /\ n \div 2 = a
    BY <1>7
  <2> HIDE DEF n
  <2> QED
    BY <1>6, <1>9, <2>1 DEF da
<1> QED
  BY <1>5, <1>8, <1>9

IndicesOf(U) == {cells_to_index(c) : c \in U}

\* A ray ends in its last cell or in a cell that stops it; and if it comes to the last cell,
\* none that it looked at before stops it.
RayEnd(p, r, U, end) ==
  LET s == world_to_map(p)
      e == world_to_map(r)
  IN /\ end \in Points
     /\ end = Centre(e) \/ \E c \in U : end = Centre(c)
     /\ end = Centre(e) => Ray(s, e) \cap U \subseteq {s, e}

LEMMA RayEnds ==
  \A p, r \in Points : \A U \in SUBSET Cells : RayEnd(p, r, U, raycast(p, r, IndicesOf(U)))
<1> SUFFICES ASSUME NEW p \in Points, NEW r \in Points, NEW U, U \subseteq Cells,
                    NEW s, s = world_to_map(p), NEW e, e = world_to_map(r),
                    NEW end, end = raycast(p, r, IndicesOf(U))
             PROVE  /\ end \in Points
                    /\ end = Centre(e) \/ \E c \in U : end = Centre(c)
                    /\ end = Centre(e) => Ray(s, e) \cap U \subseteq {s, e}
  BY DEF RayEnd
<1> DEFINE stops == IndicesOf(U)
           da == Longer(s, e)
           S == StopsOf(s, e, stops)
<1>1. s \in Cells /\ e \in Cells
  BY PointIsInCell
<1>2. end = IF da = 0 THEN Centre(e) ELSE IF S = {} THEN Centre(e)
            ELSE Centre(RayCell(s, e, Min(S)))
  <2>1. end = raycast(p, r, stops)
    OBVIOUS
  <2> HIDE DEF stops
  <2>2. raycast(p, r, stops) = IF da = 0 THEN Centre(e) ELSE IF S = {} THEN Centre(e)
                               ELSE Centre(RayCell(s, e, Min(S)))
    BY RaycastIs
  <2> QED
    BY <2>1, <2>2, Zenon
<1>3. da \in Nat
  BY <1>1, JPSAssumption DEF Cells, Longer, Abs
<1>4. \A n \in 1 .. 2 * da : RayCell(s, e, n) \in Cells /\ (n \in S <=> RayCell(s, e, n) \in U)
  <2> SUFFICES ASSUME NEW n \in 1 .. 2 * da
               PROVE  RayCell(s, e, n) \in Cells /\ (n \in S <=> RayCell(s, e, n) \in U)
    OBVIOUS
  <2>1. RayCell(s, e, n) \in Cells
    BY <1>1, RayCellIs
  <2>2. ASSUME cells_to_index(RayCell(s, e, n)) \in stops PROVE RayCell(s, e, n) \in U
    <3>1. PICK c \in U : cells_to_index(RayCell(s, e, n)) = cells_to_index(c)
      BY <2>2 DEF IndicesOf
    <3> QED
      BY <2>1, <3>1, IndexIsOfCell
  <2> QED
    BY <2>1, <2>2 DEF StopsOf, IndicesOf
<1>5. S \subseteq 1 .. 2 * da /\ S \subseteq Nat
  BY <1>3 DEF StopsOf
<1>6. S # {} => Min(S) \in S /\ \A n \in S : Min(S) <= n
  <2> HIDE DEF S
  <2> QED
    BY <1>5, MinIs
<1> HIDE DEF S, stops, da
<1>7. end = Centre(e) \/ \E c \in U : end = Centre(c)
  BY <1>2, <1>4, <1>5, <1>6
<1>8. end \in Points
  BY <1>1, <1>7, CentreIsOfCell
<1>9. ASSUME end = Centre(e), NEW c \in Ray(s, e), c \in U PROVE c = e
  <2>1. PICK n \in 1 .. 2 * da : c = RayCell(s, e, n)
    BY <1>1, RaysAgree DEF da
  <2>2. n \in S
    BY <1>4, <1>9, <2>1
  <2>3. da # 0
    BY <2>1
  <2> DEFINE m == Min(S)
  <2>4. m \in S /\ m <= n /\ m \in 1 .. 2 * da
    BY <1>5, <1>6, <2>2
  <2>5. end = Centre(RayCell(s, e, m))
    BY <1>2, <2>2, <2>3
  <2> HIDE DEF m
  <2>6. RayCell(s, e, m) = e
    BY <1>1, <1>4, <1>9, <2>4, <2>5, CentreIsOfCell
  <2>7. (m + 1) \div 2 = da
    BY <1>1, <2>4, <2>6, EndIsLast DEF da
  <2>8. n = m \/ n = 2 * da
    BY <1>3, <2>1, <2>4, <2>7
  <2>9. RayCell(s, e, 2 * da) = e
    BY <1>1, <2>1, RayCellIs DEF da
  <2> QED
    BY <2>1, <2>6, <2>8, <2>9
<1> QED
  BY <1>7, <1>8, <1>9

-----------------------------------------------------------------------------
(* The path that the plan takes over.                                       *)

\* Every point of the path is free, and each is the next one or a jump from it.
Drive(p) ==
  /\ p \in Seq(Cells) /\ Len(p) >= 1 /\ p[Len(p)] = dest
  /\ \A n \in 1 .. Len(p) : Free(p[n])
  /\ \A n \in 1 .. Len(p) - 1 : p[n] = p[n + 1] \/ Jump(p[n], p[n + 1])

\* The path's cells cost more and more.
Rising(p) ==
  /\ \A n \in 1 .. Len(p) : p[n] \in DOMAIN parents
  /\ \A m, n \in 1 .. Len(p) : m < n => parents[p[m]].cost < parents[p[n]].cost

Enough == MaxLinks >= sizeX * sizeY

DriveInv ==
  /\ phase \notin {"start", "none"} => ~Occ(start) /\ ~Occ(dest)
  /\ phase = "trace" => Drive(path) /\ (start = dest => Len(path) = 1)
                                    /\ (start # dest => Rising(path))
  /\ phase \in {"simplify", "prune", "done"} => path \in Seq(Cells) /\ i \in Cells
  /\ phase = "done" /\ ~simplify => Drive(path) /\ (Enough => path[1] = start)

\* A path of rising costs is no longer than the map has cells.
LEMMA RisingIsShort ==
  ASSUME DOMAIN parents \subseteq Cells,
         \A c \in DOMAIN parents : parents[c].cost \in Nat,
         NEW p \in Seq(Cells), Rising(p)
  PROVE  Len(p) <= sizeX * sizeY
<1> DEFINE len == Len(p)
           f == [n \in 1 .. len |-> p[n]]
<1>1. len \in Nat /\ \A n \in 1 .. len : p[n] \in Cells
  OBVIOUS
<1>2. \A m, n \in 1 .. len : f[m] = f[n] => m = n
  <2> SUFFICES ASSUME NEW m \in 1 .. len, NEW n \in 1 .. len, p[m] = p[n], m # n
               PROVE  FALSE
    OBVIOUS
  <2>1. m < n \/ n < m
    OBVIOUS
  <2>2. parents[p[m]].cost \in Nat /\ parents[p[n]].cost \in Nat
    BY DEF Rising
  <2> HIDE DEF len
  <2>3. parents[p[m]].cost < parents[p[n]].cost \/ parents[p[n]].cost < parents[p[m]].cost
    BY <2>1, Zenon DEF Rising, len
  <2> QED
    BY <2>2, <2>3
<1> HIDE DEF len
<1>3. f \in Injection(1 .. len, Cells)
  BY <1>1, <1>2 DEF Injection, IsInjective
<1>4. IsFiniteSet(Cells) /\ Cardinality(Cells) = sizeX * sizeY
  <2>1. /\ IsFiniteSet(0 .. sizeX - 1) /\ IsFiniteSet(0 .. sizeY - 1)
        /\ Cardinality(0 .. sizeX - 1) = sizeX /\ Cardinality(0 .. sizeY - 1) = sizeY
    <3>1. ASSUME NEW n \in Nat \ {0}
          PROVE  IsFiniteSet(0 .. n - 1) /\ Cardinality(0 .. n - 1) = n
      <4>1. 0 \in Int /\ n - 1 \in Int /\ ~(0 > n - 1) /\ (n - 1) - 0 + 1 = n
        OBVIOUS
      <4> QED
        BY <4>1, FS_Interval, Zenon
    <3> QED
      BY <3>1, JPSAssumption
  <2> QED
    BY <2>1, FS_Product, ZenonT(30) DEF Cells
<1>5. Cardinality(1 .. len) = len
  <2>1. 1 \in Int /\ len \in Int /\ (IF 1 > len THEN 0 ELSE len - 1 + 1) = len
    BY <1>1
  <2> QED
    BY <2>1, FS_Interval, Zenon
<1> QED
  BY <1>3, <1>4, <1>5, FS_Injection DEF len

\* Cells with a parent are free.
LEMMA TreeIsFree ==
  ASSUME Tree, ~Occ(start), NEW c \in DOMAIN parents
  PROVE  Free(c)
<1>1. CASE c = start
  BY <1>1 DEF Tree, Free
<1>2. CASE c # start
  <2>1. Jump(parents[c].from, c)
    BY <1>2 DEF Tree, LinksLeadBack
  <2>2. PICK d \in Dirs, n \in Steps : /\ c = Along(parents[c].from, d, n)
                                       /\ \A m \in 1 .. n : Free(Along(parents[c].from, d, m))
    BY <2>1 DEF Jump
  <2>3. n \in 1 .. n
    BY JPSAssumption DEF Steps
  <2> QED
    BY <2>2, <2>3
<1> QED
  BY <1>1, <1>2

\* What is said of the path stays true as long as the map, the query and it do.
LEMMA DriveStays ==
  ASSUME UNCHANGED input, NEW p, Drive(p) PROVE Drive(p)'
  BY DEF Drive, Jump, Free, Occ, Index, input

LEMMA PrependDrive ==
  ASSUME Drive(path), NEW c \in Cells, Free(c), c = path[1] \/ Jump(c, path[1])
  PROVE  Drive(<<c>> \o path)
<1> DEFINE p == <<c>> \o path
           len == Len(path)
<1>1. /\ path \in Seq(Cells) /\ len \in Nat /\ len >= 1 /\ path[len] = dest
      /\ \A n \in 1 .. len : Free(path[n])
      /\ \A n \in 1 .. len - 1 : path[n] = path[n + 1] \/ Jump(path[n], path[n + 1])
  BY DEF Drive
<1>2. /\ p \in Seq(Cells) /\ Len(p) = len + 1 /\ p[1] = c
      /\ \A n \in 1 .. len : p[n + 1] = path[n]
  BY <1>1
<1> HIDE DEF p, len
<1>3. p[Len(p)] = dest /\ Len(p) >= 1
  BY <1>1, <1>2
<1>4. ASSUME NEW n \in 1 .. Len(p) PROVE Free(p[n])
  <2>1. CASE n = 1
    BY <1>2, <2>1
  <2>2. CASE n # 1
    <3>1. n - 1 \in 1 .. len /\ (n - 1) + 1 = n
      BY <1>1, <1>2, <2>2
    <3> QED
      BY <1>1, <1>2, <3>1
  <2> QED
    BY <2>1, <2>2
<1>5. ASSUME NEW n \in 1 .. Len(p) - 1 PROVE p[n] = p[n + 1] \/ Jump(p[n], p[n + 1])
  <2>1. CASE n = 1
    <3>1. 1 \in 1 .. len
      BY <1>1
    <3> QED
      BY <1>2, <2>1, <3>1
  <2>2. CASE n # 1
    <3>1. n - 1 \in 1 .. len - 1 /\ (n - 1) + 1 = n /\ n - 1 \in 1 .. len /\ n \in 1 .. len
      BY <1>1, <1>2, <2>2
    <3>2. p[n] = path[n - 1] /\ p[n + 1] = path[n]
      BY <1>2, <3>1
    <3> QED
      BY <1>1, <3>1, <3>2
  <2> QED
    BY <2>1, <2>2
<1> QED
  BY <1>2, <1>3, <1>4, <1>5 DEF Drive, p

LEMMA PrependRising ==
  ASSUME path \in Seq(Cells), Len(path) >= 1, Rising(path), NEW c \in DOMAIN parents,
         c \in Cells, \A e \in DOMAIN parents : parents[e].cost \in Nat,
         parents[c].cost < parents[path[1]].cost
  PROVE  Rising(<<c>> \o path)
<1> DEFINE p == <<c>> \o path
           len == Len(path)
           cost(n) == parents[p[n]].cost
<1>1. len \in Nat /\ len >= 1
  OBVIOUS
<1>2. /\ p \in Seq(Cells) /\ Len(p) = len + 1 /\ p[1] = c
      /\ \A n \in 1 .. len : p[n + 1] = path[n]
  OBVIOUS
<1> HIDE DEF p, len
<1>3. \A n \in 2 .. len + 1 : n - 1 \in 1 .. len /\ p[n] = path[n - 1]
  <2> SUFFICES ASSUME NEW n \in 2 .. len + 1 PROVE n - 1 \in 1 .. len /\ p[n] = path[n - 1]
    OBVIOUS
  <2>1. n - 1 \in 1 .. len /\ (n - 1) + 1 = n
    BY <1>1
  <2> QED
    BY <1>2, <2>1
<1>4. \A n \in 1 .. Len(p) : p[n] \in DOMAIN parents
  <2> SUFFICES ASSUME NEW n \in 1 .. Len(p) PROVE p[n] \in DOMAIN parents
    OBVIOUS
  <2>1. n = 1 \/ n \in 2 .. len + 1
    BY <1>1, <1>2
  <2> QED
    BY <1>2, <1>3, <2>1 DEF Rising, len
<1>5. ASSUME NEW m \in 1 .. Len(p), NEW n \in 1 .. Len(p), m < n PROVE cost(m) < cost(n)
  <2>1. n \in 2 .. len + 1
    BY <1>1, <1>2, <1>5
  <2>2. n - 1 \in 1 .. len /\ cost(n) = parents[path[n - 1]].cost /\ cost(n) \in Nat
    BY <1>3, <1>4, <1>5, <2>1
  <2>3. CASE m = 1
    <3>1. n - 1 = 1 \/ (1 \in 1 .. len /\ 1 < n - 1)
      BY <1>1, <2>1
    <3>2. n - 1 = 1 \/ parents[path[1]].cost < cost(n)
      BY <2>2, <3>1, Zenon DEF Rising, len
    <3>3. parents[path[1]].cost \in Nat /\ parents[c].cost \in Nat
      <4>1. 1 \in 1 .. len
        BY <1>1
      <4> QED
        BY <4>1 DEF Rising, len
    <3> QED
      BY <1>2, <2>2, <2>3, <3>2, <3>3
  <2>4. CASE m # 1
    <3>1. m \in 2 .. len + 1 /\ m - 1 < n - 1
      BY <1>1, <1>2, <1>5, <2>4
    <3>2. m - 1 \in 1 .. len /\ cost(m) = parents[path[m - 1]].cost
      BY <1>3, <3>1
    <3> QED
      BY <2>2, <3>1, <3>2, Zenon DEF Rising, len
  <2> QED
    BY <2>3, <2>4
<1> QED
  BY <1>4, <1>5 DEF Rising, p

\* A search that is under way is between free cells.
EndsFree == phase \notin {"start", "none"} => ~Occ(start) /\ ~Occ(dest)

LEMMA EndsStayFree == EndsFree /\ [Next]_vars => EndsFree'
<1> SUFFICES ASSUME EndsFree, [Next]_vars PROVE EndsFree'
  OBVIOUS
<1>1. UNCHANGED input
  BY InputStays DEF vars
<1>2. CASE Begin
  BY <1>1, <1>2 DEF Begin, EndsFree, input, Occ, Index
<1>3. CASE ~Begin
  <2>1. phase' \in {"start", "none"} \/ phase \notin {"start", "none"}
    BY <1>3 DEF Next, Search, getPath, Finished, vars, PopNothing, PopGoal, PopStraight,
                PopDiagonal, Pop, explore_straight, explore_diagonal, Trace, SimplifyTwice,
                Prune, PruneEnd
  <2> QED
    BY <1>1, <2>1 DEF EndsFree, input, Occ, Index
<1> QED
  BY <1>2, <1>3

LEMMA GoalStartsDrive ==
  ASSUME SearchInv, EndsFree, EndsFree', NEW n \in BagToSet(q), PopGoal(n) PROVE DriveInv'
<1>1. /\ phase' = "trace" /\ path' = <<dest>> /\ n.at = dest
      /\ phase = "pop" /\ UNCHANGED <<input, parents>>
  BY DEF PopGoal, Pop
<1>2. dest \in DOMAIN parents /\ Tree /\ dest \in Cells
  BY <1>1 DEF SearchInv, TypeOK
<1>3. Len(path') = 1 /\ path'[1] = dest /\ path' \in Seq(Cells)
  BY <1>1, <1>2
<1>4. Drive(path)'
  BY <1>1, <1>2, <1>3 DEF Drive, EndsFree, Free, Occ, Index, input
<1>5. Rising(path)'
  BY <1>1, <1>2, <1>3 DEF Rising
<1> QED
  BY <1>1, <1>3, <1>4, <1>5 DEF DriveInv, EndsFree

LEMMA TraceDrives == SearchInv /\ PathInv /\ DriveInv /\ EndsFree' /\ Trace => DriveInv'
<1> SUFFICES ASSUME SearchInv, PathInv, DriveInv, EndsFree', Trace PROVE DriveInv'
  OBVIOUS
<1> DEFINE p == <<i>> \o path
<1>1. /\ phase = "trace" /\ path' = p /\ UNCHANGED <<input, search, simplify>>
      /\ Tracing /\ Tree /\ ~Occ(start) /\ Drive(path)
      /\ start = dest => Len(path) = 1
      /\ start # dest => Rising(path)
  BY DEF Trace, PathInv, SearchInv, DriveInv
<1>2. i \in DOMAIN parents /\ i \in Cells /\ Free(i)
  BY <1>1, TreeIsFree DEF Tracing, Tree
<1>3. i = path[1] \/ Jump(i, path[1])
  <2>1. start = dest => path[1] = i
    BY <1>1 DEF Drive, Tracing
  <2>2. start # dest => Jump(i, path[1])
    BY <1>1 DEF Tracing, Tree, LinksLeadBack
  <2> QED
    BY <2>1, <2>2
<1>4. Drive(p)
  BY <1>1, <1>2, <1>3, PrependDrive
<1>5. ASSUME start # dest PROVE Rising(p)
  <2>1. parents[i].cost < parents[path[1]].cost
    BY <1>1, <1>5 DEF Tracing, Tree, LinksLeadBack
  <2> QED
    BY <1>1, <1>2, <1>5, <2>1, PrependRising DEF Drive, Tree
<1> HIDE DEF p
<1>6. Drive(path)' /\ (start # dest => Rising(path)')
  <2>1. Drive(path)'
    BY <1>1, <1>4 DEF Drive, Jump, Free, Occ, Index, input
  <2>2. Rising(path)' <=> Rising(p)
    BY <1>1 DEF Rising, search
  <2> QED
    BY <1>5, <2>1, <2>2
<1>7. CASE i # start /\ Len(path) <= MaxLinks /\ phase' = phase
  <2>1. start # dest
    BY <1>1, <1>7 DEF Tracing
  <2> QED
    BY <1>1, <1>6, <1>7, <2>1 DEF DriveInv, EndsFree, input
<1>8. CASE i = start \/ Len(path) > MaxLinks
  <2>1. phase' \in {"simplify", "done"}
    BY <1>1, <1>8, JPSAssumption DEF Trace, Tracing
  <2>2. path' \in Seq(Cells) /\ i' \in Cells
    <3>1. i' = i
      BY <1>1, <1>8, JPSAssumption DEF Trace, Tracing
    <3> QED
      BY <1>1, <1>2, <1>4, <3>1 DEF Drive
  <2>3. p[1] = i /\ Len(p) = Len(path) + 1
    BY <1>1, <1>2 DEF p, Drive
  <2>4. ASSUME Enough PROVE i = start
    <3>1. CASE start = dest
      BY <1>1, <3>1 DEF Tracing
    <3>2. CASE start # dest
      <4>1. Len(p) <= sizeX * sizeY
        <5>1. p \in Seq(Cells) /\ Rising(p)
          BY <1>4, <1>5, <3>2 DEF Drive
        <5> QED
          BY <1>1, <5>1, RisingIsShort DEF Tree
      <4>2. Len(path) \in Nat /\ sizeX * sizeY \in Nat
        BY <1>1, JPSAssumption DEF Drive
      <4> QED
        BY <1>8, <2>3, <2>4, <4>1, <4>2, JPSAssumption DEF Enough
    <3> QED
      BY <3>1, <3>2
  <2>5. Enough => path'[1] = start'
    BY <1>1, <2>3, <2>4 DEF input
  <2> QED
    BY <1>6, <2>1, <2>2, <2>5 DEF DriveInv, EndsFree, Enough
<1> QED
  BY <1>1, <1>7, <1>8, JPSAssumption DEF Trace, Tracing

LEMMA DriveElsewhere ==
  ASSUME EndsFree', phase' \in {"start", "pop", "diagonal", "none", "undefined"} PROVE DriveInv'
BY DEF DriveInv, EndsFree

LEMMA SimplifiedIsOnMap == SearchInv /\ PathInv /\ SimplifyTwice => path' \in Seq(Cells)
<1> SUFFICES ASSUME SearchInv, PathInv, SimplifyTwice PROVE path' \in Seq(Cells)
  OBVIOUS
<1>1. PICK r1, r2 \in BOOLEAN :
        path' = Reverse(simplifyPath(Reverse(simplifyPath(path, r1)), r2))
  BY DEF SimplifyTwice
<1>2. Traced
  BY DEF PathInv, SimplifyTwice
<1>3. Through(path, Joins)
  BY <1>2, TracedJoins
<1> QED
  BY <1>1, <1>2, <1>3, TwiceKeeps DEF Traced

LEMMA PrunedIsOnMap ==
  ASSUME NEW p \in Seq(Cells), NEW n \in 1 .. Len(p) PROVE RemoveAt(p, n) \in Seq(Cells)
<1>1. SubSeq(p, 1, n - 1) \in Seq(Cells)
  OBVIOUS
<1>2. SubSeq(p, n + 1, Len(p)) \in Seq(Cells)
  OBVIOUS
<1> QED
  BY <1>1, <1>2 DEF RemoveAt

LEMMA StepDrive == SearchInv /\ PathInv /\ DriveInv /\ [Next]_vars => DriveInv'
<1> SUFFICES ASSUME SearchInv, PathInv, DriveInv, [Next]_vars PROVE DriveInv'
  OBVIOUS
<1>1. EndsFree /\ EndsFree'
  BY EndsStayFree DEF DriveInv, EndsFree
<1>2. CASE \/ Begin \/ PopNothing \/ explore_diagonal
           \/ \E n \in BagToSet(q) : PopStraight(n) \/ PopDiagonal(n)
           \/ \E n \in Steps : explore_straight(n)
  <2>1. straight # <<>> => phase \in {"pop", "diagonal"}
    BY DEF SearchInv, Explorations
  <2>2. phase' \in {"pop", "diagonal", "none"}
    BY <1>2, <2>1 DEF Begin, PopNothing, explore_diagonal, PopStraight, PopDiagonal, Pop,
                      explore_straight
  <2> QED
    BY <1>1, <2>2, DriveElsewhere
<1>3. ASSUME NEW n \in BagToSet(q), PopGoal(n) PROVE DriveInv'
  BY <1>1, <1>3, GoalStartsDrive
<1>4. CASE Trace
  BY <1>1, <1>4, TraceDrives
<1>5. CASE SimplifyTwice
  BY <1>1, <1>5, SimplifiedIsOnMap DEF SimplifyTwice, DriveInv, EndsFree
<1>6. CASE Prune \/ PruneEnd
  <2>1. /\ simplify /\ simplify' = simplify /\ phase = "prune" /\ path \in Seq(Cells)
        /\ i \in Cells /\ i' = i
    BY <1>6 DEF Prune, PruneEnd, PathInv, DriveInv, result
  <2>2. phase' = "undefined" \/ (phase' \in {"prune", "done"} /\ path' \in Seq(Cells))
    <3>1. CASE PruneEnd
      BY <2>1, <3>1 DEF PruneEnd, result
    <3>2. CASE Prune
      <4>1. CASE UNCHANGED path
        BY <2>1, <3>2, <4>1 DEF Prune
      <4>2. CASE Index(i) < Len(path) /\ path' = RemoveAt(path, Index(i) + 1) /\ UNCHANGED phase
        <5>1. Index(i) + 1 \in 1 .. Len(path)
          <6>1. i[1] \in Nat /\ i[2] * sizeX \in Nat
            BY <2>1, JPSAssumption DEF Cells
          <6> QED
            BY <2>1, <4>2, <6>1 DEF Index
        <5> QED
          BY <2>1, <4>2, <5>1, PrunedIsOnMap
      <4> QED
        BY <3>2, <4>1, <4>2 DEF Prune
    <3> QED
      BY <1>6, <3>1, <3>2
  <2> QED
    BY <1>1, <2>1, <2>2 DEF DriveInv, EndsFree
<1>7. CASE UNCHANGED vars
  <2>1. UNCHANGED <<input, phase, path, simplify, parents, i>>
    BY <1>7 DEF vars, search, result
  <2>2. \A p : Drive(p) => Drive(p)'
    BY <2>1, DriveStays
  <2> QED
    BY <1>1, <2>1, <2>2 DEF DriveInv, EndsFree, Rising, Enough, input
<1> QED
  BY <1>2, <1>3, <1>4, <1>5, <1>6, <1>7 DEF Next, Search, getPath, Finished

-----------------------------------------------------------------------------
(* The cuts.                                                                *)

CellOf(p, n) == world_to_map(p[n])

\* The ray between the n-th point and the next one looks at nothing unknown between them.
Clear(p, n) == Ray(CellOf(p, n), CellOf(p, n + 1)) \cap unknown \subseteq {CellOf(p, n), CellOf(p, n + 1)}

\* The path is p up to its last point, which is in an unknown cell, or the centre of the cell
\* of p's point.
CutAfter(p, r, m) ==
  /\ Len(r) = m + 1
  /\ \A n \in 1 .. m : r[n] = p[n]
  /\ r[m + 1] # p[m + 1]
  /\ CellOf(r, m + 1) \in unknown \/ r[m + 1] = Centre(CellOf(p, m + 1))

LEMMA InFreeCuts ==
  ASSUME unknown \subseteq Cells, NEW p \in Seq(Points), Len(p) >= 2,
         NEW r, r = getJPSInFree(p)
  PROVE  /\ r \in Seq(Points) /\ Len(r) >= 2
         /\ \A n \in 1 .. Len(r) - 2 : Clear(r, n)
         /\ r = p \/ \E m \in 1 .. Len(p) - 1 : CutAfter(p, r, m)
<1> DEFINE len == Len(p)
           stops == {cells_to_index(c) : c \in unknown}
           end == [n \in 1 .. len - 1 |-> raycast(p[n], p[n + 1], stops)]
           ended == {n \in DOMAIN end : end[n] # p[n + 1]}
<1>1. len \in Nat /\ len >= 2 /\ \A n \in 1 .. len : p[n] \in Points
  OBVIOUS
<1>2. r = IF ended = {} THEN p ELSE Append(SubSeq(p, 1, Min(ended)), end[Min(ended)])
  BY Zenon DEF getJPSInFree
<1>3. ASSUME NEW n \in 1 .. len - 1
      PROVE  /\ end[n] \in Points
             /\ world_to_map(end[n]) \in unknown \/ end[n] = Centre(CellOf(p, n + 1))
             /\ end[n] = p[n + 1] => Clear(p, n)
  <2>1. p[n] \in Points /\ p[n + 1] \in Points
    BY <1>1
  <2> DEFINE z == end[n]
             e == CellOf(p, n + 1)
  <2>2. z = raycast(p[n], p[n + 1], {cells_to_index(c) : c \in unknown})
    OBVIOUS
  <2> HIDE DEF z
  <2>3. /\ z \in Points
        /\ z = Centre(e) \/ \E c \in unknown : z = Centre(c)
        /\ z = Centre(e) => Clear(p, n)
    <3>1. RayEnd(p[n], p[n + 1], unknown, z)
      BY <2>1, <2>2, RayEnds DEF IndicesOf
    <3> QED
      BY <3>1 DEF RayEnd, Clear, CellOf
  <2>4. e \in Cells
    BY <2>1, PointIsInCell DEF CellOf
  <2>5. z = Centre(e) \/ (world_to_map(z) \in unknown /\ z = Centre(world_to_map(z)))
    BY <2>3, CentreIsOfCell
  <2>6. z = p[n + 1] => Clear(p, n)
    BY <2>3, <2>5 DEF CellOf
  <2> QED
    BY <2>3, <2>5, <2>6 DEF z
<1>4. \A n \in 1 .. len - 1 : n \in ended <=> end[n] # p[n + 1]
  OBVIOUS
<1>5. ended \subseteq 1 .. len - 1
  OBVIOUS
<1> HIDE DEF ended, end, len
<1>6. CASE ended = {}
  <2>1. r = p
    BY <1>2, <1>6
  <2>2. ASSUME NEW n \in 1 .. len - 2 PROVE Clear(p, n)
    <3>1. n \in 1 .. len - 1
      BY <1>1
    <3> QED
      BY <1>3, <1>4, <1>6, <3>1
  <2> QED
    BY <2>1, <2>2 DEF len
<1>7. CASE ended # {}
  <2> DEFINE m == Min(ended)
  <2>1. m \in ended /\ \A n \in ended : m <= n
    <3>1. ended \subseteq Nat
      BY <1>1, <1>5
    <3> QED
      BY <1>7, <3>1, MinIs
  <2>2. m \in 1 .. len - 1 /\ r = Append(SubSeq(p, 1, m), end[m])
    BY <1>2, <1>5, <1>7, <2>1
  <2> HIDE DEF m
  <2>3. /\ SubSeq(p, 1, m) \in Seq(Points) /\ Len(SubSeq(p, 1, m)) = m
        /\ \A n \in 1 .. m : SubSeq(p, 1, m)[n] = p[n]
    BY <1>1, <2>2 DEF len
  <2>4. end[m] \in Points /\ end[m] # p[m + 1]
    BY <1>3, <1>4, <2>1, <2>2
  <2>5. /\ r \in Seq(Points) /\ Len(r) = m + 1 /\ r[m + 1] = end[m]
        /\ \A n \in 1 .. m : r[n] = p[n]
    <3> DEFINE s == SubSeq(p, 1, m)
    <3>1. s \in Seq(Points) /\ Len(s) = m /\ m \in Nat /\ \A n \in 1 .. m : s[n] = p[n]
      BY <2>2, <2>3
    <3> HIDE DEF s
    <3>2. \A n \in 1 .. m : Append(s, end[m])[n] = s[n]
      BY <2>4, <3>1
    <3> QED
      BY <2>2, <2>4, <3>1, <3>2 DEF s
  <2>6. ASSUME NEW n \in 1 .. m - 1 PROVE Clear(r, n)
    <3>1. n \in 1 .. len - 1 /\ n \notin ended /\ n \in 1 .. m /\ n + 1 \in 1 .. m
      BY <1>1, <2>1, <2>2
    <3>2. Clear(p, n)
      BY <1>3, <1>4, <3>1
    <3> QED
      BY <2>5, <3>1, <3>2 DEF Clear, CellOf
  <2>7. CutAfter(p, r, m)
    <3>1. CellOf(r, m + 1) = world_to_map(end[m])
      BY <2>5 DEF CellOf
    <3> QED
      BY <1>3, <2>2, <2>4, <2>5, <3>1 DEF CutAfter
  <2>8. \A n \in 1 .. Len(r) - 2 : Clear(r, n)
    <3>1. Len(r) - 2 = m - 1
      BY <2>2, <2>5
    <3> QED
      BY <2>6, <3>1
  <2> QED
    BY <2>2, <2>5, <2>7, <2>8 DEF len
<1> QED
  BY <1>6, <1>7

\* What is not occupied is no obstacle of the corridor's.
LEMMA FreeIsOff ==
  ASSUME NEW c \in Cells, ~Occ(c) PROVE Centre(c) \notin getOccupied
<1> SUFFICES ASSUME Centre(c) \in getOccupied PROVE FALSE
  OBVIOUS
<1>1. PICK n \in 0 .. sizeX * sizeY - 1 : n \in occupied /\ Centre(c) = Centre(index_to_cells(n))
  BY DEF getOccupied, is_occupied, map_to_world
<1>2. n \in Nat /\ sizeX \in Nat \ {0}
  BY JPSAssumption
<1>3. /\ n \div sizeX \in Nat /\ (n \div sizeX) * sizeX <= n
      /\ n < (n \div sizeX) * sizeX + sizeX
  BY <1>2, QuotientOf
<1>4. n % sizeX = n - (n \div sizeX) * sizeX
  BY <1>2, <1>3, QuotientIs
<1>5. c[1] \in Int /\ c[2] \in Int
  BY <1>2, JPSAssumption DEF Cells
<1>6. c[1] = n % sizeX /\ c[2] = n \div sizeX
  <2> DEFINE x == n % sizeX
             y == n \div sizeX
  <2>1. 4 * c[1] + 2 = 4 * x + 2 /\ 4 * c[2] + 2 = 4 * y + 2
    BY <1>1 DEF Centre, index_to_cells
  <2>2. x \in Int /\ y \in Int
    BY <1>2, <1>3
  <2> HIDE DEF x, y
  <2>3. \A v, w \in Int : 4 * v + 2 = 4 * w + 2 => v = w
    OBVIOUS
  <2>4. c[1] = x /\ c[2] = y
    BY <1>5, <2>1, <2>2, <2>3, Zenon
  <2> QED
    BY <2>4 DEF x, y
<1>7. c[2] * sizeX + c[1] = n
  <2>1. (n \div sizeX) * sizeX \in Int
    BY <1>2, <1>3
  <2> QED
    BY <1>2, <1>4, <1>6, <2>1
<1> QED
  BY <1>1, <1>7 DEF Occ, Index

Quarter(p, e, quarter) ==
  <<p[1] + (quarter * Minus(e, p)[1]) \div 4, p[2] + (quarter * Minus(e, p)[2]) \div 4>>

\* A coordinate that is t quarters of a cell from a cell's centre.
LEMMA QuartersAre ==
  ASSUME NEW b \in Int, NEW t \in Nat
  PROVE  /\ (4 * b + 2 + t) \div 4 = b + (t + 2) \div 4
         /\ (4 * b + 2 - t) \div 4 = b - (t + 1) \div 4
         /\ (4 * b + 2 + t) % 4 = 0 <=> t % 4 = 2
         /\ (4 * b + 2 - t) % 4 = 0 <=> t % 4 = 2
         /\ t % 4 # 2 => (t + 2) \div 4 = (t + 1) \div 4
OBVIOUS

\* Where the horizon ends a jump there is a free cell, or cells meet.
LEMMA QuarterIsFree ==
  ASSUME NEW b \in Cells, NEW c \in Cells, Free(b), Jump(b, c), NEW quarter \in 1 .. 4,
         NEW z, z = Quarter(Centre(b), Centre(c), quarter)
  PROVE  (world_to_map(z) \in Cells /\ ~Occ(world_to_map(z))) \/ \A x \in {1, 2} : z[x] % 4 = 0
<1>1. PICK d \in Dirs, n \in Steps : /\ c = Along(b, d, n)
                                     /\ \A m \in 1 .. n : Free(Along(b, d, m))
  BY DEF Jump
<1>2. /\ b[1] \in Int /\ b[2] \in Int /\ b = <<b[1], b[2]>> /\ n \in Nat \ {0}
      /\ d[1] \in {-1, 0, 1} /\ d[2] \in {-1, 0, 1}
  BY JPSAssumption DEF Cells, Steps, Dirs, Cardinals, Diagonals
<1> DEFINE t == quarter * n
<1>3. t \in Nat /\ t <= 4 * n
  BY <1>2
<1>4. z = <<4 * b[1] + 2 + t * d[1], 4 * b[2] + 2 + t * d[2]>>
  <2>1. c[1] = b[1] + n * d[1] /\ c[2] = b[2] + n * d[2]
    BY <1>1 DEF Along
  <2>2. ASSUME NEW x \in Int, NEW y \in {-1, 0, 1}
        PROVE  (quarter * ((4 * (x + n * y) + 2) - (4 * x + 2))) \div 4 = t * y
    BY <1>2
  <2> HIDE DEF t
  <2> QED
    BY <1>2, <2>1, <2>2 DEF Quarter, Centre, Minus
<1> HIDE DEF t
<1>5. \A m \in 0 .. n : Along(b, d, m) \in Cells /\ ~Occ(Along(b, d, m))
  <2> SUFFICES ASSUME NEW m \in 0 .. n PROVE Along(b, d, m) \in Cells /\ ~Occ(Along(b, d, m))
    OBVIOUS
  <2>1. CASE m = 0
    <3>1. Along(b, d, m) = b
      BY <1>2, <2>1 DEF Along
    <3> QED
      BY <3>1 DEF Free
  <2>2. CASE m # 0
    BY <1>1, <1>2, <2>2 DEF Free
  <2> QED
    BY <2>1, <2>2
<1>6. /\ (t + 2) \div 4 \in 0 .. n /\ (t + 1) \div 4 \in 0 .. n
  BY <1>2, <1>3
<1>7. CASE t % 4 = 2 /\ d[1] # 0 /\ d[2] # 0
  <2>1. t * d[1] \in {t, -t} /\ t * d[2] \in {t, -t}
    BY <1>2, <1>3, <1>7
  <2>2. z[1] \in {4 * b[1] + 2 + t, 4 * b[1] + 2 - t}
        /\ z[2] \in {4 * b[2] + 2 + t, 4 * b[2] + 2 - t}
    BY <1>2, <1>3, <1>4, <2>1
  <2> QED
    BY <1>2, <1>3, <1>7, <2>2, QuartersAre
<1>8. CASE ~(t % 4 = 2 /\ d[1] # 0 /\ d[2] # 0)
  <2>1. \E m \in 0 .. n : world_to_map(z) = Along(b, d, m)
    <3> DEFINE up == (t + 2) \div 4
               dn == (t + 1) \div 4
               At(x, y) == (4 * x + 2 + t * y) \div 4
    <3>1. \A x \in Int : At(x, 1) = x + up /\ At(x, -1) = x - dn /\ At(x, 0) = x
      <4> SUFFICES ASSUME NEW x \in Int PROVE At(x, 1) = x + up /\ At(x, -1) = x - dn /\ At(x, 0) = x
        OBVIOUS
      <4>1. t * 1 = t /\ t * (-1) = -t /\ t * 0 = 0 /\ 4 * x + 2 + (-t) = 4 * x + 2 - t
        BY <1>3
      <4>2. (4 * x + 2) \div 4 = x
        OBVIOUS
      <4> QED
        BY <1>3, <4>1, <4>2, QuartersAre
    <3>2. t % 4 # 2 => up = dn
      BY <1>3, QuartersAre
    <3>3. world_to_map(z) = <<At(b[1], d[1]), At(b[2], d[2])>>
      BY <1>4 DEF world_to_map
    <3>4. \A m \in Nat : m * 1 = m /\ m * (-1) = -m /\ m * 0 = 0
      OBVIOUS
    <3>5. up \in 0 .. n /\ dn \in 0 .. n /\ 0 \in 0 .. n
      BY <1>2, <1>6
    <3> HIDE DEF up, dn, At
    <3>6. \A m \in 0 .. n : Along(b, d, m) = <<b[1] + m * d[1], b[2] + m * d[2]>> /\ m \in Nat
      BY DEF Along
    <3>7. d[1] # 0 \/ d[2] # 0
      BY DEF Dirs, Cardinals, Diagonals
    <3>8. CASE d[1] = 1 \/ (d[1] = 0 /\ d[2] = 1)
      <4>1. world_to_map(z) = <<b[1] + up * d[1], b[2] + up * d[2]>>
        BY <1>2, <1>8, <3>1, <3>2, <3>3, <3>4, <3>5, <3>8
      <4> QED
        BY <3>5, <3>6, <4>1
    <3>9. CASE ~(d[1] = 1 \/ (d[1] = 0 /\ d[2] = 1))
      <4>1. world_to_map(z) = <<b[1] + dn * d[1], b[2] + dn * d[2]>>
        BY <1>2, <1>8, <3>1, <3>2, <3>3, <3>4, <3>5, <3>7, <3>9
      <4> QED
        BY <3>5, <3>6, <4>1
    <3> QED
      BY <3>8, <3>9
  <2> QED
    BY <1>5, <2>1
<1> QED
  BY <1>7, <1>8

-----------------------------------------------------------------------------
(* The plan.                                                                *)

CentresOf(p) == [n \in 1 .. Len(p) |-> Centre(p[n])]

\* What is chosen is the path found, or the earlier one.
ChosenRoute ==
  ~kept => \E p \in Seq(Cells) : /\ jpsPath = CentresOf(p)
                                 /\ ~simplify => Drive(p) /\ (Enough => p[1] = start)

RefinedRoute ==
  /\ plan_in_free => \A n \in 1 .. Len(jpsPath) - 2 : Clear(jpsPath, n)
  /\ ~kept /\ ~simplify =>
       /\ Enough => CellOf(jpsPath, 1) = start
       /\ LET last == CellOf(jpsPath, Len(jpsPath))
          IN world_to_map(_goal) = last \/ last \in unknown
       /\ plan_in_free \/ \E p \in Seq(Cells) : jpsPath = CentresOf(p) /\ Drive(p)

RouteInv ==
  /\ unknown \subseteq Cells
  /\ stage \in {"search", "chosen"} => world_to_map(_goal) = dest
  /\ stage \in {"chosen", "refined"} => jpsPath \in Seq(Points) /\ Len(jpsPath) >= 2
  /\ stage = "chosen" => ChosenRoute
  /\ stage = "refined" => RefinedRoute

PlanInv == SearchInv /\ PathInv /\ DriveInv /\ RouteInv

\* A path's centres are on the map, in its cells.
LEMMA CentresAre ==
  ASSUME NEW p \in Seq(Cells), NEW r, r = CentresOf(p)
  PROVE  /\ r \in Seq(Points) /\ Len(r) = Len(p)
         /\ \A n \in 1 .. Len(p) : r[n] = Centre(p[n]) /\ CellOf(r, n) = p[n]
<1> DEFINE len == Len(p)
<1>1. len \in Nat /\ \A n \in 1 .. len : p[n] \in Cells
  OBVIOUS
<1>2. \A n \in 1 .. len : Centre(p[n]) \in Points
  BY <1>1, CentreIsOfCell
<1>3. r = [n \in 1 .. len |-> Centre(p[n])]
  BY DEF CentresOf
<1> HIDE DEF len
<1>4. r \in Seq(Points) /\ Len(r) = len
  <2>1. r \in [1 .. len -> Points]
    BY <1>2, <1>3
  <2>2. \A f \in [1 .. len -> Points] : f \in Seq(Points) /\ Len(f) = len
    BY <1>1
  <2> QED
    BY <2>1, <2>2
<1>5. \A n \in 1 .. len : r[n] = Centre(p[n]) /\ CellOf(r, n) = p[n]
  BY <1>1, <1>3, CentreIsOfCell DEF CellOf
<1> QED
  BY <1>4, <1>5 DEF len

LEMMA InitPlan == PlanInit => PlanInv
<1> SUFFICES ASSUME PlanInit PROVE PlanInv
  OBVIOUS
<1>1. SearchInv /\ PathInv
  BY InitSearch, InitPath DEF PlanInit
<1>2. DriveInv
  BY DEF PlanInit, Init, DriveInv
<1>3. world_to_map(_goal) = dest
  <2>1. dest[1] \in Nat /\ dest[2] \in Nat /\ dest = <<dest[1], dest[2]>>
    BY <1>1, JPSAssumption DEF SearchInv, TypeOK, Cells
  <2>2. \A x \in Nat : (4 * x + 1) \div 4 = x /\ (4 * x + 3) \div 4 = x
    OBVIOUS
  <2>3. _goal = <<4 * dest[1] + 1, 4 * dest[2] + 3>>
    BY DEF PlanInit
  <2> QED
    BY <2>1, <2>2, <2>3 DEF world_to_map
<1>4. RouteInv
  BY <1>3 DEF PlanInit, RouteInv
<1> QED
  BY <1>1, <1>2, <1>4 DEF PlanInv

\* A search that is done with starts anew.
LEMMA ForgetKeeps == SearchInv /\ ForgetSearch => SearchInv' /\ PathInv' /\ DriveInv'
<1> SUFFICES ASSUME SearchInv, ForgetSearch PROVE SearchInv' /\ PathInv' /\ DriveInv'
  OBVIOUS
<1>1. UNCHANGED <<input, simplify>> /\ phase' = "start" /\ closedSet' = {}
      /\ straight' = <<>> /\ q' = EmptyBag /\ parents' = <<>>
  BY DEF ForgetSearch
<1>2. DOMAIN parents' = {} /\ BagToSet(q') = {}
  BY <1>1 DEF BagToSet, EmptyBag, SetToBag
<1>3. Explorations'
  BY <1>1 DEF Explorations
<1>4. SearchInv'
  BY <1>1, <1>2, <1>3 DEF SearchInv, TypeOK, input
<1>5. PathInv' /\ DriveInv'
  BY <1>1 DEF PathInv, PathIsFree, DriveInv
<1> QED
  BY <1>4, <1>5

LEMMA ChooseKeeps ==
  ASSUME PlanInv, NEW old \in OldPaths, ChoosePath(old) PROVE RouteInv'
<1> DEFINE new == [n \in DOMAIN path |-> Centre(path[n])]
<1>1. /\ stage = "search" /\ phase = "done" /\ ~Failed /\ stage' = "chosen"
      /\ UNCHANGED <<_goal, input, simplify>>
      /\ kept' => old # <<>>
      /\ jpsPath' = IF kept' THEN old ELSE new
  BY DEF ChoosePath, ForgetSearch
<1>2. unknown' \subseteq Cells
  <2>1. PICK u \in Unknowns : unknown' = u \ {c \in Cells : Occ(c)}
    BY DEF ChoosePath
  <2>2. u \subseteq Cells
    BY PlannerPathAssumption
  <2> QED
    BY <2>1, <2>2
<1>3. path \in Seq(Cells) /\ Len(path) >= 2 /\ new = CentresOf(path)
  BY <1>1 DEF PlanInv, DriveInv, Failed, CentresOf
<1>4. world_to_map(_goal') = dest'
  BY <1>1 DEF PlanInv, RouteInv, input
<1> HIDE DEF new
<1>5. CASE kept'
  <2>1. old \in Seq(Points) /\ Len(old) # 1 /\ old # <<>>
    BY <1>1, <1>5, PlannerPathAssumption
  <2>2. Len(old) >= 2
    <3> DEFINE len == Len(old)
    <3>1. \A s \in Seq(Points) : Len(s) \in Nat /\ (s = <<>> \/ Len(s) >= 1)
      OBVIOUS
    <3>2. len \in Nat /\ len >= 1 /\ len # 1
      BY <2>1, <3>1
    <3> HIDE DEF len
    <3>3. len >= 2
      BY <3>2
    <3> QED
      BY <3>3 DEF len
  <2> QED
    BY <1>1, <1>2, <1>4, <1>5, <2>1, <2>2 DEF RouteInv, ChosenRoute
<1>6. CASE ~kept'
  <2>1. jpsPath' = CentresOf(path) /\ jpsPath' \in Seq(Points) /\ Len(jpsPath') >= 2
    BY <1>1, <1>3, <1>6, CentresAre
  <2>2. ASSUME ~simplify' PROVE Drive(path) /\ (Enough => path[1] = start)
    BY <1>1, <2>2 DEF PlanInv, DriveInv
  <2>3. \A p : Drive(p) => Drive(p)'
    BY <1>1, DriveStays
  <2> DEFINE found == path
  <2>4. /\ found \in Seq(Cells) /\ jpsPath' = CentresOf(found)
        /\ ~simplify' => Drive(found) /\ (Enough => found[1] = start)
    BY <1>3, <2>1, <2>2
  <2>5. ChosenRoute'
    <3> HIDE DEF found
    <3>1. PICK p \in Seq(Cells) : /\ jpsPath' = CentresOf(p)
                                  /\ ~simplify' => Drive(p) /\ (Enough => p[1] = start)
      BY <2>4
    <3>2. start' = start /\ (Enough' <=> Enough) /\ CentresOf(p)' = CentresOf(p)
      BY <1>1 DEF input, Enough, CentresOf, Centre
    <3>3. ~simplify' => Drive(p)' /\ (Enough' => p[1] = start')
      BY <2>3, <3>1, <3>2
    <3> QED
      BY <3>1, <3>2, <3>3 DEF ChosenRoute
  <2> QED
    BY <1>1, <1>2, <1>4, <2>1, <2>5 DEF RouteInv
<1> QED
  BY <1>5, <1>6

\* What a step that leaves the search alone keeps of it.
LEMMA SearchStays == SearchInv /\ PathInv /\ DriveInv /\ UNCHANGED vars =>
                       SearchInv' /\ PathInv' /\ DriveInv'
  BY StepSearch, StepPath, StepDrive

\* What the first cut does to the path.
LEMMA RefineCuts ==
  ASSUME PlanInv, RefinePath
  PROVE  /\ RouteInv'
         /\ jpsPath' # jpsPath => CutOnce /\ (world_to_map(Last(jpsPath')) \in unknown \/ CutOffCentre)
<1> DEFINE p == jpsPath
           r == jpsPath'
           len == Len(p)
<1>1. /\ stage = "chosen" /\ stage' = "refined"
      /\ jpsPath' = IF plan_in_free THEN getJPSInFree(jpsPath) ELSE jpsPath
      /\ UNCHANGED <<vars, unknown, plan_in_free, kept, _goal>>
  BY DEF RefinePath
<1>2. /\ unknown \subseteq Cells /\ p \in Seq(Points) /\ len >= 2 /\ ChosenRoute
      /\ world_to_map(_goal) = dest
  BY <1>1 DEF PlanInv, RouteInv
<1>3. /\ r \in Seq(Points) /\ Len(r) >= 2
      /\ plan_in_free => \A n \in 1 .. Len(r) - 2 : Clear(r, n)
      /\ r = p \/ (plan_in_free /\ \E m \in 1 .. len - 1 : CutAfter(p, r, m))
  <2>1. CASE plan_in_free
    <3>1. r = getJPSInFree(p)
      BY <1>1, <2>1
    <3> HIDE DEF p, r
    <3> QED
      BY <1>2, <2>1, <3>1, InFreeCuts DEF len
  <2>2. CASE ~plan_in_free
    BY <1>1, <1>2, <2>2
  <2> QED
    BY <2>1, <2>2
<1>4. len \in Nat /\ \A n \in 1 .. len : p[n] \in Points
  BY <1>2
<1>5. ASSUME ~kept, NEW n \in 1 .. len PROVE p[n] = Centre(CellOf(p, n))
  <2>1. PICK s \in Seq(Cells) : p = CentresOf(s)
    BY <1>2, <1>5 DEF ChosenRoute
  <2> HIDE DEF p
  <2>2. len = Len(s) /\ p[n] = Centre(s[n]) /\ CellOf(p, n) = s[n]
    BY <2>1, CentresAre DEF len
  <2> QED
    BY <2>2
<1> HIDE DEF p, r, len
<1>6. ASSUME NEW m \in 1 .. len - 1, CutAfter(p, r, m)
      PROVE  /\ Front(r) = SubSeq(p, 1, m) /\ IsPrefix(Front(r), p) /\ r[1] = p[1]
             /\ Last(r) = r[m + 1] /\ Len(r) = m + 1
             /\ \/ CellOf(r, m + 1) \in unknown
                \/ kept /\ p[m + 1] # Centre(CellOf(p, m + 1)) /\ r[m + 1] = Centre(CellOf(p, m + 1))
  <2>1. /\ Len(r) = m + 1 /\ \A n \in 1 .. m : r[n] = p[n]
        /\ r[m + 1] # p[m + 1]
        /\ CellOf(r, m + 1) \in unknown \/ r[m + 1] = Centre(CellOf(p, m + 1))
    BY <1>6 DEF CutAfter
  <2>2. Front(r) = SubSeq(p, 1, m) /\ Len(SubSeq(p, 1, m)) = m
    <3>1. SubSeq(r, 1, m) = SubSeq(p, 1, m) /\ Len(SubSeq(p, 1, m)) = m
      <4> DEFINE s == SubSeq(r, 1, m)
                 t == SubSeq(p, 1, m)
      <4>1. /\ s \in Seq(Points) /\ Len(s) = m /\ \A n \in 1 .. m : s[n] = r[n]
            /\ t \in Seq(Points) /\ Len(t) = m /\ \A n \in 1 .. m : t[n] = p[n]
        BY <1>2, <1>3, <1>4, <2>1 DEF len
      <4> HIDE DEF s, t
      <4>2. s = t
        BY <2>1, <4>1
      <4> QED
        BY <4>1, <4>2 DEF s, t
    <3>2. Len(r) - 1 = m
      BY <1>4, <2>1
    <3> QED
      BY <1>4, <2>1, <3>1, <3>2 DEF Front
  <2>3. IsPrefix(Front(r), p)
    <3>1. SubSeq(SubSeq(p, 1, m), 1, m) = SubSeq(p, 1, m)
      <4> DEFINE s == SubSeq(p, 1, m)
      <4>1. s \in Seq(Points) /\ Len(s) = m /\ \A n \in 1 .. m : s[n] = p[n]
        BY <1>2, <1>4 DEF len
      <4> HIDE DEF s
      <4>2. SubSeq(s, 1, m) = s
        BY <1>4, <4>1
      <4> QED
        BY <4>2 DEF s
    <3> QED
      BY <1>4, <2>2, <3>1 DEF IsPrefix, len
  <2>4. r[1] = p[1]
    <3>1. 1 \in 1 .. m
      BY <1>4
    <3> QED
      BY <2>1, <3>1
  <2>5. kept \/ p[m + 1] = Centre(CellOf(p, m + 1))
    <3>1. m + 1 \in 1 .. len
      BY <1>4
    <3> QED
      BY <1>5, <3>1
  <2> QED
    BY <2>1, <2>2, <2>3, <2>4, <2>5 DEF Last
<1>7. jpsPath' # jpsPath => CutOnce /\ (world_to_map(Last(jpsPath')) \in unknown \/ CutOffCentre)
  <2> SUFFICES ASSUME r # p PROVE CutOnce /\ (world_to_map(Last(r)) \in unknown \/ CutOffCentre)
    BY DEF r, p
  <2>1. PICK m \in 1 .. len - 1 : CutAfter(p, r, m)
    BY <1>3
  <2>2. CutOnce
    BY <1>6, <2>1 DEF CutOnce, r, p
  <2>3. CASE CellOf(r, m + 1) \in unknown
    BY <1>6, <2>1, <2>2, <2>3 DEF CellOf
  <2>4. CASE kept /\ p[m + 1] # Centre(CellOf(p, m + 1)) /\ r[m + 1] = Centre(CellOf(p, m + 1))
    <3>1. Len(r) = m + 1 /\ Last(r) = r[m + 1]
      BY <1>6, <2>1
    <3>2. CutOffCentre
      BY <2>4, <3>1 DEF CutOffCentre, CellOf, r, p
    <3> QED
      BY <2>2, <3>2
  <2> QED
    BY <1>6, <2>1, <2>3, <2>4
<1>8. RefinedRoute'
  <2>1. /\ plan_in_free' = plan_in_free /\ kept' = kept /\ simplify' = simplify
        /\ unknown' = unknown /\ _goal' = _goal /\ start' = start /\ UNCHANGED input
    BY <1>1 DEF vars, result, input
  <2>2. plan_in_free => \A n \in 1 .. Len(r) - 2 : Clear(jpsPath, n)'
    BY <1>3, <2>1 DEF Clear, CellOf, r
  <2>3. ASSUME ~kept, ~simplify
        PROVE  /\ Enough => CellOf(r, 1) = start
               /\ world_to_map(_goal) = CellOf(r, Len(r)) \/ CellOf(r, Len(r)) \in unknown
               /\ plan_in_free \/ \E s \in Seq(Cells) : r = CentresOf(s) /\ Drive(s)
    <3>1. PICK s \in Seq(Cells) : p = CentresOf(s) /\ Drive(s) /\ (Enough => s[1] = start)
      BY <1>2, <2>3 DEF ChosenRoute, p
    <3>2. /\ len = Len(s) /\ CellOf(p, 1) = s[1] /\ CellOf(p, len) = dest
      <4>1. Len(p) = Len(s) /\ \A n \in 1 .. Len(s) : CellOf(p, n) = s[n]
        BY <3>1, CentresAre
      <4>2. 1 \in 1 .. Len(s) /\ Len(s) \in 1 .. Len(s) /\ s[Len(s)] = dest
        BY <3>1 DEF Drive
      <4> QED
        BY <4>1, <4>2 DEF len
    <3>3. CASE r = p
      BY <1>2, <3>1, <3>2, <3>3 DEF len
    <3>4. CASE r # p
      <4>1. PICK m \in 1 .. len - 1 : plan_in_free /\ CutAfter(p, r, m)
        BY <1>3, <3>4
      <4>2. r[1] = p[1] /\ Len(r) = m + 1 /\ CellOf(r, m + 1) \in unknown
        BY <1>6, <2>3, <4>1
      <4> QED
        BY <3>1, <3>2, <4>1, <4>2 DEF CellOf
    <3> QED
      BY <3>3, <3>4
  <2>4. (~kept /\ ~simplify =>
           /\ Enough => CellOf(jpsPath, 1) = start
           /\ LET last == CellOf(jpsPath, Len(jpsPath))
              IN world_to_map(_goal) = last \/ last \in unknown
           /\ plan_in_free \/ \E s \in Seq(Cells) : jpsPath = CentresOf(s) /\ Drive(s))'
    <3>1. \A s : Drive(s) => Drive(s)'
      BY <2>1, DriveStays
    <3>2. ASSUME NEW s \in Seq(Cells), r = CentresOf(s), Drive(s)
          PROVE  (\E t \in Seq(Cells) : jpsPath = CentresOf(t) /\ Drive(t))'
      BY <3>1, <3>2 DEF CentresOf, Centre, r
    <3> QED
      BY <2>1, <2>3, <3>2 DEF CellOf, Enough, r
  <2> QED
    BY <2>1, <2>2, <2>4 DEF RefinedRoute, r
<1>9. RouteInv'
  BY <1>1, <1>2, <1>3, <1>8 DEF RouteInv, r
<1> QED
  BY <1>7, <1>9

\* The points, in cells and between.
Plane == Int \X Int

\* What the path after the cuts is to be, point by point.
Fitting(r) ==
  /\ r \in Seq(Plane) /\ Len(r) >= 2
  /\ plan_in_free => \A n \in 1 .. Len(r) - 2 : Clear(r, n)
  /\ ~kept /\ ~simplify =>
       /\ Enough => CellOf(r, 1) = start
       /\ \/ plan_in_free
          \/ Centre(CellOf(r, Len(r))) \notin getOccupied
          \/ \A x \in {1, 2} : r[Len(r)][x] % 4 = 0

LEMMA FittingFits ==
  ASSUME NEW r, r = jpsPath', Fitting(r), UNCHANGED <<vars, unknown, plan_in_free, kept>>,
         ~kept /\ ~simplify =>
           LET last == CellOf(r, Len(r)) IN world_to_map(_goal') = last \/ last \in unknown
  PROVE  Fits'
<1> DEFINE len == Len(r)
           cell == [n \in DOMAIN r |-> world_to_map(r[n])]
<1>1. len \in Nat /\ len >= 2 /\ DOMAIN r = 1 .. len
  BY DEF Fitting
<1>2. Len(cell) = len /\ \A n \in 1 .. len : cell[n] = CellOf(r, n)
  <2>1. cell \in [1 .. len -> {world_to_map(r[n]) : n \in 1 .. len}]
    BY <1>1
  <2>2. \A S : \A f \in [1 .. len -> S] : Len(f) = len
    BY <1>1
  <2> HIDE DEF len
  <2> QED
    BY <1>1, <2>1, <2>2 DEF CellOf
<1>3. Head(cell) = CellOf(r, 1) /\ Last(cell) = CellOf(r, len) /\ Last(r) = r[len]
  <2>1. cell # <<>> /\ Head(cell) = cell[1]
    BY <1>1, <1>2
  <2>2. 1 \in 1 .. len /\ len \in 1 .. len
    BY <1>1
  <2> QED
    BY <1>2, <2>1, <2>2 DEF Last
<1>4. /\ occupied' = occupied /\ start' = start /\ simplify' = simplify /\ unknown' = unknown
      /\ plan_in_free' = plan_in_free /\ kept' = kept
  BY DEF vars, input, result
<1>5. getOccupied' = getOccupied
  BY <1>4 DEF getOccupied, is_occupied, map_to_world, index_to_cells, Centre
<1> HIDE DEF len, cell
<1>6. plan_in_free =>
        \A n \in 1 .. Len(cell) - 2 :
          Ray(cell[n], cell[n + 1]) \cap unknown \subseteq {cell[n], cell[n + 1]}
  <2> SUFFICES ASSUME plan_in_free, NEW n \in 1 .. len - 2
               PROVE  Ray(cell[n], cell[n + 1]) \cap unknown \subseteq {cell[n], cell[n + 1]}
    BY <1>2
  <2>1. Clear(r, n) /\ n \in 1 .. len /\ n + 1 \in 1 .. len
    BY <1>1 DEF Fitting, len
  <2> QED
    BY <1>2, <2>1 DEF Clear
<1>7. ~kept /\ ~simplify =>
        /\ MaxLinks >= sizeX * sizeY => Head(cell) = start
        /\ \/ plan_in_free
           \/ Centre(Last(cell)) \notin getOccupied
           \/ \A x \in {1, 2} : Last(r)[x] % 4 = 0
        /\ world_to_map(_goal') = Last(cell) \/ Last(cell) \in unknown
  BY <1>3 DEF Fitting, Enough, len
<1> QED
  BY <1>1, <1>4, <1>5, <1>6, <1>7 DEF Fits, cell, len

\* The end that the horizon gives a path.
LEMMA TruncateIs ==
  ASSUME NEW p \in Seq(Points), NEW n \in 1 .. Len(p) - 1, NEW quarter \in 1 .. 4,
         NEW r, r = truncateJPS(p, n, quarter)
  PROVE  /\ r \in Seq(Plane) /\ Len(r) = n + 1
         /\ r[n + 1] = Quarter(p[n], p[n + 1], quarter)
         /\ \A m \in 1 .. n : r[m] = p[m]
<1> DEFINE s == SubSeq(p, 1, n)
           z == Quarter(p[n], p[n + 1], quarter)
<1>1. p[n] \in Points /\ p[n + 1] \in Points
  OBVIOUS
<1>2. z \in Plane
  <2> DEFINE a == p[n]
             b == p[n + 1]
  <2>1. a[1] \in Int /\ a[2] \in Int /\ b[1] \in Int /\ b[2] \in Int
    <3>1. \A v \in Points : v[1] \in Int /\ v[2] \in Int
      BY JPSAssumption DEF Points
    <3> QED
      BY <1>1, <3>1
  <2>2. \A x, y \in Int : x + (quarter * (y - x)) \div 4 \in Int
    OBVIOUS
  <2>3. z = <<a[1] + (quarter * (b[1] - a[1])) \div 4, a[2] + (quarter * (b[2] - a[2])) \div 4>>
    BY DEF Quarter, Minus
  <2> HIDE DEF a, b, z
  <2> QED
    BY <2>1, <2>2, <2>3 DEF Plane
<1>3. s \in Seq(Plane) /\ Len(s) = n /\ \A m \in 1 .. n : s[m] = p[m]
  <2>1. s \in Seq(Points) /\ Len(s) = n /\ \A m \in 1 .. n : s[m] = p[m]
    OBVIOUS
  <2>2. Points \subseteq Plane
    BY JPSAssumption DEF Points, Plane
  <2> HIDE DEF s
  <2> QED
    BY <2>1, <2>2
<1>4. r = Append(s, z)
  BY DEF truncateJPS, Quarter
<1> HIDE DEF s, z
<1>5. r \in Seq(Plane) /\ Len(r) = n + 1 /\ r[n + 1] = z /\ \A m \in 1 .. n : r[m] = s[m]
  BY <1>2, <1>3, <1>4
<1> QED
  BY <1>3, <1>5 DEF z

\* What the second cut does to the path.
LEMMA TruncateFits == PlanInv /\ TruncatePath => RouteInv' /\ Fits'
<1> SUFFICES ASSUME PlanInv, TruncatePath PROVE RouteInv' /\ Fits'
  OBVIOUS
<1> DEFINE p == jpsPath
           r == jpsPath'
<1>1. /\ stage = "refined" /\ stage' = "corridor"
      /\ UNCHANGED <<vars, unknown, plan_in_free, kept>>
  BY DEF TruncatePath
<1>2. /\ unknown \subseteq Cells /\ p \in Seq(Points) /\ Len(p) >= 2 /\ RefinedRoute
  BY <1>1 DEF PlanInv, RouteInv
<1>3. RouteInv'
  BY <1>1, <1>2 DEF RouteInv
<1>4. plan_in_free => \A n \in 1 .. Len(p) - 2 : Clear(p, n)
  BY <1>2 DEF RefinedRoute
<1>5. ASSUME ~kept, ~simplify
      PROVE  /\ Enough => CellOf(p, 1) = start
             /\ world_to_map(_goal) = CellOf(p, Len(p)) \/ CellOf(p, Len(p)) \in unknown
             /\ plan_in_free \/ \E s \in Seq(Cells) : p = CentresOf(s) /\ Drive(s)
  BY <1>2, <1>5 DEF RefinedRoute
<1> HIDE DEF p, r
<1>6. CASE UNCHANGED <<jpsPath, _goal>>
  <2>1. p \in Seq(Plane)
    <3>1. Points \subseteq Plane
      BY JPSAssumption DEF Points, Plane
    <3> QED
      BY <1>2, <3>1
  <2>2. ASSUME ~kept, ~simplify, ~plan_in_free PROVE Centre(CellOf(p, Len(p))) \notin getOccupied
    <3>1. PICK s \in Seq(Cells) : p = CentresOf(s) /\ Drive(s)
      BY <1>5, <2>2
    <3>2. Len(p) = Len(s) /\ CellOf(p, Len(p)) = s[Len(s)] /\ Free(s[Len(s)])
      <4>1. Len(s) \in 1 .. Len(s)
        BY <3>1 DEF Drive
      <4> QED
        BY <3>1, <4>1, CentresAre DEF Drive
    <3> QED
      BY <3>2, FreeIsOff DEF Free
  <2>3. Fitting(p)
    BY <1>2, <1>4, <1>5, <2>1, <2>2 DEF Fitting
  <2>4. ~kept /\ ~simplify =>
          LET last == CellOf(p, Len(p)) IN world_to_map(_goal') = last \/ last \in unknown
    BY <1>5, <1>6
  <2>5. p = jpsPath'
    BY <1>6 DEF p
  <2> QED
    BY <1>1, <1>3, <2>3, <2>4, <2>5, FittingFits
<1>7. ASSUME NEW n \in 1 .. Len(p) - 1, NEW quarter \in 1 .. 4, p[n] # p[n + 1],
             r = truncateJPS(p, n, quarter), _goal' = Last(r)
      PROVE  Fits'
  <2> DEFINE len == Len(p)
             z == Quarter(p[n], p[n + 1], quarter)
  <2>1. /\ r \in Seq(Plane) /\ Len(r) = n + 1 /\ r[n + 1] = z
        /\ \A m \in 1 .. n : r[m] = p[m]
    BY <1>2, <1>7, TruncateIs
  <2>2. len \in Nat /\ len >= 2
    BY <1>2
  <2> HIDE DEF len, z
  <2>3. plan_in_free => \A m \in 1 .. Len(r) - 2 : Clear(r, m)
    <3> SUFFICES ASSUME plan_in_free, NEW m \in 1 .. n - 1 PROVE Clear(r, m)
      BY <2>1
    <3>1. m \in 1 .. len - 2 /\ m \in 1 .. n /\ m + 1 \in 1 .. n
      BY <2>2 DEF len
    <3>2. Clear(p, m)
      BY <1>4, <3>1 DEF len
    <3> QED
      BY <2>1, <3>1, <3>2 DEF Clear, CellOf
  <2>4. CellOf(r, 1) = CellOf(p, 1)
    <3>1. 1 \in 1 .. n
      BY <2>2
    <3> QED
      BY <2>1, <3>1 DEF CellOf
  <2>5. ASSUME ~kept, ~simplify, ~plan_in_free
        PROVE  Centre(CellOf(r, Len(r))) \notin getOccupied \/ \A x \in {1, 2} : z[x] % 4 = 0
    <3>1. PICK s \in Seq(Cells) : p = CentresOf(s) /\ Drive(s)
      BY <1>5, <2>5
    <3>2. /\ len = Len(s) /\ n \in 1 .. len /\ n + 1 \in 1 .. len
          /\ p[n] = Centre(s[n]) /\ p[n + 1] = Centre(s[n + 1])
          /\ s[n] \in Cells /\ s[n + 1] \in Cells
      <4>1. Len(p) = Len(s) /\ \A m \in 1 .. Len(s) : p[m] = Centre(s[m]) /\ s[m] \in Cells
        BY <3>1, CentresAre
      <4>2. n \in 1 .. len /\ n + 1 \in 1 .. len
        BY <2>2 DEF len
      <4> QED
        BY <4>1, <4>2 DEF len
    <3>3. Free(s[n]) /\ Jump(s[n], s[n + 1])
      <4>1. n \in 1 .. Len(s) - 1 /\ n \in 1 .. Len(s)
        BY <2>2, <3>2
      <4>2. Free(s[n]) /\ (s[n] = s[n + 1] \/ Jump(s[n], s[n + 1]))
        BY <3>1, <4>1, Zenon DEF Drive
      <4> QED
        BY <1>7, <3>2, <4>2
    <3>4. (world_to_map(z) \in Cells /\ ~Occ(world_to_map(z))) \/ \A x \in {1, 2} : z[x] % 4 = 0
      BY <3>2, <3>3, QuarterIsFree DEF z
    <3>5. CellOf(r, Len(r)) = world_to_map(z)
      BY <2>1 DEF CellOf
    <3> QED
      BY <3>4, <3>5, FreeIsOff
  <2>6. Fitting(r)
    BY <1>5, <2>1, <2>2, <2>3, <2>4, <2>5 DEF Fitting
  <2>7. world_to_map(_goal') = CellOf(r, Len(r))
    BY <1>7 DEF CellOf, Last
  <2> QED
    BY <1>1, <2>6, <2>7, FittingFits DEF r
<1> QED
  BY <1>3, <1>6, <1>7 DEF TruncatePath, p, r


LEMMA StepPlan == PlanInv /\ [PlanNext]_<<vars, path_vars>> => PlanInv'
<1> SUFFICES ASSUME PlanInv, [PlanNext]_<<vars, path_vars>> PROVE PlanInv'
  OBVIOUS
<1>1. CASE Searching
  <2>1. [Next]_vars /\ UNCHANGED path_vars /\ UNCHANGED input /\ UNCHANGED stage /\ stage = "search"
    <3>1. Next
      BY <1>1 DEF Searching, Next
    <3> QED
      BY <1>1, <3>1, InputStays DEF Searching, path_vars
  <2>2. SearchInv' /\ PathInv' /\ DriveInv'
    BY <2>1, StepSearch, StepPath, StepDrive DEF PlanInv
  <2>3. RouteInv'
    BY <2>1 DEF PlanInv, RouteInv, path_vars, input
  <2> QED
    BY <2>2, <2>3 DEF PlanInv
<1>2. CASE JPSFails
  <2>1. SearchInv' /\ PathInv' /\ DriveInv'
    BY <1>2, ForgetKeeps DEF PlanInv, JPSFails
  <2>2. RouteInv'
    BY <1>2 DEF PlanInv, RouteInv, JPSFails
  <2> QED
    BY <2>1, <2>2 DEF PlanInv
<1>3. ASSUME NEW old \in OldPaths, ChoosePath(old) PROVE PlanInv'
  <2>1. SearchInv' /\ PathInv' /\ DriveInv'
    BY <1>3, ForgetKeeps DEF PlanInv, ChoosePath
  <2> QED
    BY <1>3, <2>1, ChooseKeeps DEF PlanInv
<1>4. CASE RefinePath
  <2>1. SearchInv' /\ PathInv' /\ DriveInv'
    BY <1>4, SearchStays DEF PlanInv, RefinePath
  <2> QED
    BY <1>4, <2>1, RefineCuts DEF PlanInv
<1>5. CASE TruncatePath
  <2>1. SearchInv' /\ PathInv' /\ DriveInv'
    BY <1>5, SearchStays DEF PlanInv, TruncatePath
  <2> QED
    BY <1>5, <2>1, TruncateFits DEF PlanInv
<1>6. CASE PathReady \/ UNCHANGED <<vars, path_vars>>
  <2>1. UNCHANGED vars /\ UNCHANGED path_vars
    BY <1>6 DEF PathReady
  <2>2. SearchInv' /\ PathInv' /\ DriveInv'
    BY <2>1, SearchStays DEF PlanInv
  <2>3. \A p : Drive(p) => Drive(p)'
    BY <2>1, DriveStays DEF vars
  <2>4. RouteInv'
    <3>1. /\ UNCHANGED <<stage, unknown, plan_in_free, kept, jpsPath, _goal, simplify, start, dest>>
      BY <2>1 DEF vars, path_vars, input, result
    <3>2. ChosenRoute => ChosenRoute'
      BY <2>3, <3>1 DEF ChosenRoute, CentresOf, Centre, Enough
    <3>3. RefinedRoute => RefinedRoute'
      BY <2>3, <3>1 DEF RefinedRoute, CentresOf, Centre, Enough, Clear, CellOf
    <3> QED
      BY <3>1, <3>2, <3>3 DEF PlanInv, RouteInv
  <2> QED
    BY <2>2, <2>4 DEF PlanInv
<1> QED
  BY <1>1, <1>2, <1>3, <1>4, <1>5, <1>6 DEF PlanNext

-----------------------------------------------------------------------------
(* Theorems.                                                                *)

\* For every map and query, the search keeps its types, and what it queues has a parent.
THEOREM TypesHold == Spec => []TypeOK
<1>1. SearchInv => TypeOK
  BY DEF SearchInv
<1>2. QED
  BY InitSearch, StepSearch, <1>1, PTL DEF Spec

\* For every map, whatever the memory around it, and every query: the parents that
\* add_to_parents leaves behind, found and improved in whatever order the queue gives, lead
\* back to the start in free lines, each cell costing more than its parent.
THEOREM LinksLead == Spec => []LinksLeadBack
<1>1. SearchInv => LinksLeadBack
  BY DEF SearchInv, Tree, LinksLeadBack
<1>2. QED
  BY InitSearch, StepSearch, <1>1, PTL DEF Spec

\* For every map and query, a search that gives up has not come to the destination: its node
\* is not kept from the queue, nor forgotten there.
THEOREM DestinationsAreReported == Spec => []FoundIsReported
<1>1. FoundInv => FoundIsReported
  BY DEF FoundInv
<1>2. QED
  BY InitSearch, StepSearch, InitFound, StepFound, <1>1, PTL DEF Spec

\* Hence what getPath reads from them, without simplification, is a path from the start to
\* the destination through free cells, or one cut off after MaxLinks links.
THEOREM PathsAreFree == Spec => []PathIsFree
<1>1. SearchInv /\ PathInv => PathIsFree
  BY DEF PathInv
<1>2. QED
  BY InitSearch, StepSearch, InitPath, StepPath, <1>1, PTL DEF Spec

\* For every map, query and either rounding of the lengths: simplifying keeps the ends that
\* getPath read, and joins by free rays what no jump joined before.
THEOREM SimplifiedPathsAreFree == Spec => SimplifiedIsFree
<1>1. Spec => [](SearchInv /\ PathInv)
  BY InitSearch, StepSearch, InitPath, StepPath, PTL DEF Spec
<1> QED
  BY <1>1, TwiceIsFree, PTL DEF Spec, SimplifiedIsFree

\* For every map, query, set of unknown cells and earlier path, every choice between the two
\* paths and every horizon: the path that the corridor is made along fits the start, the
\* goal and the grid, and the cut at the unknown comes once, at a cell that is unknown or off
\* the centre that a kept path passes.
THEOREM RoutesFit == PlanSpec => RouteFits
<1>1. PlanSpec => []PlanInv
  BY InitPlan, StepPlan, PTL DEF PlanSpec
<1>2. PlanInv /\ [PlanNext]_<<vars, path_vars>> =>
        [/\ stage = "chosen" /\ jpsPath' # jpsPath =>
              CutOnce /\ (world_to_map(Last(jpsPath')) \in unknown \/ CutOffCentre)
         /\ stage = "refined" => Fits']_<<vars, path_vars>>
  <2> SUFFICES ASSUME PlanInv, PlanNext
               PROVE  \/ UNCHANGED <<vars, path_vars>>
                      \/ /\ stage = "chosen" /\ jpsPath' # jpsPath =>
                              CutOnce /\ (world_to_map(Last(jpsPath')) \in unknown \/ CutOffCentre)
                         /\ stage = "refined" => Fits'
    OBVIOUS
  <2>1. CASE RefinePath
    BY <2>1, RefineCuts DEF RefinePath
  <2>2. CASE TruncatePath
    BY <2>2, TruncateFits DEF TruncatePath
  <2>3. CASE Searching \/ JPSFails \/ \E old \in OldPaths : ChoosePath(old)
    BY <2>3 DEF Searching, JPSFails, ChoosePath
  <2>4. CASE PathReady
    BY <2>4 DEF PathReady
  <2> QED
    BY <2>1, <2>2, <2>3, <2>4 DEF PlanNext
<1> QED
  BY <1>1, <1>2, PTL DEF PlanSpec, RouteFits
=============================================================================
