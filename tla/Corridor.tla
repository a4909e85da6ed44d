------------------------------ MODULE Corridor ------------------------------
(***************************************************************************)
(* The corridor a plan is made in (corridor.h).  A cover of the path is a  *)
(* number of polytopes, in the path's order, the pairs of them that        *)
(* overlap and those that do so widely; a corridor is the sequence of      *)
(* those it keeps.                                                         *)
(***************************************************************************)
EXTENDS Integers, Sequences, SequencesExt

\* Two of a cover's polytopes, the earlier one first, overlap; each overlaps itself.
Overlap(cover, i, j) == i = j \/ <<i, j>> \in cover.overlaps

\* shortCut goes from the last polytope to the earliest that overlaps it widely (by .01),
\* and on from there; the one before is taken without a test.
Earliest(cover, i) ==
  CHOOSE j \in 1 .. i - 1 :
    /\ <<j, i>> \in cover.wide \/ j = i - 1
    /\ \A k \in 1 .. j - 1 : <<k, i>> \notin cover.wide

\* A slip: it is a single polytope that stays single.
shortCutSingle(cover) ==
  LET back[i \in 1 .. cover.size] ==
        IF i = 1 THEN <<1>> ELSE Append(back[Earliest(cover, i)], i)
  IN back[cover.size]

\* A single polytope is doubled first.
shortCut(cover) ==
  LET back[i \in 1 .. cover.size] ==
        IF i = 1 THEN <<1>> ELSE Append(back[Earliest(cover, i)], i)
  IN IF cover.size = 1 THEN <<1, 1>> ELSE back[cover.size]

\* Planner::plan: "if adjacent polytopes don't overlap, don't plan", here by any overlap.
Connected(cover, hPolys) ==
  \A p \in 1 .. Len(hPolys) - 1 : Overlap(cover, hPolys[p], hPolys[p + 1])

\* The pairs of a cover of n polytopes.
Pairs(n) == {pair \in (1 .. n) \X (1 .. n) : pair[1] < pair[2]}

\* convexCover's results: at least one polytope, as the path has at least two points.
Covers(max) ==
  {c \in UNION {[size : {n}, overlaps : SUBSET Pairs(n), wide : SUBSET Pairs(n)] :
                n \in 1 .. max} :
     c.wide \subseteq c.overlaps}
=============================================================================
