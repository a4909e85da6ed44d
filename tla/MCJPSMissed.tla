---------------------------- MODULE MCJPSMissed ----------------------------
(***************************************************************************)
(* A map and a query for JPS on which the search gives up.  Row by row, S  *)
(* the start, G the destination and # what is occupied:                    *)
(*                                                                         *)
(*   #S.....###    The corridor's end at (6, 0) is searched first, from    *)
(*   #.#####.#.    (7, 1) on down to the left.  That closes (5, 3) with    *)
(*   #.#....##G    rays to the left and down only.  The other way round,   *)
(*   .#.......#    along row 3, comes to (5, 3) later, has to go on to the *)
(*   ####.#.###    right there, and is not queued.                         *)
(***************************************************************************)
EXTENDS JPS

Rows ==
  [y \in 0 .. 4 |-> CASE y = 0 -> {0, 7, 8, 9}
                      [] y = 1 -> {0, 2, 3, 4, 5, 6, 8}
                      [] y = 2 -> {0, 2, 7, 8}
                      [] y = 3 -> {1, 9}
                      [] y = 4 -> {0, 1, 2, 3, 5, 7, 8, 9}]
Inside == {Index(c) : c \in {c \in Cells : c[1] \in Rows[c[2]]}}
Around == (-sizeX - 1 .. sizeX * sizeY + sizeX) \ (0 .. sizeX * sizeY - 1)

MissedMaps == {Inside, Inside \cup Around}
MissedQuery == {<<<<1, 0>>, <<9, 2>>>>}
=============================================================================
