------------------------------- MODULE MCJPS -------------------------------
(***************************************************************************)
(* Values for JPS's constants: every arrangement of obstacles in the       *)
(* columns between the first and the last, with the memory around the map  *)
(* free or occupied; the queries cross these columns or start in them.     *)
(* At most one cell is unknown.  The earlier plan went along the first row *)
(* until its horizon ended it, beside a cell's centre, or came back from   *)
(* the last corner.                                                        *)
(***************************************************************************)
EXTENDS PlannerPath

Map == 0 .. sizeX * sizeY - 1
Around == (-sizeX - 1 .. sizeX * sizeY + sizeX) \ Map
MiddleCells == {Index(c) : c \in (1 .. sizeX - 2) \X (0 .. sizeY - 1)}
MiddleMaps == {inside \cup around : inside \in SUBSET MiddleCells, around \in {{}, Around}}

Across ==
  LET right == sizeX - 1 bottom == sizeY - 1
  IN {<<<<0, 1>>, <<right, 1>>>>, <<<<1, 0>>, <<right, bottom>>>>}

Booleans == BOOLEAN

OneUnknown == {{}} \cup {{c} : c \in Cells}
NoUnknown == {{}}

Earlier ==
  LET corner == <<sizeX - 1, sizeY - 1>>
  IN {<<>>, <<Centre(<<0, 0>>), <<4 * sizeX - 5, 2>>>>,
      <<Centre(corner), Centre(<<0, 0>>), Centre(<<0, sizeY - 1>>)>>}
NoneEarlier == {<<>>}
=============================================================================
