------------------------------ MODULE MCRetrace ------------------------------
(* Half a metre to a unit: bends of the smallest radius, of 1.5 m, of 5 m,     *)
(* which passes for straight when it is grouped with one, and of 22.5 m, which *)
(* is retraced as a straight by itself.                                        *)
EXTENDS Retrace

\* Parkings of up to three segments, of the two smallest bends.
MCParkings ==
  UNION {[1..n -> {p \in ParkMoves : p.length <= 6}] : n \in 1..3}

\* Pieces of a two-arc correction and the straight between them.
MCCorrections ==
  {Straight(-1, 1), Straight(1, 1), Arc(-1, 1, 1, 1), Arc(1, -1, 3, 1)}

MCSlots == {[x |-> 2, y |-> -1, h |-> 1], [x |-> -3, y |-> 2, h |-> 2]}
=============================================================================
