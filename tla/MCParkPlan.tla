----------------------------- MODULE MCParkPlan ------------------------------
(* A map of nine cells.  The car stands on the middle of the left column; a *)
(* candidate sweeps ahead of it, to one side, over the lower edge of the    *)
(* map by less than a cell, or off the map altogether.                      *)
EXTENDS ParkPlan

Free == [c \in Cells |-> 0]
MCStatics == {Free,
              [Free EXCEPT ![<<2, 0>>] = -1, ![<<2, 1>>] = -1, ![<<2, 2>>] = -1],
              [Free EXCEPT ![<<0, 2>>] = 100, ![<<1, 2>>] = 49]}

MCOutline == {<<2, 7>>}
MCSweeps == {{<<2, 7>>, <<7, 7>>, <<12, 7>>},
             {<<2, 7>>, <<7, 2>>},
             {<<2, 7>>, <<2, -3>>},
             {<<2, 7>>, <<2, 12>>, <<2, 17>>}}

MCRadii == <<50, 55>>
MCSlots == {[kind |-> "straight_first", radius |-> 55],
            [kind |-> "parallel", radius |-> 50],
            [kind |-> "perpendicular", radius |-> 55]}
MCPoints == {<<12, 2>>, <<2, -3>>, <<2, -8>>}
=============================================================================
