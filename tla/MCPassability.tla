---------------------------- MODULE MCPassability ----------------------------
(* A map of two rows: legs along a row, across it, and back past the start. *)
EXTENDS PassabilityHistory

Between(m, a, b) == Least(a, b) <= m /\ m <= a + b - Least(a, b)

MCBand == [ab \in Cells \X Cells |->
             {c \in Cells : \A i \in {1, 2} : Between(c[i], ab[1][i], ab[2][i])}]

MCRoutes == { << <<0, 0>> >>,
              << <<0, 0>>, <<2, 1>> >>,
              << <<0, 0>>, <<1, 0>>, <<2, 1>> >>,
              << <<0, 0>>, <<2, 0>>, <<0, 1>> >> }
=============================================================================
