----------------------------- MODULE MCStatTime -----------------------------
(* A second of 4 microseconds in 64-value fields: calls within a second,    *)
(* across one (a negative microsecond part), of no time, and with the clock *)
(* set back.                                                                *)
EXTENDS StatTime

MCDifferences == {<<0, 0>>, <<0, 1>>, <<0, 3>>, <<1, -3>>, <<1, -1>>, <<1, 2>>,
                  <<2, -2>>, <<-1, 1>>}
=============================================================================
