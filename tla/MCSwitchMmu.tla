---------------------------- MODULE MCSwitchMmu ----------------------------
(* Configurations of SwitchMmu small enough to explore.                    *)
EXTENDS SwitchMmu, TLC

\* One unit is 1 KB; the second port is faster and gets more of the pool.
TwoHeadrooms == 1 :> 4 @@ 2 :> 3
TwoAlphas    == 1 :> 2 @@ 2 :> 1

\* The proportions of the shipped configuration, one unit for 25 KB: a port
\* of 400 Gb/s and 1 us has 150 KB of headroom, 8 to 16 such ports share a
\* buffer of 1000 KB (config.txt:54), which two of them do here at 6 units.
ShippedHeadrooms == [p \in 1..2 |-> 6]
ShippedAlphas    == [p \in 1..2 |-> 8]
=============================================================================
