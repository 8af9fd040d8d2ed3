---- MODULE MC_EpgRefresh ----
(* Guide g1 is given to a channel while the tasks run; g2 has, or has not,   *)
(* its channel from the start.                                               *)
EXTENDS EpgRefresh

CONSTANTS g1, g2

MCMaxMaps == [g \in Guide |-> IF g = g1 THEN 1 ELSE 0]
====
