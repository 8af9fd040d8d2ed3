---------------------------- MODULE MC_Recordings ----------------------------
(* What becomes of a recording is followed until it is mistreated in one of   *)
(* the ways that the properties leave out.                                    *)
EXTENDS Recordings

MCTask == 1..(MaxTrouble + 1)
WellTreated == flaws \cap {"met", "moved", "stale", "freed"} = {}
=============================================================================
