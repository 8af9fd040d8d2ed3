-------------------------- MODULE MC_ProfileSwitch --------------------------
(* Two accounts: one with two profiles on two pooled logins, one whose only  *)
(* profile shares the first login, or an unlimited one. Each profile takes   *)
(* one stream.                                                                *)
EXTENDS ProfileSwitch, TLC

CONSTANTS first, second, other, free, loginA, loginB

MCAccount == [p \in Profile |-> IF p \in {first, second} THEN 1 ELSE 2]
MCRank == [p \in Profile |-> IF p = second THEN 2 ELSE 1]
MCLoginOf == [p \in Profile |-> IF p = second THEN loginB ELSE loginA]
MCMaxStreams == [p \in Profile |-> IF p = free THEN 0 ELSE 1]

Symmetry == Permutations(Conn)
=============================================================================
