---- MODULE MC_VODSessions ----
(* Every profile has one slot; requests and sessions are interchangeable. *)
EXTENDS VODSessions, TLC

MCLimit == [p \in Profile |-> 1]
Symmetry == Permutations(Request) \cup Permutations(Session) \cup Permutations(Profile)
====
