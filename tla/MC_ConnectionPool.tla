------------------------- MODULE MC_ConnectionPool -------------------------
(* Profiles for model checking: two that share one login and take one       *)
(* stream each, one on that login that takes two, an unlimited one, a pooled *)
(* one without a fingerprint and one that is not pooled. A cfg picks some.   *)
EXTENDS ConnectionPool, TLC

CONSTANTS one, two, wide, free, blank, plain, login

MCLoginOf ==
  [p \in Profile |-> CASE p \in {one, two, wide, free} -> login
                       [] p = blank -> NoLogin
                       [] p = plain -> NotPooled]
MCMaxStreams ==
  [p \in Profile |-> CASE p = free -> 0 [] p = wide -> 2 [] OTHER -> 1]

Symmetry == Permutations(Conn)
=============================================================================
