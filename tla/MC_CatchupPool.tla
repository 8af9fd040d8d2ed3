---- MODULE MC_CatchupPool ----
(* Requests are interchangeable, and so are positions. *)
EXTENDS CatchupPool, TLC

Symmetry == Permutations(Request) \cup Permutations(Media)
====
