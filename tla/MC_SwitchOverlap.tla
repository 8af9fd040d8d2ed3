--------------------------- MODULE MC_SwitchOverlap ---------------------------
EXTENDS SwitchOverlap, TLC

CONSTANTS p, q, c1, c2, c3, c4

MCMaxStreams == [r \in Profile |-> 1]
MCProfilesOf == (c1 :> {p}) @@ (c2 :> {p, q}) @@ (c3 :> {q})
MCFour == MCProfilesOf @@ (c4 :> {q})
=============================================================================
