------------------------ MODULE MC_ChannelLifecycle ------------------------
(* Two workers and one viewer, who comes and goes.                           *)
EXTENDS ChannelLifecycle

CONSTANTS w1, w2, c1, c2
=============================================================================
