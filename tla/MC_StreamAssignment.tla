------------------------ MODULE MC_StreamAssignment ------------------------
(* Two instances in one: several workers on one channel and a preview, that  *)
(* contend for one profile (the other is full, of what is not modelled), and *)
(* one request or stop at a time on two channels and a preview.              *)
EXTENDS StreamAssignment, TLC

CONSTANTS first, second

\* Stream n + 1 belongs to channel n; the account of stream 4 has one profile.
MCStreamsOf == [c \in Channel |-> {c + 1}]
MCProfilesOf == [s \in Stream |-> IF s = 4 THEN {first} ELSE Profile]
MCMaxStreams == [x \in Profile |-> 1]

VARIABLE together   \* are the workers busy at the same time?

MCInit ==
  /\ Init
  /\ together \in BOOLEAN
  /\ slots = [p \in Profile |-> IF together /\ p = second THEN 1 ELSE 0]

MCNext ==
  /\ Next
  /\ IF together THEN \A w \in Worker : ses'[w] # <<"channel", 2>>
     ELSE \A w, v \in Worker : w # v => "idle" \in {pc'[w], pc'[v]}
  /\ UNCHANGED together

MCSpec == MCInit /\ [][MCNext]_<<vars, together>>

Symmetry == Permutations(Worker)
=============================================================================
