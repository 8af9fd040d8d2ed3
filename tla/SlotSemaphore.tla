--------------------------- MODULE SlotSemaphore ---------------------------
(* What a pool of provider connections promises, whatever counters it is    *)
(* built from: a request becomes a holder of a pool only while the holders  *)
(* of that pool are fewer than one of the bounds the pool admits under, and *)
(* stays one until it leaves by itself.                                     *)
EXTENDS Naturals, FiniteSets

CONSTANTS Client,   \* the requests that compete for a connection
          Pool,     \* the provider profiles, or the provider logins
          Bounds    \* [Pool -> SUBSET Nat]: the limits a request may be held to

VARIABLE holders    \* [Pool -> SUBSET Client]

Init == holders = [k \in Pool |-> {}]

Acquire(c, k) ==
  /\ c \notin holders[k]
  /\ \E n \in Bounds[k] : Cardinality(holders[k]) < n
  /\ holders' = [holders EXCEPT ![k] = @ \cup {c}]

Leave(c, k) ==
  /\ c \in holders[k]
  /\ holders' = [holders EXCEPT ![k] = @ \ {c}]

Next == \E c \in Client, k \in Pool : Acquire(c, k) \/ Leave(c, k)

Spec == Init /\ [][Next]_holders
=============================================================================
