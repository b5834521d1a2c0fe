--------------------------- MODULE MCSlidingWindow ---------------------------
(* Instances of SlidingWindow for TLC. *)
EXTENDS SlidingWindow, TLC

Limits  == [k \in Keys |-> IF k \in IPs THEN 2 ELSE 1]
Windows == [k \in Keys |-> 2]

Symmetry == Permutations(Requests) \cup Permutations(RandomValues)
===============================================================================
