--------------------------- MODULE MCServerMonitor ---------------------------
(* Instances of ServerMonitor for TLC. *)
EXTENDS ServerMonitor

CONSTANTS n1, n2, cpu

MCDefaultRules == [n \in Names |-> IF n = n1 THEN [cond |-> cpu, duration |-> 0] ELSE None]
===============================================================================
