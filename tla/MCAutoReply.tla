----------------------------- MODULE MCAutoReply -----------------------------
(* Instances of AutoReply for TLC. *)
EXTENDS AutoReply, TLC

CONSTANTS kw, q1, q2, q3

Always   == [priority |-> 1, window |-> None, keywords |-> {}, enabled |-> TRUE, broken |-> FALSE]
ForWord  == [Always EXCEPT !.keywords = {kw}, !.priority = 2, !.broken = TRUE]

MCFirstRules == 1 :> Always
MCBodies     == {Always, ForWord}
MCPatches    == {[window |-> w] : w \in [from : Clock, to : Clock]}
                \cup {[enabled |-> FALSE], [priority |-> 2]}

Limits(g, a, c) == [global |-> g, author |-> a, cooldown |-> c]

NoLimits == Limits(0, 0, 0)

\* Each limit alone, tight enough to be reached, and all of them at once.
TightLimits == {Limits(1, 0, 0), Limits(0, 1, 0), Limits(0, 0, 2), Limits(2, 2, 1)}

MCSettings == {NoLimits} \cup TightLimits

\* Every order of two changes around one reply, and three replies by one rule.
MCScopes == {[changes |-> 2, replies |-> {q1}, settings |-> {NoLimits}],
             [changes |-> 0, replies |-> {q1, q2, q3}, settings |-> TightLimits]}

Symmetry == Permutations({q2, q3}) \cup Permutations(Requests) \cup Permutations(Authors)
===============================================================================
