----------------------------- MODULE MCEmailQuota -----------------------------
(* Instances of EmailQuota for TLC. *)
EXTENDS EmailQuota, TLC

Symmetry == Permutations(Mails)
===============================================================================
