------------------------------ MODULE MCLikeSync ------------------------------
(* Instances of LikeSync for TLC. *)
EXTENDS LikeSync, TLC

CONSTANTS c1, c2

NoneSubmitted == <<>>
OneSubmitted  == <<c2>>

Symmetry == Permutations(Users) \cup Permutations(Requests)
===============================================================================
