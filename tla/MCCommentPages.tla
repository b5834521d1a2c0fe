---------------------------- MODULE MCCommentPages ----------------------------
(* Instances of CommentPages for TLC. *)
EXTENDS CommentPages, TLC

MCSizes  == {-1, 1}
Symmetry == Permutations(Comments) \cup Permutations(Readers)
===============================================================================
