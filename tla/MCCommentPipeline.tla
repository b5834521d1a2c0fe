--------------------------- MODULE MCCommentPipeline ---------------------------
(* Instances of CommentPipeline for TLC. *)
EXTENDS CommentPipeline

EveryFault == FaultNames
===============================================================================
