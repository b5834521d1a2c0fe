----------------------------- MODULE MCHaloReview -----------------------------
(* Instances of HaloReview for TLC. *)
EXTENDS HaloReview

BornUnapproved == {FALSE}
BornEither     == BOOLEAN
===============================================================================
