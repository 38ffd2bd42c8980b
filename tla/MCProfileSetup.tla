--------------------------- MODULE MCProfileSetup --------------------------
(* Instances of ProfileSetup for TLC. *)
EXTENDS ProfileSetup
=============================================================================
