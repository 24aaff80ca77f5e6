---------------------------- MODULE MCForkTelescope ----------------------------
(***************************************************************************)
(* Instances of ForkTelescope for TLC: the depth of the centre and one     *)
(* out of reach.                                                           *)
(***************************************************************************)
EXTENDS ForkTelescope

MCDepths == {1, 3}
================================================================================
