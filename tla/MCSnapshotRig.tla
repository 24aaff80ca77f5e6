----------------------------- MODULE MCSnapshotRig -----------------------------
(***************************************************************************)
(* Instances of SnapshotRig for TLC; the .cfg files choose who runs.       *)
(***************************************************************************)
EXTENDS SnapshotRig
================================================================================
