----------------------------- MODULE PalletLedger -----------------------------
(***************************************************************************)
(* What storing and retrieving promise: a pallet is at one place, and it    *)
(* goes from outside into a cell, from a cell onto a crane, from the crane  *)
(* into the hands of the retrieval that unloads it, and from there into a   *)
(* cell or back outside.                                                   *)
(***************************************************************************)
CONSTANTS Pallets, Cells, Cranes, Retrievers, Outside
VARIABLE where

Way(here, there) ==
  \/ here = Outside       /\ there \in Cells
  \/ here \in Cells      /\ there \in Cranes
  \/ here \in Cranes     /\ there \in Retrievers
  \/ here \in Retrievers /\ there \in Cells \cup {Outside}

LedgerInit == where = [p \in Pallets |-> Outside]

LedgerNext == \E p \in Pallets, there \in Cells \cup Cranes \cup Retrievers \cup {Outside} :
  Way(where[p], there) /\ where' = [where EXCEPT ![p] = there]

LedgerSpec == LedgerInit /\ [][LedgerNext]_where
================================================================================
