--------------------------- MODULE MCPalletTransfer ---------------------------
(***************************************************************************)
(* Instance of PalletTransfer for TLC: two retrievals on the one crane of   *)
(* an aisle of two bays, and a destination in the next aisle.               *)
(***************************************************************************)
EXTENDS PalletTransfer, TLC

Loc(aisle, bay, level, depth) ==
  [aisle |-> aisle, bay |-> bay, level |-> level, depth |-> depth]

MCLocations == { CraneHome(1), Loc(1, 2, 1, 0), Loc(1, 2, 1, 1), Loc(2, 1, 1, 0) }
MCMaxMM == [a \in Axes |-> 2]
MCAisleOf == [k \in Cranes |-> 1]
Symmetry == Permutations(Retrievers) \cup Permutations(Pallets)
================================================================================
