--------------------------- MODULE MCExplorerApp ----------------------------
(***************************************************************************)
(* An instance of ExplorerApp for TLC: the explorer is opened on a file    *)
(* alone, on a file with a registry, or on a registry that it scans.       *)
(***************************************************************************)
EXTENDS ExplorerApp

Openings ==
  {[client |-> FALSE, liveStats |-> FALSE, includeLocked |-> FALSE],
   [client |-> TRUE,  liveStats |-> FALSE, includeLocked |-> TRUE],
   [client |-> TRUE,  liveStats |-> TRUE,  includeLocked |-> TRUE]}
=============================================================================
