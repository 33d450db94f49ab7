------------------------- MODULE MCConsensusMonitor -------------------------
(* EnsureConsensusWorking on two nodes. *)
EXTENDS ConsensusMonitor
CONSTANTS g1, g2
MCMonitors == {g1, g2}
=============================================================================
