---------------------------- MODULE MCBlockchain ----------------------------
(* A chain of four fullnodes, of which one failure is tolerated. *)
EXTENDS Blockchain
=============================================================================
