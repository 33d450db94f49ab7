--------------------------- MODULE MCEthereumNode ---------------------------
(* A node that is initialised, started, stopped and started again. *)
EXTENDS EthereumNode
=============================================================================
