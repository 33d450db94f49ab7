--------------------------- MODULE MCNodeWaiters ---------------------------
(* Two nodes, or two accounts, and every call that waits. *)
EXTENDS NodeWaiters
CONSTANTS n1, n2
MCPollers == {n1, n2}
=============================================================================
