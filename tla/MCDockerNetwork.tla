-------------------------- MODULE MCDockerNetwork --------------------------
(***************************************************************************)
(* Instances of DockerNetwork: two goroutines of one process and one of    *)
(* another, or the first two alone.  Bytes have three values, so a subnet  *)
(* has nine addresses and is used up by two calls.                         *)
(***************************************************************************)
EXTENDS DockerNetwork, TLC

CONSTANTS p1, p2, c1, c2, c3

MCProcs == {p1, p2}
MCCallers == {c1, c2, c3}
MCProcOf == c1 :> p1 @@ c2 :> p1 @@ c3 :> p2

OneProcs == {p1}
OneCallers == {c1, c2}
OneProcOf == c1 :> p1 @@ c2 :> p1
=============================================================================
