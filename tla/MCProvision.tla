---------------------------- MODULE MCProvision ----------------------------
(* Every constructor, with shapes like those of the tests, and their vaults;
   or a compose file is made, which no chain has to do with. *)
EXTENDS Provision, Compose
MCShapes == {<<2, 0>>, <<2, 1>>, <<3, 0>>}
MCInit == Init /\ ComposeInit
MCNext == \/ Next /\ stage = "none" /\ UNCHANGED composeVars
          \/ ComposeNext /\ vcall = "none" /\ ccall = "none" /\ UNCHANGED vars
MCSpec == MCInit /\ [][MCNext]_<<vars, composeVars>> /\ VaultFairness
=============================================================================
