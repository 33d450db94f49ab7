---------------------------- MODULE NodeOptions ----------------------------
(***************************************************************************)
(* The options of a node (container/options.go) and NewEthereum, which     *)
(* applies them in the order given.  An option sets a field of the node,   *)
(* appends to its command line, or both.  Some also set a variable of the  *)
(* flag library, utils, which all nodes of the process share, and which    *)
(* other options and Init read when it is their turn.                      *)
(***************************************************************************)
EXTENDS Sequences, SequencesExt

CONSTANT Unset  \* a field nobody has set

Fields == {"imageRepository", "imageTag", "dockerNetworkName", "hostName", "dataDir",
           "ip", "port", "rpcPort", "wsPort", "logging", "isSmilo", "dockerEnv",
           "dockerBinds", "key", "accounts", "password"}

\* Flags that are only appended, with their argument or without one.
Flags == {"etherbase", "identity", "ipcdisable", "keystore", "networkid", "mine", "nat",
          "nodekey", "nodekeyhex", "nodiscover", "rpc", "rpcaddr", "rpcapi",
          "rpccorsdomain", "ws", "wsaddr", "wsapi", "wsorigins", "verbosity",
          "faultymode", "syncmode", "nousb", "testnet", "unlock"}

\* Flags whose option writes the variable of the flag library, too.
Shared == {"datadir", "port", "rpcport", "wsport"}

Field(name, value) == [kind |-> "field", name |-> name, value |-> value]
Flag(name, value) == [kind |-> "flag", name |-> name, value |-> value]
Switch(name) == Flag(name, "on")  \* a flag without an argument
SharedFlag(name, value) == [kind |-> "shared", name |-> name, value |-> value]
Password(file) == [kind |-> "password", name |-> "password", value |-> file]

DataDir(dir) == SharedFlag("datadir", dir)

SetField(s, name, value) == [s EXCEPT !.eth[name] = value]
AppendFlag(s, name, value) == [s EXCEPT !.flags = Append(@, <<name, value>>)]
SetShared(s, name, value) == [s EXCEPT !.utils[name] = value]

\* One option applied to s, the node so far and the flag library.  The path
\* of the password file is made of the data directory set last.
Apply(s, o) ==
  CASE o.kind = "field" -> SetField(s, o.name, o.value)
    [] o.kind = "flag" -> AppendFlag(s, o.name, o.value)
    [] o.kind = "shared" -> AppendFlag(SetShared(s, o.name, o.value), o.name, o.value)
    [] o.kind = "password" ->
         AppendFlag(SetField(s, "password", o.value),
                    "password", <<s.utils["datadir"], o.value>>)

NewEthereum(opts, utils) ==
  FoldLeft(Apply, [eth |-> [f \in Fields |-> Unset], flags |-> <<>>, utils |-> utils], opts)

\* The values of the flag library before any option.
DefaultUtils == [name \in Shared |-> "default"]

Arguments(s, name) == {s.flags[i][2] : i \in {j \in DOMAIN s.flags : s.flags[j][1] = name}}

-----------------------------------------------------------------------------
(* The options of the constructors (container/blockchain.go)               *)

Network == Field("dockerNetworkName", "network")
ImageOpts(tag) == <<Field("imageRepository", "go-smilo"), Field("imageTag", tag)>>

\* What the four constructors have in common, from the data directory to the
\* password file.
PasswordFirst ==  \* mutant: the password comes before the data directory
  <<Password("password.txt"), DataDir("/data"), Switch("mine"), Flag("unlock", "0")>>
CommonOpts ==
  <<DataDir("/data"),
    Switch("ws"), Flag("wsaddr", "0.0.0.0"), Flag("wsapi", "all"), Flag("wsorigins", "*"),
    Switch("rpc"), Flag("rpcaddr", "0.0.0.0"), Flag("rpcapi", "all"),
    Flag("rpccorsdomain", "*"), Flag("nat", "any"), Switch("nodiscover"),
    Flag("etherbase", "1a9a"), Switch("mine"), Flag("syncmode", "full"),
    Flag("unlock", "0"), Password("password.txt")>>

IsSmiloOpt == <<Field("isSmilo", TRUE)>>

\* The field opts of a chain.  Chains with faulty nodes set it once for their
\* normal nodes and once for the faulty ones.
ChainOpts(kind, opts) ==
  LET smilo == IF kind = "SmiloWithFaulty" THEN IsSmiloOpt ELSE <<>> IN
  CASE kind = "New" ->
         ImageOpts("latest") \o CommonOpts \o IsSmiloOpt \o <<Network>>
    [] kind = "NewSmilo" ->
         ImageOpts("latest") \o CommonOpts \o IsSmiloOpt \o IsSmiloOpt
           \o <<Switch("nousb"), Network>>
    [] OTHER ->
         <<Network>> \o CommonOpts \o smilo
           \o IF opts = "normal" THEN ImageOpts("latest")
              ELSE ImageOpts("regression_test") \o <<Flag("faultymode", "1")>>

\* What the tests give to CreateNodes.
ExternalOpts == ImageOpts("latest") \o
  <<DataDir("/data"), Switch("ws"), Flag("wsaddr", "0.0.0.0"), Flag("wsapi", "some"),
    Flag("wsorigins", "*"), Flag("nat", "any")>>

=============================================================================
