# Specifications of the go-smilo regression harness

The harness (`src/`) starts private go-smilo chains in Docker containers, grows
and shrinks them while they run, breaks them, and watches whether they keep
producing blocks. It is a client of three things that fail on their own: the
Docker daemon, the containers, and the chain. This directory holds TLA+ models
of the harness, the TLC runs that check them and the TLAPS proofs about them.

    tlc -config MCDockerNetwork.cfg MCDockerNetwork     # one run
    tlapm DockerNetworkProofs.tla                        # the proofs, module by module

## 1. Inventory

| component | code | state | operations |
|---|---|---|---|
| Docker network, address allocator | `src/container/network.go` | `networkManager.secondOctet`, per network `ipv4Net`, `ipIndex`, a mutex each | `NewDockerNetwork`, `TryGetFreeSubnet`, `GetFreeIPAddrs`, `Remove` |
| Consensus monitoring | `EnsureConsensusWorking` in `blockchain.go`, `ConsensusMonitor` in `ethereum.go` | two buffered channels, the caller's timer, a timer and a block number per monitor | one call, one goroutine per node |
| Blockchain orchestrator | `src/container/blockchain.go` | `fullnodes`, accounts, genesis file | `NewBlockchain`, `Start`, `AddFullnodes`, `RemoveFullnodes`, `Stop`, `CreateNodes` |
| Node container | `src/container/ethereum.go`, `container.go` | `containerID`, `ok`, `node` | `Init`, `Start`, `Stop`, `AddPeer`, `NewClient`, mining on and off |
| Waiters of a node | `WaitFor...` in `ethereum.go`, `GetSpeaker`, `WaitFor` in `utils.go` | tickers and timers of one call | polling until a condition holds or a time is over |
| Vault container | `src/container/vault.go` | `containerID`, working directory | `GenerateKey`, `Start`, `Stop` |
| Vault network, Smilo and faulty chains | `blockchain.go` | `vaults` | `NewVaultNetwork`, `NewSmiloBlockchain`, the `...WithFaulty` constructors |
| Options of nodes | `src/container/options.go` | the node being built, and four variables of the flag library that all nodes of the process share | one function per option, applied in order by `NewEthereum` |
| Compose files | `src/docker/compose/sport.go`, `smilo.go` | the file being built: services, the list of static nodes | `New`, `String` |
| Genesis, RPC client, helpers | `genesis/`, `client/`, `common/` | none that lives longer than a call | record building, one RPC per method, keys and directories |

How they interact. A test creates a `DockerNetwork`, then a `Blockchain` on it,
which takes addresses from the network and calls `Init` of every node. `Start`
calls the nodes' `Start` one after the other and connects them. For a Smilo
chain the test first makes and starts a `VaultNetwork`, whose vaults the
constructor mounts into the nodes. `AddFullnodes`
and `RemoveFullnodes` let the running nodes vote through their RPC interface:
the harness asks for votes, the *chain* changes its validator set some blocks
later, and the harness learns of it only by waiting. `EnsureConsensusWorking`
starts one goroutine per node and talks to them over channels. Networks and the
network manager are shared by goroutines; the Docker daemon is shared by all
processes (`go test` runs every package in its own).

What is hard: the interleaving of goroutines in the allocator and the monitors;
`select` with several ready cases and timers that have fired already; calls
that fail after they have had their effect; operations that end half way; the
delay between a vote and its count; quorums that change while members come and
go; waits without an end. `PROJECT.json` lists each such place under `hazards`.

What makes each component correct:

* network: no address twice, none of the reserved ones, no shared subnet, every call returns;
* monitoring: the verdict is the first error, nil only for live nodes, nobody blocks, no goroutine stays behind after nil;
* orchestrator: what a success promises holds (mesh, members, consensus), and no container is lost;
* node: a nil `Init` leaves a genesis block, a nil `Start` a node that answers, `Stop` survives a failing daemon call;
* waiters: a result says something true of the node's blocks, peers or balance, the caller gets the first error and nil only when no result was lost, calls with a time limit end;
* vaults: a vault has its keys and keeps the directory they are in while it may run, a nil `Stop` leaves none;
* provisioning: genesis, nodes and vaults agree, no two nodes share what identifies them, and nothing panics unless something outside failed;
* compose files: addresses and ports do not collide, and each service knows the others.

## 2. Modules

| module | models |
|---|---|
| `DockerNetwork` | the network code, for any number of processes and goroutines |
| `DockerNetworkProofs` | theorems about it |
| `EnsureConsensus` | abstract: what `EnsureConsensusWorking` promises |
| `ConsensusMonitor` | `EnsureConsensusWorking` and all its monitors; implements `EnsureConsensus` |
| `Blockchain` | the orchestrator with its nodes and the chain's votes |
| `EthereumNode` | `Init`, `Start` and `Stop` of one node, call by call of the Docker daemon |
| `EthereumNodeProofs` | theorems about it |
| `NodeWaiters` | all calls that wait for a node, with `WaitFor` of the tests; implements `EnsureConsensus`, too |
| `VaultNetwork` | the vaults of a Smilo chain and the generation of their keys |
| `NodeOptions` | the options of a node, and the lists of them the constructors use |
| `Provision` | how a chain gets its nodes: constructors, `AddFullnodes`, `CreateNodes`; extends the two above |
| `Compose` | the compose files |
| `ConsensusMonitorProofs`, `NodeWaitersProofs`, `ProvisionProofs`, `ComposeProofs` | theorems about them |
| `BlockchainProofs` | theorems about the orchestrator that hold with failures, too |
| `BlockchainChainProofs` | theorems about the chain as long as nothing fails; extends the former |
| `MC...` | instances for TLC |

An operator whose comment begins with `mutant:` stands before the operator it is
a broken version of. It is used by no specification; putting it in the place of
the right one makes one of the properties fail, which shows that the property
watches that line.

### DockerNetwork

One action per step between two accesses of shared state: taking the manager's
mutex, `secondOctet++`, the `Sprintf` that reads it again, `NetworkCreate` with
its three outcomes (created; refused; created and the answer lost, so that the
subnet is in use and nobody has its ID), the loop of `create` with at most 15
tries, and in `GetFreeIPAddrs` the lock, the loop condition, `dupIP`, the store
and the return with the deferred unlock. Addresses are four bytes with `Base`
values each, added to byte by byte with the carry of the code. `given` is
history: all addresses returned.

`create` calls `TryGetFreeSubnet` again after a refusal, and so never proposes an
octet twice; `Remove` frees the octet at the daemon but `secondOctet` does not go
back. The loop of `GetFreeIPAddrs` asks `Contains` of the address given out *last*.
So a request may return one address past the subnet (`GivenInSubnet`, violated);
it is the network address of the next octet, which nobody else gives out, so
`NoAddressTwice` still holds.

### ConsensusMonitor

The Go channel rules are modelled as they are. A `select` that finds several
ready cases takes any of them. One that finds none parks (`Park`), and from then
on the first event is handed over directly: `Send` to a parked caller, `SendQuit`,
`Fire`, `NewHead` and `Disconnect` to a parked monitor. Timers fire into a channel
of one place; `Reset` does not empty it (Go before 1.23). A panic (`Dial` with a
node that does not answer: `NewClient` returns nil and is used) ends the process.

Time is counted in ticks. `Tick` needs everybody to wait and no timer to be due:
what can run runs within the tick. Dialling and subscribing are network calls and
may take any time. `idle` and `reports` are history. The body that follows `quit`
or an error resets a monitor's locals, so that finished monitors look alike.

`VerdictIsFirstError` is the refinement: `Promise == INSTANCE EnsureConsensus` with
`reports` and `verdict` mapped to themselves, `Promise!Spec` checked as a property.

### Blockchain

An operation is the sequence of calls its loops will make, `todo`: `start`,
`propose`, `keep`, `connect`, `wait`, `assign`, `stop`. The step of a call either
drops it and goes on, or ends the operation with an error or a panic. Nested loops
are sequences of pairs in the order of the code. `RemoveFullnodes` builds its local
`newFullnodes` node by node, after the node's votes (`keep` compares the container
IDs), and assigns it to `bc.fullnodes` between the wait and the stops, as the code
does: an operation that fails before leaves the list alone. Its wait is a fixed time
that looks at nothing, so `Wait` has no guard but its turn: it may end before any vote
is counted, and votes may be counted long after it, when the nodes have been stopped.

The chain is external and modelled by what the harness relies on: a validator is
voted in or out when more than half of the current validators that run have
asked for it; votes are counted only while the chain is alive, that is while
2F+1 validators run and are connected. Containers may crash at any time.

The environment is what the tests do. `Start` once. `AddFullnodes` and
`RemoveFullnodes` after a success, and only when there are as many validators as
fullnodes: the tests compare the two numbers before they go on (`Usable`). `Stop`
after anything, also after an error or a panic (Ginkgo recovers it and runs
`AfterEach`). The removed nodes are a slice of `Fullnodes()`.

### EthereumNode

Every call of the daemon is a step that succeeds or fails; between two steps
`geth init` ends, or the node begins to answer or dies. A container that was never
started counts as not running with status 0, as the daemon reports it.
`ContainerWait` returns two channels and `Init` keeps one: when the request fails
or its context expires nothing ever arrives there (`InitWaitFails` leads to
`hung`).
`Stop` goes on to remove the container when stopping it has failed, and removing
is forced. The environment: `Init` at most once and first, no use of a node whose
`Init` failed, `Stop` before the next `Start`, `Stop` as often as one likes (the
tests repeat it until it returns an error).

### NodeWaiters

Every goroutine makes the same call, chosen in `Init`: the five polls of
`ethereum.go`, and `WaitForProposed`, which listens to headers. A poll is two steps,
`TakeTick` and `Poll`, for the node may change while the request is on its way;
the timer may expire in between, and a `select` that finds both ready takes
either. A tick the goroutine has not taken is dropped, as by `time.Ticker`.
`start` and `most` are history: the height, or number of peers, or balance, when the
wait began, and the highest since then. `WaitForBlocks` and `WaitForNoBlocks` compare
with the first number they *poll* (`first`), not with `start`.

The two kinds of caller are different. `WaitForBalances` collects errors from a
channel with a place for every goroutine, ends its loop at the first error, and then
waits for all of them nevertheless: the comment "terminate the others"
(`ethereum.go:667`) is not carried out, and a caller that knows the error may
wait out the duration. The tests' `WaitFor` only joins; a result nobody expects ends
the process (`crashed`). `VerdictIsFirstError` checks that `WaitForBalances` keeps the
same promise as `EnsureConsensusWorking` (`Verdict == INSTANCE EnsureConsensus`). A
balance is truncated to 64 bits before it is compared (`ethereum.go:647`): `Word`.

### VaultNetwork, NodeOptions, Provision

`Next` of `Provision` interleaves the caller with the container that generates
keys, with crashes of vaults, and with failures of the daemon, the disk and the key
generator, `MaxFaults` of them in all.

`VaultNetwork` goes through `GenerateKey` call by call, with a path of its own for
each error; like `Init` of a node it keeps one of the two channels of
`ContainerWait`, and so hangs when the wait fails (`WaitBoxFails`). Killing the
container must *fail* for key generation to count as done. `Start` and `Stop`
take a step per vault. `Stop` removes a vault's directory as soon as the vault has
stopped, and ends at the first failure.

`NodeOptions` is data: an option sets a field, appends a flag, or does both and
writes a variable of the flag library. `NewEthereum` folds them over an empty node.

`Provision` runs the four constructors, `AddFullnodes` and `CreateNodes` with every
error that is passed on and every one that is dropped. Slices have a capacity, so that
`bc.accounts[i]` beyond the length is the zero account, or a panic, as in Go.
`fresh` numbers the keys, addresses and directories; `role` of a node is history.
The environment is the tests': vaults are made and started first, the chain is
constructed once, nothing follows a failed constructor (the clean-up panics on the
nil chain). Calls add up to `Excess` nodes more than the chain began with: one more is
enough to run past the end of its accounts and vaults.

### Compose

One action per iteration of the loops of `sport.go` and `smilo.go`. An address is
its last byte. The list of static nodes has a placeholder for each node, which
`ReplaceFirst` fills in one by one (`strings.Replace` with count 1), and may
contain a host that is elsewhere.

## 3. Runs

| run | instance | shows |
|---|---|---|
| `dockernet` | two goroutines of one process and one of another, one call of `GetFreeIPAddrs` each, bytes of 3 values, requests of 5 | the six properties of the allocator: addresses, subnets, mutexes, and that calls return |
| `dockernet_subnet` | two goroutines of one process, two calls each, requests of 4 and 5 | `GivenInSubnet` is violated: the last address is outside |
| `monitor` | two nodes, call of 4 ticks, first wait 3, later wait 2, stable from block 2, two blocks a tick | the six properties of the monitors |
| `monitor_stale` | the same | `TimeoutMeansSilence` is violated: `Reset` without a drain |
| `blockchain` | 4 nodes, up to 6, down to 1, adding and removing 1 or 2, four operations, one failure | the seven properties of the orchestrator |
| `blockchain_remove` | the same, down to 2 | `RemovalKeepsConsensus` is violated: the wait is over before the votes are counted |
| `blockchain_add` | the same, down to 2 | `AddsAllRequested` is violated: the error is dropped |
| `node` | 2 health checks, six calls, three failures | the five properties of a node |
| `node_init` | the same | `InitReturns` is violated: the wait that times out or fails hangs |
| `node_restart` | the same | `StartMeansServing` is violated: `ok` is never reset |
| `waiters` | each of the six calls by two goroutines, arguments 0 to 2, a time of 2 ticks, heights and balances up to 2, words of 2 values | the five properties of the waiters |
| `smilo` | each constructor with shapes 2+0, 2+1 and 3+0 (normal + faulty), two calls after it of up to one node more than the shape has, any two failures; or a compose file for 1, 2, 4 or 16 nodes | the eleven properties of vaults, provisioning and compose files |

Bounds, and why they are enough. A subnet of nine addresses is used up by two
requests, so both the carry between bytes and exhaustion happen; with byte
values 0 to 2 and `SecondOctet` 0 three creations run out of octets. The proofs
cover every other size. Two monitors give every combination of one that has
ended and one that runs, and three waits in the relation of the code
(call > first wait > later wait, one tick more than the first wait as in the
test that passes 11 s for a wait of 10 s). Four nodes are the smallest chain that
tolerates a failure; growing to six and shrinking to one crosses every value of
the quorum in between, and adding two to one is the addition that does not complete. Two health checks distinguish "the first failed" from
"all failed". Two goroutines show a first and a later error in either order, and word
size 2 makes a balance that truncates to zero. Two normal nodes and a faulty one need
the offset into the accounts; three accounts make the capacity of a slice (four)
differ from its length; two failures reach every pair of error paths.
`CHECK_DEADLOCK FALSE` everywhere: all systems end, when calls are used up or
everybody has returned, and `hung` and a crashed process are ends too.

Fairness. Goroutines that can run do (weak fairness of each goroutine's steps),
and time passes. `SF(TakeQuit)`: `select` draws among ready cases at random, so a
quit that is offered again and again is taken at some time, even when headers keep
coming. Go's mutexes are starvation free; with a bounded number of calls weak
fairness of the lock says as much. In `Blockchain` a chain that is alive counts
votes. In `EthereumNode` `geth init` ends at some time, and so does the process that
generates keys in `VaultNetwork`; that `ContainerWait` gives up (`WaitBoxFails`) is
not counted on. In `NodeWaiters` requests are answered or fail, and
`SF(TakeTimeout)` is the same remark on `select`. Nothing is assumed about
crashes, failures, blocks or connections.

Of the wait of `RemoveFullnodes` nothing is assumed: it ends when it likes. What a
removal promises for consensus depends on it, so `SuccessKeepsConsensus` has the premise
`WaitWasEnough`: when the wait was over, the validators that stay were a quorum. That is a
statement about the outcome, and without it a removal that returns nil can halt the chain
(`blockchain_remove`). `SettledMembership` needs no such premise: nodes that were stopped
too early are voted out afterwards, as long as a majority of the validators runs.
`VotesSuffice` is the other half: a wait that does not end sees all candidates voted out,
because the leaving nodes vote, too.

What came out, beyond the violated properties:

* The ring of `Start(false)` is not closed again by `RemoveFullnodes`. It stays
  connected when one slice of fullnodes is removed, but two removals after each other
  can split it and halt the chain (of six nodes the first and the fourth, say).
  `SuccessKeepsConsensus` therefore speaks of chains started with everybody connected to
  everybody, as those of all tests that remove nodes are.
* `RemoveFullnodes` of half the chain, and with a wait that is too short, is the case of
  `blockchain_remove`: both nodes are stopped while they are validators, and the two left
  can neither make blocks nor count the votes against them. Small removals survive it.
* Added nodes do not vote for each other, so of an addition only as many get in as there
  were before. `SettledMembership` states this limit: everybody is in, or exactly twice as
  many as the old ones.
* An operation called before the votes of the one before are settled can lose a
  member. That is why the environment waits.
* `Stop(false)` ends at the first failure, `RemoveFullnodes` stops with
  `force = false` after it has dropped the nodes: a failure there leaves containers
  no later `Stop` knows. `NoStrayContainer` states the case of success.
* Added nodes take the accounts and the vaults of the first ones again (their index
  starts at 0, without an offset), so `OwnIdentity` speaks of the accounts and vaults
  of a constructor's nodes only, and an `AddFullnodes` of more nodes than the chain
  began with leaves the slices: it makes a node with the zero account, which has no
  keystore, and panics at the next index (`PanicsAreFailures` says that nothing else does).
* The faulty nodes of `NewDefaultSmiloBlockchainWithFaulty` take the first vaults again, although
  its test starts enough of them (`smilo/functional/byzantine_faulty_test.go:47`):
  `OwnIdentity` asks for different vaults only of two normal or two faulty nodes.
* Some ends are accepted by the properties that speak of them: `CallReturns` accepts
  the panic of a monitor as an end, `VaultCallsReturn` the wait that hangs, and
  `InitLeavesGenesis` excludes failures of the daemon, since an `Init` whose container could not
  be started takes it for one that ended well.
* After a constructor with faulty nodes the chain's options stay those of faulty
  nodes; `AddFullnodes` would make faulty nodes. No test does that.
* `GenerateKeys` returns nil and no error when it fails: `NewBlockchain` then returns a
  chain without nodes and nil, and the constructors with faulty nodes panic on a slice.
* If the genesis file cannot be written either, its name stays empty and a later
  `AddFullnodes` makes the genesis. `Finalize` would then remove ".", which the
  operating system refuses.
* `NewVaultNetwork` leaves directories and containers behind when it fails, and returns no
  network that could be finalized.
* The data directory, the ports and the like are written to variables of the flag library
  that all chains of a process share. It goes well because all use the same
  (`FlagsMatchMount`).
* The addresses of nodes and vaults in a compose file collide from 91 nodes on.

## 4. Proofs

Every invariant that a passing run checks is proved. Fairness is never used: the
theorems hold of `Init /\ [][Next]_vars`. The inductive invariants are split into named
parts, one per idea, and hold in the instances of the runs as TLC finds.

`DockerNetworkProofs`, for every number of processes, goroutines, byte values,
tries, request sizes and calls, from the named assumptions of `DockerNetwork`
only:

* `TypeCorrect`: `Spec => []TypeOK`;
* `AddressesDistinct`: `Spec => []NoAddressTwice`;
* `ReservedDistinct`: `Spec => []ReservedNeverGiven`;
* `SubnetsDistinct`: `Spec => []SubnetsNeverShared`;
* `Released`: `Spec => []MutexesReleased`.

None of the last four is inductive. For addresses the invariant `IInv` adds:

* `MutexInv`: who is inside a critical section holds its mutex, so no two are;
* `CreateInv`, `LiveInv`: a live network has a byte as its octet, the daemon has
  it in use, and no other live network has it;
* `IndexInv`: `ipIndex` is in the subnet and past the gateway, or is the one
  address after the subnet, from which the loop does not go on;
* `PassedInv`: every address given or about to be returned was *passed* by
  `ipIndex`: it is not above it in the order of the subnet;
* `FreshInv`: addresses collected by different calls, or at different places of
  one call, differ.

The order of addresses is stated as a comparison of the last two bytes
(`Passed`), without arithmetic on whole addresses. The lemmas `IncAddrNext`,
`PassedNext`, `PassedSelf` and `SpillOutside` say that one increment moves to an
address that nothing passed so far equals, that passes all of them, and that
leaving the subnet happens once. Different networks are told apart by
`LiveInv` and by the second byte.

For subnets `MgrHeld` says that who raises and reads `secondOctet` holds the manager's
mutex, and `OctetInv` that no octet proposed so far is above it, and all are below it
between the increment and the `Sprintf`; so the next proposal is new. `HolderInv` is
the converse of `MutexInv`: a mutex that is taken has a holder at a place from which
it goes on to release it.

`EthereumNodeProofs`, for every number of health checks, calls and failures, from
`BoundsAssumption`:

* `TypeCorrect`: `Spec => []TypeOK`;
* `OneFailure`: `Spec => []OneFailureStillStops`;
* `StraysFail`: `Spec => []StraysAreFailures`;
* `GenesisMade`: `Spec => []InitLeavesGenesis`.

`StopInv` says which call the caller is in at each place, and that on the way to
the removal the process is down unless stopping it has failed; at most one
failure is then left for the removal. `StrayInv` counts: before a `Start` all
containers that exist are paid for by failures, from `Create` to the end of `Stop`
all but the node's own. `Create` overwrites `containerID`, and so may lose only a
container that was counted before; a removal that fails turns the node's own
container into one that is left over, and has raised `faults` by one
(`OneMore`). While `Init` runs its container is the only one, number 1, and has
ended badly only after a failure. `GenesisInv` follows `Init`: its container runs until `geth init`
has ended, well or badly, or was never started because the daemon failed; the status
tells the second from the first, and `failed` is the history of the third.

`ConsensusMonitorProofs`, for every set of monitors, every duration and speed of the chain:

* `TypeCorrect`: `Spec => []TypeOK`;
* `ChannelsSuffice`: `Spec => []NobodyBlocks`;
* `PromiseKept`: `Spec => VerdictIsFirstError`, the refinement of `EnsureConsensus`;
* `NilAlive`: `Spec => []NilMeansAlive`.

`ChanInv` counts: errors in the channel are at most as many as monitors that are done,
and quits sent and still to be sent are at most the capacity. `FirstInv`
relates the channel to the history: until the caller has looked, the channel holds the
reports in their order, and a caller that is parked has been handed none.
`StepKeepsPromise` shows that every step is a step of the abstract specification or
a stutter. `WatchInv` relates the clocks: how long a monitor has been without a block,
plus what is left on its timer, is at most its wait. That is false for a moment when the
stable height is reached and the long timer still runs, so the invariant says when: a
header that has not been handled has just come, and handling it makes the timer short.

`NodeWaitersProofs`, for every number of goroutines, any arguments, durations and bounds:

* `TypeCorrect`: `Spec => []TypeOK`;
* `ResultsTrue`: `Spec => []ResultMeansReached`;
* `AllFunded`: `Spec => []NilMeansAllFunded`;
* `FirstErrorReturned`: `Spec => VerdictIsFirstError`.

`PlaceInv` says which places belong to which call and caller; `BaseInv` that the number a
goroutine compares with is not below the height at which its wait began, that neither is the
height now, and that `most` is not below what is there now; `TimerInv` that only calls with a
limit time out. `CountInv` is the heart of the refinement and of `AllFunded`: values received
plus values in the channel are as many as goroutines that have ended, so a caller that has
received all of them has missed none.

`BlockchainProofs`, for every number of nodes, operations and failures, all sizes of
additions and removals, rings and meshes, from `SizesAssumption`:

* `TypeCorrect`: `Spec => []TypeOK`;
* `NoStray`: `Spec => []NoStrayContainer`;
* `MeshComplete`: `Spec => []MeshAfterSuccess`;
* `ForcedStopComplete`: `Spec => []ForcedStopReachesAll`.

An operation is a sequence of calls, so each invariant speaks of the calls still due, as
a set (`Due`). The lemmas on sequences say what the nested loops are as sets
(`ProposeCallsAre`, `MeshCallsAre`, `RemovalCallsAre`: division by the length of the inner
loop, `PairExists`) and that the kinds of calls come in order (`Increasing`); so the call made
is one that was due, and nothing of an earlier kind is left (`NextCall`). `Shape` is the type
invariant with that order (`Ordered`) and with the fact that only created nodes are in lists
and votes (`Created`), which additions that fail half way must not break.
`NoStrayContainer` alone is not inductive: a removed node has its container until its stop,
and is still on the list before the assignment. `Homes` says which, place by place: a
container of no fullnode is about to be stopped, and `newFullnodes` is what the loop has found
to stay so far. `MeshMade` and `Meshed`: every pair is connected or about to be. `StopInv`
counts the containers that a forced stop has passed by (`PassedBy`), each for one failure.

`BlockchainChainProofs`, as long as nothing has failed, from `SizesAssumption` and nothing
else, whenever the waits end:

* `ConsensusKept`: `Spec => SuccessKeepsConsensus`;
* `MembershipSettles`: `Spec => []SettledMembership`.

`Healthy`: the fullnodes run, validators are fullnodes or nodes on their way out, everybody
is against the latter or about to be, and nobody is for a node that is no fullnode. `Voting`
adds who is for whom: the fullnodes that stay are validators and nobody is against them,
the old nodes are for the new ones or about to be, the new ones for nobody; so one gets in
only as long as the validators are fewer than twice the old ones (`RoomForOne`). The two are
inductive together (`SoundNext`), because an operation is called only when the numbers of
validators and fullnodes agree, and then the sets do (`UsableRest`).

For consensus `MeshKept` says that a chain not started as a ring is a mesh after every
operation, and `StillQuorum` that the quorum found at the end of a wait stays: votes counted
later take only leaving nodes out, and one validator less needs no larger quorum
(`QuorumTally`). Then the fullnodes that are validators are a quorum that no cut separates
(`EverybodyAlive`). For the members, when no vote is left to count: a candidate that is not in
has the votes of all old nodes, so the validators are twice as many (`SettledAfterAdd`); a
leaving node that is still in has the votes of all that run against it, so those are no
majority (`SettledAfterRemoval`).

`ProvisionProofs`, for all kinds and shapes of a chain, any number of calls and failures, from
the assumptions of `Provision` and `VaultNetwork`:

* `ProvisionTypeCorrect`: `Spec => []TypeOK`;
* `KeysKept`: `Spec => []VaultsKeepKeys`;
* `StopMeansGone`: `Spec => []StopNilMeansGone`;
* `GenesisShared`: `Spec => []OneGenesis`;
* `GenesisIsOfTheNodes`: `Spec => []GenesisKnowsNodes`;
* `NothingShared`: `Spec => []OwnIdentity`;
* `OnlyFailuresPanic`: `Spec => []PanicsAreFailures`;
* `MountIsFlag`: `Spec => []FlagsMatchMount`.

`VaultInv` has a part for the caller's place (`PhaseInv`), for the container that
generates keys (`BoxInv`: when it has been seen to end well the keys exist), and for
the directories (`DirsInv`: a stop has dealt with every vault before its index).
`GenesisInv`: a chain with nodes has a genesis file, so that no call makes another. The
other theorems rest on layers, each inductive relative to those before it:

* `SizeInv`, `CallInv`: a Smilo chain has as many vaults as nodes to make, and at each place of
  a call addresses and keys are as many as it counts; the second part of a constructor goes on
  where the first has ended (`Position`);
* `TakenInv`: accounts, addresses and keys were numbered one after the other, so they differ;
* `PartsInv`: fullnodes come before what `CreateNodes` has made, with their roles;
* `DataInv`: the flag library has one data directory, which each node mounts and names in its
  flags, and one comes before any password file (`DirFirst`);
* `FaultlessInv`: without a failure there are accounts and keys for everybody, so no index is
  out of range (`CapacitySuffices`: the capacity of a slice is at least its length);
* `ApartInv`, `PlaceInv`: nodes are apart from each other *and* from what the next ones are going
  to get, and those of the constructor have the account, key and vault of their place;
* `FileInv`, `KnownInv`: the genesis is made from all accounts and keys before there are nodes.

What an option list makes of a node is a fold. `OptionByOption` unfolds it into the nodes after
each option, and the lemmas after it follow a field or a flag through them: the last option that
sets a field decides (`General` and `Own` say which options come before and which are a node's
own). Induction over the naturals is `Induction`, the least element of a set (`WFMin`).

`ComposeProofs`, from `SizesAssumption` (at most 90 nodes):

* `Distinct`: `ComposeSpec => []NothingCollides`, by `ComposeInv`, which gives the address and
  ports of each service by its place;
* `CollideFrom91`: with 91 nodes or more the collision is certain, so the assumption is as weak
  as it can be;
* `FinishedFileConnects`: `ComposeSpec => []ServicesKnowEachOther`. `ListInv` says what the list
  of static nodes is while it is filled in, the host elsewhere after any place
  (`NextPlaceholder`: the first placeholder is the one of the next node, before or behind that
  host); `KnowInv` what each vault knows of the others (`HostsBut`).

Only model-checked: what needs fairness, `VotesSuffice`, `CallReturns`, `CallsReturn`,
`VaultCallsReturn` and `NilLeavesNoMonitor`; and the properties that are violated, which need
one behaviour each. Recursion is by functions and folds everywhere, and what is proved about
them is stated by their unfolding; a theorem about every data structure, whose induction would
need an operator as parameter, is out of the provers' reach.

## 5. Not modelled

* Wording, images, logs and the contents of keystores and configuration files: assigned or
  passed on. Names of networks: two created within one second have the same name,
  which the daemon allows. The JSON of the genesis, the text of templates.
* `src/contract/simple_storage.go` (generated), `src/client/ethclient.go` (delegates each
  method to go-ethereum), the loggers, `genesis/gen_smilo_genesis.go` (generated) and `src/table_entry.go`.
* `AddFullnodes` from two goroutines at once (`TODO: need a lock`): nobody in the
  repository does it, and the outcome depends on the memory model.
* Paths inside a vault: its configuration is written to a directory other than the one
  the flag names, and `PublicKeys` reads a third; whether the vault finds them is decided in
  its image, which is not part of the repository. The keystore's temporary directory
  is never removed.
* `IsSmilo` of a node: it is set and never read.

## 6. Plan

Done: sections 2 to 4. Next, in this order:

1. Composition: `Blockchain` with `EthereumNode` in the place of its one-step
   `StartNode` and `StopNode`, by an abstract contract of a node that both are shown
   to meet.
2. Proofs: the steps of that refinement. `NilLeavesNoMonitor` has a safety part, that
   quits are offered to as many monitors as are left, which could be a theorem of its own.
3. `RemoveFullnodes` after votes that are not settled, as a run of its own.
