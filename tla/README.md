# Nodevin in TLA+

Nodevin is a command line program that runs blockchain nodes in Docker. It has
no server: every command is a process of its own that reads and changes the
Docker daemon and one data directory, and ends. What makes it hard is that all
these processes share that state without a lock, that they act on it through
external programs which can fail part of the way, and that what a container is
called, where its data is and which compose file manages it follow rules written
down in several places. The modules here model that core: which container a
command means, what `start`, `stop`, `delete` and `update` do to it, when data
goes, and how an Arbitrum node gets its first data from a snapshot.

## The system

| part | state | operations | what makes it correct | modelled |
|---|---|---|---|---|
| network registry (`internal/utils/utils.go`) | a constant table | look-ups | names and stacks are consistent | `Registry`, `NodevinRegistry` |
| container discovery (`internal/utils/resolve.go`) | none; reads `docker ps` and the data directory | `ResolveContainerName`, `ExplicitContainerName`, `FindComposeFileForContainer` | the functions agree with each other, with what runs and with what `start` calls a container | `Resolve`, `Discovery` |
| `start` (`pkg/nodes/start_node.go`, `pkg/nodes/<network>`) | compose files, data directories, containers | L1 check, pull, secret, conflict check, compose file, `compose up`, clean-up | no second Ethereum stack, no node replaced, success means what was asked for runs | `NodeLifecycle` |
| `stop` (`pkg/nodes/stop_node.go`) | containers | `stop <network>`, `stop all` | "stopped" is true | `NodeLifecycle` |
| `delete` (`pkg/nodes/delete.go`) | data directories, compose files | `delete <network>`, `delete all` | the data of a running node stays | `NodeLifecycle` |
| compose files (`pkg/docker/compose/compose.go`) | a file per node | `CreateComposeFile`, `createExtraServices` | the file has the services asked for, all watched | `NodeLifecycle` |
| compose builders (`pkg/docker/compose/*_config.go`) | constant per network | host ports, volumes, service keys | networks do not clash on one host | `NodevinStacks` |
| Docker and Compose | containers by service | `ps`, `up`, `down`, `stop`, `rm` | external | as `NodeLifecycle` uses them |
| image updates (`pkg/update/docker_update.go`) | containers, local images | `update docker`: list, compare, down, pull, up | every node that was taken down is there again | `NodeLifecycle` |
| Base secret, L1 check (`base_config.go`, `l1_dependency.go`) | a secret per chain | read or make; look at what runs | both clients hold the secret on disk | `NodeLifecycle` |
| init containers (`data_init_configs.go`) | containers that run once before a service | clean-up after a start | a start of another terminal ends nevertheless | `NodeLifecycle` |
| data directories, seen from outside | directories, and which are in use | prepare, open, close, remove | data in use is never removed | `DataStore` (abstract) |
| Arbitrum snapshot (`pkg/nodes/arbitrum`, `arbitrum_snapshot.go`) | archive, extracted files, database | check, download, extract, start | only what fits is begun, no database is undone, an attempt that got nothing is not taken for one | `ArbitrumSnapshot` |
| configuration, `init`, self update, `info`, `logs`, `shell`, `request`, `cleanup` | - | - | - | not modelled (see below) |

Interactions: commands never call each other except that `delete` calls `stop`
(and ignores its error), `delete all` calls `stop all`. `update` makes the same
Compose calls as `stop` and `start`, on files it looks up itself. They meet in Docker and
on disk: a compose file written by `start` is what `stop` takes down; what
`docker ps` shows is what `start`, `stop` and `delete` decide by. All generated
compose files lie in the same directory, whose name is the name of the Compose
project, so Compose takes them for one project: a container is identified by its
service key, whichever file brought it up, and the service `watchtower` of every
file is one container.

## Modules

* `Registry` - the table as constants (`Networks`, `ContainerName`,
  `Alternates`, `PartOf`, `TestnetOf`; `TestnetNames`, the names that end in `-testnet`, and
  `Appended`, each name with the suffix after it, once more if it is there) with the
  assumptions the rest needs, and the look-ups of `resolve.go`.
* `Resolve` - how `start` names a container (`Registered`, `StartNode`), and the resolution
  functions as pure operators of the flags, the answer of `docker ps` and the names with a
  footprint on disk.
* `Discovery` - an environment that changes what runs, what is on disk, whether
  Docker answers and the flags of the next command, one at a time, so that every
  combination is reached; its invariants are about the results of `Resolve`.
* `NodevinRegistry`, `NodevinStacks` - the values: the real table, and for every
  builder the host ports and foreign data directories of its service, the extras
  `start` can add and how their service key, restart policy and mounts differ.
* `NodeLifecycle` - the commands. EXTENDS `Resolve`.
* `DataStore` - an abstract specification: what the program promises about data
  directories, with no word of containers and commands. `NodeLifecycle` instantiates
  it as `Store` with `data <- dirs` and `used <-` the directories of the running
  containers; `DataIsKept` says that the commands implement it.
* `ArbitrumSnapshot` - `start arbitrum --snapshot`, one start after another.
* `NodeLifecycle_proofs`, `DataIsKept_proofs`, `SecretIsKept_proofs` (each EXTENDS the
  one before) and `NodeLifecycle_proofs`, `StopTruth_proofs`, `EthereumStack_proofs`,
  `Fleet_proofs` (likewise), `ArbitrumSnapshot_proofs`, `Discovery_proofs` - the theorems.
* `MCDiscovery`, `MCEthereum`, `MCBitcoin`, `MCFleet`, `MCSnapshot` - instances for
  TLC. The first four take the table's values from `NodevinRegistry` and
  `NodevinStacks`, cut down to the networks the run is about (`MCDiscovery` and
  `MCFleet`: all of them).

`NodeLifecycle` keeps, of the world, the compose files (`files`), the data
directories (`dirs`), and per service the definition its container was made from
(`def`) and its `status`; the secrets on disk (`jwt`), the images of which Docker Hub
has a newer version than the host (`outdated`) and the containers that are older than
their local image (`old`); of each process the call it makes next (`pc`), its
command (`cmd`), the container `stop` resolved (`node`) and the containers a
Docker call names (`ids`). `stale` holds which of these have been removed or
replaced since, and `upSince` what other commands started since the process last
looked; `upSince` guards nothing, the properties use it. `secret` is the secret a start
has read or made, `todo` and `image` what an update has yet to look at and what it is
at. There is one action per
call that can be overtaken or fail:

| code | actions |
|---|---|
| `startNode` | `Pull`, `Create`, `Mint`, `WritePlain`, `PullExtra`, `Write`, `UpCreate`, `UpStart`, `UpReturns`, `Cleanup` |
| `stopNode` | `StopResolve`, `StopPs`, `StopDown` |
| `stopAllNodes` | `StopAllList`, `StopAllStop`, `StopAllRemove` |
| `delete` | `DeleteTarget`, then the actions of `stop`, then `Guard`, `Remove` |
| `CheckAndUpdateDockerImages` | `UpdateList`, `UpdateNext`, then `StopDown`, `UpdatePull`, `UpCreate`, `UpStart`, `UpReturns`, for each container |
| the world | `Begin` (a user gives a command), `Kill`, `ContainerExits`, `Publish` |

`Pull` and `Create` both look for the L1 a layer-2 node attaches to, as the code does.
`Create` moreover makes the conflict check of `ethereum.go` and reads the secret of
Base; where there is none, or the read fails, `Mint` makes one that has never been seen
before and overwrites the file. `WritePlain` is the first of the two writes of the Bitcoin,
Litecoin and IPFS builders. `UpCreate` and `UpStart` are Compose's two halves of
`up`: containers are made from the file (replacing one whose definition changed,
failing on a name that is taken) and are known to this `up` by their new ids, then started
one at a time as their ports allow and, for services with an init container (`Seeded`), once that is through.
`Cleanup` removes the init containers of every stack: an `up` of another terminal that
waits for one cannot start its service any more. An update passes over containers that
Docker shows under a bare image id (`old`). `compose down` stops, then removes, either part of the way. `compose ps
-q` answers as version 1 or version 2 does (`ComposeV2`).

In `ArbitrumSnapshot` a volume is its free space in units (`free`), two to a snapshot
in the instance, at first up to the bound `MaxFree`: every step that writes takes from it,
and what is removed is given back (`Freeing`); `Begin`, `Check`, `Resolve`, `RunInit` and `Compose` are
`EnsureSnapshotInitialised` and the start around it, `Download`, `Extract` and
`InitEnds` what Nitro does in its container, `InitFails` any failure or interruption
of it, `Delete` a `delete arbitrum` between two starts.

Definitions whose comment starts with "Mutant:" are plausible mistakes in the
code; each is known to break a property of a run, which shows that the property
is about the code and that the run reaches the case.

### Data that is abstracted

A container's definition is a record: service key, container name, data
directory, mounted directories, watch list, whether Docker restarts it, its secret and
the L1 it is wired to. Commands, environment, networks and limits are left out. File writes are
atomic, but a failed write of the secret leaves an empty file. A secret is a pair of
the process and the number of the command that made it, so that no two are equal. The
Docker Hub digest of an image is one bit, older or not. What the snapshot archive's parts
are and how Nitro verifies them is left out; the database's directory, which is all that the
program looks for, may appear with any part of the extraction and is whole with the last;
other programs' space does not change during a run, and Ctrl-C also
stops the init container. TCP and UDP ports are not told apart (no builder uses a number in one
that another uses in the other). The machine is an amd64 one, on which `ord` and
`ipfs-cluster` are not skipped. `--container-name` and `--data-dir` are modelled;
the other overrides (`--ports`, `--restart`, `--volumes`, and the extras' own
name flags) are not, nor restarts of the Docker daemon, which bring up again what
has a restart policy. Commands of the model name networks and clients the program
knows: it rejects others before it has done anything.

## What is checked

Faults are a constant set: a process may be killed between two calls (`kill`), a
pull, a write or a Docker call may fail, with part of its work done (`call`),
`docker ps` may fail while containers run (`ps`), an extra's directory may not be
made (`mkdir`), the file of a secret may not be read (`read`). A container may always exit by itself, unless it is one Docker restarts.

| run | instance | shows |
|---|---|---|
| `discovery` | the whole registry; two mainnet clients and one Sepolia client running or not, with or without directory and file; every flag | `delete` stops what it deletes; on either chain `stop` and `delete` arrive at the name that `start` gave, whichever of them puts the suffix; a running client wins over leftovers; a component is managed by the file of the client that runs |
| `ethereum` | 2 execution clients and 1 consensus client on 2 chains, 1 terminal, Base with that Ethereum node as its L1, 3 commands, `kill`, `call` | `OneEthereumStack`, `ConsensusIsPaired`, `SecretIsKept`, `RunningDataStays`, `DataIsKept`, `StopTruth`, `StartTruth` |
| `terminals` | Bitcoin with ord, 2 terminals, 3 commands, `kill`, `call`, `mkdir`, Compose version 1 | `DeleteSafe`, `StopTruth` under every interleaving |
| `commands_end` | the same and `update`, 2 commands, `call`, fairness, Compose version 2 | `CommandsEnd` |
| `fleet` | the whole registry; every start after every other, update after every start and after two starts of Ethereum, Base or Bitcoin, images published, `read` | `StartsComeUp`, `StartReplacesNoNode`, `NodesComeBack`, `SecretsSettle` |
| `snapshot` | 2 chains, a snapshot of 2 units, two volumes with up to 5 units free, starts with and without `--snapshot` and deletes in any number | `CanFinish`, `NeverReinitialised`, `DownloadsAreRepeated` |

Bounds. Three commands are the shortest way to the hazards: one brings a node up,
one is interrupted half-way or leaves something behind, one decides by what it
finds. Two terminals are enough for one command to overtake another between its
look and its act; a third adds no new kind of overtaking, since a process only
ever reads the world and not the other processes. In `fleet` two starts show what
clashes, as ports, keys and names do so pairwise, and the third command is an update: it
follows two starts among those of reth, nethermind, lighthouse, Base and Bitcoin on either
chain (`MCPairs`, `MCSecond`), after at most one container has exited, so that it takes two
stacks, or two containers of one, down and up in turn. Six images are published there, all
of these nodes but Watchtower's; as the third command, an update finds the versions
published before it compares any (`MCBounded`, `MCPublishing`), as the second one also
those published while it works. Two execution clients stand for the five, which share ports,
data layout and code: `ethereum` starts geth and reth, `fleet` reth and nethermind, and the
host of `discovery` has reth, geth and the testnet geth, among flags and commands for all.
Base is there on mainnet only in `ethereum`, attached to nodevin's own Ethereum node: its
secrets are per chain and no code relates the two; an external L1 asks nothing of the
host, and Base starts with one in `fleet`, on both chains. In `snapshot` two units let
a download and an extraction be interrupted half-way, and room for two snapshots and a
unit is room for one attempt, for two, or for just not one, depending on
the rest; the run has no bound on commands.
The two terminals of `MCTerminals` are symmetric; the run with a liveness property
uses no symmetry.

Fairness. `FairSpec` assumes `WF_vars(Step(p))`: a command that is not
interrupted makes its next call, as a sequential program does. Users are not
assumed to give commands nor containers to exit, and nothing is assumed of which
way a call goes. A `compose up` that waits for a container that another command removed
or whose port another took fails; so waiting is never for ever.

Deadlock is not checked for the commands, since the system rests when all
`MaxCommands` commands have ended and nothing runs.

### Where the code does not keep its word

Six runs look for a violation, each of a promise quoted from the repository, and
find it (`findings` in `PROJECT.json`):

* `custom_name`: `start bitcoin --container-name mynode`, then a `delete` whose stop
  fails at a Compose call: the check looks for `bitcoin-core`, finds nothing and the
  data of the running node goes.
* `ps_fails`: `docker ps` fails, `delete` takes that for nothing running.
* `both_chains`: `start bitcoin --ord`, then `start bitcoin --ord --testnet`: both
  ords are the service `ord`, the second replaces the first.
* `watched`: `start bitcoin --testnet` and `start bitcoin`, in either order: the second
  takes the node of the first off Watchtower's list.
* `dropped_extra`: the consensus client's directory cannot be made; `start`
  reports success with an execution client that will never sync.
* `staging_in_data`: with the default staging area both checks of free space look at
  the same volume, each for one snapshot's room, and an init begins that cannot finish.

Because of these, `terminals` and `ethereum` leave `ps` out of their faults and
custom names out of their commands, and `fleet` leaves out the testnet starts with
ord. Two terminals that start two Ethereum stacks at once are not stopped by the
program either (its check and its `up` are apart); `OneEthereumStack` is therefore
checked for one terminal, where what it guards against is commands one after the
other, crashes and failures. For the same reason `DeleteSafe`, with two terminals,
excuses a node that another command started after the deletion had looked.

Two more places are weaker than the comments beside them, and the properties say by how
much. `BaseJWTSecret` takes every failing read of the secret for its absence
(`base_config.go:71`) and puts a new secret over the one that clients run with: where that
can happen (`read`), only `SecretsSettle` holds, that both clients have the new one when the
start is through, and an interrupted start leaves them with different ones. And the check
for a database looks for its directory only (`snapshot.go:73-74`): it tells a failed
download from a finished one, as its comment asks, but not an interrupted extraction that
left the directory there; `DownloadsAreRepeated` says that this is the only case. How
Nitro orders its writes is not in this repository, so neither is whether the case arises.

`SecretIsKept` and `OneEthereumStack` are checked without `update`, which breaks both: a
`delete all` that fails after it removed the secret can leave a compose file that holds
it, and `update` brings up every stack that has a container, running or exited, whatever
else runs by then. `NodesComeBack` is checked without failing calls: a failing pull
leaves the node down, which the code logs and nothing contradicts.

## What is proved

`NodeLifecycle_proofs`, for every registry that meets `RegistryAssumption`, every
set of commands, processes, ports and bounds that meets `LifecycleAssumption`:

* `TypeCorrectOK`: `Spec => []TypeOK`. `TypeInv` adds that what a process is about to
  do fits its command: only a `start` is at the steps of `start`, and a process at
  `ps` or `down` has resolved a node. Without it the file a step writes or reads is
  not known to exist.
* `DeletionSafe`: `Spec => DeleteSafe`, assuming that `docker ps` answers
  (`PsAnswersAlways`) and nobody names containers (`NoCustomNames`). Both
  assumptions are needed: `ps_fails` and `custom_name` are the counterexamples.
* `SerialDeletionSafe`: `Spec => RunningDataStays`, assuming moreover one process.
  Kills and failing calls are allowed.

`DeleteSafe` is not inductive: that the check found no name running says nothing of
directories unless name and directory go together. `DeleteInv` adds that: every
compose file (`FilesTelling`) and every container (`DefsTelling`) has a name that is
registered and is the last part of its data directory; and that a process about to
remove faces no running container with a doomed directory, other than those started
since it looked (`RemoveGuarded`). Each of the three is preserved by every action,
shown action by action; the guard's step uses that what is doomed is guarded under
the same name (`Guarded` and `Doomed` differ for `delete all`), the starting step
that `upSince` grows for every other process. `ControlOf` says of each process, once
for all modules, which steps its command can be at.

`DataIsKept_proofs`, under the assumptions of `SerialDeletionSafe`:

* `RunningNodesHaveData`: `Spec => [](Used \subseteq dirs)`, a running node has its
  data.
* `ImplementsDataStore`: `Spec => DataIsKept`. Each action is mapped to an action of
  `DataStore` or to a stutter: the writes to `Prepare`, `UpStart` to `Open` (Docker makes
  what it mounts, so the directory exists afterwards), whatever stops containers to
  `Close`, `Remove` to `Remove`. The invariant needed on the way (`DataInvariant`) is
  `DeleteInv` with the fact that one process misses nothing (`NothingMissed`): what a
  deletion removes then has no running node at all.

`SecretIsKept_proofs`, assuming moreover that `update` is not among the commands
(`NoUpdates`) and that the secret can be read (`SecretsAreRead`), both needed as said above:

* `SecretStays`: `Spec => []SecretIsKept`. `SecretInv` adds what the process at work
  holds: from the step that read or made the secret to the end of its start it has the
  one on disk (`HasSecret`), and the file it is about to bring up holds that one
  (`AtHand`). A secret is only made where the file has none, when no running
  client can have it; the only command that removes one, `delete all`, gets there after it found
  nothing running.

`StopTruth_proofs`, for any number of processes, both versions of Compose and every fault
but the ones named:

* `NoNodeIsReplaced`: `Spec => StartReplacesNoNode`, assuming `NoCustomNames` and that the
  extras whose service key does not carry the chain are only started without `--testnet`
  (`KeysMatchNames`, of which `both_chains` is the counterexample). The invariant (`Keyed`)
  says that services and containers have the same names, in every compose file
  (`FilesKeyed`) and in Docker (`DefsKeyed`); `UpEffect` says once for all what the first
  half of `compose up` does, whichever part of the way it gets.
* `StopsTellTheTruth`: `Spec => StopTruth`, assuming moreover `PsAnswersAlways`. A stop
  trusts three answers, each with a lemma: `docker ps` with nothing that is the network's
  (`OnDiskNoneRuns`), silence of `compose ps -q`, and success of the calls that stop.
  `Keyed` is needed since the second and third speak of services and the promise is about
  names; besides, a `stop all` has on its list whatever runs but what others started since
  (`Listed`), and each step belongs to certain commands (`Course`).

`EthereumStack_proofs`, for one process:

* `StartsTellTheTruth`: `Spec => StartTruth`, assuming that directories of extras can be
  made (`dropped_extra` is the counterexample), `NoCustomNames` and `KeysMatchNames`:
  Watchtower looks for container names and is told service names. The invariant (`StackMade`) follows one
  start: at `up` its file is the one of its own request, and from then on every service of
  it has a container of that definition; what it needs of the registry is that a stack's
  services have different names. Interrupted commands and failing calls are allowed.
* `OneStack`: `Spec => []OneEthereumStack`, assuming `NoUpdates`, `PsAnswersAlways`,
  `NoCustomNames`, `KeysMatchNames`. The property is not inductive, since nothing in it says
  why a start may add a client. `Checked` does: from the check in `Create` to the end of the
  start, the only Ethereum clients that run are among the two it starts (`Members`), and
  what it is about to start is among those two and Watchtower. That the check sees every
  client there is (`NoConflictsLeft`), that the two are one of each kind and of one chain
  (`EthereumStart`), and that no other start has one (`OtherStart`) follows from the
  registry.
* `ConsensusPaired`: `Spec => []ConsensusIsPaired`, assuming moreover that directories of
  extras can be made; otherwise the second start of two with different execution clients
  can leave its consensus client out of the file, and the one that still runs has the other
  one's data.

`Fleet_proofs`, for one process, `NoCustomNames`, `KeysMatchNames`:

* `EveryStartComesUp`: `Spec => StartsComeUp`, if no Docker call fails by itself and no
  command is interrupted (either ends a start, whatever is free). Names are free by
  `Keyed`, ports by `Checked` and `PortsAssumption`: two services with a port in common are
  Ethereum clients of one kind, and of those only the start's own run.
* `NodesAreBack`: `Spec => []NodesComeBack`, for starts and updates and no fault but `read`.
  While a command runs containers can be missing; `NoneLost` says that these are the ones it
  is about to make (`Wanted`), from the file it took them down by or is about to write.
* `SecretsAreSettled`: `Spec => []SecretsSettle`, under the same conditions, if the starts
  that share a secret are those of one stack (`OneStackPerSecret`, which the commands of
  `fleet` meet). `SettleInv` says that every compose file and every running container has
  the secret on disk, but for the file a start is about to write and the services it has
  been asked for. A new secret only takes from what is in that file and among those
  services, and by `StackMade` and `EveryStartComesUp` the start makes them all anew.

The last two modules also rest on `StackAssumption`, what the registry and the builders put
together: networks share no container, a component is on the chain of its stack, testnet
stacks mirror mainnet ones, Ethereum is the only network with clients to choose between,
and an extra is either a component of the network it is started with or of no stack at all.
TLC evaluates it and `PortsAssumption` on the program's table in every run of the commands.

`ArbitrumSnapshot_proofs`, for any chains, sizes and volumes:

* `TypeCorrect` (`Spec => []TypeOK`): free space, archives and extractions stay in their
  ranges, so no step takes space that is not there.
* `DatabasesStay` (`NeverReinitialised`) and `DownloadsRepeated` (`DownloadsAreRepeated`). The
  invariant (`PhasesHold`) relates the phase of the command to the database: before the
  init there is none from an earlier time, and a start with `--snapshot` at its second
  phase has a whole one or the directory of an extraction that had begun.
* `InitsCanFinish` (`Spec => []CanFinish`), if the staging area is on a volume of its own:
  `staging_in_data` is the counterexample. `CanFinish` is inductive with `TypeOK`: a download
  takes from one volume what an extraction does not need.

`Discovery_proofs`, for every registry that meets `RegistryAssumption`, whatever runs
and lies on disk, proves three of the four properties of the `discovery` run:
`DeleteAgreesWithStop`, `RunningWins`, `ComponentsFollow`. They
follow from the operators and the types of the state; what the proofs bring to light is
what they need of the registry: that a container runs in one stack only
(`ComponentsFollow`: the program picks the owner in the random order of a Go map). That is
an assumption of `Registry`; TLC checks it on the program's own table in
`discovery` and `fleet`.

Only model-checked are `NodesAreFoundAgain`, which is about the very names in the program's
table, and `CommandsEnd`, which is liveness under fairness and out of the prover's
reach; the other invariants and action properties of the passing runs are each stated by a
theorem. Each hypothesis of a theorem beyond the named
assumptions of the modules holds in the passing runs that check its property, so each
theorem extends what its run shows to all registries, commands and numbers of commands
under the same conditions.

## What is not modelled

Configuration and flag parsing happen once, before a command does anything. `init`
installs Docker interactively. The self update replaces the binary. `info`, `view`,
`logs`, `request`, `shell` and `ipfs` read and print. `cleanup` removes images no
container uses. How `ForceRemoveAll` obtains the rights it needs is not modelled; the model lets it
remove everything, or any part and fail. `stop`'s look-up of compose files that old versions
left in the working directory is left out. Watchtower's own renewals of containers are
its program's, not this repository's. Two terminals that run a snapshot init at once
are left out: what two Nitro processes make of one database is not in this code.

## Plan

1. (done) registry and discovery; the commands; the fleet; the discovery and deletion
   theorems.
2. (done) updates, init containers, the Base secret, the L1 check in `NodeLifecycle`;
   `ArbitrumSnapshot`; `DataStore` and the refinement, checked and proved; the theorems
   about the secret and the snapshot.
3. (done) proofs of what the runs check of stops, starts, the Ethereum stack, the fleet and
   disk space; the assumptions on the registry and the ports they need.
4. (done) reads that fail and extractions that stop half-way; what `start` calls a container
   against what `stop` and `delete` look for; updates of two stacks.
5. Proofs for several terminals of what does not need one: which of the facts about a start
   survive other commands, and the resolution of `update` under them.
