# TLA+ models of the Amazon ECS CNI plugins

The repository holds three CNI plugins. The container runtime (the ECS agent)
runs one process per ADD or DEL command; a plugin reads a JSON configuration on
its standard input, changes the state of the host or of a container's network
namespace, and prints a result. This project models what the plugins do to that
state, checks small instances with TLC, and proves theorems about the models
with TLAPS.

## 1. The system

| component | source | state | operations |
|---|---|---|---|
| ecs-ipam commands | `plugins/ipam/commands/commands.go` | none of its own; one session on the store per command | `Add`, `Del` |
| ecs-ipam store | `plugins/ipam/ipstore/ipstore.go` | a boltdb file: one key per assigned address, plus `lastKnownIP` and `lastKnownIPv6` | `GetAvailableIP(v6)`, `Assign`, `Release`, `ReleaseByID`, `Update`, `Get`, `Exists`, `Close` |
| ecs-ipam configuration | `plugins/ipam/config/config.go` | none | `LoadIPAMConfig`, `LoadDBConfig` |
| ecs-bridge | `plugins/ecs-bridge/commands`, `plugins/ecs-bridge/engine` | the host's bridge (MAC, addresses, ports), veth pairs, routes of the container | `add`: bridge, veth, attach, ipam ADD, bridge address, container interface, IMDS block; `del`: ipam DEL, delete the veth |
| ecs-eni | `plugins/eni/commands`, `plugins/eni/engine` | the ENI's link, its namespace, its addresses and routes | `add`: find the ENI by MAC address, move it, configure it with the addresses and gateways of the configuration; `del`: nothing. The engine also asks the metadata and the routing table; no command does |
| utilities | `pkg/utils` | the delay of a backoff | `RetryWithBackoffCtx`, `SimpleBackoff`, `ComputeIPV4GatewayNetmask`, `ParseIPV4GatewayNetmask` |
| EC2 metadata | `pkg/ec2metadata` | external | queries |
| wrappers, version, logger, licenses | rest of `pkg` | none | forwarding and output |

How they interact: ecs-bridge runs ecs-ipam as a child process with its own
standard input; the ipam processes of all the containers of a host share one
boltdb file; the bridge processes share the host's kernel. Nothing else is
shared, and no component ever waits for another one except for the file lock
and for a child process.

What is hard about it:

* *Concurrency.* Commands of different containers run at the same time. The
  store is protected by the lock boltdb takes on its file, held for the whole
  command because the connection is persistent (`config.go:203`); inside a
  command each read and each write is a transaction of its own. The bridge is
  protected by nothing.
* *Failure.* No command rolls back. A process may die anywhere, an operation of
  the store may fail, `Update` may fail and is only logged.
* *Ordering.* An ADD may be retried, a DEL may be repeated or come late. An ENI
  is attached or detached, a namespace is destroyed, a router advertises itself
  while a command runs.
* *Edges.* Wrap around of the search, the full subnet, reserved addresses.

Properties that make the components correct:

* ipam: no two containers get one address; what is printed is recorded; a key
  is never overwritten; ids are unique; the search finds a free address if
  there is one, and ends; a DEL by id leaves nothing behind; every command ends.
* bridge: one bridge with a fixed MAC address; one address per family that all
  containers' gateways agree on; a container that is reported to be up is
  attached, has routes and cannot reach IMDS if that was asked for; DEL frees
  what ADD took.
* eni: a container that is reported has its own ENI, completely configured; the
  routes that block IMDS come before the gateway's; the ENI is back on the host
  after its namespace was destroyed, for DEL does nothing.
* queries and utilities: an answer put together from several queries was right
  at some moment; who gives up has asked as often as it may; the delays stay
  within their bounds; the context ends the retries.

## 2. The modules

| module | what it is |
|---|---|
| `IPAMConfig` | the configuration a command is run with, what `LoadIPAMConfig` accepts, default gateways, and the arithmetic of `NextIP` and `NextIPv6` as operators |
| `NextIPLoop` | the loops of `NextIP` and `NextIPv6`, one pass per step |
| `IPAM` | the plugin: concurrent commands, the file lock, the store, faults, and what the runtime believes |
| `Bridge` | the ecs-bridge plugin: concurrent ADDs and DELs over one bridge, the veth pairs, the routes of the namespaces, and the ledger |
| `ENI` | the ecs-eni plugin: concurrent ADDs over the links of the host and the namespaces, while ENIs are attached and detached |
| `Gateway` | the arithmetic of `gateway.go` and of the IPv6 prefix length, as operators |
| `Queries` | what the eni engine asks the metadata and the routing table, and `RetryWithBackoffCtx`, while the answers change |
| `AddressLedger` | the abstract specification of addresses: who owns one, who uses it |
| `MCIPAM`, `MCNextIPLoop`, `MCBridge`, `MCENI`, `MCQueries` | small instances for TLC |
| `IPAMProofs`, `LedgerProofs`, `IPAMResultProofs`, `NextIPProofs`, `BridgeProofs`, `BridgeResultProofs`, `ENIProofs`, `QueriesProofs` | theorems and their proofs |

`IPAM` and `NextIPLoop` extend `IPAMConfig`; `IPAM` refines `AddressLedger`
(`INSTANCE AddressLedger WITH ...`), and so does `Bridge`, which has the ledger
in place of the plugin behind it: `IPAM` shows that the plugin is a ledger,
`Bridge` that its commands use one as it asks. `ENI` shares nothing with the
others; `Queries` extends `Gateway`. The MC modules and the proof modules
extend what they instantiate or prove about; `IPAMResultProofs` extends
`LedgerProofs`, which extends `IPAMProofs`, and `BridgeResultProofs` extends
`BridgeProofs`.

### State of `IPAM` and the code

| variable | code |
|---|---|
| `lock` | the flock boltdb holds on the file, from `NewIPAllocatorDualStack` to `Close` |
| `db` | the keys of the bucket: an IPv4 address is its own key, an IPv6 address has the prefix `6` |
| `last` | the keys `lastKnownIP` and `lastKnownIPv6` |
| `pc`, `fam`, `cur`, `ip`, `res` | where each process is, the family it works on, the address it looks at, the addresses it has assigned or released, how it ends |
| `conf` | the configuration the process was given |
| `start` | `lastKnownIP` of the IPManager, `startIP` of `GetAvailableIPv6` |
| `granted` | the addresses of printed results whose container has not been deleted (kept by the runtime, not by the plugin) |

An address is an integer, its place on a line that holds the subnets of one
family; a value of the store is a pair, so that `id`, `id-v6`, `GateWay` and
`GateWayV6` differ. This assumes what the code assumes: IPv4 addresses begin
with the digit 1 (`ipstore.go:31-33`), and no container id is `GateWay`, or
another id with `-v6` after it.

An action is one write of the store, or the reads between two writes; every
read of one step is under the lock, so no other process could have come in
between. `Invoke` is the runtime starting a command; `Open`, `OpenTimeout` and
`Close` the session; `VerifyGateway`, `CheckGateway`, `PutGateway` are
`verifyGateway` and the `Assign` in it; `Pick`, `CheckAddress`, `PutAddress`
are `getIPV4Address`/`getIPV6Address` with `Assign`, `assignIPv6` and the
search (one step per address examined); `Release` and `ReleaseByID` the two
ways of DEL, one step per family; `Update` the last known address; `PrintResult`
the result. Faults are `UpdateFails` (logged, the command goes on),
`StoreFails` (any other operation fails, the command returns the error) and
`Crash` (the process dies and the kernel drops its lock).

Asymmetries of the code that the model keeps: `Assign` always lists prefix 1
for the uniqueness of an id, also for an IPv6 key, and only the search for an
IPv6 address lists prefix 6 (`ScannedFam`); a named IPv6 address is stored
under `id-v6`; `ReleaseByID` succeeds when either family had the id; a DEL that
names addresses does not look at the id. The uniqueness of an IPv6 id being
asked of prefix 1 only (`ipstore.go:323`, `:444`), an ADD that names an IPv6
address succeeds for an id that has one already; `IdsUnique` leaves that case
out, and its IPv6 part speaks of searched addresses only.

Assumptions about the runtime, each a named operator: it does not run two
commands for one container id at a time (`OneCommandPerContainer`), a DEL means
that the container no longer uses its addresses (`Dropped`), and, unless
`StaleDel` is TRUE, a DEL that names an address is not repeated after the
address was given away (`NamesOwnAddresses`). The last one is what the ledger
needs: the code releases a named address whoever owns it (`commands.go:177-186`).

### State of `Bridge` and the code

| variable | code |
|---|---|
| `br` | the kernel's link with the bridge's name: its type, the MAC address a process has set, whether it is up, its addresses per family |
| `link` | per container the veth pair: whether it exists, is up, is a port of the bridge; the addresses and the routes of the container's end |
| `blocked` | the blackhole routes for IMDS in the container's namespace |
| `owner`, `held` | the ledger: what ecs-ipam has stored, what the runtime believes |
| `pc`, `todo`, `ips` | where the command of each container is, the families its loop over `result.IPs` has not come to, the addresses of the result |
| `phase` | what the runtime knows of the container |

The runtime is assumed to run one command per container at a time, so that a
process is named by its container. An action is one change of what containers
share, or the changes one process makes to its own namespace between two of
those; the choice of where it stops in between is then part of the action.

The ipam plugin behind the commands is the ledger, with the rules of
`ipstore.go` that its callers can tell apart: an id that has an address of the
family is refused (`CanAssign`), and so is a named address that somebody has
(`NamesTaken`); a named IPv6 address is stored apart, under the id with `-v6`,
and therefore not refused for an id that has one already (`ipam/commands.go:356`,
`ipstore.go:323`), and not found by a DEL (`Apart`, used by `CanAssign`,
`IPAMRelease` and `DelTakesAllBack`). DELs go by the container's id; that a DEL
names addresses itself is in `IPAM` only.

`IPAMGiven` says whether configurations have an `ipam` section. Without one both
commands die at their first log message: `detailLogMsg` reads `conf.IPAM.Type`
through a nil pointer (`commands.go:32`, called from `:88` and `:166`), so that
the branch of `del` which skips ipam (`:168-169`) is never reached, and
`InvokeAdd` and `InvokeDel` end the command where they start it. `{"ipam": {}}`
gives a pointer that is not nil and is run like any other.

| action | code |
|---|---|
| `LookupBridge`, `AddBridgeLink`, `SetBridgeMac`, `SetBridgeUp` | `CreateBridge` with `lookupBridge` and `createBridge`; `EEXIST` is no error |
| `SetupVeth`, `AttachHostVeth` | `CreateVethPair` in the namespace, `AttachHostVethInterfaceToBridge` |
| `IPAMAssign`, `IPAMRefuse` | `RunIPAMPluginAdd`, a step per family: the child may fail after the first |
| `ListBridgeAddrs`, `AddBridgeAddr` | `ConfigureBridge`, a list and an add per family |
| `ConfigureVeth` | `configureVethContext.run`: its loops, and the places it may stop |
| `BlockIMDS`, `PrintResult` | the end of `add` |
| `IPAMRelease`, `IPAMReleaseFails`, `DeleteVeth` | `del`: the failure of ipam is logged only; `DelLinkByNameAddr` finds the link by an address |
| `InvokeAdd`, `InvokeDel`, `DestroyNamespace`, `DeleteBridge` | the runtime and the host (external) |
| `Stop` | an error of a call, or the death of the process |

Three behaviours of the kernel that the code relies on are written down as
operators: a bridge without a MAC address of its own has the lowest of its ports
(`MacOf`), an address with a mask adds a connected route (`Configured`), an IPv6
interface that is up has a link-local address (`HasAddr`). A MAC address is
named by the container of the ADD that drew it; a gateway is one token, address
and mask together, as the code compares them.

### State of `ENI` and the code

| variable | code |
|---|---|
| `at`, `name`, `up`, `addrs` | per ENI its link in the kernel: where it is, its name, whether it is up, the families of its addresses |
| `ns` | the namespace of each container: none, there, or destroyed and not yet taken down |
| `blocked`, `route` | per namespace the blackhole routes for IMDS and the default routes |
| `pc`, `dev`, `idx`, `todo` | where the command of each container is, the device name `GetInterfaceDeviceName` has returned, the link it has got by that name, what a loop over addresses, endpoints or gateways has not come to |
| `phase` | what the runtime knows of the container |
| `taken` | history: whether another link took the name the ADD had found before the ADD looked its link up by it |

| action | code |
|---|---|
| `Find` | `types.NewConf` and `GetInterfaceDeviceName` in `add` |
| `GetLink`, `Move`, `Enter` | `SetupContainerNamespace`: `LinkByName`, the handle of the namespace, `LinkSetNsFd`, and `WithNetNSPath` with a closure made by `newSetupNamespaceClosureContext` |
| `Rename`, `AddAddr`, `BringUp`, `BlockIMDS`, `AddGateway` | `setupNamespaceClosureContext.run` |
| `PrintResult`, `Del` | the end of `add`; `del`, which does nothing |
| `LinkGone`, `Stop` | a call on a link that was detached; any other error, or the death of the process |
| `CreateNamespace`, `DestroyNamespace`, `InvokeAdd` | the runtime (external) |
| `Attach`, `Detach`, `ReturnLink`, `Reap`, `Advertise` | EC2 and the kernel (external) |

An ENI is its MAC address; an index is worth nothing after a detach, so that a
process whose link went has `idx` None. The kernel's rules that the code relies
on: names are the lowest free `eth<n>`; a link that moves goes down and loses
its addresses; a move or a renaming fails when the name is taken there; a
default route needs a link that is up and a gateway it can reach (`Reachable`);
a namespace that is destroyed waits for processes that have it open (`Holds`)
and then gives its links back, under a new name if theirs is taken; a router
that advertises itself gives a link that is up an IPv6 default route, from the
moment `LinkSetUp` returns, and so perhaps before IMDS is blocked: this is why
`BlockedFirst` speaks of the routes that the plugin adds. The expiry of such a
route is not modelled.

What one sees in the code, and in the model, but would not expect:

* the configured `eniID` has to be there and is never compared with the MAC
  address; the result names the device as it was called on the host;
* `EEXIST` for a default route is accepted whatever gateway the route has: of
  two gateways of one family the second is dropped silently, and an advertised
  route stands for the configured one;
* a gateway is parsed after the move only, so that one which cannot be parsed
  leaves the ENI in the namespace, where no ADD finds it any more; with
  `stay-down` nobody parses it;
* `TeardownContainerNamespace` has an empty closure and no caller; the constants
  of `commands.go:30-43` are unused; `plugins/eni/README.md` describes an earlier
  version: it says that the plugin starts `dhclient` (lines 6-7), and names
  `ipv4-address` and `subnetgateway-ipv4-address` where `types.go:32-33` reads
  `ip-addresses` and `gateway-ip-addresses`.

A name that was found may be taken over. An ADD finds the name `eth1` for its
ENI, the ENI is detached, another one is attached and becomes `eth1`, and
`LinkByName` (`engine.go:328`) takes that one to the container: the plugin never
reads the MAC address again. With `stay-down` the container is even reported, and
the result has the MAC address of the configuration and the link of another ENI;
without it the wrong ENI is configured as if it were the right one. Nothing in
the kernel prevents it (`Attach` and `ReturnLink` give whatever name is free), and
nothing in the model does. `ForeignOnlyTaken` says that this is the only way: a
container has an ENI that is not its own only if its own ADD lost the name in the
window between the two look-ups. The second look-up by name, in the namespace,
would look just as dangerous and is not, nor are ENIs left by ADDs that stopped,
or those that come back from destroyed namespaces. `ReportedIsReady` makes the
same exception and no other.

### State of `Queries` and the code

| variable | code |
|---|---|
| `listed`, `owned` | external: the MAC addresses in the metadata, whether the ENI has the address in question |
| `link`, `routes` | external: the host's link of the ENI and the IPv6 routes through it |
| `ctx` | the context of a retry |
| `delay`, `pause` | `SimpleBackoff.current`, and what `Duration` returned last |
| `call`, `pc`, `block` | the call, where it is, the CIDR block it is about |
| `todo`, `asked`, `waited` | the MAC addresses not asked about yet, the questions without an answer, the sleeps |
| `answer` | what the call returned |
| `right`, `missed`, `late` | history: the answers that were right at some moment of the call, whether a query failed, the calls of `fn` after the context was done |

`GetAllMACAddresses` and `GetMACAddressOfENI` are one call, `"mac"`, since the
list of the first is the argument of the second. `doesMACAddressMapToIPAddress`,
`LinkByName` with `getIPV6GatewayIPFromRoutes`, `GetBlock` (the three calls about
a subnet), `CheckContext`, `CallFn` and `Wait` (`RetryWithBackoffCtx`) are the
others; each step is one query or one sleep. `List`, `Own`, `Plug`, `Advertise`
and `Cancel` change the world between any two of them. A CIDR block is a family,
a number and the size of the subnet, in place of its mask; a delay is an integer,
and what a multiple makes of it is a constant.

No command of the repository calls these operations; they are exported by the
`Engine` interface and by `pkg/utils`, and tested there. Some things the model
keeps as they are: a query that fails in `GetMACAddressOfENI` is only logged, so
that the "unmapped" error may mean that nobody could be asked
(`AnswerWasRight` says exactly when), while `engine/error.go:34-36` says that the
address "cannot be mapped"; `AnswerWasRight` is about the questions whose answers
are put together while the world changes ("mac", "address", "subnet" with
"gateway"), for the parsing of a block and the prefix length depend on one
argument only; `getIPV6GatewayIPFromRoutes` sleeps once more after
its last look (`GivesUpLast`); a backoff goes on where the last retry left it
(`Call`); a sleep is not cut short when the context is done (`LateOnce`), and
then the error of the context is returned, while `utils.go:61` speaks of nil.

## 3. The runs

| run | instance | shows |
|---|---|---|
| `explicit` | 2 processes, 2 dual-stack containers, 2 + 3 hosts: addresses searched and named, in either or both families, with and without id, released by id or by address; all faults, symmetry | `TypeOK`, `IdsUnique`, `KeyLifecycle`, `ResultRecorded`, `DelByIdClean`, `DelNamedClean`, `AddressesNeverShared`, `ImplementsLedger` |
| `shared` | two gateways, a second range, two dual-stack containers whose addresses are released in every order, an address without id on a gateway, DEL of a gateway and repeated DELs (`StaleDel`), all faults, fair | `IdsUnique`, `KeyLifecycle`, `ExhaustedMeansFull`, `CommandsEndOrSearch` |
| `nextip` | all aligned subnets of 4 to 32 addresses, both families, every start | `TypeOK`, `ReturnsNextIP`, `LoopEnds` |
| `bridge_concurrent` | a dual-stack task and an IPv4 daemon of one network, two commands at a time, every command stopping anywhere | `TypeOK`, `ReportedIsReady`, `GatewayBeforeRoutes`, `DelTakesAllBack`, `MacSetOnce`, `OnlyDelStrands`, `ImplementsLedger` |
| `bridge_networks` | three networks with different gateways on one bridge, one of them link-local, one command at a time, an ipam that fails before or after it assigns or releases, commands without an ipam configuration | `ReportedIsReady`, `OneGateway`, `GatewayBeforeRoutes`, `ImplementsLedger` |
| `eni` | 2 containers that get one ENI, one of them with two IPv4 gateways and an IPv6 one, the other staying down with a gateway nobody can parse; another ENI on the host, which may take over the name of the first; two commands at a time, every command stopping anywhere, fair | `TypeOK`, `ReportedIsReady`, `ForeignOnlyTaken`, `BlockedFirst`, `ENIReturns` |
| `queries` | 2 MAC addresses, 8 blocks around the limits of the masks, 4 routes, 3 attempts, 2 ticks, delays from 2 to 7, queries that fail, fair | `TypeOK`, `AnswerWasRight`, `GivesUpLast`, `LateOnce`, `DelaysInRange`, `CallsEnd` |

Bounds. Two processes are enough for every interleaving in which one acts
between two steps of another; a third could only wait for the same lock. Two
containers are enough to take an address away from one another, and with two
IPv4 hosts, one of them the gateway, the IPv4 subnet is full after one ADD: the
searches wrap, fail, and fall on released addresses, while IPv6 still has one
host left. Eight addresses (`shared`) leave room for gaps and for a range
outside the subnet. In `Bridge` two containers show every race of two commands,
with two addresses per family so that one of them can be lost to a stopped ADD
while the other still gets one; three configurations (`bridge_networks`) are the
cases that the conflict check tells apart: other gateways in IPv4, in IPv6, and
a link-local one. There the commands run one at a time, since `OneGateway` does
not hold otherwise (see below). In `eni` two containers that want the same ENI
show every race of two commands, the second ENI every race with names: the
kernel may give it the name the first one had. One gateway more than families
makes `EEXIST` happen within one ADD, and repeated ADDs make it happen with
every route. In `queries` three attempts and two ticks have a first, a last and,
for the attempts, a question in between; the delays pass the maximum after two
uses, at which the jitter counts; the blocks lie on both sides of /16 and /28.
No state is cut off by a constraint: every instance is finite and explored
completely. Deadlock is checked in every passing run.

Fairness. `FairSpec` asks that a process which can go on does (`WF` of its own
steps, `Progress(p)`): the operating system schedules it, boltdb retries the
lock and gives up after its timeout (`OpenTimeout`). Nothing is asked of the
runtime or of the faults, and faults are not left out: in `shared` processes die,
the store fails and Updates fail. What the faults lead to is excepted instead.
After an Update that failed, or a process that died between `PutAddress` and
`Update`, `lastKnownIP` may be missing; the next search then starts at the network
address, to which it never comes back, and in a full subnet it does not end.
`Endless(p)` is that state of a search, and `CommandsEndOrSearch` says that every
command ends or comes to it; `update_lost` shows that it is reached.

In `ENI` the steps of a command and the kernel's taking down of a namespace are
fair (`WF` of `Step(c)` and of `TakeDown(c)`): a process is scheduled, its
netlink calls return, and a destroyed namespace that nobody holds is taken down.
`Stop` may end a command at any time and is not forced. In `Queries` the steps of
the call are fair: a query returns, with an error if need be, and a sleep ends.
Nothing is asked of the world: what the call waits for may never come.

### What the code does differently from what it says

Each of these runs has one property taken from a comment or from the
documentation, and TLC finds it violated.

| run | text | what happens |
|---|---|---|
| `update_lost` | a failed `Update` "shouldn't cause the command to fail" (`commands.go:84-86`) | the store has no `lastKnownIP`, the next search starts at the network address, which `NextIP` never returns, and in a full subnet the loop of `GetAvailableIP` does not end; the lock stays taken |
| `leak` | "ReleaseByID releases all IPs (v4 and v6) associated with an ID" (`ipstore.go:364`) | a named IPv6 address is stored under `id-v6` and stays |
| `bridge_no_ipam` | for a DEL without ipam configuration "IPAM configuration not found, skip DEL for IPAM", and then the interface is deleted (`ecs-bridge/commands/commands.go:168-180`) | the log message before it (`:166`) reads `conf.IPAM.Type` (`:32`) through a nil pointer: the command dies and the veth pair stays |
| `bridge_mac` | "Explicitly setting a static MAC address solves this problem" (`engine.go:173-177`): a MAC address that changes makes the containers' ARP entries stale | `LinkAdd` and `LinkSetHardwareAddr` are two calls. An ADD that finds the bridge between them connects and reports its container, and then the address changes; had the creator died there, it would change with every port |
| `bridge_gateways` | a bridge with another IPv4 address "should return error for address mismatch" (`engine_test.go:3105-3124`) | `ConfigureBridge` lists the addresses, then adds its own: two ADDs of different networks on a new bridge both find none, both succeed |

Three more disagreements show without a run. `plugins/ipam/README.md:75` says the
gateway "defaults to the first usable address (`.1`)"; the code takes the
address after the one the subnet was written with (`config.go:237`, the operator
`Gateway` of the model), which is another one when that has host bits.
`plugins/ipam/README.md:82` lists /128 among the supported IPv6 prefix lengths,
and `config.go:142` refuses what is longer than /126 (`MaskAccepted`).
`plugins/eni/engine/engine.go:327` says "Get the device link for the ENI" of a
look-up by name that may return the link of another one (see `ForeignOnlyTaken`).

## 4. The proofs

All theorems hold for every number of processes, containers, addresses and
subnets, and for every choice of faults. They rest on the assumptions of
`IPAMConfig` and `IPAM`: addresses are integers, the sentinels are none of
them, subnets and default gateways of the configurations lie on the line.

* `TypeCorrect`: `Spec => []TypeOK`. `TypeOK` is not inductive: that a searched
  address is an address needs the configuration to be an accepted one with the
  family the process is working on, and that `lock` is freed needs to know who
  holds it. `TypeInv` adds `Shape` (per process, what `pc` says about command,
  configuration and address) and `Exclusion` (a process is between `Open` and
  `Close` exactly when it holds the lock). One lemma per action.
* `IdsAlwaysUnique`: `Spec => []IdsUnique`. The strengthening is `Pending`: at
  a Put, the key is free and the id unused, as the reads before it found,
  although they were other transactions. It is stable because a step that
  writes needs the lock (`StoreChange`, `PendingNext`).
* `KeysFollowLifecycle`: `Spec => KeyLifecycle`, from the same invariant.
* `NoAddressShared`: with `~StaleDel`, `Spec => []AddressesNeverShared`.
  `GrantInv` relates the store to what the runtime believes: an address in use
  is stored under its container's id (`Recorded`), what an ADD holds stays
  stored (`ResultHeld`), a DEL by id belongs to a container without addresses
  in use (`ByIdHarmless`), an address that a DEL names is nobody's but the
  DEL's until it is released (`ByNameHarmless`). One lemma per kind of step.
* `PluginIsLedger`: with `~StaleDel`, `Spec => ImplementsLedger`, the
  refinement: Put is `Reserve`, Delete is `Return`, PrintResult is `Hand`,
  starting a DEL is `Drop`, everything else stutters.
* `UsersOwnTheirs` of `LedgerProofs`: with `~StaleDel`, an address in use is
  stored under its container's id, hence neither free nor a gateway's.
* `ResultsRecorded`, `DelsByIdClean`, `DelsNamedClean`, `GivesUpWhenFull` of
  `IPAMResultProofs`: what a command has done when it ends, with no condition on
  faults or on DELs. A command is many transactions, and each of these is about
  what an early one has left when the last is over. `CommandsInv` says per
  command what it has recorded or released so far (`DoneInv`, `ReleasedInv`) and
  that the hosts it has come past are taken (`WalkInv`), where "past" is the
  order of the addresses on a circle that starts at `start` (`Between`); that
  `NextIP` is the next one in that order, the wrap included, is
  `NextIPAdjacent` with `BetweenParts`. Steps of other processes leave all this
  alone because the lock keeps them from the store (`StoreLocked`).
* `LoopComputesNextIP`: the loops of `NextIPLoop` return the operator `NextIP`,
  which is what `IPAM` uses for them; in IPv4 for subnets without addresses
  whose first byte is zero (`big.Int.Bytes` loses it, `ipstore.go:570`).
  `LoopTypeCorrect`: what they are called with and reach stays in the subnet.
* `TypeCorrect` of `BridgeProofs`: `Spec => []TypeOK`, here inductive as it is,
  one step per action.
* `GatewaysFirst`: `Spec => []GatewayBeforeRoutes`. An ADD learns that the bridge
  has its gateway two steps before it adds routes, and meanwhile other commands
  change the bridge. `BridgeInv` says per container what its command may rely
  on: the bridge is there from `setUp` on (`StepInv`), it has the gateways of
  the families the loop has come past (`GatewayInv`), and those the namespace
  has routes to (`RouteInv`); a pair that exists keeps the bridge from being
  deleted (`LinkInv`). Commands only add to the bridge (`CommandsGrow`), so the
  steps of the others keep all of it (`OthersAlone`, `OwnFrame`), and the
  command's own steps establish it (`OwnStep`).
* `MacNeverReplaced`: `Spec => MacSetOnce`. `SetterInv`: a process about to set
  the MAC address has created the bridge itself, is the only one, and the
  address is not set yet; a bridge nobody has is not about to get one.
* `ReportsHold`: `Spec => []ReportedIsReady`. `ReportInv` adds to `BridgeInv`,
  per container, that its result is what it owns, one address per family it has
  come past (`ResultInv`, `OwnedInv`), that the bridge is up from the moment the
  veth pair is made and the pair attached when there is a result (`PairInv`), and
  that what `ConfigureVeth` and `BlockIMDS` have done lasts until a DEL or the
  end of the namespace (`CompleteInv`); `PhaseInv` relates it to what the runtime
  knows.
* `OnlyDelsStrand`: `Spec => OnlyDelStrands`, from the same invariant.
* `DelsTakeAllBack`: `Spec => []DelTakesAllBack`, on the condition the property
  is checked with: the ipam plugin does not fail (`"ipam" \notin Faults`); `del`
  succeeds when it does, so that the property is false otherwise. Addresses
  stored apart are excepted by the property itself. `DelInv`: a DEL owns no other
  address of a family that it has come past. It may stop anywhere.
* `BridgeIsLedger`: `Spec => ImplementsLedger`, the refinement: `IPAMAssign` is
  `Reserve`, `IPAMRelease` is `Return`, `PrintResult` is `Hand`, what ends a
  container or starts its DEL is `Drop`, everything else stutters.
  `UsersOwnTheirs` states what follows for the addresses in use.
* `OneGatewayAlone`: `Spec => []OneGateway` when the runtime runs one command at
  a time (`Parallel = 1`); the run `bridge_gateways` shows that it fails for two.
  `AloneInv`: at most one command runs, the bridge has no two addresses of one
  family that conflict (`AgreeInv`), and an ADD that has listed the addresses
  and not added its own still would find no conflict (`ListedInv`). From there
  `RouteInv` gives the gateways of the containers.

* `TypeCorrect` of `ENIProofs`: `Spec => []TypeOK`, with `Shape`: what the loops
  have still to do was parsed before, although `Conf` may hold what cannot be.
* `IMDSBlockedFirst`: `Spec => []BlockedFirst`. `SpaceInv` says of each namespace
  that it lasts while a command holds it (`HandleInv`), that routes lead through
  a link it has (`RouteInv`), and which endpoints are blocked at which step of
  the loop (`BlockInv`). Blackholes outlive the link and the ADD, default routes
  do not outlive the link; steps of others leave it alone (`OthersAlone`).
* `NoForeignENI`: `Spec => []ForeignOnlyTaken`, with no condition on faults or on
  names. `LookupInv`: names on the host are distinct; unless a name was taken over,
  the one a command has found leads to its ENI or to nothing, what it has got by
  that name is its ENI, and its container has no other.
* `ReportedAreReady`: `Spec => []ReportedIsReady`, likewise.
  `ReadyInv` adds to `LookupInv`, per container, how much of its link the ADD has
  configured at each step (`LinkInv`: name, addresses but those still to do,
  up, the gateways it has come past), which routes a namespace may have
  (`OwnRoutes`), and that a container which is up has a link. The difficult case is an
  ADD repeated in a namespace where an earlier one has stopped: a route that
  `EEXIST` stands for must be of the family asked for (`Routed`).
* `GatewayIsBasePlusOne`: a network whose mask is accepted begins at a multiple of
  16, so that incrementing its last byte without a carry is the address after the
  base of the subnet.
* `AnswersWereRight`, `LoopsGiveUpLast`, `FnCalledLateOnce`, `DelaysKeepRange` and
  `TypeCorrect` of `QueriesProofs`: the safety properties of `Queries`, for every
  number of attempts and every block, from one invariant. It adds that between
  call and return what is right now is in `right` (`RightInv`), that once the
  ENI's MAC address was asked about in vain "unmapped" was right or a query had
  failed, and how `asked` and `waited` are related at each step (`CountInv`).

The theorems of `Bridge` rest on its assumptions: configurations are of type
`NetConf` with at least one family, and before the first command the name is
free or taken by a link of another type. Those of `ENI` rest on the shape of the
configurations and on sentinels that are no values; those of `Queries` on
`BlockAssumption` (the metadata give the address of a network, whose size is a
power of 2) and `BackoffAssumption` (the multiple is at least 1, a longer delay
has no less jitter).

Every safety invariant, action property and refinement that a passing run checks
is also a theorem. The conditions of the theorems are those of the runs that check
the properties: `explicit` has no stale DEL, `bridge_concurrent` an ipam plugin
that answers, `bridge_networks` runs one command at a time; those of `ENI` and
`Queries` have none. The inductive invariants hold on the instances of these runs
as well.

Checked by TLC only: `CommandsEndOrSearch`, `LoopEnds`, `ENIReturns` and `CallsEnd`, since
liveness under fairness is out of the prover's reach, and that no instance
deadlocks, since that is about `ENABLED`. The properties of the five runs that
end with a violation are false of the code, and nothing is proved of them.

## 5. What is not modelled

JSON and environment parsing, log output, the text of keys and ids (see the
assumptions above), `NewIPAllocator` and `UniqueIDDualStack`, which no command
calls, boltdb itself (external: one lock, atomic transactions). The order in
which a bucket lists its keys is abstracted in `ReleaseByID` to any order.

In `Bridge`: MTU, the hardware address of the container's end and that it is set
up, `GetInterfaceIPV4Address` (no command calls it), and the ipam plugin as a
process of its own: a bridge process that is killed while its child runs leaves
it running, and what the child then does after the next command for the same
container is listed as a hazard without a property. `DelTakesAllBack` is
checked with an ipam plugin that does not fail, since `del` would not tell
(`commands.go:172-177`).

In `ENI`: the MTU, `TeardownContainerNamespace`, the lifetime of advertised
routes. In `Queries`: what the metadata answers as text, the connection and the
credentials of the SDK. `ZeroOrNil`, the wrappers in `pkg`, the logger, the
version, the capabilities and the licenses keep no state: they forward a call or
print constants.

Whether the repetition of a DEL by address ever succeeds is not modelled as a
property: after a failure between the two families the address released first
makes every repetition fail (`ipstore.go:352`), and nothing in the repository
says what the runtime does then.

## 6. Plan

1. Done: ipam (`IPAMConfig`, `IPAM`, `NextIPLoop`), its abstract specification,
   type correctness, uniqueness of ids, the refinement.
2. Done: `Bridge`, with type correctness, the order of gateway and routes, and
   the MAC address proved.
3. Done: `ENI`, with type correctness, the order of IMDS and default routes, and
   the lookups by name proved.
4. Done: `Gateway` and `Queries`, with all the safety properties proved.
5. Done: the remaining safety properties of `IPAM`, `Bridge`, `ENI` and
   `NextIPLoop` proved.
6. Perhaps theorems that weaken a condition: how far `DelTakesAllBack` holds when
   the ipam plugin may fail.
7. Perhaps `Bridge` with the ipam plugin as a process of its own, for children
   that outlive their parent.
