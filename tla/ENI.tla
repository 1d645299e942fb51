-------------------------------- MODULE ENI --------------------------------
(***************************************************************************)
(* The ecs-eni plugin: plugins/eni/commands, plugins/eni/types, and        *)
(* SetupContainerNamespace of plugins/eni/engine.                          *)
(*                                                                         *)
(* An ADD moves an ENI from the host to the namespace of a container and   *)
(* configures it there; a DEL does nothing, and the ENI comes back when    *)
(* the namespace is destroyed.  The runtime runs one process per command,  *)
(* at most one per container at a time, so that a process is named by its  *)
(* container.  Nothing is locked, and a command that stops undoes nothing. *)
(* Meanwhile ENIs are attached to the host and detached from it, and the   *)
(* kernel gives the names.                                                 *)
(***************************************************************************)
EXTENDS Integers, FiniteSets

CONSTANTS
    Enis,       \* the ENIs, each named by its MAC address
    Conts,      \* the containers: a network namespace each
    Conf,       \* the configuration of each container
    Gateways,   \* the gateways that can be configured
    GwFam,      \* the family of a gateway
    LinkLocal,  \* the gateways that are reachable without an address
    Advertised, \* the gateway that the router of the subnet advertises
    Names,      \* the names a link can have: a number n stands for eth<n>
    Busy,       \* those that other links of the host have
    Host,       \* where an ENI is that is attached and in no container
    Nowhere,    \* where an ENI is that is not attached
    None,       \* no name, no link, no gateway
    Malformed,  \* a MAC address, an address or a gateway that cannot be parsed
    Parallel,   \* how many commands the runtime runs at the same time
    Faults      \* {"stop"} when a command may stop anywhere, or {}

Fam == {4, 6}

(* mac: the ENI; ifName: its name in the container; addrs: the families of *)
(* its addresses; gws: its gateways; block: is IMDS to be blocked?         *)
NetConf == [mac : Enis \cup {Malformed}, ifName : Names,
            addrs : SUBSET (Fam \cup {Malformed}),
            gws : SUBSET (Gateways \cup {Malformed}),
            block : BOOLEAN, stayDown : BOOLEAN]

ASSUME ConfAssumption == Conf \in [Conts -> NetConf]

ASSUME GatewayAssumption ==
    /\ GwFam \in [Gateways -> Fam]
    /\ \A g \in LinkLocal : g \in Gateways /\ GwFam[g] = 6

ASSUME NameAssumption == Names \subseteq Nat

ASSUME SentinelAssumption ==
    /\ Host \notin Conts /\ Nowhere \notin Conts /\ Host # Nowhere
    /\ Malformed \notin Enis \cup Fam \cup Gateways
    /\ None \notin Names \cup Enis \cup Gateways
    /\ Advertised \notin Gateways \cup {None}

VARIABLES
    at,       \* where each ENI is: nowhere, on the host, in a container
    name,     \* the name of its link
    up,       \* whether the link is up
    addrs,    \* the families of the addresses it has
    ns,       \* the namespace of each container
    blocked,  \* per namespace, the IMDS endpoints that have a blackhole route
    route,    \* per namespace and family, the gateway of the default route
    pc,       \* where each command is
    dev,      \* the device name it has found for its ENI
    idx,      \* the link it has got by that name
    todo,     \* what a loop over the configuration has not come to yet
    phase,    \* what the runtime knows of each container
    taken     \* history: has another link taken the name that the command
              \* has found, before the command looked its link up by it?

links == <<at, name, up, addrs>>
spaces == <<ns, blocked, route>>
vars == <<at, name, up, addrs, ns, blocked, route, pc, dev, idx, todo, phase,
          taken>>

(* The steps before a command has a handle of the namespace, and after.    *)
Outside == {"find", "link"}

Inside == {"move", "enter", "rename", "addr", "up", "block", "gateway", "print"}

(* What the runtime believes: nothing, that an ADD is running, that the    *)
(* container has its ENI, and the same although the ENI was detached.      *)
Phases == {"none", "adding", "up", "lost"}

TypeOK ==
    /\ at \in [Enis -> Conts \cup {Host, Nowhere}]
    /\ name \in [Enis -> Names \cup {None}]
    /\ up \in [Enis -> BOOLEAN]
    /\ addrs \in [Enis -> SUBSET Fam]
    /\ ns \in [Conts -> {"none", "live", "dying"}]
    /\ blocked \in [Conts -> SUBSET Fam]
    /\ route \in [Conts -> [Fam -> Gateways \cup {None, Advertised}]]
    /\ pc \in [Conts -> {"idle"} \cup Outside \cup Inside]
    /\ dev \in [Conts -> Names \cup {None}]
    /\ idx \in [Conts -> Enis \cup {None}]
    /\ todo \in [Conts -> SUBSET (Fam \cup Gateways)]
    /\ phase \in [Conts -> Phases]
    /\ taken \in [Conts -> BOOLEAN]

NoRoutes == [f \in Fam |-> None]

Init ==
    /\ at = [e \in Enis |-> Nowhere]
    /\ name = [e \in Enis |-> None]
    /\ up = [e \in Enis |-> FALSE]
    /\ addrs = [e \in Enis |-> {}]
    /\ ns = [c \in Conts |-> "none"]
    /\ blocked = [c \in Conts |-> {}]
    /\ route = [c \in Conts |-> NoRoutes]
    /\ pc = [c \in Conts |-> "idle"]
    /\ dev = [c \in Conts |-> None]
    /\ idx = [c \in Conts |-> None]
    /\ todo = [c \in Conts |-> {}]
    /\ phase = [c \in Conts |-> "none"]
    /\ taken = [c \in Conts |-> FALSE]

-----------------------------------------------------------------------------
(* Helpers.                                                                *)

OnHost == {e \in Enis : at[e] = Host}

In(c) == {e \in Enis : at[e] = c}

(* The process is gone, and the runtime has learnt how it ended.           *)
End(c, how) ==
    /\ pc' = [pc EXCEPT ![c] = "idle"]
    /\ dev' = [dev EXCEPT ![c] = None]
    /\ idx' = [idx EXCEPT ![c] = None]
    /\ todo' = [todo EXCEPT ![c] = {}]
    /\ phase' = [phase EXCEPT ![c] = how]
    /\ UNCHANGED <<links, spaces, taken>>

Fail(c) == End(c, "none")

Goto(c, step, rest) ==
    /\ pc' = [pc EXCEPT ![c] = step]
    /\ todo' = [todo EXCEPT ![c] = rest]
    /\ UNCHANGED <<dev, phase, taken>>

(* Where the closure goes when it has configured what comes before.        *)
GotoGateways(c) ==
    IF Conf[c].gws = {} THEN Goto(c, "print", {})
                        ELSE Goto(c, "gateway", Conf[c].gws)

GotoBlock(c) ==
    IF Conf[c].block THEN Goto(c, "block", Fam) ELSE GotoGateways(c)

(* A process that has opened the namespace keeps it from going away.       *)
Holds(c) == pc[c] \in Inside

(* What the configuration must have; its gateways are parsed later, and    *)
(* only when the link is to be configured.                                 *)
NewConf(n) == n.mac # Malformed /\ n.addrs # {} /\ Malformed \notin n.addrs

newSetupNamespaceClosureContext(n) == Malformed \notin n.gws

getLinkByHardwareAddressAny(mac) == OnHost                        \* mutation

getLinkByHardwareAddress(mac) == {e \in OnHost : e = mac}

(* The name of the link with the MAC address, if the host has one.         *)
GetInterfaceDeviceName(mac) == {name[e] : e \in getLinkByHardwareAddress(mac)}

(* The kernel takes a gateway that the link can reach.                     *)
Reachable(c, g) ==
    up[idx[c]] /\ (GwFam[g] \in addrs[idx[c]] \/ g \in LinkLocal)

(* A default route that is there already is taken for the one wanted.      *)
isRouteExistsError(c, f) == route[c][f] # None

-----------------------------------------------------------------------------
(* The runtime.  An ADD is repeated only after it has failed or after a    *)
(* DEL, in the same namespace or in a new one.                             *)

CreateNamespace(c) ==
    /\ ns[c] = "none"
    /\ ns' = [ns EXCEPT ![c] = "live"]
    /\ UNCHANGED <<links, blocked, route, pc, dev, idx, todo, phase, taken>>

DestroyNamespace(c) ==
    /\ ns[c] = "live"
    /\ ns' = [ns EXCEPT ![c] = "dying"]
    /\ UNCHANGED <<links, blocked, route, pc, dev, idx, todo, phase, taken>>

InvokeAdd(c) ==
    /\ pc[c] = "idle"
    /\ ns[c] = "live"
    /\ phase[c] = "none"
    /\ Cardinality({d \in Conts : pc[d] # "idle"}) < Parallel
    /\ pc' = [pc EXCEPT ![c] = "find"]
    /\ phase' = [phase EXCEPT ![c] = "adding"]
    /\ taken' = [taken EXCEPT ![c] = @ /\ In(c) # {}]
    /\ UNCHANGED <<links, spaces, dev, idx, todo>>

(* The plugin does nothing: only the runtime believes in a change.         *)
Del(c) ==
    /\ pc[c] = "idle"
    /\ phase[c] \in {"up", "lost"}
    /\ phase' = [phase EXCEPT ![c] = "none"]
    /\ UNCHANGED <<links, spaces, pc, dev, idx, todo, taken>>

-----------------------------------------------------------------------------
(* The host.                                                               *)

NameFree(n) == n \notin Busy /\ \A e \in OnHost : name[e] # n

(* Nothing keeps a link from coming to the host under the name that a      *)
(* command has found for another one.                                      *)
TakesName(c, e, n) == pc[c] = "link" /\ dev[c] = n /\ Conf[c].mac # e

ComesToHost(e, n) ==
    /\ at' = [at EXCEPT ![e] = Host]
    /\ name' = [name EXCEPT ![e] = n]
    /\ up' = [up EXCEPT ![e] = TRUE]
    /\ addrs' = [addrs EXCEPT ![e] = {}]
    /\ taken' = [c \in Conts |-> taken[c] \/ TakesName(c, e, n)]

Available == {n \in Names : NameFree(n)}

IsLowest(x, S) == x \in S /\ \A y \in S : x <= y

(* The kernel gives the lowest name that is free.                          *)
Attach(e) ==
    /\ at[e] = Nowhere
    /\ \E n \in Names : IsLowest(n, Available) /\ ComesToHost(e, n)
    /\ UNCHANGED <<spaces, pc, dev, idx, todo, phase>>

(* The families whose default route may go through another link of the     *)
(* container: only a link that is up has one.                              *)
NotThrough(e) ==
    {f \in Fam : \E c \in Conts : /\ at[e] = c /\ route[c][f] # None
                                 /\ \E d \in In(c) \ {e} : up[d]}

(* The link is gone wherever it is, with the routes that go through it; an *)
(* index that a process has of it is of no use any more.                   *)
Detach(e) ==
    /\ at[e] # Nowhere
    /\ at' = [at EXCEPT ![e] = Nowhere]
    /\ name' = [name EXCEPT ![e] = None]
    /\ up' = [up EXCEPT ![e] = FALSE]
    /\ addrs' = [addrs EXCEPT ![e] = {}]
    /\ \E stay \in SUBSET NotThrough(e) :
          route' = [c \in Conts |->
             IF at[e] = c
             THEN [f \in Fam |-> IF f \in stay THEN route[c][f] ELSE None]
             ELSE route[c]]
    /\ idx' = [c \in Conts |-> IF idx[c] = e THEN None ELSE idx[c]]
    /\ phase' = [c \in Conts |-> IF at[e] = c /\ phase[c] = "up"
                                    THEN "lost" ELSE phase[c]]
    /\ UNCHANGED <<ns, blocked, pc, dev, todo, taken>>

(* The kernel takes a namespace down when nobody has a handle of it.  An   *)
(* ENI in it comes back, under its name if nobody on the host has it.      *)
ReturnLink(c, e) ==
    /\ ns[c] = "dying" /\ ~Holds(c)
    /\ at[e] = c
    /\ \E n \in Names :
          /\ IF name[e] \in Available THEN n = name[e]
                                        ELSE IsLowest(n, Available)
          /\ ComesToHost(e, n)
    /\ route' = [route EXCEPT ![c] = NoRoutes]
    /\ UNCHANGED <<ns, blocked, pc, dev, idx, todo, phase>>

Reap(c) ==
    /\ ns[c] = "dying" /\ ~Holds(c)
    /\ In(c) = {}
    /\ ns' = [ns EXCEPT ![c] = "none"]
    /\ blocked' = [blocked EXCEPT ![c] = {}]
    /\ phase' = [phase EXCEPT ![c] = IF @ = "adding" THEN @ ELSE "none"]
    /\ UNCHANGED <<links, route, pc, dev, idx, todo, taken>>

(* The router of the subnet is heard by a link that is up, and the kernel  *)
(* adds an IPv6 default route if there is none.                            *)
Advertise(c) ==
    /\ \E e \in In(c) : up[e]
    /\ route[c][6] = None
    /\ route' = [route EXCEPT ![c][6] = Advertised]
    /\ UNCHANGED <<links, ns, blocked, pc, dev, idx, todo, phase, taken>>

-----------------------------------------------------------------------------
(* The command.  An error or the death of the process, anywhere.           *)
Stop(c) ==
    /\ "stop" \in Faults
    /\ pc[c] # "idle"
    /\ Fail(c)

(* A call on a link that has been detached fails.                          *)
LinkGone(c) ==
    /\ pc[c] \in {"move", "rename", "addr", "up", "gateway"}
    /\ idx[c] = None
    /\ Fail(c)

FindSwapped(c) ==                                                 \* mutation
    /\ pc[c] = "find"
    /\ IF NewConf(Conf[c]) /\ GetInterfaceDeviceName(Conf[c].mac) # {}
       THEN /\ pc' = [pc EXCEPT ![c] = "link"]
            /\ dev' = [dev EXCEPT ![c] = Conf[c].mac]
            /\ UNCHANGED <<links, spaces, idx, todo, phase, taken>>
       ELSE Fail(c)

(* The configuration is read, and the links of the host are scanned for    *)
(* the MAC address.                                                        *)
Find(c) ==
    /\ pc[c] = "find"
    /\ LET found == GetInterfaceDeviceName(Conf[c].mac) IN
       IF NewConf(Conf[c]) /\ found # {}
       THEN /\ \E n \in found : dev' = [dev EXCEPT ![c] = n]
            /\ pc' = [pc EXCEPT ![c] = "link"]
            /\ UNCHANGED <<links, spaces, idx, todo, phase, taken>>
       ELSE Fail(c)

(* The link is looked up again, now by its name; the namespace is opened.  *)
GetLink(c) ==
    /\ pc[c] = "link"
    /\ LET found == {e \in OnHost : name[e] = dev[c]} IN
       IF found # {} /\ ns[c] = "live"
       THEN /\ \E e \in found : idx' = [idx EXCEPT ![c] = e]
            /\ Goto(c, "move", {})
            /\ UNCHANGED <<links, spaces>>
       ELSE Fail(c)

(* A link that changes its namespace goes down and loses its addresses;    *)
(* the kernel refuses when it is no longer on the host or when the         *)
(* namespace has a link of its name.                                       *)
Move(c) ==
    /\ pc[c] = "move"
    /\ idx[c] # None
    /\ LET e == idx[c] IN
       IF at[e] = Host /\ \A d \in In(c) : name[d] # name[e]
       THEN /\ at' = [at EXCEPT ![e] = c]
            /\ up' = [up EXCEPT ![e] = FALSE]
            /\ addrs' = [addrs EXCEPT ![e] = {}]
            /\ Goto(c, IF Conf[c].stayDown THEN "print" ELSE "enter", {})
            /\ UNCHANGED <<name, spaces, idx>>
       ELSE Fail(c)

(* Only now are the gateways parsed; then the namespace is entered by its  *)
(* path, and the link is looked up by its name once more.                  *)
Enter(c) ==
    /\ pc[c] = "enter"
    /\ LET found == {e \in In(c) : name[e] = dev[c]} IN
       IF /\ newSetupNamespaceClosureContext(Conf[c])
          /\ ns[c] = "live" /\ found # {}
       THEN /\ \E e \in found : idx' = [idx EXCEPT ![c] = e]
            /\ Goto(c, "rename", {})
            /\ UNCHANGED <<links, spaces>>
       ELSE Fail(c)

Rename(c) ==
    /\ pc[c] = "rename"
    /\ idx[c] # None
    /\ IF \E d \in In(c) : d # idx[c] /\ name[d] = Conf[c].ifName
       THEN Fail(c)
       ELSE /\ name' = [name EXCEPT ![idx[c]] = Conf[c].ifName]
            /\ Goto(c, "addr", Conf[c].addrs)
            /\ UNCHANGED <<at, up, addrs, spaces, idx>>

(* The addresses, in the order of the configuration.                       *)
AddAddr(c) ==
    /\ pc[c] = "addr"
    /\ idx[c] # None
    /\ \E f \in todo[c] :
          /\ addrs' = [addrs EXCEPT ![idx[c]] = @ \cup {f}]
          /\ IF todo[c] = {f} THEN Goto(c, "up", {})
                              ELSE Goto(c, "addr", todo[c] \ {f})
    /\ UNCHANGED <<at, name, up, spaces, idx>>

BringUp(c) ==
    /\ pc[c] = "up"
    /\ idx[c] # None
    /\ up' = [up EXCEPT ![idx[c]] = TRUE]
    /\ GotoBlock(c)
    /\ UNCHANGED <<at, name, addrs, spaces, idx>>

BlockIMDSUntilExists(c) ==                                        \* mutation
    /\ pc[c] = "block"
    /\ \E f \in Fam :
          /\ IsLowest(f, todo[c])
          /\ blocked' = [blocked EXCEPT ![c] = @ \cup {f}]
          /\ IF f \in blocked[c] \/ todo[c] = {f}
             THEN GotoGateways(c)
             ELSE Goto(c, "block", todo[c] \ {f})
    /\ UNCHANGED <<links, ns, route, idx>>

(* The blackhole routes, IPv4 first; one that exists is no error.          *)
BlockIMDS(c) ==
    /\ pc[c] = "block"
    /\ \E f \in Fam :
          /\ IsLowest(f, todo[c])
          /\ blocked' = [blocked EXCEPT ![c] = @ \cup {f}]
          /\ IF todo[c] = {f} THEN GotoGateways(c)
                              ELSE Goto(c, "block", todo[c] \ {f})
    /\ UNCHANGED <<links, ns, route, idx>>

AddGatewayAgain(c) ==                                             \* mutation
    /\ pc[c] = "gateway"
    /\ idx[c] # None
    /\ \E g \in todo[c] :
          LET f == GwFam[g] IN
          /\ route[c][f] = None
          /\ route' = [route EXCEPT ![c][f] = g]
          /\ IF todo[c] = {g} THEN Goto(c, "print", {})
                              ELSE Goto(c, "gateway", todo[c] \ {g})
    /\ UNCHANGED <<links, ns, blocked, idx>>

AddGatewayOne(c) ==                                               \* mutation
    /\ pc[c] = "gateway"
    /\ idx[c] # None
    /\ \E g \in todo[c] :
          LET f == GwFam[g] IN
          IF isRouteExistsError(c, f) \/ Reachable(c, g)
          THEN /\ route' = IF isRouteExistsError(c, f) THEN route
                          ELSE [route EXCEPT ![c][f] = g]
               /\ Goto(c, "print", {})
               /\ UNCHANGED <<links, ns, blocked, idx>>
          ELSE Fail(c)

(* A default route per gateway.  That there is one already is no error,    *)
(* whichever gateway it has and whoever added it.                          *)
AddGateway(c) ==
    /\ pc[c] = "gateway"
    /\ idx[c] # None
    /\ \E g \in todo[c] :
          LET f == GwFam[g] IN
          IF isRouteExistsError(c, f) \/ Reachable(c, g)
          THEN /\ route' = IF isRouteExistsError(c, f) THEN route
                          ELSE [route EXCEPT ![c][f] = g]
               /\ IF todo[c] = {g} THEN Goto(c, "print", {})
                                   ELSE Goto(c, "gateway", todo[c] \ {g})
               /\ UNCHANGED <<links, ns, blocked, idx>>
          ELSE Fail(c)

(* The result names the ENI's MAC address and the name it had on the host. *)
(* The runtime cannot know that the link was detached meanwhile.           *)
PrintResult(c) ==
    /\ pc[c] = "print"
    /\ End(c, IF idx[c] = None THEN "lost" ELSE "up")

Step(c) ==
    \/ LinkGone(c) \/ Find(c) \/ GetLink(c) \/ Move(c) \/ Enter(c) \/ Rename(c)
    \/ AddAddr(c) \/ BringUp(c) \/ BlockIMDS(c) \/ AddGateway(c)
    \/ PrintResult(c)

Runtime(c) ==
    CreateNamespace(c) \/ DestroyNamespace(c) \/ InvokeAdd(c) \/ Del(c)

TakeDown(c) == Reap(c) \/ \E e \in Enis : ReturnLink(c, e)

Next ==
    \/ \E c \in Conts : \/ Step(c) \/ Stop(c) \/ Runtime(c) \/ TakeDown(c)
                       \/ Advertise(c)
    \/ \E e \in Enis : Attach(e) \/ Detach(e)

Spec == Init /\ [][Next]_vars

(* A process that can go on does, and the kernel cleans up.                *)
Fairness == \A c \in Conts : WF_vars(Step(c)) /\ WF_vars(TakeDown(c))

FairSpec == Spec /\ Fairness

-----------------------------------------------------------------------------
(* What an ADD has to have done when it reports the container.             *)
Ready(c) ==
    LET n == Conf[c]
        e == n.mac
    IN  IF n.stayDown
        THEN at[e] = c /\ ~up[e]
        ELSE /\ at[e] = c /\ name[e] = n.ifName /\ up[e]
             /\ addrs[e] = n.addrs
             /\ n.block => blocked[c] = Fam
             /\ \A g \in n.gws : \E h \in n.gws \cup {Advertised} :
                   /\ route[c][GwFam[g]] = h
                   /\ h = Advertised \/ GwFam[h] = GwFam[g]

(* A container that has been reported, and whose ENI was not detached, has *)
(* that ENI, completely configured, whatever earlier attempts left in the  *)
(* namespace and whatever the commands of the others do; hence no ENI is   *)
(* reported to two containers.  Only when the name of the ENI was taken    *)
(* while the command was between its two look-ups is this not promised.    *)
ReportedIsReady ==
    \A c \in Conts :
        phase[c] = "up" /\ ns[c] = "live" /\ ~taken[c] => Ready(c)

(* The ENI in a container is the one its configuration names, although its *)
(* link is looked up three times, once by MAC address and twice by name,   *)
(* and links come, go and are renamed all the time.  There is one window,  *)
(* and no other: a link that takes the name between the first look-up and  *)
(* the second is moved and configured in the place of the ENI.             *)
ForeignOnlyTaken ==
    \A c \in Conts : \A e \in In(c) : Conf[c].mac = e \/ taken[c]

(* A container that must not reach IMDS is given no default route, at no   *)
(* moment and after no failure, before both blackhole routes are there.    *)
(* Only the router may be faster.                                          *)
BlockedFirst ==
    \A c \in Conts, f \in Fam :
        Conf[c].block /\ route[c][f] \notin {None, Advertised} => blocked[c] = Fam

(* An ENI is back on the host, or detached, some time after the namespace  *)
(* it was in is destroyed, whichever command was running in it: DEL leaves *)
(* this to the kernel.                                                     *)
ENIReturns == \A c \in Conts : (ns[c] = "dying" /\ In(c) # {}) ~> (In(c) = {})
=============================================================================
