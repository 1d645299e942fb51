------------------------------- MODULE Bridge -------------------------------
(***************************************************************************)
(* The ecs-bridge plugin: plugins/ecs-bridge/commands and engine.          *)
(*                                                                         *)
(* The runtime runs one process per ADD or DEL command, at most one per    *)
(* container at a time, so that a process is named by its container.  The  *)
(* processes share the host's bridge, without any lock, and the address    *)
(* store behind the ipam plugin, here the ledger that IPAM implements.     *)
(* An action is one change of what is shared, or the changes made to one   *)
(* container's namespace between two of them.  A command that stops, by    *)
(* an error of the kernel or because it is killed, undoes nothing.         *)
(***************************************************************************)
EXTENDS Naturals, FiniteSets, FiniteSetsExt

CONSTANTS
    Conts,      \* the containers: a network namespace, an interface name
    Conf,       \* the network configuration of each
    Addr,       \* the addresses of a family that containers can get
    Free,       \* the owner of an address nobody owns
    Gateways,   \* the addresses, with their masks, a bridge can get
    LinkLocal,  \* those that are link-local
    HostMac,    \* the MAC address of the host end of a container's veth
    IPv6,       \* does an interface get a link-local IPv6 address?
    Bridges,    \* what may have the bridge's name before the first command
    IPAMGiven,  \* is an ipam configuration given to a command?
    Parallel,   \* how many commands the runtime runs at the same time
    Faults      \* which of "stop" and "ipam" may happen

Fam == {4, 6}

Key == Fam \X Addr

(* fams: the families configured; gw: their gateways; wide: the families   *)
(* whose addresses have a mask shorter than a host's; daemon: those with a *)
(* connected subnet mask size; named: those whose address an ADD names;    *)
(* block: is IMDS to be blocked?                                           *)
NetConf == [fams : (SUBSET Fam) \ {{}}, gw : [Fam -> Gateways],
            wide : SUBSET Fam, daemon : SUBSET Fam, named : SUBSET Fam,
            block : BOOLEAN]

ASSUME ConfAssumption == Conf \in [Conts -> NetConf]

ASSUME FreeAssumption == Free \notin Conts

ASSUME MacAssumption == HostMac \in [Conts -> Nat \ {0}]

ASSUME BridgeAssumption == Bridges \subseteq {"none", "other"}

VARIABLES
    br,       \* the link with the bridge's name
    link,     \* the veth pair of each container
    blocked,  \* per namespace, the families with a blackhole for IMDS
    owner,    \* the ledger of the ipam plugin
    held,     \* what the runtime believes: addresses of live containers
    pc,       \* where each command is
    todo,     \* the families a loop over result.IPs has not come to yet
    ips,      \* the addresses in the result of the ipam plugin
    phase     \* what the runtime knows of each container

vars == <<br, link, blocked, owner, held, pc, todo, ips, phase>>

(* A MAC address the plugin has set is named by the container of the ADD   *)
(* that drew it.                                                           *)
Inherited == Free

Link == [kind : {"none", "bridge", "other"}, mac : Conts \cup {Inherited},
         up : BOOLEAN, addrs : [Fam -> SUBSET Gateways]]

NewLinkOneFamily(kind) ==                                         \* mutation
    [kind |-> kind, mac |-> Inherited, up |-> FALSE,
     addrs |-> [f \in {4} |-> {}]]

NewLink(kind) == [kind |-> kind, mac |-> Inherited, up |-> FALSE,
                  addrs |-> [f \in Fam |-> {}]]

Route == {"gateway", "ipam", "subnet"} \X Fam

Veth == [exists : BOOLEAN, up : BOOLEAN, attached : BOOLEAN,
         addrs : SUBSET Key, routes : SUBSET Route]

Unused(exists, up) == [exists |-> exists, up |-> up, attached |-> FALSE,
                       addrs |-> {}, routes |-> {}]

NoVeth == Unused(FALSE, FALSE)

AddSteps == {"lookup", "linkAdd", "setMac", "lookupAgain", "setUp", "veth",
             "attach", "ipamAdd", "list", "addrAdd", "configure", "imds",
             "print"}

DelSteps == {"ipamDel", "deleteVeth"}

Steps == {"idle"} \cup AddSteps \cup DelSteps

Phases == {"new", "add", "ready", "addFailed", "del", "gone", "delFailed"}

Use == [id : Conts, key : Key]

TypeOK ==
    /\ br \in Link
    /\ link \in [Conts -> Veth]
    /\ blocked \in [Conts -> SUBSET Fam]
    /\ owner \in [Key -> Conts \cup {Free}]
    /\ held \subseteq Use
    /\ pc \in [Conts -> Steps]
    /\ todo \in [Conts -> SUBSET Fam]
    /\ ips \in [Conts -> SUBSET Key]
    /\ phase \in [Conts -> Phases]

Init ==
    /\ \E kind \in Bridges : br = NewLink(kind)
    /\ link = [c \in Conts |-> NoVeth]
    /\ blocked = [c \in Conts |-> {}]
    /\ owner = [k \in Key |-> Free]
    /\ held = {}
    /\ pc = [c \in Conts |-> "idle"]
    /\ todo = [c \in Conts |-> {}]
    /\ ips = [c \in Conts |-> {}]
    /\ phase = [c \in Conts |-> "new"]

-----------------------------------------------------------------------------
(* Helpers.                                                                *)

Goto(c, step) == pc' = [pc EXCEPT ![c] = step]

(* The process is gone, and the runtime has learnt how it ended.           *)
End(c, how) ==
    /\ Goto(c, "idle")
    /\ todo' = [todo EXCEPT ![c] = {}]
    /\ ips' = [ips EXCEPT ![c] = {}]
    /\ phase' = [phase EXCEPT ![c] = how]

Fail(c) == End(c, IF phase[c] = "add" THEN "addFailed" ELSE "delFailed")

(* The loops take IPv4 first.                                              *)
Current(c) == IF 4 \in todo[c] THEN 4 ELSE 6

Gw(c) == Conf[c].gw[Current(c)]

(* The loop goes on, and to another step when it is done.                  *)
NextFamily(c, loop, step) ==
    /\ todo' = [todo EXCEPT ![c] = @ \ {Current(c)}]
    /\ Goto(c, IF todo[c] = {Current(c)} THEN step ELSE loop)

Ports == {c \in Conts : link[c].attached}

(* A bridge that was not given a MAC address has the lowest of its ports.  *)
MacOf(m, ports) ==
    IF m # Inherited THEN <<"static", m>>
    ELSE <<"lowest", IF ports = {} THEN 0 ELSE Min({HostMac[c] : c \in ports})>>

BridgeMac == MacOf(br.mac, Ports)

Owned(c) == {k \in Key : owner[k] = c}

-----------------------------------------------------------------------------
(* The runtime and the host.                                               *)

CanStart(c) ==
    /\ pc[c] = "idle"
    /\ Cardinality({d \in Conts : pc[d] # "idle"}) < Parallel

(* Without an ipam configuration a command ends at its first log message,  *)
(* which reads the type of the configuration through a nil pointer.        *)
InvokeAdd(c) ==
    /\ CanStart(c)
    /\ phase[c] # "ready"
    /\ \/ /\ TRUE \in IPAMGiven
          /\ phase' = [phase EXCEPT ![c] = "add"]
          /\ Goto(c, "lookup")
       \/ /\ FALSE \in IPAMGiven
          /\ phase' = [phase EXCEPT ![c] = "addFailed"]
          /\ UNCHANGED pc
    /\ UNCHANGED <<br, link, blocked, owner, held, todo, ips>>

(* A container that is being deleted does not use its addresses any more.  *)
InvokeDel(c) ==
    /\ CanStart(c)
    /\ held' = {u \in held : u.id # c}
    /\ \/ /\ TRUE \in IPAMGiven
          /\ phase' = [phase EXCEPT ![c] = "del"]
          /\ todo' = [todo EXCEPT ![c] = Fam]
          /\ Goto(c, "ipamDel")
       \/ /\ FALSE \in IPAMGiven
          /\ phase' = [phase EXCEPT ![c] = "delFailed"]
          /\ UNCHANGED <<pc, todo>>
    /\ UNCHANGED <<br, link, blocked, owner, ips>>

(* A namespace that goes takes its end of the pair with it, and the other  *)
(* end.  The next container of that name starts in a new one.              *)
DestroyNamespace(c) ==
    /\ pc[c] = "idle"
    /\ phase[c] \notin {"new", "ready"}
    /\ link' = [link EXCEPT ![c] = NoVeth]
    /\ blocked' = [blocked EXCEPT ![c] = {}]
    /\ phase' = [phase EXCEPT ![c] = "new"]
    /\ UNCHANGED <<br, owner, held, pc, todo, ips>>

(* Someone deletes the bridge nothing is connected to.                     *)
DeleteBridge ==
    /\ br.kind = "bridge"
    /\ \A c \in Conts : pc[c] = "idle" /\ ~link[c].exists
    /\ br' = NewLink("none")
    /\ UNCHANGED <<link, blocked, owner, held, pc, todo, ips, phase>>

(* A command is killed, or a call it makes fails.                          *)
Stop(c) ==
    /\ "stop" \in Faults
    /\ pc[c] # "idle"
    /\ Fail(c)
    /\ UNCHANGED <<br, link, blocked, owner, held>>

-----------------------------------------------------------------------------
(* ADD: CreateBridge.                                                      *)

LookupBridgeUp(c) ==                                              \* mutation
    /\ pc[c] \in {"lookup", "lookupAgain"}
    /\ br.kind # "other"
    /\ Goto(c, IF br.kind = "none" THEN "linkAdd"
               ELSE IF pc[c] = "lookup" THEN "veth" ELSE "setUp")
    /\ UNCHANGED <<br, link, blocked, owner, held, todo, ips, phase>>

LookupBridge(c) ==
    /\ pc[c] \in {"lookup", "lookupAgain"}
    /\ \/ /\ br.kind = "bridge"
          /\ Goto(c, "setUp")
          /\ UNCHANGED <<todo, ips, phase>>
       \/ /\ br.kind = "other"
          /\ Fail(c)
       \/ /\ br.kind = "none" /\ pc[c] = "lookup"
          /\ Goto(c, "linkAdd")
          /\ UNCHANGED <<todo, ips, phase>>
    /\ UNCHANGED <<br, link, blocked, owner, held>>

AddBridgeLinkGoOn(c) ==                                           \* mutation
    /\ pc[c] = "linkAdd"
    /\ br' = IF br.kind = "none" THEN NewLink("bridge") ELSE br
    /\ Goto(c, "setMac")
    /\ UNCHANGED <<link, blocked, owner, held, todo, ips, phase>>

(* That the link exists by now is no error, and leaves it to its creator   *)
(* to set the MAC address.                                                 *)
AddBridgeLink(c) ==
    /\ pc[c] = "linkAdd"
    /\ IF br.kind = "none"
       THEN /\ br' = NewLink("bridge")
            /\ Goto(c, "setMac")
       ELSE /\ Goto(c, "lookupAgain")
            /\ UNCHANGED br
    /\ UNCHANGED <<link, blocked, owner, held, todo, ips, phase>>

SetBridgeMac(c) ==
    /\ pc[c] = "setMac"
    /\ br' = [br EXCEPT !.mac = c]
    /\ Goto(c, "lookupAgain")
    /\ UNCHANGED <<link, blocked, owner, held, todo, ips, phase>>

SetBridgeUp(c) ==
    /\ pc[c] = "setUp"
    /\ br' = [br EXCEPT !.up = TRUE]
    /\ Goto(c, "veth")
    /\ UNCHANGED <<link, blocked, owner, held, todo, ips, phase>>

-----------------------------------------------------------------------------
(* ADD: the veth pair.                                                     *)

(* The pair may be left without its ends being up.                         *)
SetupVeth(c) ==
    /\ pc[c] = "veth"
    /\ \/ /\ link[c].exists
          /\ Fail(c)
          /\ UNCHANGED link
       \/ /\ ~link[c].exists
          /\ link' = [link EXCEPT ![c] = Unused(TRUE, TRUE)]
          /\ Goto(c, "attach")
          /\ UNCHANGED <<todo, ips, phase>>
       \/ /\ ~link[c].exists /\ "stop" \in Faults
          /\ link' = [link EXCEPT ![c] = Unused(TRUE, FALSE)]
          /\ Fail(c)
    /\ UNCHANGED <<br, blocked, owner, held>>

AttachHostVeth(c) ==
    /\ pc[c] = "attach"
    /\ link' = [link EXCEPT ![c].attached = TRUE]
    /\ todo' = [todo EXCEPT ![c] = Conf[c].fams]
    /\ Goto(c, "ipamAdd")
    /\ UNCHANGED <<br, blocked, owner, held, ips, phase>>

-----------------------------------------------------------------------------
(* ADD: the ipam plugin, one family after the other.                       *)

(* A named IPv6 address is stored under an id of its own: "-v6" is         *)
(* appended to the container's.                                            *)
Apart(c, f) == f = 6 /\ f \in Conf[c].named

(* It refuses an id that has an address, but does not see those stored     *)
(* apart; and a subnet that is full.                                       *)
CanAssign(c) ==
    /\ Apart(c, Current(c)) \/ \A k \in Owned(c) : k[1] # Current(c)
    /\ \E a \in Addr : owner[<<Current(c), a>>] = Free

(* It refuses an address that is named and taken, whoever has taken it.    *)
NamesTaken(c) ==
    /\ Current(c) \in Conf[c].named
    /\ \E a \in Addr : owner[<<Current(c), a>>] # Free

IPAMAssignAny(c) ==                                               \* mutation
    /\ pc[c] = "ipamAdd"
    /\ CanAssign(c)
    /\ \E a \in Addr :
          /\ owner' = [owner EXCEPT ![<<Current(c), a>>] = c]
          /\ ips' = [ips EXCEPT ![c] = @ \cup {<<Current(c), a>>}]
    /\ todo' = [todo EXCEPT ![c] = IF @ = {Current(c)} THEN Conf[c].fams
                                   ELSE @ \ {Current(c)}]
    /\ Goto(c, IF todo[c] = {Current(c)} THEN "list" ELSE "ipamAdd")
    /\ UNCHANGED <<br, link, blocked, held, phase>>

IPAMAssign(c) ==
    /\ pc[c] = "ipamAdd"
    /\ CanAssign(c)
    /\ \E a \in Addr :
          /\ owner[<<Current(c), a>>] = Free
          /\ owner' = [owner EXCEPT ![<<Current(c), a>>] = c]
          /\ ips' = [ips EXCEPT ![c] = @ \cup {<<Current(c), a>>}]
    /\ IF todo[c] = {Current(c)}
       THEN /\ todo' = [todo EXCEPT ![c] = Conf[c].fams]
            /\ Goto(c, "list")
       ELSE /\ todo' = [todo EXCEPT ![c] = @ \ {Current(c)}]
            /\ UNCHANGED pc
    /\ UNCHANGED <<br, link, blocked, held, phase>>

IPAMRefuseUnseen(c) ==                                            \* mutation
    /\ pc[c] = "ipamAdd"
    /\ ~CanAssign(c) \/ NamesTaken(c) \/ "ipam" \in Faults
    /\ todo' = [todo EXCEPT ![c] = Conf[c].fams]
    /\ Goto(c, "list")
    /\ UNCHANGED <<br, link, blocked, owner, held, ips, phase>>

(* What it has assigned before stays assigned.                             *)
IPAMRefuse(c) ==
    /\ pc[c] = "ipamAdd"
    /\ ~CanAssign(c) \/ NamesTaken(c) \/ "ipam" \in Faults
    /\ Fail(c)
    /\ UNCHANGED <<br, link, blocked, owner, held>>

-----------------------------------------------------------------------------
(* ADD: ConfigureBridge, one family after the other.                       *)

ConflictIPv4(f, addrs) == f = 4 /\ addrs # {}                     \* mutation

(* Every other address is a conflict, but for link-local ones of IPv6.     *)
Conflict(f, addrs) == (IF f = 6 THEN addrs \ LinkLocal ELSE addrs) # {}

ListBridgeAddrsAny(c) ==                                          \* mutation
    /\ pc[c] = "list"
    /\ IF br.addrs[Current(c)] # {} THEN NextFamily(c, "list", "configure")
       ELSE /\ Goto(c, "addrAdd")
            /\ UNCHANGED todo
    /\ UNCHANGED <<br, link, blocked, owner, held, ips, phase>>

ListBridgeAddrs(c) ==
    LET f == Current(c) IN
    /\ pc[c] = "list"
    /\ \/ /\ Gw(c) \in br.addrs[f]
          /\ NextFamily(c, "list", "configure")
          /\ UNCHANGED <<ips, phase>>
       \/ /\ Gw(c) \notin br.addrs[f] /\ Conflict(f, br.addrs[f])
          /\ Fail(c)
       \/ /\ Gw(c) \notin br.addrs[f] /\ ~Conflict(f, br.addrs[f])
          /\ Goto(c, "addrAdd")
          /\ UNCHANGED <<todo, ips, phase>>
    /\ UNCHANGED <<br, link, blocked, owner, held>>

(* That the address exists by now is no error.                             *)
AddBridgeAddr(c) ==
    /\ pc[c] = "addrAdd"
    /\ br' = [br EXCEPT !.addrs[Current(c)] = @ \cup {Gw(c)}]
    /\ NextFamily(c, "list", "configure")
    /\ UNCHANGED <<link, blocked, owner, held, ips, phase>>

-----------------------------------------------------------------------------
(* ADD: the container's end.                                               *)

ConfigureVethFirst(c) ==                                          \* mutation
    /\ pc[c] \in {"list", "configure"}
    /\ link' = [link EXCEPT ![c].addrs = ips[c],
                            ![c].routes = {"gateway", "ipam"} \X Conf[c].fams]
    /\ Goto(c, IF Conf[c].block THEN "imds" ELSE "print")
    /\ UNCHANGED <<br, blocked, owner, held, todo, ips, phase>>

(* The veth pair when the first n of five loops are done and the next one  *)
(* has come past the families of part.  The loops add the routes to the    *)
(* gateways, the addresses, the routes of the result; remove the connected *)
(* routes nobody asked for; add those that were asked for.  With an        *)
(* address whose mask is shorter than a host's the kernel adds a connected *)
(* route.  That the link is up and its hardware address are left out.      *)
Configured(c, n, part) ==
    LET done(loop) == IF loop <= n THEN Conf[c].fams
                      ELSE IF loop = n + 1 THEN part ELSE {}
        connected == done(2) \cap Conf[c].wide
        kept == connected \ (done(4) \ Conf[c].daemon)
    IN  [link[c] EXCEPT
            !.addrs = {k \in ips[c] : k[1] \in done(2)},
            !.routes = ({"gateway"} \X done(1)) \cup ({"ipam"} \X done(3))
                          \cup ({"subnet"} \X (kept \cup
                                                (done(5) \cap Conf[c].daemon)))]

ConfigureVeth(c) ==
    /\ pc[c] = "configure"
    /\ \/ /\ link' = [link EXCEPT ![c] = Configured(c, 5, {})]
          /\ Goto(c, IF Conf[c].block THEN "imds" ELSE "print")
          /\ UNCHANGED <<todo, ips, phase>>
       \/ /\ "stop" \in Faults
          /\ \E n \in 0..4, part \in SUBSET (Conf[c].fams \ {6}) :
                link' = [link EXCEPT ![c] = Configured(c, n, part)]
          /\ Fail(c)
    /\ UNCHANGED <<br, blocked, owner, held>>

(* Both endpoints are blocked, whatever the families of the container; a   *)
(* route that exists is no error.                                          *)
BlockIMDS(c) ==
    /\ pc[c] = "imds"
    /\ \/ /\ blocked' = [blocked EXCEPT ![c] = Fam]
          /\ Goto(c, "print")
          /\ UNCHANGED <<todo, ips, phase>>
       \/ /\ "stop" \in Faults
          /\ blocked' = [blocked EXCEPT ![c] = @ \cup {4}]
          /\ Fail(c)
    /\ UNCHANGED <<br, link, owner, held>>

(* The runtime takes the container to be up.                               *)
PrintResult(c) ==
    /\ pc[c] = "print"
    /\ held' = held \cup [id : {c}, key : ips[c]]
    /\ End(c, "ready")
    /\ UNCHANGED <<br, link, blocked, owner>>

-----------------------------------------------------------------------------
(* DEL.                                                                    *)

IPAMReleaseOneFamily(c) ==                                        \* mutation
    /\ pc[c] = "ipamDel"
    /\ IF \E k \in Owned(c) : k[1] = Current(c)
       THEN \E k \in Owned(c) :
               k[1] = Current(c) /\ owner' = [owner EXCEPT ![k] = Free]
       ELSE UNCHANGED owner
    /\ todo' = [todo EXCEPT ![c] = {}]
    /\ Goto(c, "deleteVeth")
    /\ UNCHANGED <<br, link, blocked, held, ips, phase>>

IPAMReleaseAnyId(c) ==                                            \* mutation
    /\ pc[c] = "ipamDel"
    /\ \E k \in Key : k[1] = Current(c) /\ owner' = [owner EXCEPT ![k] = Free]
    /\ NextFamily(c, "ipamDel", "deleteVeth")
    /\ UNCHANGED <<br, link, blocked, held, ips, phase>>

(* The ipam plugin releases the first address of each family that is       *)
(* stored under the container's id, and none that is stored apart.         *)
IPAMRelease(c) ==
    /\ pc[c] = "ipamDel"
    /\ \/ /\ ~Apart(c, Current(c))
          /\ \E k \in Owned(c) :
                k[1] = Current(c) /\ owner' = [owner EXCEPT ![k] = Free]
       \/ /\ Apart(c, Current(c)) \/ \A k \in Owned(c) : k[1] # Current(c)
          /\ UNCHANGED owner
    /\ NextFamily(c, "ipamDel", "deleteVeth")
    /\ UNCHANGED <<br, link, blocked, held, ips, phase>>

(* That it fails is only logged.                                           *)
IPAMReleaseFails(c) ==
    /\ pc[c] = "ipamDel"
    /\ "ipam" \in Faults
    /\ todo' = [todo EXCEPT ![c] = {}]
    /\ Goto(c, "deleteVeth")
    /\ UNCHANGED <<br, link, blocked, owner, held, ips, phase>>

(* The interface is deleted by an address, of IPv4 first, then of IPv6.    *)
HasAddr(c) ==
    \/ link[c].addrs # {}
    \/ IPv6 /\ link[c].up

DeleteVeth(c) ==
    /\ pc[c] = "deleteVeth"
    /\ IF link[c].exists /\ ~HasAddr(c)
       THEN /\ Fail(c)
            /\ UNCHANGED link
       ELSE /\ End(c, "gone")
            /\ link' = [link EXCEPT ![c] = NoVeth]
    /\ UNCHANGED <<br, blocked, owner, held>>

-----------------------------------------------------------------------------
Runtime(c) == InvokeAdd(c) \/ InvokeDel(c) \/ DestroyNamespace(c)

Add(c) ==
    \/ LookupBridge(c) \/ AddBridgeLink(c) \/ SetBridgeMac(c)
    \/ SetBridgeUp(c) \/ SetupVeth(c) \/ AttachHostVeth(c)
    \/ IPAMAssign(c) \/ IPAMRefuse(c)
    \/ ListBridgeAddrs(c) \/ AddBridgeAddr(c)
    \/ ConfigureVeth(c) \/ BlockIMDS(c) \/ PrintResult(c)

Del(c) == IPAMRelease(c) \/ IPAMReleaseFails(c) \/ DeleteVeth(c)

Next ==
    \/ \E c \in Conts : Runtime(c) \/ Add(c) \/ Del(c) \/ Stop(c)
    \/ DeleteBridge

Spec == Init /\ [][Next]_vars

-----------------------------------------------------------------------------
(* Properties.                                                             *)

(* A container whose ADD was reported stays what it was reported to be,    *)
(* whatever the commands of the other containers do and wherever they      *)
(* stop: connected to a bridge that is up and has its gateways, with one   *)
(* address of its own per family, with the routes that were asked for and  *)
(* no others, and without IMDS if that was asked for.  It owns no address  *)
(* that is not on its interface, but for those stored apart, which stay    *)
(* from an ADD that failed.                                                *)
Ready(c) ==
    LET conf == Conf[c] IN
    /\ br.kind = "bridge" /\ br.up
    /\ \A f \in conf.fams : conf.gw[f] \in br.addrs[f]
    /\ link[c].attached
    /\ link[c].addrs \subseteq Owned(c)
    /\ \A k \in Owned(c) \ link[c].addrs : Apart(c, k[1])
    /\ \A f \in Fam : Cardinality({k \in link[c].addrs : k[1] = f})
                        = IF f \in conf.fams THEN 1 ELSE 0
    /\ link[c].routes = ({"gateway", "ipam"} \X conf.fams)
                           \cup ({"subnet"} \X (conf.fams \cap conf.daemon))
    /\ conf.block => blocked[c] = Fam

ReportedIsReady == \A c \in Conts : phase[c] = "ready" => Ready(c)

(* "The gateway IP exists before container routes": at no moment, and in   *)
(* no namespace an ADD that failed has left behind, is there a route to a  *)
(* gateway the bridge does not have.                                       *)
GatewayBeforeRoutes ==
    \A c \in Conts, f \in Fam :
        (\E r \in link[c].routes : r[2] = f) => Conf[c].gw[f] \in br.addrs[f]

(* The MAC address the plugin gave the bridge is never replaced by that of *)
(* another ADD: the one that finds the bridge there leaves it alone.       *)
MacSetOnce ==
    [][br.mac # Inherited => br'.mac = br.mac \/ br'.kind = "none"]_br

(* "Explicitly setting a static MAC address solves this problem": the MAC  *)
(* address does not change under a container that is up.                   *)
BridgeMacStable ==
    [][(\E c \in Conts : phase[c] = "ready" /\ phase'[c] = "ready")
          => BridgeMac' = BridgeMac]_<<br, link>>

(* All the containers that are up on the bridge have one gateway per       *)
(* family; link-local ones do not count.                                   *)
OneGateway ==
    \A c, d \in Conts, f \in Fam :
        phase[c] = "ready" /\ phase[d] = "ready"
                           /\ f \in Conf[c].fams \cap Conf[d].fams
          => \/ Conf[c].gw[f] = Conf[d].gw[f]
             \/ f = 6 /\ {Conf[c].gw[f], Conf[d].gw[f]} \cap LinkLocal # {}

(* After a DEL nothing of the container is left, wherever the ADDs and the *)
(* DELs before it stopped: not its interface, not its addresses, but for   *)
(* those stored apart.  It takes an ipam plugin that does not fail, for    *)
(* the DEL would not tell.                                                 *)
DelTakesAllBack ==
    \A c \in Conts : phase[c] = "gone" =>
        ~link[c].exists /\ \A k \in Owned(c) : Apart(c, k[1])

(* "IPAM configuration not found, skip DEL for IPAM": when no call fails,  *)
(* a DEL fails only if the interface has no address to be found by.        *)
DelNeedsNoIPAM == \A c \in Conts : phase[c] = "delFailed" => ~HasAddr(c)

(* An interface has no address that its container does not own.  The one   *)
(* exception is a DEL that has returned the address and not yet deleted    *)
(* the interface, or never will: nothing else strands an address.          *)
OnlyDelStrands ==
    [][\A c \in Conts :
          link[c].addrs \subseteq Owned(c) /\ ~(link[c].addrs \subseteq Owned(c))'
            => pc[c] = "ipamDel"]_<<link, owner>>

(* The plugin uses the addresses of the ipam plugin as the ledger asks.    *)
Ledger == INSTANCE AddressLedger WITH Holder <- Conts, Reserver <- {}

ImplementsLedger == Ledger!Spec
=============================================================================
