---------------------------- MODULE BridgeProofs ----------------------------
(***************************************************************************)
(* Proofs about Bridge, for every number of containers, addresses and      *)
(* gateways, every configuration and every choice of faults.               *)
(***************************************************************************)
EXTENDS Bridge, TLAPS

-----------------------------------------------------------------------------
(* The operators the actions are built from.                               *)

(* The family a loop has come to is a family.                              *)
LEMMA CurrentFam == ASSUME NEW c PROVE Current(c) \in Fam
BY DEF Current, Fam

(* A container's gateway is a gateway.                                     *)
LEMMA GwGateway == ASSUME NEW c \in Conts PROVE Gw(c) \in Gateways
BY CurrentFam, ConfAssumption DEF Gw, NetConf

(* A new link is a link without a MAC address of its own.                  *)
LEMMA NewLinkType ==
    ASSUME NEW kind \in {"none", "bridge", "other"}
    PROVE  /\ NewLink(kind) \in Link
           /\ NewLink(kind).kind = kind
           /\ NewLink(kind).mac = Inherited
BY DEF NewLink, Link

(* No veth pair is a veth pair, and so is an unused one; none has a route. *)
LEMMA UnusedType ==
    ASSUME NEW e \in BOOLEAN, NEW u \in BOOLEAN
    PROVE  Unused(e, u) \in Veth /\ Unused(e, u).exists = e
                                /\ Unused(e, u).routes = {}
BY DEF Unused, Veth

LEMMA NoVethType == NoVeth \in Veth /\ ~NoVeth.exists /\ NoVeth.routes = {}
BY UnusedType DEF NoVeth

(* Attaching the host end changes nothing else.                            *)
LEMMA AttachedType ==
    ASSUME NEW v \in Veth
    PROVE  /\ [v EXCEPT !.attached = TRUE] \in Veth
           /\ [v EXCEPT !.attached = TRUE].exists = v.exists
           /\ [v EXCEPT !.attached = TRUE].routes = v.routes
BY DEF Veth

(* Configuring a veth pair changes its addresses and its routes, which are *)
(* routes of the configured families.                                      *)
LEMMA ConfiguredType ==
    ASSUME TypeOK, NEW c \in Conts, NEW n, NEW part \in SUBSET Conf[c].fams
    PROVE  /\ Configured(c, n, part) \in Veth
           /\ Configured(c, n, part).exists = link[c].exists
           /\ Configured(c, n, part).routes
                 \subseteq {"gateway", "ipam", "subnet"} \X Conf[c].fams
<1> DEFINE done(loop) == IF loop <= n THEN Conf[c].fams
                         ELSE IF loop = n + 1 THEN part ELSE {}
           connected == done(2) \cap Conf[c].wide
           kept == connected \ (done(4) \ Conf[c].daemon)
           addrs == {k \in ips[c] : k[1] \in done(2)}
           routes == ({"gateway"} \X done(1)) \cup ({"ipam"} \X done(3))
                        \cup ({"subnet"} \X (kept \cup
                                             (done(5) \cap Conf[c].daemon)))
<1>1. Configured(c, n, part) = [link[c] EXCEPT !.addrs = addrs, !.routes = routes]
  BY DEF Configured
<1>2. link[c] \in Veth /\ ips[c] \in SUBSET Key
  BY DEF TypeOK
<1>3. Conf[c].fams \subseteq Fam
  BY ConfAssumption DEF NetConf
<1>4. \A loop : done(loop) \subseteq Conf[c].fams
  OBVIOUS
<1>5. addrs \in SUBSET Key
  BY <1>2
<1>6. kept \cup (done(5) \cap Conf[c].daemon) \subseteq Conf[c].fams
  BY <1>4
<1> HIDE DEF done, kept, connected
<1>7. routes \subseteq {"gateway", "ipam", "subnet"} \X Conf[c].fams
  BY <1>4, <1>6
<1>8. routes \in SUBSET Route
  BY <1>3, <1>7 DEF Route
<1> HIDE DEF addrs, routes
<1> QED
  BY <1>1, <1>2, <1>5, <1>7, <1>8 DEF Veth

-----------------------------------------------------------------------------
(* Types.                                                                  *)

(* The end of a command, however it ends, and the next family keep types.  *)
LEMMA EndType ==
    ASSUME TypeOK, NEW c \in Conts, NEW how \in Phases, End(c, how)
    PROVE  /\ pc' \in [Conts -> Steps] /\ todo' \in [Conts -> SUBSET Fam]
           /\ ips' \in [Conts -> SUBSET Key] /\ phase' \in [Conts -> Phases]
BY DEF TypeOK, End, Goto, Steps

LEMMA FailType ==
    ASSUME TypeOK, NEW c \in Conts, Fail(c)
    PROVE  /\ pc' \in [Conts -> Steps] /\ todo' \in [Conts -> SUBSET Fam]
           /\ ips' \in [Conts -> SUBSET Key] /\ phase' \in [Conts -> Phases]
BY EndType DEF Fail, Phases

LEMMA NextFamilyType ==
    ASSUME TypeOK, NEW c \in Conts, NEW loop \in Steps, NEW step \in Steps,
           NextFamily(c, loop, step)
    PROVE  pc' \in [Conts -> Steps] /\ todo' \in [Conts -> SUBSET Fam]
BY DEF TypeOK, NextFamily, Goto

LEMMA TypeInit == Init => TypeOK
<1> SUFFICES ASSUME Init PROVE TypeOK
  OBVIOUS
<1>1. br \in Link
  BY NewLinkType, BridgeAssumption DEF Init
<1>2. link \in [Conts -> Veth]
  BY NoVethType DEF Init
<1> QED
  BY <1>1, <1>2 DEF Init, TypeOK, Steps, Phases

LEMMA TypeNext == TypeOK /\ [Next]_vars => TypeOK'
<1> SUFFICES ASSUME TypeOK, [Next]_vars PROVE TypeOK'
  OBVIOUS
<1>fams. \A c \in Conts : Conf[c].fams \in SUBSET Fam
  BY ConfAssumption DEF NetConf
<1>1. CASE UNCHANGED vars
  BY <1>1 DEF vars, TypeOK
<1>2. CASE DeleteBridge
  BY <1>2, NewLinkType DEF DeleteBridge, TypeOK
<1>3. ASSUME NEW c \in Conts, InvokeAdd(c) PROVE TypeOK'
  BY <1>3 DEF InvokeAdd, Goto, TypeOK, Steps, AddSteps, Phases
<1>4. ASSUME NEW c \in Conts, InvokeDel(c) PROVE TypeOK'
  <2>1. pc' \in [Conts -> Steps] /\ todo' \in [Conts -> SUBSET Fam]
    BY <1>4 DEF InvokeDel, Goto, TypeOK, Steps, DelSteps
  <2>2. held' \subseteq Use /\ phase' \in [Conts -> Phases]
    BY <1>4 DEF InvokeDel, TypeOK, Phases
  <2> QED
    BY <1>4, <2>1, <2>2 DEF InvokeDel, TypeOK
<1>5. ASSUME NEW c \in Conts, DestroyNamespace(c) PROVE TypeOK'
  <2>1. link' \in [Conts -> Veth]
    BY <1>5, NoVethType DEF DestroyNamespace, TypeOK
  <2> QED
    BY <1>5, <2>1 DEF DestroyNamespace, TypeOK, Phases
<1>6. ASSUME NEW c \in Conts, Stop(c) PROVE TypeOK'
  BY <1>6, FailType DEF Stop, TypeOK
<1>7. ASSUME NEW c \in Conts, LookupBridge(c) PROVE TypeOK'
  <2>1. CASE Fail(c)
    BY <1>7, <2>1, FailType DEF LookupBridge, TypeOK
  <2>2. CASE ~Fail(c)
    BY <1>7, <2>2 DEF LookupBridge, Goto, TypeOK, Steps, AddSteps
  <2> QED
    BY <2>1, <2>2
<1>8. ASSUME NEW c \in Conts, AddBridgeLink(c) PROVE TypeOK'
  <2>1. br' \in Link
    BY <1>8, NewLinkType DEF AddBridgeLink, TypeOK
  <2>2. pc' \in [Conts -> Steps]
    BY <1>8 DEF AddBridgeLink, Goto, TypeOK, Steps, AddSteps
  <2> QED
    BY <1>8, <2>1, <2>2 DEF AddBridgeLink, TypeOK
<1>9. ASSUME NEW c \in Conts, SetBridgeMac(c) PROVE TypeOK'
  <2>1. br' \in Link
    BY <1>9 DEF SetBridgeMac, TypeOK, Link
  <2> QED
    BY <1>9, <2>1 DEF SetBridgeMac, Goto, TypeOK, Steps, AddSteps
<1>10. ASSUME NEW c \in Conts, SetBridgeUp(c) PROVE TypeOK'
  <2>1. br' \in Link
    BY <1>10 DEF SetBridgeUp, TypeOK, Link
  <2> QED
    BY <1>10, <2>1 DEF SetBridgeUp, Goto, TypeOK, Steps, AddSteps
<1>11. ASSUME NEW c \in Conts, SetupVeth(c) PROVE TypeOK'
  <2>1. link' \in [Conts -> Veth]
    BY <1>11, UnusedType DEF SetupVeth, TypeOK
  <2>2. CASE Fail(c)
    BY <1>11, <2>1, <2>2, FailType DEF SetupVeth, TypeOK
  <2>3. CASE ~Fail(c)
    BY <1>11, <2>1, <2>3 DEF SetupVeth, Goto, TypeOK, Steps, AddSteps
  <2> QED
    BY <2>2, <2>3
<1>12. ASSUME NEW c \in Conts, AttachHostVeth(c) PROVE TypeOK'
  <2>1. link' \in [Conts -> Veth]
    <3>1. link[c] \in Veth
      BY DEF TypeOK
    <3>2. link' = [link EXCEPT ![c] = [link[c] EXCEPT !.attached = TRUE]]
      BY <1>12 DEF AttachHostVeth
    <3> QED
      BY <3>1, <3>2, AttachedType DEF TypeOK
  <2>2. todo' \in [Conts -> SUBSET Fam]
    BY <1>12, <1>fams DEF AttachHostVeth, TypeOK
  <2> QED
    BY <1>12, <2>1, <2>2 DEF AttachHostVeth, Goto, TypeOK, Steps, AddSteps
<1>13. ASSUME NEW c \in Conts, IPAMAssign(c) PROVE TypeOK'
  <2>1. PICK a \in Addr :
            /\ owner' = [owner EXCEPT ![<<Current(c), a>>] = c]
            /\ ips' = [ips EXCEPT ![c] = @ \cup {<<Current(c), a>>}]
    BY <1>13 DEF IPAMAssign
  <2>2. <<Current(c), a>> \in Key
    BY CurrentFam DEF Key
  <2>3. owner' \in [Key -> Conts \cup {Free}]
    BY <2>1, <2>2 DEF TypeOK
  <2>4. ips' \in [Conts -> SUBSET Key]
    BY <2>1, <2>2 DEF TypeOK
  <2>5. todo' \in [Conts -> SUBSET Fam] /\ pc' \in [Conts -> Steps]
    BY <1>13, <1>fams DEF IPAMAssign, Goto, TypeOK, Steps, AddSteps
  <2> QED
    BY <1>13, <2>3, <2>4, <2>5 DEF IPAMAssign, TypeOK
<1>14. ASSUME NEW c \in Conts, IPAMRefuse(c) PROVE TypeOK'
  BY <1>14, FailType DEF IPAMRefuse, TypeOK
<1>15. ASSUME NEW c \in Conts, ListBridgeAddrs(c) PROVE TypeOK'
  <2>1. CASE NextFamily(c, "list", "configure") /\ UNCHANGED <<ips, phase>>
    <3>1. "list" \in Steps /\ "configure" \in Steps
      BY DEF Steps, AddSteps
    <3> QED
      BY <1>15, <2>1, <3>1, NextFamilyType DEF ListBridgeAddrs, TypeOK
  <2>2. CASE Fail(c)
    BY <1>15, <2>2, FailType DEF ListBridgeAddrs, TypeOK
  <2>3. CASE Goto(c, "addrAdd") /\ UNCHANGED <<todo, ips, phase>>
    BY <1>15, <2>3 DEF ListBridgeAddrs, Goto, TypeOK, Steps, AddSteps
  <2> QED
    BY <1>15, <2>1, <2>2, <2>3 DEF ListBridgeAddrs
<1>16. ASSUME NEW c \in Conts, AddBridgeAddr(c) PROVE TypeOK'
  <2>1. br' \in Link
    BY <1>16, CurrentFam, GwGateway DEF AddBridgeAddr, TypeOK, Link
  <2>2. "list" \in Steps /\ "configure" \in Steps
    BY DEF Steps, AddSteps
  <2> QED
    BY <1>16, <2>1, <2>2, NextFamilyType DEF AddBridgeAddr, TypeOK
<1>17. ASSUME NEW c \in Conts, ConfigureVeth(c) PROVE TypeOK'
  <2>1. link' \in [Conts -> Veth]
    <3>1. PICK v \in Veth : link' = [link EXCEPT ![c] = v]
      BY <1>17, ConfiguredType, <1>fams DEF ConfigureVeth
    <3> QED
      BY <3>1 DEF TypeOK
  <2>2. CASE Fail(c)
    BY <1>17, <2>1, <2>2, FailType DEF ConfigureVeth, TypeOK
  <2>3. CASE ~Fail(c)
    BY <1>17, <2>1, <2>3 DEF ConfigureVeth, Goto, TypeOK, Steps, AddSteps
  <2> QED
    BY <2>2, <2>3
<1>18. ASSUME NEW c \in Conts, BlockIMDS(c) PROVE TypeOK'
  <2>1. blocked' \in [Conts -> SUBSET Fam]
    BY <1>18 DEF BlockIMDS, TypeOK, Fam
  <2>2. CASE Fail(c)
    BY <1>18, <2>1, <2>2, FailType DEF BlockIMDS, TypeOK
  <2>3. CASE ~Fail(c)
    BY <1>18, <2>1, <2>3 DEF BlockIMDS, Goto, TypeOK, Steps, AddSteps
  <2> QED
    BY <2>2, <2>3
<1>19. ASSUME NEW c \in Conts, PrintResult(c) PROVE TypeOK'
  <2>1. held' \subseteq Use
    BY <1>19 DEF PrintResult, TypeOK, Use
  <2>2. "ready" \in Phases
    BY DEF Phases
  <2> QED
    BY <1>19, <2>1, <2>2, EndType DEF PrintResult, TypeOK
<1>20. ASSUME NEW c \in Conts, IPAMRelease(c) PROVE TypeOK'
  <2>1. owner' \in [Key -> Conts \cup {Free}]
    BY <1>20 DEF IPAMRelease, Owned, TypeOK
  <2>2. "ipamDel" \in Steps /\ "deleteVeth" \in Steps
    BY DEF Steps, DelSteps
  <2> QED
    BY <1>20, <2>1, <2>2, NextFamilyType DEF IPAMRelease, TypeOK
<1>21. ASSUME NEW c \in Conts, IPAMReleaseFails(c) PROVE TypeOK'
  BY <1>21 DEF IPAMReleaseFails, Goto, TypeOK, Steps, DelSteps
<1>22. ASSUME NEW c \in Conts, DeleteVeth(c) PROVE TypeOK'
  <2>1. link' \in [Conts -> Veth]
    BY <1>22, NoVethType DEF DeleteVeth, TypeOK
  <2>2. "gone" \in Phases
    BY DEF Phases
  <2> QED
    BY <1>22, <2>1, <2>2, FailType, EndType DEF DeleteVeth, TypeOK
<1> QED
  BY <1>1, <1>2, <1>3, <1>4, <1>5, <1>6, <1>7, <1>8, <1>9, <1>10, <1>11,
     <1>12, <1>13, <1>14, <1>15, <1>16, <1>17, <1>18, <1>19, <1>20, <1>21,
     <1>22 DEF Next, Runtime, Add, Del

(* Every variable of Bridge keeps its type.                                *)
THEOREM TypeCorrect == Spec => []TypeOK
BY TypeInit, TypeNext, PTL DEF Spec

-----------------------------------------------------------------------------
(* The inductive invariant behind the properties of the bridge.            *)

HasVeth == {"attach", "ipamAdd", "list", "addrAdd", "configure", "imds", "print"}

HasBridge == {"setMac", "setUp", "veth"} \cup HasVeth

Looping == {"ipamAdd", "list", "addrAdd"}

(* A veth pair was made on a host that had the bridge, and a bridge is     *)
(* deleted when there is none; routes need an interface.                   *)
LinkInv(c) ==
    /\ link[c].exists => br.kind = "bridge"
    /\ link[c].routes # {} => link[c].exists

(* What an ADD can rely on at each of its steps.                           *)
StepInv(c) ==
    /\ pc[c] \in HasBridge => br.kind = "bridge"
    /\ pc[c] \in HasVeth => link[c].exists
    /\ pc[c] \in Looping => todo[c] # {} /\ todo[c] \subseteq Conf[c].fams

(* The gateways the loop of ConfigureBridge has come past are there.       *)
GatewayInv(c) ==
    \A f \in Conf[c].fams :
        (pc[c] = "configure" \/ (pc[c] \in {"list", "addrAdd"} /\ f \notin todo[c]))
          => Conf[c].gw[f] \in br.addrs[f]

(* So are those a namespace has routes to.                                 *)
RouteInv(c) ==
    \A f \in Fam :
        (\E r \in link[c].routes : r[2] = f) => Conf[c].gw[f] \in br.addrs[f]

(* The one that has created the bridge sets its MAC address.               *)
SetterInv ==
    /\ br.kind # "bridge" => br.mac = Inherited
    /\ \A c \in Conts : pc[c] = "setMac" =>
          /\ br.mac = Inherited
          /\ \A d \in Conts : pc[d] = "setMac" => d = c

OwnInv(c) == LinkInv(c) /\ StepInv(c) /\ GatewayInv(c) /\ RouteInv(c)

BridgeInv == TypeOK /\ SetterInv /\ \A c \in Conts : OwnInv(c)

-----------------------------------------------------------------------------
Act(c) == Runtime(c) \/ Add(c) \/ Del(c) \/ Stop(c)

(* A command leaves the commands and the namespaces of the others alone.   *)
LEMMA OthersAlone ==
    ASSUME TypeOK, NEW c \in Conts, Act(c), NEW d \in Conts, d # c
    PROVE  pc'[d] = pc[d] /\ todo'[d] = todo[d] /\ link'[d] = link[d]
<1>1. CASE Runtime(c)
  BY <1>1 DEF Runtime, InvokeAdd, InvokeDel, DestroyNamespace, Goto, TypeOK
<1>2. CASE Stop(c)
  BY <1>2 DEF Stop, Fail, End, Goto, TypeOK
<1>3. CASE Del(c)
  BY <1>3 DEF Del, IPAMRelease, IPAMReleaseFails, DeleteVeth, NextFamily,
              Fail, End, Goto, TypeOK
<1>4. CASE LookupBridge(c) \/ AddBridgeLink(c) \/ SetBridgeMac(c) \/ SetBridgeUp(c)
  BY <1>4 DEF LookupBridge, AddBridgeLink, SetBridgeMac, SetBridgeUp, Fail, End,
              Goto, TypeOK
<1>5. CASE SetupVeth(c) \/ AttachHostVeth(c)
  BY <1>5 DEF SetupVeth, AttachHostVeth, Fail, End, Goto, TypeOK
<1>6. CASE IPAMAssign(c) \/ IPAMRefuse(c)
  BY <1>6 DEF IPAMAssign, IPAMRefuse, Fail, End, Goto, TypeOK
<1>7. CASE ListBridgeAddrs(c) \/ AddBridgeAddr(c)
  BY <1>7 DEF ListBridgeAddrs, AddBridgeAddr, NextFamily, Fail, End, Goto, TypeOK
<1>8. CASE ConfigureVeth(c)
  BY <1>8 DEF ConfigureVeth, Fail, End, Goto, TypeOK
<1>9. CASE BlockIMDS(c) \/ PrintResult(c)
  BY <1>9 DEF BlockIMDS, PrintResult, Fail, End, Goto, TypeOK
<1> QED
  BY <1>1, <1>2, <1>3, <1>4, <1>5, <1>6, <1>7, <1>8, <1>9 DEF Act, Add

(* Four steps change the bridge's link; no command takes the bridge or an  *)
(* address of it away.                                                     *)
BridgeGrows ==
    br.kind = "bridge" => /\ br'.kind = "bridge"
                          /\ \A f \in Fam : br.addrs[f] \subseteq br'.addrs[f]

LEMMA LinkChanges ==
    ASSUME NEW c \in Conts, Act(c)
    PROVE  \/ UNCHANGED br
           \/ AddBridgeLink(c) /\ br.kind = "none" /\ br' = NewLink("bridge")
           \/ SetBridgeMac(c) \/ SetBridgeUp(c) \/ AddBridgeAddr(c)
BY DEF Act, Runtime, Add, Del, InvokeAdd, InvokeDel, DestroyNamespace, Stop,
       LookupBridge, AddBridgeLink, SetupVeth, AttachHostVeth, IPAMAssign,
       IPAMRefuse, ListBridgeAddrs, ConfigureVeth, BlockIMDS, PrintResult,
       IPAMRelease, IPAMReleaseFails, DeleteVeth

LEMMA CommandsGrow == ASSUME TypeOK, NEW c \in Conts, Act(c) PROVE BridgeGrows
<1>1. CASE UNCHANGED br
  BY <1>1 DEF BridgeGrows
<1>2. CASE br.kind = "none"
  BY <1>2 DEF BridgeGrows
<1>3. CASE SetBridgeMac(c) \/ SetBridgeUp(c)
  BY <1>3 DEF BridgeGrows, SetBridgeMac, SetBridgeUp, TypeOK, Link
<1>4. CASE AddBridgeAddr(c)
  BY <1>4, CurrentFam DEF BridgeGrows, AddBridgeAddr, TypeOK, Link
<1> QED
  BY <1>1, <1>2, <1>3, <1>4, LinkChanges

(* What holds of a container goes on to hold while the bridge grows and    *)
(* nothing else changes for it.                                            *)
LEMMA LinkFrame ==
    ASSUME NEW c \in Conts, LinkInv(c), RouteInv(c), BridgeGrows,
           \/ link'[c] = link[c]
           \/ ~link'[c].exists /\ link'[c].routes = {}
    PROVE  LinkInv(c)' /\ RouteInv(c)'
<1>1. CASE link'[c] = link[c]
  <2>1. LinkInv(c)'
    BY <1>1 DEF LinkInv, BridgeGrows
  <2>2. ASSUME NEW f \in Fam, NEW r \in link[c].routes, r[2] = f
        PROVE  Conf[c].gw[f] \in br'.addrs[f]
    <3>1. br.kind = "bridge"
      BY <2>2 DEF LinkInv
    <3>2. Conf[c].gw[f] \in br.addrs[f]
      BY <2>2 DEF RouteInv
    <3> QED
      BY <3>1, <3>2 DEF BridgeGrows
  <2> QED
    BY <1>1, <2>1, <2>2 DEF RouteInv
<1>2. CASE ~link'[c].exists /\ link'[c].routes = {}
  BY <1>2 DEF LinkInv, RouteInv
<1> QED
  BY <1>1, <1>2

LEMMA GatewayFrame ==
    ASSUME NEW c \in Conts, StepInv(c), GatewayInv(c), BridgeGrows,
           pc'[c] = pc[c], todo'[c] = todo[c]
    PROVE  GatewayInv(c)'
<1> SUFFICES ASSUME NEW f \in Conf[c].fams,
                    pc[c] = "configure"
                      \/ (pc[c] \in {"list", "addrAdd"} /\ f \notin todo[c])
             PROVE  Conf[c].gw[f] \in br'.addrs[f]
  BY DEF GatewayInv
<1>1. br.kind = "bridge"
  BY DEF StepInv, HasBridge, HasVeth
<1>2. Conf[c].gw[f] \in br.addrs[f]
  BY DEF GatewayInv
<1>3. f \in Fam
  BY ConfAssumption DEF NetConf
<1> QED
  BY <1>1, <1>2, <1>3 DEF BridgeGrows

LEMMA OwnFrame ==
    ASSUME NEW d \in Conts, OwnInv(d), BridgeGrows,
           pc'[d] = pc[d], todo'[d] = todo[d], link'[d] = link[d]
    PROVE  OwnInv(d)'
<1>1. StepInv(d)'
  BY DEF OwnInv, StepInv, BridgeGrows
<1> QED
  BY <1>1, LinkFrame, GatewayFrame DEF OwnInv

(* A command that is at a step where it relies on nothing.                 *)
LEMMA OwnIdle ==
    ASSUME NEW c \in Conts, OwnInv(c), BridgeGrows, pc'[c] \notin HasBridge,
           \/ link'[c] = link[c]
           \/ ~link'[c].exists /\ link'[c].routes = {}
    PROVE  OwnInv(c)'
<1>1. StepInv(c)' /\ GatewayInv(c)'
  BY DEF StepInv, GatewayInv, HasBridge, HasVeth, Looping
<1> QED
  BY <1>1, LinkFrame DEF OwnInv

(* The same for the ends of a command.                                     *)
LEMMA FailIdle ==
    ASSUME TypeOK, NEW c \in Conts, Fail(c) PROVE pc'[c] = "idle"
BY DEF TypeOK, Fail, End, Goto

(* Every step of a command keeps what the command relies on.               *)
LEMMA OwnStep ==
    ASSUME TypeOK, NEW c \in Conts, OwnInv(c), Act(c)
    PROVE  OwnInv(c)'
<1>grow. BridgeGrows
  BY CommandsGrow
<1>not. \A s \in {"idle", "lookup", "linkAdd", "lookupAgain", "ipamDel",
                  "deleteVeth"} : s \notin HasBridge
  BY DEF HasBridge, HasVeth
<1>fail. ASSUME Fail(c), link' = link PROVE OwnInv(c)'
  BY <1>fail, <1>grow, <1>not, FailIdle, OwnIdle
<1>fams. Conf[c].fams \subseteq Fam /\ Conf[c].fams # {}
  BY ConfAssumption DEF NetConf
<1>1. CASE InvokeAdd(c) \/ InvokeDel(c)
  <2>1. pc'[c] \in {"idle", "lookup", "ipamDel"} /\ link' = link
    BY <1>1 DEF InvokeAdd, InvokeDel, CanStart, Goto, TypeOK
  <2> QED
    BY <2>1, <1>grow, <1>not, OwnIdle
<1>2. CASE DestroyNamespace(c)
  <2>1. pc'[c] = "idle" /\ link'[c] = NoVeth
    BY <1>2 DEF DestroyNamespace, TypeOK
  <2> QED
    BY <2>1, <1>grow, <1>not, OwnIdle, NoVethType
<1>3. CASE Stop(c)
  BY <1>3, <1>fail DEF Stop
<1>4. CASE LookupBridge(c)
  <2>1. CASE Fail(c)
    BY <1>4, <2>1, <1>fail DEF LookupBridge
  <2>2. CASE Goto(c, "linkAdd")
    BY <1>4, <2>2, <1>grow, <1>not, OwnIdle DEF LookupBridge, Goto, TypeOK
  <2>3. CASE br.kind = "bridge" /\ Goto(c, "setUp")
    <3>1. pc'[c] = "setUp" /\ link' = link /\ br' = br
      BY <1>4, <2>3 DEF LookupBridge, Goto, TypeOK
    <3>2. StepInv(c)' /\ GatewayInv(c)'
      BY <2>3, <3>1 DEF StepInv, GatewayInv, HasVeth, Looping
    <3> QED
      BY <3>1, <3>2, <1>grow, LinkFrame DEF OwnInv
  <2> QED
    BY <1>4, <2>1, <2>2, <2>3 DEF LookupBridge
<1>5. CASE AddBridgeLink(c)
  <2>1. CASE br.kind = "none"
    <3>1. pc'[c] = "setMac" /\ link' = link /\ br'.kind = "bridge"
      BY <1>5, <2>1, NewLinkType DEF AddBridgeLink, Goto, TypeOK
    <3>2. StepInv(c)' /\ GatewayInv(c)'
      BY <3>1 DEF StepInv, GatewayInv, HasVeth, Looping
    <3> QED
      BY <3>1, <3>2, <1>grow, LinkFrame DEF OwnInv
  <2>2. CASE br.kind # "none"
    BY <1>5, <2>2, <1>grow, <1>not, OwnIdle DEF AddBridgeLink, Goto, TypeOK
  <2> QED
    BY <2>1, <2>2
<1>6. CASE SetBridgeMac(c)
  <2>1. pc'[c] = "lookupAgain" /\ link' = link
    BY <1>6 DEF SetBridgeMac, Goto, TypeOK
  <2> QED
    BY <2>1, <1>grow, <1>not, OwnIdle
<1>7. CASE SetBridgeUp(c)
  <2>1. pc[c] = "setUp" /\ pc'[c] = "veth" /\ link' = link
    BY <1>7 DEF SetBridgeUp, Goto, TypeOK
  <2>2. br'.kind = "bridge"
    BY <2>1, <1>grow DEF OwnInv, StepInv, HasBridge, BridgeGrows
  <2>3. StepInv(c)' /\ GatewayInv(c)'
    BY <2>1, <2>2 DEF StepInv, GatewayInv, HasVeth, Looping
  <2> QED
    BY <2>1, <2>3, <1>grow, LinkFrame DEF OwnInv
<1>8. CASE SetupVeth(c)
  <2>1. br.kind = "bridge" /\ br' = br
    BY <1>8 DEF SetupVeth, OwnInv, StepInv, HasBridge
  <2>2. CASE Fail(c) /\ UNCHANGED link
    BY <2>2, <1>fail
  <2>3. CASE \E u \in BOOLEAN : /\ link' = [link EXCEPT ![c] = Unused(TRUE, u)]
                                /\ Goto(c, "attach") \/ Fail(c)
    <3>1. link'[c].exists /\ link'[c].routes = {}
      <4>1. PICK u \in BOOLEAN : link' = [link EXCEPT ![c] = Unused(TRUE, u)]
        BY <2>3
      <4>2. link'[c] = Unused(TRUE, u)
        BY <4>1 DEF TypeOK
      <4> QED
        BY <4>2, UnusedType
    <3>2. pc'[c] \in {"attach", "idle"}
      BY <2>3, FailIdle DEF Goto, TypeOK
    <3> QED
      BY <2>1, <3>1, <3>2
         DEF OwnInv, LinkInv, StepInv, GatewayInv, RouteInv, Looping
  <2> QED
    BY <1>8, <2>2, <2>3 DEF SetupVeth
<1>9. CASE AttachHostVeth(c)
  <2>1. /\ pc[c] = "attach" /\ pc'[c] = "ipamAdd" /\ br' = br
        /\ todo'[c] = Conf[c].fams
    BY <1>9 DEF AttachHostVeth, Goto, TypeOK
  <2>2. link'[c].exists = link[c].exists /\ link'[c].routes = link[c].routes
    <3>1. link[c] \in Veth
      BY DEF TypeOK
    <3>2. link'[c] = [link[c] EXCEPT !.attached = TRUE]
      BY <1>9 DEF AttachHostVeth, TypeOK
    <3> QED
      BY <3>1, <3>2, AttachedType
  <2>3. br.kind = "bridge" /\ link[c].exists
    BY <2>1 DEF OwnInv, StepInv, HasBridge, HasVeth
  <2>4. StepInv(c)' /\ GatewayInv(c)'
    BY <2>1, <2>2, <2>3, <1>fams DEF StepInv, GatewayInv
  <2>5. LinkInv(c)' /\ RouteInv(c)'
    BY <2>1, <2>2 DEF OwnInv, LinkInv, RouteInv
  <2> QED
    BY <2>4, <2>5 DEF OwnInv
<1>10. CASE IPAMAssign(c)
  <2>1. pc[c] = "ipamAdd" /\ br' = br /\ link' = link
    BY <1>10 DEF IPAMAssign
  <2>2. /\ br.kind = "bridge" /\ link[c].exists
        /\ todo[c] # {} /\ todo[c] \subseteq Conf[c].fams
    BY <2>1 DEF OwnInv, StepInv, HasBridge, HasVeth, Looping
  <2>3. \/ pc'[c] = "list" /\ todo'[c] = Conf[c].fams
        \/ /\ pc'[c] = "ipamAdd"
           /\ todo'[c] = todo[c] \ {Current(c)} /\ todo[c] # {Current(c)}
    BY <1>10, <2>1 DEF IPAMAssign, Goto, TypeOK
  <2>4. todo'[c] # {} /\ todo'[c] \subseteq Conf[c].fams
    BY <2>2, <2>3, <1>fams
  <2>5. StepInv(c)' /\ GatewayInv(c)'
    BY <2>1, <2>2, <2>3, <2>4 DEF StepInv, GatewayInv
  <2> QED
    BY <2>1, <2>5, <1>grow, LinkFrame DEF OwnInv
<1>11. CASE IPAMRefuse(c)
  BY <1>11, <1>fail DEF IPAMRefuse
<1>12. ASSUME NextFamily(c, "list", "configure"), pc[c] \in {"list", "addrAdd"},
              link' = link, Gw(c) \in br'.addrs[Current(c)]
       PROVE  OwnInv(c)'
  <2>1. /\ br.kind = "bridge" /\ link[c].exists
        /\ todo[c] # {} /\ todo[c] \subseteq Conf[c].fams
    BY <1>12 DEF OwnInv, StepInv, HasBridge, HasVeth, Looping
  <2>2. /\ todo'[c] = todo[c] \ {Current(c)}
        /\ pc'[c] = IF todo[c] = {Current(c)} THEN "configure" ELSE "list"
    BY <1>12 DEF NextFamily, Goto, TypeOK
  <2>3. StepInv(c)'
    BY <2>1, <2>2, <1>12, <1>grow DEF StepInv, BridgeGrows, Looping
  <2>4. GatewayInv(c)'
    <3> SUFFICES ASSUME NEW f \in Conf[c].fams, f \notin todo'[c]
                 PROVE  Conf[c].gw[f] \in br'.addrs[f]
      BY <2>2 DEF GatewayInv
    <3>1. CASE f = Current(c)
      BY <1>12, <3>1 DEF Gw
    <3>2. CASE f # Current(c)
      <4>1. Conf[c].gw[f] \in br.addrs[f]
        BY <1>12, <2>2, <3>2 DEF OwnInv, GatewayInv
      <4> QED
        BY <4>1, <2>1, <1>grow, <1>fams DEF BridgeGrows
    <3> QED
      BY <3>1, <3>2
  <2> QED
    BY <2>3, <2>4, <1>12, <1>grow, LinkFrame DEF OwnInv
<1>13. CASE ListBridgeAddrs(c)
  <2>1. pc[c] = "list" /\ br' = br /\ link' = link
    BY <1>13 DEF ListBridgeAddrs
  <2>2. CASE Fail(c)
    BY <2>1, <2>2, <1>fail
  <2>3. CASE NextFamily(c, "list", "configure") /\ Gw(c) \in br.addrs[Current(c)]
    BY <2>1, <2>3, <1>12
  <2>4. CASE Goto(c, "addrAdd") /\ todo' = todo
    <3>1. pc'[c] = "addrAdd"
      BY <2>4 DEF Goto, TypeOK
    <3>2. StepInv(c)' /\ GatewayInv(c)'
      BY <2>1, <2>4, <3>1
         DEF OwnInv, StepInv, GatewayInv, HasBridge, HasVeth, Looping
    <3> QED
      BY <2>1, <3>2, <1>grow, LinkFrame DEF OwnInv
  <2> QED
    BY <1>13, <2>2, <2>3, <2>4 DEF ListBridgeAddrs
<1>14. CASE AddBridgeAddr(c)
  <2>1. Gw(c) \in br'.addrs[Current(c)]
    BY <1>14, CurrentFam DEF AddBridgeAddr, TypeOK, Link
  <2> QED
    BY <1>14, <2>1, <1>12 DEF AddBridgeAddr
<1>15. CASE ConfigureVeth(c)
  <2>1. pc[c] = "configure" /\ br' = br
    BY <1>15 DEF ConfigureVeth
  <2>2. br.kind = "bridge" /\ link[c].exists
    BY <2>1 DEF OwnInv, StepInv, HasBridge, HasVeth
  <2>3. pc'[c] \in {"imds", "print", "idle"}
    BY <1>15, FailIdle DEF ConfigureVeth, Goto, TypeOK
  <2>4. PICK n \in 0..5, part \in SUBSET Conf[c].fams :
            link' = [link EXCEPT ![c] = Configured(c, n, part)]
    BY <1>15 DEF ConfigureVeth
  <2>5. /\ link'[c].exists
        /\ link'[c].routes \subseteq {"gateway", "ipam", "subnet"} \X Conf[c].fams
    BY <2>2, <2>4, ConfiguredType DEF TypeOK
  <2>6. LinkInv(c)' /\ StepInv(c)' /\ GatewayInv(c)'
    BY <2>1, <2>2, <2>3, <2>5 DEF LinkInv, StepInv, GatewayInv, Looping
  <2>7. RouteInv(c)'
    <3>1. \A f \in Conf[c].fams : Conf[c].gw[f] \in br.addrs[f]
      BY <2>1 DEF OwnInv, GatewayInv
    <3>2. \A r \in link'[c].routes : r[2] \in Conf[c].fams
      BY <2>5
    <3> QED
      BY <2>1, <3>1, <3>2 DEF RouteInv
  <2> QED
    BY <2>6, <2>7 DEF OwnInv
<1>16. CASE BlockIMDS(c)
  <2>1. pc[c] = "imds" /\ br' = br /\ link' = link
    BY <1>16 DEF BlockIMDS
  <2>2. CASE Fail(c)
    BY <2>1, <2>2, <1>fail
  <2>3. CASE Goto(c, "print")
    <3>1. pc'[c] = "print"
      BY <2>3 DEF Goto, TypeOK
    <3>2. StepInv(c)' /\ GatewayInv(c)'
      BY <2>1, <3>1 DEF OwnInv, StepInv, GatewayInv, HasBridge, HasVeth, Looping
    <3> QED
      BY <2>1, <3>2, <1>grow, LinkFrame DEF OwnInv
  <2> QED
    BY <1>16, <2>2, <2>3 DEF BlockIMDS
<1>17. CASE PrintResult(c)
  <2>1. pc'[c] = "idle" /\ link' = link
    BY <1>17 DEF PrintResult, End, Goto, TypeOK
  <2> QED
    BY <2>1, <1>grow, <1>not, OwnIdle
<1>18. CASE IPAMRelease(c) \/ IPAMReleaseFails(c)
  <2>1. pc'[c] \in {"ipamDel", "deleteVeth"} /\ link' = link
    BY <1>18 DEF IPAMRelease, IPAMReleaseFails, NextFamily, Goto, TypeOK
  <2> QED
    BY <2>1, <1>grow, <1>not, OwnIdle
<1>19. CASE DeleteVeth(c)
  <2>1. CASE Fail(c) /\ UNCHANGED link
    BY <2>1, <1>fail
  <2>2. CASE End(c, "gone") /\ link' = [link EXCEPT ![c] = NoVeth]
    <3>1. pc'[c] = "idle" /\ link'[c] = NoVeth
      BY <2>2 DEF End, Goto, TypeOK
    <3> QED
      BY <3>1, <1>grow, <1>not, OwnIdle, NoVethType
  <2> QED
    BY <1>19, <2>1, <2>2 DEF DeleteVeth
<1> QED
  BY <1>1, <1>2, <1>3, <1>4, <1>5, <1>6, <1>7, <1>8, <1>9, <1>10, <1>11,
     <1>13, <1>14, <1>15, <1>16, <1>17, <1>18, <1>19 DEF Act, Runtime, Add, Del

(* A command is where it says it is and sets the MAC address once.         *)
LEMMA SetterPlace ==
    ASSUME TypeOK, NEW c \in Conts, Act(c), pc'[c] = "setMac"
    PROVE  AddBridgeLink(c) /\ br.kind = "none"
<1>1. ~Fail(c)
  BY FailIdle
<1>2. ~Runtime(c)
  BY DEF Runtime, InvokeAdd, InvokeDel, DestroyNamespace, CanStart, Goto, TypeOK
<1>3. ~Del(c)
  BY <1>1 DEF Del, IPAMRelease, IPAMReleaseFails, DeleteVeth, NextFamily, End,
              Goto, TypeOK
<1>4. ~(LookupBridge(c) \/ SetBridgeMac(c) \/ SetBridgeUp(c))
  BY <1>1 DEF LookupBridge, SetBridgeMac, SetBridgeUp, Goto, TypeOK
<1>5. ~(SetupVeth(c) \/ AttachHostVeth(c))
  BY <1>1 DEF SetupVeth, AttachHostVeth, Goto, TypeOK
<1>6. ~(IPAMAssign(c) \/ IPAMRefuse(c))
  BY <1>1 DEF IPAMAssign, IPAMRefuse, Goto, TypeOK
<1>7. ~(ListBridgeAddrs(c) \/ AddBridgeAddr(c))
  BY <1>1 DEF ListBridgeAddrs, AddBridgeAddr, NextFamily, Goto, TypeOK
<1>8. ~(ConfigureVeth(c) \/ BlockIMDS(c) \/ PrintResult(c))
  BY <1>1 DEF ConfigureVeth, BlockIMDS, PrintResult, End, Goto, TypeOK
<1>9. AddBridgeLink(c)
  BY <1>1, <1>2, <1>3, <1>4, <1>5, <1>6, <1>7, <1>8 DEF Act, Add, Stop
<1>10. br.kind = "none"
  BY <1>9 DEF AddBridgeLink, Goto, TypeOK
<1> QED
  BY <1>9, <1>10

(* Nobody is about to set the MAC address while there is no bridge, so the *)
(* one that creates it is the only one.                                    *)
LEMMA SetterStep ==
    ASSUME BridgeInv, NEW c \in Conts, Act(c)
    PROVE  SetterInv'
<1> USE DEF BridgeInv
<1>1. \A d \in Conts : pc[d] = "setMac" => br.kind = "bridge"
  BY DEF OwnInv, StepInv, HasBridge
<1>2. \A d \in Conts : d # c => pc'[d] = pc[d]
  BY OthersAlone
<1>3. CASE AddBridgeLink(c) /\ br.kind = "none" /\ br' = NewLink("bridge")
  BY <1>1, <1>2, <1>3, NewLinkType DEF SetterInv
<1>4. CASE SetBridgeMac(c)
  <2>1. pc[c] = "setMac" /\ pc'[c] = "lookupAgain"
    BY <1>4 DEF SetBridgeMac, Goto, TypeOK
  <2>2. br'.kind = "bridge"
    BY <1>1, <1>4, <2>1 DEF SetBridgeMac, TypeOK, Link
  <2>3. \A d \in Conts : pc'[d] # "setMac"
    BY <1>2, <2>1 DEF SetterInv
  <2> QED
    BY <2>2, <2>3 DEF SetterInv
<1>5. CASE UNCHANGED br \/ SetBridgeUp(c) \/ AddBridgeAddr(c)
  <2>1. br'.kind = br.kind /\ br'.mac = br.mac
    BY <1>5 DEF SetBridgeUp, AddBridgeAddr, TypeOK, Link
  <2>2. pc'[c] # "setMac"
    <3>1. SUFFICES ASSUME pc'[c] = "setMac" PROVE FALSE
      OBVIOUS
    <3>2. AddBridgeLink(c) /\ br.kind = "none"
      BY <3>1, SetterPlace
    <3>3. br'.kind = "bridge"
      BY <3>2, NewLinkType DEF AddBridgeLink
    <3> QED
      BY <2>1, <3>2, <3>3
  <2> QED
    BY <1>2, <2>1, <2>2 DEF SetterInv
<1> QED
  BY <1>3, <1>4, <1>5, LinkChanges

(* A bridge is deleted when no command runs and no interface is there.     *)
LEMMA DeletedInv == BridgeInv /\ DeleteBridge => SetterInv' /\ \A c \in Conts : OwnInv(c)'
<1> SUFFICES ASSUME BridgeInv, DeleteBridge
             PROVE  SetterInv' /\ \A c \in Conts : OwnInv(c)'
  OBVIOUS
<1>1. br'.kind = "none" /\ br'.mac = Inherited
  BY NewLinkType DEF DeleteBridge
<1>2. \A c \in Conts : pc'[c] = "idle" /\ link'[c] = link[c] /\ ~link[c].exists
  BY DEF DeleteBridge
<1>3. SetterInv'
  BY <1>1, <1>2 DEF SetterInv
<1>4. ASSUME NEW c \in Conts PROVE OwnInv(c)'
  <2>1. link'[c].routes = {} /\ ~link'[c].exists
    BY <1>2 DEF BridgeInv, OwnInv, LinkInv
  <2> QED
    BY <1>2, <2>1 DEF OwnInv, LinkInv, StepInv, GatewayInv, RouteInv, HasBridge,
                      HasVeth, Looping
<1> QED
  BY <1>3, <1>4

LEMMA BridgeInvInit == Init => BridgeInv
<1> SUFFICES ASSUME Init PROVE BridgeInv
  OBVIOUS
<1>1. br.mac = Inherited
  BY NewLinkType, BridgeAssumption DEF Init
<1>2. \A c \in Conts : pc[c] = "idle" /\ ~link[c].exists /\ link[c].routes = {}
  BY NoVethType DEF Init
<1>3. SetterInv
  BY <1>1, <1>2 DEF SetterInv
<1>4. \A c \in Conts : OwnInv(c)
  BY <1>2 DEF OwnInv, LinkInv, StepInv, GatewayInv, RouteInv, HasBridge, HasVeth,
              Looping
<1> QED
  BY <1>3, <1>4, TypeInit DEF BridgeInv

LEMMA BridgeInvNext == BridgeInv /\ [Next]_vars => BridgeInv'
<1> SUFFICES ASSUME BridgeInv, [Next]_vars PROVE BridgeInv'
  OBVIOUS
<1>1. TypeOK'
  BY TypeNext DEF BridgeInv
<1>2. CASE UNCHANGED vars
  BY <1>2 DEF vars, BridgeInv, TypeOK, Use, SetterInv, OwnInv, LinkInv, StepInv, GatewayInv,
              RouteInv
<1>3. CASE DeleteBridge
  BY <1>1, <1>3, DeletedInv DEF BridgeInv
<1>4. ASSUME NEW c \in Conts, Act(c) PROVE BridgeInv'
  <2>1. BridgeGrows
    BY <1>4, CommandsGrow DEF BridgeInv
  <2>2. OwnInv(c)'
    BY <1>4, OwnStep DEF BridgeInv
  <2>3. ASSUME NEW d \in Conts, d # c PROVE OwnInv(d)'
    BY <1>4, <2>1, <2>3, OthersAlone, OwnFrame DEF BridgeInv
  <2>4. SetterInv'
    BY <1>4, SetterStep
  <2> QED
    BY <1>1, <2>2, <2>3, <2>4 DEF BridgeInv
<1> QED
  BY <1>2, <1>3, <1>4 DEF Next, Act

-----------------------------------------------------------------------------
(* The properties.                                                         *)

(* There is never a route to a gateway the bridge does not have, whatever  *)
(* the other commands do and wherever commands stop.                       *)
THEOREM GatewaysFirst == Spec => []GatewayBeforeRoutes
<1>1. BridgeInv => GatewayBeforeRoutes
  BY DEF BridgeInv, OwnInv, RouteInv, GatewayBeforeRoutes
<1> QED
  BY <1>1, BridgeInvInit, BridgeInvNext, PTL DEF Spec

(* No ADD replaces the MAC address another one has given the bridge.       *)
THEOREM MacNeverReplaced == Spec => MacSetOnce
<1>1. BridgeInv /\ [Next]_vars
         => [br.mac # Inherited => br'.mac = br.mac \/ br'.kind = "none"]_br
  <2> SUFFICES ASSUME BridgeInv, Next, br.mac # Inherited
               PROVE  br' = br \/ br'.mac = br.mac \/ br'.kind = "none"
    BY DEF vars
  <2>1. CASE DeleteBridge
    BY <2>1, NewLinkType DEF DeleteBridge
  <2>2. ASSUME NEW c \in Conts, Act(c) PROVE br' = br \/ br'.mac = br.mac
    <3>1. ~SetBridgeMac(c)
      BY DEF SetBridgeMac, BridgeInv, SetterInv
    <3>2. br.kind # "none"
      BY DEF BridgeInv, SetterInv
    <3>3. CASE UNCHANGED br
      BY <3>3
    <3>4. CASE SetBridgeUp(c) \/ AddBridgeAddr(c)
      BY <3>4 DEF SetBridgeUp, AddBridgeAddr, BridgeInv, TypeOK, Link
    <3> QED
      BY <2>2, <3>1, <3>2, <3>3, <3>4, LinkChanges
  <2> QED
    BY <2>1, <2>2 DEF Next, Act
<1> QED
  BY <1>1, BridgeInvInit, BridgeInvNext, PTL DEF Spec, MacSetOnce
=============================================================================
