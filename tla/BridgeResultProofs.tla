------------------------- MODULE BridgeResultProofs -------------------------
(***************************************************************************)
(* What the commands of Bridge leave behind: proofs that a reported        *)
(* container is what it was reported to be, that a DEL takes everything    *)
(* back, and that the plugin implements AddressLedger, for every number of *)
(* containers, every configuration and every choice of faults the          *)
(* properties allow.                                                       *)
(***************************************************************************)
EXTENDS BridgeProofs, FiniteSetTheorems

-----------------------------------------------------------------------------
(* The inductive invariant, container by container.                        *)

(* The steps at which a command has, or may have, addresses in its result. *)
HasResult == {"ipamAdd", "list", "addrAdd", "configure", "imds", "print"}

(* The runtime knows what it has started.                                  *)
PhaseInv(c) ==
    /\ pc[c] \in AddSteps => phase[c] = "add"
    /\ pc[c] \in DelSteps => phase[c] = "del"
    /\ pc[c] = "idle" => phase[c] \notin {"add", "del"}

(* A container owns one address per family, of its own families only; of   *)
(* those stored apart it may own more.                                     *)
OwnedInv(c) ==
    /\ \A k \in Owned(c) : k[1] \in Conf[c].fams
    /\ \A j, k \in Owned(c) : j[1] = k[1] => j = k \/ Apart(c, k[1])

(* The families whose address the ipam plugin has still to assign.         *)
Missing(c) == IF pc[c] = "ipamAdd" THEN todo[c] ELSE {}

(* The container owns keys, one address for each of fams; whatever else it *)
(* owns is stored apart, or of a family that is missing.                   *)
OnePerFamily(c, keys, fams, missing) ==
    /\ keys \subseteq Owned(c)
    /\ \A k \in keys : k[1] \in fams
    /\ \A j, k \in keys : j[1] = k[1] => j = k
    /\ \A f \in fams : \E k \in keys : k[1] = f
    /\ \A k \in Owned(c) \ keys : k[1] \in missing \/ Apart(c, k[1])

(* The result of the ipam plugin is an address of the container for each   *)
(* family it has come past.                                                *)
ResultInv(c) ==
    /\ pc[c] \notin HasResult => ips[c] = {}
    /\ pc[c] \in HasResult =>
          OnePerFamily(c, ips[c], Conf[c].fams \ Missing(c), Missing(c))

(* A veth pair is made when the bridge is up, and attached next.           *)
PairInv(c) ==
    /\ link[c].exists => br.up
    /\ pc[c] \in {"veth"} \cup HasVeth => br.up
    /\ pc[c] \in HasResult => link[c].attached
    /\ ~link[c].exists => link[c].addrs = {}

(* What ConfigureVeth has done lasts, and what BlockIMDS has.              *)
Complete(c) ==
    /\ link[c].exists /\ link[c].attached
    /\ OnePerFamily(c, link[c].addrs, Conf[c].fams, {})
    /\ link[c].routes = ({"gateway", "ipam"} \X Conf[c].fams)
                           \cup ({"subnet"} \X (Conf[c].fams \cap Conf[c].daemon))

CompleteInv(c) ==
    /\ pc[c] \in {"imds", "print"} \/ phase[c] = "ready" => Complete(c)
    /\ pc[c] = "print" \/ phase[c] = "ready" =>
          (Conf[c].block => blocked[c] = Fam)

HeldInv == \A u \in held : phase[u.id] = "ready" /\ owner[u.key] = u.id

ContInv(c) == PhaseInv(c) /\ OwnedInv(c) /\ ResultInv(c) /\ PairInv(c) /\ CompleteInv(c)

ReportInv == BridgeInv /\ HeldInv /\ \A c \in Conts : ContInv(c)

(* What the container owns is of these families, or stored apart.          *)
Returned(c, fams) == \A k \in Owned(c) : k[1] \in fams \/ Apart(c, k[1])

(* A DEL gives back one family after the other.                            *)
DelInv(c) ==
    /\ pc[c] = "ipamDel" => Returned(c, todo[c])
    /\ pc[c] = "deleteVeth" => Returned(c, {})
    /\ phase[c] = "gone" => ~link[c].exists /\ Returned(c, {})

-----------------------------------------------------------------------------
(* What the steps change.                                                  *)

(* Only the ipam plugin changes who owns an address.                       *)
LEMMA OwnerChanges ==
    ASSUME NEW c \in Conts, Act(c)
    PROVE  UNCHANGED owner \/ IPAMAssign(c) \/ IPAMRelease(c)
BY DEF Act, Runtime, Add, Del, InvokeAdd, InvokeDel, DestroyNamespace, Stop,
       LookupBridge, AddBridgeLink, SetBridgeMac, SetBridgeUp, SetupVeth,
       AttachHostVeth, IPAMRefuse, ListBridgeAddrs, AddBridgeAddr,
       ConfigureVeth, BlockIMDS, PrintResult, IPAMReleaseFails, DeleteVeth

(* An address assigned was free, of the family the command has come to,    *)
(* and the container owned none of that family that is not stored apart.   *)
LEMMA AssignFacts ==
    ASSUME TypeOK, NEW c \in Conts, IPAMAssign(c)
    PROVE  \E k \in Key :
              /\ k[1] = Current(c)
              /\ owner[k] = Free
              /\ \A j \in Owned(c) : j[1] = Current(c) => Apart(c, j[1])
              /\ owner' = [owner EXCEPT ![k] = c]
              /\ ips'[c] = ips[c] \cup {k}
              /\ Owned(c)' = Owned(c) \cup {k}
              /\ \A d \in Conts \ {c} : Owned(d)' = Owned(d)
<1>1. PICK a \in Addr :
          /\ owner[<<Current(c), a>>] = Free
          /\ owner' = [owner EXCEPT ![<<Current(c), a>>] = c]
          /\ ips' = [ips EXCEPT ![c] = @ \cup {<<Current(c), a>>}]
  BY DEF IPAMAssign
<1> DEFINE k == <<Current(c), a>>
<1>2. k \in Key /\ k[1] = Current(c)
  BY CurrentFam DEF Key
<1>3. \A j \in Owned(c) : j[1] = Current(c) => Apart(c, j[1])
  BY DEF IPAMAssign, CanAssign
<1> HIDE DEF k
<1>4. owner[k] = Free /\ owner' = [owner EXCEPT ![k] = c]
  BY <1>1 DEF k
<1>5. ips'[c] = ips[c] \cup {k}
  BY <1>1 DEF k, TypeOK
<1>6. \A j \in Key : owner'[j] = IF j = k THEN c ELSE owner[j]
  BY <1>2, <1>4 DEF TypeOK
<1>7. Owned(c)' = Owned(c) \cup {k}
  BY <1>2, <1>6 DEF Owned
<1>8. ASSUME NEW d \in Conts \ {c} PROVE Owned(d)' = Owned(d)
  BY <1>4, <1>6, FreeAssumption DEF Owned
<1> QED
  BY <1>2, <1>3, <1>4, <1>5, <1>7, <1>8

(* An address returned was the container's, and the only one it had of the *)
(* family the command has come to; one that is stored apart stays.         *)
LEMMA ReleaseFacts ==
    ASSUME TypeOK, NEW c \in Conts, IPAMRelease(c), OwnedInv(c)
    PROVE  /\ Owned(c)' = {k \in Owned(c) : k[1] # Current(c) \/ Apart(c, k[1])}
           /\ \A d \in Conts \ {c} : Owned(d)' = Owned(d)
<1>1. ASSUME NEW k \in Owned(c), k[1] = Current(c), ~Apart(c, Current(c)),
             owner' = [owner EXCEPT ![k] = Free]
      PROVE  /\ Owned(c)' = {j \in Owned(c) : j[1] # Current(c) \/ Apart(c, j[1])}
             /\ \A d \in Conts \ {c} : Owned(d)' = Owned(d)
  <2>1. k \in Key /\ owner[k] = c
    BY DEF Owned
  <2>2. \A j \in Key : owner'[j] = IF j = k THEN Free ELSE owner[j]
    BY <1>1, <2>1 DEF TypeOK
  <2>3. \A j \in Owned(c) : (j[1] # Current(c) \/ Apart(c, j[1])) <=> j # k
    BY <1>1 DEF OwnedInv
  <2>4. Owned(c)' = Owned(c) \ {k}
    BY <2>1, <2>2, FreeAssumption DEF Owned
  <2>5. ASSUME NEW d \in Conts \ {c} PROVE Owned(d)' = Owned(d)
    BY <2>1, <2>2, FreeAssumption DEF Owned
  <2> QED
    BY <2>3, <2>4, <2>5
<1>2. CASE /\ Apart(c, Current(c)) \/ \A k \in Owned(c) : k[1] # Current(c)
           /\ UNCHANGED owner
  <2>1. \A k \in Owned(c) : k[1] # Current(c) \/ Apart(c, k[1])
    BY <1>2
  <2>2. \A d \in Conts : Owned(d)' = Owned(d)
    BY <1>2 DEF Owned
  <2> HIDE DEF Owned
  <2> QED
    BY <2>1, <2>2
<1> QED
  BY <1>1, <1>2 DEF IPAMRelease

(* A command leaves the rest of what belongs to the others alone, too.     *)
LEMMA OthersKeep ==
    ASSUME TypeOK, NEW c \in Conts, OwnedInv(c), Act(c), NEW d \in Conts, d # c
    PROVE  /\ ips'[d] = ips[d] /\ phase'[d] = phase[d]
           /\ blocked'[d] = blocked[d] /\ Owned(d)' = Owned(d)
<1>1. Owned(d)' = Owned(d)
  <2>1. CASE UNCHANGED owner
    BY <2>1 DEF Owned
  <2>2. CASE IPAMAssign(c)
    BY <2>2, AssignFacts
  <2>3. CASE IPAMRelease(c)
    BY <2>3, ReleaseFacts
  <2> QED
    BY <2>1, <2>2, <2>3, OwnerChanges
<1>2. ips'[d] = ips[d] /\ phase'[d] = phase[d] /\ blocked'[d] = blocked[d]
  <2>1. CASE Runtime(c) \/ Stop(c) \/ Del(c)
    BY <2>1 DEF Runtime, InvokeAdd, InvokeDel, DestroyNamespace, Stop, Del,
                IPAMRelease, IPAMReleaseFails, DeleteVeth, Fail, End, TypeOK
  <2>2. CASE LookupBridge(c) \/ AddBridgeLink(c) \/ SetBridgeMac(c) \/ SetBridgeUp(c)
    BY <2>2 DEF LookupBridge, AddBridgeLink, SetBridgeMac, SetBridgeUp, Fail, End,
                TypeOK
  <2>3. CASE SetupVeth(c) \/ AttachHostVeth(c) \/ IPAMAssign(c) \/ IPAMRefuse(c)
    BY <2>3 DEF SetupVeth, AttachHostVeth, IPAMAssign, IPAMRefuse, Fail, End, TypeOK
  <2>4. CASE ListBridgeAddrs(c) \/ AddBridgeAddr(c) \/ ConfigureVeth(c)
    BY <2>4 DEF ListBridgeAddrs, AddBridgeAddr, ConfigureVeth, Fail, End, TypeOK
  <2>5. CASE BlockIMDS(c) \/ PrintResult(c)
    BY <2>5 DEF BlockIMDS, PrintResult, Fail, End, TypeOK
  <2> QED
    BY <2>1, <2>2, <2>3, <2>4, <2>5 DEF Act, Add
<1> QED
  BY <1>1, <1>2

(* No command sets a bridge down.                                          *)
UpGrows == br.kind = "bridge" /\ br.up => br'.up

LEMMA CommandsKeepUp == ASSUME TypeOK, NEW c \in Conts, Act(c) PROVE UpGrows
<1>1. CASE UNCHANGED br \/ br.kind = "none"
  BY <1>1 DEF UpGrows
<1>2. CASE SetBridgeMac(c) \/ SetBridgeUp(c) \/ AddBridgeAddr(c)
  BY <1>2 DEF UpGrows, SetBridgeMac, SetBridgeUp, AddBridgeAddr, TypeOK, Link
<1> QED
  BY <1>1, <1>2, LinkChanges

(* The end of a command.                                                   *)
LEMMA EndFacts ==
    ASSUME TypeOK, NEW c \in Conts, NEW how, End(c, how)
    PROVE  pc'[c] = "idle" /\ ips'[c] = {} /\ phase'[c] = how
BY DEF TypeOK, End, Goto

LEMMA FailFacts ==
    ASSUME TypeOK, NEW c \in Conts, Fail(c)
    PROVE  pc'[c] = "idle" /\ ips'[c] = {} /\ phase'[c] \in {"addFailed", "delFailed"}
BY EndFacts DEF Fail

(* A command that goes on goes on as an ADD or as a DEL: the steps of each, *)
(* and the phases, one by one.                                             *)
Onward(c) ==
    /\ phase'[c] = phase[c]
    /\ \/ pc[c] \in AddSteps /\ pc'[c] \in AddSteps
       \/ pc[c] \in DelSteps /\ pc'[c] \in DelSteps

Failed(c) ==
    /\ pc'[c] = "idle" /\ ips'[c] = {}
    /\ phase'[c] \in {"addFailed", "delFailed"}

LEMMA Courses ==
    ASSUME TypeOK, NEW c \in Conts, Act(c)
    PROVE  InvokeAdd(c) \/ InvokeDel(c) \/ DestroyNamespace(c) \/ PrintResult(c)
              \/ DeleteVeth(c) \/ Onward(c) \/ Failed(c)
<1>fail. Fail(c) => Failed(c)
  BY FailFacts DEF Failed
<1>1. CASE Stop(c) \/ IPAMRefuse(c)
  BY <1>1, <1>fail DEF Stop, IPAMRefuse
<1>2. CASE IPAMRelease(c) \/ IPAMReleaseFails(c)
  BY <1>2 DEF IPAMRelease, IPAMReleaseFails, NextFamily, Goto, Onward, DelSteps, TypeOK
<1>3. CASE LookupBridge(c)
  BY <1>3, <1>fail DEF LookupBridge, Goto, Onward, AddSteps, TypeOK
<1>4. CASE AddBridgeLink(c) \/ SetBridgeMac(c) \/ SetBridgeUp(c)
  BY <1>4 DEF AddBridgeLink, SetBridgeMac, SetBridgeUp, Goto, Onward, AddSteps, TypeOK
<1>5. CASE SetupVeth(c)
  BY <1>5, <1>fail DEF SetupVeth, Goto, Onward, AddSteps, TypeOK
<1>6. CASE AttachHostVeth(c)
  BY <1>6 DEF AttachHostVeth, Goto, Onward, AddSteps, TypeOK
<1>7. CASE IPAMAssign(c)
  BY <1>7 DEF IPAMAssign, Goto, Onward, AddSteps, TypeOK
<1>8. CASE ListBridgeAddrs(c)
  BY <1>8, <1>fail DEF ListBridgeAddrs, NextFamily, Goto, Onward, AddSteps, TypeOK
<1>9. CASE AddBridgeAddr(c)
  BY <1>9 DEF AddBridgeAddr, NextFamily, Goto, Onward, AddSteps, TypeOK
<1>10. CASE ConfigureVeth(c)
  BY <1>10, <1>fail DEF ConfigureVeth, Goto, Onward, AddSteps, TypeOK
<1>11. CASE BlockIMDS(c)
  BY <1>11, <1>fail DEF BlockIMDS, Goto, Onward, AddSteps, TypeOK
<1> QED
  BY <1>1, <1>2, <1>3, <1>4, <1>5, <1>6, <1>7, <1>8, <1>9, <1>10, <1>11
     DEF Act, Runtime, Add, Del

LEMMA PhaseStep ==
    ASSUME TypeOK, NEW c \in Conts, PhaseInv(c), Act(c)
    PROVE  PhaseInv(c)'
<1>apart. AddSteps \cap DelSteps = {} /\ "idle" \notin AddSteps /\ "idle" \notin DelSteps
  BY DEF AddSteps, DelSteps
<1>1. CASE InvokeAdd(c)
  BY <1>1 DEF InvokeAdd, CanStart, Goto, PhaseInv, AddSteps, DelSteps, TypeOK
<1>2. CASE InvokeDel(c)
  BY <1>2 DEF InvokeDel, CanStart, Goto, PhaseInv, AddSteps, DelSteps, TypeOK
<1>3. CASE DestroyNamespace(c)
  BY <1>3, <1>apart DEF DestroyNamespace, PhaseInv, TypeOK
<1>4. CASE PrintResult(c)
  BY <1>4, <1>apart, EndFacts DEF PrintResult, PhaseInv
<1>5. CASE DeleteVeth(c)
  BY <1>5, <1>apart, EndFacts, FailFacts DEF DeleteVeth, PhaseInv
<1>6. CASE Onward(c)
  BY <1>6, <1>apart DEF Onward, PhaseInv
<1>7. CASE Failed(c)
  BY <1>7, <1>apart DEF Failed, PhaseInv
<1> QED
  BY <1>1, <1>2, <1>3, <1>4, <1>5, <1>6, <1>7, Courses

LEMMA OwnedStep ==
    ASSUME TypeOK, NEW c \in Conts, StepInv(c), OwnedInv(c), Act(c)
    PROVE  OwnedInv(c)'
<1>1. CASE UNCHANGED owner
  BY <1>1 DEF OwnedInv, Owned
<1>2. CASE IPAMAssign(c)
  <2>1. PICK k \in Key : /\ k[1] = Current(c)
                         /\ \A j \in Owned(c) : j[1] = Current(c) => Apart(c, j[1])
                         /\ Owned(c)' = Owned(c) \cup {k}
    BY <1>2, AssignFacts
  <2>2. todo[c] # {} /\ todo[c] \subseteq Conf[c].fams
    BY <1>2 DEF IPAMAssign, StepInv, Looping
  <2>3. Current(c) \in Conf[c].fams
    BY <2>2, ConfAssumption DEF Current, NetConf, Fam
  <2> HIDE DEF Owned
  <2>4. \A j \in Owned(c)' : j \in Owned(c) \/ j = k
    BY <2>1
  <2> QED
    BY <2>1, <2>3, <2>4 DEF OwnedInv
<1>3. CASE IPAMRelease(c)
  BY <1>3, ReleaseFacts DEF OwnedInv
<1> QED
  BY <1>1, <1>2, <1>3, OwnerChanges

LEMMA ResultStep ==
    ASSUME TypeOK, NEW c \in Conts, StepInv(c), OwnedInv(c), ResultInv(c), Act(c)
    PROVE  ResultInv(c)'
<1>none. ASSUME pc'[c] \notin HasResult, ips'[c] = {} PROVE ResultInv(c)'
  BY <1>none DEF ResultInv
<1>kept. ASSUME pc[c] \in HasResult \ {"ipamAdd"}, pc'[c] \in HasResult \ {"ipamAdd"},
                ips'[c] = ips[c], UNCHANGED owner
         PROVE  ResultInv(c)'
  <2>1. Missing(c) = {} /\ Missing(c)' = {} /\ Owned(c)' = Owned(c)
    BY <1>kept DEF Missing, Owned
  <2> HIDE DEF Owned, Missing
  <2> QED
    BY <1>kept, <2>1 DEF ResultInv, OnePerFamily
<1>fail. Failed(c) => ResultInv(c)'
  BY <1>none DEF Failed, HasResult
<1>1. CASE Runtime(c)
  <2>1. /\ pc[c] = "idle" /\ pc'[c] \in {"idle", "lookup", "ipamDel", "deleteVeth"}
        /\ ips' = ips
    BY <1>1 DEF Runtime, InvokeAdd, InvokeDel, DestroyNamespace, CanStart, Goto, TypeOK
  <2>2. ips[c] = {}
    BY <2>1 DEF ResultInv, HasResult
  <2> QED
    BY <2>1, <2>2, <1>none DEF HasResult
<1>2. CASE Stop(c) \/ IPAMRefuse(c)
  BY <1>2, <1>fail, FailFacts DEF Stop, IPAMRefuse, Failed
<1>3. CASE Del(c)
  <2>1. CASE DeleteVeth(c)
    BY <2>1, <1>none, EndFacts, FailFacts DEF DeleteVeth, HasResult
  <2>2. CASE IPAMRelease(c) \/ IPAMReleaseFails(c)
    <3>1. pc[c] = "ipamDel" /\ pc'[c] \in {"ipamDel", "deleteVeth"} /\ ips' = ips
      BY <2>2 DEF IPAMRelease, IPAMReleaseFails, NextFamily, Goto, TypeOK
    <3>2. ips[c] = {}
      BY <3>1 DEF ResultInv, HasResult
    <3> QED
      BY <3>1, <3>2, <1>none DEF HasResult
  <2> QED
    BY <1>3, <2>1, <2>2 DEF Del
<1>4. CASE LookupBridge(c) \/ AddBridgeLink(c) \/ SetBridgeMac(c) \/ SetBridgeUp(c)
           \/ SetupVeth(c)
  <2>1. CASE Fail(c)
    BY <2>1, <1>fail, FailFacts DEF Failed
  <2>2. CASE ~Fail(c)
    <3>1. /\ pc[c] \notin HasResult /\ pc'[c] \notin HasResult
          /\ ips' = ips
      BY <1>4, <2>2 DEF LookupBridge, AddBridgeLink, SetBridgeMac, SetBridgeUp,
                        SetupVeth, Goto, HasResult, TypeOK
    <3>2. ips[c] = {}
      BY <3>1 DEF ResultInv
    <3> QED
      BY <3>1, <3>2, <1>none
  <2> QED
    BY <2>1, <2>2
<1>5. CASE AttachHostVeth(c)
  <2>1. /\ pc[c] = "attach" /\ pc'[c] = "ipamAdd" /\ todo'[c] = Conf[c].fams
        /\ ips' = ips /\ owner' = owner
    BY <1>5 DEF AttachHostVeth, Goto, TypeOK
  <2>2. ips[c] = {}
    BY <2>1 DEF ResultInv, HasResult
  <2>3. Missing(c)' = Conf[c].fams
    BY <2>1 DEF Missing
  <2>4. \A k \in Owned(c)' : k[1] \in Conf[c].fams
    BY <2>1 DEF OwnedInv, Owned
  <2> HIDE DEF Missing, Owned
  <2> QED
    BY <2>1, <2>2, <2>3, <2>4 DEF ResultInv, OnePerFamily, HasResult
<1>6. CASE IPAMAssign(c)
  <2>1. PICK k \in Key : /\ k[1] = Current(c)
                         /\ \A j \in Owned(c) : j[1] = Current(c) => Apart(c, j[1])
                         /\ ips'[c] = ips[c] \cup {k}
                         /\ Owned(c)' = Owned(c) \cup {k}
    BY <1>6, AssignFacts
  <2>2. pc[c] = "ipamAdd" /\ pc'[c] \in HasResult
    BY <1>6 DEF IPAMAssign, Goto, HasResult, TypeOK
  <2>3. Missing(c) = todo[c] /\ Missing(c)' = todo[c] \ {Current(c)}
    BY <1>6, <2>2 DEF IPAMAssign, Goto, Missing, TypeOK
  <2>4. OnePerFamily(c, ips[c], Conf[c].fams \ todo[c], todo[c])
    BY <2>2, <2>3 DEF ResultInv, HasResult
  <2>5. Current(c) \in todo[c] /\ Current(c) \in Conf[c].fams
    BY <2>2, ConfAssumption DEF StepInv, Looping, Current, NetConf, Fam
  <2> DEFINE left == todo[c] \ {Current(c)}
             done == Conf[c].fams \ left
  <2>6. /\ \A f : f \in done <=> f \in Conf[c].fams \ todo[c] \/ f = Current(c)
        /\ \A f : f \in todo[c] => f \in left \/ f = Current(c)
    BY <2>5
  <2> HIDE DEF Owned, left, done
  <2>7. ips'[c] \subseteq Owned(c)' /\ \A j \in ips'[c] : j[1] \in done
    BY <2>1, <2>4, <2>6 DEF OnePerFamily
  <2>8. \A i, j \in ips'[c] : i[1] = j[1] => i = j
    <3>1. \A j \in ips[c] : j[1] # Current(c)
      BY <2>4, <2>5 DEF OnePerFamily
    <3> QED
      BY <2>1, <2>4, <3>1 DEF OnePerFamily
  <2>9. \A f \in done : \E j \in ips'[c] : j[1] = f
    BY <2>1, <2>4, <2>6 DEF OnePerFamily
  <2>10. \A j \in Owned(c)' \ ips'[c] : j[1] \in left \/ Apart(c, j[1])
    <3> SUFFICES ASSUME NEW j \in Owned(c)', j \notin ips'[c]
                 PROVE  j[1] \in left \/ Apart(c, j[1])
      OBVIOUS
    <3>1. j \in Owned(c) /\ j \notin ips[c]
      BY <2>1
    <3>2. j[1] \in todo[c] \/ Apart(c, j[1])
      BY <2>4, <3>1 DEF OnePerFamily
    <3> QED
      BY <2>1, <2>6, <3>1, <3>2
  <2>11. OnePerFamily(c, ips[c], Conf[c].fams \ Missing(c), Missing(c))'
    BY <2>3, <2>7, <2>8, <2>9, <2>10 DEF OnePerFamily, left, done, Apart
  <2> QED
    BY <2>2, <2>11 DEF ResultInv
<1>7. CASE ListBridgeAddrs(c) \/ AddBridgeAddr(c)
  <2>1. CASE Fail(c)
    BY <2>1, <1>fail, FailFacts DEF Failed
  <2>2. CASE ~Fail(c)
    BY <1>7, <2>2, <1>kept
       DEF ListBridgeAddrs, AddBridgeAddr, NextFamily, Goto, HasResult, TypeOK
  <2> QED
    BY <2>1, <2>2
<1>8. CASE ConfigureVeth(c) \/ BlockIMDS(c)
  <2>1. CASE Fail(c)
    BY <2>1, <1>fail, FailFacts DEF Failed
  <2>2. CASE ~Fail(c)
    BY <1>8, <2>2, <1>kept DEF ConfigureVeth, BlockIMDS, Goto, HasResult, TypeOK
  <2> QED
    BY <2>1, <2>2
<1>9. CASE PrintResult(c)
  BY <1>9, <1>none, EndFacts DEF PrintResult, HasResult
<1> QED
  BY <1>1, <1>2, <1>3, <1>4, <1>5, <1>6, <1>7, <1>8, <1>9 DEF Act, Add

(* Attaching and configuring keep what a pair is.                          *)
LEMMA AttachedWhole ==
    ASSUME NEW v \in Veth
    PROVE  /\ [v EXCEPT !.attached = TRUE].attached
           /\ [v EXCEPT !.attached = TRUE].addrs = v.addrs
BY DEF Veth

LEMMA UnusedWhole ==
    ASSUME NEW e \in BOOLEAN, NEW u \in BOOLEAN
    PROVE  ~Unused(e, u).attached /\ Unused(e, u).addrs = {}
BY DEF Unused

LEMMA ConfiguredKeeps ==
    ASSUME TypeOK, NEW c \in Conts, NEW n, NEW part
    PROVE  /\ Configured(c, n, part).attached = link[c].attached
           /\ Configured(c, n, part).addrs \subseteq ips[c]
<1>1. link[c] \in Veth
  BY DEF TypeOK
<1>2. \E addrs \in SUBSET ips[c] : \E routes :
          Configured(c, n, part) = [link[c] EXCEPT !.addrs = addrs, !.routes = routes]
  <2> DEFINE done(loop) == IF loop <= n THEN Conf[c].fams
                           ELSE IF loop = n + 1 THEN part ELSE {}
             addrs == {k \in ips[c] : k[1] \in done(2)}
  <2>1. PICK routes :
            Configured(c, n, part) = [link[c] EXCEPT !.addrs = addrs, !.routes = routes]
    BY DEF Configured
  <2>2. addrs \in SUBSET ips[c]
    OBVIOUS
  <2> HIDE DEF addrs
  <2> QED
    BY <2>1, <2>2
<1>3. PICK addrs \in SUBSET ips[c] : \E routes :
          Configured(c, n, part) = [link[c] EXCEPT !.addrs = addrs, !.routes = routes]
  BY <1>2
<1>4. PICK routes :
          Configured(c, n, part) = [link[c] EXCEPT !.addrs = addrs, !.routes = routes]
  BY <1>3
<1> QED
  BY <1>1, <1>4 DEF Veth

(* When all five loops are done, every address of the result is there, and *)
(* of the connected routes those that were asked for.                      *)
LEMMA ConfiguredWhole ==
    ASSUME TypeOK, NEW c \in Conts
    PROVE  /\ Configured(c, 5, {}).addrs = {k \in ips[c] : k[1] \in Conf[c].fams}
           /\ Configured(c, 5, {}).routes
                 = ({"gateway", "ipam"} \X Conf[c].fams)
                      \cup ({"subnet"} \X (Conf[c].fams \cap Conf[c].daemon))
<1> DEFINE F == Conf[c].fams
           kept == (F \cap Conf[c].wide) \ (F \ Conf[c].daemon)
           addrs == {k \in ips[c] : k[1] \in F}
           routes == ({"gateway"} \X F) \cup ({"ipam"} \X F)
                        \cup ({"subnet"} \X (kept \cup (F \cap Conf[c].daemon)))
<1>1. Configured(c, 5, {}) = [link[c] EXCEPT !.addrs = addrs, !.routes = routes]
  BY DEF Configured
<1>2. link[c] \in Veth
  BY DEF TypeOK
<1>3. kept \cup (F \cap Conf[c].daemon) = F \cap Conf[c].daemon
  OBVIOUS
<1>4. routes = ({"gateway", "ipam"} \X F) \cup ({"subnet"} \X (F \cap Conf[c].daemon))
  BY <1>3
<1> HIDE DEF addrs, routes, kept
<1>5. Configured(c, 5, {}).addrs = addrs /\ Configured(c, 5, {}).routes = routes
  BY <1>1, <1>2 DEF Veth
<1> QED
  BY <1>4, <1>5 DEF addrs

LEMMA PairStep ==
    ASSUME TypeOK, NEW c \in Conts, OwnInv(c), PairInv(c), Act(c)
    PROVE  PairInv(c)'
<1>grow. UpGrows /\ BridgeGrows
  BY CommandsKeepUp, CommandsGrow
<1>kind. /\ link[c].exists => br.kind = "bridge"
         /\ pc[c] \in HasBridge => br.kind = "bridge"
  BY DEF OwnInv, LinkInv, StepInv
<1>away. ASSUME link'[c] = link[c], pc'[c] \notin {"veth"} \cup HasVeth
         PROVE  PairInv(c)'
  BY <1>away, <1>grow, <1>kind DEF PairInv, UpGrows, HasVeth, HasResult
<1>along. ASSUME link'[c] = link[c], pc[c] \in HasVeth, pc'[c] \in HasVeth,
                 pc'[c] \in HasResult => pc[c] \in HasResult
          PROVE  PairInv(c)'
  BY <1>along, <1>grow, <1>kind DEF PairInv, UpGrows, HasBridge
<1>gone. ASSUME link'[c] = NoVeth, pc'[c] \notin {"veth"} \cup HasVeth
         PROVE  PairInv(c)'
  BY <1>gone, UnusedWhole, NoVethType DEF PairInv, HasVeth, HasResult, NoVeth
<1>fail. ASSUME Fail(c), link' = link PROVE PairInv(c)'
  BY <1>fail, <1>away, FailFacts DEF HasVeth
<1>1. CASE InvokeAdd(c) \/ InvokeDel(c)
  BY <1>1, <1>away DEF InvokeAdd, InvokeDel, CanStart, Goto, HasVeth, TypeOK
<1>2. CASE DestroyNamespace(c)
  BY <1>2, <1>gone DEF DestroyNamespace, HasVeth, TypeOK
<1>3. CASE Stop(c) \/ IPAMRefuse(c)
  BY <1>3, <1>fail DEF Stop, IPAMRefuse
<1>4. CASE LookupBridge(c)
  <2>1. CASE Fail(c)
    BY <1>4, <2>1, <1>fail DEF LookupBridge
  <2>2. CASE ~Fail(c)
    BY <1>4, <2>2, <1>away DEF LookupBridge, Goto, HasVeth, TypeOK
  <2> QED
    BY <2>1, <2>2
<1>5. CASE AddBridgeLink(c) \/ SetBridgeMac(c)
  BY <1>5, <1>away DEF AddBridgeLink, SetBridgeMac, Goto, HasVeth, TypeOK
<1>6. CASE SetBridgeUp(c)
  <2>1. br'.up /\ pc'[c] = "veth" /\ link' = link
    BY <1>6 DEF SetBridgeUp, Goto, TypeOK, Link
  <2> QED
    BY <2>1 DEF PairInv, HasResult
<1>7. CASE SetupVeth(c)
  <2>1. pc[c] = "veth" /\ br' = br /\ br.up
    BY <1>7 DEF SetupVeth, PairInv
  <2>2. CASE Fail(c) /\ UNCHANGED link
    BY <2>2, <1>fail
  <2>3. CASE \E u \in BOOLEAN : /\ link' = [link EXCEPT ![c] = Unused(TRUE, u)]
                                /\ Goto(c, "attach") \/ Fail(c)
    <3>1. PICK u \in BOOLEAN : link' = [link EXCEPT ![c] = Unused(TRUE, u)]
      BY <2>3
    <3>2. link'[c] = Unused(TRUE, u)
      BY <3>1 DEF TypeOK
    <3>3. pc'[c] \in {"attach", "idle"}
      BY <2>3, FailFacts DEF Goto, TypeOK
    <3> QED
      BY <2>1, <3>2, <3>3, UnusedType, UnusedWhole DEF PairInv, HasResult
  <2> QED
    BY <1>7, <2>2, <2>3 DEF SetupVeth
<1>8. CASE AttachHostVeth(c)
  <2>1. pc[c] = "attach" /\ pc'[c] = "ipamAdd" /\ br' = br
    BY <1>8 DEF AttachHostVeth, Goto, TypeOK
  <2>2. link[c] \in Veth /\ link'[c] = [link[c] EXCEPT !.attached = TRUE]
    BY <1>8 DEF AttachHostVeth, TypeOK
  <2>3. br.up /\ link[c].exists
    BY <2>1 DEF PairInv, OwnInv, StepInv, HasVeth
  <2> QED
    BY <2>1, <2>2, <2>3, AttachedType, AttachedWhole DEF PairInv
<1>9. CASE IPAMAssign(c)
  BY <1>9, <1>along DEF IPAMAssign, Goto, HasVeth, HasResult, TypeOK
<1>10. CASE ListBridgeAddrs(c)
  <2>1. CASE Fail(c)
    BY <1>10, <2>1, <1>fail DEF ListBridgeAddrs
  <2>2. CASE ~Fail(c)
    BY <1>10, <2>2, <1>along
       DEF ListBridgeAddrs, NextFamily, Goto, HasVeth, HasResult, TypeOK
  <2> QED
    BY <2>1, <2>2
<1>11. CASE AddBridgeAddr(c)
  BY <1>11, <1>along DEF AddBridgeAddr, NextFamily, Goto, HasVeth, HasResult, TypeOK
<1>12. CASE ConfigureVeth(c)
  <2>1. /\ pc[c] = "configure" /\ br' = br
        /\ pc'[c] \in {"imds", "print", "idle"}
    BY <1>12, FailFacts DEF ConfigureVeth, Goto, TypeOK
  <2>2. PICK n \in 0..5, part \in SUBSET Conf[c].fams :
            link' = [link EXCEPT ![c] = Configured(c, n, part)]
    BY <1>12 DEF ConfigureVeth
  <2>3. link'[c].exists = link[c].exists /\ link'[c].attached = link[c].attached
    BY <2>2, ConfiguredType, ConfiguredKeeps DEF TypeOK
  <2>4. link[c].exists /\ link[c].attached /\ br.up
    BY <2>1 DEF PairInv, OwnInv, StepInv, HasVeth, HasResult
  <2> QED
    BY <2>1, <2>3, <2>4 DEF PairInv
<1>13. CASE BlockIMDS(c)
  <2>1. CASE Fail(c)
    BY <1>13, <2>1, <1>fail DEF BlockIMDS
  <2>2. CASE ~Fail(c)
    BY <1>13, <2>2, <1>along DEF BlockIMDS, Goto, HasVeth, HasResult, TypeOK
  <2> QED
    BY <2>1, <2>2
<1>14. CASE PrintResult(c)
  BY <1>14, <1>away, EndFacts DEF PrintResult, HasVeth
<1>15. CASE IPAMRelease(c) \/ IPAMReleaseFails(c)
  BY <1>15, <1>away DEF IPAMRelease, IPAMReleaseFails, NextFamily, Goto, HasVeth, TypeOK
<1>16. CASE DeleteVeth(c)
  <2>1. CASE Fail(c) /\ UNCHANGED link
    BY <2>1, <1>fail
  <2>2. CASE End(c, "gone") /\ link' = [link EXCEPT ![c] = NoVeth]
    BY <2>2, <1>gone, EndFacts DEF HasVeth, TypeOK
  <2> QED
    BY <1>16, <2>1, <2>2 DEF DeleteVeth
<1> QED
  BY <1>1, <1>2, <1>3, <1>4, <1>5, <1>6, <1>7, <1>8, <1>9, <1>10, <1>11,
     <1>12, <1>13, <1>14, <1>15, <1>16 DEF Act, Runtime, Add, Del

LEMMA CompleteStep ==
    ASSUME TypeOK, NEW c \in Conts, OwnInv(c), ContInv(c), Act(c)
    PROVE  CompleteInv(c)'
<1> USE DEF ContInv
<1>early. ASSUME pc'[c] \notin {"imds", "print"}, phase'[c] # "ready"
          PROVE  CompleteInv(c)'
  BY <1>early DEF CompleteInv
<1>fail. Failed(c) => CompleteInv(c)'
  BY <1>early DEF Failed
<1>on. ASSUME Onward(c) PROVE phase'[c] # "ready"
  BY <1>on DEF Onward, PhaseInv
<1>keep. ASSUME link'[c] = link[c], UNCHANGED owner, Complete(c) PROVE Complete(c)'
  BY <1>keep DEF Complete, OnePerFamily, Owned
<1>1. CASE Runtime(c)
  BY <1>1, <1>early DEF Runtime, InvokeAdd, InvokeDel, DestroyNamespace, CanStart, Goto, TypeOK
<1>2. CASE Stop(c) \/ IPAMRefuse(c)
  BY <1>2, <1>fail, FailFacts DEF Stop, IPAMRefuse, Failed
<1>3. CASE DeleteVeth(c)
  BY <1>3, <1>early, EndFacts, FailFacts DEF DeleteVeth
<1>4. CASE IPAMRelease(c) \/ IPAMReleaseFails(c)
  <2>1. pc[c] \in DelSteps /\ pc'[c] \in DelSteps /\ phase' = phase
    BY <1>4 DEF IPAMRelease, IPAMReleaseFails, NextFamily, Goto, DelSteps, TypeOK
  <2> QED
    BY <2>1, <1>early DEF PhaseInv, DelSteps
<1>5. CASE LookupBridge(c) \/ AddBridgeLink(c) \/ SetBridgeMac(c) \/ SetBridgeUp(c)
           \/ SetupVeth(c) \/ AttachHostVeth(c)
  <2>1. CASE Fail(c)
    BY <2>1, <1>fail, FailFacts DEF Failed
  <2>2. CASE ~Fail(c)
    <3>1. pc[c] \in AddSteps /\ pc'[c] \notin {"imds", "print"} /\ phase' = phase
      BY <1>5, <2>2 DEF LookupBridge, AddBridgeLink, SetBridgeMac, SetBridgeUp,
                        SetupVeth, AttachHostVeth, Goto, AddSteps, TypeOK
    <3> QED
      BY <3>1, <1>early DEF PhaseInv
  <2> QED
    BY <2>1, <2>2
<1>6. CASE IPAMAssign(c) \/ ListBridgeAddrs(c) \/ AddBridgeAddr(c)
  <2>1. CASE Fail(c)
    BY <2>1, <1>fail, FailFacts DEF Failed
  <2>2. CASE ~Fail(c)
    <3>1. pc[c] \in AddSteps /\ pc'[c] \notin {"imds", "print"} /\ phase' = phase
      BY <1>6, <2>2 DEF IPAMAssign, ListBridgeAddrs, AddBridgeAddr, NextFamily, Goto,
                        AddSteps, TypeOK
    <3> QED
      BY <3>1, <1>early DEF PhaseInv
  <2> QED
    BY <2>1, <2>2
<1>7. CASE ConfigureVeth(c)
  <2>1. CASE Fail(c)
    BY <2>1, <1>fail, FailFacts DEF Failed
  <2>2. CASE ~Fail(c)
    <3>1. /\ pc[c] = "configure" /\ phase'[c] = phase[c] /\ owner' = owner
          /\ link' = [link EXCEPT ![c] = Configured(c, 5, {})]
          /\ pc'[c] = IF Conf[c].block THEN "imds" ELSE "print"
      BY <1>7, <2>2 DEF ConfigureVeth, Goto, TypeOK
    <3>2. link'[c] = Configured(c, 5, {})
      BY <3>1 DEF TypeOK
    <3>3. link'[c].exists /\ link'[c].attached
      BY <3>1, <3>2, ConfiguredType, ConfiguredKeeps
         DEF OwnInv, StepInv, PairInv, HasVeth, HasResult
    <3>4. OnePerFamily(c, ips[c], Conf[c].fams, {})
      <4>1. Missing(c) = {}
        BY <3>1 DEF Missing
      <4> QED
        BY <3>1, <4>1 DEF ResultInv, HasResult
    <3>5. link'[c].addrs = ips[c]
      <4>1. link'[c].addrs = {k \in ips[c] : k[1] \in Conf[c].fams}
        BY <3>2, ConfiguredWhole
      <4> QED
        BY <3>4, <4>1 DEF OnePerFamily
    <3>6. Owned(c)' = Owned(c)
      BY <3>1 DEF Owned
    <3>7. Complete(c)'
      <4>1. OnePerFamily(c, link[c].addrs, Conf[c].fams, {})'
        <5> HIDE DEF Owned
        <5> QED
          BY <3>4, <3>5, <3>6 DEF OnePerFamily, Apart
      <4> QED
        BY <3>2, <3>3, <4>1, ConfiguredWhole DEF Complete
    <3>8. phase'[c] # "ready"
      BY <3>1 DEF PhaseInv, AddSteps
    <3> QED
      BY <3>1, <3>7, <3>8 DEF CompleteInv
  <2> QED
    BY <2>1, <2>2
<1>8. CASE BlockIMDS(c)
  <2>1. CASE Fail(c)
    BY <2>1, <1>fail, FailFacts DEF Failed
  <2>2. CASE ~Fail(c)
    <3>1. /\ pc[c] = "imds" /\ pc'[c] = "print" /\ owner' = owner /\ link' = link
          /\ blocked'[c] = Fam
      BY <1>8, <2>2 DEF BlockIMDS, Goto, TypeOK
    <3>2. Complete(c)'
      BY <3>1, <1>keep DEF CompleteInv
    <3> QED
      BY <3>1, <3>2 DEF CompleteInv
  <2> QED
    BY <2>1, <2>2
<1>9. CASE PrintResult(c)
  <2>1. pc[c] = "print" /\ owner' = owner /\ link' = link /\ blocked' = blocked
    BY <1>9 DEF PrintResult
  <2>2. Complete(c)'
    BY <2>1, <1>keep DEF CompleteInv
  <2> QED
    BY <2>1, <2>2 DEF CompleteInv
<1> QED
  BY <1>1, <1>2, <1>3, <1>4, <1>5, <1>6, <1>7, <1>8, <1>9 DEF Act, Add, Del

(* An interface gets no addresses but those of the result.                 *)
LEMMA PairChanges ==
    ASSUME TypeOK, NEW c \in Conts, Act(c)
    PROVE  link'[c].addrs \subseteq link[c].addrs \/ link'[c].addrs \subseteq ips[c]
<1>1. CASE link' = link
  BY <1>1
<1>2. ASSUME NEW e \in BOOLEAN, NEW u \in BOOLEAN,
             link' = [link EXCEPT ![c] = Unused(e, u)]
      PROVE  link'[c].addrs = {}
  BY <1>2, UnusedWhole DEF TypeOK
<1>3. CASE AttachHostVeth(c)
  <2>1. link[c] \in Veth /\ link'[c] = [link[c] EXCEPT !.attached = TRUE]
    BY <1>3 DEF AttachHostVeth, TypeOK
  <2> QED
    BY <2>1, AttachedWhole
<1>4. CASE ConfigureVeth(c)
  <2>1. PICK n, part : link' = [link EXCEPT ![c] = Configured(c, n, part)]
    BY <1>4 DEF ConfigureVeth
  <2> QED
    BY <2>1, ConfiguredKeeps DEF TypeOK
<1>5. CASE SetupVeth(c) \/ DestroyNamespace(c) \/ DeleteVeth(c)
  BY <1>1, <1>2, <1>5 DEF SetupVeth, DestroyNamespace, DeleteVeth, NoVeth
<1> QED
  BY <1>1, <1>3, <1>4, <1>5
     DEF Act, Runtime, Add, Del, InvokeAdd, InvokeDel, Stop, LookupBridge,
         AddBridgeLink, SetBridgeMac, SetBridgeUp, IPAMAssign, IPAMRefuse,
         ListBridgeAddrs, AddBridgeAddr, BlockIMDS, PrintResult, IPAMRelease,
         IPAMReleaseFails

(* What holds of a container goes on to hold while another command acts.   *)
LEMMA ContFrame ==
    ASSUME NEW d \in Conts, OwnInv(d), ContInv(d), UpGrows,
           pc'[d] = pc[d], todo'[d] = todo[d], link'[d] = link[d],
           ips'[d] = ips[d], phase'[d] = phase[d], blocked'[d] = blocked[d],
           Owned(d)' = Owned(d)
    PROVE  ContInv(d)'
<1> HIDE DEF Owned
<1>1. PhaseInv(d)' /\ OwnedInv(d)'
  BY DEF ContInv, PhaseInv, OwnedInv
<1>2. ResultInv(d)'
  BY DEF ContInv, ResultInv, OnePerFamily, Missing
<1>3. PairInv(d)'
  <2>1. link[d].exists \/ pc[d] \in {"veth"} \cup HasVeth => br.kind = "bridge"
    BY DEF OwnInv, LinkInv, StepInv, HasBridge
  <2> QED
    BY <2>1 DEF ContInv, PairInv, UpGrows
<1>4. CompleteInv(d)'
  BY DEF ContInv, CompleteInv, Complete, OnePerFamily
<1> QED
  BY <1>1, <1>2, <1>3, <1>4 DEF ContInv

(* The runtime uses the addresses of the containers that are up.           *)
LEMMA HeldStep ==
    ASSUME TypeOK, HeldInv, NEW c \in Conts, ContInv(c), Act(c)
    PROVE  HeldInv'
<1>phases. \A d \in Conts \ {c} : phase'[d] = phase[d] /\ Owned(d)' = Owned(d)
  BY OthersKeep DEF ContInv
<1>ids. \A u \in held : u.id \in Conts /\ u.key \in Key
  BY DEF TypeOK, Use
<1>owns. \A d \in Conts, k \in Key : k \in Owned(d) <=> owner[k] = d
  BY DEF Owned
<1>owns2. \A d \in Conts, k \in Key : k \in Owned(d)' <=> owner'[k] = d
  BY DEF Owned
<1>others. ASSUME NEW u \in held, u.id # c
           PROVE  phase'[u.id] = "ready" /\ owner'[u.key] = u.id
  BY <1>others, <1>phases, <1>ids, <1>owns, <1>owns2 DEF HeldInv
<1>1. CASE phase[c] # "ready" /\ held' = held
  BY <1>1, <1>others DEF HeldInv
<1>2. CASE InvokeDel(c)
  BY <1>2, <1>others DEF InvokeDel, HeldInv
<1>3. CASE PrintResult(c)
  <2>1. held' = held \cup [id : {c}, key : ips[c]] /\ owner' = owner
    BY <1>3 DEF PrintResult
  <2>2. phase'[c] = "ready"
    BY <1>3, EndFacts DEF PrintResult
  <2>3. ips[c] \subseteq Owned(c)
    BY <1>3 DEF PrintResult, ContInv, ResultInv, OnePerFamily, HasResult
  <2>4. \A k \in ips[c] : owner'[k] = c
    BY <2>1, <2>3 DEF Owned
  <2>5. ASSUME NEW u \in held PROVE phase'[u.id] = "ready" /\ owner'[u.key] = u.id
    BY <2>1, <2>2, <2>5, <1>others DEF HeldInv
  <2>6. ASSUME NEW u \in [id : {c}, key : ips[c]]
        PROVE  phase'[u.id] = "ready" /\ owner'[u.key] = u.id
    BY <2>2, <2>4, <2>6
  <2> QED
    BY <2>1, <2>5, <2>6 DEF HeldInv
<1>4. CASE ~InvokeDel(c) /\ ~PrintResult(c)
  <2>1. phase[c] # "ready"
    BY <1>4 DEF Act, Runtime, Add, Del, Stop, InvokeAdd, DestroyNamespace,
                LookupBridge, AddBridgeLink, SetBridgeMac, SetBridgeUp, SetupVeth,
                AttachHostVeth, IPAMAssign, IPAMRefuse, ListBridgeAddrs,
                AddBridgeAddr, ConfigureVeth, BlockIMDS, IPAMRelease,
                IPAMReleaseFails, DeleteVeth, ContInv, PhaseInv, AddSteps, DelSteps,
                TypeOK, Steps
  <2>2. held' = held
    BY <1>4 DEF Act, Runtime, Add, Del, Stop, InvokeAdd, DestroyNamespace,
                LookupBridge, AddBridgeLink, SetBridgeMac, SetBridgeUp, SetupVeth,
                AttachHostVeth, IPAMAssign, IPAMRefuse, ListBridgeAddrs,
                AddBridgeAddr, ConfigureVeth, BlockIMDS, IPAMRelease,
                IPAMReleaseFails, DeleteVeth
  <2> QED
    BY <1>1, <2>1, <2>2
<1> QED
  BY <1>2, <1>3, <1>4

-----------------------------------------------------------------------------
LEMMA ReportInvInit == Init => ReportInv
<1> SUFFICES ASSUME Init PROVE ReportInv
  OBVIOUS
<1>1. HeldInv
  BY DEF Init, HeldInv
<1>2. ASSUME NEW c \in Conts PROVE ContInv(c)
  <2>1. /\ pc[c] = "idle" /\ phase[c] = "new" /\ ips[c] = {}
        /\ link[c] = NoVeth /\ Owned(c) = {}
    BY FreeAssumption DEF Init, Owned
  <2>2. ~link[c].exists /\ link[c].addrs = {}
    BY <2>1, NoVethType, UnusedWhole DEF NoVeth
  <2> QED
    BY <2>1, <2>2 DEF ContInv, PhaseInv, OwnedInv, ResultInv, PairInv, CompleteInv,
                      AddSteps, DelSteps, HasVeth, HasResult
<1> QED
  BY <1>1, <1>2, BridgeInvInit DEF ReportInv

LEMMA ReportInvNext == ReportInv /\ [Next]_vars => ReportInv'
<1> SUFFICES ASSUME ReportInv, [Next]_vars PROVE ReportInv'
  OBVIOUS
<1> USE DEF ReportInv
<1>1. BridgeInv'
  BY BridgeInvNext
<1>2. CASE UNCHANGED vars
  <2>1. HeldInv'
    BY <1>2 DEF vars, HeldInv
  <2>2. ASSUME NEW c \in Conts PROVE ContInv(c)'
    BY <1>2, ContFrame DEF vars, UpGrows, Owned, BridgeInv
  <2> QED
    BY <1>1, <2>1, <2>2
<1>3. CASE DeleteBridge
  <2>1. HeldInv'
    BY <1>3 DEF DeleteBridge, HeldInv
  <2>2. ASSUME NEW c \in Conts PROVE ContInv(c)'
    <3>1. /\ pc[c] = "idle" /\ ~link[c].exists
          /\ pc'[c] = "idle" /\ link' = link /\ phase' = phase /\ ips' = ips
          /\ owner' = owner /\ blocked' = blocked /\ todo' = todo
      BY <1>3 DEF DeleteBridge
    <3>2. PairInv(c)'
      BY <3>1 DEF ContInv, PairInv, HasVeth, HasResult
    <3>3. PhaseInv(c)' /\ OwnedInv(c)' /\ ResultInv(c)'
      BY <3>1 DEF ContInv, PhaseInv, OwnedInv, ResultInv, HasResult, Owned
    <3>4. CompleteInv(c)'
      BY <3>1 DEF ContInv, CompleteInv, Complete, OnePerFamily, Owned
    <3> QED
      BY <3>2, <3>3, <3>4 DEF ContInv
  <2> QED
    BY <1>1, <2>1, <2>2
<1>4. ASSUME NEW c \in Conts, Act(c) PROVE ReportInv'
  <2>1. TypeOK /\ OwnInv(c) /\ ContInv(c)
    BY DEF BridgeInv
  <2>2. HeldInv'
    BY <1>4, <2>1, HeldStep
  <2>3. ContInv(c)'
    BY <1>4, <2>1, PhaseStep, OwnedStep, ResultStep, PairStep, CompleteStep
       DEF ContInv, OwnInv
  <2>4. UpGrows
    BY <1>4, <2>1, CommandsKeepUp
  <2>5. ASSUME NEW d \in Conts, d # c PROVE ContInv(d)'
    <3>1. OwnInv(d) /\ ContInv(d) /\ OwnedInv(c)
      BY <2>1 DEF BridgeInv, ContInv
    <3> QED
      BY <1>4, <2>1, <2>4, <2>5, <3>1, OthersAlone, OthersKeep, ContFrame
  <2> QED
    BY <1>1, <2>2, <2>3, <2>5
<1> QED
  BY <1>2, <1>3, <1>4 DEF Next, Act

-----------------------------------------------------------------------------
(* The properties.                                                         *)

(* What the invariant says of a reported container is what was reported.   *)
LEMMA ReadyFacts ==
    ASSUME ReportInv, NEW c \in Conts, phase[c] = "ready" PROVE Ready(c)
<1>1. TypeOK /\ OwnInv(c) /\ ContInv(c)
  BY DEF ReportInv, BridgeInv
<1>2. Complete(c) /\ (Conf[c].block => blocked[c] = Fam)
  BY <1>1 DEF ContInv, CompleteInv
<1>3. br.kind = "bridge" /\ br.up
  BY <1>1, <1>2 DEF Complete, OwnInv, LinkInv, ContInv, PairInv
<1>4. \A f \in Conf[c].fams : Conf[c].gw[f] \in br.addrs[f]
  <2> SUFFICES ASSUME NEW f \in Conf[c].fams PROVE Conf[c].gw[f] \in br.addrs[f]
    OBVIOUS
  <2>1. <<"gateway", f>> \in link[c].routes
    BY <1>2 DEF Complete
  <2>2. f \in Fam
    BY ConfAssumption DEF NetConf
  <2> QED
    BY <1>1, <2>1, <2>2 DEF OwnInv, RouteInv
<1>5. OnePerFamily(c, link[c].addrs, Conf[c].fams, {})
  BY <1>2 DEF Complete
<1>6. ASSUME NEW f \in Fam
      PROVE  Cardinality({k \in link[c].addrs : k[1] = f})
                = IF f \in Conf[c].fams THEN 1 ELSE 0
  <2>1. CASE f \in Conf[c].fams
    <3>1. PICK k \in link[c].addrs : k[1] = f
      BY <1>5, <2>1 DEF OnePerFamily
    <3>2. {j \in link[c].addrs : j[1] = f} = {k}
      BY <1>5, <3>1 DEF OnePerFamily
    <3> QED
      BY <2>1, <3>2, FS_Singleton
  <2>2. CASE f \notin Conf[c].fams
    <3>1. {j \in link[c].addrs : j[1] = f} = {}
      BY <1>5, <2>2 DEF OnePerFamily
    <3> QED
      BY <2>2, <3>1, FS_EmptySet
  <2> QED
    BY <2>1, <2>2
<1>7. /\ link[c].addrs \subseteq Owned(c)
      /\ \A k \in Owned(c) \ link[c].addrs : Apart(c, k[1])
  BY <1>5 DEF OnePerFamily
<1> QED
  BY <1>2, <1>3, <1>4, <1>6, <1>7 DEF Ready, Complete

(* A container whose ADD was reported is connected to a bridge that is up  *)
(* and has its gateways, with one address of its own per family, the       *)
(* routes that were asked for and no others, and without IMDS if that was  *)
(* asked for, whatever the other commands do and wherever they stop.       *)
THEOREM ReportsHold == Spec => []ReportedIsReady
<1>1. ReportInv => ReportedIsReady
  BY ReadyFacts DEF ReportedIsReady
<1> QED
  BY <1>1, ReportInvInit, ReportInvNext, PTL DEF Spec

(* A step strands an address of an interface only when a DEL returns it.   *)
THEOREM OnlyDelsStrand == Spec => OnlyDelStrands
<1>1. ReportInv /\ [Next]_vars =>
         [\A c \in Conts :
             link[c].addrs \subseteq Owned(c) /\ ~(link[c].addrs \subseteq Owned(c))'
               => pc[c] = "ipamDel"]_<<link, owner>>
  <2> SUFFICES ASSUME ReportInv, Next, NEW c \in Conts,
                      link[c].addrs \subseteq Owned(c), pc[c] # "ipamDel"
               PROVE  link'[c].addrs \subseteq Owned(c)'
    BY DEF vars, Owned
  <2> USE DEF ReportInv, BridgeInv
  <2>1. CASE DeleteBridge
    BY <2>1 DEF DeleteBridge, Owned
  <2>2. ASSUME NEW d \in Conts, Act(d), d # c PROVE link'[c].addrs \subseteq Owned(c)'
    <3>1. link'[c] = link[c] /\ Owned(c)' = Owned(c)
      BY <2>2, OthersAlone, OthersKeep DEF ContInv
    <3> QED
      BY <3>1
  <2>3. ASSUME Act(c) PROVE link'[c].addrs \subseteq Owned(c)'
    <3>1. ~IPAMRelease(c)
      BY DEF IPAMRelease
    <3>2. Owned(c) \subseteq Owned(c)'
      BY <2>3, <3>1, OwnerChanges, AssignFacts DEF Owned
    <3>3. link'[c].addrs \subseteq link[c].addrs \/ link'[c].addrs \subseteq ips[c]
      BY <2>3, PairChanges
    <3>4. ips[c] \subseteq Owned(c)
      BY DEF ContInv, ResultInv, OnePerFamily
    <3> HIDE DEF Owned
    <3> QED
      BY <3>2, <3>3, <3>4
  <2> QED
    BY <2>1, <2>2, <2>3 DEF Next, Act
<1> QED
  BY <1>1, ReportInvInit, ReportInvNext, PTL DEF Spec, OnlyDelStrands

-----------------------------------------------------------------------------
(* DEL: what it has come past is returned.                                 *)

LEMMA DelGoesOn ==
    ASSUME TypeOK, NEW c \in Conts, Act(c), pc[c] \in DelSteps, Onward(c)
    PROVE  IPAMRelease(c) \/ IPAMReleaseFails(c)
<1>1. ~Runtime(c)
  BY DEF Runtime, InvokeAdd, InvokeDel, DestroyNamespace, CanStart, DelSteps
<1>2. ~Add(c)
  BY DEF Add, LookupBridge, AddBridgeLink, SetBridgeMac, SetBridgeUp, SetupVeth,
         AttachHostVeth, IPAMAssign, IPAMRefuse, ListBridgeAddrs, AddBridgeAddr,
         ConfigureVeth, BlockIMDS, PrintResult, DelSteps
<1>3. ~Stop(c) /\ ~DeleteVeth(c)
  BY EndFacts, FailFacts DEF Stop, DeleteVeth, Onward, AddSteps, DelSteps
<1> QED
  BY <1>1, <1>2, <1>3 DEF Act, Del

LEMMA DelStep ==
    ASSUME "ipam" \notin Faults, TypeOK, NEW c \in Conts, ContInv(c), DelInv(c), Act(c)
    PROVE  DelInv(c)'
<1>other. ASSUME pc'[c] \notin DelSteps, phase'[c] # "gone" PROVE DelInv(c)'
  BY <1>other DEF DelInv, DelSteps
<1>1. CASE InvokeAdd(c) \/ DestroyNamespace(c)
  BY <1>1, <1>other DEF InvokeAdd, DestroyNamespace, CanStart, Goto, DelSteps, TypeOK
<1>2. CASE InvokeDel(c)
  <2>1. CASE pc'[c] = "ipamDel" /\ todo'[c] = Fam /\ phase'[c] = "del"
    <3>1. \A k \in Key : k[1] \in Fam
      BY DEF Key
    <3> QED
      BY <2>1, <3>1 DEF DelInv, Returned, Owned
  <2>2. CASE pc'[c] = "idle" /\ phase'[c] = "delFailed"
    BY <2>2, <1>other DEF DelSteps
  <2> QED
    BY <1>2, <2>1, <2>2 DEF InvokeDel, CanStart, Goto, TypeOK
<1>3. CASE PrintResult(c)
  BY <1>3, <1>other, EndFacts DEF PrintResult, DelSteps
<1>4. CASE DeleteVeth(c)
  <2>1. CASE Fail(c)
    BY <2>1, <1>other, FailFacts DEF DelSteps
  <2>2. CASE End(c, "gone") /\ link' = [link EXCEPT ![c] = NoVeth]
    <3>1. pc'[c] = "idle" /\ ~link'[c].exists
      BY <2>2, EndFacts, NoVethType DEF TypeOK
    <3>2. Returned(c, {})'
      BY <1>4 DEF DeleteVeth, DelInv, Returned, Owned
    <3> QED
      BY <3>1, <3>2 DEF DelInv
  <2> QED
    BY <1>4, <2>1, <2>2 DEF DeleteVeth
<1>5. CASE Onward(c) /\ pc[c] \in AddSteps
  BY <1>5, <1>other DEF Onward, ContInv, PhaseInv, AddSteps, DelSteps
<1>6. CASE Onward(c) /\ pc[c] \in DelSteps
  <2>1. IPAMRelease(c)
    BY <1>6, DelGoesOn DEF IPAMReleaseFails
  <2>2. Owned(c)' = {k \in Owned(c) : k[1] # Current(c) \/ Apart(c, k[1])}
    BY <2>1, ReleaseFacts DEF ContInv
  <2>3. /\ pc[c] = "ipamDel" /\ todo'[c] = todo[c] \ {Current(c)}
        /\ pc'[c] = IF todo[c] = {Current(c)} THEN "deleteVeth" ELSE "ipamDel"
        /\ phase'[c] = phase[c]
    BY <2>1 DEF IPAMRelease, NextFamily, Goto, TypeOK
  <2>4. Returned(c, todo[c])
    BY <2>3 DEF DelInv
  <2>5. phase'[c] # "gone"
    BY <2>3 DEF ContInv, PhaseInv, DelSteps
  <2> HIDE DEF Owned
  <2>6. Returned(c, todo[c])'
    BY <2>2, <2>3, <2>4 DEF Returned
  <2>7. todo[c] = {Current(c)} => Returned(c, {})'
    BY <2>2, <2>4 DEF Returned
  <2> QED
    BY <2>3, <2>5, <2>6, <2>7 DEF DelInv
<1>7. CASE Failed(c)
  BY <1>7, <1>other DEF Failed, DelSteps
<1> QED
  BY <1>1, <1>2, <1>3, <1>4, <1>5, <1>6, <1>7, Courses DEF Onward

(* With an ipam plugin that does not fail, nothing of a container is left  *)
(* after a DEL that succeeds, wherever the commands before it stopped: not *)
(* its interface, not its addresses, but for those stored apart.           *)
THEOREM DelsTakeAllBack ==
    ASSUME "ipam" \notin Faults
    PROVE  Spec => []DelTakesAllBack
<1> DEFINE Inv == ReportInv /\ \A c \in Conts : DelInv(c)
<1>1. Init => Inv
  <2> SUFFICES ASSUME Init, NEW c \in Conts PROVE DelInv(c)
    BY ReportInvInit
  <2> QED
    BY DEF Init, DelInv
<1>2. Inv /\ [Next]_vars => Inv'
  <2> SUFFICES ASSUME Inv, [Next]_vars, NEW c \in Conts PROVE DelInv(c)'
    BY ReportInvNext
  <2>1. TypeOK /\ ContInv(c) /\ DelInv(c)
    BY DEF ReportInv, BridgeInv
  <2>2. ASSUME pc'[c] = pc[c], todo'[c] = todo[c], link'[c] = link[c],
               phase'[c] = phase[c], Owned(c)' = Owned(c)
        PROVE  DelInv(c)'
    <3> HIDE DEF Owned
    <3> QED
      BY <2>1, <2>2 DEF DelInv, Returned
  <2>3. CASE UNCHANGED vars \/ DeleteBridge
    BY <2>2, <2>3 DEF vars, DeleteBridge, Owned
  <2>4. CASE Act(c)
    BY <2>1, <2>4, DelStep
  <2>5. ASSUME NEW d \in Conts, Act(d), d # c PROVE DelInv(c)'
    BY <2>1, <2>2, <2>5, OthersAlone, OthersKeep DEF ReportInv, ContInv
  <2> QED
    BY <2>3, <2>4, <2>5 DEF Next, Act
<1>3. Inv => DelTakesAllBack
  BY DEF DelInv, Returned, DelTakesAllBack
<1> QED
  BY <1>1, <1>2, <1>3, PTL DEF Spec

-----------------------------------------------------------------------------
(* The refinement: an assignment of the ipam plugin reserves an address, a *)
(* release returns it, a reported ADD hands its addresses to the runtime,  *)
(* and the start of a DEL drops them.                                      *)

LEMMA LedgerStep ==
    ASSUME ReportInv, NEW c \in Conts, Act(c)
    PROVE  Ledger!Next \/ UNCHANGED <<owner, held>>
<1>0. TypeOK /\ HeldInv /\ ContInv(c)
  BY DEF ReportInv, BridgeInv
<1>1. CASE IPAMAssign(c)
  <2>1. PICK k \in Key : owner[k] = Free /\ owner' = [owner EXCEPT ![k] = c]
    BY <1>0, <1>1, AssignFacts
  <2>2. c \in Ledger!Owner
    BY DEF Ledger!Owner
  <2>3. Ledger!Reserve(k, c)
    BY <1>1, <2>1 DEF IPAMAssign, Ledger!Reserve
  <2> QED
    BY <2>2, <2>3 DEF Ledger!Next
<1>2. CASE IPAMRelease(c)
  <2>1. held' = held
    BY <1>2 DEF IPAMRelease
  <2>2. ASSUME NEW k \in Owned(c), owner' = [owner EXCEPT ![k] = Free]
        PROVE  Ledger!Next
    <3>1. k \in Key /\ owner[k] = c
      BY DEF Owned
    <3>2. phase[c] # "ready"
      BY <1>0, <1>2 DEF IPAMRelease, ContInv, PhaseInv, DelSteps
    <3>3. \A u \in held : u.key # k
      BY <1>0, <3>1, <3>2 DEF HeldInv
    <3>4. Ledger!Return(k)
      BY <2>1, <2>2, <3>3 DEF Ledger!Return
    <3> QED
      BY <3>1, <3>4 DEF Ledger!Next
  <2> QED
    BY <1>2, <2>1, <2>2 DEF IPAMRelease
<1>3. CASE PrintResult(c)
  <2>1. ips[c] \in SUBSET Key /\ \A k \in ips[c] : owner[k] = c
    BY <1>0, <1>3 DEF PrintResult, ContInv, ResultInv, OnePerFamily, HasResult,
                    Owned, TypeOK
  <2>2. Ledger!Hand(c, ips[c])
    BY <1>3, <2>1 DEF PrintResult, Ledger!Hand
  <2> QED
    BY <2>1, <2>2 DEF Ledger!Next
<1>4. CASE InvokeDel(c)
  <2> DEFINE us == {u \in held : u.id = c}
  <2>1. us \in SUBSET held /\ held' = held \ us /\ owner' = owner
    BY <1>4 DEF InvokeDel
  <2>2. Ledger!Drop(us)
    BY <2>1 DEF Ledger!Drop
  <2> QED
    BY <2>1, <2>2 DEF Ledger!Next
<1>5. CASE ~(IPAMAssign(c) \/ IPAMRelease(c) \/ PrintResult(c) \/ InvokeDel(c))
  <2>1. held' = held
    BY <1>5 DEF Act, Runtime, Add, Del, Stop, InvokeAdd, DestroyNamespace,
                LookupBridge, AddBridgeLink, SetBridgeMac, SetBridgeUp, SetupVeth,
                AttachHostVeth, IPAMRefuse, ListBridgeAddrs, AddBridgeAddr,
                ConfigureVeth, BlockIMDS, IPAMReleaseFails, DeleteVeth
  <2> QED
    BY <1>5, <2>1, OwnerChanges
<1> QED
  BY <1>1, <1>2, <1>3, <1>4, <1>5

(* The bridge plugin uses the addresses of the ipam plugin as the ledger   *)
(* asks: no container is told of an address it does not own, and none goes *)
(* back that a container uses, even when the ipam plugin fails.            *)
THEOREM BridgeIsLedger == Spec => ImplementsLedger
<1>1. Init => Ledger!Init
  BY DEF Init, Ledger!Init
<1>2. ReportInv /\ [Next]_vars => [Ledger!Next]_(Ledger!vars)
  <2> SUFFICES ASSUME ReportInv, [Next]_vars
               PROVE  Ledger!Next \/ UNCHANGED <<owner, held>>
    BY DEF Ledger!vars
  <2>1. CASE UNCHANGED vars \/ DeleteBridge
    BY <2>1 DEF vars, DeleteBridge
  <2>2. ASSUME NEW c \in Conts, Act(c)
        PROVE  Ledger!Next \/ UNCHANGED <<owner, held>>
    BY <2>2, LedgerStep
  <2> QED
    BY <2>1, <2>2 DEF Next, Act
<1> QED
  BY <1>1, <1>2, ReportInvInit, ReportInvNext, PTL
     DEF Spec, ImplementsLedger, Ledger!Spec

-----------------------------------------------------------------------------
(* One command at a time.                                                  *)

(* With one command at a time nothing comes between the list of addresses  *)
(* and the address that is added to it.                                    *)
AlonePc == \A c, d \in Conts : pc[c] # "idle" /\ pc[d] # "idle" => c = d

AgreeInv ==
    \A f \in Fam, a, b \in Gateways :
        {a, b} \subseteq br.addrs[f] =>
            a = b \/ (f = 6 /\ {a, b} \cap LinkLocal # {})

ListedInv(c) == pc[c] = "addrAdd" => ~Conflict(Current(c), br.addrs[Current(c)])

AloneInv == AlonePc /\ AgreeInv /\ \A c \in Conts : ListedInv(c)

(* A command starts when no other runs.                                    *)
LEMMA StartsAlone ==
    ASSUME Parallel = 1, AlonePc, NEW c \in Conts, CanStart(c)
    PROVE  \A d \in Conts : pc[d] = "idle"
<1> SUFFICES ASSUME NEW d \in Conts, pc[d] # "idle" PROVE FALSE
  OBVIOUS
<1>1. {e \in Conts : pc[e] # "idle"} = {d}
  BY DEF AlonePc
<1>2. Cardinality({d}) = 1
  BY FS_Singleton
<1> QED
  BY <1>1, <1>2 DEF CanStart

LEMMA RuntimeOrRunning ==
    ASSUME NEW c \in Conts, Act(c) PROVE Runtime(c) \/ pc[c] # "idle"
BY DEF Act, Add, Del, Stop, LookupBridge, AddBridgeLink, SetBridgeMac, SetBridgeUp,
       SetupVeth, AttachHostVeth, IPAMAssign, IPAMRefuse, ListBridgeAddrs,
       AddBridgeAddr, ConfigureVeth, BlockIMDS, PrintResult, IPAMRelease,
       IPAMReleaseFails, DeleteVeth

LEMMA AloneStep ==
    ASSUME Parallel = 1, TypeOK, AlonePc, NEW c \in Conts, Act(c)
    PROVE  AlonePc'
<1>others. \A d \in Conts : d # c => pc'[d] = pc[d]
  BY OthersAlone
<1>1. CASE pc[c] # "idle"
  <2>1. \A d \in Conts : d # c => pc'[d] = "idle"
    BY <1>1, <1>others DEF AlonePc
  <2> QED
    BY <2>1 DEF AlonePc
<1>2. CASE DestroyNamespace(c)
  BY <1>2 DEF DestroyNamespace, AlonePc
<1>3. CASE InvokeAdd(c) \/ InvokeDel(c)
  <2>1. \A d \in Conts : pc[d] = "idle"
    BY <1>3, StartsAlone DEF InvokeAdd, InvokeDel
  <2> QED
    BY <1>others, <2>1 DEF AlonePc
<1> QED
  BY <1>1, <1>2, <1>3, RuntimeOrRunning DEF Runtime

(* The one that is about to add an address has just listed them.           *)
LEMMA AddrAddPlace ==
    ASSUME TypeOK, NEW c \in Conts, Act(c), pc'[c] = "addrAdd"
    PROVE  /\ pc[c] = "list" /\ br' = br /\ todo' = todo
           /\ ~Conflict(Current(c), br.addrs[Current(c)])
<1>1. ~Fail(c)
  BY FailIdle
<1>2. ~Runtime(c)
  BY DEF Runtime, InvokeAdd, InvokeDel, DestroyNamespace, CanStart, Goto, TypeOK
<1>3. ~Del(c)
  BY <1>1 DEF Del, IPAMRelease, IPAMReleaseFails, DeleteVeth, NextFamily, End,
              Goto, TypeOK
<1>4. ~(LookupBridge(c) \/ AddBridgeLink(c) \/ SetBridgeMac(c) \/ SetBridgeUp(c))
  BY <1>1 DEF LookupBridge, AddBridgeLink, SetBridgeMac, SetBridgeUp, Goto, TypeOK
<1>5. ~(SetupVeth(c) \/ AttachHostVeth(c) \/ IPAMAssign(c) \/ IPAMRefuse(c))
  BY <1>1 DEF SetupVeth, AttachHostVeth, IPAMAssign, IPAMRefuse, Goto, TypeOK
<1>6. ~(AddBridgeAddr(c) \/ ConfigureVeth(c) \/ BlockIMDS(c) \/ PrintResult(c))
  BY <1>1 DEF AddBridgeAddr, ConfigureVeth, BlockIMDS, PrintResult, NextFamily, End,
              Goto, TypeOK
<1>7. ListBridgeAddrs(c)
  BY <1>1, <1>2, <1>3, <1>4, <1>5, <1>6 DEF Act, Add, Stop
<1> QED
  BY <1>1, <1>7 DEF ListBridgeAddrs, NextFamily, Goto, TypeOK

LEMMA ListedStep ==
    ASSUME Parallel = 1, TypeOK, AloneInv, NEW c \in Conts, Act(c), NEW d \in Conts
    PROVE  ListedInv(d)'
<1> SUFFICES ASSUME pc'[d] = "addrAdd"
             PROVE  ~Conflict(Current(d), br.addrs[Current(d)])'
  BY DEF ListedInv
<1>1. CASE d = c
  BY <1>1, AddrAddPlace DEF Current, Conflict
<1>2. CASE d # c
  <2>1. pc[d] = "addrAdd" /\ todo'[d] = todo[d]
    BY <1>2, OthersAlone
  <2>2. pc[c] = "idle"
    BY <1>2, <2>1 DEF AloneInv, AlonePc
  <2>3. Runtime(c)
    BY <2>2, RuntimeOrRunning
  <2>4. br' = br
    BY <2>3 DEF Runtime, InvokeAdd, InvokeDel, DestroyNamespace
  <2> QED
    BY <2>1, <2>4 DEF AloneInv, ListedInv, Current, Conflict
<1> QED
  BY <1>1, <1>2

(* An address is added to a bridge without conflicting ones.               *)
LEMMA AgreeStep ==
    ASSUME TypeOK, AloneInv, NEW c \in Conts, Act(c)
    PROVE  AgreeInv'
<1>same. ASSUME \A f \in Fam : br'.addrs[f] \subseteq br.addrs[f] PROVE AgreeInv'
  <2> SUFFICES ASSUME NEW f \in Fam, NEW a \in Gateways, NEW b \in Gateways,
                      {a, b} \subseteq br'.addrs[f]
               PROVE  a = b \/ (f = 6 /\ {a, b} \cap LinkLocal # {})
    BY DEF AgreeInv
  <2>1. {a, b} \subseteq br.addrs[f]
    BY <1>same
  <2> QED
    BY <2>1 DEF AloneInv, AgreeInv
<1>1. CASE UNCHANGED br \/ SetBridgeMac(c) \/ SetBridgeUp(c)
  BY <1>1, <1>same DEF SetBridgeMac, SetBridgeUp, TypeOK, Link
<1>2. CASE br' = NewLink("bridge")
  BY <1>2, <1>same DEF NewLink
<1>3. CASE AddBridgeAddr(c)
  <2> DEFINE F == Current(c)
  <2>1. F \in Fam /\ (F = 4 \/ F = 6) /\ F = Current(c)
    BY CurrentFam DEF Fam
  <2>2. /\ br'.addrs[F] = br.addrs[F] \cup {Gw(c)}
        /\ \A f \in Fam : f # F => br'.addrs[f] = br.addrs[f]
    BY <1>3, CurrentFam DEF AddBridgeAddr, TypeOK, Link
  <2>3. ~Conflict(F, br.addrs[F])
    BY <1>3 DEF AddBridgeAddr, AloneInv, ListedInv
  <2> HIDE DEF F
  <2>4. IF F = 6 THEN br.addrs[F] \subseteq LinkLocal ELSE br.addrs[F] = {}
    BY <2>3 DEF Conflict
  <2> SUFFICES ASSUME NEW f \in Fam, NEW a \in Gateways, NEW b \in Gateways,
                      {a, b} \subseteq br'.addrs[f]
               PROVE  a = b \/ (f = 6 /\ {a, b} \cap LinkLocal # {})
    BY DEF AgreeInv
  <2>5. CASE f # F
    BY <2>2, <2>5 DEF AloneInv, AgreeInv
  <2>6. CASE f = F
    <3>1. /\ a \in br.addrs[F] \/ a = Gw(c)
          /\ b \in br.addrs[F] \/ b = Gw(c)
      BY <2>2, <2>6
    <3> QED
      BY <2>1, <2>4, <2>6, <3>1
  <2> QED
    BY <2>5, <2>6
<1> QED
  BY <1>1, <1>2, <1>3, LinkChanges

(* When the runtime runs one command at a time, the containers that are up *)
(* have one gateway per family, link-local ones aside.                     *)
THEOREM OneGatewayAlone ==
    ASSUME Parallel = 1
    PROVE  Spec => []OneGateway
<1> DEFINE Inv == ReportInv /\ AloneInv
<1>1. Init => Inv
  <2> SUFFICES ASSUME Init PROVE AloneInv
    BY ReportInvInit
  <2>1. \A f \in Fam : br.addrs[f] = {}
    BY DEF Init, NewLink
  <2> QED
    BY <2>1 DEF Init, AloneInv, AlonePc, AgreeInv, ListedInv
<1>2. Inv /\ [Next]_vars => Inv'
  <2> SUFFICES ASSUME Inv, [Next]_vars PROVE AloneInv'
    BY ReportInvNext
  <2>1. TypeOK
    BY DEF ReportInv, BridgeInv
  <2>2. CASE UNCHANGED vars
    BY <2>2 DEF vars, AloneInv, AlonePc, AgreeInv, ListedInv, Current
  <2>3. CASE DeleteBridge
    <3>1. \A f \in Fam : br'.addrs[f] = {}
      BY <2>3 DEF DeleteBridge, NewLink
    <3>2. \A c \in Conts : pc'[c] = "idle"
      BY <2>3 DEF DeleteBridge
    <3> QED
      BY <3>1, <3>2 DEF AloneInv, AlonePc, AgreeInv, ListedInv
  <2>4. ASSUME NEW c \in Conts, Act(c) PROVE AloneInv'
    <3>1. AlonePc' /\ AgreeInv'
      BY <2>1, <2>4, AloneStep, AgreeStep DEF AloneInv
    <3>2. \A d \in Conts : ListedInv(d)'
      BY <2>1, <2>4, ListedStep
    <3> QED
      BY <3>1, <3>2 DEF AloneInv
  <2> QED
    BY <2>2, <2>3, <2>4 DEF Next, Act
<1>3. Inv => OneGateway
  <2> SUFFICES ASSUME Inv, NEW c \in Conts, NEW d \in Conts, NEW f \in Fam,
                      phase[c] = "ready", phase[d] = "ready",
                      f \in Conf[c].fams \cap Conf[d].fams
               PROVE  \/ Conf[c].gw[f] = Conf[d].gw[f]
                      \/ f = 6 /\ {Conf[c].gw[f], Conf[d].gw[f]} \cap LinkLocal # {}
    BY DEF OneGateway
  <2>1. Conf[c].gw[f] \in Gateways /\ Conf[d].gw[f] \in Gateways
    BY ConfAssumption DEF NetConf
  <2>2. Conf[c].gw[f] \in br.addrs[f] /\ Conf[d].gw[f] \in br.addrs[f]
    BY ReadyFacts DEF Ready
  <2> QED
    BY <2>1, <2>2 DEF AloneInv, AgreeInv
<1> QED
  BY <1>1, <1>2, <1>3, PTL DEF Spec

(* What the runtime was told a container has is the container's in the     *)
(* ledger, so that no two containers are told of one address.              *)
THEOREM UsersOwnTheirs == Spec => [](Ledger!UsersOwn /\ Ledger!NeverShared)
<1>1. ReportInv => Ledger!UsersOwn /\ Ledger!NeverShared
  BY DEF ReportInv, HeldInv, Ledger!UsersOwn, Ledger!NeverShared
<1> QED
  BY <1>1, ReportInvInit, ReportInvNext, PTL DEF Spec
=============================================================================
