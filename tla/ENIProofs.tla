----------------------------- MODULE ENIProofs -----------------------------
(***************************************************************************)
(* Theorems about ENI, for all values of its constants.                    *)
(***************************************************************************)
EXTENDS ENI, TLAPS

Closure == {"rename", "addr", "up", "block", "gateway"}

(* What is known of the configuration where a command is, and what its     *)
(* loops still have to do.                                                 *)
Shape(c) ==
    /\ pc[c] \notin {"idle", "find"} => NewConf(Conf[c])
    /\ pc[c] \in Closure => Malformed \notin Conf[c].gws
    /\ pc[c] \in {"addr", "block"} => todo[c] \subseteq Fam
    /\ pc[c] = "gateway" => todo[c] \subseteq Gateways

TypeInv == TypeOK /\ \A c \in Conts : Shape(c)

(* A namespace with a handle exists, and the link a command has an index   *)
(* of is in it once it was moved.                                          *)
HandleInv(c) ==
    /\ pc[c] \in Inside => ns[c] # "none"
    /\ pc[c] \in Inside \ {"move"} /\ idx[c] # None => at[idx[c]] = c

(* A default route goes through a link.                                    *)
RouteInv(c) == route[c] # NoRoutes => In(c) # {}

(* What the loop over the IMDS endpoints has come past is blocked.         *)
BlockInv(c) ==
    Conf[c].block =>
      /\ pc[c] = "block" => Fam \ todo[c] \subseteq blocked[c]
      /\ pc[c] = "gateway" => blocked[c] = Fam
      /\ \A f \in Fam : route[c][f] \notin {None, Advertised} => blocked[c] = Fam

SpaceOf(c) == HandleInv(c) /\ RouteInv(c) /\ BlockInv(c)

SpaceInv == TypeInv /\ \A c \in Conts : SpaceOf(c)

(* No two links of the host have one name, and each has a name.            *)
NamesApart ==
    \A e \in Enis : at[e] = Host =>
       /\ name[e] # None
       /\ \A f \in Enis \ {e} : at[f] = Host => name[f] # name[e]

(* Unless the name was taken, the device name a command has found leads to *)
(* its ENI or to nothing, its index is of that ENI, and its container has  *)
(* no other.                                                               *)
LookupOf(c) ==
    /\ pc[c] = "idle" => idx[c] = None
    /\ ~taken[c] =>
         /\ idx[c] \in {None, Conf[c].mac}
         /\ pc[c] = "link" =>
              \A e \in Enis : at[e] = Host /\ name[e] = dev[c] => e = Conf[c].mac
         /\ \A e \in Enis : at[e] = c => e = Conf[c].mac

LookupInv == SpaceInv /\ NamesApart /\ \A c \in Conts : LookupOf(c)

-----------------------------------------------------------------------------
(* Facts about the constants.                                              *)

LEMMA ConfFacts ==
    ASSUME NEW c \in Conts
    PROVE  /\ Conf[c].mac \in Enis \cup {Malformed}
           /\ Conf[c].ifName \in Names
           /\ Conf[c].addrs \subseteq Fam \cup {Malformed}
           /\ Conf[c].gws \subseteq Gateways \cup {Malformed}
           /\ Conf[c].block \in BOOLEAN /\ Conf[c].stayDown \in BOOLEAN
           /\ NewConf(Conf[c]) => Conf[c].mac \in Enis /\ Conf[c].addrs \subseteq Fam
           /\ Malformed \notin Conf[c].gws => Conf[c].gws \subseteq Gateways
  BY ConfAssumption DEF NetConf, NewConf

LEMMA NoRoutesType == NoRoutes \in [Fam -> Gateways \cup {None, Advertised}]
  BY DEF NoRoutes

-----------------------------------------------------------------------------
(* The variables keep their types.                                         *)

LEMMA TypeInit == Init => TypeInv
  BY NoRoutesType DEF Init, TypeInv, TypeOK, Shape, Phases, Closure, Outside, Inside

LEMMA EndType ==
    ASSUME TypeInv, NEW c \in Conts, NEW how \in Phases, End(c, how)
    PROVE  TypeInv'
  BY DEF TypeInv, TypeOK, Shape, Closure, End, links, spaces

LEMMA FailType ==
    ASSUME TypeInv, NEW c \in Conts, Fail(c)
    PROVE  TypeInv'
  BY EndType DEF Fail, Phases

(* A step of the loops keeps the local variables' types.                   *)
LEMMA GotoType ==
    ASSUME TypeInv, NEW c \in Conts,
           NEW step \in Outside \cup Inside, NEW rest \in SUBSET (Fam \cup Gateways),
           Goto(c, step, rest),
           NewConf(Conf[c]),
           step \in Closure => Malformed \notin Conf[c].gws,
           step \in {"addr", "block"} => rest \subseteq Fam,
           step = "gateway" => rest \subseteq Gateways
    PROVE  /\ pc' \in [Conts -> {"idle"} \cup Outside \cup Inside]
           /\ todo' \in [Conts -> SUBSET (Fam \cup Gateways)]
           /\ dev' = dev /\ phase' = phase /\ taken' = taken
           /\ \A d \in Conts : Shape(d)'
  BY DEF TypeInv, TypeOK, Shape, Closure, Goto

LEMMA GatewaysType ==
    ASSUME TypeInv, NEW c \in Conts, pc[c] \in Closure, GotoGateways(c)
    PROVE  /\ pc' \in [Conts -> {"idle"} \cup Outside \cup Inside]
           /\ todo' \in [Conts -> SUBSET (Fam \cup Gateways)]
           /\ dev' = dev /\ phase' = phase /\ taken' = taken
           /\ \A d \in Conts : Shape(d)'
<1>1. NewConf(Conf[c]) /\ Conf[c].gws \subseteq Gateways
  BY ConfFacts DEF TypeInv, Shape, Closure
<1>2. CASE Conf[c].gws = {}
  <2>1. Goto(c, "print", {})
    BY <1>2 DEF GotoGateways
  <2> QED
    BY <1>1, <2>1, GotoType DEF Inside, Closure
<1>3. CASE Conf[c].gws # {}
  <2>1. Goto(c, "gateway", Conf[c].gws)
    BY <1>3 DEF GotoGateways
  <2>2. Malformed \notin Conf[c].gws
    BY DEF TypeInv, Shape
  <2> QED
    BY <1>1, <2>1, <2>2, GotoType DEF Inside, Closure
<1> QED
  BY <1>2, <1>3

LEMMA StepType ==
    ASSUME TypeInv, NEW c \in Conts, Step(c)
    PROVE  TypeInv'
<1> USE ConfFacts
<1>1. CASE LinkGone(c)
  BY <1>1, FailType DEF LinkGone
<1>2. CASE Find(c)
  <2>1. CASE Fail(c)
    BY <2>1, FailType
  <2>2. CASE ~Fail(c)
    <3>1. /\ pc[c] = "find" /\ NewConf(Conf[c])
          /\ pc' = [pc EXCEPT ![c] = "link"]
          /\ UNCHANGED <<links, spaces, idx, todo, phase, taken>>
          /\ \E n \in GetInterfaceDeviceName(Conf[c].mac) :
                dev' = [dev EXCEPT ![c] = n]
      BY <1>2, <2>2 DEF Find
    <3>2. \E e \in OnHost : dev' = [dev EXCEPT ![c] = name[e]]
      BY <3>1 DEF GetInterfaceDeviceName, getLinkByHardwareAddress
    <3> QED
      BY <3>1, <3>2 DEF TypeInv, TypeOK, Shape, Closure, links, spaces, OnHost,
                        Outside, Inside
  <2> QED
    BY <2>1, <2>2
<1>3. CASE GetLink(c)
  <2>1. CASE Fail(c)
    BY <2>1, FailType
  <2>2. CASE ~Fail(c)
    <3>1. /\ Goto(c, "move", {})
          /\ \E e \in Enis : idx' = [idx EXCEPT ![c] = e]
          /\ UNCHANGED <<links, spaces>>
      BY <1>3, <2>2 DEF GetLink, OnHost
    <3>2. NewConf(Conf[c])
      BY <1>3 DEF GetLink, TypeInv, Shape
    <3>3. /\ pc' \in [Conts -> {"idle"} \cup Outside \cup Inside]
          /\ todo' \in [Conts -> SUBSET (Fam \cup Gateways)]
          /\ dev' = dev /\ phase' = phase /\ taken' = taken
          /\ \A d \in Conts : Shape(d)'
      BY <3>1, <3>2, GotoType DEF Inside, Closure
    <3> QED
      BY <3>1, <3>3 DEF TypeInv, TypeOK, links, spaces
  <2> QED
    BY <2>1, <2>2
<1>4. CASE Move(c)
  <2>1. CASE Fail(c)
    BY <2>1, FailType
  <2>2. CASE ~Fail(c)
    <3> DEFINE next == IF Conf[c].stayDown THEN "print" ELSE "enter"
    <3>1. /\ Goto(c, next, {})
          /\ at' = [at EXCEPT ![idx[c]] = c]
          /\ up' = [up EXCEPT ![idx[c]] = FALSE]
          /\ addrs' = [addrs EXCEPT ![idx[c]] = {}]
          /\ UNCHANGED <<name, spaces, idx>>
      BY <1>4, <2>2 DEF Move
    <3>2. NewConf(Conf[c])
      BY <1>4 DEF Move, TypeInv, Shape
    <3>3. next \in {"print", "enter"}
      OBVIOUS
    <3> QED
      BY <3>1, <3>2, <3>3, GotoType DEF TypeInv, TypeOK, links, spaces, Inside, Closure
  <2> QED
    BY <2>1, <2>2
<1>5. CASE Enter(c)
  <2>1. CASE Fail(c)
    BY <2>1, FailType
  <2>2. CASE ~Fail(c)
    <3>1. /\ Goto(c, "rename", {})
          /\ \E e \in Enis : idx' = [idx EXCEPT ![c] = e]
          /\ Malformed \notin Conf[c].gws
          /\ UNCHANGED <<links, spaces>>
      BY <1>5, <2>2 DEF Enter, In, newSetupNamespaceClosureContext
    <3>2. NewConf(Conf[c])
      BY <1>5 DEF Enter, TypeInv, Shape
    <3> QED
      BY <3>1, <3>2, GotoType DEF TypeInv, TypeOK, links, spaces, Inside, Closure
  <2> QED
    BY <2>1, <2>2
<1>6. CASE Rename(c)
  <2>1. CASE Fail(c)
    BY <2>1, FailType
  <2>2. CASE ~Fail(c)
    <3>1. /\ Goto(c, "addr", Conf[c].addrs)
          /\ name' = [name EXCEPT ![idx[c]] = Conf[c].ifName]
          /\ UNCHANGED <<at, up, addrs, spaces, idx>>
      BY <1>6, <2>2 DEF Rename
    <3>2. NewConf(Conf[c]) /\ Malformed \notin Conf[c].gws
      BY <1>6 DEF Rename, TypeInv, Shape, Closure
    <3>3. Conf[c].addrs \subseteq Fam
      BY <3>2
    <3>4. Conf[c].addrs \in SUBSET (Fam \cup Gateways)
      BY <3>3
    <3> QED
      BY <3>1, <3>2, <3>3, <3>4, GotoType
      DEF TypeInv, TypeOK, links, spaces, Inside, Closure
  <2> QED
    BY <2>1, <2>2
<1>7. CASE AddAddr(c)
  <2>1. PICK f \in todo[c] :
          /\ addrs' = [addrs EXCEPT ![idx[c]] = @ \cup {f}]
          /\ IF todo[c] = {f} THEN Goto(c, "up", {})
                              ELSE Goto(c, "addr", todo[c] \ {f})
    BY <1>7 DEF AddAddr
  <2>2. /\ NewConf(Conf[c]) /\ Malformed \notin Conf[c].gws
        /\ todo[c] \subseteq Fam
        /\ UNCHANGED <<at, name, up, spaces, idx>>
    BY <1>7 DEF AddAddr, TypeInv, Shape, Closure
  <2>3. todo[c] \ {f} \in SUBSET (Fam \cup Gateways) /\ todo[c] \ {f} \subseteq Fam
    BY <2>2
  <2>4. /\ pc' \in [Conts -> {"idle"} \cup Outside \cup Inside]
        /\ todo' \in [Conts -> SUBSET (Fam \cup Gateways)]
        /\ dev' = dev /\ phase' = phase /\ taken' = taken
        /\ \A d \in Conts : Shape(d)'
    <3>1. CASE todo[c] = {f}
      BY <2>1, <2>2, <3>1, GotoType DEF Inside, Closure
    <3>2. CASE todo[c] # {f}
      BY <2>1, <2>2, <2>3, <3>2, GotoType DEF Inside, Closure
    <3> QED
      BY <3>1, <3>2
  <2>5. addrs' \in [Enis -> SUBSET Fam]
    BY <2>1, <2>2 DEF TypeInv, TypeOK
  <2> QED
    BY <2>2, <2>4, <2>5 DEF TypeInv, TypeOK, links, spaces
<1>8. CASE BringUp(c)
  <2>1. /\ up' = [up EXCEPT ![idx[c]] = TRUE]
        /\ UNCHANGED <<at, name, addrs, spaces, idx>>
        /\ NewConf(Conf[c]) /\ Malformed \notin Conf[c].gws
        /\ pc[c] \in Closure
    BY <1>8 DEF BringUp, TypeInv, Shape, Closure
  <2>2. /\ pc' \in [Conts -> {"idle"} \cup Outside \cup Inside]
        /\ todo' \in [Conts -> SUBSET (Fam \cup Gateways)]
        /\ dev' = dev /\ phase' = phase /\ taken' = taken
        /\ \A d \in Conts : Shape(d)'
    <3>1. CASE Conf[c].block
      <4>1. Goto(c, "block", Fam)
        BY <1>8, <3>1 DEF BringUp, GotoBlock
      <4> QED
        BY <2>1, <4>1, GotoType DEF Inside, Closure
    <3>2. CASE ~Conf[c].block
      <4>1. GotoGateways(c)
        BY <1>8, <3>2 DEF BringUp, GotoBlock
      <4> QED
        BY <2>1, <4>1, GatewaysType
    <3> QED
      BY <3>1, <3>2
  <2> QED
    BY <2>1, <2>2 DEF TypeInv, TypeOK, links, spaces
<1>9. CASE BlockIMDS(c)
  <2>1. PICK f \in Fam :
          /\ blocked' = [blocked EXCEPT ![c] = @ \cup {f}]
          /\ IF todo[c] = {f} THEN GotoGateways(c)
                              ELSE Goto(c, "block", todo[c] \ {f})
    BY <1>9 DEF BlockIMDS
  <2>2. /\ NewConf(Conf[c]) /\ Malformed \notin Conf[c].gws
        /\ todo[c] \subseteq Fam /\ pc[c] \in Closure
        /\ UNCHANGED <<links, ns, route, idx>>
    BY <1>9 DEF BlockIMDS, TypeInv, Shape, Closure
  <2>3. todo[c] \ {f} \in SUBSET (Fam \cup Gateways) /\ todo[c] \ {f} \subseteq Fam
    BY <2>2
  <2>4. /\ pc' \in [Conts -> {"idle"} \cup Outside \cup Inside]
        /\ todo' \in [Conts -> SUBSET (Fam \cup Gateways)]
        /\ dev' = dev /\ phase' = phase /\ taken' = taken
        /\ \A d \in Conts : Shape(d)'
    <3>1. CASE todo[c] = {f}
      BY <2>1, <2>2, <3>1, GatewaysType
    <3>2. CASE todo[c] # {f}
      BY <2>1, <2>2, <2>3, <3>2, GotoType DEF Inside, Closure
    <3> QED
      BY <3>1, <3>2
  <2> QED
    BY <2>1, <2>2, <2>4 DEF TypeInv, TypeOK, links, spaces
<1>10. CASE AddGateway(c)
  <2>1. CASE Fail(c)
    BY <2>1, FailType
  <2>2. CASE ~Fail(c)
    <3>1. PICK g \in todo[c] :
            /\ route' = IF route[c][GwFam[g]] = None
                           THEN [route EXCEPT ![c][GwFam[g]] = g] ELSE route
            /\ IF todo[c] = {g} THEN Goto(c, "print", {})
                                ELSE Goto(c, "gateway", todo[c] \ {g})
            /\ UNCHANGED <<links, ns, blocked, idx>>
      BY <1>10, <2>2 DEF AddGateway, isRouteExistsError
    <3>2. /\ NewConf(Conf[c]) /\ Malformed \notin Conf[c].gws
          /\ todo[c] \subseteq Gateways
      BY <1>10 DEF AddGateway, TypeInv, Shape, Closure
    <3>3. /\ todo[c] \ {g} \in SUBSET (Fam \cup Gateways)
          /\ todo[c] \ {g} \subseteq Gateways
      BY <3>2
    <3>4. /\ pc' \in [Conts -> {"idle"} \cup Outside \cup Inside]
          /\ todo' \in [Conts -> SUBSET (Fam \cup Gateways)]
          /\ dev' = dev /\ phase' = phase /\ taken' = taken
          /\ \A d \in Conts : Shape(d)'
      <4>1. CASE todo[c] = {g}
        BY <3>1, <3>2, <4>1, GotoType DEF Inside, Closure
      <4>2. CASE todo[c] # {g}
        BY <3>1, <3>2, <3>3, <4>2, GotoType DEF Inside, Closure
      <4> QED
        BY <4>1, <4>2
    <3>5. GwFam[g] \in Fam
      BY <3>1, <3>2, GatewayAssumption
    <3>6. route' \in [Conts -> [Fam -> Gateways \cup {None, Advertised}]]
      BY <3>1, <3>2, <3>5 DEF TypeInv, TypeOK
    <3> QED
      BY <3>1, <3>4, <3>6 DEF TypeInv, TypeOK, links, spaces
  <2> QED
    BY <2>1, <2>2
<1>11. CASE PrintResult(c)
  BY <1>11, EndType DEF PrintResult, Phases
<1> QED
  BY <1>1, <1>2, <1>3, <1>4, <1>5, <1>6, <1>7, <1>8, <1>9, <1>10, <1>11 DEF Step

LEMMA HostType ==
    ASSUME TypeInv, NEW e \in Enis, NEW n \in Names, ComesToHost(e, n)
    PROVE  /\ at' \in [Enis -> Conts \cup {Host, Nowhere}]
           /\ name' \in [Enis -> Names \cup {None}]
           /\ up' \in [Enis -> BOOLEAN]
           /\ addrs' \in [Enis -> SUBSET Fam]
           /\ taken' \in [Conts -> BOOLEAN]
  BY DEF TypeInv, TypeOK, ComesToHost, TakesName

LEMMA TypeStep == TypeInv /\ [Next]_vars => TypeInv'
<1> SUFFICES ASSUME TypeInv, [Next]_vars PROVE TypeInv'
  OBVIOUS
<1>1. CASE UNCHANGED vars
  BY <1>1 DEF TypeInv, TypeOK, Shape, vars
<1>2. ASSUME NEW c \in Conts, Step(c) PROVE TypeInv'
  BY <1>2, StepType
<1>3. ASSUME NEW c \in Conts, Stop(c) PROVE TypeInv'
  BY <1>3, FailType DEF Stop
<1>4. ASSUME NEW c \in Conts, Runtime(c) PROVE TypeInv'
  BY <1>4 DEF Runtime, CreateNamespace, DestroyNamespace, InvokeAdd, Del,
              TypeInv, TypeOK, Shape, links, spaces, Outside, Closure, Phases
<1>5. ASSUME NEW c \in Conts, Reap(c) PROVE TypeInv'
  BY <1>5 DEF Reap, TypeInv, TypeOK, Shape, links, Phases
<1>6. ASSUME NEW c \in Conts, NEW e \in Enis, ReturnLink(c, e) PROVE TypeInv'
  <2>1. PICK n \in Names : ComesToHost(e, n)
    BY <1>6 DEF ReturnLink
  <2> QED
    BY <1>6, <2>1, HostType, NoRoutesType DEF ReturnLink, TypeInv, TypeOK, Shape
<1>7. ASSUME NEW e \in Enis, Attach(e) PROVE TypeInv'
  <2>1. PICK n \in Names : ComesToHost(e, n)
    BY <1>7 DEF Attach
  <2> QED
    BY <1>7, <2>1, HostType DEF Attach, TypeInv, TypeOK, Shape, spaces
<1>8. ASSUME NEW e \in Enis, Detach(e) PROVE TypeInv'
  BY <1>8, NoRoutesType DEF Detach, TypeInv, TypeOK, Shape, Phases
<1>9. ASSUME NEW c \in Conts, Advertise(c) PROVE TypeInv'
  BY <1>9 DEF Advertise, TypeInv, TypeOK, Shape, links
<1> QED
  BY <1>1, <1>2, <1>3, <1>4, <1>5, <1>6, <1>7, <1>8, <1>9 DEF Next, TakeDown

(* Every variable keeps its type; what is added to a link are addresses    *)
(* and what is given a route are gateways, whatever cannot be parsed in    *)
(* the configuration.                                                      *)
THEOREM TypeCorrect == Spec => []TypeOK
<1>1. TypeInv => TypeOK
  BY DEF TypeInv
<1> QED
  BY <1>1, TypeInit, TypeStep, PTL DEF Spec

-----------------------------------------------------------------------------
(* What the steps of one container leave alone.                            *)

OthersAlone(c) ==
    \A d \in Conts \ {c} :
       /\ pc'[d] = pc[d] /\ dev'[d] = dev[d] /\ idx'[d] = idx[d]
       /\ todo'[d] = todo[d] /\ phase'[d] = phase[d]
       /\ taken[d] => taken'[d]
       /\ ns'[d] = ns[d] /\ blocked'[d] = blocked[d] /\ route'[d] = route[d]
       /\ \A e \in Enis :
             /\ at[e] = d <=> at'[e] = d
             /\ at[e] = d => /\ name'[e] = name[e] /\ up'[e] = up[e]
                            /\ addrs'[e] = addrs[e]

LEMMA EndAlone ==
    ASSUME TypeInv, NEW c \in Conts, NEW how, End(c, how)
    PROVE  OthersAlone(c)
  BY DEF TypeInv, TypeOK, End, OthersAlone, links, spaces

LEMMA GotoAlone ==
    ASSUME TypeInv, NEW c \in Conts, NEW step, NEW rest, Goto(c, step, rest)
    PROVE  /\ taken' = taken
           /\ \A d \in Conts \ {c} :
                 /\ pc'[d] = pc[d] /\ dev'[d] = dev[d]
                 /\ todo'[d] = todo[d] /\ phase'[d] = phase[d]
  BY DEF TypeInv, TypeOK, Goto

LEMMA GatewaysAlone ==
    ASSUME TypeInv, NEW c \in Conts, GotoGateways(c) \/ GotoBlock(c)
    PROVE  /\ taken' = taken
           /\ \A d \in Conts \ {c} :
                 /\ pc'[d] = pc[d] /\ dev'[d] = dev[d]
                 /\ todo'[d] = todo[d] /\ phase'[d] = phase[d]
  BY GotoAlone DEF GotoGateways, GotoBlock

LEMMA StepAlone ==
    ASSUME TypeInv, NEW c \in Conts, HandleInv(c), Step(c)
    PROVE  OthersAlone(c)
<1>1. CASE LinkGone(c) \/ Fail(c) \/ PrintResult(c)
  BY <1>1, EndAlone DEF LinkGone, Fail, PrintResult
<1>2. CASE Find(c) /\ ~Fail(c)
  BY <1>2 DEF Find, TypeInv, TypeOK, OthersAlone, links, spaces
<1>3. CASE GetLink(c) /\ ~Fail(c)
  <2>1. Goto(c, "move", {}) /\ \E e : idx' = [idx EXCEPT ![c] = e]
        /\ UNCHANGED <<links, spaces>>
    BY <1>3 DEF GetLink
  <2> QED
    BY <2>1, GotoAlone DEF TypeInv, TypeOK, OthersAlone, links, spaces
<1>4. CASE Move(c) /\ ~Fail(c)
  <2>1. /\ \E step : Goto(c, step, {})
        /\ idx[c] \in Enis /\ at[idx[c]] = Host
        /\ at' = [at EXCEPT ![idx[c]] = c]
        /\ up' = [up EXCEPT ![idx[c]] = FALSE]
        /\ addrs' = [addrs EXCEPT ![idx[c]] = {}]
        /\ UNCHANGED <<name, spaces, idx>>
    BY <1>4 DEF Move, TypeInv, TypeOK
  <2>2. /\ taken' = taken
        /\ \A d \in Conts \ {c} :
              /\ pc'[d] = pc[d] /\ dev'[d] = dev[d]
              /\ todo'[d] = todo[d] /\ phase'[d] = phase[d]
    BY <2>1, GotoAlone
  <2>3. \A e \in Enis : e # idx[c] =>
           at'[e] = at[e] /\ up'[e] = up[e] /\ addrs'[e] = addrs[e]
    BY <2>1 DEF TypeInv, TypeOK
  <2>4. at'[idx[c]] = c
    BY <2>1 DEF TypeInv, TypeOK
  <2>5. \A d \in Conts \ {c} : at[idx[c]] # d /\ at'[idx[c]] # d
    BY <2>1, <2>4, SentinelAssumption
  <2> QED
    BY <2>1, <2>2, <2>3, <2>5 DEF OthersAlone, spaces
<1>5. CASE Enter(c) /\ ~Fail(c)
  <2>1. /\ Goto(c, "rename", {}) /\ \E e : idx' = [idx EXCEPT ![c] = e]
        /\ UNCHANGED <<links, spaces>>
    BY <1>5 DEF Enter
  <2> QED
    BY <2>1, GotoAlone DEF TypeInv, TypeOK, OthersAlone, links, spaces
<1>6. CASE Rename(c) /\ ~Fail(c)
  <2>1. /\ Goto(c, "addr", Conf[c].addrs)
        /\ name' = [name EXCEPT ![idx[c]] = Conf[c].ifName]
        /\ idx[c] \in Enis /\ at[idx[c]] = c
        /\ UNCHANGED <<at, up, addrs, spaces, idx>>
    BY <1>6 DEF Rename, HandleInv, Inside, TypeInv, TypeOK
  <2> QED
    BY <2>1, GotoAlone DEF TypeInv, TypeOK, OthersAlone, spaces
<1>7. CASE AddAddr(c)
  <2>1. /\ \E f : addrs' = [addrs EXCEPT ![idx[c]] = @ \cup {f}]
        /\ \E step, rest : Goto(c, step, rest)
        /\ idx[c] \in Enis /\ at[idx[c]] = c
        /\ UNCHANGED <<at, name, up, spaces, idx>>
    BY <1>7 DEF AddAddr, HandleInv, Inside, TypeInv, TypeOK
  <2> QED
    BY <2>1, GotoAlone DEF TypeInv, TypeOK, OthersAlone, spaces
<1>8. CASE BringUp(c)
  <2>1. /\ up' = [up EXCEPT ![idx[c]] = TRUE]
        /\ GotoBlock(c)
        /\ idx[c] \in Enis /\ at[idx[c]] = c
        /\ UNCHANGED <<at, name, addrs, spaces, idx>>
    BY <1>8 DEF BringUp, HandleInv, Inside, TypeInv, TypeOK
  <2> QED
    BY <2>1, GatewaysAlone DEF TypeInv, TypeOK, OthersAlone, spaces
<1>9. CASE BlockIMDS(c)
  <2>1. /\ \E f : blocked' = [blocked EXCEPT ![c] = @ \cup {f}]
        /\ GotoGateways(c) \/ \E step, rest : Goto(c, step, rest)
        /\ UNCHANGED <<links, ns, route, idx>>
    BY <1>9 DEF BlockIMDS
  <2> QED
    BY <2>1, GotoAlone, GatewaysAlone DEF TypeInv, TypeOK, OthersAlone, links
<1>10. CASE AddGateway(c) /\ ~Fail(c)
  <2>1. PICK g \in todo[c] :
           /\ route' = IF route[c][GwFam[g]] = None
                          THEN [route EXCEPT ![c][GwFam[g]] = g] ELSE route
           /\ IF todo[c] = {g} THEN Goto(c, "print", {})
                               ELSE Goto(c, "gateway", todo[c] \ {g})
           /\ UNCHANGED <<links, ns, blocked, idx>>
    BY <1>10 DEF AddGateway, isRouteExistsError
  <2>2. \A d \in Conts \ {c} : route'[d] = route[d]
    BY <2>1 DEF TypeInv, TypeOK
  <2>3. /\ taken' = taken
        /\ \A d \in Conts \ {c} :
              /\ pc'[d] = pc[d] /\ dev'[d] = dev[d]
              /\ todo'[d] = todo[d] /\ phase'[d] = phase[d]
    BY <2>1, GotoAlone
  <2> QED
    BY <2>1, <2>2, <2>3 DEF OthersAlone, links
<1> QED
  BY <1>1, <1>2, <1>3, <1>4, <1>5, <1>6, <1>7, <1>8, <1>9, <1>10 DEF Step

(* What is not a step of the container's command.                          *)
Other(c) == Stop(c) \/ Runtime(c) \/ TakeDown(c) \/ Advertise(c)

LEMMA OutsideAlone ==
    ASSUME TypeInv, NEW c \in Conts, Other(c)
    PROVE  OthersAlone(c)
<1>1. CASE Stop(c)
  BY <1>1, EndAlone DEF Stop, Fail
<1>2. CASE Runtime(c)
  BY <1>2 DEF Runtime, CreateNamespace, DestroyNamespace, InvokeAdd, Del,
              TypeInv, TypeOK, OthersAlone, links, spaces
<1>3. CASE Reap(c)
  BY <1>3 DEF Reap, TypeInv, TypeOK, OthersAlone, links
<1>4. ASSUME NEW e \in Enis, ReturnLink(c, e) PROVE OthersAlone(c)
  <2>1. PICK n \in Names : ComesToHost(e, n)
    BY <1>4 DEF ReturnLink
  <2>2. \A d \in Conts \ {c} : \A x \in Enis :
           /\ at[x] = d <=> at'[x] = d
           /\ at[x] = d => /\ name'[x] = name[x] /\ up'[x] = up[x]
                          /\ addrs'[x] = addrs[x]
    BY <1>4, <2>1, SentinelAssumption DEF ReturnLink, ComesToHost, TypeInv, TypeOK
  <2>3. \A d \in Conts \ {c} : route'[d] = route[d]
    BY <1>4 DEF ReturnLink, TypeInv, TypeOK
  <2>4. \A d \in Conts : taken[d] => taken'[d]
    BY <2>1 DEF ComesToHost
  <2> QED
    BY <1>4, <2>2, <2>3, <2>4 DEF ReturnLink, OthersAlone
<1>5. CASE Advertise(c)
  BY <1>5 DEF Advertise, TypeInv, TypeOK, OthersAlone, links
<1> QED
  BY <1>1, <1>2, <1>3, <1>4, <1>5 DEF Other, TakeDown

-----------------------------------------------------------------------------
(* No container reaches IMDS before it is blocked.                         *)

LEMMA SpaceInit == Init => SpaceInv
  BY TypeInit DEF Init, NoRoutes, SpaceInv, SpaceOf, HandleInv, RouteInv, BlockInv,
                  Inside

LEMMA OthersSpace ==
    ASSUME TypeInv, NEW c \in Conts, OthersAlone(c), NEW d \in Conts \ {c}, SpaceOf(d)
    PROVE  SpaceOf(d)'
<1>1. HandleInv(d)'
  BY DEF OthersAlone, SpaceOf, HandleInv, TypeInv, TypeOK
<1>2. RouteInv(d)'
  BY DEF OthersAlone, SpaceOf, RouteInv, In
<1>3. BlockInv(d)'
  BY DEF OthersAlone, SpaceOf, BlockInv
<1> QED
  BY <1>1, <1>2, <1>3 DEF SpaceOf

LEMMA EndSpace ==
    ASSUME TypeInv, NEW c \in Conts, SpaceOf(c), NEW how, End(c, how)
    PROVE  SpaceOf(c)'
  BY DEF TypeInv, TypeOK, SpaceOf, HandleInv, RouteInv, BlockInv, End, links, spaces,
         In, Inside

(* The closure goes on to the gateways only when IMDS is blocked.          *)
LEMMA GatewaysSpace ==
    ASSUME TypeInv, NEW c \in Conts, SpaceOf(c), pc[c] \in Inside \ {"move"},
           UNCHANGED <<at, ns, route, idx>>, GotoGateways(c),
           Conf[c].block => blocked'[c] = Fam
    PROVE  SpaceOf(c)'
<1>1. pc'[c] \in {"gateway", "print"}
  BY DEF GotoGateways, Goto, TypeInv, TypeOK
<1> QED
  BY <1>1 DEF SpaceOf, HandleInv, RouteInv, BlockInv, In, Inside

LEMMA StepSpace ==
    ASSUME TypeInv, NEW c \in Conts, SpaceOf(c), Step(c)
    PROVE  SpaceOf(c)'
<1>1. CASE LinkGone(c) \/ Fail(c) \/ PrintResult(c)
  BY <1>1, EndSpace DEF LinkGone, Fail, PrintResult
<1>2. CASE Find(c) /\ ~Fail(c)
  BY <1>2 DEF Find, TypeInv, TypeOK, SpaceOf, HandleInv, RouteInv, BlockInv,
              links, spaces, In, Inside
<1>3. CASE GetLink(c) /\ ~Fail(c)
  <2>1. /\ pc'[c] = "move" /\ ns[c] = "live"
        /\ UNCHANGED <<links, spaces>>
    BY <1>3 DEF GetLink, Goto, TypeInv, TypeOK
  <2> QED
    BY <2>1 DEF SpaceOf, HandleInv, RouteInv, BlockInv, links, spaces, In
<1>4. CASE Move(c) /\ ~Fail(c)
  <2>1. /\ pc'[c] \in {"print", "enter"} /\ ns[c] # "none"
        /\ idx[c] \in Enis
        /\ at' = [at EXCEPT ![idx[c]] = c]
        /\ UNCHANGED <<spaces, idx>>
    BY <1>4 DEF Move, Goto, TypeInv, TypeOK, SpaceOf, HandleInv, Inside
  <2>2. idx[c] \in In(c)'
    BY <2>1 DEF In, TypeInv, TypeOK
  <2> QED
    BY <2>1, <2>2 DEF SpaceOf, HandleInv, RouteInv, BlockInv, spaces, In, TypeInv, TypeOK
<1>5. CASE Enter(c) /\ ~Fail(c)
  <2>1. /\ pc'[c] = "rename" /\ ns[c] = "live"
        /\ \E e \in In(c) : idx' = [idx EXCEPT ![c] = e]
        /\ UNCHANGED <<links, spaces>>
    BY <1>5 DEF Enter, Goto, TypeInv, TypeOK
  <2> QED
    BY <2>1 DEF SpaceOf, HandleInv, RouteInv, BlockInv, links, spaces, In, TypeInv, TypeOK
<1>6. CASE (Rename(c) /\ ~Fail(c)) \/ AddAddr(c)
  <2>1. /\ pc[c] \in {"rename", "addr"} /\ pc'[c] \in {"addr", "up"}
        /\ UNCHANGED <<at, spaces, idx>>
    BY <1>6 DEF Rename, AddAddr, Goto, TypeInv, TypeOK
  <2> QED
    BY <2>1 DEF SpaceOf, HandleInv, RouteInv, BlockInv, spaces, In, Inside
<1>7. CASE BringUp(c)
  <2>1. CASE Conf[c].block
    <3>1. /\ pc[c] = "up" /\ pc'[c] = "block" /\ todo'[c] = Fam
          /\ UNCHANGED <<at, spaces, idx>>
      BY <1>7, <2>1 DEF BringUp, GotoBlock, Goto, TypeInv, TypeOK
    <3> QED
      BY <3>1 DEF SpaceOf, HandleInv, RouteInv, BlockInv, spaces, In, Inside
  <2>2. CASE ~Conf[c].block
    <3>1. GotoGateways(c) /\ pc[c] = "up" /\ UNCHANGED <<at, spaces, idx>>
      BY <1>7, <2>2 DEF BringUp, GotoBlock
    <3> QED
      BY <2>2, <3>1, GatewaysSpace DEF spaces, Inside
  <2> QED
    BY <2>1, <2>2
<1>8. CASE BlockIMDS(c)
  <2>1. PICK f \in Fam :
          /\ blocked' = [blocked EXCEPT ![c] = @ \cup {f}]
          /\ IF todo[c] = {f} THEN GotoGateways(c)
                              ELSE Goto(c, "block", todo[c] \ {f})
    BY <1>8 DEF BlockIMDS
  <2>2. /\ pc[c] = "block" /\ UNCHANGED <<at, ns, route, idx>>
        /\ blocked'[c] = blocked[c] \cup {f} /\ blocked'[c] \subseteq Fam
    BY <1>8, <2>1 DEF BlockIMDS, links, TypeInv, TypeOK
  <2>3. CASE todo[c] = {f}
    <3>1. Conf[c].block => blocked'[c] = Fam
      BY <2>2, <2>3 DEF SpaceOf, BlockInv
    <3> QED
      BY <2>1, <2>2, <2>3, <3>1, GatewaysSpace DEF Inside
  <2>4. CASE todo[c] # {f}
    <3>1. pc'[c] = "block" /\ todo'[c] = todo[c] \ {f}
      BY <2>1, <2>4 DEF Goto, TypeInv, TypeOK
    <3>2. BlockInv(c)'
      BY <2>2, <3>1 DEF SpaceOf, BlockInv
    <3> QED
      BY <2>2, <3>1, <3>2 DEF SpaceOf, HandleInv, RouteInv, In, Inside
  <2> QED
    BY <2>3, <2>4
<1>9. CASE AddGateway(c) /\ ~Fail(c)
  <2>1. PICK g \in todo[c] :
           /\ IF todo[c] = {g} THEN Goto(c, "print", {})
                               ELSE Goto(c, "gateway", todo[c] \ {g})
           /\ UNCHANGED <<links, ns, blocked, idx>>
    BY <1>9 DEF AddGateway
  <2>2. /\ pc[c] = "gateway" /\ pc'[c] \in {"gateway", "print"}
        /\ idx[c] \in Enis
        /\ UNCHANGED <<at, ns, blocked, idx>>
    BY <1>9, <2>1 DEF AddGateway, Goto, TypeInv, TypeOK, links
  <2>3. at[idx[c]] = c
    BY <2>2, SentinelAssumption DEF SpaceOf, HandleInv, Inside
  <2>4. In(c)' # {}
    BY <2>2, <2>3 DEF In
  <2> QED
    BY <2>2, <2>3, <2>4 DEF SpaceOf, HandleInv, RouteInv, BlockInv, In, Inside
<1> QED
  BY <1>1, <1>2, <1>3, <1>4, <1>5, <1>6, <1>7, <1>8, <1>9 DEF Step

LEMMA OutsideSpace ==
    ASSUME TypeInv, NEW c \in Conts, SpaceOf(c), Other(c)
    PROVE  SpaceOf(c)'
<1>1. CASE Stop(c)
  BY <1>1, EndSpace DEF Stop, Fail
<1>2. CASE CreateNamespace(c) \/ DestroyNamespace(c)
  BY <1>2 DEF CreateNamespace, DestroyNamespace, links, TypeInv, TypeOK, SpaceOf,
              HandleInv, RouteInv, BlockInv, In, Inside
<1>5. CASE InvokeAdd(c) \/ Del(c)
  <2>1. UNCHANGED <<links, spaces, idx, todo>> /\ pc'[c] \in {"find", pc[c]}
    BY <1>5 DEF InvokeAdd, Del, TypeInv, TypeOK
  <2> QED
    BY <2>1 DEF SpaceOf, HandleInv, RouteInv, BlockInv, links, spaces, In, Inside
<1>3. CASE Reap(c)
  <2>1. /\ route'[c] = NoRoutes /\ ~Holds(c)
        /\ UNCHANGED <<links, route, pc, dev, idx, todo>>
    BY <1>3 DEF Reap, SpaceOf, RouteInv
  <2> QED
    BY <2>1 DEF Holds, NoRoutes, SpaceOf, HandleInv, RouteInv, BlockInv, links, In,
                Inside
<1>4. ASSUME NEW e \in Enis, ReturnLink(c, e) PROVE SpaceOf(c)'
  <2>1. /\ ~Holds(c) /\ route'[c] = NoRoutes
        /\ UNCHANGED <<ns, blocked, pc, dev, idx, todo, phase>>
    BY <1>4 DEF ReturnLink, TypeInv, TypeOK
  <2> QED
    BY <2>1 DEF Holds, NoRoutes, SpaceOf, HandleInv, RouteInv, BlockInv, Inside
<1>6. CASE Advertise(c)
  <2>1. /\ In(c) # {}
        /\ route' = [route EXCEPT ![c][6] = Advertised]
        /\ UNCHANGED <<at, ns, blocked, pc, dev, idx, todo, phase>>
    BY <1>6 DEF Advertise, links
  <2>2. \A f \in Fam : route'[c][f] \in {Advertised, route[c][f]}
    BY <2>1 DEF TypeInv, TypeOK
  <2> QED
    BY <2>1, <2>2 DEF SpaceOf, HandleInv, RouteInv, BlockInv, In
<1> QED
  BY <1>1, <1>2, <1>3, <1>4, <1>5, <1>6 DEF Other, TakeDown, Runtime

(* What a link that goes takes away of the routes of a namespace.          *)
LEMMA DetachRoutes ==
    ASSUME TypeInv, NEW c \in Conts, NEW e \in Enis, Detach(e)
    PROVE  /\ at[e] # c => route'[c] = route[c]
           /\ \A f \in Fam : route'[c][f] \in {None, route[c][f]}
           /\ In(c) = {e} => route'[c] = NoRoutes
<1>1. PICK stay \in SUBSET NotThrough(e) :
         route'[c] = IF at[e] = c
                     THEN [f \in Fam |-> IF f \in stay THEN route[c][f] ELSE None]
                     ELSE route[c]
  BY DEF Detach
<1>2. In(c) = {e} => at[e] = c /\ stay = {}
  BY DEF In, NotThrough
<1> QED
  BY <1>1, <1>2 DEF NoRoutes

(* A link that comes to the host was nowhere; a link that goes takes the   *)
(* routes through it away, and its index.                                  *)
LEMMA HostSpace ==
    ASSUME TypeInv, NEW c \in Conts, SpaceOf(c), NEW e \in Enis, Attach(e) \/ Detach(e)
    PROVE  SpaceOf(c)'
<1>1. CASE Attach(e)
  <2>1. PICK n \in Names : ComesToHost(e, n)
    BY <1>1 DEF Attach
  <2>2. \A x \in Enis : at[x] = c <=> at'[x] = c
    BY <1>1, <2>1, SentinelAssumption DEF Attach, ComesToHost, TypeInv, TypeOK
  <2> QED
    BY <1>1, <2>2, SentinelAssumption DEF Attach, spaces, SpaceOf, HandleInv, RouteInv,
       BlockInv, In, TypeInv, TypeOK
<1>2. CASE Detach(e)
  <2>1. /\ \A x \in Enis : at'[x] = IF x = e THEN Nowhere ELSE at[x]
        /\ at[e] # c => route'[c] = route[c]
        /\ \A f \in Fam : route'[c][f] \in {None, route[c][f]}
        /\ In(c) = {e} => route'[c] = NoRoutes
        /\ idx'[c] = IF idx[c] = e THEN None ELSE idx[c]
        /\ UNCHANGED <<ns, blocked, pc, dev, todo>>
    BY <1>2, DetachRoutes DEF Detach, TypeInv, TypeOK
  <2>2. HandleInv(c)'
    BY <2>1 DEF SpaceOf, HandleInv, TypeInv, TypeOK
  <2>3. RouteInv(c)'
    <3>1. CASE at[e] # c
      BY <2>1, <3>1, SentinelAssumption DEF SpaceOf, RouteInv, In
    <3>2. CASE at[e] = c
      <4>1. In(c)' = In(c) \ {e} /\ e \in In(c)
        BY <2>1, <3>2, SentinelAssumption DEF In
      <4> QED
        BY <2>1, <4>1 DEF RouteInv
    <3> QED
      BY <3>1, <3>2
  <2>4. BlockInv(c)'
    BY <2>1 DEF SpaceOf, BlockInv
  <2> QED
    BY <2>2, <2>3, <2>4 DEF SpaceOf
<1> QED
  BY <1>1, <1>2

LEMMA SpaceStep == SpaceInv /\ [Next]_vars => SpaceInv'
<1> SUFFICES ASSUME SpaceInv, [Next]_vars PROVE SpaceInv'
  OBVIOUS
<1>1. TypeInv'
  BY TypeStep DEF SpaceInv
<1>2. CASE UNCHANGED vars
  BY <1>1, <1>2 DEF SpaceInv, SpaceOf, HandleInv, RouteInv, BlockInv, In, vars
<1>3. ASSUME NEW c \in Conts, Step(c) \/ Other(c) PROVE SpaceInv'
  <2>1. OthersAlone(c)
    BY <1>3, StepAlone, OutsideAlone DEF SpaceInv, SpaceOf
  <2>2. SpaceOf(c)'
    BY <1>3, StepSpace, OutsideSpace DEF SpaceInv
  <2>3. \A d \in Conts \ {c} : SpaceOf(d)'
    BY <2>1, OthersSpace DEF SpaceInv
  <2> QED
    BY <1>1, <2>2, <2>3 DEF SpaceInv
<1>4. ASSUME NEW e \in Enis, Attach(e) \/ Detach(e) PROVE SpaceInv'
  BY <1>1, <1>4, HostSpace DEF SpaceInv
<1> QED
  BY <1>2, <1>3, <1>4 DEF Next, Other

(* No namespace that must not reach IMDS is given a default route before   *)
(* both blackhole routes are there, for any number of containers and ENIs, *)
(* whichever ADD failed in it before, and whichever link it has got.       *)
THEOREM IMDSBlockedFirst == Spec => []BlockedFirst
<1>1. SpaceInv => BlockedFirst
  BY DEF SpaceInv, SpaceOf, BlockInv, BlockedFirst
<1> QED
  BY <1>1, SpaceInit, SpaceStep, PTL DEF Spec
-----------------------------------------------------------------------------
(* The links that are looked up by name are the right ones.                *)

LEMMA LookupInit == Init => LookupInv
  BY SpaceInit, SentinelAssumption DEF Init, LookupInv, NamesApart, LookupOf

(* What keeps the lookups right: no link comes to the host, none on it is  *)
(* renamed, and what a command notes or moves is right.                    *)
LEMMA LookupFrame ==
    ASSUME LookupInv, TypeInv', NEW c \in Conts, taken' = taken,
           \A e \in Enis : at'[e] = Host => at[e] = Host /\ name'[e] = name[e],
           \A e \in Enis, d \in Conts :
              at'[e] = d => at[e] = d \/ (d = c /\ (taken[c] \/ e = Conf[c].mac)),
           \A d \in Conts \ {c} :
              pc'[d] = pc[d] /\ dev'[d] = dev[d] /\ idx'[d] = idx[d],
           pc'[c] = "idle" => idx'[c] = None,
           ~taken[c] => idx'[c] \in {None, Conf[c].mac},
           pc'[c] = "link" => \E e \in OnHost : e = Conf[c].mac /\ dev'[c] = name[e]
    PROVE  NamesApart' /\ \A d \in Conts : LookupOf(d)'
<1>1. NamesApart'
  BY DEF LookupInv, NamesApart
<1>2. ASSUME NEW d \in Conts \ {c} PROVE LookupOf(d)'
  BY <1>2 DEF LookupInv, LookupOf
<1>3. LookupOf(c)'
  <2>1. ASSUME pc'[c] = "link"
        PROVE  \A e \in Enis : at'[e] = Host /\ name'[e] = dev'[c] => e = Conf[c].mac
    BY <2>1 DEF LookupInv, NamesApart, OnHost
  <2>2. ~taken[c] => \A e \in Enis : at'[e] = c => e = Conf[c].mac
    BY DEF LookupInv, LookupOf
  <2> QED
    BY <2>1, <2>2 DEF LookupOf
<1> QED
  BY <1>1, <1>2, <1>3

LEMMA EndLookup ==
    ASSUME LookupInv, TypeInv', NEW c \in Conts, NEW how, End(c, how)
    PROVE  NamesApart' /\ \A d \in Conts : LookupOf(d)'
<1>1. /\ UNCHANGED <<at, name, taken>> /\ pc'[c] = "idle" /\ idx'[c] = None
      /\ \A d \in Conts \ {c} : pc'[d] = pc[d] /\ dev'[d] = dev[d] /\ idx'[d] = idx[d]
  BY DEF End, links, LookupInv, SpaceInv, TypeInv, TypeOK
<1> QED
  BY <1>1, LookupFrame

(* Where a step of a running command goes.                                 *)
LEMMA GotoLookup ==
    ASSUME TypeInv, NEW c \in Conts,
           \/ GotoBlock(c) \/ GotoGateways(c)
           \/ \E step \in Inside : \E rest : Goto(c, step, rest)
    PROVE  /\ pc'[c] \notin {"idle", "link"} /\ taken' = taken
           /\ \A d \in Conts \ {c} : pc'[d] = pc[d] /\ dev'[d] = dev[d]
  BY DEF GotoBlock, GotoGateways, Goto, Inside, TypeInv, TypeOK

LEMMA StepLookup ==
    ASSUME LookupInv, TypeInv', NEW c \in Conts, Step(c)
    PROVE  NamesApart' /\ \A d \in Conts : LookupOf(d)'
<1> USE DEF LookupInv, SpaceInv
<1>1. CASE LinkGone(c) \/ Fail(c) \/ PrintResult(c)
  BY <1>1, EndLookup DEF LinkGone, Fail, PrintResult
<1>2. CASE Find(c) /\ ~Fail(c)
  <2>1. /\ Conf[c].mac \in OnHost /\ dev'[c] = name[Conf[c].mac] /\ pc'[c] = "link"
        /\ \A d \in Conts \ {c} : pc'[d] = pc[d] /\ dev'[d] = dev[d]
        /\ UNCHANGED <<at, name, idx, taken>>
    <3>1. /\ UNCHANGED <<links, idx, taken>> /\ pc' = [pc EXCEPT ![c] = "link"]
          /\ \E n \in GetInterfaceDeviceName(Conf[c].mac) :
                dev' = [dev EXCEPT ![c] = n]
      BY <1>2 DEF Find
    <3>2. /\ Conf[c].mac \in OnHost
          /\ dev' = [dev EXCEPT ![c] = name[Conf[c].mac]]
      BY <3>1 DEF GetInterfaceDeviceName, getLinkByHardwareAddress
    <3> QED
      BY <3>1, <3>2 DEF links, TypeInv, TypeOK
  <2>2. ~taken[c] => idx'[c] \in {None, Conf[c].mac}
    BY <2>1 DEF LookupOf
  <2> QED
    BY <2>1, <2>2, LookupFrame
<1>3. CASE GetLink(c) /\ ~Fail(c)
  <2>1. PICK e \in OnHost : name[e] = dev[c] /\ idx' = [idx EXCEPT ![c] = e]
    BY <1>3 DEF GetLink
  <2>2. ~taken[c] => e = Conf[c].mac
    BY <1>3, <2>1 DEF GetLink, LookupOf, OnHost
  <2>3. UNCHANGED <<at, name>> /\ Goto(c, "move", {})
    BY <1>3 DEF GetLink, links
  <2>4. idx'[c] = e /\ \A d \in Conts \ {c} : idx'[d] = idx[d]
    BY <2>1 DEF TypeInv, TypeOK
  <2>5. /\ pc'[c] \notin {"idle", "link"} /\ taken' = taken
        /\ \A d \in Conts \ {c} : pc'[d] = pc[d] /\ dev'[d] = dev[d]
    BY <2>3, GotoLookup DEF Inside
  <2> QED
    BY <2>2, <2>3, <2>4, <2>5, LookupFrame
<1>4. CASE Move(c) /\ ~Fail(c)
  <2>1. /\ idx[c] # None
        /\ at' = [at EXCEPT ![idx[c]] = c]
        /\ Goto(c, IF Conf[c].stayDown THEN "print" ELSE "enter", {})
        /\ UNCHANGED <<name, idx>>
    BY <1>4 DEF Move
  <2>2. ~taken[c] => idx[c] = Conf[c].mac
    BY <2>1 DEF LookupOf
  <2>3. \A e \in Enis : at'[e] = at[e] \/ (e = idx[c] /\ at'[e] = c)
    BY <2>1 DEF TypeInv, TypeOK
  <2>4. /\ \A e \in Enis : at'[e] = Host => at[e] = Host
        /\ \A e \in Enis, d \in Conts :
              at'[e] = d => at[e] = d \/ (d = c /\ (taken[c] \/ e = Conf[c].mac))
    BY <2>2, <2>3, SentinelAssumption
  <2>5. /\ pc'[c] \notin {"idle", "link"} /\ taken' = taken
        /\ \A d \in Conts \ {c} : pc'[d] = pc[d] /\ dev'[d] = dev[d]
    BY <2>1, GotoLookup DEF Inside
  <2> QED
    BY <2>1, <2>2, <2>4, <2>5, LookupFrame
<1>5. CASE Enter(c) /\ ~Fail(c)
  <2>1. PICK e \in In(c) : idx' = [idx EXCEPT ![c] = e]
    BY <1>5 DEF Enter
  <2>2. ~taken[c] => e = Conf[c].mac
    BY <2>1 DEF LookupOf, In
  <2>3. UNCHANGED <<at, name>> /\ Goto(c, "rename", {})
    BY <1>5 DEF Enter, links
  <2>4. idx'[c] = e /\ \A d \in Conts \ {c} : idx'[d] = idx[d]
    BY <2>1 DEF TypeInv, TypeOK
  <2>5. /\ pc'[c] \notin {"idle", "link"} /\ taken' = taken
        /\ \A d \in Conts \ {c} : pc'[d] = pc[d] /\ dev'[d] = dev[d]
    BY <2>3, GotoLookup DEF Inside
  <2> QED
    BY <2>2, <2>3, <2>4, <2>5, LookupFrame
<1>6. CASE Rename(c) /\ ~Fail(c)
  <2>1. /\ pc[c] = "rename" /\ idx[c] # None
        /\ name' = [name EXCEPT ![idx[c]] = Conf[c].ifName]
        /\ Goto(c, "addr", Conf[c].addrs)
        /\ UNCHANGED <<at, idx>>
    BY <1>6 DEF Rename
  <2>2. at[idx[c]] = c
    BY <2>1 DEF SpaceOf, HandleInv, Inside
  <2>3. \A e \in Enis : at'[e] = Host => at[e] = Host /\ name'[e] = name[e]
    BY <2>1, <2>2, SentinelAssumption DEF TypeInv, TypeOK
  <2>4. ~taken[c] => idx'[c] \in {None, Conf[c].mac}
    BY <2>1 DEF LookupOf
  <2>5. /\ pc'[c] \notin {"idle", "link"} /\ taken' = taken
        /\ \A d \in Conts \ {c} : pc'[d] = pc[d] /\ dev'[d] = dev[d]
    BY <2>1, GotoLookup DEF Inside
  <2> QED
    BY <2>1, <2>3, <2>4, <2>5, LookupFrame
<1>7. CASE AddAddr(c) \/ BringUp(c) \/ BlockIMDS(c) \/ (AddGateway(c) /\ ~Fail(c))
  <2>1. UNCHANGED <<at, name, idx>>
    BY <1>7 DEF AddAddr, BringUp, BlockIMDS, AddGateway, links
  <2>2. \/ GotoBlock(c) \/ GotoGateways(c)
        \/ \E step \in Inside : \E rest : Goto(c, step, rest)
    BY <1>7 DEF AddAddr, BringUp, BlockIMDS, AddGateway, Inside
  <2>3. /\ pc'[c] \notin {"idle", "link"} /\ taken' = taken
        /\ \A d \in Conts \ {c} : pc'[d] = pc[d] /\ dev'[d] = dev[d]
    BY <2>2, GotoLookup
  <2>4. ~taken[c] => idx'[c] \in {None, Conf[c].mac}
    BY <2>1 DEF LookupOf
  <2> QED
    BY <2>1, <2>3, <2>4, LookupFrame
<1> QED
  BY <1>1, <1>2, <1>3, <1>4, <1>5, <1>6, <1>7 DEF Step

(* A link comes to the host under a name that no link there has; it leads  *)
(* those whose name is not taken to it only when it is theirs.             *)
LEMMA ComesLookup ==
    ASSUME LookupInv, NEW e \in Enis, NEW n \in Available, ComesToHost(e, n),
           UNCHANGED <<pc, dev, idx>>
    PROVE  NamesApart' /\ \A d \in Conts : LookupOf(d)'
<1> USE DEF LookupInv, SpaceInv
<1>1. /\ at'[e] = Host /\ name'[e] = n
      /\ \A f \in Enis \ {e} : at'[f] = at[f] /\ name'[f] = name[f]
  BY DEF ComesToHost, TypeInv, TypeOK
<1>2. n # None /\ \A f \in Enis : at[f] = Host => name[f] # n
  BY SentinelAssumption DEF Available, NameFree, OnHost
<1>3. NamesApart'
  BY <1>1, <1>2 DEF NamesApart
<1>4. ASSUME NEW d \in Conts PROVE LookupOf(d)'
  <2>1. ~taken'[d] => ~taken[d] /\ (pc[d] = "link" /\ dev[d] = n => Conf[d].mac = e)
    BY DEF ComesToHost, TakesName
  <2> QED
    BY <1>1, <2>1, SentinelAssumption DEF LookupOf
<1> QED
  BY <1>3, <1>4

LEMMA LookupStep == LookupInv /\ [Next]_vars => LookupInv'
<1> SUFFICES ASSUME LookupInv, [Next]_vars PROVE LookupInv'
  OBVIOUS
<1> USE DEF LookupInv, SpaceInv
<1>1. SpaceInv'
  BY SpaceStep
<1>2. CASE UNCHANGED vars
  BY <1>1, <1>2 DEF NamesApart, LookupOf, vars
<1>3. ASSUME NEW c \in Conts, Step(c) PROVE LookupInv'
  BY <1>1, <1>3, StepLookup
<1>4. ASSUME NEW c \in Conts, Stop(c) PROVE LookupInv'
  BY <1>1, <1>4, EndLookup DEF Stop, Fail
<1>5. ASSUME NEW c \in Conts,
             \/ CreateNamespace(c) \/ DestroyNamespace(c) \/ Del(c) \/ Reap(c)
             \/ Advertise(c)
      PROVE  LookupInv'
  <2>1. UNCHANGED <<at, name, pc, dev, idx, taken>>
    BY <1>5 DEF CreateNamespace, DestroyNamespace, Del, Reap, Advertise, links
  <2> QED
    BY <1>1, <2>1 DEF NamesApart, LookupOf
<1>6. ASSUME NEW c \in Conts, InvokeAdd(c) PROVE LookupInv'
  <2>1. /\ UNCHANGED <<at, name, dev, idx>>
        /\ pc[c] = "idle" /\ pc'[c] = "find"
        /\ \A d \in Conts \ {c} : pc'[d] = pc[d] /\ taken'[d] = taken[d]
        /\ ~taken'[c] => ~taken[c] \/ In(c) = {}
    BY <1>6 DEF InvokeAdd, links, TypeInv, TypeOK
  <2>2. ASSUME NEW d \in Conts \ {c} PROVE LookupOf(d)'
    BY <2>1, <2>2 DEF LookupOf
  <2>3. LookupOf(c)'
    BY <2>1 DEF LookupOf, In
  <2> QED
    BY <1>1, <2>1, <2>2, <2>3 DEF NamesApart
<1>7. ASSUME NEW c \in Conts, NEW e \in Enis, ReturnLink(c, e) PROVE LookupInv'
  <2>1. PICK n \in Names : /\ IF name[e] \in Available THEN n = name[e]
                                                      ELSE IsLowest(n, Available)
                           /\ ComesToHost(e, n)
    BY <1>7 DEF ReturnLink
  <2>2. n \in Available
    BY <2>1 DEF IsLowest
  <2> QED
    BY <1>1, <1>7, <2>1, <2>2, ComesLookup DEF ReturnLink
<1>8. ASSUME NEW e \in Enis, Attach(e) PROVE LookupInv'
  <2>1. PICK n \in Names : IsLowest(n, Available) /\ ComesToHost(e, n)
    BY <1>8 DEF Attach
  <2> QED
    BY <1>1, <1>8, <2>1, ComesLookup DEF Attach, IsLowest
<1>9. ASSUME NEW e \in Enis, Detach(e) PROVE LookupInv'
  <2>1. /\ \A f \in Enis : /\ at'[f] = IF f = e THEN Nowhere ELSE at[f]
                           /\ name'[f] = IF f = e THEN None ELSE name[f]
        /\ \A d \in Conts : idx'[d] \in {None, idx[d]}
        /\ UNCHANGED <<pc, dev, taken>>
    BY <1>9 DEF Detach, TypeInv, TypeOK
  <2> QED
    BY <1>1, <2>1, SentinelAssumption DEF NamesApart, LookupOf
<1> QED
  BY <1>2, <1>3, <1>4, <1>5, <1>6, <1>7, <1>8, <1>9 DEF Next, TakeDown, Runtime

(* Whichever links come to the host and leave it, and under whatever names *)
(* they come: a container is given another one's ENI in one case only,     *)
(* when another link takes the name that its ADD has found between the     *)
(* look-up by MAC address and the next one by that name; and it is rid of  *)
(* it before an ADD begins in a namespace without a link.  This holds for  *)
(* any number of containers, however many of them are to have one ENI.     *)
THEOREM NoForeignENI == Spec => []ForeignOnlyTaken
<1>1. LookupInv => ForeignOnlyTaken
  BY DEF LookupInv, LookupOf, ForeignOnlyTaken, In
<1> QED
  BY <1>1, LookupInit, LookupStep, PTL DEF Spec
-----------------------------------------------------------------------------
(* A container that is reported is ready.                                  *)

(* The command is known to the runtime while it runs, and no container is  *)
(* up without a namespace.                                                 *)
PhaseInv(c) ==
    /\ phase[c] = "adding" <=> pc[c] # "idle"
    /\ ns[c] = "none" => phase[c] # "up"

(* The loops go over what is configured.                                   *)
LoopInv(c) ==
    /\ pc[c] \in {"enter"} \cup Closure => ~Conf[c].stayDown
    /\ pc[c] = "addr" => todo[c] \subseteq Conf[c].addrs
    /\ pc[c] = "gateway" => todo[c] \subseteq Conf[c].gws

(* A default route that the router did not bring is one of the container's *)
(* own, in its family.                                                     *)
OwnRoutes(c) ==
    \A f \in Fam :
       /\ route[c][f] \in Conf[c].gws \cup {None, Advertised}
       /\ route[c][f] \in Gateways => GwFam[route[c][f]] = f

Routed(c, g) ==
    \E h \in Conf[c].gws \cup {Advertised} :
       route[c][GwFam[g]] = h /\ (h = Advertised \/ GwFam[h] = GwFam[g])

(* All that an ADD does with the link e.                                   *)
Complete(c, e) ==
    IF Conf[c].stayDown
    THEN ~up[e]
    ELSE /\ Malformed \notin Conf[c].gws
         /\ name[e] = Conf[c].ifName /\ up[e] /\ addrs[e] = Conf[c].addrs
         /\ Conf[c].block => blocked[c] = Fam
         /\ \A g \in Conf[c].gws : Routed(c, g)

ReportedUp(c) == phase[c] = "up" /\ ns[c] = "live"

(* What an ADD has done already with the link it has moved.                *)
LinkInv(c, e) ==
    /\ pc[c] \in {"enter", "rename"} => addrs[e] = {}
    /\ pc[c] = "addr" => addrs[e] = Conf[c].addrs \ todo[c]
    /\ pc[c] \in {"addr", "up", "block", "gateway"} => name[e] = Conf[c].ifName
    /\ pc[c] \in {"up", "block", "gateway"} => addrs[e] = Conf[c].addrs
    /\ pc[c] \in {"block", "gateway"} => up[e]
    /\ pc[c] = "gateway" => \A g \in Conf[c].gws \ todo[c] : Routed(c, g)
    /\ pc[c] = "print" \/ ReportedUp(c) => Complete(c, e)

ReadyOf(c) ==
    /\ PhaseInv(c) /\ LoopInv(c) /\ OwnRoutes(c)
    /\ ~taken[c] => /\ \A e \in In(c) : LinkInv(c, e)
                    /\ ReportedUp(c) => In(c) # {}

ReadyInv == LookupInv /\ \A c \in Conts : ReadyOf(c)

LEMMA ReadyInit == Init => ReadyInv
<1> SUFFICES ASSUME Init PROVE ReadyInv
  OBVIOUS
<1>1. LookupInv
  BY LookupInit
<1>2. ASSUME NEW c \in Conts PROVE ReadyOf(c)
  <2>1. PhaseInv(c) /\ LoopInv(c) /\ ~ReportedUp(c)
    BY DEF Init, PhaseInv, LoopInv, ReportedUp, Closure
  <2>2. OwnRoutes(c)
    BY SentinelAssumption DEF Init, NoRoutes, OwnRoutes
  <2>3. In(c) = {}
    BY SentinelAssumption DEF Init, In
  <2> QED
    BY <2>1, <2>2, <2>3 DEF ReadyOf
<1> QED
  BY <1>1, <1>2 DEF ReadyInv

(* A step that leaves a container, its links and its command alone.        *)
Untouched(c) ==
    /\ pc'[c] = pc[c] /\ todo'[c] = todo[c] /\ phase'[c] = phase[c]
    /\ taken[c] => taken'[c]
    /\ ns'[c] = ns[c] /\ blocked'[c] = blocked[c] /\ route'[c] = route[c]
    /\ In(c)' = In(c)
    /\ \A e \in In(c) : name'[e] = name[e] /\ up'[e] = up[e] /\ addrs'[e] = addrs[e]

LEMMA ReadyFrame ==
    ASSUME NEW c \in Conts, ReadyOf(c), Untouched(c)
    PROVE  ReadyOf(c)'
<1>1. PhaseInv(c)' /\ LoopInv(c)' /\ OwnRoutes(c)' /\ ReportedUp(c)' = ReportedUp(c)
  BY DEF Untouched, ReadyOf, PhaseInv, LoopInv, OwnRoutes, ReportedUp
<1>2. ASSUME ~taken[c], NEW e \in In(c)' PROVE LinkInv(c, e)'
  <2>1. LinkInv(c, e) /\ name'[e] = name[e] /\ up'[e] = up[e] /\ addrs'[e] = addrs[e]
    BY <1>2 DEF Untouched, ReadyOf
  <2>2. \A g : Routed(c, g)' = Routed(c, g)
    BY DEF Untouched, Routed
  <2>3. Complete(c, e)' = Complete(c, e)
    BY <2>1, <2>2 DEF Untouched, Complete
  <2> QED
    BY <1>1, <2>1, <2>2, <2>3 DEF Untouched, LinkInv
<1> QED
  BY <1>1, <1>2 DEF Untouched, ReadyOf

LEMMA OthersReady ==
    ASSUME NEW c \in Conts, OthersAlone(c), NEW d \in Conts \ {c}, ReadyOf(d)
    PROVE  ReadyOf(d)'
<1>1. Untouched(d)
  BY DEF OthersAlone, Untouched, In
<1> QED
  BY <1>1, ReadyFrame

(* A link that comes to the host was in no container; a link that goes was *)
(* the only one of its container, unless that container has a foreign one. *)
LEMMA HostReady ==
    ASSUME LookupInv, NEW c \in Conts, ReadyOf(c), NEW e \in Enis,
           Attach(e) \/ Detach(e)
    PROVE  ReadyOf(c)'
<1> USE DEF LookupInv, SpaceInv
<1>1. CASE Attach(e)
  <2>1. PICK n \in Names : ComesToHost(e, n)
    BY <1>1 DEF Attach
  <2>2. /\ at[e] # c /\ at'[e] # c
        /\ \A x \in Enis \ {e} : /\ at'[x] = at[x] /\ name'[x] = name[x]
                                /\ up'[x] = up[x] /\ addrs'[x] = addrs[x]
    BY <1>1, <2>1, SentinelAssumption DEF Attach, ComesToHost, TypeInv, TypeOK
  <2>3. Untouched(c)
    BY <1>1, <2>1, <2>2 DEF Attach, ComesToHost, spaces, Untouched, In
  <2> QED
    BY <2>3, ReadyFrame
<1>2. CASE Detach(e)
  <2>1. /\ \A x \in Enis \ {e} : /\ at'[x] = at[x] /\ name'[x] = name[x]
                                /\ up'[x] = up[x] /\ addrs'[x] = addrs[x]
        /\ at'[e] = Nowhere
        /\ at[e] # c => route'[c] = route[c]
        /\ \A f \in Fam : route'[c][f] \in {None, route[c][f]}
        /\ phase'[c] = IF at[e] = c /\ phase[c] = "up" THEN "lost" ELSE phase[c]
        /\ UNCHANGED <<ns, blocked, pc, todo, taken>>
    BY <1>2, DetachRoutes DEF Detach, TypeInv, TypeOK
  <2>2. CASE at[e] # c
    <3>1. Untouched(c)
      BY <2>1, <2>2, SentinelAssumption DEF Untouched, In
    <3> QED
      BY <3>1, ReadyFrame
  <2>3. CASE at[e] = c
    <3>1. ~taken[c] => In(c)' = {}
      BY <2>1, <2>3, SentinelAssumption DEF LookupOf, In
    <3>2. PhaseInv(c)' /\ LoopInv(c)' /\ ~ReportedUp(c)'
      BY <2>1, <2>3 DEF ReadyOf, PhaseInv, LoopInv, ReportedUp
    <3>3. OwnRoutes(c)'
      BY <2>1, SentinelAssumption DEF ReadyOf, OwnRoutes
    <3> QED
      BY <2>1, <3>1, <3>2, <3>3 DEF ReadyOf
  <2> QED
    BY <2>2, <2>3
<1> QED
  BY <1>1, <1>2

(* A command that ends, whatever it has done, reports nothing.             *)
LEMMA FailReady ==
    ASSUME LookupInv, NEW c \in Conts, ReadyOf(c), Fail(c)
    PROVE  ReadyOf(c)'
<1>1. pc'[c] = "idle" /\ phase'[c] = "none" /\ UNCHANGED <<links, spaces>>
  BY DEF Fail, End, LookupInv, SpaceInv, TypeInv, TypeOK
<1>2. PhaseInv(c)' /\ LoopInv(c)' /\ ~ReportedUp(c)'
  BY <1>1 DEF PhaseInv, LoopInv, ReportedUp, Closure
<1>3. OwnRoutes(c)'
  BY <1>1 DEF spaces, ReadyOf, OwnRoutes
<1>4. \A e : LinkInv(c, e)'
  BY <1>1, <1>2 DEF LinkInv
<1> QED
  BY <1>2, <1>3, <1>4 DEF ReadyOf

(* A step within a command: what it has to establish.                      *)
LEMMA InsideReady ==
    ASSUME LookupInv, NEW c \in Conts, ReadyOf(c), pc[c] # "idle", pc'[c] # "idle",
           phase'[c] = phase[c], UNCHANGED <<ns, route, taken>>, LoopInv(c)',
           ~taken[c] => \A e \in In(c)' : LinkInv(c, e)'
    PROVE  ReadyOf(c)'
<1>1. PhaseInv(c)' /\ OwnRoutes(c)' /\ ~ReportedUp(c)'
  BY DEF ReadyOf, PhaseInv, OwnRoutes, ReportedUp
<1> QED
  BY <1>1 DEF ReadyOf

(* The link a command has is the only one in its container.                *)
LEMMA OnlyLink ==
    ASSUME LookupInv, NEW c \in Conts, pc[c] \in Inside \ {"move"}, idx[c] # None,
           ~taken[c]
    PROVE  idx[c] \in Enis /\ In(c) = {idx[c]}
<1>1. idx[c] = Conf[c].mac /\ idx[c] \in Enis
  BY DEF LookupInv, SpaceInv, LookupOf, TypeInv, TypeOK
<1>2. at[idx[c]] = c
  BY DEF LookupInv, SpaceInv, SpaceOf, HandleInv
<1>3. \A e \in Enis : at[e] = c => e = Conf[c].mac
  BY DEF LookupInv, LookupOf
<1> QED
  BY <1>1, <1>2, <1>3 DEF In

(* The closure has configured the link when it goes to the gateways, and   *)
(* has nothing more to do when there are none.                             *)
LEMMA GatewaysReady ==
    ASSUME LookupInv, NEW c \in Conts, ReadyOf(c), pc[c] \in {"up", "block"},
           GotoGateways(c), UNCHANGED <<at, name, addrs, ns, route>>,
           ~taken[c] => \A e \in In(c) : up'[e],
           Conf[c].block => blocked'[c] = Fam
    PROVE  ReadyOf(c)'
<1>1. /\ phase' = phase /\ taken' = taken
      /\ \/ pc'[c] = "gateway" /\ todo'[c] = Conf[c].gws
         \/ pc'[c] = "print" /\ Conf[c].gws = {}
  BY DEF GotoGateways, Goto, LookupInv, SpaceInv, TypeInv, TypeOK
<1>2. ~Conf[c].stayDown /\ phase[c] # "up" /\ Malformed \notin Conf[c].gws
  BY DEF ReadyOf, LoopInv, PhaseInv, Closure, LookupInv, SpaceInv, TypeInv, Shape
<1>3. LoopInv(c)'
  BY <1>1, <1>2 DEF LoopInv, Closure
<1>4. ASSUME ~taken[c], NEW e \in In(c)' PROVE LinkInv(c, e)'
  <2>1. /\ e \in In(c) /\ name'[e] = Conf[c].ifName /\ addrs'[e] = Conf[c].addrs
        /\ up'[e]
    BY <1>4 DEF ReadyOf, LinkInv, In
  <2> QED
    BY <1>1, <1>2, <2>1 DEF LinkInv, Complete, ReportedUp
<1> QED
  BY <1>1, <1>3, <1>4, InsideReady

LEMMA StepReady ==
    ASSUME LookupInv, LookupInv', NEW c \in Conts, ReadyOf(c), Step(c)
    PROVE  ReadyOf(c)'
<1> USE DEF LookupInv, SpaceInv
<1>1. CASE LinkGone(c) \/ Fail(c)
  BY <1>1, FailReady DEF LinkGone
<1>2. CASE (Find(c) \/ GetLink(c)) /\ ~Fail(c)
  <2>1. /\ pc[c] # "idle" /\ pc'[c] \in {"link", "move"}
        /\ UNCHANGED <<links, spaces, phase, taken>>
    BY <1>2 DEF Find, GetLink, Goto, TypeInv, TypeOK
  <2>2. LoopInv(c)'
    BY <2>1 DEF LoopInv, Closure
  <2>3. ~ReportedUp(c)
    BY <2>1 DEF ReadyOf, PhaseInv, ReportedUp
  <2>4. \A e : LinkInv(c, e)'
    BY <2>1, <2>3 DEF LinkInv, ReportedUp, spaces
  <2> QED
    BY <2>1, <2>2, <2>4, InsideReady DEF spaces
<1>3. CASE Move(c) /\ ~Fail(c)
  <2>1. /\ pc[c] = "move" /\ idx[c] \in Enis
        /\ ~taken[c] => idx[c] = Conf[c].mac
        /\ at'[idx[c]] = c /\ ~up'[idx[c]] /\ addrs'[idx[c]] = {}
        /\ pc'[c] = IF Conf[c].stayDown THEN "print" ELSE "enter"
        /\ UNCHANGED <<spaces, phase, taken>>
    BY <1>3 DEF Move, Goto, LookupOf, TypeInv, TypeOK
  <2>2. ~taken[c] => \A e \in In(c)' : e = idx[c]
    BY <2>1 DEF In, LookupOf
  <2>3. LoopInv(c)'
    BY <2>1 DEF LoopInv, Closure
  <2>4. phase[c] # "up"
    BY <2>1 DEF ReadyOf, PhaseInv
  <2>5. ~taken[c] => \A e \in In(c)' : LinkInv(c, e)'
    BY <2>1, <2>2, <2>4 DEF LinkInv, Complete, ReportedUp
  <2> QED
    BY <2>1, <2>3, <2>5, InsideReady DEF spaces
<1>4. CASE Enter(c) /\ ~Fail(c)
  <2>1. /\ pc[c] = "enter" /\ pc'[c] = "rename"
        /\ UNCHANGED <<links, spaces, phase, taken>>
    BY <1>4 DEF Enter, Goto, TypeInv, TypeOK
  <2>2. LoopInv(c)' /\ phase[c] # "up"
    BY <2>1 DEF ReadyOf, PhaseInv, LoopInv, Closure
  <2>3. ~taken[c] => \A e \in In(c)' : e \in In(c) /\ addrs'[e] = {}
    BY <2>1 DEF links, In, ReadyOf, LinkInv
  <2>4. ~taken[c] => \A e \in In(c)' : LinkInv(c, e)'
    BY <2>1, <2>2, <2>3 DEF LinkInv, ReportedUp
  <2> QED
    BY <2>1, <2>2, <2>4, InsideReady DEF spaces
<1>5. CASE Rename(c) /\ ~Fail(c)
  <2>1. /\ pc[c] = "rename" /\ idx[c] # None
        /\ name' = [name EXCEPT ![idx[c]] = Conf[c].ifName]
        /\ pc'[c] = "addr" /\ todo'[c] = Conf[c].addrs
        /\ UNCHANGED <<at, up, addrs, spaces, idx, phase, taken>>
    BY <1>5 DEF Rename, Goto, TypeInv, TypeOK
  <2>2. ~taken[c] => In(c) = {idx[c]} /\ idx[c] \in Enis /\ In(c)' = In(c)
    BY <2>1, OnlyLink DEF Inside, In
  <2>3. ~taken[c] => name'[idx[c]] = Conf[c].ifName /\ addrs'[idx[c]] = {}
    BY <2>1, <2>2 DEF ReadyOf, LinkInv, TypeInv, TypeOK
  <2>4. LoopInv(c)' /\ phase[c] # "up"
    BY <2>1 DEF ReadyOf, PhaseInv, LoopInv, Closure
  <2>5. ~taken[c] => \A e \in In(c)' : LinkInv(c, e)'
    BY <2>1, <2>2, <2>3, <2>4 DEF LinkInv, ReportedUp
  <2> QED
    BY <2>1, <2>4, <2>5, InsideReady DEF spaces
<1>6. CASE AddAddr(c)
  <2>1. PICK f \in todo[c] :
          /\ addrs' = [addrs EXCEPT ![idx[c]] = @ \cup {f}]
          /\ IF todo[c] = {f} THEN Goto(c, "up", {})
                              ELSE Goto(c, "addr", todo[c] \ {f})
    BY <1>6 DEF AddAddr
  <2>2. /\ pc[c] = "addr" /\ idx[c] # None
        /\ UNCHANGED <<at, name, up, spaces, idx, phase, taken>>
    BY <1>6, <2>1 DEF AddAddr, Goto
  <2>3. ~taken[c] => In(c) = {idx[c]} /\ idx[c] \in Enis /\ In(c)' = In(c)
    BY <2>2, OnlyLink DEF Inside, In
  <2>4. /\ todo[c] \subseteq Conf[c].addrs /\ ~Conf[c].stayDown /\ phase[c] # "up"
        /\ ~taken[c] => /\ addrs[idx[c]] = Conf[c].addrs \ todo[c]
                        /\ name'[idx[c]] = Conf[c].ifName
    BY <2>2, <2>3 DEF ReadyOf, LinkInv, LoopInv, PhaseInv, Closure
  <2>5. ~taken[c] => addrs'[idx[c]] = (Conf[c].addrs \ todo[c]) \cup {f}
    BY <2>1, <2>3, <2>4 DEF TypeInv, TypeOK
  <2>6. \/ todo[c] = {f} /\ pc'[c] = "up"
        \/ pc'[c] = "addr" /\ todo'[c] = todo[c] \ {f}
    BY <2>1 DEF Goto, TypeInv, TypeOK
  <2>7. LoopInv(c)'
    BY <2>2, <2>4, <2>6 DEF LoopInv, Closure
  <2>8. ~taken[c] => /\ pc'[c] = "addr" => addrs'[idx[c]] = Conf[c].addrs \ todo'[c]
                     /\ pc'[c] = "up" => addrs'[idx[c]] = Conf[c].addrs
    BY <2>4, <2>5, <2>6
  <2>9. ~taken[c] => \A e \in In(c)' : LinkInv(c, e)'
    BY <2>2, <2>3, <2>4, <2>6, <2>8 DEF LinkInv, ReportedUp
  <2> QED
    BY <2>2, <2>6, <2>7, <2>9, InsideReady DEF spaces
<1>7. CASE BringUp(c)
  <2>1. /\ pc[c] = "up" /\ idx[c] # None
        /\ up' = [up EXCEPT ![idx[c]] = TRUE]
        /\ UNCHANGED <<at, name, addrs, spaces, idx>>
    BY <1>7 DEF BringUp
  <2>2. ~taken[c] => In(c) = {idx[c]} /\ idx[c] \in Enis /\ In(c)' = In(c)
    BY <2>1, OnlyLink DEF Inside, In
  <2>3. ~taken[c] => up'[idx[c]]
    BY <2>1, <2>2 DEF TypeInv, TypeOK
  <2>4. CASE Conf[c].block
    <3>1. pc'[c] = "block" /\ phase' = phase /\ taken' = taken
      BY <1>7, <2>4 DEF BringUp, GotoBlock, Goto, TypeInv, TypeOK
    <3>2. LoopInv(c)' /\ phase[c] # "up"
      BY <2>1, <3>1 DEF ReadyOf, PhaseInv, LoopInv, Closure
    <3>3. ~taken[c] => name'[idx[c]] = Conf[c].ifName /\ addrs'[idx[c]] = Conf[c].addrs
      BY <2>1, <2>2 DEF ReadyOf, LinkInv
    <3>4. ~taken[c] => \A e \in In(c)' : LinkInv(c, e)'
      BY <2>2, <2>3, <3>1, <3>2, <3>3 DEF LinkInv, ReportedUp
    <3> QED
      BY <2>1, <3>1, <3>2, <3>4, InsideReady DEF spaces
  <2>5. CASE ~Conf[c].block
    <3>1. GotoGateways(c)
      BY <1>7, <2>5 DEF BringUp, GotoBlock
    <3> QED
      BY <2>1, <2>2, <2>3, <2>5, <3>1, GatewaysReady DEF spaces
  <2> QED
    BY <2>4, <2>5
<1>8. CASE BlockIMDS(c)
  <2>1. PICK f \in Fam :
          /\ blocked' = [blocked EXCEPT ![c] = @ \cup {f}]
          /\ IF todo[c] = {f} THEN GotoGateways(c)
                              ELSE Goto(c, "block", todo[c] \ {f})
    BY <1>8 DEF BlockIMDS
  <2>2. pc[c] = "block" /\ UNCHANGED <<links, ns, route, idx>>
    BY <1>8 DEF BlockIMDS
  <2>3. CASE todo[c] = {f}
    <3>1. Conf[c].block => blocked'[c] = Fam
      BY <2>1, <2>2, <2>3 DEF SpaceOf, BlockInv, TypeInv, TypeOK
    <3>2. ~taken[c] => \A e \in In(c) : up'[e]
      BY <2>2 DEF ReadyOf, LinkInv, links
    <3> QED
      BY <2>1, <2>2, <2>3, <3>1, <3>2, GatewaysReady DEF links
  <2>4. CASE todo[c] # {f}
    <3>1. pc'[c] = "block" /\ phase' = phase /\ taken' = taken
      BY <2>1, <2>4 DEF Goto, TypeInv, TypeOK
    <3>2. LoopInv(c)' /\ phase[c] # "up"
      BY <2>2, <3>1 DEF ReadyOf, PhaseInv, LoopInv, Closure
    <3>3. ~taken[c] => \A e \in In(c)' : LinkInv(c, e)'
      BY <2>2, <3>1, <3>2 DEF ReadyOf, LinkInv, ReportedUp, links, In
    <3> QED
      BY <2>2, <3>1, <3>2, <3>3, InsideReady
  <2> QED
    BY <2>3, <2>4
<1>9. CASE AddGateway(c) /\ ~Fail(c)
  <2>1. PICK g \in todo[c] :
          /\ route' = IF route[c][GwFam[g]] = None
                         THEN [route EXCEPT ![c][GwFam[g]] = g] ELSE route
          /\ IF todo[c] = {g} THEN Goto(c, "print", {})
                              ELSE Goto(c, "gateway", todo[c] \ {g})
          /\ UNCHANGED <<links, ns, blocked, idx>>
    BY <1>9 DEF AddGateway, isRouteExistsError
  <2>2. pc[c] = "gateway" /\ idx[c] # None /\ phase' = phase /\ taken' = taken
    BY <1>9, <2>1 DEF AddGateway, Goto
  <2>3. /\ todo[c] \subseteq Conf[c].gws /\ g \in Gateways /\ g \in Conf[c].gws
        /\ GwFam[g] \in Fam /\ Conf[c].gws \subseteq Gateways
        /\ ~Conf[c].stayDown /\ phase[c] = "adding"
        /\ Malformed \notin Conf[c].gws
    BY <2>1, <2>2, ConfFacts, GatewayAssumption
       DEF ReadyOf, LoopInv, PhaseInv, Shape, Closure, TypeInv
  <2>4. \A f \in Fam :
           route'[c][f] = IF f = GwFam[g] /\ route[c][f] = None THEN g ELSE route[c][f]
    BY <2>1, <2>3 DEF TypeInv, TypeOK
  <2>5. OwnRoutes(c)'
    BY <2>3, <2>4 DEF ReadyOf, OwnRoutes
  <2>6. Routed(c, g)'
    BY <2>3, <2>4, <2>5, SentinelAssumption DEF OwnRoutes, Routed, ReadyOf
  <2>7. \A h \in Conf[c].gws : Routed(c, h) => Routed(c, h)'
    BY <2>3, <2>4, SentinelAssumption, GatewayAssumption DEF Routed
  <2>8. \/ todo[c] = {g} /\ pc'[c] = "print"
        \/ pc'[c] = "gateway" /\ todo'[c] = todo[c] \ {g}
    BY <2>1 DEF Goto, TypeInv, TypeOK
  <2>9. LoopInv(c)' /\ PhaseInv(c)' /\ ~ReportedUp(c)'
    BY <2>1, <2>2, <2>3, <2>8
       DEF ReadyOf, LoopInv, PhaseInv, ReportedUp, Closure
  <2>10. ASSUME ~taken[c], NEW e \in In(c)' PROVE LinkInv(c, e)'
    <3>1. /\ e \in In(c) /\ name'[e] = name[e] /\ up'[e] = up[e] /\ addrs'[e] = addrs[e]
      BY <2>1 DEF links, In
    <3>2. /\ name[e] = Conf[c].ifName /\ up[e] /\ addrs[e] = Conf[c].addrs
          /\ \A h \in Conf[c].gws \ todo[c] : Routed(c, h)
      BY <2>2, <2>10, <3>1 DEF ReadyOf, LinkInv
    <3>3. Conf[c].block => blocked'[c] = Fam
      BY <2>1, <2>2 DEF SpaceOf, BlockInv
    <3>4. \A h \in Conf[c].gws \ (todo[c] \ {g}) : Routed(c, h)'
      BY <2>6, <2>7, <3>2
    <3> QED
      BY <2>3, <2>8, <2>9, <3>1, <3>2, <3>3, <3>4 DEF LinkInv, Complete
  <2> QED
    BY <2>2, <2>5, <2>9, <2>10 DEF ReadyOf
<1>10. CASE PrintResult(c)
  <2>1. /\ pc[c] = "print" /\ pc'[c] = "idle"
        /\ phase'[c] = IF idx[c] = None THEN "lost" ELSE "up"
        /\ UNCHANGED <<links, spaces, taken>>
    BY <1>10 DEF PrintResult, End, TypeInv, TypeOK
  <2>2. PhaseInv(c)' /\ LoopInv(c)' /\ OwnRoutes(c)'
    BY <2>1 DEF ReadyOf, PhaseInv, LoopInv, OwnRoutes, SpaceOf, HandleInv,
                Closure, Inside, spaces
  <2>3. ~taken[c] /\ ReportedUp(c)' => In(c)' # {}
    BY <2>1, OnlyLink DEF ReportedUp, In, links, Inside
  <2>4. ASSUME ~taken[c], NEW e \in In(c)' PROVE LinkInv(c, e)'
    <3>1. e \in In(c) /\ Complete(c, e)
      BY <2>1, <2>4 DEF ReadyOf, LinkInv, In, links
    <3>2. Complete(c, e)'
      BY <2>1, <3>1 DEF Complete, Routed, links, spaces
    <3> QED
      BY <2>1, <3>2 DEF LinkInv
  <2> QED
    BY <2>1, <2>2, <2>3, <2>4 DEF ReadyOf
<1> QED
  BY <1>1, <1>2, <1>3, <1>4, <1>5, <1>6, <1>7, <1>8, <1>9, <1>10 DEF Step

LEMMA OtherReady ==
    ASSUME LookupInv, NEW c \in Conts, ReadyOf(c), Other(c)
    PROVE  ReadyOf(c)'
<1> USE DEF LookupInv, SpaceInv
<1>1. CASE Stop(c)
  BY <1>1, FailReady DEF Stop
<1>2. CASE CreateNamespace(c) \/ DestroyNamespace(c)
  <2>1. /\ UNCHANGED <<links, blocked, route, pc, todo, phase, taken>>
        /\ \/ ns[c] = "none"
           \/ ns'[c] = "dying"
    BY <1>2 DEF CreateNamespace, DestroyNamespace, TypeInv, TypeOK
  <2>2. PhaseInv(c)' /\ LoopInv(c)' /\ OwnRoutes(c)' /\ ~ReportedUp(c)'
    BY <2>1 DEF ReadyOf, PhaseInv, LoopInv, OwnRoutes, ReportedUp
  <2>3. ~taken[c] => \A e \in In(c)' : LinkInv(c, e)'
    BY <2>1, <2>2 DEF ReadyOf, LinkInv, Complete, Routed, In, links
  <2> QED
    BY <2>1, <2>2, <2>3 DEF ReadyOf
<1>3. CASE InvokeAdd(c) \/ Del(c) \/ Reap(c)
  <2>1. UNCHANGED <<links, route, todo>> /\ In(c)' = In(c)
    BY <1>3 DEF InvokeAdd, Del, Reap, links, spaces, In
  <2>2. \/ pc'[c] \in {"find", "idle"}
        \/ ns'[c] = "none" /\ In(c) = {} /\ pc'[c] = pc[c]
    BY <1>3 DEF InvokeAdd, Del, Reap, TypeInv, TypeOK
  <2>3. PhaseInv(c)' /\ ~ReportedUp(c)'
    <3>1. CASE InvokeAdd(c)
      BY <3>1 DEF InvokeAdd, PhaseInv, ReportedUp, TypeInv, TypeOK
    <3>2. CASE Del(c)
      BY <3>2 DEF Del, PhaseInv, ReportedUp, ReadyOf, TypeInv, TypeOK
    <3>3. CASE Reap(c)
      <4>1. /\ pc'[c] = pc[c] /\ ns'[c] = "none"
            /\ phase'[c] = IF phase[c] = "adding" THEN "adding" ELSE "none"
        BY <3>3 DEF Reap, TypeInv, TypeOK
      <4> QED
        BY <4>1 DEF PhaseInv, ReportedUp, ReadyOf
    <3> QED
      BY <1>3, <3>1, <3>2, <3>3
  <2>4. LoopInv(c)' /\ OwnRoutes(c)'
    BY <2>1, <2>2 DEF ReadyOf, LoopInv, OwnRoutes, Closure
  <2>5. \A e \in In(c)' : LinkInv(c, e)'
    BY <2>1, <2>2, <2>3 DEF LinkInv
  <2> QED
    BY <2>3, <2>4, <2>5 DEF ReadyOf
<1>4. ASSUME NEW e \in Enis, ReturnLink(c, e) PROVE ReadyOf(c)'
  <2>1. PICK n \in Names : ComesToHost(e, n)
    BY <1>4 DEF ReturnLink
  <2>2. at[e] = c /\ ns[c] = "dying" /\ route'[c] = NoRoutes
        /\ UNCHANGED <<ns, blocked, pc, dev, idx, todo, phase>>
    BY <1>4 DEF ReturnLink, TypeInv, TypeOK
  <2>3. ~taken'[c] => In(c)' = {}
    BY <2>1, <2>2, SentinelAssumption DEF ComesToHost, LookupOf, In, TypeInv, TypeOK
  <2>4. PhaseInv(c)' /\ LoopInv(c)' /\ ~ReportedUp(c)'
    BY <2>2 DEF ReadyOf, PhaseInv, LoopInv, ReportedUp
  <2>5. OwnRoutes(c)'
    BY <2>2, SentinelAssumption DEF OwnRoutes, NoRoutes
  <2> QED
    BY <2>3, <2>4, <2>5 DEF ReadyOf
<1>5. CASE Advertise(c)
  <2>1. /\ route[c][6] = None
        /\ \A f \in Fam : route'[c][f] = IF f = 6 THEN Advertised ELSE route[c][f]
        /\ UNCHANGED <<links, ns, blocked, pc, dev, idx, todo, phase, taken>>
    BY <1>5 DEF Advertise, TypeInv, TypeOK
  <2>2. /\ PhaseInv(c)' /\ LoopInv(c)' /\ In(c)' = In(c)
        /\ ReportedUp(c)' <=> ReportedUp(c)
    BY <2>1 DEF ReadyOf, PhaseInv, LoopInv, ReportedUp, links, In
  <2>3. OwnRoutes(c)'
    BY <2>1, SentinelAssumption DEF ReadyOf, OwnRoutes
  <2>4. ASSUME ~taken[c], NEW e \in In(c)' PROVE LinkInv(c, e)'
    <3>1. e \in In(c) /\ LinkInv(c, e)
      BY <2>2, <2>4 DEF ReadyOf
    <3>2. ASSUME NEW g \in Conf[c].gws, Malformed \notin Conf[c].gws, Routed(c, g)
          PROVE  Routed(c, g)'
      <4>1. GwFam[g] \in Fam
        BY <3>2, ConfFacts, GatewayAssumption
      <4> QED
        BY <2>1, <3>2, <4>1 DEF Routed
    <3>3. Complete(c, e) => Complete(c, e)'
      BY <2>1, <3>2 DEF Complete, links
    <3>4. pc[c] = "gateway" => Malformed \notin Conf[c].gws
      BY DEF TypeInv, Shape, Closure
    <3> QED
      BY <2>1, <2>2, <3>1, <3>2, <3>3, <3>4 DEF LinkInv, links
  <2> QED
    BY <2>1, <2>2, <2>3, <2>4 DEF ReadyOf
<1> QED
  BY <1>1, <1>2, <1>3, <1>4, <1>5 DEF Other, TakeDown, Runtime

LEMMA ReadyStep == ReadyInv /\ [Next]_vars => ReadyInv'
<1> SUFFICES ASSUME ReadyInv, [Next]_vars PROVE ReadyInv'
  OBVIOUS
<1>1. LookupInv /\ LookupInv'
  BY LookupStep DEF ReadyInv
<1>2. CASE UNCHANGED vars
  <2>1. \A c \in Conts : Untouched(c)
    BY <1>2 DEF vars, Untouched, In
  <2> QED
    BY <1>1, <2>1, ReadyFrame DEF ReadyInv
<1>3. ASSUME NEW c \in Conts, Step(c) \/ Other(c) PROVE ReadyInv'
  <2>1. OthersAlone(c)
    BY <1>1, <1>3, StepAlone, OutsideAlone DEF LookupInv, SpaceInv, SpaceOf
  <2>2. ReadyOf(c)'
    BY <1>1, <1>3, StepReady, OtherReady DEF ReadyInv
  <2>3. \A d \in Conts \ {c} : ReadyOf(d)'
    BY <2>1, OthersReady DEF ReadyInv
  <2> QED
    BY <1>1, <2>2, <2>3 DEF ReadyInv
<1>4. ASSUME NEW e \in Enis, Attach(e) \/ Detach(e) PROVE ReadyInv'
  BY <1>1, <1>4, HostReady DEF ReadyInv
<1> QED
  BY <1>2, <1>3, <1>4 DEF Next, Other

(* A container that is reported, and keeps its namespace and its ENI, has  *)
(* that ENI under its name, with its addresses, with IMDS blocked and a    *)
(* default route per family of its gateways, or down if it is to stay      *)
(* down: for any number of containers and ENIs, and whatever an attempt    *)
(* that failed left behind.  The one exception is that of NoForeignENI: a  *)
(* link that took the name its ADD had found.                              *)
THEOREM ReportedAreReady == Spec => []ReportedIsReady
<1>1. ReadyInv => ReportedIsReady
  <2> SUFFICES ASSUME ReadyInv, NEW c \in Conts, ReportedUp(c), ~taken[c]
               PROVE  Ready(c)
    BY DEF ReportedIsReady, ReportedUp
  <2>1. PICK e \in In(c) : LinkInv(c, e)
    BY DEF ReadyInv, ReadyOf
  <2>2. e = Conf[c].mac /\ at[e] = c
    BY <2>1 DEF ReadyInv, LookupInv, LookupOf, In
  <2>3. Complete(c, e)
    BY <2>1 DEF LinkInv
  <2> QED
    BY <2>2, <2>3 DEF Ready, Complete, Routed
<1> QED
  BY <1>1, ReadyInit, ReadyStep, PTL DEF Spec
=============================================================================
