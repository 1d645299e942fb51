----------------------------- MODULE IPAMProofs -----------------------------
(***************************************************************************)
(* Theorems about IPAM, for all values of its constants.                   *)
(***************************************************************************)
EXTENDS IPAM, TLAPS

(* Where a process can be, given its command and its configuration, and    *)
(* what its local variables hold there.                                    *)
Shape(p) ==
    /\ pc[p] = "idle" <=> conf[p] = None
    /\ pc[p] # "idle" => LoadIPAMConfig(conf[p])
    /\ pc[p] \in {"gateway", "gwCheck", "gwPut", "pick", "check", "put", "print"}
         => conf[p].cmd = "ADD"
    /\ pc[p] \in {"gateway", "gwCheck", "gwPut", "pick", "check", "put"}
         => HasIP(conf[p], fam[p])
    /\ pc[p] = "release" => conf[p].cmd = "DEL"
    /\ pc[p] \in {"gwCheck", "gwPut"} => cur[p] = Gateway(conf[p], fam[p])
    /\ pc[p] \in {"check", "put"} => cur[p] \in Addr /\ Host(fam[p], Sub(p), cur[p])

(* The lock is held from Open to Close.                                    *)
Exclusion(p) == pc[p] \in Session <=> lock = p

(* What Assign has read is still so when it writes.                        *)
Pending(p) ==
    /\ pc[p] = "gwPut" =>
         db[CurKey(p)] = Free /\ UniqueID(4, GatewayValue(fam[p]))
    /\ pc[p] = "put" =>
         /\ db[CurKey(p)] = Free
         /\ Wanted(p) = Empty \/ UniqueID(ScannedFam(p), Wanted(p))

TypeInv == TypeOK /\ \A p \in Procs : Shape(p) /\ Exclusion(p)

StoreInv == TypeInv /\ IdsUnique /\ \A p \in Procs : Pending(p)

-----------------------------------------------------------------------------
(* Facts about the constants and the pure operators.                       *)

LEMMA ConfFacts ==
    ASSUME NEW c \in Confs, NEW f \in Fam
    PROVE  /\ c # None
           /\ c.id \in Ids \cup {NoId}
           /\ c.cmd \in {"ADD", "DEL"}
           /\ c.address[f] \in Addr \cup {None}
           /\ HasIP(c, f) =>
                /\ c.subnet[f] \in Subnet
                /\ c.subnet[f].lo \in Int /\ c.subnet[f].hi \in Int
                /\ Gateway(c, f) \in Addr
                /\ \A a \in Int : InSubnet(c.subnet[f], a) => a \in Addr
<1>1. c \in Conf /\ c # None
  BY ConfAssumption
<1>2. /\ c.id \in Ids \cup {NoId}
      /\ c.cmd \in {"ADD", "DEL"}
      /\ c.address[f] \in Addr \cup {None}
      /\ c.subnet[f] \in Subnet \cup {None}
  BY <1>1 DEF Conf
<1>3. ASSUME HasIP(c, f)
      PROVE  /\ c.subnet[f] \in Subnet
             /\ c.subnet[f].lo \in Int /\ c.subnet[f].hi \in Int
             /\ Gateway(c, f) \in Addr
             /\ \A a \in Int : InSubnet(c.subnet[f], a) => a \in Addr
  <2>1. c.subnet[f] \in Subnet
    BY <1>2, <1>3 DEF HasIP
  <2>2. c.subnet[f].lo \in Int /\ c.subnet[f].hi \in Int
    BY <2>1, AddrAssumption DEF Subnet
  <2>3. /\ c.subnet[f].lo .. c.subnet[f].hi \subseteq Addr
        /\ Gateway(c, f) \in Addr
    BY <1>3, ConfAssumption
  <2>4. \A a \in Int : InSubnet(c.subnet[f], a) => a \in Addr
    BY <2>2, <2>3 DEF InSubnet
  <2> QED
    BY <2>1, <2>2, <2>3, <2>4
<1> QED
  BY <1>1, <1>2, <1>3

(* NextIP and NextIPv6 stay in the subnet and never return a reserved      *)
(* address, wherever in an accepted subnet the search starts.              *)
LEMMA NextIPHost ==
    ASSUME NEW f \in Fam, NEW s, s.lo \in Int, s.hi \in Int,
           MaskAccepted(s), NEW a \in Int, InSubnet(s, a)
    PROVE  NextIP(f, s, a) \in Int /\ Host(f, s, NextIP(f, s, a))
  BY DEF NextIP, Bump, Reserved, Host, InSubnet, MaskAccepted

LEMMA AcceptedHost ==
    ASSUME NEW c \in Confs, NEW f \in Fam, LoadIPAMConfig(c), HasIP(c, f)
    PROVE  /\ MaskAccepted(c.subnet[f])
           /\ c.address[f] # None => Host(f, c.subnet[f], c.address[f])
           /\ \A a \in Int : Host(f, c.subnet[f], a) => a \in Addr
  BY ConfFacts DEF LoadIPAMConfig, Host

-----------------------------------------------------------------------------
(* Type correctness, the shape of a command and the exclusion of sessions. *)

(* A process that a step leaves alone keeps its shape.                     *)
LEMMA ShapeFrame ==
    ASSUME NEW q \in Procs, Shape(q), pc'[q] = pc[q], conf'[q] = conf[q],
           fam'[q] = fam[q], cur'[q] = cur[q]
    PROVE  Shape(q)'
  BY DEF Shape, Sub

LEMMA TypeInvInit == Init => TypeInv
  BY ProcAssumption DEF Init, TypeInv, TypeOK, Shape, Exclusion, Session, Steps, Fam,
         Results, NoAddrs

LEMMA InvokeType ==
    ASSUME TypeInv, NEW p \in Procs, Invoke(p)
    PROVE  TypeInv'
<1> USE DEF TypeInv
<1>1. PICK c \in Confs :
         /\ pc[p] = "idle" /\ LoadIPAMConfig(c) /\ Goto(p, "open")
         /\ conf' = [conf EXCEPT ![p] = c]
         /\ granted' = IF c.cmd = "DEL" THEN granted \ Dropped(c) ELSE granted
         /\ UNCHANGED <<lock, db, last, fam, cur, start, ip, res>>
  BY DEF Invoke
<1>2. TypeOK'
  BY <1>1 DEF TypeOK, Goto, Steps
<1>3. ASSUME NEW q \in Procs PROVE Shape(q)' /\ Exclusion(q)'
  <2>1. CASE q = p
    BY <1>1, <2>1, ConfAssumption DEF TypeOK, Shape, Exclusion, Goto, Session, Steps
  <2>2. CASE q # p
    BY <1>1, <2>2, ShapeFrame DEF TypeOK, Exclusion, Goto
  <2> QED
    BY <2>1, <2>2
<1> QED
  BY <1>2, <1>3

LEMMA OpenType ==
    ASSUME TypeInv, NEW p \in Procs, Open(p)
    PROVE  TypeInv'
<1> USE DEF TypeInv, Open
<1>1. TypeOK'
  BY DEF TypeOK, Goto, Steps, Fam
<1>2. ASSUME NEW q \in Procs PROVE Shape(q)' /\ Exclusion(q)'
  <2>1. CASE q = p
    <3>1. conf[p] \in Confs /\ LoadIPAMConfig(conf[p])
      BY DEF TypeOK, Shape
    <3>2. conf[p].cmd \in {"ADD", "DEL"}
      BY <3>1, ConfFacts DEF Fam
    <3>3. HasIP(conf[p], 4) \/ HasIP(conf[p], 6)
      BY <3>1 DEF LoadIPAMConfig, Fam
    <3>4. conf' = conf /\ fam'[p] = IF conf[p].cmd = "ADD" /\ ~HasIP(conf[p], 4)
                                    THEN 6 ELSE 4
      BY DEF TypeOK
    <3>5. pc'[p] = IF conf[p].cmd = "ADD" THEN "gateway" ELSE "release"
      BY DEF TypeOK, Goto
    <3> QED
      BY <2>1, <3>1, <3>2, <3>3, <3>4, <3>5, ConfAssumption
         DEF Shape, Exclusion, Session, Steps
  <2>2. CASE q # p
    BY <2>2, ShapeFrame, ProcAssumption DEF TypeOK, Exclusion, Goto
  <2> QED
    BY <2>1, <2>2
<1> QED
  BY <1>1, <1>2

(* The ends of a process: OpenTimeout, Close and Crash.                    *)
LEMMA GoneType ==
    ASSUME TypeInv, NEW p \in Procs, Gone(p), UNCHANGED <<db, last, granted>>,
           \/ lock' = lock /\ lock # p
           \/ lock' = None /\ lock = p
    PROVE  TypeInv'
<1> USE DEF TypeInv, Gone
<1>1. TypeOK'
  BY DEF TypeOK, Goto, Steps, Fam, NoAddrs, Results
<1>2. ASSUME NEW q \in Procs PROVE Shape(q)' /\ Exclusion(q)'
  <2>1. CASE q = p
    BY <2>1, ProcAssumption DEF TypeOK, Shape, Exclusion, Goto, Session, Steps
  <2>2. CASE q # p
    BY <2>2, ShapeFrame, ProcAssumption DEF TypeOK, Exclusion, Goto
  <2> QED
    BY <2>1, <2>2
<1> QED
  BY <1>1, <1>2

(* The steps of a session: the process keeps its configuration, its lock   *)
(* and its family, and the store keeps its type.                           *)
LEMMA SessionType ==
    ASSUME TypeInv, NEW p \in Procs, pc[p] \in Session,
           UNCHANGED <<lock, conf>>, TypeOK', Shape(p)', pc'[p] \in Session,
           \A q \in Procs \ {p} :
               /\ pc'[q] = pc[q]
               /\ fam'[q] = fam[q]
               /\ cur'[q] = cur[q]
    PROVE  TypeInv'
<1>1. ASSUME NEW q \in Procs PROVE Shape(q)' /\ Exclusion(q)'
  <2>1. CASE q = p
    BY <2>1 DEF TypeInv, Exclusion
  <2>2. CASE q # p
    BY <2>2, ShapeFrame DEF TypeInv, Exclusion
  <2> QED
    BY <2>1, <2>2
<1> QED
  BY <1>1 DEF TypeInv

(* What is known of a running process and of the family it works on.       *)
LEMMA RunFacts ==
    ASSUME TypeInv, NEW p \in Procs, pc[p] # "idle"
    PROVE  /\ conf[p] \in Confs /\ LoadIPAMConfig(conf[p]) /\ fam[p] \in Fam
           /\ conf[p].id \in Ids \cup {NoId}
           /\ conf[p].cmd \in {"ADD", "DEL"}
           /\ \A f \in Fam : conf[p].address[f] \in Addr \cup {None}
           /\ Wanted(p) \in Value /\ GatewayValue(fam[p]) \in Value
  <1>1. conf[p] \in Confs /\ LoadIPAMConfig(conf[p]) /\ fam[p] \in Fam
    BY DEF TypeInv, TypeOK, Shape
  <1>2. /\ conf[p].id \in Ids \cup {NoId}
        /\ conf[p].cmd \in {"ADD", "DEL"}
        /\ \A f \in Fam : conf[p].address[f] \in Addr \cup {None}
    BY <1>1, ConfFacts
  <1> QED
    BY <1>1, <1>2 DEF Value, Wanted

LEMMA FamFacts ==
    ASSUME TypeInv, NEW p \in Procs, pc[p] # "idle", HasIP(conf[p], fam[p])
    PROVE  /\ MaskAccepted(Sub(p))
           /\ Sub(p).lo \in Addr /\ Sub(p).lo \in Int /\ Sub(p).hi \in Int
           /\ Gateway(conf[p], fam[p]) \in Addr
           /\ Explicit(p) => Host(fam[p], Sub(p), conf[p].address[fam[p]])
           /\ \A a \in Int : InSubnet(Sub(p), a) =>
                 /\ NextIP(fam[p], Sub(p), a) \in Addr
                 /\ Host(fam[p], Sub(p), NextIP(fam[p], Sub(p), a))
<1>1. conf[p] \in Confs /\ fam[p] \in Fam /\ LoadIPAMConfig(conf[p])
  BY RunFacts
<1>2. /\ Sub(p) \in Subnet /\ Sub(p).lo \in Int /\ Sub(p).hi \in Int
      /\ Gateway(conf[p], fam[p]) \in Addr
  BY <1>1, ConfFacts DEF Sub
<1>3. /\ MaskAccepted(Sub(p))
      /\ Explicit(p) => Host(fam[p], Sub(p), conf[p].address[fam[p]])
      /\ \A a \in Int : Host(fam[p], Sub(p), a) => a \in Addr
  BY <1>1, AcceptedHost DEF Sub, Explicit
<1>4. \A a \in Int : InSubnet(Sub(p), a) =>
         /\ NextIP(fam[p], Sub(p), a) \in Int
         /\ Host(fam[p], Sub(p), NextIP(fam[p], Sub(p), a))
  BY <1>1, <1>2, <1>3, NextIPHost
<1> QED
  BY <1>2, <1>3, <1>4 DEF Subnet

LEMMA GatewayStepType ==
    ASSUME TypeInv, NEW p \in Procs,
           VerifyGateway(p) \/ CheckGateway(p) \/ PutGateway(p)
    PROVE  TypeInv'
<1>1. pc[p] \in Session /\ pc[p] # "idle" /\ HasIP(conf[p], fam[p])
  BY DEF VerifyGateway, CheckGateway, PutGateway, TypeInv, Shape, Session, Steps
<1>2. Gateway(conf[p], fam[p]) \in Addr /\ fam[p] \in Fam
      /\ GatewayValue(fam[p]) \in Value
  BY <1>1, RunFacts, FamFacts
<1>3. TypeOK /\ Shape(p)
  BY DEF TypeInv
<1>4. CASE VerifyGateway(p)
  <2>1. TypeOK' /\ pc'[p] \in Session
    BY <1>2, <1>3, <1>4 DEF VerifyGateway, TypeOK, Goto, Fail, Steps, Session, Results
  <2>2. Shape(p)'
    BY <1>3, <1>4 DEF VerifyGateway, TypeOK, Shape, Goto, Fail
  <2> QED
    BY <1>1, <1>4, <2>1, <2>2, <1>3, SessionType DEF VerifyGateway, Goto, Fail, TypeOK
<1>5. CASE CheckGateway(p)
  <2>1. TypeOK' /\ pc'[p] \in Session
    BY <1>3, <1>5 DEF CheckGateway, TypeOK, Goto, Fail, Steps, Session, Results
  <2>2. Shape(p)'
    BY <1>3, <1>5 DEF CheckGateway, TypeOK, Shape, Goto, Fail
  <2> QED
    BY <1>1, <1>5, <2>1, <2>2, <1>3, SessionType DEF CheckGateway, Goto, Fail, TypeOK
<1>6. CASE PutGateway(p)
  <2>1. TypeOK' /\ pc'[p] \in Session
    BY <1>2, <1>3, <1>6 DEF PutGateway, TypeOK, Goto, Steps, Session, Key
  <2>2. Shape(p)'
    BY <1>3, <1>6 DEF PutGateway, TypeOK, Shape, Goto
  <2> QED
    BY <1>1, <1>6, <2>1, <2>2, <1>3, SessionType DEF PutGateway, Goto, TypeOK
<1> QED
  BY <1>4, <1>5, <1>6

LEMMA AddressStepType ==
    ASSUME TypeInv, NEW p \in Procs, Pick(p) \/ CheckAddress(p) \/ PutAddress(p)
    PROVE  TypeInv'
<1>1. pc[p] \in Session /\ pc[p] # "idle" /\ HasIP(conf[p], fam[p])
  BY DEF Pick, CheckAddress, PutAddress, TypeInv, Shape, Session, Steps
<1>2. TypeOK /\ Shape(p)
  BY DEF TypeInv
<1>3. /\ fam[p] \in Fam /\ Wanted(p) \in Value
      /\ conf[p].address[fam[p]] \in Addr \cup {None}
      /\ Sub(p).lo \in Addr /\ Sub(p).lo \in Int
      /\ Explicit(p) => Host(fam[p], Sub(p), conf[p].address[fam[p]])
      /\ \A a \in Int : InSubnet(Sub(p), a) =>
            /\ NextIP(fam[p], Sub(p), a) \in Addr
            /\ Host(fam[p], Sub(p), NextIP(fam[p], Sub(p), a))
  BY <1>1, RunFacts, FamFacts
<1>4. CASE Pick(p)
  <2>1. StartIP(p) \in Addr /\ StartIP(p) \in Int
    BY <1>2, <1>3, AddrAssumption DEF TypeOK, StartIP
  <2>2. \/ /\ Explicit(p) /\ cur' = [cur EXCEPT ![p] = conf[p].address[fam[p]]]
           /\ Goto(p, "check") /\ UNCHANGED <<start, res>>
        \/ Fail(p, "outside") /\ UNCHANGED <<cur, start>>
        \/ /\ InSubnet(Sub(p), StartIP(p))
           /\ start' = [start EXCEPT ![p] = StartIP(p)]
           /\ cur' = [cur EXCEPT ![p] = NextIP(fam[p], Sub(p), StartIP(p))]
           /\ Goto(p, "check") /\ UNCHANGED res
    BY <1>4 DEF Pick
  <2>3. UNCHANGED <<lock, db, last, conf, fam, ip, granted>>
    BY <1>4 DEF Pick
  <2>4. TypeOK' /\ pc'[p] \in Session
    <3>1. /\ cur' \in [Procs -> Addr \cup {None}]
          /\ start' \in [Procs -> Addr \cup {None}]
      BY <1>2, <1>3, <2>1, <2>2 DEF TypeOK
    <3>2. /\ pc' \in [Procs -> Steps] /\ res' \in [Procs -> Results]
          /\ pc'[p] \in Session
      BY <1>2, <2>2 DEF TypeOK, Goto, Fail, Steps, Session, Results
    <3> QED
      BY <1>2, <2>3, <3>1, <3>2 DEF TypeOK
  <2>5. pc'[p] # "close" => cur'[p] \in Addr /\ Host(fam[p], Sub(p), cur'[p])
    BY <1>2, <1>3, <2>1, <2>2 DEF TypeOK, Goto, Fail, Explicit
  <2>6. Shape(p)'
    BY <1>1, <1>2, <2>2, <2>3, <2>5, <1>4 DEF TypeOK, Shape, Goto, Fail, Sub, Pick
  <2> QED
    BY <1>1, <1>2, <2>2, <2>3, <2>4, <2>6, SessionType DEF Goto, Fail, TypeOK
<1>5. CASE CheckAddress(p)
  <2>1. cur[p] \in Int /\ InSubnet(Sub(p), cur[p])
    BY <1>2, <1>5, AddrAssumption DEF CheckAddress, Shape, Host
  <2>2. TypeOK' /\ pc'[p] \in Session
    BY <1>2, <1>3, <1>5, <2>1
       DEF CheckAddress, AddressFree, AddressTaken, TypeOK, Goto, Fail, Steps,
           Session, Results
  <2>3. pc'[p] # "close" => cur'[p] \in Addr /\ Host(fam[p], Sub(p), cur'[p])
    BY <1>2, <1>3, <1>5, <2>1
       DEF CheckAddress, AddressFree, AddressTaken, TypeOK, Goto, Fail, Shape
  <2>4. Shape(p)'
    BY <1>1, <1>2, <1>5, <2>3
       DEF CheckAddress, AddressFree, AddressTaken, TypeOK, Shape, Goto, Fail, Sub
  <2> QED
    BY <1>1, <1>2, <1>5, <2>2, <2>4, SessionType
       DEF CheckAddress, AddressFree, AddressTaken, TypeOK, Goto, Fail
<1>6. CASE PutAddress(p)
  <2>1. cur[p] \in Addr
    BY <1>2, <1>6 DEF PutAddress, Shape
  <2>2. TypeOK' /\ pc'[p] \in Session
    BY <1>2, <1>3, <1>6, <2>1 DEF PutAddress, TypeOK, Goto, Steps, Session, Key
  <2>3. Shape(p)'
    BY <1>1, <1>2, <1>6 DEF PutAddress, TypeOK, Shape, Goto
  <2> QED
    BY <1>1, <1>2, <1>6, <2>2, <2>3, SessionType DEF PutAddress, TypeOK, Goto
<1> QED
  BY <1>4, <1>5, <1>6

LEMMA ReleaseType ==
    ASSUME TypeInv, NEW p \in Procs, Release(p) \/ ReleaseByID(p)
    PROVE  TypeInv'
<1>1. pc[p] \in Session /\ pc[p] = "release"
  BY DEF Release, ReleaseByID, Session, Steps
<1>2. TypeOK /\ Shape(p)
  BY DEF TypeInv
<1>3. /\ fam[p] \in Fam
      /\ conf[p].address[fam[p]] \in Addr \cup {None}
  BY <1>1, RunFacts
<1>4. UNCHANGED <<lock, last, conf, cur, start, granted>>
  BY DEF Release, ReleaseByID
<1>5. /\ \/ UNCHANGED <<db, ip>>
         \/ \E a \in Addr : Delete(p, a)
      /\ ThenUpdate(p) \/ (Fail(p, "absent") /\ UNCHANGED fam)
  BY <1>3 DEF Release, ReleaseByID
<1>6. TypeOK' /\ pc'[p] \in Session
  <2>1. db' \in [Key -> Value \cup {Free}] /\ ip' \in [Procs -> [Fam -> Addr \cup {None}]]
    <3>1. CASE UNCHANGED <<db, ip>>
      BY <1>2, <3>1 DEF TypeOK
    <3>2. ASSUME NEW a \in Addr, Delete(p, a)
          PROVE  db' \in [Key -> Value \cup {Free}] /\ ip' \in [Procs -> [Fam -> Addr \cup {None}]]
      BY <1>2, <3>2 DEF TypeOK, Delete
    <3> QED
      BY <1>5, <3>1, <3>2
  <2>2. /\ pc' \in [Procs -> Steps] /\ fam' \in [Procs -> Fam]
        /\ res' \in [Procs -> Results] /\ pc'[p] \in Session
    BY <1>1, <1>2, <1>5
       DEF TypeOK, ThenUpdate, Goto, Fail, Fam, Steps, Session, Results
  <2> QED
    BY <1>2, <1>4, <2>1, <2>2 DEF TypeOK
<1>7. Shape(p)'
  BY <1>1, <1>2, <1>4, <1>5 DEF TypeOK, Shape, ThenUpdate, Goto, Fail
<1> QED
  BY <1>1, <1>2, <1>4, <1>5, <1>6, <1>7, SessionType DEF TypeOK, ThenUpdate, Goto, Fail

LEMMA AfterUpdateCases ==
    ASSUME TypeInv, NEW p \in Procs, pc[p] = "update", AfterUpdate(p)
    PROVE  \/ /\ fam[p] = 4 /\ conf[p].cmd = "ADD" /\ HasIP(conf[p], 6)
              /\ fam' = [fam EXCEPT ![p] = 6] /\ Goto(p, "gateway")
              /\ UNCHANGED res
           \/ /\ fam[p] = 4 /\ conf[p].cmd = "DEL"
              /\ fam' = [fam EXCEPT ![p] = 6] /\ UNCHANGED <<pc, res>>
           \/ /\ fam[p] = 6 /\ conf[p].cmd = "DEL"
              /\ Goto(p, "close") /\ res' = [res EXCEPT ![p] = "ok"]
              /\ UNCHANGED fam
           \/ /\ conf[p].cmd = "ADD"
              /\ fam[p] = 6 \/ ~HasIP(conf[p], 6)
              /\ Goto(p, "print") /\ UNCHANGED <<fam, res>>
<1>1. conf[p].cmd \in {"ADD", "DEL"} /\ fam[p] \in {4, 6}
  BY RunFacts DEF Fam
<1> QED
  BY <1>1 DEF AfterUpdate

LEMMA UpdateType ==
    ASSUME TypeInv, NEW p \in Procs, Update(p) \/ UpdateFails(p)
    PROVE  TypeInv'
<1>1. pc[p] \in Session /\ pc[p] = "update"
  BY DEF Update, UpdateFails, Session, Steps
<1>2. TypeOK /\ Shape(p) /\ fam[p] \in Fam
  BY DEF TypeInv, TypeOK
<1>3. UNCHANGED <<lock, db, conf, cur, start, ip, granted>> /\ AfterUpdate(p)
  BY DEF Update, UpdateFails
<1>4. last' \in [Fam -> Addr \cup {None}]
  BY <1>2 DEF Update, UpdateFails, TypeOK
<1>5. TypeOK' /\ pc'[p] \in Session
  BY <1>1, <1>2, <1>3, <1>4, AfterUpdateCases
     DEF TypeOK, Goto, Fam, Steps, Session, Results
<1>6. Shape(p)'
  BY <1>1, <1>2, <1>3, AfterUpdateCases DEF TypeOK, Shape, Goto
<1> QED
  BY <1>1, <1>2, <1>3, <1>5, <1>6, AfterUpdateCases, SessionType DEF TypeOK, Goto

LEMMA PrintResultType ==
    ASSUME TypeInv, NEW p \in Procs, PrintResult(p)
    PROVE  TypeInv'
<1>1. pc[p] \in Session /\ pc[p] # "idle"
  BY DEF PrintResult, Session, Steps
<1>2. TypeOK /\ Shape(p)
  BY DEF TypeInv
<1>3. Grants(conf[p], ip[p]) \subseteq Grant
  <2>1. conf[p].id \in Ids \cup {NoId}
    BY <1>1, RunFacts
  <2>2. {<<f, ip[p][f]>> : f \in {g \in Fam : ip[p][g] # None}} \subseteq Key
    BY <1>2 DEF TypeOK, Key
  <2> QED
    BY <2>1, <2>2 DEF Grants, Grant
<1>4. TypeOK' /\ pc'[p] \in Session
  BY <1>2, <1>3 DEF PrintResult, TypeOK, Goto, Steps, Session, Results
<1>5. Shape(p)'
  BY <1>2 DEF PrintResult, TypeOK, Shape, Goto
<1> QED
  BY <1>1, <1>2, <1>4, <1>5, SessionType DEF PrintResult, TypeOK, Goto

LEMMA StoreFailsType ==
    ASSUME TypeInv, NEW p \in Procs, StoreFails(p)
    PROVE  TypeInv'
<1>1. pc[p] \in Session /\ TypeOK /\ Shape(p)
  BY DEF StoreFails, TypeInv
<1>2. TypeOK' /\ pc'[p] \in Session
  BY <1>1 DEF StoreFails, TypeOK, Goto, Fail, Steps, Session, Results
<1>3. Shape(p)'
  BY <1>1 DEF StoreFails, TypeOK, Shape, Goto, Fail, Session
<1> QED
  BY <1>1, <1>2, <1>3, SessionType DEF StoreFails, TypeOK, Goto, Fail

(* A process that ends gives up the lock exactly when it holds it.         *)
LEMMA EndType ==
    ASSUME TypeInv, NEW p \in Procs, OpenTimeout(p) \/ Close(p) \/ Crash(p)
    PROVE  TypeInv'
<1>1. Gone(p) /\ UNCHANGED <<db, last, granted>>
  BY DEF OpenTimeout, Close, Crash
<1>2. \/ lock' = lock /\ lock # p
      \/ lock' = None /\ lock = p
  BY DEF OpenTimeout, Close, Crash, TypeInv, Exclusion, Session, Steps
<1> QED
  BY <1>1, <1>2, GoneType

THEOREM TypeInvNext == TypeInv /\ [Next]_vars => TypeInv'
<1> SUFFICES ASSUME TypeInv, [Next]_vars PROVE TypeInv'
  OBVIOUS
<1>1. ASSUME NEW p \in Procs, Invoke(p) PROVE TypeInv'
  BY <1>1, InvokeType
<1>2. ASSUME NEW p \in Procs, Progress(p) PROVE TypeInv'
  BY <1>2, OpenType, EndType, GatewayStepType, AddressStepType, ReleaseType,
     UpdateType, PrintResultType DEF Progress
<1>3. ASSUME NEW p \in Procs, Fault(p) PROVE TypeInv'
  BY <1>3, UpdateType, StoreFailsType, EndType DEF Fault
<1>4. CASE UNCHANGED vars
  BY <1>4 DEF vars, TypeInv, TypeOK, Shape, Exclusion, Sub
<1> QED
  BY <1>1, <1>2, <1>3, <1>4 DEF Next

(* Every state of the plugin has the types of TypeOK.                      *)
THEOREM TypeCorrect == Spec => []TypeOK
<1>1. Init => TypeInv
  BY TypeInvInit
<1>2. TypeInv /\ [Next]_vars => TypeInv'
  BY TypeInvNext
<1>3. TypeInv => TypeOK
  BY DEF TypeInv
<1> QED
  BY <1>1, <1>2, <1>3, PTL DEF Spec

-----------------------------------------------------------------------------
(* What the reads of Assign have established still holds when it writes,   *)
(* and therefore ids are unique and no key is overwritten.                 *)

Step(p) == Invoke(p) \/ Progress(p) \/ Fault(p)

(* A step touches the variables of one process only.                       *)
LEMMA OneProcess ==
    ASSUME TypeInv, NEW p \in Procs, Step(p), NEW q \in Procs, q # p
    PROVE  /\ pc'[q] = pc[q] /\ conf'[q] = conf[q]
           /\ fam'[q] = fam[q] /\ cur'[q] = cur[q] /\ ip'[q] = ip[q]
<1>1. TypeOK
  BY DEF TypeInv
<1>2. CASE Invoke(p)
  BY <1>1, <1>2 DEF TypeOK, Invoke, Goto
<1>3. CASE Open(p)
  BY <1>1, <1>3 DEF TypeOK, Open, Goto
<1>4. CASE Gone(p)
  BY <1>1, <1>4 DEF TypeOK, Gone, Goto
<1>5. CASE VerifyGateway(p) \/ CheckGateway(p) \/ PutGateway(p)
  BY <1>1, <1>5 DEF TypeOK, VerifyGateway, CheckGateway, PutGateway, Goto, Fail
<1>6. CASE Pick(p) \/ CheckAddress(p) \/ PutAddress(p)
  BY <1>1, <1>6
     DEF TypeOK, Pick, CheckAddress, AddressFree, AddressTaken, PutAddress, Goto, Fail
<1>7. CASE Release(p) \/ ReleaseByID(p)
  BY <1>1, <1>7 DEF TypeOK, Release, ReleaseByID, Delete, ThenUpdate, Goto, Fail
<1>8. CASE Update(p) \/ UpdateFails(p)
  <2>1. AfterUpdate(p) /\ pc[p] = "update" /\ UNCHANGED <<conf, cur, ip>>
    BY <1>8 DEF Update, UpdateFails
  <2> QED
    BY <1>1, <2>1, AfterUpdateCases DEF TypeOK, Goto
<1>9. CASE PrintResult(p) \/ StoreFails(p)
  BY <1>1, <1>9 DEF TypeOK, PrintResult, StoreFails, Goto, Fail
<1> QED
  BY <1>2, <1>3, <1>4, <1>5, <1>6, <1>7, <1>8, <1>9
     DEF Step, Progress, Fault, OpenTimeout, Close, Crash

(* The store changes in two kinds of Put and one kind of Delete.           *)
LEMMA StoreChange ==
    ASSUME TypeInv, NEW p \in Procs, Step(p)
    PROVE  \/ UNCHANGED db
           \/ PutGateway(p)
           \/ PutAddress(p)
           \/ /\ pc[p] = "release"
              /\ \E a \in Addr : db' = [db EXCEPT ![<<fam[p], a>>] = Free]
<1>1. CASE Release(p) \/ ReleaseByID(p)
  <2>1. pc[p] = "release" /\ pc[p] # "idle"
    BY <1>1 DEF Release, ReleaseByID
  <2>2. conf[p].address[fam[p]] \in Addr \cup {None}
    BY <2>1, RunFacts
  <2> QED
    BY <1>1, <2>1, <2>2 DEF Release, ReleaseByID, Delete
<1> QED
  BY <1>1 DEF Step, Invoke, Progress, Fault, Open, OpenTimeout, Close, VerifyGateway,
     CheckGateway, Pick, CheckAddress, Update, PrintResult, UpdateFails,
     StoreFails, Crash

(* Only CheckGateway and CheckAddress lead to a Put.                       *)
LEMMA BeforePut ==
    ASSUME TypeInv, NEW p \in Procs, Step(p), pc'[p] \in {"gwPut", "put"}
    PROVE  \/ pc'[p] = "gwPut" /\ CheckGateway(p)
           \/ pc'[p] = "put" /\ CheckAddress(p)
<1>1. TypeOK
  BY DEF TypeInv
<1>2. ~Invoke(p) /\ ~Open(p) /\ ~Gone(p)
  BY <1>1 DEF TypeOK, Invoke, Open, Gone, Goto
<1>3. ~VerifyGateway(p) /\ ~PutGateway(p)
  BY <1>1 DEF TypeOK, VerifyGateway, PutGateway, Goto, Fail
<1>4. ~Pick(p) /\ ~PutAddress(p)
  BY <1>1 DEF TypeOK, Pick, PutAddress, Goto, Fail
<1>5. ~Release(p) /\ ~ReleaseByID(p)
  BY <1>1 DEF TypeOK, Release, ReleaseByID, ThenUpdate, Goto, Fail
<1>6. ~Update(p) /\ ~UpdateFails(p)
  <2>1. SUFFICES ASSUME AfterUpdate(p), pc[p] = "update" PROVE FALSE
    BY DEF Update, UpdateFails
  <2> QED
    BY <1>1, <2>1, AfterUpdateCases DEF TypeOK, Goto
<1>7. ~PrintResult(p) /\ ~StoreFails(p)
  BY <1>1 DEF TypeOK, PrintResult, StoreFails, Goto, Fail
<1>8. CheckGateway(p) => pc'[p] # "put"
  BY <1>1 DEF TypeOK, CheckGateway, Goto, Fail
<1>9. CheckAddress(p) => pc'[p] # "gwPut"
  BY <1>1 DEF TypeOK, CheckAddress, AddressFree, AddressTaken, Goto, Fail
<1> QED
  BY <1>2, <1>3, <1>4, <1>5, <1>6, <1>7, <1>8, <1>9
     DEF Step, Progress, Fault, OpenTimeout, Close, Crash

LEMMA PendingNext ==
    ASSUME TypeInv, NEW p \in Procs, Step(p), NEW q \in Procs, Pending(q)
    PROVE  Pending(q)'
<1>1. SUFFICES ASSUME pc'[q] \in {"gwPut", "put"} PROVE Pending(q)'
  BY DEF Pending
<1>2. CASE q = p
  <2>1. CASE pc'[q] = "gwPut" /\ CheckGateway(p)
    BY <1>2, <2>1
       DEF TypeInv, TypeOK, CheckGateway, Goto, Fail, Pending, CurKey, UniqueID
  <2>2. CASE pc'[q] = "put" /\ CheckAddress(p)
    <3>1. AddressFree(p) /\ UNCHANGED <<db, conf, fam>>
      BY <1>2, <2>2 DEF CheckAddress, AddressTaken, Goto, Fail, TypeInv, TypeOK
    <3>2. /\ db[CurKey(p)] = Free
          /\ Wanted(p) = Empty \/ UniqueID(ScannedFam(p), Wanted(p))
          /\ UNCHANGED cur
      BY <1>2, <2>2, <3>1 DEF AddressFree, Goto, Fail, TypeInv, TypeOK
    <3> QED
      BY <1>2, <2>2, <3>1, <3>2
         DEF Pending, CurKey, Wanted, ScannedFam, Explicit, UniqueID
  <2> QED
    BY <1>1, <1>2, <2>1, <2>2, BeforePut
<1>3. CASE q # p
  <2>1. /\ pc'[q] = pc[q] /\ conf'[q] = conf[q]
        /\ fam'[q] = fam[q] /\ cur'[q] = cur[q]
    BY <1>3, OneProcess
  <2>2. UNCHANGED db
    <3>1. lock = q
      BY <1>1, <2>1 DEF TypeInv, Exclusion, Session, Steps
    <3>2. pc[p] \notin Session
      BY <1>3, <3>1 DEF TypeInv, Exclusion
    <3>3. pc[p] \notin {"gwPut", "put", "release"}
      BY <3>2 DEF Session, Steps
    <3>4. ~PutGateway(p) /\ ~PutAddress(p)
      BY <3>3 DEF PutGateway, PutAddress
    <3> QED
      BY <3>3, <3>4, StoreChange
  <2> QED
    BY <2>1, <2>2 DEF Pending, CurKey, Wanted, ScannedFam, Explicit, UniqueID
<1> QED
  BY <1>2, <1>3

(* The two values of Put that IdsUnique speaks of are new in their family. *)
LEMMA PutUnique ==
    ASSUME TypeOK, IdsUnique, NEW f \in Fam, NEW c \in Addr, NEW v \in Value,
           db' = [db EXCEPT ![<<f, c>>] = v],
           \/ v = Empty
           \/ UniqueID(f, v)
           \/ f = 6 /\ v \notin {OwnValue(id) : id \in Ids}
    PROVE  IdsUnique'
<1> SUFFICES ASSUME NEW g \in Fam, NEW a \in Addr, NEW b \in Addr,
                    db'[<<g, a>>] = db'[<<g, b>>],
                    db'[<<g, a>>] \notin {Free, Empty},
                    g = 4 \/ db'[<<g, a>>] \in {OwnValue(id) : id \in Ids}
             PROVE  a = b
  BY DEF IdsUnique, Empty, OwnValue
<1>1. \A x \in Addr : db'[<<g, x>>] = IF g = f /\ x = c THEN v ELSE db[<<g, x>>]
  BY DEF TypeOK, Key
<1>2. CASE g = f /\ (a = c \/ b = c)
  BY <1>1, <1>2 DEF UniqueID, Fam
<1>3. CASE ~(g = f /\ (a = c \/ b = c))
  <2>1. db'[<<g, a>>] = db[<<g, a>>] /\ db'[<<g, b>>] = db[<<g, b>>]
    BY <1>1, <1>3
  <2> QED
    BY <2>1 DEF IdsUnique
<1> QED
  BY <1>2, <1>3

LEMMA IdsUniqueNext ==
    ASSUME TypeInv, NEW p \in Procs, Step(p), Pending(p), IdsUnique
    PROVE  IdsUnique'
<1>1. TypeOK
  BY DEF TypeInv
<1>2. CASE UNCHANGED db
  BY <1>2 DEF IdsUnique
<1>3. CASE PutGateway(p)
  <2>1. pc[p] = "gwPut" /\ UniqueID(4, GatewayValue(fam[p]))
        /\ db' = [db EXCEPT ![<<fam[p], cur[p]>>] = GatewayValue(fam[p])]
    BY <1>3 DEF PutGateway, Pending, CurKey
  <2>2. /\ fam[p] \in Fam /\ GatewayValue(fam[p]) \in Value
        /\ cur[p] \in Addr
    BY <2>1, RunFacts, FamFacts DEF TypeInv, Shape
  <2>3. \A id \in Ids : GatewayValue(6) # OwnValue(id)
    BY IdAssumption DEF GatewayValue, OwnValue
  <2>4. \/ UniqueID(fam[p], GatewayValue(fam[p]))
        \/ fam[p] = 6 /\ GatewayValue(fam[p]) \notin {OwnValue(id) : id \in Ids}
    <3>1. CASE fam[p] = 4
      BY <2>1, <3>1 DEF UniqueID
    <3>2. CASE fam[p] = 6
      BY <2>3, <3>2
    <3> QED
      BY <2>2, <3>1, <3>2 DEF Fam
  <2> QED
    BY <1>1, <2>1, <2>2, <2>4, PutUnique
<1>4. CASE PutAddress(p)
  <2>1. /\ pc[p] = "put"
        /\ Wanted(p) = Empty \/ UniqueID(ScannedFam(p), Wanted(p))
        /\ db' = [db EXCEPT ![<<fam[p], cur[p]>>] = Wanted(p)]
    BY <1>4 DEF PutAddress, Pending, CurKey
  <2>2. fam[p] \in Fam /\ Wanted(p) \in Value /\ cur[p] \in Addr
    BY <2>1, RunFacts DEF TypeInv, Shape
  <2>3. \/ ScannedFam(p) = fam[p]
        \/ fam[p] = 6 /\ Wanted(p) \notin {OwnValue(id) : id \in Ids}
    BY <2>2 DEF ScannedFam, Wanted, ExplicitValue, OwnValue, Fam
  <2>4. \/ Wanted(p) = Empty
        \/ UniqueID(fam[p], Wanted(p))
        \/ fam[p] = 6 /\ Wanted(p) \notin {OwnValue(id) : id \in Ids}
    BY <2>1, <2>3
  <2> QED
    BY <1>1, <2>1, <2>2, <2>4, PutUnique
<1>5. ASSUME NEW a \in Addr, db' = [db EXCEPT ![<<fam[p], a>>] = Free]
      PROVE  IdsUnique'
  BY <1>1, <1>5 DEF IdsUnique, TypeOK, Key, Fam
<1> QED
  BY <1>2, <1>3, <1>4, <1>5, StoreChange

THEOREM StoreInvNext == StoreInv /\ [Next]_vars => StoreInv'
<1> SUFFICES ASSUME StoreInv, [Next]_vars PROVE StoreInv'
  OBVIOUS
<1>1. TypeInv'
  BY TypeInvNext DEF StoreInv
<1>2. ASSUME NEW p \in Procs, Step(p)
      PROVE  IdsUnique' /\ \A q \in Procs : Pending(q)'
  BY <1>2, IdsUniqueNext, PendingNext DEF StoreInv
<1>3. CASE UNCHANGED vars
  <2>1. IdsUnique'
    BY <1>3 DEF vars, StoreInv, IdsUnique
  <2>2. ASSUME NEW q \in Procs PROVE Pending(q)'
    <3>1. Pending(q) /\ UNCHANGED <<db, pc, fam, cur, conf>>
      BY <1>3 DEF vars, StoreInv
    <3> QED
      BY <3>1 DEF Pending, CurKey, Wanted, ScannedFam, Explicit, UniqueID
  <2> QED
    BY <1>1, <2>1, <2>2 DEF StoreInv
<1> QED
  BY <1>1, <1>2, <1>3 DEF StoreInv, Next, Step

LEMMA StoreInvAlways == Spec => []StoreInv
<1>1. Init => StoreInv
  <2>1. Init => IdsUnique
    BY DEF Init, IdsUnique, Key
  <2>2. Init => \A p \in Procs : Pending(p)
    BY DEF Init, Pending
  <2> QED
    BY <2>1, <2>2, TypeInvInit DEF StoreInv
<1> QED
  BY <1>1, StoreInvNext, PTL DEF Spec

(* In IPv4 an id is never stored under two addresses, in IPv6 the id of a  *)
(* container is not, whatever commands run, fail or die, and in any order. *)
THEOREM IdsAlwaysUnique == Spec => []IdsUnique
  BY StoreInvAlways, PTL DEF StoreInv

(* No key is overwritten: only a DEL that holds the lock frees it.         *)
THEOREM KeysFollowLifecycle == Spec => KeyLifecycle
<1> DEFINE Lifecycle ==
      \A k \in Key : db[k] # Free /\ db'[k] # db[k] =>
          /\ db'[k] = Free
          /\ \E p \in Procs : lock = p /\ conf[p].cmd = "DEL"
<1>1. StoreInv /\ [Next]_vars => [Lifecycle]_vars
  <2> SUFFICES ASSUME StoreInv, NEW p \in Procs, Step(p) PROVE Lifecycle
    BY DEF Next, Step
  <2>1. TypeInv /\ TypeOK /\ Pending(p) /\ Shape(p) /\ Exclusion(p)
    BY DEF StoreInv, TypeInv
  <2>2. CASE UNCHANGED db
    BY <2>2
  <2>3. CASE PutGateway(p) \/ PutAddress(p)
    BY <2>1, <2>3 DEF PutGateway, PutAddress, Pending, TypeOK
  <2>4. ASSUME NEW a \in Addr, db' = [db EXCEPT ![<<fam[p], a>>] = Free],
               pc[p] = "release"
        PROVE  Lifecycle
    BY <2>1, <2>4 DEF TypeOK, Shape, Exclusion, Session, Steps
  <2>5. \/ UNCHANGED db
        \/ PutGateway(p) \/ PutAddress(p)
        \/ /\ pc[p] = "release"
           /\ \E a \in Addr : db' = [db EXCEPT ![<<fam[p], a>>] = Free]
    BY <2>1, StoreChange
  <2> QED
    BY <2>2, <2>3, <2>4, <2>5
<1> QED
  BY <1>1, StoreInvAlways, PTL DEF Spec, KeyLifecycle
=============================================================================
