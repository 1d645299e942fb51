---------------------------- MODULE LedgerProofs ----------------------------
(***************************************************************************)
(* The plugin implements AddressLedger, for all values of the constants    *)
(* with which the runtime does not repeat a DEL that names addresses.      *)
(***************************************************************************)
EXTENDS IPAMProofs

(* The ids under which the address of a container can be stored.           *)
OwnedBy(f, id) == {OwnValue(id), ExplicitValue(f, id)}

Running(p) == pc[p] # "idle"

(* The addresses that containers use are stored under their ids.           *)
Recorded == \A g \in granted : db[g.key] \in OwnedBy(g.key[1], g.id)

OneEach ==
    \A p, q \in Procs :
        p # q /\ Running(p) /\ Running(q) /\ conf[p].id # NoId
            => conf[p].id # conf[q].id

(* What an ADD has assigned is stored under its id until it closes.        *)
ResultHeld(p) ==
    /\ pc[p] \notin Session => ip[p] = NoAddrs
    /\ Running(p) /\ conf[p].cmd = "ADD" =>
         \A f \in Fam : ip[p][f] # None =>
             db[<<f, ip[p][f]>>] \in OwnedBy(f, conf[p].id)

(* A DEL that goes by id belongs to a container without addresses in use.  *)
ByIdHarmless(p) ==
    Running(p) /\ conf[p].cmd = "DEL" /\ ~HasAddress(conf[p]) =>
        /\ conf[p].id # NoId
        /\ \A g \in granted : g.id # conf[p].id

(* An address that a DEL names and has not released yet is stored under    *)
(* the id of the DEL, nobody uses it and nobody is about to.               *)
ToRelease(p, f) ==
    /\ pc[p] \in {"open", "release"}
    /\ conf[p].cmd = "DEL"
    /\ conf[p].address[f] # None
    /\ pc[p] = "open" \/ fam[p] = 4 \/ f = 6

ByNameHarmless(p) ==
    \A f \in Fam : ToRelease(p, f) =>
        /\ db[<<f, conf[p].address[f]>>] \in OwnedBy(f, conf[p].id)
        /\ \A g \in granted : g.key # <<f, conf[p].address[f]>>
        /\ \A q \in Procs \ {p} : Running(q) =>
             /\ conf[q].cmd = "ADD" => ip[q][f] # conf[p].address[f]
             /\ conf[q].cmd = "DEL" => conf[q].address[f] # conf[p].address[f]

GrantInv ==
    /\ StoreInv
    /\ Recorded
    /\ OneEach
    /\ \A p \in Procs : ResultHeld(p) /\ ByIdHarmless(p) /\ ByNameHarmless(p)

-----------------------------------------------------------------------------
(* The kinds of step the proof tells apart.                                *)

Deletes(p, a) ==
    /\ pc[p] = "release"
    /\ UNCHANGED granted
    /\ db' = [db EXCEPT ![<<fam[p], a>>] = Free]
    /\ ip' = [ip EXCEPT ![p][fam[p]] = a]
    /\ \/ HasAddress(conf[p]) /\ a = conf[p].address[fam[p]]
       \/ ~HasAddress(conf[p]) /\ db[<<fam[p], a>>] = OwnValue(conf[p].id)

GoesOn(p) ==
    /\ UNCHANGED conf
    /\ pc[p] \in Session \cup {"open"}
    /\ pc'[p] \in Session
    /\ pc'[p] = "release" =>
         \/ pc[p] = "open"
         \/ pc[p] = "release" /\ fam[p] = 4 /\ fam'[p] = 6

LEMMA GoesOnFacts ==
    ASSUME TypeInv, NEW p \in Procs, Step(p),
           ~Invoke(p), ~OpenTimeout(p), ~Close(p), ~Crash(p)
    PROVE  GoesOn(p)
<1>1. TypeOK /\ Shape(p)
  BY DEF TypeInv
<1>2. CASE Open(p)
  BY <1>1, <1>2 DEF GoesOn, TypeOK, Open, Goto, Session, Steps
<1>3. CASE VerifyGateway(p) \/ CheckGateway(p) \/ PutGateway(p)
  BY <1>1, <1>3
     DEF GoesOn, TypeOK, VerifyGateway, CheckGateway, PutGateway, Goto, Fail, Session, Steps
<1>4. CASE Pick(p) \/ PutAddress(p)
  BY <1>1, <1>4 DEF GoesOn, TypeOK, Pick, PutAddress, Goto, Fail, Session, Steps
<1>5. CASE CheckAddress(p)
  BY <1>1, <1>5
     DEF GoesOn, TypeOK, CheckAddress, AddressFree, AddressTaken, Goto, Fail, Session, Steps
<1>6. CASE Release(p) \/ ReleaseByID(p)
  <2>1. ThenUpdate(p) \/ Fail(p, "absent")
    BY <1>6 DEF Release, ReleaseByID
  <2>2. pc[p] = "release" /\ UNCHANGED conf
    BY <1>6 DEF Release, ReleaseByID
  <2> QED
    BY <1>1, <2>1, <2>2 DEF GoesOn, TypeOK, ThenUpdate, Goto, Fail, Session, Steps
<1>7. CASE Update(p) \/ UpdateFails(p)
  <2>1. AfterUpdate(p) /\ pc[p] = "update" /\ UNCHANGED conf
    BY <1>7 DEF Update, UpdateFails
  <2> QED
    BY <1>1, <2>1, AfterUpdateCases DEF GoesOn, TypeOK, Goto, Session, Steps
<1>8. CASE PrintResult(p) \/ StoreFails(p)
  BY <1>1, <1>8
     DEF GoesOn, TypeOK, PrintResult, StoreFails, Goto, Fail, Session, Steps
<1> QED
  BY <1>2, <1>3, <1>4, <1>5, <1>6, <1>7, <1>8
     DEF Step, Progress, Fault

LEMMA StepKinds ==
    ASSUME TypeInv, NEW p \in Procs, Step(p)
    PROVE  \/ Invoke(p)
           \/ Gone(p) /\ UNCHANGED <<db, granted>>
           \/ /\ GoesOn(p)
              /\ \/ UNCHANGED <<db, granted, ip>>
                 \/ PutGateway(p)
                 \/ PutAddress(p)
                 \/ PrintResult(p)
                 \/ \E a \in Addr : Deletes(p, a)
<1>1. CASE Invoke(p)
  BY <1>1
<1>2. CASE OpenTimeout(p) \/ Close(p) \/ Crash(p)
  BY <1>2 DEF OpenTimeout, Close, Crash
<1>3. CASE ~Invoke(p) /\ ~OpenTimeout(p) /\ ~Close(p) /\ ~Crash(p)
  <2>1. GoesOn(p)
    BY <1>3, GoesOnFacts
  <2>2. CASE Release(p) \/ ReleaseByID(p)
    <3>1. pc[p] # "idle"
      BY <2>2 DEF Release, ReleaseByID
    <3>2. conf[p].address[fam[p]] \in Addr \cup {None}
      BY <3>1, RunFacts
    <3>3. UNCHANGED <<db, granted, ip>> \/ \E a \in Addr : Deletes(p, a)
      BY <2>2, <3>2 DEF Release, ReleaseByID, Delete, Deletes
    <3> QED
      BY <2>1, <3>3
  <2>3. CASE ~Release(p) /\ ~ReleaseByID(p)
    BY <1>3, <2>1, <2>3
       DEF Step, Progress, Fault, Open, VerifyGateway, CheckGateway, Pick,
           CheckAddress, Update, UpdateFails, StoreFails
  <2> QED
    BY <2>2, <2>3
<1> QED
  BY <1>1, <1>2, <1>3

-----------------------------------------------------------------------------
(* GrantInv is inductive: one lemma per kind of step.                      *)

(* Ids, the values they are stored as, and the sentinel.                   *)
LEMMA OwnedFacts ==
    ASSUME NEW f \in Fam, NEW id \in Ids \cup {NoId}
    PROVE  /\ OwnedBy(f, id) \subseteq Value
           /\ Free \notin OwnedBy(f, id)
           /\ \A v \in OwnedBy(f, id) : v[1] = id
           /\ OwnValue(id)[1] = id
<1>1. OwnedBy(f, id) \subseteq Value
  <2>1. OwnValue(id) \in Value
    BY DEF Value
  <2>2. ExplicitValue(f, id) \in Value
    BY DEF Value
  <2> QED
    BY <2>1, <2>2 DEF OwnedBy
<1>2. \A v \in OwnedBy(f, id) : v[1] = id
  <2>1. OwnValue(id)[1] = id
    BY DEF OwnValue
  <2>2. ExplicitValue(f, id)[1] = id
    BY DEF ExplicitValue
  <2> QED
    BY <2>1, <2>2 DEF OwnedBy
<1> QED
  BY <1>1, <1>2, FreeAssumption DEF OwnValue

LEMMA GrantFacts ==
    ASSUME TypeInv, NEW g \in granted
    PROVE  /\ g.id \in Ids \cup {NoId} /\ g.key \in Key
           /\ g.key[1] \in Fam /\ g.key[2] \in Addr
           /\ g.key = <<g.key[1], g.key[2]>>
  BY DEF TypeInv, TypeOK, Grant, Key

(* A step that changes neither the store nor what is granted.              *)
LEMMA QuietStep ==
    ASSUME GrantInv, NEW p \in Procs, Step(p),
           GoesOn(p) \/ Gone(p), UNCHANGED <<db, granted>>,
           GoesOn(p) => UNCHANGED ip
    PROVE  /\ Recorded' /\ OneEach'
           /\ \A q \in Procs :
                 ResultHeld(q)' /\ ByIdHarmless(q)' /\ ByNameHarmless(q)'
<1> USE DEF GrantInv, StoreInv
<1>1. TypeInv /\ TypeOK
  BY DEF TypeInv
<1>2. ASSUME NEW q \in Procs, Running(q)'
      PROVE  /\ Running(q) /\ conf'[q] = conf[q] /\ ip'[q] = ip[q]
             /\ pc'[q] \in Session <=> (pc[q] \in Session \/ (q = p /\ GoesOn(p)))
             /\ \A f \in Fam : ToRelease(q, f)' => ToRelease(q, f)
  <2>1. CASE q = p
    <3>1. GoesOn(p)
      BY <1>1, <1>2, <2>1 DEF Running, Gone, Goto, TypeOK
    <3> QED
      BY <2>1, <3>1 DEF Running, GoesOn, ToRelease, Session, Steps, Fam
  <2>2. CASE q # p
    BY <1>1, <1>2, <2>2, OneProcess DEF Running, ToRelease
  <2> QED
    BY <2>1, <2>2
<1>3. Recorded'
  BY DEF Recorded
<1>4. OneEach'
  BY <1>2 DEF OneEach
<1>5. ASSUME NEW q \in Procs PROVE ResultHeld(q)'
  <2>1. CASE Running(q)'
    BY <1>1, <1>2, <2>1 DEF ResultHeld, GoesOn, Running, Session
  <2>2. CASE ~Running(q)'
    <3>1. CASE q = p
      BY <1>1, <2>2, <3>1 DEF ResultHeld, Running, Gone, GoesOn, Session, Steps, TypeOK
    <3>2. CASE q # p
      BY <1>1, <2>2, <3>2, OneProcess DEF ResultHeld, Running
    <3> QED
      BY <3>1, <3>2
  <2> QED
    BY <2>1, <2>2
<1>6. ASSUME NEW q \in Procs PROVE ByIdHarmless(q)'
  BY <1>2 DEF ByIdHarmless
<1>7. ASSUME NEW q \in Procs PROVE ByNameHarmless(q)'
  <2> SUFFICES ASSUME NEW f \in Fam, ToRelease(q, f)'
               PROVE  /\ db'[<<f, conf'[q].address[f]>>] \in OwnedBy(f, conf'[q].id)
                      /\ \A g \in granted' : g.key # <<f, conf'[q].address[f]>>
                      /\ \A r \in Procs \ {q} : Running(r)' =>
                           /\ conf'[r].cmd = "ADD" => ip'[r][f] # conf'[q].address[f]
                           /\ conf'[r].cmd = "DEL" =>
                                conf'[r].address[f] # conf'[q].address[f]
    BY DEF ByNameHarmless
  <2>1. Running(q)'
    BY DEF ToRelease, Running
  <2>2. conf'[q] = conf[q] /\ ToRelease(q, f)
    BY <1>2, <2>1
  <2> QED
    BY <1>2, <2>2 DEF ByNameHarmless
<1> QED
  BY <1>3, <1>4, <1>5, <1>6, <1>7

(* An address that was free comes to be stored under some value.           *)
LEMMA PutStep ==
    ASSUME GrantInv, NEW p \in Procs, Step(p), GoesOn(p),
           PutGateway(p) \/ PutAddress(p)
    PROVE  /\ Recorded' /\ OneEach'
           /\ \A q \in Procs :
                 ResultHeld(q)' /\ ByIdHarmless(q)' /\ ByNameHarmless(q)'
<1> USE DEF GrantInv, StoreInv
<1>1. TypeInv /\ TypeOK /\ Shape(p) /\ Pending(p)
  BY DEF TypeInv
<1>2. /\ db[CurKey(p)] = Free
      /\ UNCHANGED <<conf, fam, granted>>
      /\ lock = p /\ conf[p].cmd = "ADD" /\ Running(p)
      /\ pc'[p] \in {"pick", "update"}
  BY <1>1 DEF PutGateway, PutAddress, Pending, Shape, TypeInv, Exclusion,
     Session, Steps, Running, Goto, TypeOK
<1>3. \A k \in Key : db[k] # Free => db'[k] = db[k]
  BY <1>1, <1>2 DEF PutGateway, PutAddress, TypeOK
<1>4. ASSUME NEW f \in Fam, NEW id \in Ids \cup {NoId}, NEW k \in Key,
             db[k] \in OwnedBy(f, id)
      PROVE  db'[k] = db[k] /\ k # CurKey(p)
  BY <1>2, <1>3, <1>4, OwnedFacts
<1>5. Recorded'
  <2> SUFFICES ASSUME NEW g \in granted PROVE db'[g.key] \in OwnedBy(g.key[1], g.id)
    BY <1>2 DEF Recorded
  <2>1. db[g.key] \in OwnedBy(g.key[1], g.id)
    BY DEF Recorded
  <2> QED
    BY <1>1, <1>4, <2>1, GrantFacts
<1>6. OneEach'
  BY <1>1, <1>2, OneProcess DEF OneEach, Running
<1>7. ASSUME NEW q \in Procs PROVE ResultHeld(q)'
  <2>1. CASE q # p
    <3>1. pc[q] \notin Session
      BY <1>1, <1>2, <2>1 DEF TypeInv, Exclusion
    <3>2. pc'[q] = pc[q] /\ ip'[q] = ip[q] /\ ip[q] = NoAddrs
      BY <1>1, <2>1, <3>1, OneProcess DEF ResultHeld
    <3> QED
      BY <3>2 DEF ResultHeld, NoAddrs
  <2>2. CASE q = p
    <3>1. ASSUME NEW f \in Fam, ip'[p][f] # None
          PROVE  db'[<<f, ip'[p][f]>>] \in OwnedBy(f, conf[p].id)
      <4>1. conf[p].id \in Ids \cup {NoId}
        BY <1>1, <1>2, RunFacts DEF Running
      <4>2. CASE PutAddress(p) /\ f = fam[p]
        <5>1. ip'[p][f] = cur[p] /\ cur[p] \in Addr
          BY <1>1, <4>2 DEF PutAddress, TypeOK, Shape
        <5>2. db'[<<f, cur[p]>>] = Wanted(p)
          BY <1>1, <4>2, <5>1 DEF PutAddress, CurKey, TypeOK, Key
        <5> QED
          BY <4>2, <5>1, <5>2 DEF Wanted, OwnedBy
      <4>3. CASE ~(PutAddress(p) /\ f = fam[p])
        <5>1. ip'[p][f] = ip[p][f] /\ ip[p][f] \in Addr
          BY <1>1, <3>1, <4>3 DEF PutGateway, PutAddress, TypeOK
        <5>2. db[<<f, ip[p][f]>>] \in OwnedBy(f, conf[p].id)
          BY <1>2, <3>1, <5>1 DEF ResultHeld
        <5> QED
          BY <1>4, <4>1, <5>1, <5>2 DEF Key
      <4> QED
        BY <4>2, <4>3
    <3> QED
      BY <1>2, <2>2, <3>1 DEF ResultHeld, Session, Steps
  <2> QED
    BY <2>1, <2>2
<1>8. ASSUME NEW q \in Procs PROVE ByIdHarmless(q)'
  <2>1. CASE q # p
    BY <1>1, <1>2, <2>1, OneProcess DEF ByIdHarmless, Running
  <2>2. CASE q = p
    BY <1>2, <2>2 DEF ByIdHarmless
  <2> QED
    BY <2>1, <2>2
<1>9. ASSUME NEW q \in Procs PROVE ByNameHarmless(q)'
  <2> SUFFICES ASSUME NEW f \in Fam, ToRelease(q, f)'
               PROVE  /\ db'[<<f, conf'[q].address[f]>>] \in OwnedBy(f, conf'[q].id)
                      /\ \A g \in granted' : g.key # <<f, conf'[q].address[f]>>
                      /\ \A r \in Procs \ {q} : Running(r)' =>
                           /\ conf'[r].cmd = "ADD" => ip'[r][f] # conf'[q].address[f]
                           /\ conf'[r].cmd = "DEL" =>
                                conf'[r].address[f] # conf'[q].address[f]
    BY DEF ByNameHarmless
  <2> DEFINE a == conf[q].address[f]
  <2>1. q # p /\ ToRelease(q, f) /\ Running(q)
    BY <1>1, <1>2, OneProcess DEF ToRelease, Running
  <2>2. /\ db[<<f, a>>] \in OwnedBy(f, conf[q].id)
        /\ \A g \in granted : g.key # <<f, a>>
        /\ \A r \in Procs \ {q} : Running(r) =>
             /\ conf[r].cmd = "ADD" => ip[r][f] # a
             /\ conf[r].cmd = "DEL" => conf[r].address[f] # a
    BY <2>1 DEF ByNameHarmless
  <2>3. conf[q].id \in Ids \cup {NoId} /\ a \in Addr
    BY <1>1, <2>1, RunFacts DEF Running, ToRelease
  <2>4. db'[<<f, a>>] = db[<<f, a>>] /\ <<f, a>> # CurKey(p)
    BY <1>4, <2>2, <2>3 DEF Key
  <2>5. ip'[p][f] # a
    <3>1. ip'[p][f] = ip[p][f] \/ (f = fam[p] /\ ip'[p][f] = cur[p])
      BY <1>1 DEF PutGateway, PutAddress, TypeOK
    <3>2. ip[p][f] # a
      BY <1>2, <2>1, <2>2
    <3> QED
      BY <2>4, <3>1, <3>2 DEF CurKey
  <2>6. \A r \in Procs \ {p} : (Running(r)' <=> Running(r)) /\ ip'[r] = ip[r]
    BY <1>1, OneProcess DEF Running
  <2> QED
    BY <1>2, <2>1, <2>2, <2>4, <2>5, <2>6
<1> QED
  BY <1>5, <1>6, <1>7, <1>8, <1>9

(* The key that a DEL deletes is not in use.                               *)
LEMMA DeletedUnused ==
    ASSUME GrantInv, NEW p \in Procs, NEW a \in Addr, Deletes(p, a)
    PROVE  /\ conf[p].cmd = "DEL" /\ Running(p) /\ fam[p] \in Fam
           /\ \A g \in granted : g.key # <<fam[p], a>>
<1> USE DEF GrantInv, StoreInv
<1>1. TypeInv /\ TypeOK /\ Shape(p) /\ pc[p] = "release" /\ Running(p)
  BY DEF TypeInv, Deletes, Running
<1>2. conf[p].cmd = "DEL" /\ fam[p] \in Fam
  BY <1>1 DEF Shape, TypeOK
<1>3. ASSUME HasAddress(conf[p]), a = conf[p].address[fam[p]]
      PROVE  \A g \in granted : g.key # <<fam[p], a>>
  <2>1. a # None
    BY AddrAssumption
  <2>2. ToRelease(p, fam[p])
    BY <1>1, <1>2, <1>3, <2>1 DEF ToRelease, Fam
  <2> QED
    BY <1>2, <1>3, <2>2 DEF ByNameHarmless
<1>4. ASSUME ~HasAddress(conf[p]), db[<<fam[p], a>>] = OwnValue(conf[p].id)
      PROVE  \A g \in granted : g.key # <<fam[p], a>>
  <2> SUFFICES ASSUME NEW g \in granted, g.key = <<fam[p], a>> PROVE FALSE
    OBVIOUS
  <2>1. g.key[1] \in Fam /\ g.id \in Ids \cup {NoId} /\ g.key[1] = fam[p]
    BY <1>1, GrantFacts
  <2>2. db[g.key] \in OwnedBy(g.key[1], g.id)
    BY DEF Recorded
  <2>3. OwnValue(conf[p].id)[1] = g.id
    BY <1>4, <2>1, <2>2, OwnedFacts
  <2>4. OwnValue(conf[p].id)[1] = conf[p].id
    BY DEF OwnValue
  <2> QED
    BY <1>1, <1>2, <1>4, <2>3, <2>4 DEF ByIdHarmless
<1> QED
  BY <1>1, <1>2, <1>3, <1>4 DEF Deletes

LEMMA DeleteStep ==
    ASSUME GrantInv, NEW p \in Procs, Step(p), GoesOn(p),
           NEW a \in Addr, Deletes(p, a)
    PROVE  /\ Recorded' /\ OneEach'
           /\ \A q \in Procs :
                 ResultHeld(q)' /\ ByIdHarmless(q)' /\ ByNameHarmless(q)'
<1> USE DEF GrantInv, StoreInv
<1>1. TypeInv /\ TypeOK
  BY DEF TypeInv
<1>2. /\ conf[p].cmd = "DEL" /\ Running(p) /\ fam[p] \in Fam
      /\ \A g \in granted : g.key # <<fam[p], a>>
      /\ UNCHANGED <<conf, granted>> /\ pc[p] = "release"
  BY DeletedUnused DEF Deletes, GoesOn
<1>3. lock = p
  BY <1>1, <1>2 DEF TypeInv, Exclusion, Session, Steps
<1>4. \A k \in Key : k # <<fam[p], a>> => db'[k] = db[k]
  BY <1>1 DEF Deletes, TypeOK
<1>5. Recorded'
  BY <1>1, <1>2, <1>4, GrantFacts DEF Recorded
<1>6. OneEach'
  BY <1>1, <1>2, OneProcess DEF OneEach, Running
<1>7. ASSUME NEW q \in Procs PROVE ResultHeld(q)'
  <2>1. CASE q # p
    <3>1. pc[q] \notin Session
      BY <1>1, <1>3, <2>1 DEF TypeInv, Exclusion
    <3>2. pc'[q] = pc[q] /\ ip'[q] = ip[q] /\ ip[q] = NoAddrs
      BY <1>1, <2>1, <3>1, OneProcess DEF ResultHeld
    <3> QED
      BY <3>2 DEF ResultHeld, NoAddrs
  <2>2. CASE q = p
    BY <1>2, <2>2 DEF ResultHeld, GoesOn
  <2> QED
    BY <2>1, <2>2
<1>8. ASSUME NEW q \in Procs PROVE ByIdHarmless(q)'
  <2>1. Running(q)' => Running(q)
    BY <1>1, <1>2, OneProcess DEF Running
  <2> QED
    BY <1>2, <2>1 DEF ByIdHarmless
<1>9. ASSUME NEW q \in Procs PROVE ByNameHarmless(q)'
  <2> SUFFICES ASSUME NEW f \in Fam, ToRelease(q, f)'
               PROVE  /\ db'[<<f, conf'[q].address[f]>>] \in OwnedBy(f, conf'[q].id)
                      /\ \A g \in granted' : g.key # <<f, conf'[q].address[f]>>
                      /\ \A r \in Procs \ {q} : Running(r)' =>
                           /\ conf'[r].cmd = "ADD" => ip'[r][f] # conf'[q].address[f]
                           /\ conf'[r].cmd = "DEL" =>
                                conf'[r].address[f] # conf'[q].address[f]
    BY DEF ByNameHarmless
  <2> DEFINE b == conf[q].address[f]
  <2>1. ToRelease(q, f) /\ Running(q) /\ (q = p => f # fam[p])
    <3>1. CASE q = p
      <4>1. pc'[p] = "release" /\ (fam'[p] = 4 \/ f = 6)
        BY <3>1 DEF ToRelease, GoesOn, Session
      <4>2. fam[p] = 4 /\ f = 6
        BY <1>2, <4>1 DEF GoesOn
      <4> QED
        BY <1>2, <3>1, <4>2 DEF ToRelease
    <3>2. CASE q # p
      BY <1>1, <1>2, <3>2, OneProcess DEF ToRelease, Running
    <3> QED
      BY <3>1, <3>2
  <2>2. /\ db[<<f, b>>] \in OwnedBy(f, conf[q].id)
        /\ \A g \in granted : g.key # <<f, b>>
        /\ \A r \in Procs \ {q} : Running(r) =>
             /\ conf[r].cmd = "ADD" => ip[r][f] # b
             /\ conf[r].cmd = "DEL" => conf[r].address[f] # b
    BY <2>1 DEF ByNameHarmless
  <2>3. conf[q].id \in Ids \cup {NoId} /\ b \in Addr
    BY <1>1, <2>1, RunFacts DEF Running, ToRelease
  <2>4. <<f, b>> # <<fam[p], a>>
    <3>1. SUFFICES ASSUME f = fam[p], b = a PROVE FALSE
      OBVIOUS
    <3>2. q # p
      BY <2>1, <3>1
    <3>3. ~HasAddress(conf[p]) /\ db[<<f, b>>] = OwnValue(conf[p].id)
      BY <1>2, <2>2, <3>1, <3>2 DEF Deletes
    <3>4. conf[p].id = conf[q].id
      <4>1. OwnValue(conf[p].id)[1] = conf[q].id
        BY <2>2, <2>3, <3>3, OwnedFacts
      <4> QED
        BY <4>1 DEF OwnValue
    <3>5. conf[p].id # NoId
      BY <1>2, <3>3 DEF ByIdHarmless
    <3> QED
      BY <1>2, <2>1, <3>2, <3>4, <3>5 DEF OneEach
  <2>5. db'[<<f, b>>] = db[<<f, b>>]
    BY <1>4, <2>3, <2>4 DEF Key
  <2>6. \A r \in Procs : /\ Running(r)' => Running(r)
                         /\ r # p => ip'[r] = ip[r]
    BY <1>1, <1>2, OneProcess DEF Running
  <2> QED
    BY <1>2, <2>2, <2>5, <2>6
<1> QED
  BY <1>5, <1>6, <1>7, <1>8, <1>9

LEMMA PrintStep ==
    ASSUME GrantInv, NEW p \in Procs, Step(p), GoesOn(p), PrintResult(p)
    PROVE  /\ Recorded' /\ OneEach'
           /\ \A q \in Procs :
                 ResultHeld(q)' /\ ByIdHarmless(q)' /\ ByNameHarmless(q)'
<1> USE DEF GrantInv, StoreInv
<1>1. TypeInv /\ TypeOK
  BY DEF TypeInv
<1>2. /\ conf[p].cmd = "ADD" /\ Running(p) /\ conf[p] \in Confs
      /\ UNCHANGED <<conf, db, ip, fam>> /\ pc[p] = "print" /\ pc'[p] = "close"
  BY <1>1, RunFacts DEF PrintResult, TypeInv, Shape, Running, TypeOK, Goto
<1>3. ASSUME NEW g \in granted', g \notin granted
      PROVE  \E f \in Fam : /\ ip[p][f] # None
                            /\ g.id = conf[p].id /\ g.key = <<f, ip[p][f]>>
  BY <1>3 DEF PrintResult, Grants
<1>4. Recorded'
  <2> SUFFICES ASSUME NEW g \in granted' PROVE db[g.key] \in OwnedBy(g.key[1], g.id)
    BY <1>2 DEF Recorded
  <2>1. CASE g \in granted
    BY <2>1 DEF Recorded
  <2>2. CASE g \notin granted
    <3>1. PICK f \in Fam : /\ ip[p][f] # None
                          /\ g.id = conf[p].id /\ g.key = <<f, ip[p][f]>>
      BY <1>3, <2>2
    <3>2. db[<<f, ip[p][f]>>] \in OwnedBy(f, conf[p].id)
      BY <1>2, <3>1 DEF ResultHeld
    <3> QED
      BY <3>1, <3>2
  <2> QED
    BY <2>1, <2>2
<1>5. \A q \in Procs : /\ Running(q)' <=> Running(q)
                       /\ \A f \in Fam : ToRelease(q, f)' <=> ToRelease(q, f) /\ q # p
  <2>1. ASSUME NEW q \in Procs, q # p
        PROVE  /\ Running(q)' <=> Running(q)
               /\ \A f \in Fam : ToRelease(q, f)' <=> ToRelease(q, f)
    BY <1>1, <1>2, <2>1, OneProcess DEF Running, ToRelease
  <2> QED
    BY <1>2, <2>1 DEF Running, ToRelease
<1>6. OneEach'
  BY <1>2, <1>5 DEF OneEach
<1>7. ASSUME NEW q \in Procs PROVE ResultHeld(q)'
  <2>1. CASE q = p
    BY <1>2, <2>1 DEF ResultHeld, Running, Session, Steps
  <2>2. CASE q # p
    BY <1>1, <1>2, <2>2, OneProcess DEF ResultHeld, Running
  <2> QED
    BY <2>1, <2>2
<1>8. ASSUME NEW q \in Procs PROVE ByIdHarmless(q)'
  <2> SUFFICES ASSUME Running(q), conf[q].cmd = "DEL", ~HasAddress(conf[q])
               PROVE  conf[q].id # NoId /\ \A g \in granted' : g.id # conf[q].id
    BY <1>2, <1>5 DEF ByIdHarmless
  <2>1. conf[q].id # NoId /\ conf[q].id # conf[p].id
    BY <1>2 DEF ByIdHarmless, OneEach
  <2> QED
    BY <1>3, <2>1 DEF ByIdHarmless
<1>9. ASSUME NEW q \in Procs PROVE ByNameHarmless(q)'
  <2> SUFFICES ASSUME NEW f \in Fam, ToRelease(q, f), q # p
               PROVE  /\ db[<<f, conf[q].address[f]>>] \in OwnedBy(f, conf[q].id)
                      /\ \A g \in granted' : g.key # <<f, conf[q].address[f]>>
                      /\ \A r \in Procs \ {q} : Running(r) =>
                           /\ conf[r].cmd = "ADD" => ip[r][f] # conf[q].address[f]
                           /\ conf[r].cmd = "DEL" =>
                                conf[r].address[f] # conf[q].address[f]
    BY <1>2, <1>5 DEF ByNameHarmless
  <2>1. /\ db[<<f, conf[q].address[f]>>] \in OwnedBy(f, conf[q].id)
        /\ \A g \in granted : g.key # <<f, conf[q].address[f]>>
        /\ \A r \in Procs \ {q} : Running(r) =>
             /\ conf[r].cmd = "ADD" => ip[r][f] # conf[q].address[f]
             /\ conf[r].cmd = "DEL" => conf[r].address[f] # conf[q].address[f]
    BY DEF ByNameHarmless
  <2>2. ip[p][f] # conf[q].address[f]
    BY <1>2, <2>1
  <2>3. ASSUME NEW g \in granted' PROVE g.key # <<f, conf[q].address[f]>>
    <3>1. CASE g \in granted
      BY <2>1, <3>1
    <3>2. CASE g \notin granted
      BY <1>3, <2>2, <3>2
    <3> QED
      BY <3>1, <3>2
  <2> QED
    BY <2>1, <2>3
<1> QED
  BY <1>4, <1>6, <1>7, <1>8, <1>9

(* A new command.                                                          *)
LEMMA InvokeStep ==
    ASSUME ~StaleDel, GrantInv, NEW p \in Procs, Step(p), Invoke(p)
    PROVE  /\ Recorded' /\ OneEach'
           /\ \A q \in Procs :
                 ResultHeld(q)' /\ ByIdHarmless(q)' /\ ByNameHarmless(q)'
<1> USE DEF GrantInv, StoreInv
<1>1. TypeInv /\ TypeOK
  BY DEF TypeInv
<1>2. PICK c \in Confs :
         /\ pc[p] = "idle" /\ pc' = [pc EXCEPT ![p] = "open"]
         /\ conf' = [conf EXCEPT ![p] = c]
         /\ c.cmd = "DEL" => validateDelConfiguration(c) /\ NamesOwnAddresses(c)
         /\ OneCommandPerContainer(c)
         /\ granted' = IF c.cmd = "DEL" THEN granted \ Dropped(c) ELSE granted
         /\ UNCHANGED <<db, fam, ip>>
  BY DEF Invoke, Goto
<1>3. conf'[p] = c /\ pc'[p] = "open" /\ ip[p] = NoAddrs /\ granted' \subseteq granted
  BY <1>1, <1>2 DEF TypeOK, ResultHeld, Session, Steps
<1>4. ASSUME NEW q \in Procs, q # p
      PROVE  /\ pc'[q] = pc[q] /\ conf'[q] = conf[q]
             /\ Running(q) => conf[q] # None
  BY <1>1, <1>2, <1>4 DEF TypeOK, TypeInv, Shape, Running
<1>5. Recorded'
  BY <1>2, <1>3 DEF Recorded
<1>6. OneEach'
  BY <1>2, <1>3, <1>4 DEF OneEach, OneCommandPerContainer, Running
<1>7. ASSUME NEW q \in Procs PROVE ResultHeld(q)'
  <2>1. CASE q = p
    BY <1>2, <1>3, <2>1 DEF ResultHeld, NoAddrs
  <2>2. CASE q # p
    BY <1>2, <1>4, <2>2 DEF ResultHeld, Running
  <2> QED
    BY <2>1, <2>2
<1>8. ASSUME NEW q \in Procs PROVE ByIdHarmless(q)'
  <2>1. CASE q = p
    BY <1>2, <1>3, <2>1 DEF ByIdHarmless, validateDelConfiguration, Dropped
  <2>2. CASE q # p
    BY <1>3, <1>4, <2>2 DEF ByIdHarmless, Running
  <2> QED
    BY <2>1, <2>2
<1>9. ASSUME NEW q \in Procs PROVE ByNameHarmless(q)'
  <2> SUFFICES ASSUME NEW f \in Fam, ToRelease(q, f)'
               PROVE  /\ db'[<<f, conf'[q].address[f]>>] \in OwnedBy(f, conf'[q].id)
                      /\ \A g \in granted' : g.key # <<f, conf'[q].address[f]>>
                      /\ \A r \in Procs \ {q} : Running(r)' =>
                           /\ conf'[r].cmd = "ADD" => ip'[r][f] # conf'[q].address[f]
                           /\ conf'[r].cmd = "DEL" =>
                                conf'[r].address[f] # conf'[q].address[f]
    BY DEF ByNameHarmless
  <2>1. CASE q = p
    <3>1. c.cmd = "DEL" /\ c.address[f] # None
      BY <1>3, <2>1 DEF ToRelease
    <3>2. /\ db[<<f, c.address[f]>>] \in OwnedBy(f, c.id)
          /\ \A r \in Procs : conf[r] # None =>
                c.address[f] \notin {conf[r].address[f], ip[r][f]}
      BY <1>2, <3>1 DEF NamesOwnAddresses, OwnedBy
    <3>3. \A g \in granted' : g.key # <<f, c.address[f]>>
      BY <1>2, <3>1 DEF Dropped
    <3>4. \A r \in Procs \ {p} : Running(r)' =>
             conf'[r] = conf[r] /\ ip'[r] = ip[r] /\ conf[r] # None
      BY <1>2, <1>4 DEF Running
    <3> QED
      BY <1>2, <1>3, <2>1, <3>2, <3>3, <3>4
  <2>2. CASE q # p
    <3>1. ToRelease(q, f) /\ conf[q].address[f] # None /\ Running(q)
      BY <1>2, <1>4, <2>2 DEF ToRelease, Running
    <3>2. /\ db[<<f, conf[q].address[f]>>] \in OwnedBy(f, conf[q].id)
          /\ \A g \in granted : g.key # <<f, conf[q].address[f]>>
          /\ \A r \in Procs \ {q} : Running(r) =>
               /\ conf[r].cmd = "ADD" => ip[r][f] # conf[q].address[f]
               /\ conf[r].cmd = "DEL" => conf[r].address[f] # conf[q].address[f]
      BY <3>1 DEF ByNameHarmless
    <3>3. ip[p][f] # conf[q].address[f]
      BY <1>3, <3>1 DEF NoAddrs
    <3>4. c.cmd = "DEL" => c.address[f] # conf[q].address[f]
      BY <1>2, <1>4, <2>2, <3>1 DEF NamesOwnAddresses
    <3>5. \A r \in Procs \ {p} : Running(r)' => Running(r) /\ conf'[r] = conf[r]
      BY <1>4 DEF Running
    <3> QED
      BY <1>2, <1>3, <1>4, <2>2, <3>2, <3>3, <3>4, <3>5
  <2> QED
    BY <2>1, <2>2
<1> QED
  BY <1>5, <1>6, <1>7, <1>8, <1>9

LEMMA GrantInvInit == Init => GrantInv
<1> SUFFICES ASSUME Init PROVE GrantInv
  OBVIOUS
<1>1. StoreInv
  <2>1. TypeInv
    BY TypeInvInit
  <2>2. IdsUnique
    BY DEF Init, IdsUnique, Key
  <2>3. \A p \in Procs : Pending(p)
    BY DEF Init, Pending
  <2> QED
    BY <2>1, <2>2, <2>3 DEF StoreInv
<1>2. Recorded
  BY DEF Init, Recorded
<1>3. \A p \in Procs : pc[p] = "idle" /\ ip[p] = NoAddrs
  BY DEF Init
<1> QED
  BY <1>1, <1>2, <1>3
     DEF GrantInv, OneEach, ResultHeld, ByIdHarmless, ByNameHarmless, ToRelease, Running

(* While no DEL names an address that is no longer its container's, the    *)
(* store and what the runtime believes stay in the relation of GrantInv.   *)
THEOREM GrantInvNext ==
    ASSUME ~StaleDel
    PROVE  GrantInv /\ [Next]_vars => GrantInv'
<1> SUFFICES ASSUME GrantInv, [Next]_vars PROVE GrantInv'
  OBVIOUS
<1>1. StoreInv /\ TypeInv
  BY DEF GrantInv, StoreInv
<1>2. StoreInv'
  BY <1>1, StoreInvNext
<1>3. ASSUME NEW p \in Procs, Step(p)
      PROVE  /\ Recorded' /\ OneEach'
             /\ \A q \in Procs :
                   ResultHeld(q)' /\ ByIdHarmless(q)' /\ ByNameHarmless(q)'
  <2>1. CASE Invoke(p)
    BY <1>3, <2>1, InvokeStep
  <2>2. CASE Gone(p) /\ UNCHANGED <<db, granted>>
    <3>1. ~GoesOn(p)
      BY <1>1, <2>2 DEF Gone, Goto, GoesOn, TypeInv, TypeOK, Session
    <3> QED
      BY <1>3, <2>2, <3>1, QuietStep
  <2>3. CASE GoesOn(p) /\ UNCHANGED <<db, granted, ip>>
    BY <1>3, <2>3, QuietStep
  <2>4. CASE GoesOn(p) /\ (PutGateway(p) \/ PutAddress(p))
    BY <1>3, <2>4, PutStep
  <2>5. CASE GoesOn(p) /\ PrintResult(p)
    BY <1>3, <2>5, PrintStep
  <2>6. CASE GoesOn(p) /\ \E a \in Addr : Deletes(p, a)
    BY <1>3, <2>6, DeleteStep
  <2> QED
    BY <1>1, <1>3, <2>1, <2>2, <2>3, <2>4, <2>5, <2>6, StepKinds
<1>4. CASE UNCHANGED vars
  BY <1>2, <1>4
     DEF vars, GrantInv, Recorded, OneEach, ResultHeld, ByIdHarmless, ByNameHarmless,
         ToRelease, Running
<1>5. CASE Next
  BY <1>2, <1>3, <1>5 DEF Next, Step, GrantInv
<1> QED
  BY <1>4, <1>5

LEMMA GrantInvAlways ==
    ASSUME ~StaleDel
    PROVE  Spec => []GrantInv
<1>1. Init => GrantInv
  BY GrantInvInit
<1>2. GrantInv /\ [Next]_vars => GrantInv'
  BY GrantInvNext
<1> QED
  BY <1>1, <1>2, PTL DEF Spec

-----------------------------------------------------------------------------

(* No two containers are told that one address is theirs, for any number   *)
(* of commands, crashes and failures of the store, as long as no DEL names *)
(* an address its container has lost: the store decides who owns it.       *)
THEOREM NoAddressShared ==
    ASSUME ~StaleDel
    PROVE  Spec => []AddressesNeverShared
<1>1. GrantInv => AddressesNeverShared
  <2> SUFFICES ASSUME GrantInv, NEW g \in granted, NEW h \in granted, g.key = h.key
               PROVE  g.id = h.id
    BY DEF AddressesNeverShared
  <2>1. TypeInv
    BY DEF GrantInv, StoreInv
  <2>2. db[g.key] \in OwnedBy(g.key[1], g.id) /\ db[g.key] \in OwnedBy(g.key[1], h.id)
    BY DEF GrantInv, Recorded
  <2>3. db[g.key][1] = g.id
    BY <2>1, <2>2, GrantFacts, OwnedFacts
  <2>4. db[g.key][1] = h.id
    BY <2>1, <2>2, GrantFacts, OwnedFacts
  <2> QED
    BY <2>3, <2>4
<1> QED
  BY <1>1, GrantInvAlways, PTL

-----------------------------------------------------------------------------
(* The refinement.                                                         *)

LEMMA OwnerFacts ==
    /\ OwnValue(NoId)[1] = NoId
    /\ \A f \in Fam : GatewayValue(f)[1] = "GateWay" /\ GatewayValue(f) # Free
    /\ \A f \in Fam, id \in Ids \cup {NoId} : \A v \in OwnedBy(f, id) :
          v # Free /\ v[1] = id
<1>1. OwnValue(NoId)[1] = NoId
  BY DEF OwnValue
<1>2. ASSUME NEW f \in Fam
      PROVE  GatewayValue(f)[1] = "GateWay" /\ GatewayValue(f) # Free
  <2>1. GatewayValue(f)[1] = "GateWay"
    BY DEF GatewayValue
  <2>2. GatewayValue(f) \in Value
    BY DEF Value
  <2> QED
    BY <2>1, <2>2, FreeAssumption
<1> QED
  BY <1>1, <1>2, OwnedFacts

(* A Put of the store reserves the address in the ledger.                  *)
LEMMA PutReserves ==
    ASSUME TypeOK, NEW f \in Fam, NEW a \in Addr, NEW v, NEW o,
           db[<<f, a>>] = Free, db' = [db EXCEPT ![<<f, a>>] = v],
           v # Free, v[1] = o, UNCHANGED granted,
           o \in Ids \cup {NoId, "GateWay"}
    PROVE  Ledger!Next
<1>1. <<f, a>> \in Key
  BY DEF Key
<1>2. OwnerOf[<<f, a>>] = Free
  BY <1>1 DEF OwnerOf
<1>3. OwnerOf' = [OwnerOf EXCEPT ![<<f, a>>] = o]
  BY <1>1 DEF OwnerOf, TypeOK
<1>4. Ledger!Reserve(<<f, a>>, o)
  BY <1>2, <1>3 DEF Ledger!Reserve
<1>5. o \in Ledger!Owner
  BY DEF Ledger!Owner
<1> QED
  BY <1>1, <1>4, <1>5 DEF Ledger!Next

LEMMA DeleteReturns ==
    ASSUME GrantInv, NEW p \in Procs, NEW a \in Addr, Deletes(p, a)
    PROVE  Ledger!Next
<1>1. /\ fam[p] \in Fam
      /\ \A g \in granted : g.key # <<fam[p], a>>
  BY DeletedUnused
<1>2. <<fam[p], a>> \in Key
  BY <1>1 DEF Key
<1>3. OwnerOf' = [OwnerOf EXCEPT ![<<fam[p], a>>] = Free]
  BY <1>2 DEF OwnerOf, Deletes, GrantInv, StoreInv, TypeInv, TypeOK
<1>4. Ledger!Return(<<fam[p], a>>)
  BY <1>1, <1>3 DEF Ledger!Return, Deletes
<1> QED
  BY <1>2, <1>4 DEF Ledger!Next

LEMMA PrintHands ==
    ASSUME GrantInv, NEW p \in Procs, PrintResult(p)
    PROVE  Ledger!Next
<1> DEFINE ks == {<<f, ip[p][f]>> : f \in {g \in Fam : ip[p][g] # None}}
<1>1. TypeInv /\ TypeOK
  BY DEF GrantInv, StoreInv, TypeInv
<1>2. conf[p].cmd = "ADD" /\ conf[p].id \in Ids \cup {NoId} /\ Running(p)
  BY <1>1, RunFacts DEF PrintResult, TypeInv, Shape, Running
<1>3. ASSUME NEW f \in Fam, ip[p][f] # None
      PROVE  /\ <<f, ip[p][f]>> \in Key
             /\ OwnerOf[<<f, ip[p][f]>>] = conf[p].id
  <2>1. <<f, ip[p][f]>> \in Key
    BY <1>1, <1>3 DEF TypeOK, Key
  <2>2. db[<<f, ip[p][f]>>] \in OwnedBy(f, conf[p].id)
    BY <1>2, <1>3 DEF GrantInv, ResultHeld
  <2> QED
    BY <1>2, <2>1, <2>2, OwnerFacts DEF OwnerOf
<1>4. ks \in SUBSET Key /\ \A k \in ks : OwnerOf[k] = conf[p].id
  BY <1>3
<1>5. UNCHANGED OwnerOf
  BY DEF OwnerOf, PrintResult
<1>6. granted' = granted \cup [id : {conf[p].id}, key : ks]
  BY DEF PrintResult, Grants
<1>7. Ledger!Hand(conf[p].id, ks)
  BY <1>4, <1>5, <1>6 DEF Ledger!Hand
<1> QED
  BY <1>2, <1>4, <1>7 DEF Ledger!Next

LEMMA InvokeDrops ==
    ASSUME NEW p \in Procs, Invoke(p)
    PROVE  Ledger!Next \/ UNCHANGED Ledger!vars
<1>1. PICK c \in Confs :
         /\ granted' = IF c.cmd = "DEL" THEN granted \ Dropped(c) ELSE granted
         /\ UNCHANGED db
  BY DEF Invoke
<1>2. UNCHANGED OwnerOf
  BY <1>1 DEF OwnerOf
<1>3. CASE c.cmd = "DEL"
  <2>1. Ledger!Drop(Dropped(c))
    BY <1>1, <1>2, <1>3 DEF Ledger!Drop
  <2>2. Dropped(c) \in SUBSET granted
    BY DEF Dropped
  <2> QED
    BY <2>1, <2>2 DEF Ledger!Next
<1>4. CASE c.cmd # "DEL"
  BY <1>1, <1>2, <1>4 DEF Ledger!vars
<1> QED
  BY <1>3, <1>4

LEMMA LedgerStep ==
    ASSUME ~StaleDel, GrantInv, [Next]_vars
    PROVE  [Ledger!Next]_(Ledger!vars)
<1>1. TypeInv /\ TypeOK
  BY DEF GrantInv, StoreInv, TypeInv
<1>2. UNCHANGED <<db, granted>> => UNCHANGED Ledger!vars
  BY DEF Ledger!vars, OwnerOf
<1>3. ASSUME NEW p \in Procs, Step(p)
      PROVE  Ledger!Next \/ UNCHANGED Ledger!vars
  <2>1. CASE Invoke(p)
    BY <2>1, InvokeDrops
  <2>2. CASE UNCHANGED <<db, granted>>
    BY <1>2, <2>2
  <2>3. CASE PutGateway(p)
    <3>1. /\ pc[p] = "gwPut" /\ fam[p] \in Fam /\ cur[p] \in Addr
          /\ db[<<fam[p], cur[p]>>] = Free
      BY <1>1, <2>3, FamFacts
         DEF PutGateway, TypeInv, TypeOK, Shape, GrantInv, StoreInv, Pending, CurKey
    <3>2. /\ db' = [db EXCEPT ![<<fam[p], cur[p]>>] = GatewayValue(fam[p])]
          /\ UNCHANGED granted
      BY <2>3 DEF PutGateway, CurKey
    <3> QED
      BY <1>1, <3>1, <3>2, OwnerFacts, PutReserves
  <2>4. CASE PutAddress(p)
    <3>1. /\ pc[p] = "put" /\ fam[p] \in Fam /\ cur[p] \in Addr
          /\ db[<<fam[p], cur[p]>>] = Free
          /\ conf[p].id \in Ids \cup {NoId}
      BY <1>1, <2>4, RunFacts
         DEF PutAddress, TypeInv, TypeOK, Shape, GrantInv, StoreInv, Pending, CurKey
    <3>2. /\ db' = [db EXCEPT ![<<fam[p], cur[p]>>] = Wanted(p)]
          /\ UNCHANGED granted
      BY <2>4 DEF PutAddress, CurKey
    <3>3. Wanted(p) \in OwnedBy(fam[p], conf[p].id)
      BY DEF Wanted, OwnedBy
    <3>4. Wanted(p) # Free /\ Wanted(p)[1] = conf[p].id
      BY <3>1, <3>3, OwnerFacts
    <3> QED
      BY <1>1, <3>1, <3>2, <3>4, PutReserves
  <2>5. CASE PrintResult(p)
    BY <2>5, PrintHands
  <2>6. CASE \E a \in Addr : Deletes(p, a)
    BY <2>6, DeleteReturns
  <2> QED
    BY <1>1, <1>3, <2>1, <2>2, <2>3, <2>4, <2>5, <2>6, StepKinds
<1>4. CASE UNCHANGED vars
  BY <1>2, <1>4 DEF vars
<1> QED
  BY <1>3, <1>4 DEF Next, Step

(* The plugin implements the ledger: every write of the store is one entry *)
(* made for an address nobody owned or one taken back while no container   *)
(* used the address, and a result that is printed names only addresses     *)
(* that the ledger has under the id of the container.                      *)
THEOREM PluginIsLedger ==
    ASSUME ~StaleDel
    PROVE  Spec => ImplementsLedger
<1>1. Init => Ledger!Init
  BY DEF Init, Ledger!Init, OwnerOf
<1>2. GrantInv /\ [Next]_vars => [Ledger!Next]_(Ledger!vars)
  BY LedgerStep
<1> QED
  BY <1>1, <1>2, GrantInvAlways, PTL DEF Spec, ImplementsLedger, Ledger!Spec

(* The addresses that containers use are theirs in the ledger: neither     *)
(* another container nor a gateway ever has them.                          *)
THEOREM UsersOwnTheirs ==
    ASSUME ~StaleDel
    PROVE  Spec => []Ledger!UsersOwn
<1>1. GrantInv => Ledger!UsersOwn
  <2> SUFFICES ASSUME GrantInv, NEW g \in granted
               PROVE  OwnerOf[g.key] = g.id
    BY DEF Ledger!UsersOwn
  <2>1. TypeInv
    BY DEF GrantInv, StoreInv
  <2>2. db[g.key] \in OwnedBy(g.key[1], g.id)
    BY DEF GrantInv, Recorded
  <2>3. g.key \in Key /\ db[g.key] # Free /\ db[g.key][1] = g.id
    BY <2>1, <2>2, GrantFacts, OwnedFacts
  <2> QED
    BY <2>3 DEF OwnerOf
<1> QED
  BY <1>1, GrantInvAlways, PTL
=============================================================================
