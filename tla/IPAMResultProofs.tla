-------------------------- MODULE IPAMResultProofs --------------------------
(***************************************************************************)
(* What the commands of IPAM have done when they end: proofs that a result *)
(* is recorded, that a DEL that succeeds leaves nothing of what it was to  *)
(* release, and that a search gives up only when the subnet is full, for   *)
(* all values of the constants.                                            *)
(***************************************************************************)
EXTENDS LedgerProofs

-----------------------------------------------------------------------------
(* The inductive invariant, command by command.                            *)

(* The steps of an ADD that holds the store.                               *)
Adding == {"gateway", "gwCheck", "gwPut", "pick", "check", "put", "update", "print"}

(* The families whose gateway, and whose address, an ADD has recorded.     *)
FamilyDone(p, f) ==
    \/ pc[p] = "print"
    \/ pc[p] \in Adding /\ fam[p] = 6 /\ f = 4

GatewayDone(p, f) ==
    FamilyDone(p, f) \/ (pc[p] \in {"pick", "check", "put", "update"} /\ fam[p] = f)

AddressDone(p, f) == FamilyDone(p, f) \/ (pc[p] = "update" /\ fam[p] = f)

(* What an ADD has recorded of a family stays in the store until it ends.  *)
DoneInv(p) ==
    pc[p] \in Adding /\ conf[p].cmd = "ADD" =>
        \A f \in Fam : HasIP(conf[p], f) =>
            /\ GatewayDone(p, f) =>
                  db[<<f, Gateway(conf[p], f)>>] = GatewayValue(f)
            /\ AddressDone(p, f) =>
                  /\ ip[p][f] \in Addr /\ Host(f, conf[p].subnet[f], ip[p][f])
                  /\ db[<<f, ip[p][f]>>] \in OwnedBy(f, conf[p].id)

(* A DEL has something to go by.                                           *)
DelInv(p) ==
    pc[p] # "idle" /\ conf[p].cmd = "DEL" => validateDelConfiguration(conf[p])

(* The families a DEL has come past.                                       *)
Released(p, f) ==
    \/ pc[p] = "release" /\ fam[p] = 6 /\ f = 4
    \/ pc[p] = "update"
    \/ pc[p] = "close" /\ res[p] = "ok"

(* Nothing the DEL was to release is left in them.                         *)
ReleasedInv(p) ==
    \A f \in Fam : pc[p] # "idle" /\ conf[p].cmd = "DEL" /\ Released(p, f) =>
        /\ ~HasAddress(conf[p]) => UniqueID(f, OwnValue(conf[p].id))
        /\ conf[p].address[f] # None => db[<<f, conf[p].address[f]>>] = Free

(* On the circle of addresses, is a after s and before c?  When s is c the *)
(* way leads once around.                                                  *)
Between(s, a, c) == IF s < c THEN s < a /\ a < c ELSE s < a \/ a < c

Taken(p, a) == Host(fam[p], Sub(p), a) => db[<<fam[p], a>>] # Free

(* The search has found every host it has come past taken.                 *)
WalkInv(p) ==
    /\ pc[p] = "check" /\ ~Explicit(p) =>
          /\ start[p] \in Int /\ InSubnet(Sub(p), start[p])
          /\ \A a \in Addr : Between(start[p], a, cur[p]) => Taken(p, a)
    /\ res[p] = "full" => \A a \in Addr : Taken(p, a)

(* A command knows how it ends when it closes the store.                   *)
OutcomeInv(p) == pc[p] # "close" => res[p] = "none"

CommandInv(p) ==
    OutcomeInv(p) /\ DoneInv(p) /\ DelInv(p) /\ ReleasedInv(p) /\ WalkInv(p)

CommandsInv == StoreInv /\ \A p \in Procs : CommandInv(p)

-----------------------------------------------------------------------------
(* Steps of others.                                                        *)

LEMMA OthersToo ==
    ASSUME TypeInv, NEW p \in Procs, Step(p), NEW q \in Procs, q # p
    PROVE  start'[q] = start[q] /\ res'[q] = res[q]
<1>1. TypeOK
  BY DEF TypeInv
<1>2. CASE Invoke(p) \/ Open(p) \/ Gone(p)
  BY <1>1, <1>2 DEF TypeOK, Invoke, Open, Gone
<1>3. CASE VerifyGateway(p) \/ CheckGateway(p) \/ PutGateway(p)
  BY <1>1, <1>3 DEF TypeOK, VerifyGateway, CheckGateway, PutGateway, Fail
<1>4. CASE Pick(p) \/ CheckAddress(p) \/ PutAddress(p)
  BY <1>1, <1>4
     DEF TypeOK, Pick, CheckAddress, AddressFree, AddressTaken, PutAddress, Fail
<1>5. CASE Release(p) \/ ReleaseByID(p)
  BY <1>1, <1>5 DEF TypeOK, Release, ReleaseByID, ThenUpdate, Fail
<1>6. CASE Update(p) \/ UpdateFails(p)
  <2>1. AfterUpdate(p) /\ pc[p] = "update" /\ UNCHANGED start
    BY <1>6 DEF Update, UpdateFails
  <2> QED
    BY <1>1, <2>1, AfterUpdateCases DEF TypeOK
<1>7. CASE PrintResult(p) \/ StoreFails(p)
  BY <1>1, <1>7 DEF TypeOK, PrintResult, StoreFails, Fail
<1> QED
  BY <1>2, <1>3, <1>4, <1>5, <1>6, <1>7
     DEF Step, Progress, Fault, OpenTimeout, Close, Crash

(* Nobody writes to the store while another command holds it.              *)
LEMMA StoreLocked ==
    ASSUME TypeInv, NEW p \in Procs, Step(p), NEW q \in Procs, q # p,
           pc[q] \in Session
    PROVE  UNCHANGED db
<1>1. pc[p] \notin Session
  BY DEF TypeInv, Exclusion
<1>2. pc[p] \notin {"gwPut", "put", "release"}
  BY <1>1 DEF Session, Steps
<1>3. ~PutGateway(p) /\ ~PutAddress(p)
  BY <1>2 DEF PutGateway, PutAddress
<1> QED
  BY <1>2, <1>3, StoreChange

(* A command outside of its session has nothing to rely on.                *)
LEMMA CommandAway ==
    ASSUME NEW q \in Procs, pc'[q] \in {"idle", "open"}, res'[q] = "none", DelInv(q)'
    PROVE  CommandInv(q)'
  BY DEF CommandInv, OutcomeInv, DoneInv, ReleasedInv, WalkInv, Released, Adding

LEMMA CommandFrame ==
    ASSUME NEW q \in Procs, CommandInv(q), UNCHANGED db, pc'[q] = pc[q],
           conf'[q] = conf[q], fam'[q] = fam[q], cur'[q] = cur[q],
           start'[q] = start[q], ip'[q] = ip[q], res'[q] = res[q]
    PROVE  CommandInv(q)'
<1>1. OutcomeInv(q)' /\ DoneInv(q)' /\ DelInv(q)'
  BY DEF CommandInv, OutcomeInv, DoneInv, DelInv, FamilyDone, GatewayDone, AddressDone
<1>2. ReleasedInv(q)'
  BY DEF CommandInv, ReleasedInv, Released, UniqueID
<1>3. WalkInv(q)'
  BY DEF CommandInv, WalkInv, Explicit, Sub, Taken
<1> QED
  BY <1>1, <1>2, <1>3 DEF CommandInv

LEMMA OthersCommand ==
    ASSUME TypeInv, NEW p \in Procs, Step(p), NEW q \in Procs, q # p, CommandInv(q)
    PROVE  CommandInv(q)'
<1>1. /\ pc'[q] = pc[q] /\ conf'[q] = conf[q] /\ fam'[q] = fam[q]
      /\ cur'[q] = cur[q] /\ ip'[q] = ip[q] /\ start'[q] = start[q]
      /\ res'[q] = res[q]
  BY OneProcess, OthersToo
<1>2. CASE pc[q] \in Session
  BY <1>1, <1>2, StoreLocked, CommandFrame
<1>3. CASE pc[q] \notin Session
  <2>1. pc[q] \in {"idle", "open"}
    BY <1>3 DEF TypeInv, TypeOK, Session
  <2> QED
    BY <1>1, <2>1, CommandAway DEF CommandInv, OutcomeInv, DelInv
<1> QED
  BY <1>2, <1>3

-----------------------------------------------------------------------------
(* Steps of the command itself.                                            *)

LEMMA GoneFacts ==
    ASSUME TypeInv, NEW p \in Procs, Gone(p)
    PROVE  pc'[p] = "idle" /\ res'[p] = "none"
  BY DEF TypeInv, TypeOK, Gone, Goto

LEMMA OutcomeStep ==
    ASSUME TypeInv, NEW p \in Procs, Step(p), OutcomeInv(p)
    PROVE  OutcomeInv(p)'
<1>1. TypeOK
  BY DEF TypeInv
<1>2. CASE Invoke(p) \/ Open(p)
  BY <1>1, <1>2 DEF TypeOK, OutcomeInv, Invoke, Open, Goto
<1>3. CASE Gone(p)
  BY <1>3, GoneFacts DEF OutcomeInv
<1>4. CASE VerifyGateway(p) \/ CheckGateway(p) \/ PutGateway(p)
  BY <1>1, <1>4
     DEF TypeOK, OutcomeInv, VerifyGateway, CheckGateway, PutGateway, Goto, Fail
<1>5. CASE Pick(p) \/ CheckAddress(p) \/ PutAddress(p)
  BY <1>1, <1>5
     DEF TypeOK, OutcomeInv, Pick, CheckAddress, AddressFree, AddressTaken,
         PutAddress, Goto, Fail
<1>6. CASE Release(p) \/ ReleaseByID(p)
  BY <1>1, <1>6 DEF TypeOK, OutcomeInv, Release, ReleaseByID, ThenUpdate, Goto, Fail
<1>7. CASE Update(p) \/ UpdateFails(p)
  <2>1. AfterUpdate(p) /\ pc[p] = "update"
    BY <1>7 DEF Update, UpdateFails
  <2> QED
    BY <1>1, <2>1, AfterUpdateCases DEF TypeOK, OutcomeInv, Goto
<1>8. CASE PrintResult(p) \/ StoreFails(p)
  BY <1>1, <1>8 DEF TypeOK, OutcomeInv, PrintResult, StoreFails, Goto, Fail
<1> QED
  BY <1>2, <1>3, <1>4, <1>5, <1>6, <1>7, <1>8
     DEF Step, Progress, Fault, OpenTimeout, Close, Crash

-----------------------------------------------------------------------------
(* ADD: what is recorded.                                                  *)

(* No value of a container is that of a gateway, or none.                  *)
LEMMA ValuesApart ==
    ASSUME NEW f \in Fam, NEW id \in Ids \cup {NoId}
    PROVE  /\ GatewayValue(f) \notin OwnedBy(f, id)
           /\ GatewayValue(f) # Free /\ GatewayValue(f) # Empty
<1>1. GatewayValue(f)[1] = "GateWay"
  BY DEF GatewayValue
<1>5. GatewayValue(f) \in Value
  BY DEF Value
<1>2. "GateWay" # id /\ "GateWay" # NoId
  BY IdAssumption
<1>3. \A v \in OwnedBy(f, id) : v[1] = id
  BY OwnedFacts
<1>4. Empty[1] = NoId
  BY DEF Empty, OwnValue
<1> QED
  BY <1>1, <1>2, <1>3, <1>4, <1>5, FreeAssumption

(* A step that records nothing and comes past no family.                   *)
LEMMA DoneKept ==
    ASSUME NEW p \in Procs, DoneInv(p), pc[p] \in Adding, UNCHANGED db,
           conf'[p] = conf[p], ip'[p] = ip[p],
           \A f \in Fam : HasIP(conf[p], f) =>
              /\ GatewayDone(p, f)' => GatewayDone(p, f)
              /\ AddressDone(p, f)' => AddressDone(p, f)
    PROVE  DoneInv(p)'
  BY DEF DoneInv

LEMMA DoneStep ==
    ASSUME StoreInv, NEW p \in Procs, Step(p), DoneInv(p)
    PROVE  DoneInv(p)'
<1>1. TypeInv /\ TypeOK /\ Shape(p) /\ Pending(p)
  BY DEF StoreInv, TypeInv
<1>away. ASSUME pc'[p] \notin Adding PROVE DoneInv(p)'
  BY <1>away DEF DoneInv
<1>2. CASE Invoke(p)
  BY <1>1, <1>2, <1>away DEF TypeOK, Invoke, Goto, Adding
<1>3. CASE Gone(p)
  BY <1>1, <1>3, <1>away, GoneFacts DEF Adding
<1>4. CASE Open(p)
  <2>1. pc'[p] \in {"gateway", "release"} /\ conf'[p] = conf[p]
    BY <1>1, <1>4 DEF TypeOK, Open, Goto
  <2>2. conf[p].cmd = "ADD" => (fam'[p] = 6 => ~HasIP(conf[p], 4))
    BY <1>1, <1>4 DEF TypeOK, Open
  <2> QED
    BY <2>1, <2>2 DEF DoneInv, FamilyDone, GatewayDone, AddressDone
<1>5. CASE VerifyGateway(p)
  <2>1. /\ pc[p] = "gateway" /\ UNCHANGED <<db, conf, fam, ip>>
        /\ \/ pc'[p] \in {"gwCheck", "close"}
           \/ /\ pc'[p] = "pick"
              /\ Get(<<fam[p], Gateway(conf[p], fam[p])>>) = GatewayValue(fam[p])
    BY <1>1, <1>5 DEF TypeOK, VerifyGateway, Goto, Fail
  <2>2. CASE pc'[p] \in {"gwCheck", "close"}
    BY <2>1, <2>2, DoneKept DEF FamilyDone, GatewayDone, AddressDone, Adding
  <2>3. CASE pc'[p] = "pick"
    <3>1. fam[p] \in Fam
      BY <1>1 DEF TypeOK
    <3>2. db[<<fam[p], Gateway(conf[p], fam[p])>>] = GatewayValue(fam[p])
      BY <2>1, <2>3, <3>1, ValuesApart DEF Get
    <3> QED
      BY <2>1, <2>3, <3>2 DEF DoneInv, FamilyDone, GatewayDone, AddressDone, Adding
  <2> QED
    BY <2>1, <2>2, <2>3
<1>6. CASE CheckGateway(p)
  <2>1. /\ pc[p] = "gwCheck" /\ UNCHANGED <<db, conf, fam, ip>>
        /\ pc'[p] \in {"gwPut", "close"}
    BY <1>1, <1>6 DEF TypeOK, CheckGateway, Goto, Fail
  <2> QED
    BY <2>1, DoneKept DEF FamilyDone, GatewayDone, AddressDone, Adding
<1>7. CASE PutGateway(p)
  <2>1. /\ pc[p] = "gwPut" /\ pc'[p] = "pick" /\ UNCHANGED <<conf, fam, ip>>
        /\ db' = [db EXCEPT ![<<fam[p], cur[p]>>] = GatewayValue(fam[p])]
    BY <1>1, <1>7 DEF TypeOK, PutGateway, Goto, CurKey
  <2>2. cur[p] = Gateway(conf[p], fam[p]) /\ fam[p] \in Fam
    BY <1>1, <2>1 DEF Shape, TypeOK
  <2>3. cur[p] \in Addr
    BY <1>1, <2>1, <2>2, FamFacts DEF Shape
  <2>4. db'[<<fam[p], cur[p]>>] = GatewayValue(fam[p])
    BY <1>1, <2>1, <2>2, <2>3 DEF TypeOK, Key
  <2>5. \A f \in Fam : \A a : f # fam[p] => db'[<<f, a>>] = db[<<f, a>>]
    BY <1>1, <2>1, <2>2, <2>3 DEF TypeOK, Key
  <2> QED
    BY <2>1, <2>2, <2>4, <2>5
       DEF DoneInv, FamilyDone, GatewayDone, AddressDone, Adding
<1>8. CASE Pick(p)
  <2>1. /\ pc[p] = "pick" /\ UNCHANGED <<db, conf, fam, ip>>
        /\ pc'[p] \in {"check", "close"}
    BY <1>1, <1>8 DEF TypeOK, Pick, Goto, Fail
  <2> QED
    BY <2>1, DoneKept DEF FamilyDone, GatewayDone, AddressDone, Adding
<1>9. CASE CheckAddress(p)
  <2>1. /\ pc[p] = "check" /\ UNCHANGED <<db, conf, fam, ip>>
        /\ pc'[p] \in {"check", "put", "close"}
    BY <1>1, <1>9
       DEF TypeOK, CheckAddress, AddressFree, AddressTaken, Goto, Fail
  <2> QED
    BY <2>1, DoneKept DEF FamilyDone, GatewayDone, AddressDone, Adding
<1>10. CASE PutAddress(p)
  <2>1. /\ pc[p] = "put" /\ pc'[p] = "update" /\ UNCHANGED <<conf, fam>>
        /\ db' = [db EXCEPT ![<<fam[p], cur[p]>>] = Wanted(p)]
        /\ ip' = [ip EXCEPT ![p][fam[p]] = cur[p]]
    BY <1>1, <1>10 DEF TypeOK, PutAddress, Goto, CurKey
  <2>2. /\ cur[p] \in Addr /\ Host(fam[p], Sub(p), cur[p]) /\ fam[p] \in Fam
        /\ conf[p].cmd = "ADD" /\ HasIP(conf[p], fam[p])
        /\ db[<<fam[p], cur[p]>>] = Free
    BY <1>1, <2>1 DEF Shape, TypeOK, Pending, CurKey
  <2>3. /\ db'[<<fam[p], cur[p]>>] = Wanted(p)
        /\ \A f \in Fam : \A a : <<f, a>> # <<fam[p], cur[p]>> => db'[<<f, a>>] = db[<<f, a>>]
    BY <1>1, <2>1, <2>2 DEF TypeOK, Key
  <2>4. /\ ip'[p][fam[p]] = cur[p]
        /\ \A f \in Fam : f # fam[p] => ip'[p][f] = ip[p][f]
    BY <1>1, <2>1, <2>2 DEF TypeOK
  <2>5. db[<<fam[p], Gateway(conf[p], fam[p])>>] = GatewayValue(fam[p])
    BY <2>1, <2>2 DEF DoneInv, GatewayDone, Adding
  <2>6. db'[<<fam[p], Gateway(conf[p], fam[p])>>] = GatewayValue(fam[p])
    <3>1. conf[p].id \in Ids \cup {NoId}
      BY <1>1, <2>1, RunFacts
    <3>2. Gateway(conf[p], fam[p]) # cur[p]
      BY <2>2, <2>5, <3>1, ValuesApart
    <3> QED
      BY <2>2, <2>3, <2>5, <3>2
  <2>7. Wanted(p) \in OwnedBy(fam[p], conf[p].id)
    BY DEF Wanted, OwnedBy
  <2> SUFFICES ASSUME NEW f \in Fam, HasIP(conf[p], f)
               PROVE  /\ GatewayDone(p, f)' =>
                            db'[<<f, Gateway(conf[p], f)>>] = GatewayValue(f)
                      /\ AddressDone(p, f)' =>
                            /\ ip'[p][f] \in Addr
                            /\ Host(f, conf[p].subnet[f], ip'[p][f])
                            /\ db'[<<f, ip'[p][f]>>] \in OwnedBy(f, conf[p].id)
    BY <2>1 DEF DoneInv
  <2>8. CASE f = fam[p]
    BY <2>2, <2>3, <2>4, <2>6, <2>7, <2>8 DEF Sub
  <2>9. CASE f # fam[p]
    <3>1. GatewayDone(p, f)' \/ AddressDone(p, f)' => FamilyDone(p, f)
      BY <2>1, <2>9 DEF GatewayDone, AddressDone, FamilyDone, Adding
    <3>2. \A a : db'[<<f, a>>] = db[<<f, a>>]
      BY <2>3, <2>9
    <3> QED
      BY <2>1, <2>2, <2>4, <2>9, <3>1, <3>2 DEF DoneInv, GatewayDone, AddressDone, Adding
  <2> QED
    BY <2>8, <2>9
<1>11. CASE Release(p) \/ ReleaseByID(p)
  <2>1. conf[p].cmd = "DEL" /\ conf' = conf
    BY <1>1, <1>11 DEF Release, ReleaseByID, Shape
  <2> QED
    BY <2>1 DEF DoneInv
<1>12. CASE Update(p) \/ UpdateFails(p)
  <2>1. AfterUpdate(p) /\ pc[p] = "update" /\ UNCHANGED <<db, conf, ip>>
    BY <1>12 DEF Update, UpdateFails
  <2>2. CASE conf[p].cmd # "ADD"
    BY <2>1, <2>2 DEF DoneInv
  <2>3. CASE conf[p].cmd = "ADD"
    <3>1. \/ fam[p] = 4 /\ fam'[p] = 6 /\ pc'[p] = "gateway"
          \/ /\ fam[p] = 6 \/ ~HasIP(conf[p], 6)
             /\ pc'[p] = "print" /\ fam'[p] = fam[p]
      BY <1>1, <2>1, <2>3, AfterUpdateCases DEF TypeOK, Goto
    <3>2. fam[p] \in {4, 6}
      BY <1>1 DEF TypeOK, Fam
    <3>3. \A f \in Fam : HasIP(conf[p], f) =>
              /\ GatewayDone(p, f)' => GatewayDone(p, f)
              /\ AddressDone(p, f)' => AddressDone(p, f)
      BY <2>1, <3>1, <3>2 DEF FamilyDone, GatewayDone, AddressDone, Adding, Fam
    <3> QED
      BY <2>1, <3>3, DoneKept DEF Adding
  <2> QED
    BY <2>2, <2>3
<1>13. CASE PrintResult(p) \/ StoreFails(p)
  BY <1>1, <1>13, <1>away DEF TypeOK, PrintResult, StoreFails, Goto, Fail, Adding
<1> QED
  BY <1>2, <1>3, <1>4, <1>5, <1>6, <1>7, <1>8, <1>9, <1>10, <1>11, <1>12, <1>13
     DEF Step, Progress, Fault, OpenTimeout, Close, Crash

-----------------------------------------------------------------------------
(* DEL: what is left.                                                      *)

LEMMA DelStep ==
    ASSUME TypeInv, NEW p \in Procs, Step(p), DelInv(p)
    PROVE  DelInv(p)'
<1>1. TypeOK
  BY DEF TypeInv
<1>2. CASE Invoke(p)
  BY <1>1, <1>2 DEF TypeOK, DelInv, Invoke, Goto
<1>3. CASE Gone(p)
  BY <1>3, GoneFacts DEF DelInv
<1>4. CASE ~Invoke(p) /\ ~Gone(p)
  <2>1. UNCHANGED conf /\ pc[p] # "idle"
    BY <1>4 DEF Step, Progress, Fault, OpenTimeout, Close, Crash, Open, VerifyGateway,
       CheckGateway, PutGateway, Pick, CheckAddress, PutAddress, Release,
       ReleaseByID, Update, UpdateFails, PrintResult, StoreFails, Session
  <2> QED
    BY <2>1 DEF DelInv
<1> QED
  BY <1>2, <1>3, <1>4

(* A step that deletes nothing and comes past no family.                   *)
LEMMA ReleasedKept ==
    ASSUME NEW p \in Procs, ReleasedInv(p), pc[p] # "idle", UNCHANGED <<db, conf>>,
           \A f \in Fam : conf[p].cmd = "DEL" /\ Released(p, f)' => Released(p, f)
    PROVE  ReleasedInv(p)'
  BY DEF ReleasedInv, UniqueID

LEMMA DeleteFacts ==
    ASSUME TypeInv, NEW p \in Procs, fam[p] \in Fam, NEW a \in Addr, Delete(p, a)
    PROVE  /\ db'[<<fam[p], a>>] = Free
           /\ \A f \in Fam, b \in Addr :
                 <<f, b>> # <<fam[p], a>> => db'[<<f, b>>] = db[<<f, b>>]
  BY DEF Delete, TypeInv, TypeOK, Key

(* A release that succeeds leaves nothing of its family, and leaves the    *)
(* other family alone.                                                     *)
LEMMA FamilyReleased ==
    ASSUME StoreInv, NEW p \in Procs, Release(p) \/ ReleaseByID(p), DelInv(p),
           pc'[p] # "close"
    PROVE  /\ ThenUpdate(p)
           /\ ~HasAddress(conf[p]) =>
                 \A a \in Addr : db'[<<fam[p], a>>] # OwnValue(conf[p].id)
           /\ conf[p].address[fam[p]] # None =>
                 db'[<<fam[p], conf[p].address[fam[p]]>>] = Free
           /\ \A f \in Fam, b \in Addr : f # fam[p] => db'[<<f, b>>] = db[<<f, b>>]
<1>1. /\ TypeInv /\ TypeOK /\ Shape(p) /\ pc[p] = "release" /\ fam[p] \in Fam
      /\ conf[p].cmd = "DEL" /\ ~Fail(p, "absent")
  BY DEF StoreInv, TypeInv, TypeOK, Shape, Release, ReleaseByID, Fail, Goto
<1>2. conf[p].address[fam[p]] \in Addr \cup {None} /\ conf[p].id \in Ids \cup {NoId}
  BY <1>1, RunFacts
<1>3. CASE Release(p)
  <2>1. CASE conf[p].address[fam[p]] = None
    BY <1>1, <1>3, <2>1 DEF Release
  <2>2. CASE conf[p].address[fam[p]] # None
    <3>1. /\ Delete(p, conf[p].address[fam[p]]) /\ ThenUpdate(p)
          /\ HasAddress(conf[p]) /\ conf[p].address[fam[p]] \in Addr
      BY <1>1, <1>2, <1>3, <2>2 DEF Release
    <3> QED
      BY <1>1, <3>1, DeleteFacts
  <2> QED
    BY <2>1, <2>2
<1>4. CASE ReleaseByID(p)
  <2>1. ~HasAddress(conf[p]) /\ conf[p].address[fam[p]] = None
    BY <1>1, <1>4 DEF ReleaseByID, HasAddress
  <2>2. CASE UNCHANGED db /\ UniqueID(fam[p], OwnValue(conf[p].id)) /\ ThenUpdate(p)
    BY <2>1, <2>2 DEF UniqueID
  <2>3. ASSUME NEW a \in Addr, db[<<fam[p], a>>] = OwnValue(conf[p].id),
               Delete(p, a), ThenUpdate(p)
        PROVE  /\ \A b \in Addr : db'[<<fam[p], b>>] # OwnValue(conf[p].id)
               /\ \A f \in Fam, b \in Addr : f # fam[p] => db'[<<f, b>>] = db[<<f, b>>]
    <3>1. conf[p].id \in Ids
      BY <1>1, <1>2, <2>1 DEF DelInv, validateDelConfiguration
    <3>2. OwnValue(conf[p].id) # Free
      BY <1>2, FreeAssumption DEF Value
    <3>3. OwnValue(conf[p].id) # Empty
      BY <3>1, IdAssumption DEF Empty, OwnValue
    <3>4. \A b \in Addr : b # a => db[<<fam[p], b>>] # OwnValue(conf[p].id)
      BY <1>1, <2>3, <3>1, <3>2, <3>3 DEF StoreInv, IdsUnique
    <3> QED
      BY <1>1, <2>3, <3>2, <3>4, DeleteFacts
  <2>4. \/ \E a \in Addr : /\ db[<<fam[p], a>>] = OwnValue(conf[p].id)
                           /\ Delete(p, a) /\ ThenUpdate(p)
        \/ UNCHANGED db /\ UniqueID(fam[p], OwnValue(conf[p].id)) /\ ThenUpdate(p)
    BY <1>1, <1>4 DEF ReleaseByID, UniqueID
  <2> QED
    BY <2>1, <2>2, <2>3, <2>4
<1> QED
  BY <1>3, <1>4

LEMMA ReleasedStep ==
    ASSUME StoreInv, NEW p \in Procs, Step(p), DelInv(p), ReleasedInv(p)
    PROVE  ReleasedInv(p)'
<1>1. TypeInv /\ TypeOK /\ Shape(p)
  BY DEF StoreInv, TypeInv
<1>2. CASE Invoke(p)
  BY <1>1, <1>2 DEF TypeOK, Invoke, Goto, ReleasedInv, Released
<1>3. CASE Gone(p)
  BY <1>3, GoneFacts, <1>1 DEF ReleasedInv
<1>4. CASE Open(p)
  <2>1. /\ UNCHANGED <<db, conf>> /\ pc[p] = "open"
        /\ conf[p].cmd = "DEL" => pc'[p] = "release" /\ fam'[p] = 4
    BY <1>1, <1>4 DEF TypeOK, Open, Goto
  <2> QED
    BY <2>1, ReleasedKept DEF Released
<1>5. CASE \/ VerifyGateway(p) \/ CheckGateway(p) \/ PutGateway(p)
           \/ Pick(p) \/ CheckAddress(p) \/ PutAddress(p) \/ PrintResult(p)
  <2>1. UNCHANGED conf /\ conf[p].cmd # "DEL"
    <3>1. pc[p] # "update" => conf[p].cmd = "ADD"
      BY <1>1, <1>5
         DEF Shape, VerifyGateway, CheckGateway, PutGateway, Pick, CheckAddress,
             PutAddress, PrintResult
    <3> QED
      BY <1>5, <3>1
         DEF VerifyGateway, CheckGateway, PutGateway, Pick, CheckAddress,
             PutAddress, PrintResult
  <2> QED
    BY <2>1 DEF ReleasedInv
<1>6. CASE Release(p) \/ ReleaseByID(p)
  <2>1. /\ UNCHANGED conf /\ pc[p] = "release" /\ conf[p].cmd = "DEL"
        /\ fam[p] \in {4, 6}
    BY <1>1, <1>6 DEF Release, ReleaseByID, Shape, TypeOK, Fam
  <2>2. CASE pc'[p] = "close"
    <3>1. res'[p] # "ok"
      BY <1>1, <1>6, <2>1, <2>2
         DEF Release, ReleaseByID, ThenUpdate, Goto, Fail, TypeOK
    <3> QED
      BY <2>2, <3>1 DEF ReleasedInv, Released
  <2>3. CASE pc'[p] # "close"
    <3>1. /\ ThenUpdate(p)
          /\ ~HasAddress(conf[p]) =>
                \A a \in Addr : db'[<<fam[p], a>>] # OwnValue(conf[p].id)
          /\ conf[p].address[fam[p]] # None =>
                db'[<<fam[p], conf[p].address[fam[p]]>>] = Free
          /\ \A f \in Fam, b \in Addr : f # fam[p] => db'[<<f, b>>] = db[<<f, b>>]
      BY <1>6, <2>3, FamilyReleased
    <3>2. /\ fam[p] = 4 => pc'[p] = "release"
          /\ fam[p] = 6 => pc'[p] = "update"
      BY <1>1, <2>1, <3>1 DEF ThenUpdate, TypeOK, Goto
    <3> SUFFICES ASSUME NEW f \in Fam, Released(p, f)'
                 PROVE  /\ ~HasAddress(conf[p]) =>
                             \A a \in Addr : db'[<<f, a>>] # OwnValue(conf[p].id)
                        /\ conf[p].address[f] # None =>
                             db'[<<f, conf[p].address[f]>>] = Free
      BY <2>1 DEF ReleasedInv, UniqueID
    <3>3. CASE f = fam[p]
      BY <3>1, <3>3
    <3>4. CASE f # fam[p]
      <4>1. f = 4 /\ fam[p] = 6
        BY <2>1, <3>2, <3>4 DEF Released, Fam
      <4>2. /\ ~HasAddress(conf[p]) => UniqueID(f, OwnValue(conf[p].id))
            /\ conf[p].address[f] # None => db[<<f, conf[p].address[f]>>] = Free
        BY <2>1, <4>1 DEF ReleasedInv, Released
      <4>3. conf[p].address[f] \in Addr \cup {None}
        BY <1>1, <2>1, RunFacts
      <4> QED
        BY <3>1, <3>4, <4>2, <4>3 DEF UniqueID
    <3> QED
      BY <3>3, <3>4
  <2> QED
    BY <2>2, <2>3
<1>7. CASE Update(p) \/ UpdateFails(p)
  <2>1. AfterUpdate(p) /\ pc[p] = "update" /\ UNCHANGED <<db, conf>>
    BY <1>7 DEF Update, UpdateFails
  <2> QED
    BY <2>1, ReleasedKept DEF Released
<1>8. CASE StoreFails(p)
  <2>1. /\ UNCHANGED <<db, conf>> /\ pc'[p] = "close" /\ res'[p] = "io"
    BY <1>1, <1>8 DEF StoreFails, Fail, Goto, TypeOK, Session
  <2> QED
    BY <2>1 DEF ReleasedInv, Released
<1> QED
  BY <1>2, <1>3, <1>4, <1>5, <1>6, <1>7, <1>8
     DEF Step, Progress, Fault, OpenTimeout, Close, Crash

-----------------------------------------------------------------------------
(* The search.                                                             *)

(* NextIP and NextIPv6 skip no host.                                       *)
LEMMA NextIPAdjacent ==
    ASSUME NEW f \in Fam, NEW s, s.lo \in Int, s.hi \in Int, MaskAccepted(s),
           NEW c \in Int, InSubnet(s, c), NEW a \in Int, Host(f, s, a)
    PROVE  ~Between(c, a, NextIP(f, s, c))
  BY DEF NextIP, Bump, Reserved, Host, InSubnet, MaskAccepted, Between

(* A way around the circle is made of its parts.                           *)
LEMMA BetweenParts ==
    ASSUME NEW s \in Int, NEW a \in Int, NEW c \in Int, NEW n \in Int,
           c # s, Between(s, a, n)
    PROVE  Between(s, a, c) \/ a = c \/ Between(c, a, n)
  BY DEF Between

LEMMA WalkStep ==
    ASSUME StoreInv, NEW p \in Procs, Step(p), OutcomeInv(p), WalkInv(p)
    PROVE  WalkInv(p)'
<1>1. TypeInv /\ TypeOK /\ Shape(p)
  BY DEF StoreInv, TypeInv
<1>2. ASSUME pc'[p] # "check", res'[p] # "full" PROVE WalkInv(p)'
  BY <1>2 DEF WalkInv
<1>3. CASE Invoke(p) \/ Open(p)
  <2>1. pc'[p] # "check" /\ res'[p] = "none"
    BY <1>1, <1>3 DEF TypeOK, Invoke, Open, Goto, OutcomeInv
  <2> QED
    BY <1>2, <2>1
<1>4. CASE Gone(p)
  BY <1>1, <1>2, <1>4, GoneFacts
<1>5. CASE VerifyGateway(p) \/ CheckGateway(p) \/ PutGateway(p)
  <2>1. pc'[p] # "check" /\ res'[p] # "full"
    BY <1>1, <1>5 DEF TypeOK, VerifyGateway, CheckGateway, PutGateway, Goto, Fail,
       OutcomeInv
  <2> QED
    BY <1>2, <2>1
<1>6. CASE PutAddress(p) \/ PrintResult(p) \/ StoreFails(p)
  <2>1. pc'[p] # "check" /\ res'[p] # "full"
    BY <1>1, <1>6 DEF TypeOK, PutAddress, PrintResult, StoreFails, Goto, Fail,
       OutcomeInv
  <2> QED
    BY <1>2, <2>1
<1>7. CASE Release(p) \/ ReleaseByID(p)
  <2>1. pc'[p] # "check" /\ res'[p] # "full"
    BY <1>1, <1>7 DEF TypeOK, Release, ReleaseByID, ThenUpdate, Goto, Fail,
       OutcomeInv
  <2> QED
    BY <1>2, <2>1
<1>8. CASE Update(p) \/ UpdateFails(p)
  <2>1. AfterUpdate(p) /\ pc[p] = "update"
    BY <1>8 DEF Update, UpdateFails
  <2>2. pc'[p] # "check" /\ res'[p] # "full"
    BY <1>1, <2>1, AfterUpdateCases DEF TypeOK, Goto, OutcomeInv
  <2> QED
    BY <1>2, <2>2
<1>9. ASSUME pc[p] \in {"pick", "check"}
      PROVE  /\ fam[p] \in Fam /\ MaskAccepted(Sub(p))
             /\ Sub(p).lo \in Int /\ Sub(p).hi \in Int /\ Sub(p).lo \in Addr
             /\ \A a \in Addr : a \in Int
             /\ \A c \in Int : InSubnet(Sub(p), c) =>
                   NextIP(fam[p], Sub(p), c) \in Int
             /\ \A c, a \in Int : InSubnet(Sub(p), c) /\ Host(fam[p], Sub(p), a) =>
                   ~Between(c, a, NextIP(fam[p], Sub(p), c))
  <2>1. HasIP(conf[p], fam[p]) /\ pc[p] # "idle" /\ fam[p] \in Fam
    BY <1>1, <1>9 DEF Shape, TypeOK
  <2>2. /\ MaskAccepted(Sub(p)) /\ Sub(p).lo \in Addr
        /\ Sub(p).lo \in Int /\ Sub(p).hi \in Int
        /\ \A c \in Int : InSubnet(Sub(p), c) => NextIP(fam[p], Sub(p), c) \in Addr
    BY <1>1, <2>1, FamFacts
  <2>3. \A a \in Addr : a \in Int
    BY AddrAssumption
  <2>4. \A c, a \in Int : InSubnet(Sub(p), c) /\ Host(fam[p], Sub(p), a) =>
           ~Between(c, a, NextIP(fam[p], Sub(p), c))
    BY <2>1, <2>2, NextIPAdjacent
  <2> QED
    BY <2>1, <2>2, <2>3, <2>4
<1>10. CASE Pick(p)
  <2>1. /\ pc[p] = "pick" /\ UNCHANGED <<db, conf, fam>>
        /\ \/ pc'[p] = "check" /\ Explicit(p) /\ res' = res
           \/ pc'[p] = "close" /\ res'[p] = "outside"
           \/ /\ pc'[p] = "check" /\ res' = res /\ InSubnet(Sub(p), StartIP(p))
              /\ start'[p] = StartIP(p)
              /\ cur'[p] = NextIP(fam[p], Sub(p), StartIP(p))
    BY <1>1, <1>10 DEF TypeOK, Pick, Goto, Fail
  <2>2. res[p] = "none" /\ Explicit(p)' = Explicit(p)
    BY <2>1 DEF OutcomeInv, Explicit
  <2>3. StartIP(p) \in Int
    BY <1>1, <1>9, <2>1 DEF StartIP, TypeOK
  <2>4. CASE InSubnet(Sub(p), StartIP(p)) /\ start'[p] = StartIP(p)
             /\ cur'[p] = NextIP(fam[p], Sub(p), StartIP(p)) /\ res' = res
    <3>1. \A a \in Addr : Between(start'[p], a, cur'[p]) => ~Host(fam[p], Sub(p), a)
      BY <1>9, <2>1, <2>3, <2>4
    <3>2. Sub(p)' = Sub(p)
      BY <2>1 DEF Sub
    <3> QED
      BY <2>1, <2>2, <2>3, <2>4, <3>1, <3>2 DEF WalkInv, Taken
  <2> QED
    BY <2>1, <2>2, <2>4 DEF WalkInv
<1>11. CASE CheckAddress(p)
  <2>1. /\ pc[p] = "check" /\ UNCHANGED <<db, conf, fam, start>>
        /\ \/ pc'[p] = "put" /\ res' = res
           \/ pc'[p] = "close" /\ res'[p] \in {"dup", "taken"}
           \/ /\ pc'[p] = "close" /\ ~Explicit(p) /\ cur[p] = start[p]
              /\ db[CurKey(p)] # Free
           \/ /\ ~Explicit(p) /\ cur[p] # start[p] /\ db[CurKey(p)] # Free
              /\ cur'[p] = NextIP(fam[p], Sub(p), cur[p]) /\ res' = res
    BY <1>1, <1>11
       DEF TypeOK, CheckAddress, AddressFree, AddressTaken, Goto, Fail
  <2>2. res[p] = "none" /\ Explicit(p)' = Explicit(p) /\ Sub(p)' = Sub(p)
    BY <2>1 DEF OutcomeInv, Explicit, Sub
  <2>3. cur[p] \in Addr /\ InSubnet(Sub(p), cur[p])
    BY <1>1, <2>1 DEF Shape, Host
  <2>4. CASE pc'[p] = "close" /\ ~Explicit(p) /\ cur[p] = start[p]
             /\ db[CurKey(p)] # Free
    <3>1. \A a \in Addr : a # cur[p] => Taken(p, a)
      BY <1>9, <2>1, <2>3, <2>4 DEF WalkInv, Between
    <3>2. Taken(p, cur[p])
      BY <2>4 DEF Taken, CurKey
    <3>3. \A a \in Addr : Taken(p, a)'
      BY <2>1, <2>2, <3>1, <3>2 DEF Taken
    <3> QED
      BY <2>4, <3>3 DEF WalkInv
  <2>5. CASE ~Explicit(p) /\ cur[p] # start[p] /\ db[CurKey(p)] # Free
             /\ cur'[p] = NextIP(fam[p], Sub(p), cur[p]) /\ res' = res
    <3>1. start[p] \in Int /\ InSubnet(Sub(p), start[p])
          /\ \A a \in Addr : Between(start[p], a, cur[p]) => Taken(p, a)
      BY <2>1, <2>5 DEF WalkInv
    <3>2. ASSUME NEW a \in Addr, Between(start[p], a, cur'[p]),
                 Host(fam[p], Sub(p), a)
          PROVE  db[<<fam[p], a>>] # Free
      <4>1. a \in Int /\ cur[p] \in Int /\ cur'[p] \in Int
        BY <1>9, <2>1, <2>3, <2>5
      <4>2. ~Between(cur[p], a, cur'[p])
        BY <1>9, <2>1, <2>3, <2>5, <3>2, <4>1
      <4>3. Between(start[p], a, cur[p]) \/ a = cur[p]
        BY <2>5, <3>1, <3>2, <4>1, <4>2, BetweenParts
      <4> QED
        BY <2>5, <3>1, <3>2, <4>3 DEF Taken, CurKey
    <3>3. \A a \in Addr : Between(start'[p], a, cur'[p]) => Taken(p, a)'
      BY <2>1, <2>2, <3>2 DEF Taken
    <3> QED
      BY <2>1, <2>2, <2>5, <3>1, <3>3 DEF WalkInv
  <2> QED
    BY <1>2, <2>1, <2>2, <2>4, <2>5
<1> QED
  BY <1>3, <1>4, <1>5, <1>6, <1>7, <1>8, <1>10, <1>11
     DEF Step, Progress, Fault, OpenTimeout, Close, Crash

-----------------------------------------------------------------------------
(* The theorems.                                                           *)

LEMMA CommandsInvNext == CommandsInv /\ [Next]_vars => CommandsInv'
<1> SUFFICES ASSUME CommandsInv, [Next]_vars PROVE CommandsInv'
  OBVIOUS
<1>1. StoreInv /\ TypeInv /\ StoreInv'
  BY StoreInvNext DEF CommandsInv, StoreInv
<1>2. ASSUME NEW p \in Procs, Step(p), NEW q \in Procs PROVE CommandInv(q)'
  <2>1. CASE q # p
    BY <1>1, <1>2, <2>1, OthersCommand DEF CommandsInv
  <2>2. CASE q = p
    <3>1. OutcomeInv(p) /\ DoneInv(p) /\ DelInv(p) /\ ReleasedInv(p) /\ WalkInv(p)
      BY DEF CommandsInv, CommandInv
    <3>2. OutcomeInv(p)' /\ DoneInv(p)' /\ DelInv(p)' /\ ReleasedInv(p)' /\ WalkInv(p)'
      BY <1>1, <1>2, <3>1, OutcomeStep, DoneStep, DelStep, ReleasedStep, WalkStep
    <3> QED
      BY <2>2, <3>2 DEF CommandInv
  <2> QED
    BY <2>1, <2>2
<1>3. CASE UNCHANGED vars
  BY <1>1, <1>3, CommandFrame DEF vars, CommandsInv
<1> QED
  BY <1>1, <1>2, <1>3 DEF CommandsInv, Next, Step

LEMMA CommandsInvAlways == Spec => []CommandsInv
<1>1. Init => StoreInv
  <2>1. Init => IdsUnique /\ \A p \in Procs : Pending(p)
    BY DEF Init, IdsUnique, Key, Pending
  <2> QED
    BY <2>1, TypeInvInit DEF StoreInv
<1>2. Init => \A p \in Procs : CommandInv(p)
  BY DEF Init, CommandInv, OutcomeInv, DoneInv, DelInv, ReleasedInv, WalkInv,
     Released, Adding
<1> QED
  BY <1>1, <1>2, CommandsInvNext, PTL DEF Spec, CommandsInv

(* What an ADD prints is recorded: its addresses are hosts of their        *)
(* subnets stored under its id, beside a gateway that is stored as one.    *)
THEOREM ResultsRecorded == Spec => []ResultRecorded
<1>1. CommandsInv => ResultRecorded
  <2> SUFFICES ASSUME CommandsInv, NEW p \in Procs, pc[p] = "print",
                      NEW f \in Fam, HasIP(conf[p], f)
               PROVE  /\ Host(f, conf[p].subnet[f], ip[p][f])
                      /\ ip[p][f] # Gateway(conf[p], f)
                      /\ db[<<f, ip[p][f]>>] \in OwnedBy(f, conf[p].id)
                      /\ db[<<f, Gateway(conf[p], f)>>] = GatewayValue(f)
    BY DEF ResultRecorded, OwnedBy
  <2>1. TypeInv /\ conf[p].cmd = "ADD" /\ DoneInv(p)
    BY DEF CommandsInv, CommandInv, StoreInv, TypeInv, Shape
  <2>2. /\ db[<<f, Gateway(conf[p], f)>>] = GatewayValue(f)
        /\ Host(f, conf[p].subnet[f], ip[p][f])
        /\ db[<<f, ip[p][f]>>] \in OwnedBy(f, conf[p].id)
    BY <2>1 DEF DoneInv, GatewayDone, AddressDone, FamilyDone, Adding
  <2>3. conf[p].id \in Ids \cup {NoId}
    BY <2>1, RunFacts
  <2> QED
    BY <2>2, <2>3, ValuesApart
<1> QED
  BY <1>1, CommandsInvAlways, PTL

(* A DEL by id that succeeds leaves no address stored under the id in      *)
(* either family, whatever ended half way before it.                       *)
THEOREM DelsByIdClean == Spec => []DelByIdClean
<1>1. CommandsInv => DelByIdClean
  <2> SUFFICES ASSUME CommandsInv, NEW p \in Procs, res[p] = "ok",
                      conf[p].cmd = "DEL", ~HasAddress(conf[p]), NEW k \in Key
               PROVE  db[k] # OwnValue(conf[p].id)
    BY DEF DelByIdClean
  <2>1. pc[p] = "close" /\ ReleasedInv(p)
    BY DEF CommandsInv, CommandInv, OutcomeInv
  <2>2. PICK f \in Fam, a \in Addr : k = <<f, a>>
    BY DEF Key
  <2>3. UniqueID(f, OwnValue(conf[p].id))
    BY <2>1 DEF ReleasedInv, Released
  <2> QED
    BY <2>2, <2>3 DEF UniqueID
<1> QED
  BY <1>1, CommandsInvAlways, PTL

(* A DEL that names addresses and succeeds has released every one of them. *)
THEOREM DelsNamedClean == Spec => []DelNamedClean
<1>1. CommandsInv => DelNamedClean
  <2> SUFFICES ASSUME CommandsInv, NEW p \in Procs, NEW f \in Fam, res[p] = "ok",
                      conf[p].cmd = "DEL", conf[p].address[f] # None
               PROVE  db[<<f, conf[p].address[f]>>] \notin OwnedBy(f, conf[p].id)
    BY DEF DelNamedClean, OwnedBy
  <2>1. pc[p] = "close" /\ ReleasedInv(p) /\ TypeInv
    BY DEF CommandsInv, CommandInv, OutcomeInv, StoreInv
  <2>2. db[<<f, conf[p].address[f]>>] = Free
    BY <2>1 DEF ReleasedInv, Released
  <2>3. conf[p].id \in Ids \cup {NoId}
    BY <2>1, RunFacts
  <2> QED
    BY <2>2, <2>3, OwnedFacts
<1> QED
  BY <1>1, CommandsInvAlways, PTL

(* The search gives up only in a subnet without a free host.               *)
THEOREM GivesUpWhenFull == Spec => []ExhaustedMeansFull
<1>1. CommandsInv => ExhaustedMeansFull
  BY DEF CommandsInv, CommandInv, WalkInv, Taken, ExhaustedMeansFull
<1> QED
  BY <1>1, CommandsInvAlways, PTL
=============================================================================
