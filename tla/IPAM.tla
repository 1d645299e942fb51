-------------------------------- MODULE IPAM --------------------------------
(***************************************************************************)
(* The ecs-ipam plugin: plugins/ipam/commands and plugins/ipam/ipstore.    *)
(*                                                                         *)
(* The container runtime runs one process per ADD or DEL command.  All of  *)
(* them share one boltdb file.  A process holds the lock of the file from  *)
(* NewIPAllocatorDualStack to Close and touches the file in transactions   *)
(* of one read or one write each; a process that dies loses the lock and   *)
(* leaves in the file what it had written.  An action of this module is    *)
(* one such write, or the reads between two of them.                       *)
(***************************************************************************)
EXTENDS IPAMConfig

CONSTANTS
    Procs,    \* places for commands that run at the same time
    Free,     \* what the store holds under a key that is not there
    Faults,   \* which of "crash", "store" and "update" may happen
    StaleDel  \* may a DEL name an address that is no longer its container's?

ASSUME FaultAssumption == Faults \subseteq {"crash", "store", "update"}

Key == Fam \X Addr

(* The id under which an address is stored.  An explicit IPv6 address gets *)
(* the suffix "-v6"; a gateway gets a constant of its own.                 *)
OwnValue(id) == <<id, "">>

ExplicitValue(f, id) == <<id, IF f = 6 THEN "-v6" ELSE "">>

GatewayValue(f) == <<"GateWay", IF f = 6 THEN "V6" ELSE "">>

Value == {OwnValue(id) : id \in Ids \cup {NoId}}
           \cup {ExplicitValue(f, id) : f \in Fam, id \in Ids \cup {NoId}}
           \cup {GatewayValue(f) : f \in Fam}

Empty == OwnValue(NoId)    \* the empty string

ASSUME FreeAssumption == Free \notin Value

ASSUME ProcAssumption == None \notin Procs

VARIABLES
    lock,     \* the process that holds the file lock, or None
    db,       \* the keys "1..." (family 4) and "61...", "6f..." (family 6)
    last,     \* the keys lastKnownIP and lastKnownIPv6
    pc,       \* where each process is
    conf,     \* its configuration, None when there is no process
    fam,      \* the family it is working on
    cur,      \* the address it is about to examine or to write
    start,    \* lastKnownIP of its IPManager when the search began
    ip,       \* per family, the address assigned or released so far
    res,      \* how the command ends
    granted   \* what the runtime believes: addresses of live containers

vars == <<lock, db, last, pc, conf, fam, cur, start, ip, res, granted>>

Steps == {"idle", "open", "gateway", "gwCheck", "gwPut", "pick", "check",
          "put", "release", "update", "print", "close"}

(* LoadDBConfig asks for a persistent connection: one session, from the    *)
(* opening of the store to its close, is one hold of the lock.             *)
Session == Steps \ {"idle", "open"}

Results == {"none", "ok", "used", "taken", "dup", "outside", "full",
            "absent", "io"}

NoAddrs == [f \in Fam |-> None]

Grant == [id : Ids \cup {NoId}, key : Key]

Init ==
    /\ lock = None
    /\ db = [k \in Key |-> Free]
    /\ last = [f \in Fam |-> None]
    /\ pc = [p \in Procs |-> "idle"]
    /\ conf = [p \in Procs |-> None]
    /\ fam = [p \in Procs |-> 4]
    /\ cur = [p \in Procs |-> None]
    /\ start = [p \in Procs |-> None]
    /\ ip = [p \in Procs |-> NoAddrs]
    /\ res = [p \in Procs |-> "none"]
    /\ granted = {}

-----------------------------------------------------------------------------
(* Helpers.                                                                *)

Goto(p, step) == pc' = [pc EXCEPT ![p] = step]

(* Return an error: the deferred Close comes next.                         *)
Fail(p, why) ==
    /\ Goto(p, "close")
    /\ res' = [res EXCEPT ![p] = why]

(* The process is gone.                                                    *)
Gone(p) ==
    /\ Goto(p, "idle")
    /\ conf' = [conf EXCEPT ![p] = None]
    /\ fam' = [fam EXCEPT ![p] = 4]
    /\ cur' = [cur EXCEPT ![p] = None]
    /\ start' = [start EXCEPT ![p] = None]
    /\ ip' = [ip EXCEPT ![p] = NoAddrs]
    /\ res' = [res EXCEPT ![p] = "none"]

Sub(p) == conf[p].subnet[fam[p]]

(* The key the process is looking at.                                      *)
CurKey(p) == <<fam[p], cur[p]>>

Explicit(p) == conf[p].address[fam[p]] # None

Wanted(p) ==
    IF Explicit(p) THEN ExplicitValue(fam[p], conf[p].id)
                   ELSE OwnValue(conf[p].id)

(* Get returns the empty string for a key that is not there.               *)
Get(k) == IF db[k] = Free THEN Empty ELSE db[k]

(* UniqueID lists the keys of prefix "1", UniqueIDv6 those of prefix "6".  *)
UniqueID(f, v) == \A a \in Addr : db[<<f, a>>] # v

(* Assign, also for a key of family 6, calls UniqueID; assignIPv6, which   *)
(* only the search for an IPv6 address uses, calls UniqueIDv6.             *)
ScannedFam(p) == IF Explicit(p) THEN 4 ELSE fam[p]

Grants(c, addrs) ==
    [id : {c.id}, key : {<<f, addrs[f]>> : f \in {g \in Fam : addrs[g] # None}}]

-----------------------------------------------------------------------------
(* The runtime starts a command.  It does not run two commands for one     *)
(* container at the same time, and the container of a DEL no longer uses   *)
(* its addresses.                                                          *)

OneCommandPerContainer(c) ==
    c.id # NoId => \A q \in Procs : conf[q] # None => conf[q].id # c.id

(* The addresses a DEL names are still recorded for its container, and no  *)
(* other command names them or is about to return them.                    *)
NamesOwnAddresses(c) ==
    \A f \in Fam : c.address[f] # None =>
        /\ db[<<f, c.address[f]>>] \in {OwnValue(c.id), ExplicitValue(f, c.id)}
        /\ \A q \in Procs : conf[q] # None =>
              c.address[f] \notin {conf[q].address[f], ip[q][f]}

Dropped(c) ==
    {g \in granted : \/ g.id = c.id /\ ~HasAddress(c)
                     \/ c.address[g.key[1]] = g.key[2]}

Invoke(p) == \E c \in Confs :
    /\ pc[p] = "idle"
    /\ LoadIPAMConfig(c)
    /\ c.cmd = "DEL" => validateDelConfiguration(c)
    /\ OneCommandPerContainer(c)
    /\ c.cmd = "DEL" => StaleDel \/ NamesOwnAddresses(c)
    /\ Goto(p, "open")
    /\ conf' = [conf EXCEPT ![p] = c]
    /\ granted' = IF c.cmd = "DEL" THEN granted \ Dropped(c) ELSE granted
    /\ UNCHANGED <<lock, db, last, fam, cur, start, ip, res>>

OpenUnlocked(p) ==                                                \* mutation
    /\ pc[p] = "open"
    /\ lock' = p
    /\ Goto(p, IF conf[p].cmd = "ADD" THEN "gateway" ELSE "release")
    /\ fam' = [fam EXCEPT ![p] =
                 IF conf[p].cmd = "ADD" /\ ~HasIP(conf[p], 4) THEN 6 ELSE 4]
    /\ UNCHANGED <<db, last, conf, cur, start, ip, res, granted>>

(* NewIPAllocatorDualStack: boltdb opens the file under an exclusive lock. *)
Open(p) ==
    /\ pc[p] = "open"
    /\ lock = None
    /\ lock' = p
    /\ Goto(p, IF conf[p].cmd = "ADD" THEN "gateway" ELSE "release")
    /\ fam' = [fam EXCEPT ![p] =
                 IF conf[p].cmd = "ADD" /\ ~HasIP(conf[p], 4) THEN 6 ELSE 4]
    /\ UNCHANGED <<db, last, conf, cur, start, ip, res, granted>>

(* The lock was not obtained within the connection timeout.                *)
OpenTimeout(p) ==
    /\ pc[p] = "open"
    /\ lock # None
    /\ Gone(p)
    /\ UNCHANGED <<lock, db, last, granted>>

Close(p) ==
    /\ pc[p] = "close"
    /\ lock' = None
    /\ Gone(p)
    /\ UNCHANGED <<db, last, granted>>

-----------------------------------------------------------------------------
(* ADD, for one family after the other.                                    *)

VerifyGatewayOnly(p) ==                                           \* mutation
    /\ pc[p] = "gateway"
    /\ Goto(p, "pick")
    /\ UNCHANGED <<lock, db, last, conf, fam, cur, start, ip, res, granted>>

(* verifyGateway, verifyGatewayV6: Get the key of the gateway.             *)
VerifyGateway(p) ==
    LET gw    == Gateway(conf[p], fam[p])
        value == Get(<<fam[p], gw>>)
    IN  /\ pc[p] = "gateway"
        /\ \/ /\ value = Empty
              /\ cur' = [cur EXCEPT ![p] = gw]
              /\ Goto(p, "gwCheck")
              /\ UNCHANGED res
           \/ /\ value = GatewayValue(fam[p])
              /\ Goto(p, "pick")
              /\ UNCHANGED <<cur, res>>
           \/ /\ value \notin {Empty, GatewayValue(fam[p])}
              /\ Fail(p, "used")
              /\ UNCHANGED cur
        /\ UNCHANGED <<lock, db, last, conf, fam, start, ip, granted>>

(* Assign for the gateway: it may be an address stored with an empty id,   *)
(* and in family 4 another gateway may have the id.                        *)
CheckGateway(p) ==
    /\ pc[p] = "gwCheck"
    /\ \/ db[CurKey(p)] # Free /\ Fail(p, "taken")
       \/ /\ db[CurKey(p)] = Free
          /\ ~UniqueID(4, GatewayValue(fam[p]))
          /\ Fail(p, "dup")
       \/ /\ db[CurKey(p)] = Free
          /\ UniqueID(4, GatewayValue(fam[p]))
          /\ Goto(p, "gwPut")
          /\ UNCHANGED res
    /\ UNCHANGED <<lock, db, last, conf, fam, cur, start, ip, granted>>

PutGateway(p) ==
    /\ pc[p] = "gwPut"
    /\ db' = [db EXCEPT ![CurKey(p)] = GatewayValue(fam[p])]
    /\ Goto(p, "pick")
    /\ UNCHANGED <<lock, last, conf, fam, cur, start, ip, res, granted>>

(* Where the search begins: at the last known address, or at the network   *)
(* address when the store has none.                                        *)
StartIP(p) == IF last[fam[p]] = None THEN Sub(p).lo ELSE last[fam[p]]

(* getIPV4Address, getIPV6Address: the address of the configuration, or    *)
(* the first one of the search.                                            *)
Pick(p) ==
    /\ pc[p] = "pick"
    /\ \/ /\ Explicit(p)
          /\ cur' = [cur EXCEPT ![p] = conf[p].address[fam[p]]]
          /\ Goto(p, "check")
          /\ UNCHANGED <<start, res>>
       \/ /\ ~Explicit(p)
          /\ ~InSubnet(Sub(p), StartIP(p))
          /\ Fail(p, "outside")
          /\ UNCHANGED <<cur, start>>
       \/ /\ ~Explicit(p)
          /\ InSubnet(Sub(p), StartIP(p))
          /\ start' = [start EXCEPT ![p] = StartIP(p)]
          /\ cur' = [cur EXCEPT ![p] = NextIP(fam[p], Sub(p), StartIP(p))]
          /\ Goto(p, "check")
          /\ UNCHANGED res
    /\ UNCHANGED <<lock, db, last, conf, fam, ip, granted>>

AddressFreeAnyId(p) ==                                            \* mutation
    /\ db[CurKey(p)] = Free
    /\ Goto(p, "put")
    /\ UNCHANGED <<cur, res>>

AddressTakenStartSkipped(p) ==                                    \* mutation
    LET next == NextIP(fam[p], Sub(p), cur[p])
    IN  /\ db[CurKey(p)] # Free
        /\ IF next = start[p]
           THEN Fail(p, "full") /\ UNCHANGED cur
           ELSE cur' = [cur EXCEPT ![p] = next] /\ UNCHANGED <<pc, res>>

AddressTakenStopAtNetwork(p) ==                                   \* mutation
    /\ db[CurKey(p)] # Free
    /\ IF cur[p] = Sub(p).lo
       THEN Fail(p, "full") /\ UNCHANGED cur
       ELSE /\ cur' = [cur EXCEPT ![p] = NextIP(fam[p], Sub(p), cur[p])]
            /\ UNCHANGED <<pc, res>>

AddressTakenExplicitWins(p) ==                                    \* mutation
    /\ db[CurKey(p)] # Free
    /\ Explicit(p)
    /\ Goto(p, "put")
    /\ UNCHANGED <<cur, res>>

(* The reads of Assign and assignIPv6, and in the search of GetAvailableIP *)
(* and GetAvailableIPv6 the step to the next address.                      *)
AddressFree(p) ==
    /\ db[CurKey(p)] = Free
    /\ \/ /\ Wanted(p) = Empty \/ UniqueID(ScannedFam(p), Wanted(p))
          /\ Goto(p, "put")
          /\ UNCHANGED <<cur, res>>
       \/ /\ Wanted(p) # Empty /\ ~UniqueID(ScannedFam(p), Wanted(p))
          /\ Fail(p, "dup")
          /\ UNCHANGED cur

AddressTaken(p) ==
    /\ db[CurKey(p)] # Free
    /\ \/ /\ Explicit(p)
          /\ Fail(p, "taken")
          /\ UNCHANGED cur
       \/ /\ ~Explicit(p)
          /\ cur[p] = start[p]
          /\ Fail(p, "full")
          /\ UNCHANGED cur
       \/ /\ ~Explicit(p)
          /\ cur[p] # start[p]
          /\ cur' = [cur EXCEPT ![p] = NextIP(fam[p], Sub(p), cur[p])]
          /\ UNCHANGED <<pc, res>>

CheckAddress(p) ==
    /\ pc[p] = "check"
    /\ AddressFree(p) \/ AddressTaken(p)
    /\ UNCHANGED <<lock, db, last, conf, fam, start, ip, granted>>

PutAddress(p) ==
    /\ pc[p] = "put"
    /\ db' = [db EXCEPT ![CurKey(p)] = Wanted(p)]
    /\ ip' = [ip EXCEPT ![p][fam[p]] = cur[p]]
    /\ Goto(p, "update")
    /\ UNCHANGED <<lock, last, conf, fam, cur, start, res, granted>>

-----------------------------------------------------------------------------
(* DEL.                                                                    *)

ThenUpdateAtOnce(p) ==                                            \* mutation
    /\ IF fam[p] = 4 /\ ~Explicit(p)
       THEN fam' = [fam EXCEPT ![p] = 6] /\ UNCHANGED pc
       ELSE fam' = [fam EXCEPT ![p] = 4] /\ Goto(p, "update")
    /\ UNCHANGED res

ThenUpdate(p) ==
    IF fam[p] = 4
    THEN /\ fam' = [fam EXCEPT ![p] = 6]
         /\ UNCHANGED <<pc, res>>
    ELSE /\ fam' = [fam EXCEPT ![p] = 4]
         /\ Goto(p, "update")
         /\ UNCHANGED res

Delete(p, a) ==
    /\ db' = [db EXCEPT ![<<fam[p], a>>] = Free]
    /\ ip' = [ip EXCEPT ![p][fam[p]] = a]

(* Release, for the addresses the configuration names.                     *)
Release(p) ==
    LET named == conf[p].address[fam[p]]
    IN  /\ pc[p] = "release"
        /\ HasAddress(conf[p])
        /\ \/ /\ named = None
              /\ ThenUpdate(p)
              /\ UNCHANGED <<db, ip>>
           \/ /\ named # None
              /\ db[<<fam[p], named>>] = Free
              /\ Fail(p, "absent")
              /\ UNCHANGED <<db, ip, fam>>
           \/ /\ named # None
              /\ db[<<fam[p], named>>] # Free
              /\ Delete(p, named)
              /\ ThenUpdate(p)
        /\ UNCHANGED <<lock, last, conf, cur, start, granted>>

ReleaseByIDOneFamily(p) ==                                        \* mutation
    /\ pc[p] = "release"
    /\ ~HasAddress(conf[p])
    /\ \/ /\ \E a \in Addr :
              db[<<fam[p], a>>] = OwnValue(conf[p].id) /\ Delete(p, a)
          /\ fam' = [fam EXCEPT ![p] = 4]
          /\ Goto(p, "update")
          /\ UNCHANGED res
       \/ /\ UniqueID(fam[p], OwnValue(conf[p].id))
          /\ IF fam[p] = 4 THEN ThenUpdate(p)
                           ELSE Fail(p, "absent") /\ UNCHANGED fam
          /\ UNCHANGED <<db, ip>>
    /\ UNCHANGED <<lock, last, conf, cur, start, granted>>

(* ReleaseByID: in each family the first key that has the id.  The order   *)
(* of the keys is abstracted: any of them.                                 *)
ReleaseByID(p) ==
    LET mine == {a \in Addr : db[<<fam[p], a>>] = OwnValue(conf[p].id)}
    IN  /\ pc[p] = "release"
        /\ ~HasAddress(conf[p])
        /\ \/ /\ \E a \in mine : Delete(p, a)
              /\ ThenUpdate(p)
           \/ /\ mine = {}
              /\ fam[p] = 4 \/ ip[p][4] # None
              /\ ThenUpdate(p)
              /\ UNCHANGED <<db, ip>>
           \/ /\ mine = {}
              /\ fam[p] = 6 /\ ip[p][4] = None
              /\ Fail(p, "absent")
              /\ UNCHANGED <<db, ip, fam>>
        /\ UNCHANGED <<lock, last, conf, cur, start, granted>>

-----------------------------------------------------------------------------
(* Both commands record the last known address of each family and return.  *)

AfterUpdate(p) ==
    CASE fam[p] = 4 /\ conf[p].cmd = "ADD" /\ HasIP(conf[p], 6) ->
            /\ fam' = [fam EXCEPT ![p] = 6]
            /\ Goto(p, "gateway")
            /\ UNCHANGED res
      [] fam[p] = 4 /\ conf[p].cmd = "DEL" ->
            /\ fam' = [fam EXCEPT ![p] = 6]
            /\ UNCHANGED <<pc, res>>
      [] fam[p] = 6 /\ conf[p].cmd = "DEL" ->
            /\ Goto(p, "close")
            /\ res' = [res EXCEPT ![p] = "ok"]
            /\ UNCHANGED fam
      [] OTHER ->
            /\ Goto(p, "print")
            /\ UNCHANGED <<fam, res>>

Update(p) ==
    /\ pc[p] = "update"
    /\ last' = [last EXCEPT ![fam[p]] =
                  IF ip[p][fam[p]] = None THEN @ ELSE ip[p][fam[p]]]
    /\ AfterUpdate(p)
    /\ UNCHANGED <<lock, db, conf, cur, start, ip, granted>>

(* The runtime learns the addresses.                                       *)
PrintResult(p) ==
    /\ pc[p] = "print"
    /\ granted' = granted \cup Grants(conf[p], ip[p])
    /\ Goto(p, "close")
    /\ res' = [res EXCEPT ![p] = "ok"]
    /\ UNCHANGED <<lock, db, last, conf, fam, cur, start, ip>>

-----------------------------------------------------------------------------
(* Faults.                                                                 *)

(* A failed Update is a warning, the command goes on.                      *)
UpdateFails(p) ==
    /\ "update" \in Faults
    /\ pc[p] = "update"
    /\ ip[p][fam[p]] # None
    /\ AfterUpdate(p)
    /\ UNCHANGED <<lock, db, last, conf, cur, start, ip, granted>>

(* Any other operation of the store that fails, or a result that cannot    *)
(* be printed, ends the command.                                           *)
StoreFails(p) ==
    /\ "store" \in Faults
    /\ pc[p] \in Session \ {"update", "close"}
    /\ Fail(p, "io")
    /\ UNCHANGED <<lock, db, last, conf, fam, cur, start, ip, granted>>

(* The process dies; the kernel releases its file lock.                    *)
Crash(p) ==
    /\ "crash" \in Faults
    /\ pc[p] # "idle"
    /\ lock' = IF lock = p THEN None ELSE lock
    /\ Gone(p)
    /\ UNCHANGED <<db, last, granted>>

-----------------------------------------------------------------------------

Progress(p) ==
    \/ Open(p) \/ OpenTimeout(p) \/ Close(p)
    \/ VerifyGateway(p) \/ CheckGateway(p) \/ PutGateway(p)
    \/ Pick(p) \/ CheckAddress(p) \/ PutAddress(p)
    \/ Release(p) \/ ReleaseByID(p)
    \/ Update(p) \/ PrintResult(p)

Fault(p) == UpdateFails(p) \/ StoreFails(p) \/ Crash(p)

Next == \E p \in Procs : Invoke(p) \/ Progress(p) \/ Fault(p)

Spec == Init /\ [][Next]_vars

(* A process that has begun is scheduled until it ends.                    *)
FairSpec == Spec /\ \A p \in Procs : WF_vars(Progress(p))

-----------------------------------------------------------------------------
(* Properties.                                                             *)

TypeOK ==
    /\ lock \in Procs \cup {None}
    /\ db \in [Key -> Value \cup {Free}]
    /\ last \in [Fam -> Addr \cup {None}]
    /\ pc \in [Procs -> Steps]
    /\ conf \in [Procs -> Confs \cup {None}]
    /\ fam \in [Procs -> Fam]
    /\ cur \in [Procs -> Addr \cup {None}]
    /\ start \in [Procs -> Addr \cup {None}]
    /\ ip \in [Procs -> [Fam -> Addr \cup {None}]]
    /\ res \in [Procs -> Results]
    /\ granted \subseteq Grant

(* In IPv4 no two addresses are stored under one id, whatever the mix of   *)
(* explicit addresses, searched addresses and gateways: the id is unique   *)
(* when Put runs, although it was checked by an earlier transaction.  The  *)
(* empty id is the exception.  In IPv6 it holds for the ids of containers. *)
IdsUnique ==
    \A f \in Fam, a, b \in Addr :
        /\ db[<<f, a>>] = db[<<f, b>>]
        /\ db[<<f, a>>] \notin {Free, Empty}
        /\ f = 4 \/ db[<<f, a>>] \in {OwnValue(id) : id \in Ids}
        => a = b

(* A key that is in the store keeps its value until it is deleted, and     *)
(* only a DEL that holds the lock deletes: no Put of Assign overwrites the *)
(* address that somebody else was given since the Exists before it.        *)
KeyLifecycle ==
    [][\A k \in Key : db[k] # Free /\ db'[k] # db[k] =>
          /\ db'[k] = Free
          /\ \E p \in Procs : lock = p /\ conf[p].cmd = "DEL"]_vars

(* The addresses an ADD is about to return are hosts of its subnet, they   *)
(* are recorded under its id, and the gateway it returns beside them is    *)
(* another address, recorded as a gateway.                                 *)
ResultRecorded ==
    \A p \in Procs : pc[p] = "print" =>
        \A f \in Fam : HasIP(conf[p], f) =>
            /\ Host(f, conf[p].subnet[f], ip[p][f])
            /\ ip[p][f] # Gateway(conf[p], f)
            /\ db[<<f, ip[p][f]>>] \in {OwnValue(conf[p].id),
                                        ExplicitValue(f, conf[p].id)}
            /\ db[<<f, Gateway(conf[p], f)>>] = GatewayValue(f)

(* The search gives up only when no host address of the subnet is left:    *)
(* the walk from the last known address misses none.                       *)
ExhaustedMeansFull ==
    \A p \in Procs : res[p] = "full" =>
        \A a \in Addr : Host(fam[p], Sub(p), a) => db[<<fam[p], a>>] # Free

(* After a DEL by id has succeeded, neither family holds an address the    *)
(* search had stored under that id, however many ADDs of the container     *)
(* failed half way or were killed before.                                  *)
DelByIdClean ==
    \A p \in Procs :
        res[p] = "ok" /\ conf[p].cmd = "DEL" /\ ~HasAddress(conf[p]) =>
            \A k \in Key : db[k] # OwnValue(conf[p].id)

(* A DEL that names addresses takes back every one of them or fails: it    *)
(* does not succeed while an address it named is stored for its container, *)
(* though it releases them one after the other.                            *)
DelNamedClean ==
    \A p \in Procs, f \in Fam :
        /\ res[p] = "ok" /\ conf[p].cmd = "DEL" /\ conf[p].id # NoId
        /\ conf[p].address[f] # None
        => db[<<f, conf[p].address[f]>>] \notin
              {OwnValue(conf[p].id), ExplicitValue(f, conf[p].id)}

(* No two containers are told that one address is theirs.                  *)
AddressesNeverShared ==
    \A g, h \in granted : g.key = h.key => g.id = h.id

(* A search of a full subnet that began at an address it can never return  *)
(* to: when lastKnownIP was not recorded, the network address.             *)
Endless(p) ==
    /\ pc[p] = "check" /\ ~Explicit(p)
    /\ Reserved(fam[p], Sub(p), start[p])
    /\ \A a \in Addr : Host(fam[p], Sub(p), a) => db[<<fam[p], a>>] # Free

(* Every command ends, whatever fails and whoever is killed, but for one   *)
(* that comes to such a search.                                            *)
CommandsEndOrSearch ==
    \A p \in Procs : pc[p] # "idle" ~> (pc[p] = "idle" \/ Endless(p))

(* Every command ends.                                                     *)
CommandsEnd == \A p \in Procs : pc[p] # "idle" ~> pc[p] = "idle"

(* The plugin implements the ledger: the owner of a key is the id it is    *)
(* stored under, with or without "-v6", and the addresses in use are those *)
(* of the printed results whose container has not been deleted.            *)
OwnerOf == [k \in Key |-> IF db[k] = Free THEN Free ELSE db[k][1]]

Ledger == INSTANCE AddressLedger WITH
    Key <- Key, Holder <- Ids \cup {NoId}, Reserver <- {"GateWay"},
    Free <- Free, owner <- OwnerOf, held <- granted

ImplementsLedger == Ledger!Spec
-----------------------------------------------------------------------------
(* What the comments and the documentation of the plugin say and the code  *)
(* does not do.                                                            *)

(* "ReleaseByID releases all IPs (v4 and v6) associated with an ID."       *)
ReleasesAllOfId ==
    \A p \in Procs :
        res[p] = "ok" /\ conf[p].cmd = "DEL" /\ ~HasAddress(conf[p]) =>
            \A k \in Key : OwnerOf[k] # conf[p].id
=============================================================================
