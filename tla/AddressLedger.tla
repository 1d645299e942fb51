---------------------------- MODULE AddressLedger ----------------------------
(***************************************************************************)
(* What the ipam plugin promises its caller, with no store, no lock and no *)
(* processes: a ledger that says who owns each address, and the set of     *)
(* addresses that containers are using.                                    *)
(***************************************************************************)
CONSTANTS
    Key,       \* the addresses
    Holder,    \* those who can use an address
    Reserver,  \* those who can own one without using it: the gateways
    Free       \* the owner of an address nobody owns

Owner == Holder \cup Reserver

VARIABLES
    owner,     \* the ledger
    held       \* who uses what

vars == <<owner, held>>

Use == [id : Holder, key : Key]

TypeOK ==
    /\ owner \in [Key -> Owner \cup {Free}]
    /\ held \subseteq Use

Init ==
    /\ owner = [k \in Key |-> Free]
    /\ held = {}

(* Nobody takes an address that has an owner.                              *)
Reserve(k, o) ==
    /\ owner[k] = Free
    /\ owner' = [owner EXCEPT ![k] = o]
    /\ UNCHANGED held

(* An address goes back only when no container uses it.                    *)
Return(k) ==
    /\ \A u \in held : u.key # k
    /\ owner' = [owner EXCEPT ![k] = Free]
    /\ UNCHANGED held

(* A container learns only of addresses it owns.                           *)
Hand(o, ks) ==
    /\ \A k \in ks : owner[k] = o
    /\ held' = held \cup [id : {o}, key : ks]
    /\ UNCHANGED owner

Drop(us) ==
    /\ held' = held \ us
    /\ UNCHANGED owner

Next ==
    \/ \E k \in Key : Return(k) \/ \E o \in Owner : Reserve(k, o)
    \/ \E o \in Holder, ks \in SUBSET Key : Hand(o, ks)
    \/ \E us \in SUBSET held : Drop(us)

Spec == Init /\ [][Next]_vars

(* An address in use belongs, in the ledger, to the container that uses    *)
(* it; hence no two containers use one address.                            *)
UsersOwn == \A u \in held : owner[u.key] = u.id

NeverShared == \A u, w \in held : u.key = w.key => u.id = w.id
=============================================================================
