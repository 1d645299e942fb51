------------------------------ MODULE IPAMConfig ------------------------------
(***************************************************************************)
(* The configuration of the ecs-ipam plugin and the address arithmetic     *)
(* that goes with it: plugins/ipam/config/config.go and the two NextIP     *)
(* functions of plugins/ipam/ipstore/ipstore.go.                           *)
(*                                                                         *)
(* An address is an integer: its place on a line that holds the subnets of *)
(* one address family.  A subnet keeps the address it was written with     *)
(* (`ip`: the CNI IPNet type does not mask the host bits away), its        *)
(* network address `lo` and the address `hi` with every host bit set.      *)
(***************************************************************************)
EXTENDS Integers

CONSTANTS
    Ids,     \* the container ids the runtime passes as "id"
    NoId,    \* the empty id: the field is optional
    Addr,    \* the addresses, a set of integers
    None,    \* a field that is not configured (nil)
    Confs    \* the network configurations the plugin is invoked with

Fam == {4, 6}

Subnet == [ip : Addr, lo : Addr, hi : Addr]

Conf == [cmd     : {"ADD", "DEL"},
         id      : Ids \cup {NoId},
         subnet  : [Fam -> Subnet \cup {None}],
         address : [Fam -> Addr \cup {None}],
         gateway : [Fam -> Addr \cup {None}]]

HasIP(c, f) == c.subnet[f] # None

(* A mask longer than /30 (IPv4) or /126 (IPv6) leaves less than four      *)
(* addresses: MaxMask and MaxMaskIPv6.                                     *)
MaskAccepted(s) == s.hi - s.lo >= 3

InSubnet(s, a) == s.lo <= a /\ a <= s.hi

(* The network address, and in IPv4 the broadcast address as well.         *)
Reserved(f, s, a) == a = s.lo \/ (f = 4 /\ a = s.hi)

Host(f, s, a) == InSubnet(s, a) /\ ~Reserved(f, s, a)

(* A gateway that is not configured is the address after subnet.IP, and    *)
(* nothing is checked about it.                                            *)
Gateway(c, f) ==
    IF c.gateway[f] = None THEN c.subnet[f].ip + 1 ELSE c.gateway[f]

(* What LoadIPAMConfig accepts.                                            *)
LoadIPAMConfig(c) ==
    /\ \E f \in Fam : HasIP(c, f)
    /\ \A f \in Fam : HasIP(c, f) =>
         /\ MaskAccepted(c.subnet[f])
         /\ c.address[f] # None => Host(f, c.subnet[f], c.address[f])
         /\ c.gateway[f] # None => Host(f, c.subnet[f], c.gateway[f])

HasAddress(c) == \E f \in Fam : c.address[f] # None

validateDelConfiguration(c) == c.id # NoId \/ HasAddress(c)

BumpNoWrap(s, a) == a + 1                                         \* mutation

(* One pass of the loops of NextIP and NextIPv6: wrap, then add one.       *)
Bump(s, a) == IF a = s.hi THEN s.lo + 1 ELSE a + 1

(* NextIP and NextIPv6 repeat the pass until the address is neither the    *)
(* one they were given nor a reserved one.  In a subnet LoadIPAMConfig     *)
(* accepts, two passes are always enough: NextIPLoop has the loop, and     *)
(* NextIPProofs that this is what it returns.                              *)
NextIP(f, s, a) ==
    LET first == Bump(s, a)
    IN  IF Reserved(f, s, first) THEN Bump(s, first) ELSE first

-----------------------------------------------------------------------------
(* What the constants have to be for the modules built on this one.        *)

ASSUME AddrAssumption == Addr \subseteq Int /\ None \notin Addr /\ None \notin Subnet

ASSUME IdAssumption == NoId \notin Ids /\ "GateWay" \notin Ids \cup {NoId}

(* Every address a configuration leads to has a place in Addr, and a       *)
(* network address never comes after the last address of its subnet.       *)
ASSUME ConfAssumption ==
    /\ Confs \subseteq Conf
    /\ None \notin Confs
    /\ \A c \in Confs, f \in Fam : HasIP(c, f) =>
         /\ c.subnet[f].lo .. c.subnet[f].hi \subseteq Addr
         /\ Gateway(c, f) \in Addr
=============================================================================
