------------------------------ MODULE MCBridge ------------------------------
(***************************************************************************)
(* Small instances of Bridge: containers whose configurations agree on the *)
(* gateways, and containers of different networks on one bridge.           *)
(***************************************************************************)
EXTENDS Bridge, TLC

CONSTANTS c1, c2, c3, a1, a2, gw1, gw2, lo1

MCGateways == {gw1, gw2, lo1}

MCLinkLocal == {lo1}

MCHostMac == [c \in Conts |-> IF c = c1 THEN 2 ELSE 1]

Net(fams, gw4, gw6, wide, daemon, named, block) ==
    [fams |-> fams, gw |-> [f \in Fam |-> IF f = 4 THEN gw4 ELSE gw6],
     wide |-> wide, daemon |-> daemon, named |-> named, block |-> block]

(* A task with a subnet mask, and a daemon with host masks that wants the  *)
(* connected subnet route and the address it names; both are kept from     *)
(* IMDS.                                                                   *)
Task == Net(Fam, gw1, gw1, Fam, {}, {}, TRUE)

Daemon == Net({4}, gw1, gw1, {}, Fam, {4}, TRUE)

TaskAndDaemon == [c \in Conts |-> IF c = c1 THEN Task ELSE Daemon]

(* Two tasks that share everything, IPv4 only.                             *)
SameNet == [c \in Conts |-> Net({4}, gw1, gw1, {4}, {}, {}, FALSE)]

(* Three networks on one bridge: the first differs from the second in IPv4 *)
(* and from the third in IPv6; the second has a link-local IPv6 gateway.   *)
Networks ==
    [c \in Conts |->
        CASE c = c1 -> Net(Fam, gw1, gw1, {4}, {4}, {}, FALSE)
          [] c = c2 -> Net(Fam, gw2, lo1, {6}, {4}, Fam, FALSE)
          [] c = c3 -> Net({6}, gw1, gw2, {6}, {}, {6}, FALSE)]

MCAddr == {a1, a2}

AddrSymmetry == Permutations(MCAddr)
=============================================================================
