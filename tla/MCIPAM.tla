------------------------------- MODULE MCIPAM -------------------------------
(***************************************************************************)
(* Small instances of IPAM.  One subnet per family with the addresses      *)
(* 0..3: IPv4 has the hosts 1 and 2, IPv6 the hosts 1, 2 and 3, and the    *)
(* default gateway is 1 in both.                                           *)
(***************************************************************************)
EXTENDS IPAM, TLC, FiniteSets

CONSTANTS p1, p2, c1, c2

MCAddr == 0..3

Small == [ip |-> 0, lo |-> 0, hi |-> 3]

Both(x) == [f \in Fam |-> x]

Only(g, x) == [f \in Fam |-> IF f = g THEN x ELSE None]

Config(cmd, id, subnet, address) ==
    [cmd |-> cmd, id |-> id, subnet |-> subnet, address |-> address,
     gateway |-> Both(None)]

ById(id) == {Config(cmd, id, Both(Small), Both(None)) : cmd \in {"ADD", "DEL"}}

(* Two dual-stack containers whose addresses are searched for.             *)
SearchConfs == ById(c1) \cup ById(c2)

(* The runtime searches for addresses and also names them, in ADD and in   *)
(* DEL, in one family or in both, with an id or without; DELs by id exist  *)
(* as well.                                                                *)
Named(id, f, a) ==
    {Config(cmd, id, Only(f, Small), Only(f, a)) : cmd \in {"ADD", "DEL"}}

ExplicitConfs ==
    Named(c1, 4, 2) \cup Named(c1, 6, 2) \cup Named(NoId, 6, 2)
      \cup Named(NoId, 4, 2) \cup SearchConfs
      \cup {Config(cmd, c2, Both(Small), [f \in Fam |-> 2]) :
               cmd \in {"ADD", "DEL"}}

(* Eight addresses, for a range next to the small subnet.                  *)
MCLargeAddr == 0..7

(* Networks that share the store: two gateways in overlapping ranges, a    *)
(* range elsewhere, an address stored without an id where one network has  *)
(* its gateway, a DEL of an address no container was given, a gateway, and *)
(* one without an id that takes an IPv6 address away from whoever has it.  *)
OtherGateway(c) == [c EXCEPT !.gateway = Both(2)]

Far == [ip |-> 4, lo |-> 4, hi |-> 7]

SharedConfs ==
    ById(c1) \cup {OtherGateway(c) : c \in ById(c2)}
      \cup {Config("ADD", c2, Only(4, Far), Both(None)),
            Config("ADD", NoId, Only(4, Small), Only(4, 2)),
            Config("DEL", c2, Only(4, Small), Only(4, 1)),
            Config("DEL", NoId, Only(6, Small), Only(6, 3))}

(* Configurations for what the documentation says.                         *)
LeakConfs ==
    ById(c1) \cup {Config("ADD", c1, Both(Small), Only(6, 2))}

ProcSymmetry == Permutations({p1, p2})
=============================================================================
