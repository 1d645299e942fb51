------------------------------ MODULE Gateway ------------------------------
(***************************************************************************)
(* The gateway of a VPC subnet: pkg/utils/gateway.go, and the IPv6 prefix  *)
(* length of plugins/eni/engine/engine.go.                                 *)
(*                                                                         *)
(* A block is what net.ParseCIDR makes of a string: the family, the        *)
(* address as it was written, a number, and the size of the subnet, which  *)
(* stands for its mask.                                                    *)
(***************************************************************************)
EXTENDS Integers

Block == [kind : {"v4", "v6", "malformed"}, ip : Nat, size : Nat \ {0}]

NoBlock == [kind |-> "malformed", ip |-> 0, size |-> 1]

Error == <<"error">>

(* A mask between /16 and /28.                                             *)
SizeAccepted(b) == 16 <= b.size /\ b.size <= 65536

(* The last byte of the address is incremented, and nothing is carried.    *)
Increment(b) == b.ip - (b.ip % 256) + (((b.ip % 256) + 1) % 256)

ComputeIPV4GatewayNetmask(b) ==
    IF b.kind = "v4" /\ SizeAccepted(b)
    THEN <<"subnet", Increment(b), b.size>>
    ELSE Error

ParseIPV4GatewayNetmask(b) ==
    IF b.kind = "v4" /\ SizeAccepted(b) THEN <<"subnet", b.ip, b.size>> ELSE Error

getIPV6PrefixLength(b) ==
    IF b.kind # "malformed" THEN <<"prefix", b.size>> ELSE Error

-----------------------------------------------------------------------------
(* What the metadata gives is the address of a network.  A size is a power *)
(* of 2: all that matters is that one of at least 16 is a multiple of 16.  *)
IsNetwork(b) ==
    b.kind = "v4" => /\ b.ip % b.size = 0
                     /\ 16 <= b.size => b.size % 16 = 0

(* A VPC's gateways are "at base + 1" of the subnet.                       *)
BasePlusOne(b) == (b.ip - (b.ip % b.size)) + 1
=============================================================================
