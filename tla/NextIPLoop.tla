----------------------------- MODULE NextIPLoop -----------------------------
(***************************************************************************)
(* The loops of NextIP and NextIPv6 (plugins/ipam/ipstore/ipstore.go), one *)
(* pass per step, called again and again as GetAvailableIP does.  They are *)
(* shown to end and to compute the operator NextIP of IPAMConfig.          *)
(***************************************************************************)
EXTENDS IPAMConfig

CONSTANTS
    Subnets,   \* the subnets the loop is called with
    Whole      \* the least address whose first byte is not zero

ASSUME SubnetAssumption ==
    /\ Whole \in Int
    /\ \A t \in Subnets : t \in Subnet /\ MaskAccepted(t) /\ t.lo .. t.hi \subseteq Addr

VARIABLES
    f, s,      \* the function (by family) and the subnet of the call
    given,     \* the address it was given
    next,      \* nextIP
    looping

vars == <<f, s, given, next, looping>>

(* big.Int.Bytes has no leading zero bytes.  NextIPv6 pads the result to   *)
(* 16 bytes again; NextIP does not, and what is left is no IPv4 address.   *)
(* Nil stands for it: net.IP.Equal finds it equal to no address.           *)
Nil == None

Bytes(fam, a) == IF fam = 4 /\ a < Whole THEN Nil ELSE a

Call(from) ==
    /\ given' = from
    /\ next' = from
    /\ looping' = TRUE

Init ==
    /\ f \in Fam
    /\ s \in Subnets
    /\ given \in s.lo .. s.hi
    /\ next = given
    /\ looping = TRUE

Again == next = given \/ Reserved(f, s, next)

PassWithoutWrap ==                                                \* mutation
    /\ looping
    /\ Again
    /\ next' = Bytes(f, next + 1)
    /\ UNCHANGED <<f, s, given, looping>>

PassShadowed ==                                                   \* mutation
    /\ looping
    /\ Again
    /\ next' = IF next = s.hi THEN s.lo ELSE next
    /\ UNCHANGED <<f, s, given, looping>>

Pass ==
    /\ looping
    /\ Again
    /\ next' = Bytes(f, (IF next = s.hi THEN s.lo ELSE next) + 1)
    /\ UNCHANGED <<f, s, given, looping>>

ReturnNext ==
    /\ looping
    /\ ~Again
    /\ looping' = FALSE
    /\ UNCHANGED <<f, s, given, next>>

(* The caller goes on from the address it got, or starts anywhere.  From   *)
(* what is no IPv4 address it gets an error.                               *)
CallAgain ==
    /\ ~looping
    /\ \E from \in {next} \cup s.lo .. s.hi : from # Nil /\ Call(from)
    /\ UNCHANGED <<f, s>>

Next == Pass \/ ReturnNext \/ CallAgain

Spec == Init /\ [][Next]_vars

(* The loops are sequential code.                                          *)
FairSpec == Spec /\ WF_vars(Pass \/ ReturnNext)

-----------------------------------------------------------------------------

TypeOK ==
    /\ f \in Fam
    /\ s \in Subnets
    /\ given \in Addr
    /\ next \in Addr \cup {Nil}
    /\ looping \in BOOLEAN

(* What the loop returns is the host that the operator NextIP names, when  *)
(* no address of the subnet has a zero in its first byte or in IPv6.       *)
ReturnsNextIP ==
    ~looping /\ (f = 6 \/ s.lo >= Whole) => next = NextIP(f, s, given)

(* The loop ends, in every subnet.                                         *)
LoopEnds == looping ~> ~looping
=============================================================================
