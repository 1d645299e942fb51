---------------------------- MODULE NextIPProofs ----------------------------
(***************************************************************************)
(* The operator NextIP, which IPAM takes for the functions NextIP and      *)
(* NextIPv6, is what their loops return, in subnets of every size.         *)
(***************************************************************************)
EXTENDS NextIPLoop, TLAPS

(* No pass over the subnet loses leading bytes.                            *)
Padded == f = 6 \/ s.lo >= Whole

LoopInv ==
    /\ f \in Fam
    /\ s \in Subnets
    /\ given \in Int /\ InSubnet(s, given)
    /\ next = Nil \/ (next \in Int /\ InSubnet(s, next))
    /\ looping \in BOOLEAN
    /\ Padded => \/ looping /\ next \in {given, Bump(s, given)}
                 \/ next = NextIP(f, s, given)

LEMMA SubnetFacts ==
    ASSUME NEW t \in Subnets
    PROVE  /\ t.lo \in Int /\ t.hi \in Int /\ t.hi - t.lo >= 3
           /\ \A a \in Int : InSubnet(t, a) => a \in Addr /\ a # None
<1>1. t.lo \in Int /\ t.hi \in Int /\ t.hi - t.lo >= 3
  BY SubnetAssumption, AddrAssumption DEF Subnet, MaskAccepted
<1>2. t.lo .. t.hi \subseteq Addr
  BY SubnetAssumption
<1> QED
  BY <1>1, <1>2, AddrAssumption DEF InSubnet

(* One pass stays in the subnet; the second of two passes is at a host     *)
(* that is not the address given.                                          *)
LEMMA TwoPasses ==
    ASSUME NEW t \in Subnets, NEW fm \in Fam, NEW a \in Int, InSubnet(t, a)
    PROVE  /\ Bump(t, a) \in Int /\ InSubnet(t, Bump(t, a)) /\ Bump(t, a) # a
           /\ NextIP(fm, t, a) \in Int /\ InSubnet(t, NextIP(fm, t, a))
           /\ NextIP(fm, t, a) # a /\ ~Reserved(fm, t, NextIP(fm, t, a))
  BY SubnetFacts DEF Bump, NextIP, Reserved, InSubnet

LEMMA PassKeeps ==
    ASSUME LoopInv, Pass PROVE LoopInv'
<1>1. next \in Int /\ InSubnet(s, next)
  <2>1. next # Nil
    BY SubnetFacts DEF LoopInv, Pass, Again, Reserved, Nil, InSubnet
  <2> QED
    BY <2>1 DEF LoopInv
<1>2. next' = Bytes(f, Bump(s, next)) /\ UNCHANGED <<f, s, given, looping>>
  BY <1>1, SubnetFacts DEF LoopInv, Pass, Bump
<1>3. Bump(s, next) \in Int /\ InSubnet(s, Bump(s, next))
  BY <1>1, TwoPasses DEF LoopInv
<1>4. next' = Nil \/ (next' \in Int /\ InSubnet(s, next'))
  BY <1>2, <1>3 DEF Bytes
<1>5. ASSUME Padded
      PROVE  (looping /\ next' = Bump(s, given)) \/ next' = NextIP(f, s, given)
  <2>1. next' = Bump(s, next)
    BY <1>2, <1>3, <1>5, SubnetFacts, SubnetAssumption
       DEF Bytes, Padded, InSubnet, LoopInv, Fam
  <2>2. CASE next = given
    BY <2>1, <2>2 DEF Pass
  <2>3. CASE next = Bump(s, given) /\ next # given
    BY <2>1, <2>3 DEF Pass, Again, NextIP
  <2>4. CASE next = NextIP(f, s, given)
    BY <2>4, TwoPasses DEF LoopInv, Pass, Again
  <2> QED
    BY <1>5, <2>2, <2>3, <2>4 DEF LoopInv
<1> QED
  BY <1>2, <1>4, <1>5 DEF LoopInv, Padded

LEMMA CallKeeps ==
    ASSUME LoopInv, CallAgain PROVE LoopInv'
<1>1. PICK from \in {next} \cup s.lo .. s.hi : from # Nil /\ Call(from)
  BY DEF CallAgain
<1>2. from \in Int /\ InSubnet(s, from)
  BY <1>1, SubnetFacts DEF LoopInv, InSubnet
<1> QED
  BY <1>1, <1>2 DEF LoopInv, CallAgain, Call, Padded

LEMMA LoopInvAlways == Spec => []LoopInv
<1>1. Init => LoopInv
  BY SubnetFacts DEF Init, LoopInv, InSubnet
<1>2. LoopInv /\ [Next]_vars => LoopInv'
  <2> SUFFICES ASSUME LoopInv, [Next]_vars PROVE LoopInv'
    OBVIOUS
  <2>1. CASE Pass
    BY <2>1, PassKeeps
  <2>2. CASE ReturnNext
    BY <2>2 DEF ReturnNext, Again, LoopInv, Padded, NextIP
  <2>3. CASE CallAgain
    BY <2>3, CallKeeps
  <2>4. CASE UNCHANGED vars
    BY <2>4 DEF vars, LoopInv, Padded
  <2> QED
    BY <2>1, <2>2, <2>3, <2>4 DEF Next
<1> QED
  BY <1>1, <1>2, PTL DEF Spec

(* The loops are given and reach addresses of the subnet only, whatever    *)
(* they are called with next; in IPv4 they may lose the leading bytes of   *)
(* one, and then have none.                                                *)
THEOREM LoopTypeCorrect == Spec => []TypeOK
<1>1. LoopInv => TypeOK
  BY SubnetFacts DEF LoopInv, TypeOK
<1> QED
  BY <1>1, LoopInvAlways, PTL

(* The loops return the operator NextIP of the address they were given, in *)
(* every subnet that LoadIPAMConfig accepts, in IPv4 if no address of the  *)
(* subnet begins with a zero byte.                                         *)
THEOREM LoopComputesNextIP == Spec => []ReturnsNextIP
<1>1. LoopInv => ReturnsNextIP
  BY DEF LoopInv, ReturnsNextIP, Padded
<1> QED
  BY <1>1, LoopInvAlways, PTL
=============================================================================
