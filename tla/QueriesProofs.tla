--------------------------- MODULE QueriesProofs ---------------------------
(***************************************************************************)
(* Theorems about Queries and Gateway, for all values of their constants.  *)
(***************************************************************************)
EXTENDS Queries, TLAPS

(* Where a call can be, and which have a block.                            *)
PlaceInv ==
    /\ call \in BlockCalls => block \in Blocks
    /\ pc = "list" => call = "mac"
    /\ pc = "link" => call = "gateway"
    /\ pc = "check" => call = "retry"
    /\ pc = "wait" => call \in {"address", "gateway", "retry"}

(* What is right now, and what the loops have seen so far, has been noted. *)
RightInv ==
    /\ Running => RightFor(call, block) \subseteq right
    /\ call = "mac" /\ pc = "ask" /\ Mac \notin todo => <<"unmapped">> \in right \/ missed
    /\ call = "gateway" /\ asked > 0 => <<"none">> \in right

(* fn was called late only if the context is done, and is not called again.*)
LateInv ==
    late = 0 \/ (late = 1 /\ ctx = "done" /\ call = "retry" /\ pc # "ask")

(* The two loops that count, at each of their places.                      *)
CountInv ==
    /\ call \notin {"address", "gateway"} => asked = 0 /\ waited = 0
    /\ asked \in {waited, waited + 1}
    /\ pc \in {"ask", "link"} => asked = waited
    /\ pc = "wait" /\ call # "retry" => asked = waited + 1
    /\ call = "address" => asked <= Attempts
    /\ call = "gateway" => asked <= Ticks
    /\ call = "address" /\ pc \in {"ask", "wait"} => asked < Attempts

GiveUpInv ==
    /\ pc = "returned" /\ call = "address" /\ answer = <<"unknown">> =>
          asked = Attempts /\ waited = Attempts - 1
    /\ pc = "returned" /\ call = "gateway" /\ answer = <<"none">> =>
          asked = Ticks /\ waited = Ticks

Inv == /\ TypeOK /\ PlaceInv /\ RightInv /\ LateInv /\ CountInv
       /\ AnswerWasRight /\ GiveUpInv /\ DelaysInRange

-----------------------------------------------------------------------------
(* The gateway of a subnet.                                                *)

(* A subnet of an accepted size begins at a multiple of 16.                *)
LEMMA NetworksAligned ==
    ASSUME NEW b \in Block, b.kind = "v4", SizeAccepted(b), IsNetwork(b)
    PROVE  b.ip \in Nat /\ b.size \in Nat /\ b.ip % b.size = 0 /\ b.ip % 16 = 0
<1>1. b.ip \in Nat /\ b.size \in Nat /\ b.size > 0 /\ b.ip % b.size = 0
  BY DEF Block, IsNetwork
<1>2. b.size = 16 * (b.size \div 16) /\ (b.size \div 16) \in Nat
  BY <1>1 DEF IsNetwork, SizeAccepted
<1>3. PICK j \in Nat : b.size = 16 * j
  BY <1>2
<1>4. b.ip = b.size * (b.ip \div b.size) /\ (b.ip \div b.size) \in Nat
  BY <1>1
<1>5. PICK k \in Nat : b.ip = b.size * k
  BY <1>4
<1>6. b.ip = 16 * (j * k) /\ j * k \in Nat
  BY <1>3, <1>5
<1>7. b.ip % 16 = 0
  BY <1>6
<1> QED
  BY <1>1, <1>7

(* The byte that is incremented never overflows in a subnet of an accepted *)
(* size: the gateway is the address after the network address, whatever    *)
(* the subnet.                                                             *)
THEOREM GatewayIsBasePlusOne ==
    ASSUME NEW b \in Block, b.kind = "v4", SizeAccepted(b), IsNetwork(b)
    PROVE  ComputeIPV4GatewayNetmask(b) = <<"subnet", BasePlusOne(b), b.size>>
<1>1. b.ip \in Nat /\ b.ip % b.size = 0 /\ b.ip % 16 = 0
  BY NetworksAligned
<1>2. BasePlusOne(b) = b.ip + 1
  BY <1>1 DEF BasePlusOne
<1>3. Increment(b) = b.ip + 1
  BY <1>1 DEF Increment
<1> QED
  BY <1>2, <1>3 DEF ComputeIPV4GatewayNetmask

-----------------------------------------------------------------------------
(* What is right is an answer.                                             *)

LEMMA BlockFacts ==
    /\ NoBlock \in Block /\ IsNetwork(NoBlock)
    /\ \A b \in Blocks \cup {NoBlock} : b \in Block /\ IsNetwork(b)
  BY BlockAssumption DEF NoBlock, Block, IsNetwork

LEMMA SubnetAnswers ==
    ASSUME NEW b \in Blocks \cup {NoBlock}
    PROVE  /\ ComputeIPV4GatewayNetmask(b) \in Answers
           /\ ParseIPV4GatewayNetmask(b) \in Answers
           /\ b \in Blocks => getIPV6PrefixLength(b) \in Answers
           /\ b.kind = "v4" => <<"subnet", BasePlusOne(b), b.size>> \in Answers
  BY DEF ComputeIPV4GatewayNetmask, ParseIPV4GatewayNetmask, getIPV6PrefixLength,
         Answers, NoBlock

LEMMA RightAnswers ==
    ASSUME NEW c \in Calls, NEW b \in Blocks \cup {NoBlock},
           c \in BlockCalls => b \in Blocks,
           routes \subseteq Routes
    PROVE  RightFor(c, b) \subseteq Answers
<1> USE DEF Questions
<1>1. CASE c \in {"mac", "address", "parse", "prefix", "retry"}
  BY <1>1 DEF RightFor, Answers
<1>2. CASE c = "gateway"
  <2>1. Usable \subseteq Routes
    BY DEF Usable, UsableIn
  <2> QED
    BY <1>2, <2>1 DEF RightFor, Answers
<1>3. CASE c = "subnet"
  <2>1. Error \in Answers
    BY DEF Answers
  <2> QED
    BY <1>3, <2>1, SubnetAnswers DEF RightFor
<1> QED
  BY <1>1, <1>2, <1>3 DEF Calls

LEMMA NextRightAnswers ==
    ASSUME call' \in Calls, block' \in Blocks \cup {NoBlock},
           call' \in BlockCalls => block' \in Blocks,
           routes' \subseteq Routes
    PROVE  RightFor(call, block)' \subseteq Answers
<1> USE DEF Questions
<1>1. CASE call' \in {"mac", "address", "parse", "prefix", "retry"}
  BY <1>1 DEF RightFor, Answers
<1>2. CASE call' = "gateway"
  <2>1. Usable' \subseteq Routes
    BY DEF Usable, UsableIn
  <2> QED
    BY <1>2, <2>1 DEF RightFor, Answers
<1>3. CASE call' = "subnet"
  <2>1. Error \in Answers
    BY DEF Answers
  <2>2. PICK b \in Blocks : b = block'
    BY <1>3 DEF BlockCalls
  <2>3. b.kind = "v4" => <<"subnet", BasePlusOne(b), b.size>> \in Answers
    BY SubnetAnswers
  <2>4. RightFor(call, block)' \subseteq
          {Error} \cup {x \in {<<"subnet", BasePlusOne(b), b.size>>} : b.kind = "v4"}
    BY <1>3, <2>2 DEF RightFor
  <2> QED
    BY <2>1, <2>3, <2>4
<1> QED
  BY <1>1, <1>2, <1>3 DEF Calls

-----------------------------------------------------------------------------
(* The invariant.                                                          *)

LEMMA DelayFacts ==
    /\ Start \in Nat /\ Max \in Nat /\ Start \in Delays /\ Max \in Delays
    /\ \A d \in Delays : d \in Nat /\ Start <= d /\ d <= Max
    /\ \A d \in Delays : Multiple[d] \in Nat /\ d <= Multiple[d]
    /\ \A d \in Delays : Jitter[d] \in Nat /\ Jitter[d] <= Jitter[Max]
  BY BackoffAssumption DEF Delays

LEMMA InvInit == Init => Inv
<1> SUFFICES ASSUME Init PROVE Inv
  OBVIOUS
<1>1. TypeOK
  BY DelayFacts DEF Init, TypeOK, Calls, Answers
<1> QED
  BY <1>1, DelayFacts DEF Init, Inv, PlaceInv, RightInv, LateInv, CountInv,
     AnswerWasRight, GiveUpInv, DelaysInRange, Running, BlockCalls

(* The world changes: a call that runs notes it, one that has returned     *)
(* keeps its answer.                                                       *)
LEMMA WorldStep ==
    ASSUME Inv, listed' \subseteq Macs, owned' \in BOOLEAN, link' \in BOOLEAN,
           routes' \subseteq Routes, Elsewhere, Note
    PROVE  Inv'
<1> USE DEF Inv
<1>1. RightFor(call, block)' \subseteq Answers
  BY NextRightAnswers DEF Elsewhere, TypeOK, PlaceInv
<1>2. /\ right \subseteq right' /\ right' \subseteq Answers
      /\ Running => RightFor(call, block)' \subseteq right'
      /\ ~Running => right' = right
  BY <1>1 DEF Note, TypeOK
<1>3. TypeOK'
  BY <1>2 DEF TypeOK, Elsewhere, progress
<1>4. PlaceInv' /\ LateInv' /\ CountInv' /\ GiveUpInv' /\ DelaysInRange'
  BY DEF Elsewhere, progress, PlaceInv, LateInv, CountInv, GiveUpInv, DelaysInRange
<1>5. RightInv'
  BY <1>2 DEF Elsewhere, progress, RightInv, Running
<1>6. AnswerWasRight'
  BY <1>2 DEF Elsewhere, progress, AnswerWasRight, Running, Questions
<1> QED
  BY <1>3, <1>4, <1>5, <1>6

LEMMA CallStep ==
    ASSUME Inv, NEW c \in Calls, NEW b \in Blocks \cup {NoBlock}, Call(c, b)
    PROVE  Inv'
<1> USE DEF Inv
<1>1. RightFor(c, b) \subseteq Answers
  BY RightAnswers DEF Call, TypeOK
<1>2. RightFor(call, block)' = RightFor(c, b)
  BY DEF Call, world, RightFor, Usable
<1>3. TypeOK'
  BY <1>1, DelayFacts DEF Call, TypeOK, First, world
<1>4. PlaceInv' /\ LateInv' /\ CountInv'
  BY LimitAssumption DEF Call, First, PlaceInv, LateInv, CountInv, Calls, BlockCalls
<1>5. RightInv'
  BY <1>2 DEF Call, First, RightInv, Running
<1>6. AnswerWasRight' /\ GiveUpInv'
  BY DEF Call, First, AnswerWasRight, GiveUpInv
<1>7. DelaysInRange'
  BY DelayFacts DEF Call, DelaysInRange
<1> QED
  BY <1>3, <1>4, <1>5, <1>6, <1>7

-----------------------------------------------------------------------------
(* The steps of a call.                                                    *)

LEMMA SameRight ==
    ASSUME UNCHANGED <<world, call, block>>
    PROVE  RightFor(call, block)' = RightFor(call, block)
  BY DEF RightFor, Usable, world

(* A call returns an answer that was right, or that a failed query excuses.*)
LEMMA ReturnStep ==
    ASSUME Inv, Running, NEW a \in Answers, Return(a),
           todo' \subseteq Macs, asked' \in Nat, waited' \in Nat, missed' \in BOOLEAN,
           \/ a \in right
           \/ missed' /\ a \in {Error, <<"unmapped">>, <<"unknown">>}
           \/ call \notin Questions,
           CountInv', GiveUpInv', call = "gateway" => asked' = asked
    PROVE  Inv'
<1> USE DEF Inv
<1>1. TypeOK'
  BY DEF Return, world, retrying, TypeOK
<1>2. PlaceInv' /\ LateInv' /\ DelaysInRange'
  BY DEF Return, retrying, PlaceInv, LateInv, DelaysInRange
<1>3. RightInv'
  BY DEF Return, RightInv, Running
<1>4. AnswerWasRight'
  BY DEF Return, AnswerWasRight, Questions
<1> QED
  BY <1>1, <1>2, <1>3, <1>4

(* A call goes on.                                                         *)
LEMMA GotoStep ==
    ASSUME Inv, Running, NEW step \in {"check", "ask", "wait"}, Goto(step),
           todo' \subseteq Macs, asked' \in Nat, waited' \in Nat, missed' \in BOOLEAN,
           PlaceInv', LateInv', CountInv',
           call = "mac" /\ step = "ask" /\ Mac \notin todo' =>
              <<"unmapped">> \in right \/ missed',
           call = "gateway" /\ asked' > 0 => <<"none">> \in right
    PROVE  Inv'
<1> USE DEF Inv
<1>1. TypeOK'
  BY DEF Goto, world, retrying, TypeOK
<1>2. RightFor(call, block)' = RightFor(call, block)
  BY SameRight DEF Goto
<1>3. RightInv'
  BY <1>2 DEF Goto, RightInv, Running
<1>4. AnswerWasRight' /\ GiveUpInv' /\ DelaysInRange'
  BY DEF Goto, retrying, AnswerWasRight, GiveUpInv, DelaysInRange
<1> QED
  BY <1>1, <1>3, <1>4

LEMMA MacStep ==
    ASSUME Inv, GetAllMACAddresses \/ GetMACAddressOfENI
    PROVE  Inv'
<1> USE DEF Inv
<1>1. Running /\ call = "mac" /\ asked = 0 /\ waited = 0
  BY DEF GetAllMACAddresses, GetMACAddressOfENI, Running, PlaceInv, CountInv
<1>2. (Mac \in listed => <<"found">> \in right) /\ (Mac \notin listed => <<"unmapped">> \in right)
  BY <1>1 DEF RightInv, RightFor, Questions
<1>3. {Error, <<"found">>, <<"unmapped">>} \subseteq Answers
  BY DEF Answers
<1>4. ASSUME NEW step, Goto(step), UNCHANGED <<asked, waited>>, step = "ask"
      PROVE  PlaceInv' /\ LateInv' /\ CountInv'
  BY <1>1, <1>4 DEF Goto, retrying, PlaceInv, LateInv, CountInv
<1>5. ASSUME NEW a, Return(a), UNCHANGED <<asked, waited>>
      PROVE  CountInv' /\ GiveUpInv'
  BY <1>1, <1>5 DEF Return, CountInv, GiveUpInv
<1>6. CASE GetAllMACAddresses
  <2>1. CASE todo' = listed /\ Goto("ask") /\ UNCHANGED <<asked, waited, missed>>
    BY <1>1, <1>2, <1>4, <2>1, GotoStep DEF TypeOK
  <2>2. CASE missed' = TRUE /\ Return(Error) /\ UNCHANGED <<todo, asked, waited>>
    BY <1>1, <1>3, <1>5, <2>2, ReturnStep DEF TypeOK
  <2> QED
    BY <1>6, <2>1, <2>2 DEF GetAllMACAddresses
<1>7. CASE GetMACAddressOfENI
  <2>1. CASE todo = {} /\ Return(<<"unmapped">>) /\ UNCHANGED progress
    <3>1. <<"unmapped">> \in right \/ missed
      BY <1>1, <1>7, <2>1 DEF RightInv, GetMACAddressOfENI
    <3> QED
      BY <1>1, <1>3, <1>5, <2>1, <3>1, ReturnStep DEF TypeOK, progress
  <2>2. ASSUME NEW m \in todo, todo' = todo \ {m}, UNCHANGED <<asked, waited>>,
               m = Mac, m \in listed, Return(<<"found">>), UNCHANGED missed
        PROVE  Inv'
    BY <1>1, <1>2, <1>3, <1>5, <2>2, ReturnStep DEF TypeOK
  <2>3. ASSUME NEW m \in todo, todo' = todo \ {m}, UNCHANGED <<asked, waited>>,
               m # Mac \/ m \notin listed, Goto("ask"), UNCHANGED missed
        PROVE  Inv'
    <3>1. Mac \notin todo' => <<"unmapped">> \in right \/ missed'
      BY <1>1, <1>2, <1>7, <2>3 DEF RightInv, GetMACAddressOfENI
    <3> QED
      BY <1>1, <1>4, <2>3, <3>1, GotoStep DEF TypeOK
  <2>4. ASSUME NEW m \in todo, todo' = todo \ {m}, UNCHANGED <<asked, waited>>,
               missed' = TRUE, Goto("ask")
        PROVE  Inv'
    BY <1>1, <1>4, <2>4, GotoStep DEF TypeOK
  <2> QED
    BY <1>7, <2>1, <2>2, <2>3, <2>4 DEF GetMACAddressOfENI, Unmapped
<1> QED
  BY <1>6, <1>7

LEMMA AddressStep ==
    ASSUME Inv, doesMACAddressMapToIPAddress
    PROVE  Inv'
<1> USE DEF Inv
<1>1. Running /\ call = "address" /\ pc = "ask" /\ asked = waited /\ asked < Attempts
  BY DEF doesMACAddressMapToIPAddress, Running, CountInv
<1>2. /\ Mac \notin listed => <<"unknown">> \in right
      /\ Mac \in listed => (IF owned THEN <<"mapped">> ELSE <<"other">>) \in right
  BY <1>1 DEF RightInv, RightFor, Questions
<1>3. {<<"unknown">>, <<"mapped">>, <<"other">>} \subseteq Answers
  BY DEF Answers
<1>4. CASE Addresses
  <2>1. PICK a \in {<<"mapped">>, <<"other">>} :
           Return(a) /\ a \in right /\ UNCHANGED progress
    BY <1>2, <1>4 DEF Addresses
  <2>2. CountInv' /\ GiveUpInv'
    BY <1>1, <2>1 DEF Return, progress, CountInv, GiveUpInv, TypeOK
  <2> QED
    BY <1>1, <1>3, <2>1, <2>2, ReturnStep DEF TypeOK, progress
<1>5. CASE /\ NoAddresses /\ asked' = asked + 1 /\ UNCHANGED <<todo, waited>>
           /\ IF asked' >= Attempts THEN Return(<<"unknown">>) ELSE Goto("wait")
  <2>1. missed' \in BOOLEAN /\ (<<"unknown">> \in right \/ missed')
    BY <1>2, <1>5 DEF NoAddresses, TypeOK
  <2>2. CASE asked' >= Attempts
    <3>1. Return(<<"unknown">>) /\ asked' = Attempts
      BY <1>1, <1>5, <2>2, LimitAssumption DEF TypeOK
    <3>2. CountInv' /\ GiveUpInv'
      BY <1>1, <1>5, <3>1, LimitAssumption DEF Return, CountInv, GiveUpInv, TypeOK
    <3> QED
      BY <1>1, <1>3, <1>5, <2>1, <3>1, <3>2, LimitAssumption, ReturnStep DEF TypeOK
  <2>3. CASE ~(asked' >= Attempts)
    <3>1. Goto("wait") /\ asked' < Attempts
      BY <1>5, <2>3, LimitAssumption DEF TypeOK
    <3>2. PlaceInv' /\ LateInv' /\ CountInv'
      BY <1>1, <1>5, <3>1, LimitAssumption DEF Goto, retrying, PlaceInv, LateInv,
         CountInv, TypeOK
    <3> QED
      BY <1>1, <1>5, <2>1, <3>1, <3>2, GotoStep DEF TypeOK
  <2> QED
    BY <2>2, <2>3
<1> QED
  BY <1>4, <1>5 DEF doesMACAddressMapToIPAddress

LEMMA GatewayStep ==
    ASSUME Inv, LinkByName \/ getIPV6GatewayIPFromRoutes
    PROVE  Inv'
<1> USE DEF Inv
<1>1. Running /\ call = "gateway" /\ pc \in {"link", "ask"} /\ asked = waited
  BY DEF LinkByName, getIPV6GatewayIPFromRoutes, Running, PlaceInv, CountInv
<1>2. /\ ~link => Error \in right
      /\ Usable = {} => <<"none">> \in right
      /\ \A r \in Usable : <<"via", r.gw>> \in right
  BY <1>1 DEF RightInv, RightFor, Questions
<1>3. /\ Error \in Answers /\ <<"none">> \in Answers
      /\ \A r \in Usable : <<"via", r.gw>> \in Answers
  BY DEF Answers, Usable, UsableIn, TypeOK
<1>4. ASSUME NEW a, Return(a), UNCHANGED <<asked, waited>>,
             a = <<"none">> => asked = Ticks
      PROVE  CountInv' /\ GiveUpInv'
  BY <1>1, <1>4 DEF Return, CountInv, GiveUpInv, TypeOK
<1>5. CASE LinkByName
  <2>1. CASE link /\ Goto("ask") /\ UNCHANGED progress
    <3>1. PlaceInv' /\ LateInv' /\ CountInv'
      BY <1>1, <2>1 DEF Goto, retrying, progress, PlaceInv, LateInv, CountInv
    <3>2. asked' > 0 => <<"none">> \in right
      BY <1>1, <2>1 DEF RightInv, progress
    <3> QED
      BY <1>1, <2>1, <3>1, <3>2, GotoStep DEF TypeOK, progress
  <2>2. CASE ~link /\ Return(Error) /\ UNCHANGED progress
    <3>1. CountInv' /\ GiveUpInv'
      BY <1>4, <2>2 DEF progress, Error
    <3> QED
      BY <1>1, <1>2, <1>3, <2>2, <3>1, ReturnStep DEF TypeOK, progress
  <2> QED
    BY <1>5, <2>1, <2>2 DEF LinkByName
<1>6. CASE getIPV6GatewayIPFromRoutes
  <2>1. CASE asked = Ticks /\ Return(<<"none">>) /\ UNCHANGED progress
    <3>1. <<"none">> \in right
      BY <1>1, <2>1, LimitAssumption DEF RightInv
    <3> QED
      BY <1>1, <1>3, <1>4, <2>1, <3>1, ReturnStep DEF TypeOK, progress
  <2>2. ASSUME NEW r \in Usable, Return(<<"via", r.gw>>), UNCHANGED progress
        PROVE  Inv'
    <3>1. CountInv' /\ GiveUpInv'
      BY <1>4, <2>2 DEF progress
    <3> QED
      BY <1>1, <1>2, <1>3, <2>2, <3>1, ReturnStep DEF TypeOK, progress
  <2>3. CASE /\ asked < Ticks /\ Usable = {} /\ asked' = asked + 1
             /\ Goto("wait") /\ UNCHANGED <<todo, waited, missed>>
    <3>1. PlaceInv' /\ LateInv' /\ CountInv'
      BY <1>1, <2>3, LimitAssumption DEF Goto, retrying, PlaceInv, LateInv, CountInv,
         TypeOK
    <3> QED
      BY <1>1, <1>2, <2>3, <3>1, GotoStep DEF TypeOK
  <2>4. CASE missed' = TRUE /\ Return(Error) /\ UNCHANGED <<todo, asked, waited>>
    <3>1. CountInv' /\ GiveUpInv'
      BY <1>4, <2>4 DEF Error
    <3> QED
      BY <1>1, <1>3, <2>4, <3>1, ReturnStep DEF TypeOK
  <2> QED
    BY <1>6, <2>1, <2>2, <2>3, <2>4 DEF getIPV6GatewayIPFromRoutes
<1> QED
  BY <1>5, <1>6

LEMMA BlockStep ==
    ASSUME Inv, GetBlock
    PROVE  Inv'
<1> USE DEF Inv
<1>1. Running /\ call \in BlockCalls /\ block \in Blocks
  BY DEF GetBlock, Running, PlaceInv
<1>2. block \in Block /\ IsNetwork(block)
  BY <1>1, BlockFacts
<1>3. PICK a : /\ Return(a) /\ UNCHANGED <<todo, asked, waited>> /\ missed' \in BOOLEAN
               /\ \/ a = Error /\ missed'
                  \/ a = Error /\ call # "parse" /\ Mac \notin listed
                  \/ a = ParseIPV4GatewayNetmask(block) /\ call = "parse"
                  \/ a = getIPV6PrefixLength(block) /\ call = "prefix" /\ Mac \in listed
                  \/ a = ComputeIPV4GatewayNetmask(block) /\ call = "subnet" /\ Mac \in listed
  BY <1>1 DEF GetBlock, BlockCalls, TypeOK
<1>4. a \in Answers
  BY <1>1, <1>3, SubnetAnswers DEF Answers
<1>5. ComputeIPV4GatewayNetmask(block) =
        IF block.kind = "v4" /\ SizeAccepted(block)
        THEN <<"subnet", BasePlusOne(block), block.size>> ELSE Error
  BY <1>2, GatewayIsBasePlusOne DEF ComputeIPV4GatewayNetmask
<1>6. call \in Questions => a \in right \/ (missed' /\ a = Error)
  BY <1>1, <1>3, <1>5 DEF RightInv, RightFor, BlockCalls, Questions
<1>7. CountInv' /\ GiveUpInv'
  BY <1>1, <1>3 DEF Return, BlockCalls, CountInv, GiveUpInv
<1> QED
  BY <1>1, <1>3, <1>4, <1>6, <1>7, ReturnStep DEF TypeOK, BlockCalls

LEMMA RetryStep ==
    ASSUME Inv, CheckContext \/ CallFn
    PROVE  Inv'
<1> USE DEF Inv
<1>1. Running /\ call = "retry" /\ asked = 0 /\ waited = 0
  BY DEF CheckContext, CallFn, Running, PlaceInv, CountInv
<1>2. {<<"cancelled">>, <<"nil">>, <<"final">>} \subseteq Answers
  BY DEF Answers
<1>3. CASE CheckContext
  <2>1. CASE Return(<<"cancelled">>) /\ UNCHANGED progress
    <3>1. CountInv' /\ GiveUpInv'
      BY <1>1, <2>1 DEF Return, progress, CountInv, GiveUpInv
    <3> QED
      BY <1>1, <1>2, <2>1, <3>1, ReturnStep DEF TypeOK, progress, Questions
  <2>2. CASE ctx # "done" /\ Goto("ask") /\ UNCHANGED progress
    <3>1. PlaceInv' /\ LateInv' /\ CountInv'
      BY <1>1, <2>2 DEF Goto, retrying, progress, PlaceInv, LateInv, CountInv
    <3> QED
      BY <1>1, <2>2, <3>1, GotoStep DEF TypeOK, progress
  <2> QED
    BY <1>3, <2>1, <2>2 DEF CheckContext
<1>4. CASE CallFn
  <2>1. /\ pc = "ask" /\ pc' \in {"wait", "returned"}
        /\ late' = IF ctx = "done" THEN late + 1 ELSE late
        /\ answer' \in Answers
        /\ UNCHANGED <<world, ctx, call, block, right, progress>>
    BY <1>2, <1>4 DEF CallFn, Results, Retry, TypeOK
  <2>2. delay' \in Delays /\ pause' \in Nat /\ DelaysInRange'
    <3>1. CASE UNCHANGED <<delay, pause>>
      BY <3>1 DEF TypeOK, DelaysInRange
    <3>2. CASE Duration
      <4>1. PICK j \in 0 .. Jitter[Max] : pause' = delay + j
        BY <3>2 DEF Duration
      <4>2. delay' = IF Max <= Multiple[delay] THEN Max ELSE Multiple[delay]
        BY <3>2 DEF Duration, Smaller
      <4>3. delay' \in Delays
        BY <4>2, DelayFacts DEF TypeOK, Delays
      <4>4. pause' \in Nat /\ Start <= pause' /\ pause' <= Max + Jitter[Max]
        BY <4>1, DelayFacts DEF TypeOK
      <4> QED
        BY <4>3, <4>4 DEF DelaysInRange
    <3> QED
      BY <1>4, <3>1, <3>2 DEF CallFn
  <2>3. late = 0
    BY <1>4 DEF CallFn, LateInv
  <2>4. TypeOK'
    BY <2>1, <2>2, <2>3 DEF TypeOK, world, progress
  <2>5. PlaceInv' /\ LateInv' /\ CountInv'
    BY <1>1, <2>1, <2>3 DEF PlaceInv, LateInv, CountInv, progress, TypeOK
  <2>6. RightFor(call, block)' = RightFor(call, block)
    BY <2>1, SameRight
  <2>7. RightInv' /\ AnswerWasRight' /\ GiveUpInv'
    BY <1>1, <2>1, <2>6 DEF RightInv, AnswerWasRight, GiveUpInv, Running, Questions
  <2> QED
    BY <2>2, <2>4, <2>5, <2>7
<1> QED
  BY <1>3, <1>4

LEMMA WaitStep ==
    ASSUME Inv, Wait
    PROVE  Inv'
<1> USE DEF Inv
<1>1. /\ Running /\ pc = "wait" /\ call \in {"address", "gateway", "retry"}
      /\ UNCHANGED <<todo, asked, missed>>
      /\ waited' = IF call = "retry" THEN waited ELSE waited + 1
  BY DEF Wait, Running, PlaceInv
<1>2. PICK step \in {"check", "ask"} : Goto(step) /\ (step = "check" <=> call = "retry")
  BY DEF Wait
<1>3. PlaceInv' /\ LateInv' /\ CountInv'
  <2>1. PlaceInv' /\ LateInv'
    BY <1>1, <1>2 DEF Goto, retrying, PlaceInv, LateInv, BlockCalls
  <2>2. CountInv'
    BY <1>1, <1>2 DEF Goto, CountInv, TypeOK
  <2> QED
    BY <2>1, <2>2
<1>4. call = "gateway" /\ asked' > 0 => <<"none">> \in right
  BY <1>1 DEF RightInv
<1> QED
  BY <1>1, <1>2, <1>3, <1>4, GotoStep DEF TypeOK

LEMMA CallerStep ==
    ASSUME Inv, Reset \/ Cancel
    PROVE  Inv'
<1> USE DEF Inv
<1>1. TypeOK'
  BY DelayFacts DEF Reset, Cancel, TypeOK, world, progress
<1>2. RightFor(call, block)' = RightFor(call, block)
  BY SameRight DEF Reset, Cancel
<1>3. PlaceInv' /\ LateInv' /\ CountInv'
  BY DEF Reset, Cancel, PlaceInv, LateInv, CountInv, progress
<1>4. RightInv' /\ AnswerWasRight' /\ GiveUpInv' /\ DelaysInRange'
  BY <1>2 DEF Reset, Cancel, RightInv, AnswerWasRight, GiveUpInv, DelaysInRange,
              Running, progress
<1> QED
  BY <1>1, <1>3, <1>4

LEMMA InvStep == Inv /\ [Next]_vars => Inv'
<1> SUFFICES ASSUME Inv, [Next]_vars PROVE Inv'
  OBVIOUS
<1>1. CASE UNCHANGED vars
  <2>1. RightFor(call, block)' = RightFor(call, block)
    BY <1>1, SameRight DEF vars, world
  <2> QED
    BY <1>1, <2>1 DEF vars, Inv, TypeOK, PlaceInv, RightInv, LateInv, CountInv,
       AnswerWasRight, GiveUpInv, DelaysInRange, Running
<1>2. CASE \E c \in Calls, b \in Blocks \cup {NoBlock} : Call(c, b)
  BY <1>2, CallStep
<1>3. CASE Step
  BY <1>3, MacStep, AddressStep, GatewayStep, BlockStep, RetryStep, WaitStep DEF Step
<1>4. ASSUME NEW m \in Macs, List(m) PROVE Inv'
  BY <1>4, WorldStep DEF List, Inv, TypeOK
<1>5. CASE Own \/ Plug
  BY <1>5, WorldStep DEF Own, Plug, Inv, TypeOK
<1>6. ASSUME NEW r \in Routes, Advertise(r) PROVE Inv'
  BY <1>6, WorldStep DEF Advertise, Inv, TypeOK
<1>7. CASE Reset \/ Cancel
  BY <1>7, CallerStep
<1> QED
  BY <1>1, <1>2, <1>3, <1>4, <1>5, <1>6, <1>7 DEF Next, World

LEMMA AlwaysInv == Spec => []Inv
  BY InvInit, InvStep, PTL DEF Spec

-----------------------------------------------------------------------------

(* Every answer is one the calls can give, and every delay is between the  *)
(* start and the maximum.                                                  *)
THEOREM TypeCorrect == Spec => []TypeOK
<1>1. Inv => TypeOK
  BY DEF Inv
<1> QED
  BY <1>1, AlwaysInv, PTL

(* Whatever comes and goes while a call runs, and however many queries its *)
(* answer takes, the answer was right at some moment of the call, or is an *)
(* error or a "not there" that a failed query excuses.                     *)
THEOREM AnswersWereRight == Spec => []AnswerWasRight
<1>1. Inv => AnswerWasRight
  BY DEF Inv
<1> QED
  BY <1>1, AlwaysInv, PTL

(* For every number of attempts and ticks, a loop that gives up has used   *)
(* them all and has waited between them.                                   *)
THEOREM LoopsGiveUpLast == Spec => []GivesUpLast
<1>1. Inv => GivesUpLast
  BY DEF Inv, CountInv, GiveUpInv, GivesUpLast, TypeOK
<1> QED
  BY <1>1, AlwaysInv, PTL

(* Whenever the context is cancelled, between any two steps of the loop,   *)
(* fn is called at most once more.                                         *)
THEOREM FnCalledLateOnce == Spec => []LateOnce
<1>1. Inv => LateOnce
  BY DEF Inv, LateInv, LateOnce
<1> QED
  BY <1>1, AlwaysInv, PTL

(* The delays of a SimpleBackoff stay between its start and its maximum    *)
(* with the jitter of that, for every multiple of at least 1.              *)
THEOREM DelaysKeepRange == Spec => []DelaysInRange
<1>1. Inv => DelaysInRange
  BY DEF Inv
<1> QED
  BY <1>1, AlwaysInv, PTL
=============================================================================
