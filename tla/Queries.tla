------------------------------ MODULE Queries ------------------------------
(***************************************************************************)
(* The questions that plugins/eni/engine asks the instance metadata and    *)
(* the kernel, and RetryWithBackoffCtx of pkg/utils: loops that ask, wait  *)
(* and ask again while what they ask about changes.                        *)
(*                                                                         *)
(* One caller makes one call at a time.  Between any two of its steps an   *)
(* ENI appears in the metadata or leaves it, its addresses, its link and   *)
(* its routes come and go, and the context of a retry is cancelled.        *)
(***************************************************************************)
EXTENDS Integers, FiniteSets, Gateway

CONSTANTS
    Macs,      \* the MAC addresses the metadata may list
    Mac,       \* the ENI the questions are about
    Blocks,    \* the blocks its subnet may have
    Routes,    \* the routes that may lead through its link
    NoGw,      \* a route that has no gateway
    Attempts,  \* metadataMaxRetryCount: 20 in the code
    Ticks,     \* maxTicksForRetrievingIPV6Gateway: 10
    Start, Max,  \* the delays of a SimpleBackoff, in some unit
    Multiple,  \* what becomes of a delay that is multiplied
    Jitter,    \* the jitter of a delay: what is added is less than that
    Hiccups    \* whether a query may fail although it has an answer

Calls == {"mac", "address", "subnet", "parse", "prefix", "gateway", "retry"}

(* Calls that are about the block of the ENI's subnet.                     *)
BlockCalls == {"subnet", "parse", "prefix"}

(* Calls whose answer can be judged by what it is about; "parse" and       *)
(* "prefix" only hand on what they are given.                              *)
Questions == {"mac", "address", "subnet", "gateway"}

ASSUME MacAssumption == Mac \in Macs

(* What the metadata gives is the address of a network.                    *)
ASSUME BlockAssumption == Blocks \subseteq Block /\ \A b \in Blocks : IsNetwork(b)

(* dst, src: whether they are set.                                         *)
ASSUME RouteAssumption ==
    \A r \in Routes : r.dst \in BOOLEAN /\ r.src \in BOOLEAN

ASSUME LimitAssumption == Attempts \in Nat \ {0} /\ Ticks \in Nat \ {0}

Delays == Start .. Max

(* A multiple of at least 1, and a jitter that is no smaller for a longer  *)
(* delay.                                                                  *)
ASSUME BackoffAssumption ==
    /\ Start \in Nat /\ Max \in Nat /\ Start <= Max
    /\ Multiple \in [Delays -> Nat] /\ \A d \in Delays : d <= Multiple[d]
    /\ Jitter \in [Delays -> Nat] /\ \A d \in Delays : Jitter[d] <= Jitter[Max]

VARIABLES
    listed,   \* the MAC addresses the metadata lists
    owned,    \* whether the ENI has the address that is asked about
    link,     \* whether the host has the ENI's link
    routes,   \* the IPv6 routes through it
    ctx,      \* the context of a retry
    delay,    \* SimpleBackoff.current
    call,     \* the call that runs, or the last one that returned
    pc,       \* where it is
    block,    \* the block it is about
    todo,     \* the MAC addresses it has still to ask about
    asked,    \* the questions that had no answer
    waited,   \* how often it has waited
    pause,    \* how long it last waited with a SimpleBackoff
    answer,   \* what it returned
    right,    \* the answers that were right at some moment since it began
    missed,   \* whether a query failed
    late      \* how often fn was called after the context was done

world == <<listed, owned, link, routes>>
progress == <<todo, asked, waited, missed>>
retrying == <<ctx, delay, pause, late>>
vars == <<listed, owned, link, routes, ctx, delay, call, pc, block, todo,
          asked, waited, pause, answer, right, missed, late>>

Running == pc \notin {"idle", "returned"}

-----------------------------------------------------------------------------
(* What would be the right answer now.                                     *)

(* A default route with a gateway, and without a source.                   *)
UsableIn(rs) == {r \in rs : ~r.dst /\ ~r.src /\ r.gw # NoGw}

Usable == UsableIn(routes)

RightFor(c, b) ==
    CASE c = "mac" -> IF Mac \in listed THEN {<<"found">>} ELSE {<<"unmapped">>}
      [] c = "address" -> IF Mac \notin listed THEN {<<"unknown">>}
                          ELSE IF owned THEN {<<"mapped">>} ELSE {<<"other">>}
      [] c = "gateway" -> (IF link THEN {} ELSE {Error})
                            \cup (IF Usable = {} THEN {<<"none">>}
                                  ELSE {<<"via", r.gw>> : r \in Usable})
      [] c = "subnet" -> IF Mac \in listed /\ b.kind = "v4" /\ SizeAccepted(b)
                         THEN {<<"subnet", BasePlusOne(b), b.size>>} ELSE {Error}
      [] c \notin Questions -> {}

Answers ==
    {Error, <<"found">>, <<"unmapped">>, <<"unknown">>, <<"mapped">>, <<"other">>,
     <<"none">>, <<"nil">>, <<"final">>, <<"cancelled">>}
      \cup {<<"via", r.gw>> : r \in Routes}
      \cup {<<"prefix", b.size>> : b \in Blocks}
      \cup {<<"subnet", b.ip, b.size>> : b \in Blocks}
      \cup {<<"subnet", Increment(b), b.size>> : b \in Blocks}
      \cup {<<"subnet", BasePlusOne(b), b.size>> : b \in Blocks}

TypeOK ==
    /\ listed \subseteq Macs
    /\ owned \in BOOLEAN
    /\ link \in BOOLEAN
    /\ routes \subseteq Routes
    /\ ctx \in {"live", "done"}
    /\ delay \in Delays
    /\ call \in Calls
    /\ pc \in {"idle", "list", "link", "check", "ask", "wait", "returned"}
    /\ block \in Blocks \cup {NoBlock}
    /\ todo \subseteq Macs
    /\ asked \in Nat
    /\ waited \in Nat
    /\ pause \in Nat
    /\ answer \in Answers
    /\ right \subseteq Answers
    /\ missed \in BOOLEAN
    /\ late \in Nat

Init ==
    /\ listed = {} /\ owned = FALSE /\ link = FALSE /\ routes = {}
    /\ ctx = "live"
    /\ delay = Start
    /\ call = "retry" /\ block = NoBlock
    /\ pc = "idle"
    /\ todo = {} /\ asked = 0 /\ waited = 0 /\ pause = Start
    /\ answer = Error
    /\ right = {}
    /\ missed = FALSE
    /\ late = 0

-----------------------------------------------------------------------------
(* The world.  What is right now is noted for the call that runs.          *)

Note == right' = IF Running THEN right \cup RightFor(call, block)' ELSE right

Elsewhere == UNCHANGED <<ctx, delay, call, pc, block, progress, pause, answer, late>>

(* An ENI comes to the metadata, or leaves it with its addresses.          *)
List(m) ==
    /\ listed' = IF m \in listed THEN listed \ {m} ELSE listed \cup {m}
    /\ owned' = (owned /\ m # Mac)
    /\ UNCHANGED <<link, routes>> /\ Elsewhere
    /\ Note

(* The ENI is given the address, or loses it.                              *)
Own ==
    /\ Mac \in listed
    /\ owned' = ~owned
    /\ UNCHANGED <<listed, link, routes>> /\ Elsewhere
    /\ Note

(* A link that goes takes its routes with it.                              *)
Plug ==
    /\ link' = ~link
    /\ routes' = {}
    /\ UNCHANGED <<listed, owned>> /\ Elsewhere
    /\ Note

(* A router advertisement comes, or a route ends.                          *)
Advertise(r) ==
    /\ link
    /\ routes' = IF r \in routes THEN routes \ {r} ELSE routes \cup {r}
    /\ UNCHANGED <<listed, owned, link>> /\ Elsewhere
    /\ Note

Cancel ==
    /\ Running /\ call = "retry" /\ ctx = "live"
    /\ ctx' = "done"
    /\ UNCHANGED <<world, delay, call, pc, block, progress, pause, answer, right, late>>

-----------------------------------------------------------------------------
(* The calls.                                                              *)

First(c) == IF c = "mac" THEN "list"
            ELSE IF c = "gateway" THEN "link"
            ELSE IF c = "retry" THEN "check" ELSE "ask"

Call(c, b) ==
    /\ ~Running
    /\ call' = c
    /\ block' = b
    /\ IF c \in BlockCalls THEN b \in Blocks ELSE b = NoBlock
    /\ pc' = First(c)
    /\ todo' = {} /\ asked' = 0 /\ waited' = 0 /\ missed' = FALSE
    /\ right' = RightFor(c, b)
    /\ ctx' = "live" /\ late' = 0 /\ pause' = Start
    /\ delay' = IF c = "retry" THEN delay ELSE Start
    /\ UNCHANGED <<world, answer>>

(* A retry that follows another one goes on with its backoff, unless the   *)
(* caller resets it.                                                       *)
Reset ==
    /\ ~Running
    /\ delay' = Start
    /\ UNCHANGED <<world, ctx, call, pc, block, progress, pause, answer, right, late>>

Return(a) ==
    /\ pc' = "returned"
    /\ answer' = a
    /\ UNCHANGED <<world, retrying, call, block, right>>

Goto(step) ==
    /\ pc' = step
    /\ UNCHANGED <<world, retrying, call, block, right, answer>>

(* GetAllMACAddresses, whose result is passed to GetMACAddressOfENI.       *)
GetAllMACAddresses ==
    /\ pc = "list"
    /\ \/ /\ todo' = listed
          /\ Goto("ask")
          /\ UNCHANGED <<asked, waited, missed>>
       \/ /\ Hiccups /\ missed' = TRUE
          /\ Return(Error)
          /\ UNCHANGED <<todo, asked, waited>>

(* UnmappedMACAddressError.                                                *)
Unmapped == <<"unmapped">>

GetMACAddressOfENIAgain ==                                        \* mutation
    /\ pc = "ask" /\ call = "mac"
    /\ IF todo = {}
       THEN Return(Unmapped) /\ UNCHANGED progress
       ELSE \E m \in todo :
              /\ UNCHANGED <<asked, waited>>
              /\ \/ /\ m = Mac /\ m \in listed
                    /\ Return(<<"found">>) /\ UNCHANGED <<todo, missed>>
                 \/ /\ m # Mac /\ m \in listed /\ todo' = todo \ {m}
                    /\ Goto("ask") /\ UNCHANGED missed
                 \/ /\ m \notin listed
                    /\ Goto("ask") /\ UNCHANGED <<todo, missed>>

(* The interface id of one MAC address after the other.  A query that      *)
(* fails is logged, and the next address is asked about.                   *)
GetMACAddressOfENI ==
    /\ pc = "ask" /\ call = "mac"
    /\ IF todo = {}
       THEN Return(Unmapped) /\ UNCHANGED progress
       ELSE \E m \in todo :
              /\ todo' = todo \ {m}
              /\ UNCHANGED <<asked, waited>>
              /\ \/ /\ m = Mac /\ m \in listed
                    /\ Return(<<"found">>) /\ UNCHANGED missed
                 \/ /\ m # Mac \/ m \notin listed
                    /\ Goto("ask") /\ UNCHANGED missed
                 \/ /\ Hiccups /\ missed' = TRUE
                    /\ Goto("ask")

(* The metadata have the addresses of the ENI, and the query does not fail.*)
Addresses ==
    /\ Mac \in listed
    /\ Return(IF owned THEN <<"mapped">> ELSE <<"other">>)
    /\ UNCHANGED progress

NoAddresses == IF Mac \notin listed THEN UNCHANGED missed
                                    ELSE Hiccups /\ missed' = TRUE

doesMACAddressMapUnchecked ==                                     \* mutation
    /\ pc = "ask" /\ call = "address"
    /\ \/ Addresses
       \/ /\ NoAddresses
          /\ asked' = asked + 1
          /\ UNCHANGED <<todo, waited>>
          /\ IF asked' >= Attempts THEN Return(<<"other">>) ELSE Goto("wait")

doesMACAddressMapTooOften ==                                      \* mutation
    /\ pc = "ask" /\ call = "address"
    /\ \/ Addresses
       \/ /\ NoAddresses
          /\ asked' = asked + 1
          /\ UNCHANGED <<todo, waited>>
          /\ IF asked' > Attempts THEN Return(<<"unknown">>) ELSE Goto("wait")

(* The query is repeated while it fails, Attempts times at most.           *)
doesMACAddressMapToIPAddress ==
    /\ pc = "ask" /\ call = "address"
    /\ \/ Addresses
       \/ /\ NoAddresses
          /\ asked' = asked + 1
          /\ UNCHANGED <<todo, waited>>
          /\ IF asked' >= Attempts THEN Return(<<"unknown">>) ELSE Goto("wait")

LinkByName ==
    /\ pc = "link"
    /\ IF link THEN Goto("ask") ELSE Return(Error)
    /\ UNCHANGED progress

(* The routes through the link, which has none when it is gone: any that   *)
(* can be used is taken, and when there is none the loop waits and looks   *)
(* again, Ticks times.  An error ends it.                                  *)
getIPV6GatewayIPFromRoutes ==
    /\ pc = "ask" /\ call = "gateway"
    /\ \/ /\ asked = Ticks
          /\ Return(<<"none">>) /\ UNCHANGED progress
       \/ /\ asked < Ticks
          /\ \E r \in Usable : Return(<<"via", r.gw>>)
          /\ UNCHANGED progress
       \/ /\ asked < Ticks /\ Usable = {}
          /\ asked' = asked + 1
          /\ Goto("wait") /\ UNCHANGED <<todo, waited, missed>>
       \/ /\ asked < Ticks /\ Hiccups /\ missed' = TRUE
          /\ Return(Error) /\ UNCHANGED <<todo, asked, waited>>

(* GetIPV4GatewayNetmask and GetIPV6PrefixLength ask once;                 *)
(* ParseIPV4GatewayNetmask asks nobody.                                    *)
GetBlock ==
    /\ pc = "ask" /\ call \in BlockCalls
    /\ UNCHANGED <<todo, asked, waited>>
    /\ \/ /\ call = "parse"
          /\ Return(ParseIPV4GatewayNetmask(block)) /\ UNCHANGED missed
       \/ /\ call # "parse" /\ Mac \in listed
          /\ Return(IF call = "subnet" THEN ComputeIPV4GatewayNetmask(block)
                                       ELSE getIPV6PrefixLength(block))
          /\ UNCHANGED missed
       \/ /\ call # "parse" /\ Mac \notin listed
          /\ Return(Error) /\ UNCHANGED missed
       \/ /\ call # "parse" /\ Hiccups /\ missed' = TRUE
          /\ Return(Error)

(* The head of the loop of RetryWithBackoffCtx.                            *)
CheckContext ==
    /\ pc = "check"
    /\ IF ctx = "done" THEN Return(<<"cancelled">>) ELSE Goto("ask")
    /\ UNCHANGED progress

(* SimpleBackoff.Duration: the current delay with its jitter, and the next *)
(* one; the caller goes to sleep.                                          *)
Larger(x, y) == IF x <= y THEN y ELSE x                           \* mutation

Smaller(x, y) == IF x <= y THEN x ELSE y

DurationSubtracts ==                                              \* mutation
    /\ \E j \in 0 .. Jitter[Max] : /\ j = 0 \/ j < Jitter[delay]
                                   /\ pause' = delay - j
    /\ delay' = Smaller(Max, Multiple[delay])

Duration ==
    /\ \E j \in 0 .. Jitter[Max] : /\ j = 0 \/ j < Jitter[delay]
                                   /\ pause' = delay + j
    /\ delay' = Smaller(Max, Multiple[delay])

(* The results of fn: success, an error that says nothing about a retry,   *)
(* and a RetriableError of either kind.                                    *)
Results == {"nil", "plain", "retriable", "final"}

(* Only an error that says so is final.                                    *)
Retry(err) == err \notin {"nil", "final"}

CallFn ==
    /\ pc = "ask" /\ call = "retry"
    /\ late' = IF ctx = "done" THEN late + 1 ELSE late
    /\ \E err \in Results :
          IF Retry(err)
          THEN /\ Duration
               /\ pc' = "wait"
               /\ UNCHANGED answer
          ELSE /\ answer' = <<err>>
               /\ pc' = "returned"
               /\ UNCHANGED <<delay, pause>>
    /\ UNCHANGED <<world, ctx, call, block, right, progress>>

WaitOn ==                                                         \* mutation
    /\ pc = "wait"
    /\ waited' = IF call = "retry" THEN waited ELSE waited + 1
    /\ Goto("ask")
    /\ UNCHANGED <<todo, asked, missed>>

(* A wait is not cut short by the context.                                 *)
Wait ==
    /\ pc = "wait"
    /\ waited' = IF call = "retry" THEN waited ELSE waited + 1
    /\ Goto(IF call = "retry" THEN "check" ELSE "ask")
    /\ UNCHANGED <<todo, asked, missed>>

Step ==
    \/ GetAllMACAddresses \/ GetMACAddressOfENI
    \/ doesMACAddressMapToIPAddress
    \/ LinkByName \/ getIPV6GatewayIPFromRoutes
    \/ GetBlock
    \/ CheckContext \/ CallFn
    \/ Wait

World ==
    \/ \E m \in Macs : List(m)
    \/ Own \/ Plug
    \/ \E r \in Routes : Advertise(r)
    \/ Cancel

Next ==
    \/ \E c \in Calls, b \in Blocks \cup {NoBlock} : Call(c, b)
    \/ Reset
    \/ Step
    \/ World

Spec == Init /\ [][Next]_vars

(* A call goes on: its queries return, and its waits end.                  *)
FairSpec == Spec /\ WF_vars(Step)

-----------------------------------------------------------------------------
(* An answer was right at some moment between the call and the return,     *)
(* although it is put together from several queries and what they ask      *)
(* about changes meanwhile; only an answer that says that something is not *)
(* there, or an error, may owe itself to a query that failed, and the      *)
(* answer that the address is another ENI's never does.  The gateway of a  *)
(* subnet is the one that AWS reserves, base + 1, however it is computed.  *)
AnswerWasRight ==
    pc = "returned" /\ call \in Questions =>
       \/ answer \in right
       \/ missed /\ answer \in {Error, <<"unmapped">>, <<"unknown">>}

(* Who gives up has asked as often as it may and no more, and has waited   *)
(* between any two questions.  The metadata are asked once more after the  *)
(* last wait; after the last wait for a route nobody looks any more.       *)
GivesUpLast ==
    /\ asked <= waited + 1
    /\ call = "address" => asked <= Attempts
    /\ call = "gateway" => asked <= Ticks
    /\ pc = "returned" /\ call = "address" /\ answer = <<"unknown">> =>
          asked = Attempts /\ waited = Attempts - 1
    /\ pc = "returned" /\ call = "gateway" /\ answer = <<"none">> =>
          asked = Ticks /\ waited = Ticks

(* Once its context is done, a retry calls fn at most once more: when it   *)
(* had looked at the context just before.                                  *)
LateOnce == late <= 1

(* No delay of a SimpleBackoff is shorter than its start, or longer than   *)
(* its maximum with the jitter of that, however long it is used.           *)
DelaysInRange == Start <= pause /\ pause <= Max + Jitter[Max]

(* Every question is answered or given up, and a retry ends when its       *)
(* context is done, whatever fn goes on returning.                         *)
CallsEnd ==
    (Running /\ (call = "retry" => ctx = "done")) ~> (pc = "returned")
=============================================================================
