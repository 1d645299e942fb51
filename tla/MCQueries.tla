----------------------------- MODULE MCQueries -----------------------------
(***************************************************************************)
(* A small instance of Queries.                                            *)
(***************************************************************************)
EXTENDS Queries, TLC

CONSTANTS m1, m2, g1, g2

(* Two gateways that can be used, and routes that cannot: with a source,   *)
(* or to a subnet.                                                         *)
Route(d, s, g) == [dst |-> d, src |-> s, gw |-> g]

MCRoutes == {Route(FALSE, FALSE, g1), Route(FALSE, FALSE, g2),
             Route(FALSE, TRUE, g1), Route(TRUE, FALSE, g2)}

(* The masks around the limits, at both ends of a byte, and what is not an *)
(* IPv4 block.                                                             *)
MCBlock(k, a, s) == [kind |-> k, ip |-> a, size |-> s]

MCBlocks == {MCBlock("v4", 240, 16), MCBlock("v4", 64, 64), MCBlock("v4", 768, 256),
             MCBlock("v4", 65536, 65536), MCBlock("v4", 0, 131072), MCBlock("v4", 8, 8),
             MCBlock("v6", 0, 4096), MCBlock("malformed", 0, 1)}

(* Delays from 2 to 7 that are doubled, with as much again as jitter.     *)
MCMultiple == [d \in 2 .. 7 |-> 2 * d]

MCJitter == [d \in 2 .. 7 |-> d]
=============================================================================
