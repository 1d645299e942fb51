------------------------------- MODULE MCENI -------------------------------
(***************************************************************************)
(* A small instance of ENI.                                                *)
(***************************************************************************)
EXTENDS ENI, TLC

CONSTANTS e1, e2, c1, c2, g4, h4, g6

MCGwFam == [g \in {g4, h4, g6} |-> IF g = g6 THEN 6 ELSE 4]

Config(addresses, gateways, stayDown) ==
    [mac |-> e1, ifName |-> 0, addrs |-> addresses, gws |-> gateways,
     block |-> TRUE, stayDown |-> stayDown]

(* One ENI for two containers, one after the other or at once: with two    *)
(* IPv4 gateways of which only one can have the route, and staying down,   *)
(* so that nobody parses its gateway.  Another ENI comes to the host and   *)
(* leaves it.                                                              *)
MCConf == [c \in {c1, c2} |->
    IF c = c1 THEN Config({4, 6}, {g4, h4, g6}, FALSE)
              ELSE Config({4}, {Malformed}, TRUE)]
=============================================================================
