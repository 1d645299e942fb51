---------------------------- MODULE MCNextIPLoop ----------------------------
(***************************************************************************)
(* The addresses 0..31, the first four of which have a zero in their first *)
(* byte, with all the aligned subnets of 4, 8, 16 and 32 addresses.        *)
(***************************************************************************)
EXTENDS NextIPLoop

MCAddr == 0..31

MCSubnets ==
    UNION {{[ip |-> lo, lo |-> lo, hi |-> lo + size - 1] :
               lo \in {a \in MCAddr : a % size = 0}} : size \in {4, 8, 16, 32}}
=============================================================================
