----------------------------- MODULE MC_Routing -----------------------------
(***************************************************************************)
(* Two slot ranges split at 8192: p1 with replicas q1, q2 and p2 with q3.   *)
(* Keys "" (slot 0), "foo" (slot 12182) and "{a}b" (slot 15495); slot ids  *)
(* 0, 12182 and 5000.                                                       *)
(***************************************************************************)
EXTENDS Routing, TLC

CONSTANTS p1, p2, q1, q2, q3, none

MC_SlotRanges ==
    << [start |-> 0, end |-> 8191, primary |-> p1, replicas |-> <<q1, q2>>],
       [start |-> 8192, end |-> 16383, primary |-> p2, replicas |-> <<q3>>] >>

MC_RouteKeys == {<<>>, <<102, 111, 111>>, <<123, 97, 125, 98>>}

MC_SlotIds == {0, 12182, 5000}

====
