------------------------- MODULE MC_BaseClientFaults -------------------------
(* Model-checking instance of BaseClientFaults: two user requests and the  *)
(* connection request, as model values.                                    *)
EXTENDS BaseClientFaults, TLC

CONSTANTS r1, r2, conn

MC_Requests == {r1, r2}
====
