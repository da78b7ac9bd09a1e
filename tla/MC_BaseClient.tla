---------------------------- MODULE MC_BaseClient ----------------------------
(* Model-checking instance of BaseClient: three user requests and the      *)
(* connection request, as model values.                                    *)
EXTENDS BaseClient, TLC

CONSTANTS r1, r2, r3, conn

MC_Requests == {r1, r2, r3}
====
