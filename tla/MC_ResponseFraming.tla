------------------------- MODULE MC_ResponseFraming -------------------------
(* Frames of 2 to 4 bytes, so that chunks end inside a varint prefix,      *)
(* inside a body and on a frame boundary; up to four frames.               *)
EXTENDS ResponseFraming

MC_Shapes == {[prefix |-> 1, body |-> 1], [prefix |-> 2, body |-> 1],
              [prefix |-> 2, body |-> 2]}
====
