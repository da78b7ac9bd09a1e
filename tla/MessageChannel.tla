--------------------------- MODULE MessageChannel ---------------------------
(***************************************************************************)
(* What the response path of the Unix socket promises the client: the      *)
(* messages the core sent are handed to the client in the order sent, each *)
(* exactly once, possibly several at a time, and eventually all of them.   *)
(***************************************************************************)
EXTENDS Naturals, Sequences

CONSTANT Messages

VARIABLES
    sent,          \* the messages the core has written, in order
    delivered      \* the messages handed to the client so far

vars == <<sent, delivered>>

Init == sent = <<>> /\ delivered = <<>>

Send(m) ==
    /\ sent' = Append(sent, m)
    /\ UNCHANGED delivered

\* One socket read hands over one or more further messages.
Deliver ==
    /\ \E n \in Len(delivered) + 1 .. Len(sent) :
          delivered' = SubSeq(sent, 1, n)
    /\ UNCHANGED sent

Next == (\E m \in Messages : Send(m)) \/ Deliver

Spec == Init /\ [][Next]_vars /\ WF_vars(Deliver)

====
