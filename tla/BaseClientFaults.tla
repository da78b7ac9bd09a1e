-------------------------- MODULE BaseClientFaults --------------------------
(***************************************************************************)
(* BaseClient against a core that sends a response twice.  The protocol   *)
(* (spec.md 4.2) makes a response for a callback index nobody awaits a     *)
(* protocol error that closes the connection.  handleReadData              *)
(* (BaseClient.ts 240-242) looks the index up in promiseCallbackFunctions, *)
(* whose entries are never removed, and pushes it on the free stack again. *)
(*                                                                         *)
(* A second fault: the core ends the socket without sending a closingError *)
(* (it exits, or drops the connection).  The constructor (BaseClient.ts    *)
(* 284-288) subscribes only to "data" and "error", so the end itself runs  *)
(* no handler; only a later write to the ended socket raises "error".      *)
(***************************************************************************)
EXTENDS BaseClient

VARIABLES
    duplicated,    \* requests whose response the core has sent a second time
    readFreeIndex, \* history: the client read a response for an index whose
                   \* promise was no longer pending
    coreEnded      \* the core has ended its side of the socket

faultVars == <<duplicated, readFreeIndex, coreEnded>>
allVars == <<vars, faultVars>>

\* The core sends the response to a request it already answered again.
CoreDuplicate(m) ==
    /\ m \in ToSet(received) \ (corePending \cup abandoned)
    /\ m \notin duplicated
    /\ duplicated' = duplicated \cup {m}
    /\ fromCore' = Append(fromCore, [idx |-> m.idx, req |-> m.req, kind |-> Value])
    /\ UNCHANGED <<clientVars, sock, socketOut, corePending, abandoned, promise,
                   settledBy, submitted, received, readFreeIndex, coreEnded>>

\* handleReadData on the next response, noting whether the callbacks found
\* at its index belong to a promise that is no longer pending.
ReadResponse ==
    /\ handleReadData
    /\ LET m == Head(fromCore)
       IN readFreeIndex' = \/ readFreeIndex
                           \/ /\ m.kind # Closing
                              /\ promise[promiseCallbackFunctions[m.idx]] # "pending"
    /\ UNCHANGED <<duplicated, coreEnded>>

FaultInit ==
    /\ Init
    /\ duplicated = {}
    /\ readFreeIndex = FALSE
    /\ coreEnded = FALSE

FaultNext ==
    \/ \E r \in Requests : createWritePromise(r) /\ UNCHANGED faultVars
    \/ WriteCallback /\ UNCHANGED faultVars
    \/ UserClose /\ UNCHANGED faultVars
    \/ SocketError /\ UNCHANGED faultVars
    \/ ReadResponse
    \/ \E m \in corePending, k \in ResponseKinds : CoreReply(m, k) /\ UNCHANGED faultVars
    \/ \E m \in corePending : CoreTimeout(m) /\ UNCHANGED faultVars
    \/ \E m \in abandoned : ServerLateReply(m) /\ UNCHANGED faultVars
    \/ \E m \in ToSet(received) : CoreDuplicate(m)

FaultSpec == FaultInit /\ [][FaultNext]_allVars

\* The core ends the socket cleanly while no write is in flight: it reads
\* and answers nothing more, and the requests it held are lost.  Responses
\* it sent before the end are still delivered.
CoreEnd ==
    /\ ~coreEnded
    /\ sock # "destroyed"
    /\ socketOut = <<>>
    /\ coreEnded' = TRUE
    /\ corePending' = {}
    /\ abandoned' = {}
    /\ UNCHANGED <<clientVars, sock, socketOut, fromCore, promise, settledBy,
                   submitted, received, duplicated, readFreeIndex>>

\* A socket.write after the peer's end (Node ends the writable side too,
\* allowHalfOpen being false) fails, and the "error" handler runs close().
WriteAfterEnd ==
    /\ coreEnded
    /\ socketOut # <<>>
    /\ SocketError
    /\ UNCHANGED faultVars

EndNext ==
    \/ \E r \in Requests : createWritePromise(r) /\ UNCHANGED faultVars
    \/ (~coreEnded \/ sock = "destroyed") /\ WriteCallback /\ UNCHANGED faultVars
    \/ WriteAfterEnd
    \/ UserClose /\ UNCHANGED faultVars
    \/ SocketError /\ UNCHANGED faultVars
    \/ ReadResponse
    \/ \E m \in corePending, k \in ResponseKinds : CoreReply(m, k) /\ UNCHANGED faultVars
    \/ \E m \in corePending : CoreTimeout(m) /\ UNCHANGED faultVars
    \/ \E m \in abandoned : ServerLateReply(m) /\ UNCHANGED faultVars
    \/ CoreEnd

\* The fairness of Spec, and Node's raising of a failed write's error.
EndSpec ==
    /\ FaultInit
    /\ [][EndNext]_allVars
    /\ WF_allVars((~coreEnded \/ sock = "destroyed") /\ WriteCallback /\ UNCHANGED faultVars)
    /\ WF_allVars(ReadResponse)
    /\ WF_allVars(\E m \in corePending, k \in ResponseKinds :
                      CoreReply(m, k) /\ UNCHANGED faultVars)
    /\ WF_allVars(WriteAfterEnd)

-----------------------------------------------------------------------------

\* An unknown callbackIdx is a protocol error and closes the connection
\* (spec.md 4.2): once handleReadData has read a response whose index no
\* pending promise holds, the client is closed.
UnknownIndexClosesConnection == readFreeIndex => isClosed

====
