----------------------------- MODULE BaseClient -----------------------------
(***************************************************************************)
(* The Node.js client of glide (src/node/src/BaseClient.ts) talking to the  *)
(* native core over a Unix socket.                                          *)
(*                                                                          *)
(* The client keeps a table of promise callbacks indexed by callbackIdx     *)
(* (promiseCallbackFunctions), a stack of recycled indices                  *)
(* (availableCallbackSlots), a buffer of encoded requests (requestWriter)   *)
(* and a writeInProgress flag so that at most one socket.write is in        *)
(* flight.  Responses carry only the callbackIdx; the client finds the      *)
(* promise to settle by that index.                                         *)
(*                                                                          *)
(* The native core (Rust, not in this repository's sources) is modelled     *)
(* from the specification: it answers every request it reads exactly once, *)
(* in any order (requests go to different server nodes), possibly with a    *)
(* Timeout error, after which the late server reply is discarded.           *)
(*                                                                          *)
(* Responses are modelled one message per step.  Node runs the whole data   *)
(* handler before any promise continuation, but socket chunking is          *)
(* arbitrary, so a user step between two messages is the behaviour of a     *)
(* chunk split at that point.  Byte-level framing is in ResponseFraming.    *)
(***************************************************************************)
EXTENDS Naturals, Sequences, SequencesExt, FiniteSets, FiniteSetsExt, Functions

CONSTANTS
    Requests,   \* user calls (createWritePromise), each made at most once
    Connect     \* the connection request sent by connectToServer

ASSUME Connect \notin Requests

Owners == Requests \cup {Connect}

\* Kinds of Response message: a value (respPointer, constantResponse or
\* null), a requestError and a closingError.
Value == "value"
ReqError == "requestError"
Closing == "closingError"
ResponseKinds == {Value, ReqError, Closing}

\* Promise states; "thrown" is the synchronous ClosingError of
\* createWritePromise on a closed client.
PromiseStates == {"none", "pending", "resolved", "rejected", "thrown"}

\* Who settled a promise: the owner of the response that settled it, or
\* close().
ByClose == "close"
NoOne == "none"

Msg == [idx : Nat, req : Owners]

VARIABLES
    promiseCallbackFunctions, \* callbackIdx -> owner of the [resolve, reject] stored there
    availableCallbackSlots,   \* stack of recycled callback indices
    requestWriter,            \* encoded requests not yet handed to socket.write
    writeInProgress,
    isClosed,
    sock,                     \* "open" | "ended" (socket.end()) | "destroyed" (error event)
    socketOut,                \* batches passed to socket.write whose callback has not run
    corePending,              \* requests the core has read and not yet answered
    abandoned,                \* requests the core timed out; the server has not replied yet
    fromCore,                 \* responses on their way from the core to the client
    promise,                  \* state of each owner's promise
    settledBy,                \* history: whose response settled each promise
    submitted,                \* history: requests in the order they were encoded
    received                  \* history: requests in the order the core read them

vars == <<promiseCallbackFunctions, availableCallbackSlots, requestWriter,
          writeInProgress, isClosed, sock, socketOut, corePending, abandoned,
          fromCore, promise, settledBy, submitted, received>>

clientVars == <<promiseCallbackFunctions, availableCallbackSlots, requestWriter,
                writeInProgress, isClosed>>
coreVars == <<corePending, abandoned, fromCore>>

-----------------------------------------------------------------------------
(* Helpers                                                                 *)

\* Length of a JavaScript array: one more than its highest index.
ArrayLength(arr) == IF DOMAIN arr = {} THEN 0 ELSE Max(DOMAIN arr) + 1

\* Settling a JavaScript promise has effect only while it is pending.
Settle(p, o, outcome) == IF p[o] = "pending" THEN outcome ELSE p[o]

-----------------------------------------------------------------------------
(* Client: BaseClient.ts                                                   *)

\* The connection request sent by connectToServer.
ConnectRequest == [idx |-> 0, req |-> Connect]

\* __createClientInternal runs the constructor and connectToServer in one
\* synchronous step: the connection request takes callback slot 0 directly,
\* without getCallbackIndex, and is written at once (no write in progress).
Init ==
    /\ promiseCallbackFunctions = (0 :> Connect)
    /\ availableCallbackSlots = <<>>
    /\ requestWriter = <<>>
    /\ writeInProgress = TRUE
    /\ isClosed = FALSE
    /\ sock = "open"
    /\ socketOut = <<[msgs |-> <<ConnectRequest>>, ok |-> TRUE]>>
    /\ corePending = {}
    /\ abandoned = {}
    /\ fromCore = <<>>
    /\ promise = [o \in Owners |-> IF o = Connect THEN "pending" ELSE "none"]
    /\ settledBy = [o \in Owners |-> NoOne]
    /\ submitted = <<ConnectRequest>>
    /\ received = <<>>

\* Fault variant: a fresh index off by one (length - 1).
getCallbackIndex_offByOne ==
    IF availableCallbackSlots = <<>>
    THEN <<ArrayLength(promiseCallbackFunctions) - 1, availableCallbackSlots>>
    ELSE <<Last(availableCallbackSlots), Front(availableCallbackSlots)>>

\* Fault variant: a fresh index one past the length, leaving a hole.
getCallbackIndex_skip ==
    IF availableCallbackSlots = <<>>
    THEN <<ArrayLength(promiseCallbackFunctions) + 1, availableCallbackSlots>>
    ELSE <<Last(availableCallbackSlots), Front(availableCallbackSlots)>>

\* getCallbackIndex: pop a recycled index, or use the array's length.
\* The result is <<index, the stack after the call>>.
getCallbackIndex ==
    IF availableCallbackSlots = <<>>
    THEN <<ArrayLength(promiseCallbackFunctions), availableCallbackSlots>>
    ELSE <<Last(availableCallbackSlots), Front(availableCallbackSlots)>>

\* Fault variant: the buffer is written but not reset.
writeBufferedRequestsToSocket_noReset(buf, queue) ==
    /\ writeInProgress' = TRUE
    /\ requestWriter' = buf
    /\ socketOut' = Append(queue, [msgs |-> buf, ok |-> sock = "open"])

\* writeBufferedRequestsToSocket: take the whole buffer (finish + reset)
\* and hand it to socket.write.  A write on a socket that is no longer
\* open fails and its bytes never reach the core.
writeBufferedRequestsToSocket(buf, queue) ==
    /\ writeInProgress' = TRUE
    /\ requestWriter' = <<>>
    /\ socketOut' = Append(queue, [msgs |-> buf, ok |-> sock = "open"])

\* writeOrBufferRequest: encode into the buffer; start a write unless one
\* is in progress.  buf is the buffer with the new request encoded.
writeOrBufferRequest(buf) ==
    IF writeInProgress
    THEN /\ requestWriter' = buf
         /\ UNCHANGED <<writeInProgress, socketOut>>
    ELSE writeBufferedRequestsToSocket(buf, socketOut)

\* Fault variant: no isClosed check; a closed client accepts the request.
createWritePromise_noClosedCheck(r) ==
    /\ promise[Connect] = "resolved"
    /\ promise[r] = "none"
    /\ LET idx == getCallbackIndex[1]
           m == [idx |-> idx, req |-> r]
       IN /\ promiseCallbackFunctions' = (idx :> r) @@ promiseCallbackFunctions
          /\ availableCallbackSlots' = getCallbackIndex[2]
          /\ promise' = [promise EXCEPT ![r] = "pending"]
          /\ submitted' = Append(submitted, m)
          /\ writeOrBufferRequest(Append(requestWriter, m))
          /\ UNCHANGED isClosed
    /\ UNCHANGED <<sock, coreVars, settledBy, received>>

\* createWritePromise(r) with writeOrBufferRedisRequest: a user call.  The
\* client object reaches the user only once connectToServer resolved.
createWritePromise(r) ==
    /\ promise[Connect] = "resolved"
    /\ promise[r] = "none"
    /\ IF isClosed
       THEN /\ promise' = [promise EXCEPT ![r] = "thrown"]
            /\ UNCHANGED <<clientVars, socketOut, submitted>>
       ELSE LET idx == getCallbackIndex[1]
                m == [idx |-> idx, req |-> r]
            IN /\ promiseCallbackFunctions' = (idx :> r) @@ promiseCallbackFunctions
               /\ availableCallbackSlots' = getCallbackIndex[2]
               /\ promise' = [promise EXCEPT ![r] = "pending"]
               /\ submitted' = Append(submitted, m)
               /\ writeOrBufferRequest(Append(requestWriter, m))
               /\ UNCHANGED isClosed
    /\ UNCHANGED <<sock, coreVars, settledBy, received>>

\* Fault variant: the write callback clears the flag without writing what
\* was buffered meanwhile.
WriteCallback_noRedrain ==
    /\ socketOut # <<>>
    /\ LET b == Head(socketOut)
           delivered == b.ok /\ sock # "destroyed"
       IN /\ corePending' = corePending \cup
                 (IF delivered THEN ToSet(b.msgs) ELSE {})
          /\ received' = IF delivered THEN received \o b.msgs ELSE received
          /\ writeInProgress' = FALSE
          /\ socketOut' = Tail(socketOut)
          /\ UNCHANGED requestWriter
    /\ UNCHANGED <<promiseCallbackFunctions, availableCallbackSlots, isClosed,
                   sock, abandoned, fromCore, promise, settledBy, submitted>>

\* The socket flushes the oldest write and runs its callback: write the
\* buffer again if requests were added meanwhile, else clear the flag.
WriteCallback ==
    /\ socketOut # <<>>
    /\ LET b == Head(socketOut)
           delivered == b.ok /\ sock # "destroyed"
       IN /\ corePending' = corePending \cup
                 (IF delivered THEN ToSet(b.msgs) ELSE {})
          /\ received' = IF delivered THEN received \o b.msgs ELSE received
          /\ IF Len(requestWriter) > 0
             THEN writeBufferedRequestsToSocket(requestWriter, Tail(socketOut))
             ELSE /\ writeInProgress' = FALSE
                  /\ socketOut' = Tail(socketOut)
                  /\ UNCHANGED requestWriter
    /\ UNCHANGED <<promiseCallbackFunctions, availableCallbackSlots, isClosed,
                   sock, abandoned, fromCore, promise, settledBy, submitted>>

\* close(): mark closed, reject every promise in the callback table with a
\* ClosingError, end the socket.  Primed values are given in terms of the
\* socket state s the caller leaves behind.
close(s) ==
    LET owners == Range(promiseCallbackFunctions)
    IN /\ isClosed' = TRUE
       /\ promise' = [o \in Owners |->
                        IF o \in owners THEN Settle(promise, o, "rejected")
                                        ELSE promise[o]]
       /\ settledBy' = [o \in Owners |->
                        IF o \in owners /\ promise[o] = "pending"
                        THEN ByClose ELSE settledBy[o]]
       /\ sock' = IF s = "open" THEN "ended" ELSE s

\* The user calls client.close().
UserClose ==
    /\ promise[Connect] = "resolved"
    /\ close(sock)
    /\ UNCHANGED <<promiseCallbackFunctions, availableCallbackSlots,
                   requestWriter, writeInProgress, socketOut, coreVars,
                   submitted, received>>

\* The socket's "error" handler: the socket is destroyed and close() runs.
\* Unread responses are lost with it.
SocketError ==
    /\ sock # "destroyed"
    /\ close("destroyed")
    /\ fromCore' = <<>>
    /\ UNCHANGED <<promiseCallbackFunctions, availableCallbackSlots,
                   requestWriter, writeInProgress, socketOut, corePending,
                   abandoned, submitted, received>>

\* handleReadData for one decoded Response.  A closingError closes the
\* client; otherwise the callbacks stored at callbackIdx are taken, the
\* index is pushed back on the free stack, and the promise is rejected on
\* a requestError and resolved otherwise.
handleReadData ==
    /\ fromCore # <<>>
    /\ sock # "destroyed"
    /\ LET m == Head(fromCore)
           o == promiseCallbackFunctions[m.idx]
       IN /\ fromCore' = Tail(fromCore)
          /\ IF m.kind = Closing
             THEN /\ close(sock)
                  /\ UNCHANGED <<promiseCallbackFunctions, availableCallbackSlots>>
             ELSE /\ availableCallbackSlots' = Append(availableCallbackSlots, m.idx)
                  /\ promise' = [promise EXCEPT ![o] =
                        Settle(promise, o,
                               IF m.kind = ReqError THEN "rejected" ELSE "resolved")]
                  /\ settledBy' = [settledBy EXCEPT ![o] =
                        IF promise[o] = "pending" THEN m.req ELSE @]
                  /\ UNCHANGED <<promiseCallbackFunctions, isClosed, sock>>
    /\ UNCHANGED <<requestWriter, writeInProgress, socketOut, corePending,
                   abandoned, submitted, received>>

-----------------------------------------------------------------------------
(* Native core (spec_modelled): answers each request it read exactly once  *)

\* The core answers a request with a value, a request error or a closing
\* error, echoing its callbackIdx.
CoreReply(m, kind) ==
    /\ m \in corePending
    /\ corePending' = corePending \ {m}
    /\ fromCore' = Append(fromCore, [idx |-> m.idx, req |-> m.req, kind |-> kind])
    /\ UNCHANGED <<clientVars, sock, socketOut, abandoned, promise, settledBy,
                   submitted, received>>

\* The request's deadline expires: the core answers with a Timeout request
\* error and keeps waiting for the server's reply.
CoreTimeout(m) ==
    /\ m \in corePending
    /\ corePending' = corePending \ {m}
    /\ abandoned' = abandoned \cup {m}
    /\ fromCore' = Append(fromCore, [idx |-> m.idx, req |-> m.req, kind |-> ReqError])
    /\ UNCHANGED <<clientVars, sock, socketOut, promise, settledBy,
                   submitted, received>>

\* Fault variant: the late server reply is forwarded to the client although
\* the request was already answered with a Timeout error.
ServerLateReply_forwarded(m) ==
    /\ m \in abandoned
    /\ abandoned' = abandoned \ {m}
    /\ fromCore' = Append(fromCore, [idx |-> m.idx, req |-> m.req, kind |-> Value])
    /\ UNCHANGED <<clientVars, sock, socketOut, corePending, promise,
                   settledBy, submitted, received>>

\* The server's reply to a timed-out request arrives and is discarded.
ServerLateReply(m) ==
    /\ m \in abandoned
    /\ abandoned' = abandoned \ {m}
    /\ UNCHANGED <<clientVars, sock, socketOut, corePending, fromCore, promise,
                   settledBy, submitted, received>>

-----------------------------------------------------------------------------

Next ==
    \/ \E r \in Requests : createWritePromise(r)
    \/ WriteCallback
    \/ UserClose
    \/ SocketError
    \/ handleReadData
    \/ \E m \in corePending, k \in ResponseKinds : CoreReply(m, k)
    \/ \E m \in corePending : CoreTimeout(m)
    \/ \E m \in abandoned : ServerLateReply(m)

\* The socket flushes what was written, Node runs the data handler, and the
\* core answers every request before its deadline (it times out otherwise).
\* Users, close() and socket errors are not assumed to happen.
Fairness ==
    /\ WF_vars(WriteCallback)
    /\ WF_vars(handleReadData)
    /\ WF_vars(\E m \in corePending, k \in ResponseKinds : CoreReply(m, k))

Spec == Init /\ [][Next]_vars /\ Fairness

-----------------------------------------------------------------------------
(* Properties                                                              *)

TypeOK ==
    /\ \E n \in 0 .. Cardinality(Owners) :
          promiseCallbackFunctions \in [0 .. n - 1 -> Owners]
    /\ availableCallbackSlots \in Seq(Nat)
    /\ requestWriter \in Seq(Msg)
    /\ writeInProgress \in BOOLEAN
    /\ isClosed \in BOOLEAN
    /\ sock \in {"open", "ended", "destroyed"}
    /\ socketOut \in Seq([msgs : Seq(Msg), ok : BOOLEAN])
    /\ corePending \subseteq Msg
    /\ abandoned \subseteq Msg
    /\ fromCore \in Seq([idx : Nat, req : Owners, kind : ResponseKinds])
    /\ promise \in [Owners -> PromiseStates]
    /\ settledBy \in [Owners -> Owners \cup {ByClose, NoOne}]
    /\ submitted \in Seq(Msg)
    /\ received \in Seq(Msg)

\* Requests whose response has not yet been handled by the client.
Outstanding ==
    ToSet(requestWriter)
    \cup UNION {ToSet(b.msgs) : b \in Range(socketOut)}
    \cup corePending
    \cup {[idx |-> r.idx, req |-> r.req] : r \in Range(fromCore)}

\* Callback uniqueness (spec section 8, property 1), about
\* getCallbackIndex and the push in handleReadData: the callback indices
\* of requests still awaiting their response are pairwise distinct, each
\* still owns its slot of promiseCallbackFunctions, none of them is on the
\* free stack, and the free stack holds no index twice.
CallbackIndexUnique ==
    /\ \A m1, m2 \in Outstanding : m1.idx = m2.idx => m1 = m2
    /\ \A m \in Outstanding :
          /\ promiseCallbackFunctions[m.idx] = m.req
          /\ m.idx \notin ToSet(availableCallbackSlots)
    /\ IsInjective(availableCallbackSlots)

\* Response correlation, about handleReadData settling the promise found
\* at the response's callbackIdx: a promise settled by a response was
\* settled by the response to its own request, never to another one, even
\* with indices recycled, responses out of order and core timeouts.
CallbackCorrelation ==
    \A o \in Owners : settledBy[o] \in Owners => settledBy[o] = o

\* Write ordering, about writeOrBufferRequest, writeBufferedRequestsToSocket
\* and the write callback: the core reads requests exactly once each and in
\* the order they were encoded (what it has read is a prefix of what was
\* submitted: nothing lost in the middle, duplicated or reordered).
WritesInSubmissionOrder == IsPrefix(received, submitted)

\* close() (spec section 8, property 9): once the client is closed no
\* promise is left pending; every request in flight at close, and every one
\* buffered behind a write in progress, has been rejected.
ClosedClientHasNoPendingPromise ==
    isClosed => \A o \in Owners : promise[o] # "pending"

\* Every request the client accepted is eventually resolved or rejected:
\* no write stays buffered behind writeInProgress, no response is lost.
EveryRequestSettles ==
    \A o \in Owners :
        promise[o] = "pending" ~> promise[o] \in {"resolved", "rejected"}

====
