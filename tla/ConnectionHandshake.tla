------------------------- MODULE ConnectionHandshake -------------------------
(***************************************************************************)
(* Client creation in the two wrappers, each sending one ConnectionRequest *)
(* to the core and waiting for its answer.                                  *)
(*                                                                          *)
(* Node (src/node/src/BaseClient.ts): createClientInternal starts the core *)
(* (StartSocketConnection), connects a socket to it (GetSocket), then      *)
(* __createClientInternal runs the constructor and connectToServer, which  *)
(* writes the request with callback index 0 and awaits its promise; the    *)
(* answer is handled by handleReadData like any response.                  *)
(*                                                                          *)
(* Java (ConnectionManager.java): connectToRedis sends the request on the  *)
(* channel and applies checkGlideRsResponse to the answer on another       *)
(* thread; any answer but a constant OK closes the channel and throws.     *)
(*                                                                          *)
(* The core (spec_modelled) answers a ConnectionRequest with a constant    *)
(* OK, a request error or a closing error.  The request is built from the  *)
(* user's configuration as ConnectionRequest models it.                    *)
(***************************************************************************)
EXTENDS Naturals, ConnectionRequest

CONSTANTS
    NodeOptions,   \* BaseClientConfiguration objects a Node user may pass
    JavaConfigs    \* Java client configurations (cluster: the class)

OK == "constantResponse"
ReqError == "requestError"
Closing == "closingError"
Answers == {OK, ReqError, Closing}
None == "none"

VARIABLES
    nPhase,   \* Node createClient: starting, connecting, awaiting, returned, failed
    nSock,    \* Node socket: none, open, ended (socket.end()), destroyed
    isClosed, \* BaseClient.isClosed
    nAnswer,  \* the core's answer on the Node socket, not yet read
    nRead,    \* history: the answer Node's handleReadData read
    jPhase,   \* Java connectToRedis: connecting, connected, failed
    jChannel, \* Java UDS channel: open, closed
    jAnswer,  \* the response channel.connect completed with, not yet checked
    jRead,    \* history: the answer checkGlideRsResponse checked
    nOptions, \* the options createClient was called with
    nSent,    \* the ConnectionRequest connectToServer wrote: <<>> or <<request>>
    jConfig,  \* the configuration connectToRedis was called with
    jSent     \* the ConnectionRequest sent on the channel

nodeVars == <<nPhase, nSock, isClosed, nAnswer, nRead, nOptions, nSent>>
javaVars == <<jPhase, jChannel, jAnswer, jRead, jConfig, jSent>>
vars == <<nodeVars, javaVars>>

Init ==
    /\ nPhase = "starting" /\ nSock = "none" /\ isClosed = FALSE
    /\ nAnswer = None /\ nRead = None
    /\ nOptions \in NodeOptions /\ nSent = <<>>
    \* connectToRedis has sent the request on an open channel
    /\ jPhase = "connecting" /\ jChannel = "open"
    /\ jAnswer = None /\ jRead = None
    /\ jConfig \in JavaConfigs /\ jSent = <<createConnectionRequest(jConfig)>>

-----------------------------------------------------------------------------
(* Node                                                                    *)

\* close(): isClosed, reject every promise in the table, socket.end().
close ==
    /\ isClosed' = TRUE
    /\ nSock' = IF nSock = "open" THEN "ended" ELSE nSock

\* createClientInternal: await StartSocketConnection(); a rejection fails
\* createClient.
StartSocketConnection ==
    /\ nPhase = "starting"
    /\ \/ nPhase' = "connecting"
       \/ nPhase' = "failed"
    /\ UNCHANGED <<nSock, isClosed, nAnswer, nRead, nOptions, nSent>>

\* GetSocket(path) resolves on "connect"; __createClientInternal then runs
\* the constructor (data and error handlers) and connectToServer, which
\* writes the request createClientRequest built at index 0, all before
\* anything else runs.  An "error" before "connect" rejects, and the
\* socket is destroyed.
GetSocket ==
    /\ nPhase = "connecting"
    /\ \/ nPhase' = "awaiting" /\ nSock' = "open" /\ nSent' = <<NodeRequest(nOptions)>>
       \/ nPhase' = "failed" /\ nSock' = "destroyed" /\ UNCHANGED nSent
    /\ UNCHANGED <<isClosed, nAnswer, nRead, nOptions>>

\* Fault variant: a closing error in the answer is ignored.
handleConnectResponse_noCloseOnClosing ==
    /\ nAnswer # None /\ nSock # "destroyed" /\ nPhase = "awaiting"
    /\ UNCHANGED <<nOptions, nSent>>
    /\ nRead' = nAnswer
    /\ nAnswer' = None
    /\ CASE nAnswer = Closing -> UNCHANGED <<nPhase, nSock, isClosed>>
         [] nAnswer = ReqError -> nPhase' = "failed" /\ UNCHANGED <<nSock, isClosed>>
         [] nAnswer = OK -> nPhase' = "returned" /\ UNCHANGED <<nSock, isClosed>>

\* handleReadData on the answer to index 0: a closing error runs close(),
\* which rejects the connect promise; a request error rejects it; a
\* constant OK resolves it and __createClientInternal returns the client.
handleConnectResponse ==
    /\ nAnswer # None /\ nSock # "destroyed" /\ nPhase = "awaiting"
    /\ UNCHANGED <<nOptions, nSent>>
    /\ nRead' = nAnswer
    /\ nAnswer' = None
    /\ CASE nAnswer = Closing -> close /\ nPhase' = "failed"
         [] nAnswer = ReqError -> nPhase' = "failed" /\ UNCHANGED <<nSock, isClosed>>
         [] nAnswer = OK -> nPhase' = "returned" /\ UNCHANGED <<nSock, isClosed>>

\* The socket's "error" handler: close(); a pending connect promise is
\* rejected.  The socket is destroyed.
NodeSocketError ==
    /\ nSock = "open"
    /\ isClosed' = TRUE
    /\ nSock' = "destroyed"
    /\ nPhase' = IF nPhase = "awaiting" THEN "failed" ELSE nPhase
    /\ nAnswer' = None
    /\ UNCHANGED <<nRead, nOptions, nSent>>

\* The user closes a client it was given.
NodeUserClose ==
    /\ nPhase = "returned" /\ ~isClosed
    /\ close
    /\ UNCHANGED <<nPhase, nAnswer, nRead, nOptions, nSent>>

\* The core answers Node's ConnectionRequest (spec_modelled).
CoreAnswersNode(a) ==
    /\ nPhase = "awaiting" /\ nSock = "open" /\ nAnswer = None /\ nRead = None
    /\ nAnswer' = a
    /\ UNCHANGED <<nPhase, nSock, isClosed, nRead, nOptions, nSent>>

-----------------------------------------------------------------------------
(* Java                                                                    *)

\* The core answers Java's ConnectionRequest: channel.connect completes
\* with the Response (spec_modelled).
CoreAnswersJava(a) ==
    /\ jPhase = "connecting" /\ jChannel = "open" /\ jAnswer = None /\ jRead = None
    /\ jAnswer' = a
    /\ UNCHANGED <<jPhase, jChannel, jRead, jConfig, jSent>>

\* checkGlideRsResponse (run by thenApplyAsync): a request error, a closing
\* error, a value or no constant response each call throwClosingError,
\* which closes the channel and waits for it, then throws ClosingException;
\* a constant OK completes connectToRedis.
checkGlideRsResponse ==
    /\ jAnswer # None /\ jPhase = "connecting"
    /\ UNCHANGED <<jConfig, jSent>>
    /\ jRead' = jAnswer
    /\ jAnswer' = None
    /\ IF jAnswer = OK
       THEN jPhase' = "connected" /\ UNCHANGED jChannel
       ELSE jChannel' = "closed" /\ jPhase' = "failed"

\* closeConnection on a connected client.
closeConnection ==
    /\ jPhase = "connected" /\ jChannel = "open"
    /\ jChannel' = "closed"
    /\ UNCHANGED <<jPhase, jAnswer, jRead, jConfig, jSent>>

-----------------------------------------------------------------------------

NodeNext ==
    \/ StartSocketConnection \/ GetSocket \/ handleConnectResponse
    \/ NodeSocketError \/ NodeUserClose
    \/ \E a \in Answers : CoreAnswersNode(a)

JavaNext ==
    \/ \E a \in Answers : CoreAnswersJava(a)
    \/ checkGlideRsResponse \/ closeConnection

\* The two wrappers run in separate processes.
Next ==
    \/ NodeNext /\ UNCHANGED javaVars
    \/ JavaNext /\ UNCHANGED nodeVars

\* The core answers every ConnectionRequest (its connection attempts are
\* bounded by the retry strategy); the OS completes the socket connect;
\* Node runs its handlers; the executor runs the thenApplyAsync stage.
Fairness ==
    /\ WF_vars(StartSocketConnection /\ UNCHANGED javaVars)
    /\ WF_vars(GetSocket /\ UNCHANGED javaVars)
    /\ WF_vars(\E a \in Answers : CoreAnswersNode(a) /\ UNCHANGED javaVars)
    /\ WF_vars(handleConnectResponse /\ UNCHANGED javaVars)
    /\ WF_vars(\E a \in Answers : CoreAnswersJava(a) /\ UNCHANGED nodeVars)
    /\ WF_vars(checkGlideRsResponse /\ UNCHANGED nodeVars)

Spec == Init /\ [][Next]_vars /\ Fairness

-----------------------------------------------------------------------------

\* Client creation always finishes, in both wrappers: the caller's
\* createClient / connectToRedis eventually returns a client or fails.
CreationCompletes ==
    /\ <>(nPhase \in {"returned", "failed"})
    /\ <>(jPhase \in {"connected", "failed"})

\* Node: a failed createClient never leaves the socket open.  The caller gets
\* no client object, so nothing could close it later.
NodeFailedCreateReleasesSocket == nPhase = "failed" => nSock # "open"

\* Node: the request the core receives means what the options ask for.
\* Every option the user passed reaches the core with the meaning its doc
\* comment gives it and every option left out gets the documented default:
\* createClientRequest's mapping, the cluster client's override and the
\* proto3 encoding (omitted fields, enum numbers) together.
NodeRequestMeansOptions ==
    nSent # <<>> => Effective(Decode(nSent[1])) = Documented(nOptions)

\* Java: the same for the request the builders send, so that the two
\* wrappers ask the core for the same connection when configured alike.
JavaRequestMeansConfiguration ==
    Effective(Decode(jSent[1])) = Documented(jConfig)

====
