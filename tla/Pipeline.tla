------------------------------ MODULE Pipeline ------------------------------
(***************************************************************************)
(* A standalone Node client (BaseClient) pipelining commands to one server *)
(* through the native core.  The user calls command methods (get, set,     *)
(* incr, ...) without awaiting the earlier ones; every call goes through   *)
(* createWritePromise and the write batching of BaseClient, and its        *)
(* promise is settled by handleReadData from the Response the core sends   *)
(* back: a requestError (class from getRequestErrorClass), a respPointer   *)
(* (the value), the OK constantResponse, or nothing (null).                *)
(*                                                                          *)
(* The client's state and steps are those of BaseClient, by INSTANCE.  The *)
(* core is modelled from the specification (sections 4.6 and 5): one       *)
(* connection to the server, requests forwarded in the order the core      *)
(* read them, the server executing them one at a time; a request whose     *)
(* deadline expires is answered with a Timeout error while the server      *)
(* still executes it, and its late reply is dropped.  The server's clock  *)
(* shows one time of Times for the whole run: no client code reads it, so *)
(* a clock moving between calls would only move both sides of             *)
(* SubmissionOrderSemantics alike.  Keys whose timeout is not after that   *)
(* time are gone when a command runs (KeyExpiry).                          *)
(***************************************************************************)
EXTENDS Naturals, Sequences, SequencesExt, FiniteSets, Functions, KeyExpiry

CONSTANTS
    Workloads,  \* sets of user calls a program may make: [n, cmd : [method, args]]
    Connect,    \* the connection request
    Keys,       \* the keys the calls name
    Times,      \* the times (ms) the server's clock can show in a run
    Initial,    \* the timed databases the server may hold when the program starts
    EvalScript(_, _, _, _)  \* EvalScript(hash, s, keys, args): what the script
                            \* with that hash does when run on database s

\* Every call some workload makes.
Requests == UNION Workloads

VARIABLES
    promiseCallbackFunctions, availableCallbackSlots, requestWriter,
    writeInProgress, isClosed, sock, socketOut, corePending, abandoned,
    fromCore, promise, settledBy, submitted, received,
    db,        \* the server's database
    served,    \* requests of received the server has executed
    outcome,   \* history: what each call's promise was settled with by a response
    timedOut,  \* history: requests the core answered with a Timeout error
    calls,     \* the workload of this run of the program
    db0,       \* history: the database when the program started
    now,       \* the server's clock (ms), fixed for the run
    execAt     \* history: the time the server executed each request

clientVars == <<promiseCallbackFunctions, availableCallbackSlots, requestWriter,
                writeInProgress, isClosed, sock, socketOut, corePending,
                abandoned, fromCore, promise, settledBy, submitted, received>>
serverVars == <<db, served, outcome, timedOut, calls, now, execAt, db0>>
vars == <<clientVars, serverVars>>

B == INSTANCE BaseClient

NoOutcome == [status |-> "none"]

\* The ScriptInvocation invokeScript sends: the script's hash and the keys
\* and args of its options, empty when the options leave them undefined.
ScriptInvocation(script, option) ==
    [hash |-> script,
     keys |-> IF "keys" \in DOMAIN option THEN option.keys ELSE <<>>,
     args |-> IF "args" \in DOMAIN option THEN option.args ELSE <<>>]

\* invokeScript: the script runs with its keys and arguments, as one
\* command; if the server has not loaded it, it is loaded first (SCRIPT
\* LOAD, then EVALSHA), which changes no key.
invokeScript(s, script, option) ==
    LET inv == ScriptInvocation(script, option)
    IN EvalScript(inv.hash, s, inv.keys, inv.args)

\* The command a call's method sends, applied to database s.
Exec(s, c) ==
    LET a == c.args
        m == c.method
    IN CASE m = "get" -> get(s, a[1])
         [] m = "set" -> set(s, a[1], a[2], a[3])
         [] m = "del" -> del(s, a[1])
         [] m = "unlink" -> unlink(s, a[1])
         [] m = "exists" -> exists(s, a[1])
         [] m = "mget" -> mget(s, a[1])
         [] m = "mset" -> mset(s, a[1])
         [] m = "incr" -> incr(s, a[1])
         [] m = "incrBy" -> incrBy(s, a[1], a[2])
         [] m = "incrByFloat" -> incrByFloat(s, a[1], a[2])
         [] m = "decr" -> decr(s, a[1])
         [] m = "decrBy" -> decrBy(s, a[1], a[2])
         [] m = "hget" -> hget(s, a[1], a[2])
         [] m = "hset" -> hset(s, a[1], a[2])
         [] m = "hdel" -> hdel(s, a[1], a[2])
         [] m = "hmget" -> hmget(s, a[1], a[2])
         [] m = "hexists" -> hexists(s, a[1], a[2])
         [] m = "hgetall" -> hgetall(s, a[1])
         [] m = "hincrBy" -> hincrBy(s, a[1], a[2], a[3])
         [] m = "hincrByFloat" -> hincrByFloat(s, a[1], a[2], a[3])
         [] m = "lpush" -> lpush(s, a[1], a[2])
         [] m = "lpop" -> lpop(s, a[1])
         [] m = "lpopCount" -> lpopCount(s, a[1], a[2])
         [] m = "lrange" -> lrange(s, a[1], a[2], a[3])
         [] m = "llen" -> llen(s, a[1])
         [] m = "ltrim" -> ltrim(s, a[1], a[2], a[3])
         [] m = "lrem" -> lrem(s, a[1], a[2], a[3])
         [] m = "rpush" -> rpush(s, a[1], a[2])
         [] m = "rpop" -> rpop(s, a[1])
         [] m = "rpopCount" -> rpopCount(s, a[1], a[2])
         [] m = "sadd" -> sadd(s, a[1], a[2])
         [] m = "srem" -> srem(s, a[1], a[2])
         [] m = "smembers" -> smembers(s, a[1])
         [] m = "scard" -> scard(s, a[1])
         [] m = "invokeScript" -> invokeScript(s, a[1], a[2])

\* The command a call's method sends, run at time at on the timed database
\* t: keys whose timeout expired are gone first; the other commands run on
\* the data and keep the timeouts of the keys they leave in place.
Run(t, c, at) ==
    LET l == Live(t, at)
        a == c.args
        m == c.method
    IN CASE m = "expire" -> expire(l, a[1], a[2], at)
         [] m = "pexpire" -> pexpire(l, a[1], a[2], at)
         [] m = "expireAt" -> expireAt(l, a[1], a[2], at)
         [] m = "pexpireAt" -> pexpireAt(l, a[1], a[2], at)
         [] m = "ttl" -> ttl(l, a[1], at)
         [] OTHER -> KeepTimeouts(l, c, Exec(l.data, c))

-----------------------------------------------------------------------------
(* Client: BaseClient.ts                                                   *)

\* Fault variant: a Timeout error is given the generic RequestError class.
getRequestErrorClass_noTimeout(type) ==
    CASE type = "Disconnect" -> "ConnectionError"
      [] type = "ExecAbort" -> "ExecAbortError"
      [] OTHER -> "RequestError"

\* getRequestErrorClass: the error class for a RequestErrorType.
getRequestErrorClass(type) ==
    CASE type = "Disconnect" -> "ConnectionError"
      [] type = "ExecAbort" -> "ExecAbortError"
      [] type = "Timeout" -> "TimeoutError"
      [] OTHER -> "RequestError"

\* What handleReadData settles the promise with, from the Response fields
\* that are set: requestError, respPointer, constantResponse OK, none.
Settlement(body) ==
    CASE "requestError" \in DOMAIN body ->
            [status |-> "rejected", error |-> getRequestErrorClass(body.requestError)]
      [] "respPointer" \in DOMAIN body ->
            [status |-> "resolved", value |-> body.respPointer]
      [] "constantResponse" \in DOMAIN body ->
            [status |-> "resolved", value |-> [str |-> "OK"]]
      [] OTHER -> [status |-> "resolved", value |-> Null]

\* A user call: the command method's createWritePromise.
UserCall(r) == B!createWritePromise(r) /\ UNCHANGED serverVars

WriteCallback == B!WriteCallback /\ UNCHANGED serverVars

UserClose == B!UserClose /\ UNCHANGED serverVars

SocketError == B!SocketError /\ UNCHANGED serverVars

\* handleReadData on the next Response, recording what it settles the
\* promise found at callbackIdx with.
handleReadData ==
    /\ B!handleReadData
    /\ LET m == Head(fromCore)
           o == promiseCallbackFunctions[m.idx]
       IN outcome' = IF m.kind # B!Closing /\ o \in Requests /\ promise[o] = "pending"
                     THEN [outcome EXCEPT ![o] = Settlement(m.body)]
                     ELSE outcome
    /\ UNCHANGED <<db, served, timedOut, calls, now, execAt, db0>>

-----------------------------------------------------------------------------
(* Core and server (spec_modelled)                                         *)

\* The Response the core builds from the server's reply.
ResponseBody(rep) ==
    CASE rep.kind = "ok" -> [constantResponse |-> "OK"]
      [] rep.kind = "null" -> <<>>
      [] rep.kind = "value" -> [respPointer |-> rep.v]
      [] rep.kind = "error" -> [requestError |-> rep.type]

KindOf(rep) == IF rep.kind = "error" THEN B!ReqError ELSE B!Value

\* The server executes the oldest request the core read and did not yet
\* forward; the core sends its reply back, or drops it if the request
\* already timed out.  The connection request is answered OK.
ServerExecute ==
    /\ served < Len(received)
    /\ LET m == received[served + 1]
           r == IF m.req = Connect THEN Res(db, OKReply) ELSE Run(db, m.req.cmd, now)
       IN /\ served' = served + 1
          /\ db' = r.st
          /\ execAt' = IF m.req = Connect THEN execAt ELSE [execAt EXCEPT ![m.req] = now]
          /\ IF m \in corePending
             THEN /\ corePending' = corePending \ {m}
                  /\ fromCore' = Append(fromCore, [idx |-> m.idx, req |-> m.req,
                                   kind |-> KindOf(r.rep), body |-> ResponseBody(r.rep)])
                  /\ UNCHANGED abandoned
             ELSE /\ abandoned' = abandoned \ {m}
                  /\ UNCHANGED <<corePending, fromCore>>
    /\ UNCHANGED <<promiseCallbackFunctions, availableCallbackSlots, requestWriter,
                   writeInProgress, isClosed, sock, socketOut, promise,
                   settledBy, submitted, received, outcome, timedOut, calls, now, db0>>

\* A request's deadline expires before the server replied.
CoreTimeout(m) ==
    /\ m \in corePending
    /\ m.req # Connect
    /\ corePending' = corePending \ {m}
    /\ abandoned' = abandoned \cup {m}
    /\ fromCore' = Append(fromCore, [idx |-> m.idx, req |-> m.req,
                          kind |-> B!ReqError, body |-> [requestError |-> "Timeout"]])
    /\ timedOut' = timedOut \cup {m.req}
    /\ UNCHANGED <<promiseCallbackFunctions, availableCallbackSlots, requestWriter,
                   writeInProgress, isClosed, sock, socketOut, promise,
                   settledBy, submitted, received, db, served, outcome, calls, now, execAt, db0>>

-----------------------------------------------------------------------------

Init ==
    /\ B!Init
    /\ db \in Initial
    /\ db0 = db
    /\ served = 0
    /\ outcome = [r \in Requests |-> NoOutcome]
    /\ timedOut = {}
    /\ calls \in Workloads
    /\ now \in Times
    /\ execAt = [r \in Requests |-> 0]

Next ==
    \/ \E r \in calls : UserCall(r)
    \/ WriteCallback
    \/ UserClose
    \/ SocketError
    \/ handleReadData
    \/ ServerExecute
    \/ \E m \in corePending : CoreTimeout(m)

Spec == Init /\ [][Next]_vars

-----------------------------------------------------------------------------

\* The database after running the requests of rs in order from db0, each
\* at the time the server executed it.
SerialDb(rs) ==
    LET after[j \in 0 .. Len(rs)] ==
            IF j = 0 THEN db0 ELSE Run(after[j - 1], rs[j].cmd, execAt[rs[j]]).st
    IN after[Len(rs)]

\* What a call's promise settles with if its command runs after every call
\* submitted before it, each at the time the server ran it, as its method's doc comment says: the OK constant,
\* null, the value, or a RequestError; a TimeoutError if it timed out.
Expected(r) ==
    LET i == CHOOSE i \in DOMAIN submitted : submitted[i].req = r
        before == [j \in 1 .. i - 2 |-> submitted[j + 1].req]
        rep == Run(SerialDb(before), r.cmd, execAt[r]).rep
    IN CASE r \in timedOut -> [status |-> "rejected", error |-> "TimeoutError"]
         [] rep.kind = "ok" -> [status |-> "resolved", value |-> [str |-> "OK"]]
         [] rep.kind = "null" -> [status |-> "resolved", value |-> Null]
         [] rep.kind = "value" -> [status |-> "resolved", value |-> rep.v]
         [] rep.kind = "error" -> [status |-> "rejected", error |-> "RequestError"]

\* Pipelined calls behave as if run one at a time in the order they were
\* made (spec section 4.6 ordering, section 8 property 4): the promise of
\* every call settled by a response holds what its method promises when
\* its command runs after all earlier calls and before all later ones, at
\* the server's time.
\* This needs createWritePromise and the write batching to send each
\* request once and in order, handleReadData to settle the promise found
\* at the response's recycled callbackIdx, the Response to be read field by
\* field, and the error class to follow the error type.
SubmissionOrderSemantics ==
    \A r \in Requests : outcome[r] # NoOutcome => outcome[r] = Expected(r)

====
