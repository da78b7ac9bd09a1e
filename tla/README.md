# TLA+ models of the glide client (Node.js wrapper, Java connection manager)

This directory holds TLA+ models of the parts of glide-for-redis that are in
`src/`, and of the parts of the native core they depend on. The native core
is the Rust request engine described in `spec.md`. Its code is not in `src/`,
so it is modelled from the spec, and every such definition is marked
`spec_modelled` in `PROJECT.json`.

## 1. Inventory

### Components

| Component | Source | State | Operations |
|---|---|---|---|
| **Node client: dispatcher** | `src/node/src/BaseClient.ts` 195-380, 1042-1106 | `promiseCallbackFunctions` (callbackIdx → [resolve, reject]), `availableCallbackSlots` (stack of free indices), `requestWriter` (encode buffer), `writeInProgress`, `isClosed`, the socket | `createWritePromise`, `getCallbackIndex`, `writeOrBufferRedisRequest` / `writeOrBufferRequest`, `writeBufferedRequestsToSocket` and its write callback, `close`, the socket `error` handler, `connectToServer` / `__createClientInternal` |
| **Node client: response reader** | `BaseClient.ts` 173-269 | `remainingReadData` (bytes of an incomplete frame) | `handleReadData` (decode loop, RangeError = partial frame, closingError, dispatch by callbackIdx), `getRequestErrorClass` |
| **Node client: command API** | `BaseClient.ts` 382-972 | none | ~40 one-line wrappers, each `createWritePromise(createX(...))` |
| **Node client: connection request** | `BaseClient.ts` 974-1014; cluster override in `src/unnamed/part_001` 131-162 | none | `createClientRequest` maps options to a `ConnectionRequest` (modelled in `ConnectionRequest`) |
| **Node cluster client: routing** | `src/unnamed/part_001` 1-124, 164-344 | none | `toProtobufRoute` maps `Routes` to the protobuf `Routes`; `customCommand`, `exec` and the other routed commands |
| **Java connection manager** | `src/java/.../ConnectionManager.java` | the channel | `connectToRedis`, `createConnectionRequest` (standalone / cluster builders), `mapReadFromEnum`, `checkGlideRsResponse`, `closeConnection` |
| **Connection request schema** | `src/unnamed/part_002` (connection_request.proto) | none | message layout, enum defaults (RESP3 = 0, Primary = 0); modelled in `ConnectionRequest` |
| Native core: request engine (C2–C7 of spec.md) | not in `src/` | pending requests, slot map, per-node connections | answer each request once (value, request error, closing error), Timeout, routing, MOVED/ASK, reconnect with backoff, topology refresh |
| Benchmark | `src/benchmarks/node/node_benchmark.ts` | task counters | concurrent tasks that each await one get/set at a time |
| CI workflows | `src/unnamed/part_000`, `src/.github/workflows/build-node-wrapper/action.yml` | none | build and publish |

### How the components interact

A user call goes from the command API to `createWritePromise`. That function
takes a callback index, stores the promise's `[resolve, reject]` at that index
and encodes a `RedisRequest` into `requestWriter`. If no write is in progress,
the whole buffer goes to `socket.write`. Otherwise the write callback sends
it when the current write completes.

The native core reads requests from the Unix socket. It sends each request to
a server node and answers with a length-delimited `Response` that carries the
same `callbackIdx`. Answers come back in any order, because requests go to
different nodes. The socket delivers responses in chunks that may end anywhere,
even inside a frame. `handleReadData` keeps the bytes of an incomplete frame,
decodes the whole frames, and frees each index (it pushes the index on the
stack) before it settles the promise stored there.

A `closingError` response, the socket's `error` event, and the user's `close()`
all run `close()`. It rejects every promise in the table and ends the socket.

The connection request goes through the same path with index 0, before the
client object is returned to the user. In Java, `ConnectionManager` sends the
same `ConnectionRequest` over its channel. It closes the channel on any answer
other than a constant OK.

### What is hard here

- **Interleaving.** User calls, write callbacks, data events and socket
  errors interleave on the Node event loop.
  - A request can be encoded while a write is in flight. Only the write
    callback will then send it.
  - A response can free an index that the next call reuses at once.
- **Ordering.** The core answers out of order. Correlation rests entirely on
  `callbackIdx`.
- **Timeouts.** The core answers a timed-out request with a Timeout error.
  The client frees the index right away, so a late server reply must never
  reach the client.
- **Partial reads.** A chunk can end inside a varint length prefix or inside
  a body. The kept bytes must restart exactly at the frame's start.
- **Close and failure.** `close()` can run while writes are buffered or in
  flight, and while responses are still on the socket. A closed client must
  leave no promise pending.
- **A faulty core.** A response for an index nobody awaits, for example one
  sent twice, still finds callbacks left in `promiseCallbackFunctions`.
  `BaseClientFaults` shows that this frees the index twice. A core that
  ends the socket without a closingError runs no handler of the client at
  all, and `BaseClientFaults` shows a call left pending forever.

### What makes each component correct

- Dispatcher:
  - Indices of outstanding requests are unique (spec §8.1).
  - Each promise is settled by its own response.
  - The core reads every request once and in encoding order (spec §5).
  - Every accepted request is eventually settled.
  - A closed client leaves no promise pending (spec §8.9).
- Response reader: it implements an in-order, exactly-once, eventually
  complete message channel, however the stream is cut (spec §4.1).
- Routing:
  - Each `Routes` value is encoded as the protobuf route the core expects.
  - A slot-id route reaches the slot's owner.
- Connection request:
  - Client creation always ends, in both wrappers.
  - A failed Node creation leaves no socket open (expected to fail).
  - The request means what the configuration asks for, once it is encoded
    and read back with proto3 defaults (an unset field reads as 0, false,
    "" or the enum's 0 member).

## 2. Plan

Modules are listed in order. The most important behaviour comes first.

1. **`BaseClient`** (done). The Node dispatcher and response dispatch,
   composed with a spec-modelled core. The core answers each request once,
   in any order, possibly with Timeout.
2. **`ResponseFraming` + `MessageChannel`** (done). Byte-level
   `handleReadData`. It is shown to implement the abstract `MessageChannel`
   (INSTANCE ... WITH, checked as a PROPERTY). The message-per-step response
   channel of `BaseClient` relies on this.
3. **`ConnectionHandshake`** (done). Node `connectToServer` / `__createClientInternal`
   and Java `connectToRedis` / `checkGlideRsResponse` / `closeConnection`,
   with the core answering the `ConnectionRequest`. Properties:
   - a client is returned only after OK;
   - a failed connection closes the channel (Java) or the socket (Node;
     expected to fail, see hazards);
   - with `ConnectionRequest` (done): the request each wrapper sends means
     what its configuration documents.
4. **`Routing`** (done). Cluster `toProtobufRoute`, protobuf field encoding, and the
   core's route resolution over a small slot map with replicas
   (spec_modelled). Runs:
   - key and fan-out routes reach their nodes;
   - slot-id routing, a violation run: `primarySlotId` / `replicaSlotId` are
     put in the `slotKeyRoute` field.
5. **`HashSlot`** (done). `hash_tag` and CRC16 as RECURSIVE operators
   (spec_modelled). The routing run resolves key routes with them.
6. **`NodeConnection`** (spec_modelled; not written, see section 4). The per-node state machine with
   handshake and reconnect backoff. Properties:
   - only Ready accepts requests;
   - the attempt counter resets on Ready;
   - after `retries` failures, pending requests fail with Connection.
7. **`Redirection`** (spec_modelled; not written, see section 4). MOVED/ASK handling with a coalesced
   topology refresh. Properties:
   - at most one refresh in flight;
   - ASK leaves the map unchanged;
   - a redirection chain is bounded;
   - a written request is re-sent only on a redirect.
8. **`KeyValueCommands` + `KeyExpiry` + `Pipeline`** (done). 39 command
   methods with the effect their doc comments state (the timeout methods at
   the server's time), pipelined end to end through
   `BaseClient` and a core with timeouts. Property: the calls settle as if
   run one at a time in call order.
9. **`Benchmark`** (done, on its own). The Node benchmark's task loop. Still
   open: composing it with `BaseClient`, so that each task's awaited call is
   a `createWritePromise` in the dispatcher.

## 3. Modules and runs

### `BaseClient` (src/node/src/BaseClient.ts)

| TLA+ | Code |
|---|---|
| `promiseCallbackFunctions`, `availableCallbackSlots`, `requestWriter`, `writeInProgress`, `isClosed` | the fields of the same names |
| `sock` | the socket: `open`, `ended` after `socket.end()`, `destroyed` after an `error` event |
| `socketOut` | writes passed to `socket.write` whose callback has not run yet |
| `Init` | the state after `__createClientInternal` ran the constructor and `connectToServer`. The connection request holds slot 0 and is being written. |
| `createWritePromise(r)` | `createWritePromise` + `getCallbackIndex` + `writeOrBufferRedisRequest` + `writeOrBufferRequest` (+ `writeBufferedRequestsToSocket`) |
| `WriteCallback` | the `socket.write` callback. It delivers the batch, then writes the buffer again or clears the flag. |
| `handleReadData` | one decoded `Response`: a closingError runs `close`; otherwise the index is pushed back and the promise is settled |
| `UserClose`, `SocketError` | `close()` called by the user; the `error` handler |
| `CoreReply`, `CoreTimeout`, `ServerLateReply` | the native core (spec_modelled) |

History variables: `settledBy`, `submitted` and `received`. The properties use
them only.

The model takes one response message per step. Node runs a whole data handler
before any promise continuation, but chunking is arbitrary. So a user step
between two messages is the same as a chunk split at that point. Byte-level
chunking is checked separately in `ResponseFraming`.

Runs (`MC_BaseClient`: requests `{r1, r2, r3}` plus the connection request):

- `baseclient` (`BaseClient.cfg`, 81,016 states). It checks the invariants
  `CallbackIndexUnique`, `CallbackCorrelation`, `WritesInSubmissionOrder` and
  `ClosedClientHasNoPendingPromise`, and the liveness property
  `EveryRequestSettles`. It has no symmetry, which liveness checking does not
  allow.

  Three requests are enough for an index to be freed and reused while
  another request is outstanding. They also reach a request buffered behind
  a write in flight, and a response that overtakes an earlier one.

Fairness is weak fairness on three steps:
- the write callback (the OS flushes a Unix socket);
- the data handler (Node runs it);
- the core's answer (every request has a mandatory deadline, spec §5, so the
  core answers or times out). The core in `Spec` never ends the socket
  without a closingError; `BaseClientFaults` checks what happens when it
  does.

User calls, `close()` and socket errors are not fair. `CHECK_DEADLOCK FALSE`
is set because the client really does go idle once the users stop calling. A
stuck request is caught by the liveness run instead.

### `BaseClientFaults` (a core that answers twice, or ends the socket)

`BaseClientFaults` extends `BaseClient` with two fault models. `CoreDuplicate`
makes the core send the response to a request it already answered a second
time. `ReadResponse` is `handleReadData` plus a history flag, `readFreeIndex`.
The flag is set when the callbacks found at the response's index
(`promiseCallbackFunctions`, lines 240-242) belong to a promise that is no
longer pending.

The run `baseclient_duplicate` (violation) checks
`UnknownIndexClosesConnection`. It says that such a response closes the client,
as spec.md 4.2 requires for an unknown `callback_idx`. TLC breaks it in 6 steps.
The connection request's OK arrives twice, and the index is pushed on
`availableCallbackSlots` twice (`<<0, 0>>`), so the next two calls would share
index 0. The client stays open. With `CoreDuplicate` removed, the property
holds. An index past the end of the table, which makes the destructuring throw,
is not modelled.

The second fault model, `EndSpec`, adds `CoreEnd`: the core ends its side of
the socket without a closingError (it exits or drops the connection). It then
reads and answers nothing more; responses it sent earlier are still
delivered. The constructor (lines 284-288) subscribes only to `"data"` and
`"error"`, so the end runs no client code. Node ends the writable side too
(`allowHalfOpen` is false), so a later `socket.write` fails and the `"error"`
handler runs `close()`: that is `WriteAfterEnd`. `EndSpec` keeps the fairness
of `Spec` and adds weak fairness on `WriteAfterEnd`, because Node raises a
failed write's error by itself.

The run `baseclient_peer_end` (violation) checks `EveryRequestSettles`
under `EndSpec`. TLC finds a behaviour in 11 states. The core reads `r1`,
answers `r2`, and ends the socket. No further call is made, so `r1` stays
pending forever and the client stays open. spec.md 5 makes a per-request
deadline mandatory, with the future rejecting with `Timeout`. The Node
client leaves that deadline to the core alone.

### `ResponseFraming` and `MessageChannel`

`ResponseFraming` models `handleReadData` on bytes. The core appends frames of
2-4 bytes (a 1- or 2-byte varint prefix plus a body). The socket hands over the
next `n` bytes at a time. `decodeLoop` is the `while` loop:
- a whole frame is dispatched;
- an incomplete frame (a RangeError) is kept from its first byte (`lastPos`);
- bytes that do not start a frame are a decode error, which closes the client.

`MessageChannel` is the abstract promise: what is delivered is always a prefix
of what was sent, and eventually all of it. The run `framing_refinement` checks
`FramingImplementsChannel == Channel!Spec` under the mapping `sent <- 1..Len(frames)`,
`delivered <- handled`. Four frames of three shapes give every kind of cut: inside
a prefix, inside a body, on a boundary, and several frames in one chunk.

### `HashSlot` (spec.md 4.4; not in `src/`)

`slot_of(key) = CRC16(hash_tag(key)) mod 16384`, with keys as byte sequences.
- `HashTag`: the bytes between the first `{` and the next `}` if non-empty, else
  the whole key.
- `Crc16`: the server's table-driven form. `CrcTable` (crc16tab) is built from
  eight shift-register rounds per entry. One table lookup and an XOR are done
  per byte (`CrcByte`, looped by `CrcFrom`).
- The loops test the register before recursing. That forces TLC to evaluate
  it at each step, so evaluation depth stays at one step per byte.

No run checks a property of `HashSlot` alone: no code under `src/` computes
a slot, so such a property would check the model against itself. The
`routing` run uses `KeySlot` to find the node a key route must reach.

Two statements of spec.md 8.2 disagree with the function spec.md 4.4 defines.
They are recorded here, not as runs, because no code in `src/` is involved.
- The law `slot(k) == slot("{" + hash_tag(k) + "}" + suffix)` is stated "for
  all keys". It fails when `hash_tag(k)` is empty or contains `}`:
  - for the empty key, `{}` has no usable tag;
  - for `a}`, `{a}}` hashes as `a`.
- The vector `slot("{user1000}.following") == 5474` is wrong. The same
  function that reproduces the server's published slots gives
  CRC16(`user1000`) mod 16384 = 3443.

### `Routing` (src/unnamed/part_001, with spec.md 4.4/4.5 for the core)

| TLA+ | Code |
|---|---|
| `Routes`, `SingleNodeRoutes` | the `Routes` / `SingleNodeRoute` types (the string routes are written `[type \|-> "allNodes"]`, ...) |
| `toProtobufRoute` | `toProtobufRoute`. A protobufjs object is the record of its own properties. The slot-id objects go under `slotKeyRoute`, as in the code. |
| `RoutedCommand(route)`, `exec(route)` | `customCommand`, `ping`, `info`, ... and `exec`: each is `createWritePromise(cmd, toProtobufRoute(route))` |
| `Dispatch` | `writeOrBufferRedisRequest` setting `message.route`, then the core routing the request |
| `DecodedRoute` (spec_modelled) | the generated encoder writes the oneof member and the fields its message type declares; the core decodes, with proto3 defaults for fields not written |
| `Resolve`, `ReplicaOf`, `AdvanceRoundRobin`, `ReplicaDown/Up` (spec_modelled) | the router: slot map lookup, round-robin replica choice with primary fallback, replica connections dropping and coming back |

`MC_Routing` has two slot ranges split at 8192:
- p1 owns slots 0-8191, with replicas q1 and q2;
- p2 owns slots 8192-16383, with replica q3.

The keys are `""` (slot 0), `foo` (slot 12182) and `{a}b` (slot 15495).
`RouteReachesIntendedNodes` is an action property. On every dispatch step,
the nodes reached are:
- the route's fan-out set, for `allPrimaries` / `allNodes`;
- the slot's primary, for a primary slot route;
- a Ready replica of the slot, for a replica slot route, or the slot's
  primary when none is Ready.

Runs:
- `routing` (`Routing.cfg`, `SlotIds = {}`) passes. It covers every route
  except the slot-id routes, with replicas going down and up between calls.
- `routing_slot_id` (`Routing_slot_id.cfg`, slot ids 0, 12182, 5000) is a
  violation run. `primarySlotId 12182` reaches p1. The cause is that
  `toProtobufRoute` stores the `SlotIdRoute` under `slotKeyRoute`
  (part_001 lines 111, 118). The `SlotKeyRoute` encoder drops `slotId`, so
  the core routes by the empty key, whose slot is 0. This is a code bug:
  slot-id routing never reaches the slot's owner (unless the slot lies in
  slot 0's range).

### `ConnectionHandshake` (BaseClient.ts 1019-1106; ConnectionManager.java)

The two wrappers create a client independently. Each sends one
`ConnectionRequest` to a spec-modelled core, which answers with a constant
OK, a request error or a closing error.

| TLA+ | Code |
|---|---|
| `StartSocketConnection` | `createClientInternal`: `await StartSocketConnection()`, which may reject |
| `GetSocket` | `GetSocket`: "connect" resolves and "error" rejects. `__createClientInternal` then runs the constructor and `connectToServer` (index 0), before any other event. |
| `handleConnectResponse` | `handleReadData` on the answer to index 0. A closing error runs `close()`, a request error rejects, OK resolves. |
| `NodeSocketError`, `NodeUserClose`, `close` | the socket `error` handler and `close()` |
| `checkGlideRsResponse` | `checkGlideRsResponse` + `throwClosingError`: every non-OK answer closes the channel (synchronously) and then throws |
| `closeConnection` | `closeConnection` |
| `CoreAnswersNode/Java` (spec_modelled) | the core's answer |

Runs:
- `handshake` passes, with fairness on the core's answer, the Node handlers
  and the `thenApplyAsync` stage. It checks:
  - `CreationCompletes` (liveness, both wrappers);
  - `NodeRequestMeansOptions` and `JavaRequestMeansConfiguration` (from
    `ConnectionRequest`, below).

  `MC_ConnectionHandshake` gives 26 Node option sets and 14 Java
  configurations. That makes 364 initial states and 43,680 states in all.

  `CHECK_DEADLOCK FALSE` is set because creation really does end.
- `handshake_node_leak` (violation). `NodeFailedCreateReleasesSocket` fails.
  Node rejects the index-0 promise on a request error but does not close.
  `__createClientInternal` then throws at line 1070 with the socket still
  open. No client object reaches the caller, so nothing can close it. Java
  closes its channel on the same answer.

### `ConnectionRequest` (BaseClient.ts 974-1014; part_001 131-140; ConnectionManager.java 51-153; part_002)

This module builds the `ConnectionRequest` each wrapper sends, and says
what the core reads from it. `ConnectionHandshake` holds the options
(`nOptions`, `jConfig`) and the request sent (`nSent`, `jSent`) as state.
Node's request is written by `GetSocket` (`connectToServer`). Java's request
is built before `connectToRedis` writes it.

| TLA+ | Code |
|---|---|
| `createClientRequest`, `Defined`, `MAP_READ_FROM_STRATEGY` | `BaseClient.createClientRequest`. Options left undefined are omitted from the object. |
| `clusterCreateClientRequest`, `NodeRequest` | `RedisClusterClient.createClientRequest` sets `clusterModeEnabled` |
| `createConnectionRequest` and the three `setupConnectionRequestBuilder...` | the Java builders; the retry strategy and `databaseId` are standalone only |
| `mapReadFromEnum` | `mapReadFromEnum` |
| `ProtocolVersion` | Node's `ProtocolVersion` enum (BaseClient.ts 71-76), whose members are the schema's numbers |
| `Decode`, `DecodeAddress`, `DecodeAuth`, `DecodeRetry` | connection_request.proto read with proto3 defaults |
| `Effective` (spec_modelled) | what the core does with a field: port 0 means 6379, timeout 0 means the default, username "" means "default" |
| `Documented` | the option doc comments (BaseClient.ts 86-160) |

Properties, both in the `handshake` run:
- `NodeRequestMeansOptions`: the request Node sent means what its options
  document.
- `JavaRequestMeansConfiguration`: the same for Java's configuration.

Bounds. Each request field comes from one option, so two kinds of
configuration are enough. The first kind sets one option at a time, to
each of its values. The second kind sets every option together. Both kinds
are taken in both client classes.

`uint32` fields. protobufjs writes `value >>> 0` and protobuf-java writes an
int's 32 bits, so the core reads the value modulo 2^32. TLC's integers stop
below 2^31, so numbers are held exactly as two base-2^16 digits:
- `Wide(n)` is `[hi |-> n \div 2^16, lo |-> n % 2^16]`;
- `UInt32(n)` is the same with `hi` taken modulo 2^16.

`Documented` states the options' numbers with `Wide`, and `Decode` reads
the fields with `UInt32`. The two agree exactly when 0 <= n < 2^32.

A negative `requestTimeout` such as -1 therefore reaches the core as
4294967295 ms, about 49.7 days; Java's `setRequestTimeout(int)` sends the
same bits. No run checks this: neither the option's comment ("Value must
be an integer") nor spec.md gives the option a range, so no property says
what an out-of-range value must do. It is listed as a hazard.

Mutants:
- `createClientRequest_noUsername` drops the username from
  `authenticationInfo`.
- `mapReadFromEnum_alwaysPrimary` ignores `PREFER_REPLICA`.

TLC reports each one violated.

### `KeyValueCommands`, `KeyExpiry` and `Pipeline` (BaseClient.ts 173-266, 382-942)

`KeyValueCommands` models 34 command methods. Each gets the effect its doc
comment states, and the comment's wording is the source of the model:
- strings and keys: `get`, `set` (with `conditionalSet` and
  `returnOldValue`), `del`, `unlink`, `exists`, `mget`, `mset`;
- counters: `incr`, `incrBy`, `decr`, `decrBy`, `incrByFloat`;
- hashes: `hget`, `hset`, `hdel`, `hmget`, `hexists`, `hgetall`, `hincrBy`, `hincrByFloat`;
- lists: `lpush`, `lpop`, `lpopCount`, `lrange`, `llen`, `ltrim`, `lrem`,
  `rpush`, `rpop`, `rpopCount`;
- sets: `sadd`, `srem`, `smembers`, `scard`.

`Pipeline` adds `invokeScript` (BaseClient.ts 943-973):
- `ScriptInvocation` is the message it sends: the script's hash, plus the
  `keys` and `args` of its `ScriptOptions`, empty when not given.
- The server runs the script as one command, with the constant operator
  `EvalScript(hash, s, keys, args)`.
- The doc comment's loading (`SCRIPT LOAD` when needed, then `EVALSHA`)
  changes no key, so it is not state.
- `MC_Pipeline` gives one script, `getOrSet`: `GET KEYS[1]`; if the key is
  missing, `SET` it to `ARGV[1]`.
- The workload `MC_Scripts` pipelines it with a `set` and an `lpush` of the
  same key. When the push comes first, the script's `GET` fails on a list.

Each method is an operator `method(s, ...)` that yields `[st, rep]`: the
database after the command and the reply. The database maps each key to no
entry or to an entry of one type. Values are tagged records (`[int |-> n]`,
`[str |-> t]`, `[list |-> ...]`, `Null`), so a string holding an integer is
distinct from any other string. A wrong type or a non-integer gives a request
error (`Unspecified` on the wire). The doc comments' edge cases are kept:
- `Offsets`: negative offsets, an end past the list, and an empty range, for
  `lrange` / `ltrim`;
- `lrem`: count positive (from the head), negative (from the tail) or 0
  (all);
- pops of more elements than the list holds;
- a key emptied by a pop, `ltrim`, `lrem`, `hdel` or `srem` is removed;
- `exists` counts a key named twice twice; `del` removes it once;
- float increments: a number with a fraction is `[float |-> r]`, with `r` a
  dyadic rational from the community module `DyadicRationals`. Amounts such
  as 0.5 are exact in double precision. A result without a fraction is
  stored as an integer, so `incr` can read it again, as the linked
  `INCRBYFLOAT` does.

`KeyExpiry` adds the five timeout methods (`expire`, `expireAt`, `pexpire`,
`pexpireAt`, `ttl`) on a timed database `[data, deadline]`. `deadline` maps
each key that has a timeout to the Unix time, in ms, at which it goes.
- `Live(t, now)`: a key whose deadline is not after `now` is gone.
- `ExpireTo`: replies `false` for a missing key. A deadline that is not in
  the future deletes the key, which covers "non-positive seconds" and "a
  timestamp in the past".
- `ttl`: -2 for a missing key, -1 without a timeout, otherwise the seconds
  left, rounded to the nearest second as the linked TTL command does.
- `KeepTimeouts`: every other command keeps a key's timeout, unless it
  deleted the key or overwrote it (`set` when its condition holds, `mset`).
  This follows "The timeout will only be cleared by commands that delete or
  overwrite the contents of key".
- The optional `ExpireOptions` argument is left undefined, because its type
  is declared in `Commands.ts`, which is not in `src/`.
- `pexpireAt` is declared `Promise<number>`, while its doc comment and its
  three siblings say it returns a boolean. The model follows the doc
  comment. TypeScript types are not something TLC can check.

`Pipeline` composes them with the client:
- The client's state and steps are `BaseClient`'s, by `INSTANCE`.
  - `UserCall(r)` is `createWritePromise`.
  - `handleReadData` also records the outcome of the promise found at the
    response's `callbackIdx`.
  - `Settlement` is the branch order of lines 244-265: `requestError` (class
    from `getRequestErrorClass`), then `respPointer`, then OK, else null.
- The core and server are modelled from the spec and are spec_modelled in
  the map.
  - `ServerExecute` runs the oldest forwarded request against `db` with
    `Run` at the server's time `now`, and records that time in `execAt`.
    `Run` removes expired keys first, then applies the timeout method or
    `Exec` with `KeepTimeouts`. If the request is still pending, it sends the reply back as a
    `Response`; otherwise it drops the late reply.
  - `CoreTimeout` answers a pending request with a `Timeout` error while the
    server may still run it.
  - `now` is chosen once in `Init` from `Times` and kept for the run. No
    client code reads the clock, and a clock moving between calls would
    move both sides of `SubmissionOrderSemantics` alike. A clock with two
    times, moving between steps, tripled the states of every workload.
- `db` starts as one of `Initial`, the databases the server may hold when
  the program starts; `db0` remembers it.
- `calls` is chosen once in `Init` from `Workloads`: the calls this run of
  the program makes, in any order and interleaving.

Bounds (`MC_Pipeline`): two keys, and workloads of three calls each. In every
workload the results depend on the order: wrong-type errors, increments,
ranges of a list another call changes, and keys emptied and removed. With the
connection request, up to four callback indices are in play, so indices are
recycled. Every request may time out.

Workloads of four calls were tried: they reach 8 million states and take 26
minutes, for no behaviour the three-call workloads miss (at most four
indices, one batch, one timeout race).

The `pipeline` run has 17 workloads that between them call every modelled
method: strings, counters, float increments, several keys, hashes, lists,
sets, whole-value reads, the timeout methods and the script. The server
starts empty with its clock at 0, so a relative timeout is still ahead when
read and `pexpireAt(k, 0)` deletes the key. 620,993 states, in about three
and a half minutes with coverage on.

It checks `SubmissionOrderSemantics`. Every promise settled by
a response holds what its method's doc comment promises when the command
runs after all calls made before it (a `TimeoutError` if it timed out), which
is spec §8 property 4. Serial execution includes timed-out commands, because
the server still runs them.

These mutants break it:
- an off-by-one fresh callback index;
- `Timeout` given the generic `RequestError` class.

The command semantics appear on both sides of the property, so the property
checks the client's ordering and correlation, not the server's commands. A
mutant of a command's semantics (for example `expire` taking seconds as
milliseconds) changes both sides the same way and is not caught.

### `Benchmark` (src/benchmarks/node/node_benchmark.ts)

State:
- `started_tasks_counter`, `running_tasks` and `bench_json_results` are the
  module-level variables (lines 36-38). They are not reset between runs,
  except the counter, which `create_bench_tasks` zeroes.
- `inflight[t]` is the call task `t` awaits: the chosen action, the command
  the switch issues, and the client `clients[counter % length]`.
- `action_latencies` counts the latencies per action. Their values are
  abstracted away.

Actions:
- `create_bench_tasks` resets the counter and starts `num_of_concurrent_tasks`
  tasks. Up to its first `await`, each task runs synchronously, so the
  first `min(tasks, total)` calls are issued in the same step.
- `redis_benchmark(t, a)` is one loop iteration after task `t`'s call
  resolves. It records the latency, then either starts the next call with
  the freshly chosen action `a` or ends the task. `a` is drawn from
  `choose_action`.
- `run_clients` runs once every task of the run is done. It writes the
  results and moves on to the next run, or finishes after the last one.
  `CHECK_DEADLOCK FALSE` is set because the process really ends there.

Bounds (`MC_Benchmark`): 3 tasks, 2 clients, 4 commands, 2 runs. These give
tasks outnumbering clients, a run where some tasks issue two calls and
others none, and a second run that inherits the first's module state.

Runs:
- `benchmark` (pass). It checks `TypeOK` and `ExactCommandCount`: every
  run's results hold exactly `total_commands` latencies, and the counter ends
  at `total_commands`, however the tasks' awaits interleave.
- `benchmark_actions` (violation). `ActionIssuesItsCommand` fails. Every
  case of the switch awaits `client.get(generate_key_get())`, so SET never
  sets, and GET_EXISTING reads from the key range no SET writes (line 98,
  and lines 91-95). The SET and GET_EXISTING latencies the benchmark reports
  are all latencies of missed GETs.

## 4. Not modelled, and why

- The command builders (`createGet`, ...): protobuf encoding of the
  arguments.
- The methods `KeyValueCommands` and `KeyExpiry` leave out:
  - the effect of `customCommand` (part_001). It runs an arbitrary command;
    only its routing is modelled (`Routing`). Scripts run by `invokeScript`
    are given one at a time as an `EvalScript` operator;
  - the `ExpireOptions` argument of the timeout methods. Its type is in
    `Commands.ts`, which is not in `src/`.
  Each is one `createWritePromise` call, which `BaseClient` models as an
  opaque request.
- Protobuf encoding and RESP values. They are opaque; only the frame byte
  counts matter (`ResponseFraming`).
- The benchmark's `main` (client creation for the three client kinds),
  latency statistics and JSON output. They are pure computation and I/O.
- The CI workflows. They are build scripts.
- Logging and the error message text.
- `NodeConnection` and `Redirection` (plan items 6 and 7). Their code is
  in the Rust core, which is not under `src/`, so they would be modelled
  from the spec alone, and no client code under `src/` observes them
  beyond the answers the modelled core already gives (a value, a request
  error, a Timeout, a closingError).
