------------------------- MODULE ConnectionRequest -------------------------
(***************************************************************************)
(* The ConnectionRequest each wrapper builds from the user's configuration *)
(* and what the core reads from it.                                        *)
(*                                                                          *)
(* Node: createClientRequest (src/node/src/BaseClient.ts) maps a           *)
(* BaseClientConfiguration to a plain object, RedisClusterClient sets      *)
(* clusterModeEnabled (src/unnamed/part_001), and protobufjs encodes it.  *)
(* Java: the builders of ConnectionManager.java.  Both follow the schema   *)
(* connection_request.proto (src/unnamed/part_002).                        *)
(*                                                                          *)
(* A JS object or a Java configuration is a record that has a field only   *)
(* when the property is set (not undefined / not null).  On the wire a     *)
(* field that is not set reads back as its proto3 default, and a uint32    *)
(* field carries its value modulo 2^32.  TLC's integers stop below 2^31,  *)
(* so a uint32, and every number compared with one, is held exactly as    *)
(* two base-2^16 digits (Wide).                                            *)
(***************************************************************************)
EXTENDS Integers, Sequences, TLC

\* Enum numbers (part_002).
ReadFromNum == [Primary |-> 0, PreferReplica |-> 1, LowestLatency |-> 2, AZAffinity |-> 3]
TlsModeNum == [NoTls |-> 0, SecureTls |-> 1, InsecureTls |-> 2]
ProtocolNum == [RESP3 |-> 0, RESP2 |-> 1]

\* Node's ProtocolVersion enum: its members are the schema's numbers, so the
\* cast in createClientRequest leaves the value as it is.
ProtocolVersion == [RESP2 |-> ProtocolNum.RESP2, RESP3 |-> ProtocolNum.RESP3]

\* The value of an optional field, or d when it is not set.
Get(r, f, d) == IF f \in DOMAIN r THEN r[f] ELSE d

\* The integer n as two base-2^16 digits, n = hi * 2^16 + lo with
\* 0 <= lo < 2^16; hi keeps the sign.  Two integers are equal exactly when
\* their digits are, also past 2^31.
Wide(n) == [hi |-> n \div 65536, lo |-> n % 65536]

\* A uint32 field as written by protobufjs (value >>> 0) or protobuf-java
\* (the int's 32 bits), read back by the core as unsigned: n modulo 2^32.
UInt32(n) == [Wide(n) EXCEPT !.hi = @ % 65536]

-----------------------------------------------------------------------------
(* The wire: what the core decodes from an encoded message (part_002)      *)

DecodeAddress(a) == [host |-> Get(a, "host", ""), port |-> UInt32(Get(a, "port", 0))]

DecodeAuth(a) == [password |-> Get(a, "password", ""), username |-> Get(a, "username", "")]

DecodeRetry(s) ==
    [numberOfRetries |-> UInt32(Get(s, "numberOfRetries", 0)),
     factor |-> UInt32(Get(s, "factor", 0)),
     exponentBase |-> UInt32(Get(s, "exponentBase", 0))]

\* ConnectionRequest: scalars default to 0 / false / "", enums to their 0
\* member, a message field that is not set is absent.
Decode(m) ==
    [addresses |-> LET as == Get(m, "addresses", <<>>)
                   IN [i \in DOMAIN as |-> DecodeAddress(as[i])],
     tlsMode |-> Get(m, "tlsMode", 0),
     clusterModeEnabled |-> Get(m, "clusterModeEnabled", FALSE),
     requestTimeout |-> UInt32(Get(m, "requestTimeout", 0)),
     readFrom |-> Get(m, "readFrom", 0),
     databaseId |-> UInt32(Get(m, "databaseId", 0)),
     protocol |-> Get(m, "protocol", 0),
     clientName |-> Get(m, "clientName", "")]
    @@ (IF "authenticationInfo" \in DOMAIN m
        THEN [authenticationInfo |-> DecodeAuth(m.authenticationInfo)] ELSE <<>>)
    @@ (IF "connectionRetryStrategy" \in DOMAIN m
        THEN [connectionRetryStrategy |-> DecodeRetry(m.connectionRetryStrategy)]
        ELSE <<>>)

-----------------------------------------------------------------------------
(* Node                                                                    *)

MAP_READ_FROM_STRATEGY == [primary |-> ReadFromNum.Primary,
                           preferReplica |-> ReadFromNum.PreferReplica]

\* The object's properties that are not undefined.
Defined(fields) == [f \in {g \in DOMAIN fields : fields[g] # <<>>} |-> fields[f][1]]

\* Fault variant: the username of the credentials is dropped.
createClientRequest_noUsername(options) ==
    LET present(f) == IF f \in DOMAIN options THEN <<options[f]>> ELSE <<>>
    IN Defined([protocol |-> present("serverProtocol"),
                clientName |-> present("clientName"),
                addresses |-> present("addresses"),
                requestTimeout |-> present("requestTimeout"),
                readFrom |-> IF "readFrom" \in DOMAIN options
                             THEN <<MAP_READ_FROM_STRATEGY[options.readFrom]>> ELSE <<>>,
                authenticationInfo |->
                    IF "credentials" \in DOMAIN options
                    THEN <<[password |-> options.credentials.password]>> ELSE <<>>])
       @@ [tlsMode |-> IF Get(options, "useTLS", FALSE) THEN TlsModeNum.SecureTls
                       ELSE TlsModeNum.NoTls,
           clusterModeEnabled |-> FALSE]

\* createClientRequest: undefined options stay undefined; credentials give
\* authenticationInfo (username undefined if not given); TLS is SecureTls
\* only for a truthy useTLS.
createClientRequest(options) ==
    LET present(f) == IF f \in DOMAIN options THEN <<options[f]>> ELSE <<>>
        cred == present("credentials")
    IN Defined([protocol |-> present("serverProtocol"),
                clientName |-> present("clientName"),
                addresses |-> present("addresses"),
                requestTimeout |-> present("requestTimeout"),
                readFrom |-> IF "readFrom" \in DOMAIN options
                             THEN <<MAP_READ_FROM_STRATEGY[options.readFrom]>> ELSE <<>>,
                authenticationInfo |->
                    IF cred # <<>> /\ "password" \in DOMAIN cred[1]
                    THEN <<[f \in {"password", "username"} \cap DOMAIN cred[1] |-> cred[1][f]]>>
                    ELSE <<>>])
       @@ [tlsMode |-> IF Get(options, "useTLS", FALSE) THEN TlsModeNum.SecureTls
                       ELSE TlsModeNum.NoTls,
           clusterModeEnabled |-> FALSE]

\* RedisClusterClient.createClientRequest: the same with clusterModeEnabled.
clusterCreateClientRequest(options) ==
    [createClientRequest(options) EXCEPT !.clusterModeEnabled = TRUE]

-----------------------------------------------------------------------------
(* Java                                                                    *)

\* NodeAddress.getPort(): 6379 when no port was given (the configuration
\* classes are not in src/; spec section 6).
JavaPort(a) == Get(a, "port", 6379)

\* Fault variant: every strategy is sent as Primary.
mapReadFromEnum_alwaysPrimary(readFrom) == ReadFromNum.Primary

\* mapReadFromEnum: PREFER_REPLICA, else (PRIMARY or null) Primary.
mapReadFromEnum(readFrom) ==
    IF readFrom = "PREFER_REPLICA" THEN ReadFromNum.PreferReplica ELSE ReadFromNum.Primary

\* setupConnectionRequestBuilderBaseConfiguration: every address with its
\* port, TLS and readFrom always, authenticationInfo when credentials are
\* set (username only when not null), requestTimeout when not null.
setupConnectionRequestBuilderBaseConfiguration(c) ==
    [addresses |-> [i \in DOMAIN c.addresses |->
                       [host |-> c.addresses[i].host, port |-> JavaPort(c.addresses[i])]],
     tlsMode |-> IF c.useTLS THEN TlsModeNum.SecureTls ELSE TlsModeNum.NoTls,
     readFrom |-> mapReadFromEnum(Get(c, "readFrom", "null"))]
    @@ (IF "credentials" \in DOMAIN c
        THEN [authenticationInfo |->
                 [f \in {"password", "username"} \cap DOMAIN c.credentials |-> c.credentials[f]]]
        ELSE <<>>)
    @@ (IF "requestTimeout" \in DOMAIN c THEN [requestTimeout |-> c.requestTimeout] ELSE <<>>)

\* setupConnectionRequestBuilderRedisClient: clusterModeEnabled false, the
\* reconnect strategy and databaseId when not null.
setupConnectionRequestBuilderRedisClient(c) ==
    setupConnectionRequestBuilderBaseConfiguration(c)
    @@ [clusterModeEnabled |-> FALSE]
    @@ (IF "reconnectStrategy" \in DOMAIN c
        THEN [connectionRetryStrategy |->
                 [numberOfRetries |-> c.reconnectStrategy.numOfRetries,
                  factor |-> c.reconnectStrategy.factor,
                  exponentBase |-> c.reconnectStrategy.exponentBase]]
        ELSE <<>>)
    @@ (IF "databaseId" \in DOMAIN c THEN [databaseId |-> c.databaseId] ELSE <<>>)

\* setupConnectionRequestBuilderRedisClusterClient: clusterModeEnabled true.
setupConnectionRequestBuilderRedisClusterClient(c) ==
    setupConnectionRequestBuilderBaseConfiguration(c) @@ [clusterModeEnabled |-> TRUE]

\* createConnectionRequest: the builder for the configuration's class.
createConnectionRequest(c) ==
    IF c.cluster THEN setupConnectionRequestBuilderRedisClusterClient(c)
    ELSE setupConnectionRequestBuilderRedisClient(c)

-----------------------------------------------------------------------------
(* Meaning                                                                 *)

\* A setting left to the core's default, and one given a value.
Dflt == [default |-> TRUE]
Value(v) == [value |-> v]

\* How the core reads a decoded request (spec section 6, spec_modelled):
\* port 0 is 6379, timeout 0 and a missing retry strategy are defaults, an
\* empty username is "default", no authenticationInfo is no AUTH.
Effective(w) ==
    [addresses |-> [i \in DOMAIN w.addresses |->
                       [host |-> w.addresses[i].host,
                        port |-> IF w.addresses[i].port = UInt32(0) THEN Wide(6379)
                                 ELSE w.addresses[i].port]],
     tls |-> w.tlsMode,
     cluster |-> w.clusterModeEnabled,
     requestTimeout |-> IF w.requestTimeout = UInt32(0) THEN Dflt ELSE Value(w.requestTimeout),
     readFrom |-> w.readFrom,
     databaseId |-> w.databaseId,
     protocol |-> w.protocol,
     clientName |-> w.clientName,
     auth |-> IF "authenticationInfo" \in DOMAIN w
              THEN Value([password |-> w.authenticationInfo.password,
                          username |-> IF w.authenticationInfo.username = ""
                                       THEN "default" ELSE w.authenticationInfo.username])
              ELSE Dflt,
     retry |-> IF "connectionRetryStrategy" \in DOMAIN w
               THEN Value(w.connectionRetryStrategy) ELSE Dflt]

\* What a configuration asks for, as the option comments of
\* BaseClientConfiguration and the spec's option table state: port 6379,
\* no TLS, no AUTH, username "default", the default timeout, Primary,
\* RESP3, database 0 and the default retry strategy unless set.
Documented(c) ==
    [addresses |-> [i \in DOMAIN c.addresses |->
                       [host |-> c.addresses[i].host, port |-> Wide(Get(c.addresses[i], "port", 6379))]],
     tls |-> IF Get(c, "useTLS", FALSE) THEN TlsModeNum.SecureTls ELSE TlsModeNum.NoTls,
     cluster |-> c.cluster,
     requestTimeout |-> IF "requestTimeout" \in DOMAIN c THEN Value(Wide(c.requestTimeout)) ELSE Dflt,
     readFrom |-> IF Get(c, "readFrom", "") \in {"preferReplica", "PREFER_REPLICA"}
                  THEN ReadFromNum.PreferReplica ELSE ReadFromNum.Primary,
     databaseId |-> Wide(Get(c, "databaseId", 0)),
     protocol |-> Get(c, "serverProtocol", ProtocolNum.RESP3),
     clientName |-> Get(c, "clientName", ""),
     auth |-> IF "credentials" \in DOMAIN c
              THEN Value([password |-> c.credentials.password,
                          username |-> Get(c.credentials, "username", "default")])
              ELSE Dflt,
     retry |-> IF "reconnectStrategy" \in DOMAIN c
               THEN Value([numberOfRetries |-> Wide(c.reconnectStrategy.numOfRetries),
                           factor |-> Wide(c.reconnectStrategy.factor),
                           exponentBase |-> Wide(c.reconnectStrategy.exponentBase)])
               ELSE Dflt]

\* The Node client's request for options: the cluster client's override
\* when the options are for a RedisClusterClient.
NodeRequest(o) ==
    IF o.cluster THEN clusterCreateClientRequest(o) ELSE createClientRequest(o)

====
