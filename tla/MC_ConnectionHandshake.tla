------------------------ MODULE MC_ConnectionHandshake ------------------------
(* Model-checking instance of ConnectionHandshake: the configurations the  *)
(* two wrappers are created with.  Each field of the ConnectionRequest is  *)
(* computed from one option (authenticationInfo from the credentials and   *)
(* their username), so configurations in which every option takes each of *)
(* its values, set and unset, in both client classes, reach every branch   *)
(* of the mapping.                                                          *)
EXTENDS ConnectionHandshake

Addr == [host |-> "h"]
AddrPort == [host |-> "h", port |-> 6380]
Creds == {[password |-> "p"], [password |-> "p", username |-> "u"]}

\* A base configuration, the base with one option set to each of its
\* values, and the configurations with every option set.
Varied(base, choices) ==
    {base} \cup {base @@ (c[1] :> c[2]) : c \in choices}

MC_NodeOptions ==
    LET choices == {<<"addresses", <<AddrPort>> >>, <<"useTLS", TRUE>>, <<"useTLS", FALSE>>,
                    <<"requestTimeout", 2147483647>>,
                    <<"readFrom", "primary">>, <<"readFrom", "preferReplica">>,
                    <<"serverProtocol", ProtocolVersion.RESP2>>,
                    <<"serverProtocol", ProtocolVersion.RESP3>>, <<"clientName", "n">>}
                   \cup {<<"credentials", c>> : c \in Creds}
        full(cl, c) == [addresses |-> <<Addr, AddrPort>>, cluster |-> cl, useTLS |-> TRUE,
                        credentials |-> c, requestTimeout |-> 1000,
                        readFrom |-> "preferReplica", serverProtocol |-> ProtocolVersion.RESP2,
                        clientName |-> "n"]
    IN UNION {Varied([addresses |-> <<Addr>>, cluster |-> cl], choices) : cl \in BOOLEAN}
       \cup {full(cl, c) : cl \in BOOLEAN, c \in Creds}

\* Java: useTLS is a boolean; databaseId and the reconnect strategy exist
\* only on the standalone configuration.
MC_JavaConfigs ==
    LET choices == {<<"addresses", <<AddrPort>> >>, <<"useTLS", TRUE>>,
                    <<"requestTimeout", 2147483647>>,
                    <<"readFrom", "PRIMARY">>, <<"readFrom", "PREFER_REPLICA">>}
                   \cup {<<"credentials", c>> : c \in Creds}
        standalone == {<<"reconnectStrategy", [numOfRetries |-> 3, factor |-> 2, exponentBase |-> 2]>>,
                       <<"databaseId", 2>>}
        base(cl) == [addresses |-> <<Addr>>, useTLS |-> FALSE, cluster |-> cl]
    IN Varied(base(TRUE), choices) \cup Varied(base(FALSE), choices \cup standalone)
====
