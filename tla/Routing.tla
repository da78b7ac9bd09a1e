------------------------------ MODULE Routing ------------------------------
(***************************************************************************)
(* Routed commands of the Node cluster client (src/unnamed/part_001):      *)
(* customCommand, ping, info, clientGetName, configRewrite, ... each call  *)
(* createWritePromise(command, toProtobufRoute(route)); exec does the same *)
(* with a SingleNodeRoute.  toProtobufRoute builds a protobufjs Routes      *)
(* object; the generated encoder writes the fields its message type        *)
(* declares and that the object owns; the core decodes the route (missing  *)
(* fields take their proto3 defaults) and resolves it on the slot map      *)
(* (spec.md 4.4, 4.5).                                                     *)
(*                                                                          *)
(* A protobufjs object is a record of its own properties.  The encoder and *)
(* the core's resolution are not in this repository (spec_modelled).       *)
(***************************************************************************)
EXTENDS Naturals, Sequences, SequencesExt, FiniteSets, HashSlot

CONSTANTS
    SlotRanges,  \* CLUSTER SLOTS rows: [start, end, primary, replicas (a Seq)]
    RouteKeys,   \* keys (byte sequences) users route by
    SlotIds,     \* slot ids users route by
    NoRoute      \* the route argument left undefined

Rows == DOMAIN SlotRanges
Primaries == {SlotRanges[r].primary : r \in Rows}
Replicas == UNION {Range(SlotRanges[r].replicas) : r \in Rows}
AllNodes == Primaries \cup Replicas

ASSUME \A s \in 0 .. NumSlots - 1 :
          \E r \in Rows : SlotRanges[r].start <= s /\ s <= SlotRanges[r].end

\* The Routes type and its SingleNodeRoute part (the route exec accepts).
\* The string routes "randomNode", "allPrimaries" and "allNodes" are written
\* [type |-> "randomNode"], ...
SingleNodeRoutes ==
    {[type |-> "randomNode"]}
    \cup [type : {"primarySlotKey", "replicaSlotKey"}, key : RouteKeys]
    \cup [type : {"primarySlotId", "replicaSlotId"}, id : SlotIds]
Routes == SingleNodeRoutes \cup {[type |-> "allPrimaries"], [type |-> "allNodes"]}

VARIABLES
    ready,     \* replicas whose connection is Ready (primaries always are)
    rrIndex,   \* per slot range: the round-robin position among replicas
    lastCall   \* the last routed call: the user's route and the nodes reached

vars == <<ready, rrIndex, lastCall>>

-----------------------------------------------------------------------------
(* toProtobufRoute                                                         *)

\* Fault variant: "replicaSlotKey" is given SlotTypes.Primary.
toProtobufRoute_replicaAsPrimary(route) ==
    CASE route = NoRoute -> NoRoute
      [] route.type = "allPrimaries" -> [simpleRoutes |-> "AllPrimaries"]
      [] route.type = "allNodes" -> [simpleRoutes |-> "AllNodes"]
      [] route.type = "randomNode" -> [simpleRoutes |-> "Random"]
      [] route.type \in {"primarySlotKey", "replicaSlotKey"} ->
            [slotKeyRoute |-> [slotType |-> "Primary", slotKey |-> route.key]]
      [] route.type = "primarySlotId" ->
            [slotKeyRoute |-> [slotType |-> "Primary", slotId |-> route.id]]
      [] route.type = "replicaSlotId" ->
            [slotKeyRoute |-> [slotType |-> "Replica", slotId |-> route.id]]

\* The SlotIdRoute objects are stored under slotKeyRoute, as in the code.
toProtobufRoute(route) ==
    CASE route = NoRoute -> NoRoute
      [] route.type = "allPrimaries" -> [simpleRoutes |-> "AllPrimaries"]
      [] route.type = "allNodes" -> [simpleRoutes |-> "AllNodes"]
      [] route.type = "randomNode" -> [simpleRoutes |-> "Random"]
      [] route.type = "primarySlotKey" ->
            [slotKeyRoute |-> [slotType |-> "Primary", slotKey |-> route.key]]
      [] route.type = "replicaSlotKey" ->
            [slotKeyRoute |-> [slotType |-> "Replica", slotKey |-> route.key]]
      [] route.type = "primarySlotId" ->
            [slotKeyRoute |-> [slotType |-> "Primary", slotId |-> route.id]]
      [] route.type = "replicaSlotId" ->
            [slotKeyRoute |-> [slotType |-> "Replica", slotId |-> route.id]]

-----------------------------------------------------------------------------
(* Encoding and the core's view (spec_modelled)                            *)

\* A field as the receiver sees it: its value when encoded, else the
\* proto3 default.
FieldOr(obj, f, default) == IF f \in DOMAIN obj THEN obj[f] ELSE default

\* Routes.encode writes the oneof member the object owns; SlotKeyRoute.encode
\* writes slotType and slotKey, SlotIdRoute.encode slotType and slotId.  The
\* core decodes the bytes; a field that was not written takes its default
\* (SlotTypes.Primary, "" and 0).
DecodedRoute(obj) ==
    CASE obj = NoRoute -> NoRoute
      [] "simpleRoutes" \in DOMAIN obj -> [simple |-> obj.simpleRoutes]
      [] "slotKeyRoute" \in DOMAIN obj ->
            [slotType |-> FieldOr(obj.slotKeyRoute, "slotType", "Primary"),
             slotKey |-> FieldOr(obj.slotKeyRoute, "slotKey", <<>>)]
      [] "slotIdRoute" \in DOMAIN obj ->
            [slotType |-> FieldOr(obj.slotIdRoute, "slotType", "Primary"),
             slotId |-> FieldOr(obj.slotIdRoute, "slotId", 0)]

\* The slot range (CLUSTER SLOTS row) that owns slot s.
RowOf(s) == CHOOSE r \in Rows : SlotRanges[r].start <= s /\ s <= SlotRanges[r].end

ReadyReplicas(r) == SelectSeq(SlotRanges[r].replicas, LAMBDA n : n \in ready)

\* Replica selection: round-robin over the row's Ready replicas, the
\* primary when none is Ready (spec.md 4.4).
ReplicaOf(r) ==
    LET rs == ReadyReplicas(r)
    IN IF rs = <<>> THEN SlotRanges[r].primary
       ELSE rs[(rrIndex[r] % Len(rs)) + 1]

\* The slot a decoded slot route names.
RouteSlot(d) == IF "slotKey" \in DOMAIN d THEN KeySlot(d.slotKey) ELSE d.slotId

\* The node sets the core may send a decoded route to (spec.md 4.5); a
\* request without a route, like "Random", goes to one Ready node.
Resolve(d) ==
    CASE d = NoRoute -> {{n} : n \in Primaries \cup ready}
      [] "simple" \in DOMAIN d ->
            (CASE d.simple = "AllPrimaries" -> {Primaries}
               [] d.simple = "AllNodes" -> {AllNodes}
               [] d.simple = "Random" -> {{n} : n \in Primaries \cup ready})
      [] d.slotType = "Primary" -> {{SlotRanges[RowOf(RouteSlot(d))].primary}}
      [] d.slotType = "Replica" -> {{ReplicaOf(RowOf(RouteSlot(d)))}}

\* A replica route advances its row's round-robin position.
AdvanceRoundRobin(d) ==
    IF d # NoRoute /\ "slotType" \in DOMAIN d /\ d.slotType = "Replica"
    THEN LET r == RowOf(RouteSlot(d))
         IN rrIndex' = [rrIndex EXCEPT ![r] = (@ + 1) % Len(SlotRanges[r].replicas)]
    ELSE UNCHANGED rrIndex

-----------------------------------------------------------------------------

Init ==
    /\ ready = Replicas
    /\ rrIndex = [r \in Rows |-> 0]
    /\ lastCall = NoRoute

\* A user call through createWritePromise(command, toProtobufRoute(route)),
\* and the core routing the request it reads.
Dispatch(route) ==
    LET d == DecodedRoute(toProtobufRoute(route))
    IN /\ \E targets \in Resolve(d) :
             lastCall' = [route |-> route, targets |-> targets]
       /\ AdvanceRoundRobin(d)
       /\ UNCHANGED ready

\* customCommand, ping, info, clientGetName, configRewrite, configResetStat,
\* clientId, configGet and configSet take any Routes or none.
RoutedCommand(route) == Dispatch(route)

\* exec takes a SingleNodeRoute or none.
exec(route) == Dispatch(route)

\* A replica's connection drops or becomes Ready again (spec.md 4.2).
ReplicaDown(n) == ready' = ready \ {n} /\ UNCHANGED <<rrIndex, lastCall>>
ReplicaUp(n) == ready' = ready \cup {n} /\ UNCHANGED <<rrIndex, lastCall>>

Next ==
    \/ \E route \in Routes \cup {NoRoute} : RoutedCommand(route)
    \/ \E route \in SingleNodeRoutes \cup {NoRoute} : exec(route)
    \/ \E n \in ready : ReplicaDown(n)
    \/ \E n \in Replicas \ ready : ReplicaUp(n)

Spec == Init /\ [][Next]_vars

-----------------------------------------------------------------------------

\* The nodes a user's route names (Routes doc comments in part_001 and
\* spec.md 4.5): the slot's primary for primarySlot*, a Ready replica of the
\* slot for replicaSlot* (its primary when none is Ready), every primary or
\* every node for the fan-out routes.
IntendedNodes(route) ==
    LET owner(s) == RowOf(s)
        slot == IF "key" \in DOMAIN route THEN KeySlot(route.key) ELSE route.id
    IN CASE route.type = "allPrimaries" -> Primaries
         [] route.type = "allNodes" -> AllNodes
         [] route.type \in {"primarySlotKey", "primarySlotId"} ->
               {SlotRanges[owner(slot)].primary}
         [] route.type \in {"replicaSlotKey", "replicaSlotId"} ->
               IF ReadyReplicas(owner(slot)) = <<>>
               THEN {SlotRanges[owner(slot)].primary}
               ELSE Range(ReadyReplicas(owner(slot)))

\* The call a step makes reaches the nodes its route names.
Reaches(call) ==
    call.route # NoRoute /\ call.route.type # "randomNode"
    => IF call.route.type \in {"allPrimaries", "allNodes"}
       THEN call.targets = IntendedNodes(call.route)
       ELSE call.targets \subseteq IntendedNodes(call.route)

\* Every routed call (customCommand, exec, ...) reaches the nodes its route
\* names: through toProtobufRoute, the protobuf encoding and the core's
\* resolution, a slot route lands on the slot's owner and a replica route on
\* one of the owner's Ready replicas.  Checked on each dispatch step, against
\* the replicas Ready when the core routes it.
RouteReachesIntendedNodes ==
    [][lastCall' # NoRoute /\ ready' = ready => Reaches(lastCall')]_vars

====
