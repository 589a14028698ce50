----------------------------- MODULE Commissioning -----------------------------
(***************************************************************************)
(* What becomes of a device in the Standalone edition, from its first      *)
(* beacon to an entity in Home Assistant and back: the list of             *)
(* unprovisioned devices, provisioning by hand or by itself, composition,  *)
(* application key, binding of its models, announcement, reset             *)
(* (ble_mesh_provisioning.cpp, the configuration client's callback).       *)
(*                                                                         *)
(* Composed with BridgeEntities, which has the switches and the rounds     *)
(* after a restart of Home Assistant.  NodeMessageQueue models how the     *)
(* queue sends; here its front ends one way or another.  NodeRegistry has  *)
(* what is saved.                                                          *)
(***************************************************************************)
EXTENDS BridgeEntities, SequencesExt

CONSTANTS
  Devices,       \* device UUIDs
  Elements,      \* each device's elements: sequences of sets of server models
  Bearers        \* the bearers each device's beacons come by

Servers == {"onoff", "level", "hsl", "lightness", "ctl", "ctl_temp"}
ASSUME CommissioningAssumption ==
  /\ Elements \in [Devices -> Seq(SUBSET Servers)] /\ \A d \in Devices : Elements[d] # <<>>
  /\ Bearers \in [Devices -> SUBSET {"adv", "gatt"}]

VARIABLES
  dev,       \* each device: in our network, has the application key, models bound to it
  listed,    \* unprovisioned_devices: the bearer of each entry, or "no"
  adding,    \* devices the stack provisions when it hears them
  stack,     \* the stack's node table: it has their device keys
  entry,     \* node_manager(): "no", or features and light_ctl_temp_offset
  queue,     \* per node
  late,      \* a composition whose Get was given up is on its way
  console,   \* a composition the console asked for is on its way
  debug,     \* get_composition_data_debug
  shown,     \* nodes with an entity in Home Assistant: the features it was told
  doubts     \* history: per device, what the properties name

nodevars == <<dev, listed, adding, stack, entry, queue, late, console, debug, shown, doubts>>
vars == <<bridgevars, nodevars>>
meshvars == <<dev, listed, adding, stack>>
BridgeButBudget == <<flagvars, linkvars, todo, ha, held, doubt>>

Fresh == [ours |-> FALSE, keyed |-> FALSE, bound |-> {}]
No == [features |-> {}, offset |-> 0, known |-> FALSE]
Stored == [No EXCEPT !.known = TRUE]
NoBind == [model |-> "none", offset |-> 0]
Msg(op) == [op |-> op, bind |-> NoBind]
Bind(model, offset) == [op |-> "bind", bind |-> [model |-> model, offset |-> offset]]

Pop1(d) == queue' = [queue EXCEPT ![d] = Tail(@)]
Push(d, m) == queue' = [queue EXCEPT ![d] = Append(@, m)]
Due(d) == IF queue[d] = <<>> THEN Msg("none") ELSE Head(queue[d])
Known(d) == entry[d].known
Doubt(d, what) == doubts' = [doubts EXCEPT ![d] = @ \union {what}]

-----------------------------------------------------------------------------
(* The list of unprovisioned devices *)

Beacons(d) == ~dev[d].ours

\* Mutant: a better bearer is noted, and nothing else.
NotUpgraded(d, bearer) == listed[d] = "no" /\ bearer = "adv"

\* A beacon makes the bridge provision the device by itself.
Triggers(d, bearer) == bearer = "adv" /\ listed[d] \in {"no", "gatt"}

\* esp_ble_mesh_provisioner_add_unprov_dev: the stack takes the device, in place of another when
\* its table is full, or refuses it, which is only logged.
AddUnprovDev(d) ==
  \/ d \in adding /\ UNCHANGED <<adding, doubts, budget>>
  \/ /\ d \notin adding /\ UNCHANGED budget
     /\ adding' = adding \union {d}
     /\ doubts' = [doubts EXCEPT ![d] = @ \ {"byHand", "refused"}]
  \/ /\ d \notin adding /\ Spend("losses")
     /\ \E gone \in adding \union {d} :
          adding' = (adding \union {d}) \ {gone} /\ Doubt(gone, "refused")

\* recv_unprov_adv_pkt: a new device is appended, one known by PB-GATT is moved to PB-ADV.
Beacon(d, bearer) ==
  /\ Beacons(d) /\ bearer \in Bearers[d] /\ budget["nodes"] > 0
  /\ listed' = [listed EXCEPT ![d] = IF @ = "adv" THEN @ ELSE bearer]
  /\ IF enabled["auto"] /\ Triggers(d, bearer) THEN AddUnprovDev(d) ELSE
       /\ UNCHANGED <<adding, budget>>
       /\ IF ~enabled["auto"] /\ bearer = "adv" THEN Doubt(d, "byHand") ELSE UNCHANGED doubts
  /\ UNCHANGED <<BridgeButBudget, dev, stack, entry, queue, late, console, debug, shown>>

\* for_each_unprovisioned_node, for a page or the console: what was silent for 30 s goes.
PruneStale(d) ==
  /\ listed[d] # "no"
  /\ listed' = [listed EXCEPT ![d] = "no"]
  /\ UNCHANGED <<bridgevars, dev, adding, stack, entry, queue, late, console, debug, shown, doubts>>

\* ble_mesh_provision_device, from a page or the console's provision_device_index: the entry
\* is copied under the lock, the stack told after it.
Provision(d) ==
  /\ listed[d] # "no" /\ d \notin adding
  /\ AddUnprovDev(d)
  /\ UNCHANGED <<BridgeButBudget, dev, listed, stack, entry, queue, late, console, debug, shown>>

-----------------------------------------------------------------------------
(* Provisioning *)

\* remove_unprovisioned_device
Unlist(d) == listed' = [listed EXCEPT ![d] = "no"]

\* The stack provisions a device it is to add, and prov_complete takes it over.
ProvComplete(d) ==
  /\ d \in adding /\ Beacons(d) /\ stackOn /\ Spend("nodes")
  /\ dev' = [dev EXCEPT ![d] = [Fresh EXCEPT !.ours = TRUE]]
  /\ adding' = adding \ {d} /\ stack' = stack \union {d}
  /\ entry' = [entry EXCEPT ![d] = IF Known(d) THEN @ ELSE Stored]
  /\ Push(d, Msg("composition"))
  /\ Unlist(d)
  /\ doubts' = [doubts EXCEPT ![d] = @ \intersect {"forgotten"}]
  /\ UNCHANGED <<BridgeButBudget, late, console, debug, shown>>

\* The stack refuses the node's name: prov_complete ends there.
Unnamed(d) ==
  /\ d \in adding /\ Beacons(d) /\ stackOn /\ Spend("losses")
  /\ dev' = [dev EXCEPT ![d] = [Fresh EXCEPT !.ours = TRUE]]
  /\ adding' = adding \ {d} /\ stack' = stack \union {d}
  /\ Doubt(d, "unnamed")
  /\ UNCHANGED <<BridgeButBudget, listed, entry, queue, late, console, debug, shown>>

-----------------------------------------------------------------------------
(* Configuration *)

\* Mutant: the temperature server's element is not looked for.
ParsedAtPrimary(d) ==
  [known |-> TRUE, features |-> UNION {Elements[d][i] : i \in DOMAIN Elements[d]} \ {"ctl_temp"},
   offset |-> 0]

\* parse_composition_data: features of all elements together, the element of the last
\* temperature server.
Parsed(d) ==
  LET all == UNION {Elements[d][i] : i \in DOMAIN Elements[d]}
      at == {i \in DOMAIN Elements[d] : "ctl_temp" \in Elements[d][i]}
  IN [known |-> TRUE, features |-> all \ {"ctl_temp"},
      offset |-> IF at = {} THEN 0 ELSE Max(at) - 1]

BindsOf(e, f) ==
  IF f \notin e.features THEN <<>>
  ELSE (IF f = "ctl" THEN <<Bind("ctl_temp", e.offset)>> ELSE <<>>) \o <<Bind(f, 0)>>

\* Bind_App_Key_queue, in its order; then ble_mesh_refresh_node and the announcement.
Bind_App_Key_queue(e) ==
  BindsOf(e, "onoff") \o BindsOf(e, "level") \o BindsOf(e, "hsl") \o BindsOf(e, "lightness")
    \o BindsOf(e, "ctl") \o <<Msg("refresh"), Msg("announce")>>

AfterComposition(d, q) == IF debug THEN q ELSE Append(q, Msg("appkey"))

\* ble_mesh_on_composition_received.  Whoever asked, the flag is taken as meant for this one.
OnComposition(d, q, wanted) ==
  /\ entry' = [entry EXCEPT ![d] = Parsed(d)]
  /\ queue' = [queue EXCEPT ![d] = AfterComposition(d, q)]
  /\ debug' = FALSE
  /\ IF debug /\ wanted THEN Doubt(d, "stolen") ELSE UNCHANGED doubts

\* The device knows the key and has the model on the element addressed.
Takes(d, b) == dev[d].keyed /\ b.offset < Len(Elements[d]) /\ b.model \in Elements[d][b.offset + 1]

Reached(d) == d \in stack /\ dev[d].ours
Answers(d, op) == Reached(d) /\ Due(d).op = op

GotComposition(d) ==
  /\ Answers(d, "composition")
  /\ OnComposition(d, Tail(queue[d]), TRUE)
  /\ UNCHANGED <<bridgevars, meshvars, late, console, shown>>

\* The reply to a Get that was given up comes as a publication; with it nothing is acknowledged.
LateComposition(d) ==
  /\ late[d] /\ late' = [late EXCEPT ![d] = FALSE]
  /\ IF Known(d) THEN OnComposition(d, queue[d], TRUE) ELSE UNCHANGED <<entry, queue, debug, doubts>>
  /\ UNCHANGED <<bridgevars, meshvars, console, shown>>

\* APP_KEY_ADD acknowledged
GotKey(d) ==
  /\ Answers(d, "appkey")
  /\ dev' = [dev EXCEPT ![d].keyed = TRUE]
  /\ queue' = [queue EXCEPT ![d] = Tail(@) \o Bind_App_Key_queue(entry[d])]
  /\ UNCHANGED <<bridgevars, listed, adding, stack, entry, late, console, debug, shown, doubts>>

\* MODEL_APP_BIND acknowledged; whether the device took it is not looked at.
GotBind(d) ==
  /\ Answers(d, "bind")
  /\ dev' = IF Takes(d, Due(d).bind) THEN [dev EXCEPT ![d].bound = @ \union {Due(d).bind.model}] ELSE dev
  /\ Pop1(d)
  /\ UNCHANGED <<bridgevars, listed, adding, stack, entry, late, console, debug, shown, doubts>>

\* The Gets of ble_mesh_refresh_node, answered or not.
Refreshed(d) ==
  /\ Due(d).op = "refresh"
  /\ Pop1(d)
  /\ UNCHANGED <<bridgevars, meshvars, entry, late, console, debug, shown, doubts>>

\* A message is given up after its retries, whether or not the device got it: the message
\* queue drops it and goes on.
GivenUp(d) ==
  LET m == Due(d)
      took == Reached(d)
  IN /\ m.op \in {"composition", "appkey", "bind"}
     /\ IF took THEN Spend("losses") ELSE UNCHANGED budget
     /\ Pop1(d)
     /\ \/ UNCHANGED <<dev, late>>
        \/ /\ took /\ m.op = "appkey" /\ dev' = [dev EXCEPT ![d].keyed = TRUE] /\ UNCHANGED late
        \/ /\ took /\ m.op = "composition" /\ late' = [late EXCEPT ![d] = TRUE] /\ UNCHANGED dev
     /\ Doubt(d, "dropped")
     /\ UNCHANGED <<BridgeButBudget, listed, adding, stack, entry, console, debug, shown>>

\* mqtt_send_discovery and what goes with it; the topic takes the stack's entry of the node.
Announced(d) ==
  /\ Due(d).op = "announce"
  /\ shown' = IF Connected /\ d \in stack THEN [shown EXCEPT ![d] = {entry[d].features}] ELSE shown
  /\ IF Connected THEN UNCHANGED doubts ELSE Doubt(d, "unheard")
  /\ Pop1(d)
  /\ UNCHANGED <<bridgevars, meshvars, entry, late, console, debug>>

-----------------------------------------------------------------------------
(* Requests for a node *)

\* get_composition_data: a Get of the console's own.  The stack refuses a second one to the
\* same node; the flag is raised before that.
ConsoleGet(d) ==
  /\ Known(d) /\ ~console[d] /\ Spend("requests")
  /\ debug' = TRUE
  /\ console' = [console EXCEPT ![d] = Due(d).op # "composition"]
  /\ UNCHANGED <<BridgeButBudget, meshvars, entry, queue, late, shown, doubts>>

\* Its reply, or the end of waiting for it.
ConsoleReply(d) ==
  /\ console[d] /\ console' = [console EXCEPT ![d] = FALSE]
  /\ IF Reached(d) /\ Known(d)
       THEN OnComposition(d, IF Due(d).op = "composition" THEN Tail(queue[d]) ELSE queue[d],
                          Due(d).op = "composition")
       ELSE UNCHANGED <<entry, queue, debug, doubts>>
  /\ UNCHANGED <<bridgevars, meshvars, late, shown>>

\* ble_mesh_unprovision_device
Unprovision(d) ==
  /\ Spend("requests")
  /\ \/ Known(d) /\ Push(d, Msg("reset")) /\ UNCHANGED stack
     \/ ~Known(d) /\ d \in stack /\ stack' = stack \ {d} /\ UNCHANGED queue
  /\ UNCHANGED <<BridgeButBudget, dev, listed, adding, entry, late, console, debug, shown, doubts>>

\* unprovision_all_nodes
UnprovisionAll ==
  /\ stack # {} /\ Spend("requests")
  /\ queue' = [d \in Devices |-> IF d \in stack /\ Known(d) THEN Append(queue[d], Msg("reset")) ELSE queue[d]]
  /\ stack' = {}
  /\ UNCHANGED <<BridgeButBudget, dev, listed, adding, entry, late, console, debug, shown, doubts>>

\* ble_mesh_reset_node
Forget(d) ==
  /\ shown' = IF d \in stack /\ Connected THEN [shown EXCEPT ![d] = {}] ELSE shown
  /\ stack' = stack \ {d}
  /\ entry' = [entry EXCEPT ![d] = No]
  /\ queue' = [queue EXCEPT ![d] = <<>>]

\* NODE_RESET acknowledged
GotReset(d) ==
  /\ Answers(d, "reset")
  /\ dev' = [dev EXCEPT ![d] = Fresh]
  /\ Forget(d)
  /\ UNCHANGED <<bridgevars, listed, adding, late, console, debug, doubts>>

\* ... or given up.  The node is forgotten if nothing else waits for it.
ResetGivenUp(d) ==
  /\ Due(d).op = "reset"
  /\ IF Reached(d) THEN Spend("losses") ELSE UNCHANGED budget
  /\ IF Len(queue[d]) = 1 THEN Forget(d) ELSE Pop1(d) /\ UNCHANGED <<shown, stack, entry>>
  /\ Doubt(d, "dropped")
  /\ UNCHANGED <<BridgeButBudget, dev, listed, adding, late, console, debug>>

\* Somebody resets the device itself.
FactoryReset(d) ==
  /\ dev[d].ours /\ Spend("requests")
  /\ dev' = [dev EXCEPT ![d] = Fresh]
  /\ Doubt(d, "reset")
  /\ UNCHANGED <<BridgeButBudget, listed, adding, stack, entry, queue, late, console, debug, shown>>

\* ble_mesh_republish_all_nodes_to_mqtt, last in a round.
Republish(t) ==
  /\ Next1(t, "nodes")
  /\ queue' = [d \in Devices |-> IF Known(d) THEN Append(queue[d], Msg("announce")) ELSE queue[d]]
  /\ held' = IF Connected THEN held + 1 ELSE held
  /\ doubts' = [d \in Devices |-> IF Known(d) /\ held >= 0 THEN doubts[d] \ {"forgotten"} ELSE doubts[d]]
  /\ UNCHANGED <<flagvars, linkvars, ha, doubt, budget, meshvars, entry, late, console, debug, shown>>

\* A restart of the bridge.  What was learnt of a node in the last half minute is not in flash
\* (NodeRegistry), and nothing that was queued is asked again.
BridgeAlone ==
  /\ BridgeRestarts
  /\ listed' = [d \in Devices |-> "no"] /\ adding' = {}
  /\ queue' = [d \in Devices |-> <<>>]
  /\ late' = [d \in Devices |-> FALSE] /\ console' = late' /\ debug' = FALSE
  /\ entry' \in {entry, [d \in Devices |-> IF Known(d) THEN Stored ELSE No]}
  /\ doubts' = [d \in Devices |-> IF queue[d] = <<>> /\ entry' = entry
                                THEN doubts[d] \ {"byHand", "refused"}
                                ELSE (doubts[d] \ {"byHand", "refused"}) \union {"dropped"}]
  /\ UNCHANGED <<dev, stack, shown>>

HaAlone ==
  /\ HaRestarts
  /\ shown' = [d \in Devices |-> {}]
  /\ doubts' = [d \in Devices |-> doubts[d] \union {"forgotten"}]
  /\ UNCHANGED <<meshvars, entry, queue, late, console, debug>>

-----------------------------------------------------------------------------
Init ==
  /\ BridgeInit
  /\ dev = [d \in Devices |-> Fresh]
  /\ listed = [d \in Devices |-> "no"]
  /\ adding = {} /\ stack = {}
  /\ entry = [d \in Devices |-> No]
  /\ queue = [d \in Devices |-> <<>>]
  /\ late = [d \in Devices |-> FALSE] /\ console = [d \in Devices |-> FALSE] /\ debug = FALSE
  /\ shown = [d \in Devices |-> {}]
  /\ doubts = [d \in Devices |-> {}]

NodeStep(d) ==
  \/ \E b \in {"adv", "gatt"} : Beacon(d, b)
  \/ PruneStale(d) \/ Provision(d) \/ ProvComplete(d) \/ Unnamed(d)
  \/ GotComposition(d) \/ LateComposition(d) \/ GotKey(d) \/ GotBind(d) \/ Refreshed(d) \/ GivenUp(d)
  \/ Announced(d) \/ ConsoleGet(d) \/ ConsoleReply(d)
  \/ Unprovision(d) \/ GotReset(d) \/ ResetGivenUp(d) \/ FactoryReset(d)

Next ==
  \/ BridgeNext /\ UNCHANGED nodevars
  \/ BridgeAlone \/ HaAlone
  \/ \E d \in Devices : NodeStep(d)
  \/ UnprovisionAll
  \/ \E t \in Tasks : Republish(t)

Spec == Init /\ [][Next]_vars

-----------------------------------------------------------------------------
TypeOK ==
  /\ dev \in [Devices -> [ours : BOOLEAN, keyed : BOOLEAN, bound : SUBSET Servers]]
  /\ listed \in [Devices -> {"no", "adv", "gatt"}]
  /\ adding \subseteq Devices /\ stack \subseteq Devices
  /\ entry \in [Devices -> [features : SUBSET Servers, offset : Nat, known : BOOLEAN]]
  /\ late \in [Devices -> BOOLEAN] /\ console \in [Devices -> BOOLEAN] /\ debug \in BOOLEAN

\* The models that can be bound: those of the primary element, and a temperature server
\* wherever it is, if there is a CTL server.
Models(d) == UNION {Elements[d][i] : i \in DOMAIN Elements[d]}
Bindable(d) ==
  (Elements[d][1] \ {"ctl_temp"}) \union {m \in Models(d) \intersect {"ctl_temp"} : "ctl" \in Models(d)}

\* Ours, with its key, and nothing left to do for it or on its way.
AtRest(d) == Reached(d) /\ Known(d) /\ queue[d] = <<>> /\ ~late[d]

\* A node at rest has the key and all of its models that can be bound are, whatever became of
\* it before: reset by hand, provisioned again with the old life's messages still queued,
\* asked by the console, announced early.  Unless its name was refused, a message to it given up, or its
\* composition taken for the console's.
AtRestIsBound ==
  \A d \in Devices : AtRest(d) /\ doubts[d] \intersect {"unnamed", "dropped", "stolen"} = {}
    => dev[d].keyed /\ Bindable(d) \subseteq dev[d].bound

\* While auto-provisioning is on, a device listed by PB-ADV is being added, whichever bearer it
\* was heard on first; it is by hand if it was heard before the switch was turned on, and if the
\* stack refused it or gave its place to another, which nothing tells the bridge.
AutoMissesNone ==
  \A d \in Devices : enabled["auto"] /\ listed[d] = "adv" /\ Beacons(d)
                       /\ doubts[d] \intersect {"byHand", "refused", "unnamed"} = {} => d \in adding

=============================================================================
