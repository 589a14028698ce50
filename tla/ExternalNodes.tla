--------------------------- MODULE ExternalNodes ---------------------------
(***************************************************************************)
(* The Companion edition's External Mesh Nodes: the table of the lights it *)
(* has heard (ble_mesh/ble_mesh_control.cpp), its copy in flash, and the   *)
(* entities announced to Home Assistant (mqtt/mqtt_external_control.cpp).  *)
(*                                                                         *)
(* Four tasks run this code.  The table and the announcements have a mutex *)
(* each, held for a look-up or an update only; what a handler does between *)
(* two of them it does on a copy.  A step here is one such critical        *)
(* section, one MQTT publish, or one write to flash; `job[t].pc' is the    *)
(* next one of task t.                                                     *)
(***************************************************************************)
EXTENDS Naturals, FiniteSets

CONSTANTS
  Addrs,             \* unicast addresses of external nodes
  Btc,               \* Bluetooth task: statuses, replies, "Reset node" of the app
  Http,              \* web server: forget, commands
  Mqtt,              \* MQTT client's task: connection events, commands
  Timer,             \* esp_timer task: saving, republishing
  Scenes,            \* what may happen around the bridge, see Scene
  MaxSends,          \* bound: commands in the send queue at once
  MaxCrashes         \* bound: restarts of the bridge

Tasks == {Btc, Http, Mqtt, Timer}

\* overlap: tasks may overlap; if FALSE one handler runs at a time.  brokerUp: there is a broker
\* to connect to.  linkMayDrop, haMayRestart: the connection to it may be lost, Home Assistant
\* may restart.  flashMayFail: flash may refuse to be written or read.  maxForgets: bound:
\* forgets, and resets.
Scene == [overlap : BOOLEAN, brokerUp : BOOLEAN, linkMayDrop : BOOLEAN, haMayRestart : BOOLEAN,
          flashMayFail : BOOLEAN, maxForgets : Nat]

ASSUME ExternalNodesAssumption ==
  /\ Cardinality(Tasks) = 4 /\ Addrs # {}
  /\ Scenes \subseteq Scene
  /\ MaxSends \in Nat /\ MaxCrashes \in Nat

\* A node is known by what it was heard to have: OnOff, Level, one of the light models
\* (Lightness, HSL, CTL: they replace Level alike), and the light's range.
Features == {"onoff", "level", "light", "range"}
Nodes == SUBSET Features
Unknown == {}
Kinds == {"light", "cover"}

VARIABLES
  table,      \* external_nodes: what is known of every address, Unknown if nothing
  sends,      \* what the external send queue holds: acknowledged sends
  announced,  \* s_announced_as_cover: the kind of entity last announced, or "none"
  connected,  \* mqtt_credentials().get_connection_state() = CONNECTED
  link,       \* the broker really gets what is published
  unsubAck,   \* the broker's answer to an unsubscribe is on its way
  ha,         \* the entities Home Assistant has
  haAsked,    \* Home Assistant came back and wants everything republished
  saveTimer,  \* s_ext_nodes_save_timer is running
  disk,       \* the table in flash
  job,        \* per task: the handler it is in
  scene,      \* one of Scenes
  forgets, crashes, \* bounds
  unsaved,    \* history: the last write was refused, or the table not read since
  sincePurge, \* history: addresses whose reply is due to a send the last purge missed
  lost        \* history: entities whose removal Home Assistant never got

vars == <<table, sends, announced, connected, link, unsubAck, ha, haAsked, saveTimer,
          disk, job, scene, forgets, crashes, unsaved, sincePurge, lost>>
mqttvars == <<connected, link, unsubAck, ha, haAsked, lost>>
boundvars == <<scene, forgets, crashes>>
storevars == <<saveTimer, disk, unsaved>>

Send == [addr : Addrs, feature : Features, orphaned : BOOLEAN]
Snapshot == [Addrs -> Nodes]
Pcs == {"idle", "upsert", "rangeGet", "mark", "notify", "decide", "announce", "retract",
        "publish", "drop", "erase", "unannounce", "enqueue", "write"}

\* pc: next step.  addr, node: whom it is about and the copy made of it.  feature, reply:
\* what was heard.  isNew: announce it in any case.  old: the kind of entity to remove.
\* asked: commands still to queue.  left: nodes still to walk over.
Job == [pc : Pcs, addr : Addrs, node : Nodes, feature : Features, reply : BOOLEAN,
        isNew : BOOLEAN, forget : BOOLEAN, old : Kinds, asked : Nodes, left : Snapshot]

Nobody == CHOOSE a \in Addrs : TRUE
Idle == [pc |-> "idle", addr |-> Nobody, node |-> Unknown, feature |-> "onoff",
         reply |-> FALSE, isNew |-> FALSE, forget |-> FALSE, old |-> "light",
         asked |-> {}, left |-> [a \in Addrs |-> Unknown]]

TypeOK ==
  /\ table \in Snapshot /\ disk \in Snapshot
  /\ sends \subseteq Send /\ Cardinality({s \in sends : s.orphaned}) <= 1
  /\ announced \in [Addrs -> Kinds \cup {"none"}]
  /\ {connected, link, unsubAck, haAsked, saveTimer, unsaved} \subseteq BOOLEAN
  /\ ha \in [Addrs -> SUBSET Kinds] /\ lost \in [Addrs -> SUBSET Kinds]
  /\ job \in [Tasks -> Job]
  /\ scene \in Scenes /\ forgets \in 0 .. scene.maxForgets /\ crashes \in 0 .. MaxCrashes
  /\ sincePurge \subseteq Addrs

Init ==
  /\ table = [a \in Addrs |-> Unknown] /\ disk = table
  /\ sends = {}
  /\ announced = [a \in Addrs |-> "none"]
  /\ connected = FALSE /\ link = FALSE /\ unsubAck = FALSE
  /\ ha = [a \in Addrs |-> {}] /\ haAsked = FALSE
  /\ saveTimer = FALSE
  /\ job = [t \in Tasks |-> Idle]
  /\ scene \in Scenes /\ forgets = 0 /\ crashes = 0
  /\ unsaved = FALSE /\ sincePurge = {}
  /\ lost = [a \in Addrs |-> {}]

(***************************************************************************)
(* Helpers                                                                 *)
(***************************************************************************)
\* external_node_is_cover: Level and no light model.
KindOf(known) == IF "level" \in known /\ "light" \notin known THEN "cover" ELSE "light"

\* Task t may take up a new handler.
Ready(t) == job[t] = Idle /\ (scene.overlap \/ \A u \in Tasks : job[u] = Idle)

\* The MQTT task holds its client's lock during a whole event: others publish around it.
MayPublish(t) == t = Mqtt \/ job[Mqtt] = Idle

At(t, pc) == job[t].pc = pc
Start(t, j) == job' = [job EXCEPT ![t] = j]
Goto(t, pc) == Start(t, [job[t] EXCEPT !.pc = pc])

\* The end of one node's turn: the next node of the walk, or done.
NextTurn(j, pc) ==
  LET rest == {a \in Addrs : j.left[a] # Unknown}
  IN IF rest = {} THEN {Idle}
     ELSE {[Idle EXCEPT !.pc = pc, !.addr = a, !.node = j.left[a], !.forget = j.forget,
                        !.left = [j.left EXCEPT ![a] = Unknown]] : a \in rest}

\* What the upsert_external_node_* functions make of a node that reports feature f.
Heard(known, f) ==
  CASE f = "light" -> (known \cup {f}) \ {"level"}
    [] f = "level" /\ "light" \in known -> known
    [] OTHER -> known \cup {f}

\* Fault: the send in flight keeps its reply.
PurgedNotOrphaned(a) == {{s \in sends : s.addr # a} \cup x :
                           x \in SUBSET {s \in sends : s.addr = a}}

\* drop_pending_for: what is queued to a goes; the send in flight, at most one, is orphaned.
Purged(a) ==
  LET mine  == {s \in sends : s.addr = a}
      rest  == sends \ mine
      onair == {s \in mine : \A r \in rest : ~r.orphaned}
  IN {rest \cup x : x \in {{}} \cup {{[s EXCEPT !.orphaned = TRUE]} : s \in onair}}

(***************************************************************************)
(* Hearing from a node                                                     *)
(***************************************************************************)
\* A status nobody was waiting for: published, or the answer to a discovery.  A range is
\* only ever reported in answer to a Get.
HearStatus(a, f) ==
  /\ Ready(Btc) /\ f # "range"
  /\ Start(Btc, [Idle EXCEPT !.pc = "upsert", !.addr = a, !.feature = f])
  /\ UNCHANGED <<table, sends, announced, mqttvars, storevars, boundvars, sincePurge>>

\* on_send_complete: the send is over; the reply to an orphaned one is ignored.
HearReply(s) ==
  /\ Ready(Btc)
  /\ sends' = sends \ {s}
  /\ Start(Btc, IF s.orphaned THEN Idle
                ELSE [Idle EXCEPT !.pc = "upsert", !.addr = s.addr,
                                  !.feature = s.feature, !.reply = TRUE])
  /\ UNCHANGED <<table, announced, mqttvars, storevars, boundvars, sincePurge>>

\* No reply, after all retries.
SendGivenUp(s) ==
  /\ Ready(Btc)
  /\ sends' = sends \ {s}
  /\ UNCHANGED <<table, announced, job, mqttvars, storevars, boundvars, sincePurge>>

\* upsert_external_node_*, under the table's mutex.  A range is only kept of a known node;
\* a light model may be a further one of a light already known.
Upsert ==
  LET j    == job[Btc]
      known == Heard(table[j.addr], j.feature)
  IN /\ At(Btc, "upsert")
     /\ \/ /\ j.feature = "range" /\ table[j.addr] = Unknown
           /\ Start(Btc, Idle) /\ UNCHANGED table
        \/ /\ j.feature = "level" /\ "light" \in table[j.addr]
           /\ Start(Btc, Idle) /\ UNCHANGED table
        \/ /\ j.feature = "range" => table[j.addr] # Unknown
           /\ j.feature = "level" => "light" \notin table[j.addr]
           /\ table' = [table EXCEPT ![j.addr] = known]
           /\ \E new \in {j.feature = "range" \/ j.feature \notin table[j.addr]}
                         \cup (IF j.feature = "light" THEN {TRUE} ELSE {}) :
                Start(Btc, [Idle EXCEPT !.addr = j.addr, !.isNew = new,
                                        !.pc = IF ~new THEN "notify"
                                               ELSE IF j.feature = "light" THEN "rangeGet"
                                               ELSE "mark"])
     /\ UNCHANGED <<sends, announced, mqttvars, storevars, boundvars, sincePurge>>

\* enqueue() of the external send queue; a command to the same node and opcode that is
\* still queued is superseded.
Enqueue(a, f) ==
  /\ sends' = sends \cup {[addr |-> a, feature |-> f, orphaned |-> FALSE]}
  /\ sincePurge' = sincePurge \cup {a}

RangeGet ==
  /\ At(Btc, "rangeGet")
  /\ Enqueue(job[Btc].addr, "range")
  /\ Goto(Btc, "mark")
  /\ UNCHANGED <<table, announced, mqttvars, storevars, boundvars>>

\* Fault: only a forget is worth saving.
MarkDirtyNever(t) ==
  /\ At(t, "mark")
  /\ saveTimer' = (saveTimer \/ job[t].forget)
  /\ Goto(t, IF job[t].forget THEN "unannounce" ELSE "notify")
  /\ UNCHANGED <<table, sends, announced, mqttvars, disk, unsaved, boundvars, sincePurge>>

\* mark_external_nodes_dirty: restart the countdown.
MarkDirty(t) ==
  /\ At(t, "mark")
  /\ saveTimer' = TRUE
  /\ Goto(t, IF job[t].forget THEN "unannounce" ELSE "notify")
  /\ UNCHANGED <<table, sends, announced, mqttvars, disk, unsaved, boundvars, sincePurge>>

(***************************************************************************)
(* Announcing                                                              *)
(***************************************************************************)
\* mqtt_notify_external_node_changed, up to its copy of the node.
Notify ==
  LET j == job[Btc]
  IN /\ At(Btc, "notify")
     /\ Start(Btc, IF ~connected \/ table[j.addr] = Unknown THEN Idle
                   ELSE [Idle EXCEPT !.addr = j.addr, !.node = table[j.addr],
                                     !.pc = IF j.isNew THEN "announce" ELSE "decide"])
     /\ UNCHANGED <<table, sends, announced, mqttvars, storevars, boundvars, sincePurge>>

\* needs_announce; if not, only the state is published.
Decide ==
  /\ At(Btc, "decide")
  /\ IF announced[job[Btc].addr] # KindOf(job[Btc].node) THEN Goto(Btc, "announce")
                                                        ELSE Start(Btc, Idle)
  /\ UNCHANGED <<table, sends, announced, mqttvars, storevars, boundvars, sincePurge>>

\* Fault: the entity of the other kind is not removed.
AnnounceOnly(t) ==
  /\ At(t, "announce")
  /\ announced' = [announced EXCEPT ![job[t].addr] = KindOf(job[t].node)]
  /\ Goto(t, "publish")
  /\ UNCHANGED <<table, sends, mqttvars, storevars, boundvars, sincePurge>>

\* mqtt_announce_external_node, under the announcements' mutex.
Announce(t) ==
  LET j    == job[t]
      kind == KindOf(j.node)
      prev == announced[j.addr]
  IN /\ At(t, "announce")
     /\ announced' = [announced EXCEPT ![j.addr] = kind]
     /\ IF prev \in Kinds \ {kind} THEN Start(t, [j EXCEPT !.pc = "retract", !.old = prev])
                                   ELSE Goto(t, "publish")
     /\ UNCHANGED <<table, sends, mqttvars, storevars, boundvars, sincePurge>>

\* The empty discovery message for the old entity; the topics of a forgotten node and of
\* a former cover are unsubscribed.
Retract(t) ==
  LET j == job[t]
  IN /\ At(t, "retract") /\ MayPublish(t)
     /\ ha' = IF link THEN [ha EXCEPT ![j.addr] = @ \ {j.old}] ELSE ha
     /\ lost' = IF link THEN lost ELSE [lost EXCEPT ![j.addr] = @ \cup ({j.old} \cap ha[j.addr])]
     /\ unsubAck' = (unsubAck \/ (link /\ (j.forget \/ j.old = "cover")))
     /\ IF j.forget THEN \E n \in NextTurn(j, "drop") : Start(t, n) ELSE Goto(t, "publish")
     /\ UNCHANGED <<table, sends, announced, connected, link, haAsked, storevars, boundvars,
                    sincePurge>>

\* The discovery message, then the node's state; the walk goes on.
PublishDiscovery(t) ==
  LET j    == job[t]
      kind == KindOf(j.node)
  IN /\ At(t, "publish") /\ MayPublish(t)
     /\ ha' = IF link THEN [ha EXCEPT ![j.addr] = @ \cup {kind}] ELSE ha
     /\ lost' = IF link THEN [lost EXCEPT ![j.addr] = @ \ {kind}] ELSE lost
     /\ \E n \in NextTurn(j, "announce") : Start(t, n)
     /\ UNCHANGED <<table, sends, announced, connected, link, unsubAck, haAsked, storevars,
                    boundvars, sincePurge>>

\* Fault: what has been announced is not announced again.
WalkUnannounced(t) ==
  \E n \in NextTurn([Idle EXCEPT !.left = [a \in Addrs |-> IF announced[a] = "none" THEN table[a]
                                                         ELSE Unknown]], "announce") : Start(t, n)

\* mqtt_republish_all_external_nodes, which walks over a copy of the table.
Walk(t) == \E n \in NextTurn([Idle EXCEPT !.left = table], "announce") : Start(t, n)

(***************************************************************************)
(* The MQTT client's events.  Home Assistant comes back without entities   *)
(* (discovery is not retained) and the timer set for it republishes.       *)
(***************************************************************************)
MqttConnected ==
  /\ Ready(Mqtt) /\ scene.brokerUp /\ ~connected
  /\ connected' = TRUE /\ link' = TRUE
  /\ Walk(Mqtt)
  /\ UNCHANGED <<table, sends, announced, unsubAck, ha, haAsked, lost, storevars, boundvars,
                 sincePurge>>

MqttDisconnected ==
  /\ Ready(Mqtt) /\ connected /\ ~link
  /\ connected' = FALSE
  /\ UNCHANGED <<table, sends, announced, link, unsubAck, ha, haAsked, lost, job, storevars,
                 boundvars, sincePurge>>

\* MQTT_EVENT_UNSUBSCRIBED disconnects the client, which then reconnects by itself.
MqttUnsubscribed ==
  /\ Ready(Mqtt) /\ unsubAck /\ link
  /\ unsubAck' = FALSE /\ link' = FALSE
  /\ UNCHANGED <<table, sends, announced, connected, ha, haAsked, lost, job, storevars,
                 boundvars, sincePurge>>

LinkDrops ==
  /\ scene.linkMayDrop /\ link
  /\ link' = FALSE /\ unsubAck' = FALSE
  /\ UNCHANGED <<table, sends, announced, connected, ha, haAsked, lost, job, storevars,
                 boundvars, sincePurge>>

HaRestarts ==
  /\ scene.haMayRestart /\ ~haAsked /\ link
  /\ haAsked' = TRUE
  /\ ha' = [a \in Addrs |-> {}] /\ lost' = [a \in Addrs |-> {}]
  /\ UNCHANGED <<table, sends, announced, connected, link, unsubAck, job, storevars,
                 boundvars, sincePurge>>

\* on_home_assistant_restart_timer
Republish ==
  /\ Ready(Timer) /\ haAsked /\ connected
  /\ haAsked' = FALSE
  /\ Walk(Timer)
  /\ UNCHANGED <<table, sends, announced, connected, link, unsubAck, ha, lost, storevars,
                 boundvars, sincePurge>>
(***************************************************************************)
(* Forgetting: from the web page, or all of them when the bridge is reset. *)
(***************************************************************************)
Forget(a) ==
  /\ Ready(Http) /\ forgets < scene.maxForgets
  /\ forgets' = forgets + 1
  /\ Start(Http, [Idle EXCEPT !.pc = "drop", !.addr = a, !.forget = TRUE])
  /\ UNCHANGED <<table, sends, announced, mqttvars, storevars, scene, crashes, sincePurge>>

ForgetAll ==
  /\ Ready(Btc) /\ forgets < scene.maxForgets
  /\ forgets' = forgets + 1
  /\ \E n \in NextTurn([Idle EXCEPT !.forget = TRUE, !.left = table], "drop") : Start(Btc, n)
  /\ UNCHANGED <<table, sends, announced, mqttvars, storevars, scene, crashes, sincePurge>>

\* A reply to a is already past the queue.
ReplyTaken(a) == At(Btc, "upsert") /\ job[Btc].reply /\ job[Btc].addr = a

DropPending(t) ==
  LET a == job[t].addr
  IN /\ At(t, "drop")
     /\ sends' \in Purged(a)
     /\ sincePurge' = IF ReplyTaken(a) THEN sincePurge \cup {a} ELSE sincePurge \ {a}
     /\ Goto(t, "erase")
     /\ UNCHANGED <<table, announced, mqttvars, storevars, boundvars>>

Erase(t) ==
  LET j == job[t]
  IN /\ At(t, "erase")
     /\ \/ /\ table[j.addr] = Unknown
           /\ \E n \in NextTurn(j, "drop") : Start(t, n)
           /\ UNCHANGED table
        \/ /\ table[j.addr] # Unknown
           /\ table' = [table EXCEPT ![j.addr] = Unknown]
           /\ Start(t, [j EXCEPT !.node = table[j.addr], !.pc = "mark"])
     /\ UNCHANGED <<sends, announced, mqttvars, storevars, boundvars, sincePurge>>

\* mqtt_forget_external_node: the kind last announced is what is removed, if connected.
Unannounce(t) ==
  LET j == job[t]
      old == IF announced[j.addr] = "none" THEN KindOf(j.node) ELSE announced[j.addr]
  IN /\ At(t, "unannounce")
     /\ announced' = [announced EXCEPT ![j.addr] = "none"]
     /\ \/ connected /\ Start(t, [j EXCEPT !.pc = "retract", !.old = old]) /\ UNCHANGED lost
        \/ /\ ~connected
           /\ lost' = [lost EXCEPT ![j.addr] = @ \cup ({old} \cap ha[j.addr])]
           /\ \E n \in NextTurn(j, "drop") : Start(t, n)
     /\ UNCHANGED <<table, sends, connected, link, unsubAck, ha, haAsked, storevars, boundvars,
                    sincePurge>>

(***************************************************************************)
(* Commands: the handler looks the node up, then queues one send or two.   *)
(* The web page's test command goes to any address, known or not.          *)
(***************************************************************************)
CommandsFor(known) ==
  IF KindOf(known) = "cover" THEN {{"level"}}
  ELSE {{"onoff"}} \cup (IF "light" \in known THEN {{"light"}, {"onoff", "light"}} ELSE {})

Command(t, a) ==
  /\ t \in {Http, Mqtt} /\ Ready(t) /\ table[a] # Unknown
  /\ t = Mqtt => connected /\ link
  /\ Cardinality(sends) < MaxSends
  /\ \E asked \in CommandsFor(table[a]) :
       Start(t, [Idle EXCEPT !.pc = "enqueue", !.addr = a, !.asked = asked])
  /\ UNCHANGED <<table, sends, announced, mqttvars, storevars, boundvars, sincePurge>>

TestCommand(a, f) ==
  /\ Ready(Http) /\ f # "range" /\ Cardinality(sends) < MaxSends
  /\ Enqueue(a, f)
  /\ UNCHANGED <<table, announced, job, mqttvars, storevars, boundvars>>

QueueCommand(t) ==
  LET j == job[t]
  IN /\ At(t, "enqueue")
     /\ \E f \in j.asked :
          /\ f = "light" => j.asked = {"light"}         \* ON and OFF go first
          /\ Enqueue(j.addr, f)
          /\ Start(t, IF j.asked = {f} THEN Idle ELSE [j EXCEPT !.asked = @ \ {f}])
     /\ UNCHANGED <<table, announced, mqttvars, storevars, boundvars>>

(***************************************************************************)
(* Saving, and restarting from what was saved                              *)
(***************************************************************************)
\* save_external_nodes makes a copy of the table and writes that.
SaveFires ==
  /\ Ready(Timer) /\ saveTimer
  /\ saveTimer' = FALSE
  /\ Start(Timer, [Idle EXCEPT !.pc = "write", !.left = table])
  /\ UNCHANGED <<table, sends, announced, mqttvars, disk, unsaved, boundvars, sincePurge>>

WriteToFlash ==
  /\ At(Timer, "write")
  /\ disk' = job[Timer].left /\ unsaved' = FALSE
  /\ Start(Timer, Idle)
  /\ UNCHANGED <<table, sends, announced, mqttvars, saveTimer, boundvars, sincePurge>>

\* nvs_open, a set or the commit fails, before or after the blob is in flash: only logged, and
\* nothing starts the countdown again.
WriteRefused ==
  /\ At(Timer, "write") /\ scene.flashMayFail
  /\ disk' \in {disk, job[Timer].left} /\ unsaved' = TRUE
  /\ Start(Timer, Idle)
  /\ UNCHANGED <<table, sends, announced, mqttvars, saveTimer, boundvars, sincePurge>>

\* A restart at any point.  load_external_nodes runs before anything else uses the table; if it
\* cannot read flash the bridge starts without nodes.
Restart ==
  /\ crashes < MaxCrashes
  /\ crashes' = crashes + 1
  /\ \/ table' = disk /\ unsaved' = FALSE
     \/ /\ scene.flashMayFail
        /\ table' = [a \in Addrs |-> Unknown] /\ unsaved' = TRUE
  /\ sends' = {} /\ sincePurge' = {}
  /\ announced' = [a \in Addrs |-> "none"]
  /\ connected' = FALSE /\ link' = FALSE /\ unsubAck' = FALSE
  /\ saveTimer' = FALSE /\ haAsked' = FALSE
  /\ job' = [t \in Tasks |-> Idle]
  /\ lost' = ha
  /\ UNCHANGED <<ha, disk, scene, forgets>>

Next ==
  \/ \E a \in Addrs, f \in Features : HearStatus(a, f)
  \/ \E a \in Addrs, f \in Features : TestCommand(a, f)
  \/ \E s \in sends : HearReply(s)
  \/ \E s \in sends : SendGivenUp(s)
  \/ Upsert \/ RangeGet \/ Notify \/ Decide
  \/ \E t \in Tasks : MarkDirty(t)
  \/ \E t \in Tasks : Announce(t)
  \/ \E t \in Tasks : Retract(t)
  \/ \E t \in Tasks : PublishDiscovery(t)
  \/ MqttConnected \/ MqttDisconnected \/ MqttUnsubscribed
  \/ LinkDrops \/ HaRestarts \/ Republish
  \/ \E a \in Addrs : Forget(a)
  \/ ForgetAll
  \/ \E t \in Tasks : DropPending(t)
  \/ \E t \in Tasks : Erase(t)
  \/ \E t \in Tasks : Unannounce(t)
  \/ \E t \in Tasks, a \in Addrs : Command(t, a)
  \/ \E t \in Tasks : QueueCommand(t)
  \/ SaveFires \/ WriteToFlash \/ WriteRefused \/ Restart

Spec == Init /\ [][Next]_vars

(***************************************************************************)
(* Properties                                                              *)
(***************************************************************************)
AllIdle == \A t \in Tasks : job[t] = Idle

\* A change of the table is never lost between the tasks: unless the countdown runs or someone is
\* about to mark, the copy being written is the table, and flash holds it afterwards.  Excepted
\* is what flash itself lost: a write it refused, until the next one it takes, and a table it
\* did not give back.
SavedUnlessPending ==
  \/ saveTimer
  \/ \E t \in Tasks : At(t, "mark") \/ At(t, "rangeGet")
  \/ IF At(Timer, "write") THEN job[Timer].left = table ELSE unsaved \/ disk = table

\* A reply that makes a node known answers a command queued since the last purge, or was
\* already past the queue at that purge.
RevivedOnlyAroundPurge ==
  [][\A a \in Addrs : table[a] = Unknown /\ table'[a] # Unknown /\ crashes' = crashes
                        => ~job[Btc].reply \/ a \in sincePurge]_vars

\* While handlers do not overlap, Home Assistant has, once the bridge is connected and
\* settled, an entity of the right kind for every node, unless it waits for everything to be
\* republished, and no other entity, except those whose removal was not or could not be sent.
ShownAsKnown ==
  AllIdle /\ connected /\ link /\ ~scene.overlap =>
    \A a \in Addrs :
      LET kinds == IF table[a] = Unknown THEN {} ELSE {KindOf(table[a])}
      IN ha[a] \ lost[a] \subseteq kinds /\ (haAsked \/ kinds \subseteq ha[a])
=============================================================================
