---------------------------- MODULE NodeRegistry ----------------------------
(***************************************************************************)
(* The Standalone edition's provisioned nodes: the mesh stack's own node   *)
(* table, the node manager's table and its copy in flash                   *)
(* (ble_mesh/ble_mesh_node.cpp), and the entities in Home Assistant, from  *)
(* provisioning to unprovisioning (ble_mesh/ble_mesh_provisioning.cpp),    *)
(* across restarts.                                                        *)
(*                                                                         *)
(* A step is one critical section or one write to flash: `job[t]' is what  *)
(* task t does next, and to which node.  Nothing keeps two tasks from      *)
(* working on one node at the same time; the history `met' has the nodes   *)
(* that this happened to.                                                  *)
(***************************************************************************)
EXTENDS Naturals, Sequences

CONSTANTS
  Nodes,             \* device UUIDs
  Btc,               \* Bluetooth task
  Timer,             \* esp_timer task
  Console,           \* console task
  Versions,          \* schema versions an older firmware may have left; 0: nothing saved
  MaxQueue,          \* bound: messages waiting for one node
  MaxChanges,        \* bound: provisionings, unprovisionings, commands
  MaxCrashes,        \* bound: restarts
  MaxFailures        \* bound: writes and reads that NVS refuses

ASSUME RegistryAssumption ==
  /\ Nodes # {}
  /\ Btc # Timer /\ Console \notin {Btc, Timer}
  /\ Versions \subseteq 0 .. 4
  /\ {MaxQueue, MaxChanges, MaxCrashes, MaxFailures} \subseteq Nat

Tasks == {Btc, Timer, Console}
SchemaVersion == 4

\* What is known of a node: nothing; its address; its models as well (features).
Info == {"none", "bare", "composed"}
Tables == [Nodes -> Info]
Disks == [version : 0 .. SchemaVersion, layout : 0 .. SchemaVersion, nodes : Tables]
NoNodes == [n \in Nodes |-> "none"]

\* "config" asks for the composition, "bind" adds and binds the application key,
\* "announce" publishes the discovery, "command" is any other, "reset" is NODE_RESET.
Messages == {"config", "bind", "announce", "command", "reset"}

VARIABLES
  stack,    \* the mesh stack's node table, which it saves by itself
  table,    \* tracked_nodes, uuid_index
  disk,     \* namespace "ble_mesh": version key, and blob with the layout it has
  dirty,    \* node_info_dirty
  timer,    \* save_timer is running
  queue,    \* per node, the messages to be sent
  job,      \* per task: next step, and of which node
  ha,       \* nodes with an entity in Home Assistant
  changes, crashes, failures, \* bounds
  unsaved,  \* history: the table was marked since it was last written
  missed,   \* history: such a mark was cleared, or flash refused to be written or read
  written,  \* history: nodes whose features have reached flash, in a schema the loader has a
            \* branch for, until they are removed
  torn,     \* history: a restart came in the middle of the save that migrates the schema, or
            \* could not read flash
  unnamed,  \* history: nodes the stack refused to name, until a restart
  orphans,  \* history: nodes gone from the stack's table without ble_mesh_reset_node, or
            \* by one that a restart undid
  met       \* history: nodes at which a task began, or ended a message, while another was
            \* adding them or taking them out

boundvars == <<changes, crashes, failures>>
vars == <<stack, table, disk, dirty, timer, queue, job, ha, boundvars, unsaved, missed,
          written, torn, unnamed, orphans, met>>
goneorhere == <<unnamed, orphans>>
histvars == <<unsaved, missed, written, torn, goneorhere, met>>
savevars == <<disk, dirty, timer, unsaved, missed, written, torn>>
storevars == <<savevars, goneorhere>>

Steps == {"idle", "store", "version", "blob", "clear", "config", "mark",
          "unannounce", "unstack", "forget", "delete"}
StepsOf(t) ==
  CASE t = Btc -> Steps \ {"clear", "delete"}
    [] t = Timer -> Steps \ {"store", "config", "delete"}
    [] OTHER -> {"idle", "delete"}
Idle == [at |-> "idle", node |-> CHOOSE n \in Nodes : TRUE]

\* Each task does only its own steps, for a node.
JobOK == job \in [Tasks -> [at : Steps, node : Nodes]] /\ \A t \in Tasks : job[t].at \in StepsOf(t)

TypeOK ==
  /\ {stack, ha, written, unnamed, orphans, met} \subseteq SUBSET Nodes
  /\ table \in Tables
  /\ disk \in Disks
  /\ {dirty, timer, unsaved, missed, torn} \subseteq BOOLEAN
  /\ queue \in [Nodes -> Seq(Messages)]
  /\ JobOK
  /\ changes \in 0 .. MaxChanges /\ crashes \in 0 .. MaxCrashes /\ failures \in 0 .. MaxFailures

(***************************************************************************)
(* Booting                                                                 *)
(***************************************************************************)
\* Fault: the oldest layout has lost its converter.
LoadNewer(d) == [table |-> IF d.version \in {2, SchemaVersion} /\ d.layout = d.version
                             THEN d.nodes ELSE NoNodes,
                 marked |-> d.version = 2 /\ d.nodes # NoNodes]

\* load_node_info_vector.  Converters exist for layouts 1, 2 and the current one; a blob
\* of another layout than the version key says does not have the size expected, and an
\* empty one ends the load before the mark.
Load(d) == [table |-> IF d.version \in {1, 2, SchemaVersion} /\ d.layout = d.version
                        THEN d.nodes ELSE NoNodes,
            marked |-> d.version \in {1, 2} /\ d.nodes # NoNodes]

NothingLoaded == [table |-> NoNodes, marked |-> FALSE]

\* ble_mesh_refresh_all_nodes creates what the stack's table has and the file has not.
Refreshed(t, s) == [n \in Nodes |-> IF n \in s /\ t[n] = "none" THEN "bare" ELSE t[n]]

Init ==
  /\ disk \in [version : Versions, layout : Versions, nodes : [Nodes -> {"none", "composed"}]]
  /\ disk.layout = disk.version /\ (disk.version = 0 => disk.nodes = NoNodes)
  /\ stack = {n \in Nodes : disk.nodes[n] # "none"}
  /\ written = IF disk.version = 3 THEN {} ELSE stack
  /\ table = Refreshed(Load(disk).table, stack)
  /\ dirty = Load(disk).marked /\ timer = dirty /\ unsaved = dirty
  /\ missed = FALSE /\ torn = FALSE /\ unnamed = {} /\ orphans = {} /\ met = {}
  /\ queue = [n \in Nodes |-> << >>]
  /\ job = [t \in Tasks |-> Idle]
  /\ ha = stack
  /\ changes = 0 /\ crashes = 0 /\ failures = 0

FlashFails == failures < MaxFailures /\ failures' = failures + 1

\* A restart at any point; if flash cannot be read, the table is made of the stack's alone.
Restart ==
  /\ crashes < MaxCrashes
  /\ crashes' = crashes + 1
  /\ \E fails \in BOOLEAN :
       LET loaded == IF fails THEN NothingLoaded ELSE Load(disk)
       IN /\ IF fails THEN FlashFails ELSE UNCHANGED failures
          /\ table' = Refreshed(loaded.table, stack)
          /\ dirty' = loaded.marked /\ timer' = dirty' /\ unsaved' = dirty'
          /\ missed' = fails
          /\ torn' = (torn \/ fails \/ disk.layout # disk.version)
  /\ unnamed' = {}
  /\ orphans' = orphans \cup {n \in Nodes \ stack : table'[n] # "none"}
  /\ queue' = [n \in Nodes |-> << >>]
  /\ job' = [t \in Tasks |-> Idle]
  /\ UNCHANGED <<stack, disk, ha, changes, written, met>>

(***************************************************************************)
(* Saving                                                                  *)
(***************************************************************************)
At(t, step) == job[t].at = step
Goto(t, step) ==
  job' = [job EXCEPT ![t] = IF step = "idle" THEN Idle ELSE [@ EXCEPT !.at = step]]
Begin(t, step, n) == At(t, "idle") /\ job' = [job EXCEPT ![t] = [at |-> step, node |-> n]]

\* No task is in the middle of work on n (saving the whole table is none).
Settled(n) == \A t \in Tasks : job[t].at \in {"idle", "version", "blob", "clear"} \/ job[t].node # n

\* The steps that add a node or take it out.
Working == {"store", "unannounce", "unstack", "forget"}
Meet(n) ==
  met' = met \cup (IF \E t \in Tasks : job[t].node = n /\ job[t].at \in Working THEN {n} ELSE {})

\* mark_node_info_dirty.  A countdown that runs is left to run.
Mark == dirty' = TRUE /\ timer' = TRUE /\ unsaved' = TRUE /\ UNCHANGED <<disk, missed, torn, goneorhere, met>>

\* on_timer_callback
SaveTimerFires ==
  /\ timer
  /\ timer' = FALSE
  /\ IF dirty THEN Begin(Timer, "version", Idle.node) ELSE At(Timer, "idle") /\ UNCHANGED job
  /\ UNCHANGED <<stack, table, disk, dirty, queue, ha, boundvars, histvars>>

\* save_node_info_vector: the version key first, in a write of its own
\* whose result is not looked at, ...
SaveVersion(t) ==
  /\ At(t, "version")
  /\ \/ disk' = [disk EXCEPT !.version = SchemaVersion] /\ UNCHANGED <<missed, failures>>
     \/ FlashFails /\ missed' = TRUE /\ UNCHANGED disk
  /\ Goto(t, "blob")
  /\ UNCHANGED <<stack, table, dirty, timer, queue, ha, changes, crashes, unsaved, written, torn,
                 goneorhere, met>>

AfterBlob(t) == IF t = Timer THEN "clear" ELSE "config"

\* ... then the blob, under the table's mutex; its result is ignored too.
SaveBlob(t) ==
  /\ At(t, "blob")
  /\ Goto(t, AfterBlob(t))
  /\ \/ /\ disk' = [disk EXCEPT !.layout = SchemaVersion, !.nodes = table]
        /\ UNCHANGED failures
        /\ unsaved' = FALSE /\ missed' = (disk.version # SchemaVersion)
        /\ written' = IF missed' THEN written ELSE {n \in Nodes : table[n] = "composed"}
     \/ FlashFails /\ missed' = TRUE /\ UNCHANGED <<disk, unsaved, written>>
  /\ UNCHANGED <<torn, goneorhere, met, stack, table, dirty, timer, queue, ha, changes, crashes>>

\* node_info_dirty = false, after the save.
ClearDirty ==
  /\ At(Timer, "clear")
  /\ dirty' = FALSE
  /\ missed' = (missed \/ unsaved)
  /\ Goto(Timer, "idle")
  /\ UNCHANGED <<stack, table, disk, timer, queue, ha, boundvars, unsaved, written, torn,
                 goneorhere, met>>

(***************************************************************************)
(* Provisioning                                                            *)
(***************************************************************************)
Change == changes < MaxChanges /\ changes' = changes + 1 /\ UNCHANGED <<crashes, failures>>
\* The message on its way to n, whose end may come now.
Front(n) == IF queue[n] # << >> THEN Head(queue[n]) ELSE "none"
Enqueue(n, m) == queue' = [queue EXCEPT ![n] = Append(@, m)]

\* PROV_COMPLETE: the stack has added and saved the node.  If it refuses to name it,
\* prov_complete ends there, and the node is in the stack's table only.
ProvComplete(n) ==
  /\ n \notin stack /\ Change
  /\ \/ Begin(Btc, "store", n) /\ UNCHANGED unnamed
     \/ At(Btc, "idle") /\ unnamed' = unnamed \cup {n} /\ UNCHANGED job
  /\ stack' = stack \cup {n}
  /\ Meet(n)
  /\ UNCHANGED <<table, savevars, orphans, queue, ha>>

\* store_node_info keeps what the table already has of the node, and saves at once.
StoreNodeInfo ==
  LET n == job[Btc].node
  IN /\ At(Btc, "store")
     /\ table' = [table EXCEPT ![n] = IF @ = "none" THEN "bare" ELSE @]
     /\ Goto(Btc, "version")
     /\ UNCHANGED <<stack, storevars, queue, ha, boundvars, met>>

\* The rest of prov_complete; without an entry of the node it ends early.
AskComposition ==
  LET n == job[Btc].node
  IN /\ At(Btc, "config")
     /\ IF table[n] = "none" THEN UNCHANGED queue ELSE Enqueue(n, "config")
     /\ Goto(Btc, "idle")
     /\ UNCHANGED <<stack, table, storevars, ha, boundvars, met>>

\* ble_mesh_on_composition_received, but for the mark at its end.
CompositionReceived(n) ==
  /\ Front(n) = "config" /\ n \in stack /\ table[n] # "none"
  /\ Begin(Btc, "mark", n)
  /\ table' = [table EXCEPT ![n] = "composed"]
  /\ queue' = [queue EXCEPT ![n] = Append(Tail(@), "bind")]
  /\ Meet(n)
  /\ UNCHANGED <<stack, storevars, ha, boundvars>>

MarkDirty(t) ==
  /\ At(t, "mark")
  /\ Mark
  /\ Goto(t, "idle")
  /\ UNCHANGED <<stack, table, queue, ha, boundvars, written>>

\* APP_KEY_ADD acknowledged: Bind_App_Key_queue; the discovery is queued behind the binds.
AppKeyAdded(n) ==
  /\ Front(n) = "bind" /\ n \in stack /\ At(Btc, "idle")
  /\ queue' = [queue EXCEPT ![n] = Append(Tail(@), "announce")]
  /\ Meet(n)
  /\ UNCHANGED <<stack, table, storevars, job, ha, boundvars>>

\* mqtt_send_discovery; the topic is made from the stack's entry of the node.
Announce(n) ==
  /\ Front(n) = "announce"
  /\ ha' = ha \cup ({n} \cap stack)
  /\ queue' = [queue EXCEPT ![n] = Tail(@)]
  /\ Meet(n)
  /\ UNCHANGED <<stack, table, storevars, job, boundvars>>

\* ble_mesh_republish_all_nodes_to_mqtt, when Home Assistant is back.
Republish ==
  /\ At(Timer, "idle")
  /\ \A n \in Nodes : Len(queue[n]) < MaxQueue
  /\ queue' = [n \in Nodes |-> IF table[n] = "none" THEN queue[n] ELSE Append(queue[n], "announce")]
  /\ UNCHANGED <<stack, table, storevars, job, ha, boundvars, met>>

\* A command, or a query; acknowledged or given up, it leaves the registry as it is.
Command(n) ==
  /\ table[n] # "none" /\ Len(queue[n]) < MaxQueue /\ Change
  /\ Enqueue(n, "command")
  /\ UNCHANGED <<stack, table, storevars, job, ha, met>>

Ended(n) ==
  /\ Front(n) \in {"config", "bind", "command"}
  /\ queue' = [queue EXCEPT ![n] = Tail(@)]
  /\ Meet(n)
  /\ UNCHANGED <<stack, table, storevars, job, ha, boundvars>>

(***************************************************************************)
(* Unprovisioning                                                          *)
(***************************************************************************)
\* ble_mesh_unprovision_device
Unprovision(n) ==
  /\ Change
  /\ \/ /\ table[n] # "none" /\ Len(queue[n]) < MaxQueue
        /\ Enqueue(n, "reset") /\ UNCHANGED <<stack, orphans>>
     \/ /\ table[n] = "none" /\ n \in stack
        /\ stack' = stack \ {n} /\ orphans' = orphans \cup {n} /\ UNCHANGED queue
  /\ UNCHANGED <<table, savevars, unnamed, met, job, ha>>

\* unprovision_all_nodes, for one node of the stack's table: the reset is queued, and the
\* node, with its device key, deleted at once.
UnprovisionAll(n) ==
  /\ n \in stack /\ Len(queue[n]) < MaxQueue /\ Change
  /\ Begin(Console, "delete", n)
  /\ IF table[n] # "none" THEN Enqueue(n, "reset") ELSE UNCHANGED queue
  /\ UNCHANGED <<stack, table, storevars, ha, met>>

DeleteFromStack ==
  /\ At(Console, "delete")
  /\ stack' = stack \ {job[Console].node}
  /\ orphans' = orphans \cup {job[Console].node}
  /\ Goto(Console, "idle")
  /\ UNCHANGED <<table, savevars, unnamed, met, queue, ha, boundvars>>

\* The node answers NODE_RESET, which takes its device key to read.
ResetAcknowledged(n) ==
  /\ Front(n) = "reset" /\ n \in stack
  /\ Begin(Btc, "unannounce", n)
  /\ queue' = [queue EXCEPT ![n] = Tail(@)]
  /\ Meet(n)
  /\ UNCHANGED <<stack, table, storevars, ha, boundvars>>

\* No answer in all tries, reported by the stack or found by the failsafe.  The node is
\* removed if its queue is empty then.
ResetGivenUp(t, n) ==
  /\ Front(n) = "reset" /\ t # Console
  /\ IF Len(queue[n]) = 1 THEN Begin(t, "unannounce", n) ELSE At(t, "idle") /\ UNCHANGED job
  /\ queue' = [queue EXCEPT ![n] = Tail(@)]
  /\ Meet(n)
  /\ UNCHANGED <<stack, table, storevars, ha, boundvars>>

\* Fault: the stack's entry, with the name of the topic in it, is deleted first.
RemoveEntityLate(t) ==
  /\ At(t, "unannounce")
  /\ stack' = stack \ {job[t].node}
  /\ Goto(t, "unstack")
  /\ UNCHANGED <<table, storevars, queue, ha, boundvars, met>>

\* ble_mesh_reset_node: mqtt_remove_node, whose topic is made from the stack's entry, ...
RemoveEntity(t) ==
  /\ At(t, "unannounce")
  /\ ha' = ha \ ({job[t].node} \cap stack)
  /\ Goto(t, "unstack")
  /\ UNCHANGED <<stack, table, storevars, queue, boundvars, met>>

\* ... the stack's entry, ...
RemoveFromStack(t) ==
  /\ At(t, "unstack")
  /\ stack' = stack \ {job[t].node}
  /\ Goto(t, "forget")
  /\ UNCHANGED <<table, storevars, queue, ha, boundvars, met>>

\* Fault: the removal is not marked.
RemoveNodeUnmarked(t) ==
  /\ At(t, "forget")
  /\ table' = [table EXCEPT ![job[t].node] = "none"]
  /\ queue' = [queue EXCEPT ![job[t].node] = << >>]
  /\ Goto(t, "idle")
  /\ UNCHANGED <<stack, storevars, ha, boundvars, met>>

\* ... then remove_node, which marks under the mutex, and clear_queue.
RemoveNode(t) ==
  /\ At(t, "forget")
  /\ table' = [table EXCEPT ![job[t].node] = "none"]
  /\ Mark /\ written' = written \ {job[t].node}
  /\ queue' = [queue EXCEPT ![job[t].node] = << >>]
  /\ Goto(t, "mark")
  /\ UNCHANGED <<stack, ha, boundvars>>

Next ==
  \/ Restart \/ SaveTimerFires \/ ClearDirty
  \/ \E t \in Tasks : SaveVersion(t)
  \/ \E t \in Tasks : SaveBlob(t)
  \/ \E t \in Tasks : MarkDirty(t)
  \/ StoreNodeInfo \/ AskComposition \/ Republish \/ DeleteFromStack
  \/ \E n \in Nodes : ProvComplete(n)
  \/ \E n \in Nodes : CompositionReceived(n)
  \/ \E n \in Nodes : AppKeyAdded(n)
  \/ \E n \in Nodes : Announce(n)
  \/ \E n \in Nodes : Command(n)
  \/ \E n \in Nodes : Ended(n)
  \/ \E n \in Nodes : Unprovision(n)
  \/ \E n \in Nodes : UnprovisionAll(n)
  \/ \E n \in Nodes : ResetAcknowledged(n)
  \/ \E t \in Tasks, n \in Nodes : ResetGivenUp(t, n)
  \/ \E t \in Tasks : RemoveEntity(t)
  \/ \E t \in Tasks : RemoveFromStack(t)
  \/ \E t \in Tasks : RemoveNode(t)

Spec == Init /\ [][Next]_vars

(***************************************************************************)
(* Properties                                                              *)
(***************************************************************************)
InFlash == Load(disk).table

Saved ==
  \A n \in Nodes : /\ table[n] = "composed" => InFlash[n] = "composed"
                   /\ table[n] = "none" => InFlash[n] = "none"

SavePending ==
  (dirty /\ timer) \/ \E t \in Tasks : job[t].at \in {"version", "blob", "mark"}

\* The same, but for marks made during a save, which that save's end clears, and for what
\* flash refused to take or to give back.
SavedUnlessMissed == missed \/ Saved \/ SavePending

\* As long as a node stays in the mesh, what has reached flash about its models is never
\* lost, whenever the bridge restarts, unless that is between the two writes of the migrating
\* save or flash cannot be read; whatever schema it was written in but 3, which has a
\* converter and no branch in the loader, so that a boot drops it.
FeaturesKept == torn \/ \A n \in written \cap stack : table[n] = "composed"

\* In the end the three tables agree about every node: in the mesh and known, or gone from
\* all of them, from Home Assistant as well.  Excepted are a node the stack refused to name,
\* until the next boot adds it, and one that two tasks were at work on at the same time.
TablesAgree ==
  \A n \in Nodes \ (orphans \cup met) : Settled(n) /\ queue[n] = << >> =>
    IF n \in stack THEN n \in unnamed \/ table[n] # "none" ELSE table[n] = "none" /\ n \notin ha
=============================================================================
