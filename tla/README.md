# A verification project for esp32-blemesh2mqtt

The firmware turns an ESP32 into a bridge between a Bluetooth Mesh network and Home
Assistant (MQTT). This directory holds TLA+ models of it, the TLC configurations that check
them, and TLAPS proofs. Paths below are relative to `src/main/` unless they start with `src/`.

The firmware has two editions, chosen at build time. **Standalone** is the mesh's provisioner:
it adds lights itself and talks to them with their device keys. **Companion** is a node in a
mesh that a phone app owns: the lights are *external nodes*, known only by address.

## Inventory

Tasks that run the code: the Bluetooth task (`Btc` in the models: provisioning and client
callbacks), the MQTT client's task, the HTTP server's task, the one `esp_timer` task
(`Timer`: every timer callback), the console, the Wi-Fi event loop, the Wi-Fi reconnect task,
the log sender and clean-up tasks, the DNS server's task, and `app_main` at boot. They meet in
unsynchronised globals, in a few mutexes, and in NVS (flash), which is what survives a restart.

| component | state | operations and who calls them | what is hard | what makes it correct |
|---|---|---|---|---|
| external send queue `ble_mesh/external_node_queue.cpp` | deque, in-flight send, retry slot, generations, two timers | enqueue (HTTP, MQTT, Btc), forget, report (Btc), gap and guard callbacks (Timer) | the mutex is released around `send()`; late and lost reports; retries while new commands arrive | one send on air, in order, none lost, none stuck, nothing for a forgotten node |
| node message queue `ble_mesh/message_queue.cpp` | per node a queue, `waiting`, a failsafe timer | enqueue (all tasks), ack and timeout (Btc), failsafe (Timer), clear | no lock at all; opcodes instead of identities; erasing with a running timer | never stalls, in order, retried as promised, status after the ack |
| client callbacks and commands `ble_mesh/ble_mesh_control.cpp`, `ble_mesh_commands.cpp` | node state, features to bind | one event of the stack at a time (Btc); commands from MQTT, pages, console | state updated after the queue has moved on; conversions of brightness and position; late statuses | the light does as asked, and what is shown is how it is |
| external node table `ble_mesh/ble_mesh_control.cpp` | vector under a mutex, dirty flag, NVS blob | upsert (Btc), forget (HTTP), save timer, load | check and act in separate critical sections; a reply that arrives during a forget | a forgotten node stays forgotten; what is saved is what is known |
| external announcements `mqtt/mqtt_external_control.cpp` | announced addresses under a mutex | notify (Btc), forget (HTTP), republish (MQTT, Timer), commands | publishing outside the lock; publishing while disconnected | Home Assistant shows exactly the known nodes |
| node manager `ble_mesh/ble_mesh_node.cpp` | tracked nodes, dirty flag, save timer, NVS blob with a schema version | store and remove (Btc), mark dirty (anyone), timer (Timer), load at boot | a mark during a save; a restart between change and save; old schemas | no change is lost for ever; what is loaded was saved |
| provisioning `ble_mesh/ble_mesh_provisioning.cpp` | list of unprovisioned devices, recursive mutex | beacon (Btc), provision and unprovision (HTTP, console), prune | one device on two bearers; messages that outlive the node they were for | a node at rest has its key and bindings; automatic provisioning misses nobody |
| mesh configuration `wifi/mesh_config.cpp` | identity, keys, group addresses, NVS keys | load at boot, update, join and leave | several NVS keys written one after the other; the stack keeps its own copy | key, groups and identity in memory, flash and stack agree |
| Wi-Fi `wifi/wifi_provisioning.cpp` | credentials, reconnect task, event bits, portal flags | Wi-Fi events, reconnect task, portal handlers | stale event bits and notifications; give-up limit; portal fallback | reconnects after an outage; opens the portal only when it must |
| captive portal DNS `wifi/dns_server.cpp` | a flag, a socket and a task | start, stop, answer | stopped by one task while another, woken by it, ends itself | flag and socket tell whether it serves |
| MQTT client `mqtt/mqtt_control.cpp`, `mqtt_bridge.cpp` | client handle, connection state, restart and publish timers, switches | events (MQTT), restart (HTTP), timers | handle destroyed while other tasks use it; counter that must stop a timer; two locks | one client, with what is stored; everything announced after a restart of Home Assistant |
| MQTT credentials `mqtt/mqtt_credentials.cpp`, `security/credential_encryption.cpp` | credentials, connection state, encrypted NVS keys | load, save, clear | partially written credentials | what is loaded was saved |
| OTA `ota/ota_manager.cpp` | partition, handle, byte counts, state | begin, write, end, abort (HTTP) | chunk boundaries; edition marker; failure half-way | boots a new image only if it is complete and of this edition |
| log streaming `debug/websocket_logger.cpp` | client list under a mutex, ring buffer, history | log from any task, sender task, clean-up task, connect | descriptors reused between copy and removal | a connected page stays on the list |
| web server `web_server/web_server.cpp` | the table of URI handlers | request handlers call the components above; Wi-Fi states exchange the table | the exchange is entry by entry, by two tasks; wildcards | each mode answers with its own handlers |
| boot `main.cpp` | none | order of initialisation | callbacks before what they use exists | a bridge or a portal, never neither |

Left aside: `debug_console`, `debugGPIO`, command registries (registration only), SIG company
and model tables (data), the web pages and scripts, `src/test` firmware and scripts,
`managed_components` and build files (third party or tooling).

## Plan

The order is by how much of the system rests on a part and how hard it is to test.

| | module | composes or is composed with | what it asks | state |
|---|---|---|---|---|
| 1 | `SerialDelivery`, `ExternalNodeQueue` | the second implements the first | delivery of the Companion's commands | done, five theorems |
| 2 | `NodeMessageQueue` | the queue with its callbacks, commands and statuses | delivery in the Standalone edition | done, three theorems |
| 3 | `ExternalNodes` | table, queue (reduced), announcements, flash | Home Assistant and flash follow the table | done, four theorems |
| 4 | `NodeRegistry` | table, queue (reduced), stack, flash | the tables agree; nothing is lost to flash | done, four theorems |
| 5 | `WifiLink` | boot, events, reconnect task, portal, web pages | always ends up serving or in setup | done, three theorems |
| 6 | `OtaManager` | upload handlers and partitions | only a complete image of this edition boots | done, six theorems |
| 7 | `MeshIdentity` | mesh configuration, stack state, provisioning callbacks | identity across torn saves and restarts | done, four theorems |
| 8 | `MqttLink` | client, credentials, restart timer, table locks | one client, as stored; three rounds; no lock cycle but one | done, three theorems |
| 9 | `LogStream`, `WebServer`, `CaptivePortal` | each extends the one before: log pages, handler table, portal with DNS and scans | each mode answers with its own handlers | done, four theorems |
| 10 | `LightScales`, `LightControl` | conversions, and the paths of a value in both editions | the light is as asked and as shown | done, five theorems |
| 11 | `BridgeEntities`, `Commissioning` | the bridge's switches and availability; the second adds devices from beacon to entity | Home Assistant agrees; nodes at rest are bound | done, five theorems |

Each state machine is one module with its constants and a named assumption; an `MC` module
gives what a configuration cannot write; proofs are in a module of their own. Four such modules are
about two specifications each and extend both: `HomeAssistantProofs` for `Commissioning` and
`MqttLink`, `WebServerProofs` for `OtaManager` and `CaptivePortal`, `RadioProofs` for
`NodeMessageQueue` and `WifiLink`, `NodesProofs` for `ExternalNodes` and `LightControl`. That is why
some specifications have names of their own for what others call `Init`, `Next`, `Spec`, `TypeOK` and
`vars` (`MqttInit`, `PortalSpec`, `LightTypeOK`, `WifiSpec`). `LightShownProofs` extends `NodesProofs`
with the longest of the proofs, what a light is shown as. Every property
costs a run of its own against a mutated model, so a configuration states as many
properties as its question has. Where two questions share a model, one run asks both: the set
of initial states (`Scenes`, `Budgets`) says which faults and requests may meet in one behaviour.

## ExternalNodeQueue

**Source**: `ble_mesh/external_node_queue.{cpp,h}`. Every entry point takes the mutex, so an
action is one critical section. `dispatch()` releases the mutex around `send()`: there
`Dispatch` ends with `calls[t]` set, `StackSend(t)` is the call, and `ReturnAcknowledged(t)`
or `ReturnUnacknowledged(t)` is the rest of `dispatch()` with the mutex taken again.

| state | code |
|---|---|
| `queue` with `place`, `inflight`, `inflightGen`, `sendGen`, `guardGen`, `retry`, `busy` | the members of `external_node_queue_t`; the deque is the set of its items, ordered by `place` (`push_back` gives the largest) |
| `gapArmed`, `guardArmed`, `timerCb` | the two timers, and the callback the timer task has started but that still waits for the mutex |
| `calls` | which task is inside the unlocked `send()` of which item, and its result |
| `tx` | external: transactions of the mesh stack and reports it has posted |
| `cmd`, `status`, `tries`, `forgotten`, `heard` | history, read only by properties |

`Enqueue`, `DropPendingFor`, `OnSendComplete`, `GapTimerCb`, `GuardTimerCb` are the entry
points; `Dispatch`, `StartGap` and `Finish` are the private functions they call.
`SerialDelivery` says the same promise without queue, timers or tasks: commands begin one at
a time, in order, each at most `MaxRetries + 1` times and given up only after the last; only one
that was never transmitted is superseded, by an equal newer one; nothing for a forgotten node.

Bounds: `MaxSends` sends are ever enqueued; three are enough for one in flight, one
superseded and one superseding, and for a retry between two others. `MaxRetries` is 1 in the
run (3 in the code): the code compares it only with 0. Switches: `GapMayFail` and
`GuardMayFail` (the timer cannot be armed), `StackMayLose` (no report ever),
`GuardMayBeatStack` (the guard's 1.5 s of slack over the stack's 2 s timeout is not enough).
`GuardMayFail` stays off, because a send whose guard cannot be armed and whose report is lost
is never ended: the code logs it and goes on.

Run `ext_queue`, three tasks, one node, two opcodes and unacknowledged sends:

| property | says |
|---|---|
| `OneDriver` | exactly one of a send in flight, the gap timer, its callback and an unacknowledged send drives a busy queue |
| `IdleMeansSettled` | an idle queue has settled every send, and the newest command of a kind was transmitted unless its node was forgotten |
| `ForgottenNotHeard` | the reply to a send of a forgotten node does not reach the node table, unless the queue had already ended that send |
| `ImplementsSerialDelivery` | refinement: the queue's history is a behaviour of `SerialDelivery` |
| `EverySendSettles` | the queue falls idle again and again, with every send settled |

Fairness: tasks that are inside the queue go on, timers that expired run,
the stack reports or loses what is on air. All three are what FreeRTOS and ESP-IDF provide; no
more is asked than that one of them goes on. No fairness is assumed for new sends.

### Proved

`ExternalNodeQueueProofs` proves, for all constants, `TypeCorrect` (`Spec => []TypeOK`) and
`OneDriverAlways` (`Spec => []OneDriver`), from `QueueAssumption` (tasks are distinct, bounds
are numbers) and `NoneAssumption` (an empty optional is no send). `OneDriver` is not inductive
alone: if the timer task could start a callback while inside another `send()`, the callback's
dispatch would overwrite that call. The invariant is `DriverInv`: types, `OneDriver`, and
`TimerAlone` (the timer task runs a callback only when outside `send()`). One lemma per
private function says what it leaves (`DispatchDrives`, `StartGapDrives`, `FinishDrives`), and
`NextDriver` has one step per action.

The same module proves the refinement, `DeliveryImplemented` (`Spec =>
ImplementsSerialDelivery`), and from the same invariant `IdleSettles` (`Spec =>
[]IdleMeansSettled`) and `ForgottenStaysUnheard` (`Spec => ForgottenNotHeard`). None of the three
is inductive: what the stack may be handed next depends on where every other send is. `DeliveryInv`
adds to `DriverInv`:

- `Delivering`: every live send is an item of the deque that was never transmitted, or the one in
  the retry slot, or the one on air (in flight, or inside an unacknowledged `send()`); its tries
  and the retries it has left add up to its budget; nothing newer than it has begun; it is
  forgotten exactly when it is on air and marked as orphaned. `Accounted` says of the others that
  they were transmitted, forgotten, or overtaken by an equal command.
- `RetryWaits`: something to repeat waits for the gap timer or its callback, with nothing in flight.
- `CallsRecorded`, `TxRecorded`: what is inside `send()` and with the stack is what was asked for,
  so that the reply to an orphaned send matches it by address and opcode.

`dispatch()` is entered half-way through its caller's step, so the parts of `Delivering` take the
state as parameters. One lemma per private function says what it leaves (`SendDelivers`,
`DispatchDelivers`, `StartGapDelivers`, `FinishDelivers`), two what a settled and a repeated send
leave (`SettledDelivers`, `AgainDelivers`), and `EachStep` has one step per action: it keeps
`Delivering` and is a `Submit`, `Settle`, `Forget` or `Transmit`, or a stutter.

## NodeMessageQueue

**Source**: `ble_mesh/message_queue.{cpp,h}`, the callbacks of `ble_mesh/ble_mesh_control.cpp`
(880-1196), `ble_mesh_refresh_node`, unprovisioning, and the command and status path of
`mqtt/mqtt_control.cpp`. One provisioned node with its queue, the light and what Home
Assistant was last told; queues of different nodes share nothing.

There is no lock, so a task's program counter `pc[t]` has the places that matter:
`next` (about to run `try_send_next`), `sent` (back from `send()`, `waiting` not yet raised),
`done` (the queue's code has returned, the caller goes on with `rest[t]`). Nothing in the code
keeps a second task out meanwhile; the history `met` says that one has come in. The two safety
properties are about behaviours up to then, what the protocol itself does: once two tasks are
inside together, both may send the same front. The run is of one task at a time
(`Overlap = FALSE`, a bound); the proofs are for both values. The stack's four seconds against the failsafe's ten are
`FailsafeMayBeatStack = FALSE`: the failsafe expires only when the stack has nothing to say.

A Generic OnOff Set stands for all sets, a Get for every query `ble_mesh_refresh_node`
queues. `MaxMsgs` bounds the messages: three are a command with its status and something behind
it, or a reset between two others.

| run | result |
|---|---|
| `node_queue` | exact retry counts (`DropOnlyAfterAllTries`); a destroyed queue leaves a running timer only if messages were behind the reset (`DanglesOnlyBehindReset`); every message ends (`EveryMessageEnds`), through the failsafe if the stack refused the send |
| `node_status_stale` | *violation*: the published status does not reflect the ack (`mqtt/mqtt_control.cpp:573`); see "findings" in `PROJECT.json` |

Fairness: tasks inside the queue go on, the stack answers or times out,
an expired timer runs.

### Proved

`RadioProofs` proves `TypeOK` and `DropOnlyAfterAllTries` for all constants, whether or not tasks
overlap, and `DanglesOnlyBehindReset` for `~FailsafeMayBeatStack`, from `NodeAssumption`. The
invariants hold until `met` is set, which no step undoes. That of the second,
`QueueInv`, says that at most one task is inside (`OneInside`), that a task is about to send the
front, has just sent it, or the front waits (`Phases`), that what is queued is in the order it
was enqueued and undecided (`Ordered`), and that of each message the transmissions so far and the retries
left add up: to its budget, and one more while the front's last transmission is
unanswered (`Budgeted`). The third adds that the stack only reports on the front or on what was before
it (`Reported`), that a task about to remove the node holds the answer to a reset enqueued before all
that is queued (`ResetBefore`), and that the failsafe runs only for a front and goes off only
when the stack is done (`Guarded`). What steps leave of older messages is one formula, `Trail`,
from which the parts that concern the past follow once for all actions. `EveryMessageEnds` is
model-checked only.

## ExternalNodes

**Source**: the external node table and its copy in flash (`ble_mesh/ble_mesh_control.cpp`
36-275, 278-521, 1050-1135), and the announcements (`mqtt/mqtt_external_control.cpp`). A step
is one critical section, one MQTT publish or one flash write; what a handler carries from one
to the next is in `job[t]`.

| state | code |
|---|---|
| `table` | `external_nodes`: per address the features heard. Lightness, HSL and CTL are one feature, `"light"`, since they replace Level alike; a range reply is `"range"` |
| `sends` | the external send queue, reduced to which acknowledged sends it holds and which one is orphaned (its inner working is `ExternalNodeQueue`) |
| `announced` | `s_announced_as_cover` |
| `connected`, `link` | what the credentials' connection state says, and whether a publish arrives |
| `saveTimer`, `disk` | `s_ext_nodes_save_timer`, the NVS blob |
| `ha`, `haAsked`, `unsubAck` | external: entities in Home Assistant, its restart, the broker's answers |
| `scene` | which faults a behaviour has, chosen at its beginning |
| `unsaved`, `sincePurge`, `lost` | history, read only by properties |

Values (on/off, brightness, colour) are `LightControl`'s. `MaxSends`, `maxForgets`,
`MaxCrashes` bound commands queued at once, forgets and restarts; one address is enough, because
nodes meet only in the walks over the table and the tasks that walk are all there.

Run `ext_nodes` has three scenes: handlers one at a time, with a broker whose connection comes and
goes and a Home Assistant that restarts; handlers of all tasks overlapping at every point
between their critical sections, without a broker; and handlers one at a time over a flash that
may refuse each write (`WriteRefused`: opening, the blob or the commit) and each load.

| property | says |
|---|---|
| `ShownAsKnown` | first scene: settled and connected, Home Assistant has each known node as the right kind, and nothing else but removals that could not be sent |
| `SavedUnlessPending` | no change of the table is lost between the tasks; what flash refused is excepted |
| `RevivedOnlyAroundPurge` | a forgotten node comes back through a reply only if that slipped past the purge, or its command did |

With overlapping handlers and a broker, the shown entities can be wrong in ways the code does
not exclude: a reply past the queue brings a forgotten node back
(`ble_mesh/ble_mesh_control.cpp:1063`), a node is announced after it was forgotten
(`mqtt/mqtt_external_control.cpp:305`) or both as a light and as a cover (227), and a forget
without a broker leaves its entity (277). So `ShownAsKnown` is stated for one handler at a time,
and the last case is excepted by `lost`. A refused write is only logged
(`ble_mesh/ble_mesh_control.cpp:185-216`): no countdown is started again, and the change stays out
of flash until another one is saved. A load that fails leaves the bridge with no external nodes, and
the next change saves that. `unsaved` stands for both.

### Proved

`NodesProofs` proves `TypeOK`, `SavedUnlessPending` and `RevivedOnlyAroundPurge` for any
addresses, commands and restarts, from `ExternalNodesAssumption`. None of them is inductive alone; the
invariant `NodesInv` has three parts. `Typed` adds that at most one send is orphaned, which is
said without counting. `Saved` adds that no node has both Level and a light model, neither in the
table nor in flash nor in the copy being written: without that, hearing again what is known could
change the table although nothing is marked. `Replies` says of every send that is not orphaned, and
of a reply past the queue, that its address was asked since it was last purged.
Handlers mostly move between steps that touch neither table, copy nor sends; `QuietMove` and its
siblings deal with all of those, and each step that does has a lemma of its own.

`NodesShown` (`Spec => []ShownAsKnown`) speaks of moments at which every handler is done and the
broker was reached; what happens in between is in `Shown`. Unless handlers overlap, at most one
task is inside a handler, and its job `Fits` what is announced: if the job still has an
announcement or a removal ahead of it for a node, Home Assistant may differ from the table for
that node only; if it walks the table, the copy it walks still equals the table and the nodes
behind the place it has reached agree; every other node is `Settled`, announced as what the table
says. `ShownAsKnown` alone is not kept by any handler, since the table changes first and the
publication comes steps later.

## NodeRegistry

**Source**: `ble_mesh/ble_mesh_node.{cpp,h}` (table, dirty flag, save timer, blob and schema
versions), `ble_mesh/ble_mesh_provisioning.cpp` (97-175, 569-646, 763-777), the composition and
key callbacks of `ble_mesh/ble_mesh_control.cpp`, and the entities of `mqtt/mqtt_control.cpp`.
The broker is taken to be reachable here: what a lost broker does is in `ExternalNodes`.

| state | code |
|---|---|
| `stack` | external: the mesh stack's own node table, saved by the stack |
| `table` | `tracked_nodes`: per node nothing, its address (`"bare"`), or its models too (`"composed"`) |
| `disk` | the namespace `ble_mesh`: the version key, and the blob with the layout it was written in |
| `dirty`, `timer` | `node_info_dirty`, and the 10 s countdown |
| `queue` | per node what `NodeMessageQueue` still has to send |
| `job` | what each task does next: `prov_complete`, the save, and `ble_mesh_reset_node` are several critical sections or flash writes long |
| `ha` | external: entities in Home Assistant |
| `unsaved`, `missed`, `written`, `torn`, `unnamed`, `orphans`, `met` | history, read only by properties |

Bounds: `MaxQueue` messages wait for a node, `MaxChanges` provisionings, unprovisionings and
commands, `MaxCrashes` restarts, at any point, and `MaxFailures` writes and reads that flash refuses. Two nodes and two changes are enough for one
node to be removed while the other is configured or saved; two restarts for one in the
migrating save and one after it. `Versions` are all schemas an older firmware may have left, 3
among them, which has a type and a converter but no branch in the loader
(`ble_mesh_node.cpp:439-451`): a table in it is dropped at boot. `FeaturesKept` is about `written`,
the nodes whose features reached flash in a schema the loader can read.

What `TablesAgree` excepts is left open by the code, and any task may come at any point: `met`, a
node that one task adds or takes out while another works on it, since no lock spans those steps;
`unnamed`, a node whose name the stack refuses, so that `prov_complete` returns before it is stored
(`ble_mesh_provisioning.cpp:117-122`) and only the next boot adds it; `orphans`, a reset that is only
given up, or a restart in the middle of a removal.

Run `registry`: what is known is in flash or a save is due, unless a mark was cleared unseen or a write refused (`SavedUnlessMissed`); features survive restarts and migrations (`FeaturesKept`); the stack, the table and Home Assistant agree in the end about every node (`TablesAgree`).
`missed` is not a formality: a removal during the save is neither saved nor pending when the
save's end clears the flag (`ble_mesh_node.cpp:491`).

### Proved

`NodeRegistryProofs`: `RegistryTypeCorrect`, with the steps each task may be at, and
`RegistrySaved` (`Spec => []SavedUnlessMissed`), from `RegistryAssumption`.
`SavedUnlessMissed` is not inductive: a callback's end clears the flag, and whether a mark
goes with it only the history says. `SaveInv` adds `MarkRemembered`: what is not in flash was
marked since the last write, or a task is about to write or mark it. One lemma says what a
save keeps, one per action of a task what it adds.

`RegistryFeatures` (`Spec => []FeaturesKept`) needs an invariant about flash
as well, `FeaturesInv`: what has reached flash of a node is still there, whatever the version
key says, and in the table. So a restart finds it unless the two writes disagree, or flash cannot
be read (`torn`).

`RegistryAgrees` (`Spec => []TablesAgree`) is proved node by node, for the nodes not in `met`. A save in the
middle of a provisioning lets other work on the node begin, so its invariant `Agree` is not
that one task has the node to itself: it says that one task at a time removes it, in the
order of the code, that a node being stored is not being removed, and that a message waits
only for a node of the stack's table or one whose last removal step will clear the queue.

## WifiLink

**Source**: `wifi/wifi_provisioning.cpp` but for the scans and the pages, the boot order in
`main.cpp`, the callback and the Wi-Fi reset in `web_server/web_server.cpp`, `wifi_clear` in
`wifi/wifi_commands.cpp`.

| state | code |
|---|---|
| `nvs` | the namespace `wifi_creds`: three keys, each in flash when it is written |
| `state`, `normal`, `attempt`, `bits`, `notified` | `s_provisioning_state`, `s_normal_operation_mode`, `s_reconnect_attempt`, `s_wifi_event_group`, the task's notification |
| `task` | the reconnect task's place: between two of its steps anything else may run |
| `boot`, `services`, `web`, `callback` | where `app_main` is, whether it started MQTT, which pages are registered |
| `handler`, `fallback` | the handler writing or erasing credentials, and the timer behind it |
| `unlimited` | the build option, either way |
| `radio`, `events`, `router` | external: the driver with its remembered configuration (which survives a restart), the event loop's queue, the network |
| `ended`, `lostInBoot`, `tries`, `torn`, `unfinished` | history, read only by properties |

A name or password is its length, since that is all the checks and buffers look at. The
event loop runs above `app_main` on the same core, so `app_main` moves only when no event is
waiting; the reconnect task may run beside either. The handler is registered twice after a
failed connection; it is idempotent, so one call stands for both. A phone joins the access
point after `app_main` has finished. Not modelled: scans, a task or the radio that cannot be
started, and the deletion of the reconnect task, which nobody calls.

Bounds: `MaxEvents` waiting events, `MaxOutages` times the router goes, `MaxChanges` saves,
resets and wizard restarts, `MaxFaults` power failures and keys that cannot be erased, `MaxAttempts` of 2 (5 in the code,
compared only with the counter). Two outages let the second come while the first is being
repaired; two changes let a second submit meet the first one's fallback timer.

Run `wifi_link`: when all is quiet the reported state is the link's (`StateSettles`); the task
never gives up on a loss early (`FullAttempts`); what was saved can be loaded (`SavedLoads`);
the bridge ends up serving or offering its setup pages (`NeverStranded`). All are with limited
and with unlimited attempts.

Fairness: tasks go on, timers expire, the driver reports, and a router that went comes back.
Nothing is assumed about users, phones, outages or power failures.

What `NeverStranded` excepts, because the code leaves it so: a link lost while the bridge is
still booting (the loss ends in the event bits, and MQTT may have been skipped); a network
found by the station that was started beside the portal for scanning (the pages become the
bridge's, the rest was never started: `HalfBridge`); limited attempts, where giving up is
the point; and a reset whose erasing fails (`ClearFails`, `unfinished`): the page has stopped the
radio before it clears the credentials, only logs that it could not, and does not restart
(`web_server/web_server.cpp:1979-2002`). `StateSettles` excepts the last as well, because such a
bridge, or one whose flag the console cleared, runs on with other credentials than it would load. `SavedLoads` excepts names of 32 and passwords of 64 bytes, which the check accepts
and the readers' buffers cannot hold.

### Proved

`RadioProofs` proves `WifiFullAttempts` (`WifiSpec => FullAttempts`) from `WifiAssumption`. The
counter is reset by the event handler in the middle of an attempt, so the invariant
`CountInv` relates it to the attempts made at every place of the task: it never runs ahead of
them, and `"giveUp"` is reached only with the limit's worth. Steps that touch none of the
three variables are one lemma; each remaining group has its own.

`WifiSavedLoads` (`Valid(Network) => (WifiSpec => []SavedLoads)`) supposes that the credentials the
device may have been set up with once passed the same checks. `SavedLoads` speaks only of
moments without a handler; `FlashInv` adds what a handler under way has written so far: one
that saves carries checked credentials, and the keys before its place are already theirs, so
its last write makes the namespace whole and checked; a restart or a failing write between two
keys is remembered in `torn`, and only a complete save or erasure forgets it.

`WifiStateSettles` (`WifiSpec => []StateSettles`) is about the race between the event handler and
the reconnect task for the reported state, once both are at rest. While they are not, that state
may be wrong in either direction, and `LinkInv` says what will still put it right. Reports in
the event queue are late, but what the driver did last is the last thing the queue says of the
link (`AirInv`). A reported connection without a link (`NoFalseLink`) has a loss in the queue or
a notification pending; a link that is not reported (`NoHiddenLink`) has an address event in the
queue, or the task is about to write what it found. `Busy` and `ModeInv` exclude the portal's
radio and a handler that leaves for a restart.

## OtaManager

**Source**: `ota/ota_manager.{cpp,h}`, the three upload handlers of `web_server/web_server.cpp`
(firmware, web interface, bundle of both) with the key that authenticates them (2087-2740), and
what ESP-IDF and the bootloader do with the slots. The web server runs one handler at a time,
so uploads do not overlap; what comes in between is a power failure or a restart.

| state | code |
|---|---|
| `inProgress`, `storageUpdate`, `target`, `handle`, `written`, `window`, `edition` | the members of `ota_manager` |
| `at`, `job`, `remaining`, `answer` | where the upload handler is, what it was sent, what it said |
| `app`, `storage`, `boot`, `storedKey` | flash: both slots, the web interface, the selected slot, the key in NVS |
| `running`, `chip` | external: the slot the bootloader started, how many there are |
| `apiKey`, `shown` | the key in RAM and on the page |
| `pieces`, `excused`, `keyLost` | history, read only by properties |

An image is its length, its soundness and the place of its edition marker; a chunk is only a
length, any from 1 to what the buffer and the rest of the part allow, so the marker is cut in
every way. `BeginOta`, `BeginStorage`, `AbortOta`, `Scan` and `HeaderAccepted` are the manager's
functions; `StartFirmware`, `ReceiveFirmware`, `FirmwareAccepted`, `StartStorage`,
`ReceiveStorage`, `EndStorage` and their failures are the handlers' steps, one per call to the
network, the manager or the flash. `PowerFails` also stands for restarts asked of other
components. A firmware from before the editions may be installed and started; nothing is
modelled beyond that (`Ours`), as it is not this code that runs then.

Run `ota`: five images (both editions, a broken one, one without a marker, no firmware at all),
web interfaces that fit and one that does not, three uploads and one power failure, chips with
one and with two slots. A marker of three bytes in a window of three and a buffer of four is
the smallest in which a cut falls before, inside and behind it; three uploads are a failed
bundle, an upload over what it left, and one more. Both kinds of bridge are covered, as the
edition is that of the running image.

| property | says |
|---|---|
| `ReadyWhenIdle` | no failure leaves the flag or the handle that would refuse the next upload |
| `AlwaysBoots` | there is a sound image at any time |
| `KeepsItsWord` | after "success" each part lies whole in its place, and the new firmware runs |
| `KeepsEdition` | a restart never brings up the other edition, but for `excused` |

`excused` stands for what the code does not do. The window keeps the end of *one* chunk, so a
marker received in three chunks is missed, although `ota/ota_manager.h:80` has it that a split
marker is still found. And when a bundle fails in its second phase the new slot stays selected;
the next upload writes over it, and a refused image of the other edition that lies there is
started by the next restart, although `src/CHANGELOG.md:33` says the other edition is refused.
A failed second phase has another effect: `begin_storage_update` erases the web interface before
anything is received, and a bundle whose second part is larger than the partition is refused
only after the boot slot was switched, while the comment at `web_server/web_server.cpp:2521`
counts on the old files. No property states that comment.

### Proved

`WebServerProofs` proves the four properties, `TypeOK` and `ShownKeyWorks` (the key on the page
is the one uploads are asked for, but for `keyLost`) for images, chunks, window, buffer
and partition of any length and any number of uploads and restarts, from `OtaAssumption` (sizes
are numbers, a marker lies inside its image and is no longer than the window, an image without
one is Standalone). None but the types is inductive alone. `AlwaysBoots` rests on `BootInv`:
the running slot is sound and never the one an upload writes. `KeepsItsWord` rests on
`WordInv`: how much of each part has been written follows from where the handler is
(`JobInv`, `PartInv`), and success is only said at the end (`AnswerInv`). `KeepsEdition` adds
`ScanInv` (while part of the marker has been received, either the window still holds its
beginning, or it came in three pieces; once past it, the edition is known) and `SlotInv` (a
selected slot holds this edition). `ShownKeyWorks` rests on `KeyInv`: a key in RAM is the one
in flash.

Not modelled: `mark_app_valid`, `rollback_if_possible` and the progress callback, which nothing
calls; progress and status messages; the size checks on a whole request.

## MeshIdentity

**Source**: `wifi/mesh_config.cpp`, `ble_mesh_init`, the config server callback, groups and
discovery in `ble_mesh/ble_mesh_control.cpp` (1402-1822), the node role's events in
`ble_mesh/ble_mesh_provisioning.cpp` (354-405), the group, leave and reset handlers of
`web_server/web_server.cpp` (1283-1893), the wizard's mode (`wifi/wifi_provisioning.cpp`
1486-1559), `wifi_set`.

The bridge's place in a mesh is kept three times: by the stack, by the bridge in flash, and in
globals. Each change goes through all three, in steps that something else, or a restart, may
come between.

| state | code |
|---|---|
| `core`, `erased` | external: role, address, keys, bindings and subscriptions of the stack, which it saves itself; its namespace erased while it runs |
| `cfg` | the namespace `mesh_cfg`, key by key; the network and application keys of the Standalone edition are never changed and left out |
| `local`, `netIdx`, `appIdx` | `local_element_addr`, `store` |
| `events`, `btc`, `http` | what the stack has posted, and which handler is between which two of its steps |
| `sku` | which of the two editions runs: a restart may bring the other |
| `pending` | discovery probes in the send queue |
| `where` | `app_main`: loading, the fallback to this edition's mode, loading again, the portal, running |
| `apart`, `keyCut`, `netCut`, `idCut` | history, read only by properties |

`mesh_config_update` and its like hold one mutex, so a save is one step, but it may stop at any
key (`SaveSome`), with the error reported or swallowed as in the code. A load never fails: the keys
it cannot read, any of `Losses`, have their defaults (`LoadLosing`, `mesh_config.cpp:32-97`), and an
update saves those with its change (143-151).

Run `mesh_identity`:

| property | says |
|---|---|
| `KeyInUse` | a bridge in a mesh sends with a key the stack has, or none, and a restart would choose the same; but after a NetKey was deleted |
| `SubscribedAsListed` | the groups subscribed are those listed; no address 0 is listed |
| `LeftClean` | after leaving a mesh nothing of it is kept |

What the histories except is what the code leaves undone. `apart`: a group is taken off the list
but the save stops between list and count, so that an address 0 is listed which the page cannot
remove (`mesh_config.cpp:199-206`); a group added or removed while the PROV_COMPLETE handler works
on the list it read before (`ble_mesh_provisioning.cpp:366-382`); a list that could not be read and
was saved as an empty one; a group that the provisioner adds or removes by Config Model Subscription,
which the stack does and no list follows. `keyCut`: a restart between
the stack's change of a key and the bridge's save of it; a saved key that could not be read, or was
overwritten with its default under the bridge that uses it. `netCut`: the provisioner deletes a
NetKey, which takes the AppKeys bound to it along, and the config server callback has no case for it;
until the next start the bridge may send with a key that is gone. `idCut`: the same for leaving; a
PROV_COMPLETE handled after the reset handler cleared the identity.

Bounds: three changes by the provisioner are join, add and bind, or join, leave and join; one
request, one restart and two groups bring each handler between each pair of steps of another. A load
misses nothing, everything, or the key alone. The groups are only compared, so they are a symmetry set.

### Proved

`MeshIdentityProofs` proves `MeshTypeCorrect`, `MeshKeyInUse`, `MeshSubscribedAsListed` and
`MeshLeftClean` for any groups, keys, identities, number of changes and restarts, from
`MeshAssumption` (the marks for "none" are none of the values; the list of groups has at least one place). No
property is inductive, because the stack runs ahead of the handlers:

- `MeshInv` has the types (`Kinds`) and which handler can be at which step (`Places`). `Order`
  adds what the queue of the stack allows: a reset is its last event, and PROV_COMPLETE is handled
  first and with no other handler under way.
- `LeftInv`: a stack without identity means clean namespaces, or a reset that is still queued or
  being handled, or a page half-way through clearing, or `idCut`.
- `KeyInv`: a key announced by a queued event but lost by the stack has its deletion queued
  behind it, and the same holds of the key in use. What a restart would choose equals what is in
  use, except with such an addition queued or after `keyCut`, `netCut` or an erasure.
- `ListInv`: the list is saved first and the subscription follows, so that they may differ by the
  group the page is at. A list holds no group twice, which is why removal closes one gap
  (`Without`); a save that stops leaves one of few lists, and 0 in one puts `NoGroup` in `apart`.

## MqttLink

**Source**: `mqtt/mqtt_control.cpp`, `mqtt/mqtt_credentials.cpp`, `mqtt_api_handler` of
`web_server/web_server.cpp`, `for_each_node` and `get_node` of `ble_mesh/ble_mesh_node.cpp`.
External: the MQTT library, whose client has a task that holds the client's lock while it
handles an event, and whose every other caller waits for that lock.

| state | code |
|---|---|
| `stored`, `creds` | the NVS keys and `credentials_`: for each key, which save it is of, so that a load that mixes two saves is seen; keys that older firmware wrote in plain text are a value of their own |
| `state`, `client` | `connection_state_`, `mqtt_client` |
| `run`, `with`, `subs`, `hdl`, `unsubscribed` | each client of the library: its connection, its settings, its subscriptions, the event it handles |
| `pc`, `restart` | where the web server's request and `app_main` are |
| `handle`, `armed`, `tries`, `timer` | `home_assistant_restart_timer`, the timers that exist behind it, `num_try`, the timer task's place in its callback |
| `rounds`, `asked`, `excuses` | history, read only by properties |

| code | actions |
|---|---|
| `mqtt_api_handler`, `save_credentials`, `clear_credentials` | `Config`, `StoreKey` for each key in turn, `StoreFails`, `Clear`, `ClearFails` |
| `mqtt5_app_stop`, `mqtt5_app_restart`, `mqtt5_app_start` | `Stop`, `Destroy`, `ForgetClient`, `Load`, `StartClient`; the last two also in `app_main` |
| `mqtt5_event_handler` | `ClientConnected` then `SubscribeNodes`, `Disconnected`, `Unsubscribed`, `Error`, `Command` then `FindNode`, `Online` |
| `homeassistant/status` | `Online`, `DropTimer`, `NullTimer`, `CreateTimer` |
| `on_home_assistant_restart_timer` | `Fire`, `FirstPass`, `AnnounceBridge`, `SecondPass`, `Expire`, `Expired` |

Run `mqtt_link`, one request, three events and one restart of the bridge:

| property | says |
|---|---|
| `RunsWhatIsStored` | at rest client, memory and flash hold one save, or no client runs |
| `ThreeRounds` | three rounds of announcements after Home Assistant restarts, and no timer besides the one that can be stopped |
| `EveryoneMovesOn` | requests, events and rounds end, but in `LockCycle` |

What the excuses stand for is in the code. `boot`: the web server answers before `app_main` has
started the client, so that both start one; the second runs for ever, with the same identity.
`torn`: the keys are written one by one, and a new host with an old password loads; a refused
commit may leave the key. `flash`: a key could not be read, or not be erased. `clear_credentials`
looks at no erasure and empties memory also when the commit is refused; it fails then, or when the
flash cannot be opened (`mqtt/mqtt_credentials.cpp:455-482`), and the page's handler does not stop the
client (`web_server/web_server.cpp:921-937`), which runs on with what memory may no longer have. `raced`: Home
Assistant's restart is noticed while a round is under way, whose end may then remove the new timer
or leave one that nobody stops. A round in which the connection goes counts as made. `LockCycle`: the
timer's pass over the nodes holds the table's mutex and waits for the client's lock, whose owner
waits for the table; both tasks, and the next request, wait for ever.

Bounds: two clients and two timers are one more than the code means to have; three events are a
connection, its loss and the next, or a connection and two restarts of Home Assistant; `MaxRounds`
is one more than a timer is to make; a flash that fails misses the port alone, for which there is a
default, or all the other keys (`Losses`). Fairness: a task that can go on does. Connections, requests
and restarts are not required.

### Proved

`HomeAssistantProofs` proves `MqttTypeOK`, `RunsWhatIsStored` and `ThreeRounds` for any number of
nodes, clients, timers, requests and restarts, from `MqttAssumption`. `RunsWhatIsStored` speaks of
rest only, so the invariant `RunInv` says what holds on the way there: `SaveInv` (while a save is under way, the keys before the present one
are of it already), `AloneInv` (only the client the handle names runs, and it is gone before
another is started, but for `boot`) and `SameInv` (flash, memory and client agree, or are about
to). Most of `Next` touches nothing of it; `RunStutter` deals with those steps at once.

`ThreeRounds` speaks of the time between rounds. `RoundsInv` adds what holds within one (`CountInv`:
two or three are made or left, by the place the timer task is at; the counter never passes
zero, so its wrap at 256 is never met) and while the timer is replaced (`ReplaceInv`: no round
is under way, and the handle and the timers that exist agree step by step). That two handlers
never replace it at once comes from `AloneInv` and `HandlerInv`: who handles an event is connected,
and only one client is.

Left out: the periodic publication of the bridge's readings, which changes nothing that is
modelled; the contents of announcements; the checks of the credentials' form; the encryption,
of which only that it was there or not. A timer does not fire between its start and the
assignment of `num_try` in the next lines, a minute before its time.

## LogStream, WebServer, CaptivePortal

**Source**: `debug/websocket_logger.cpp`; the tables, the dispatch of the wildcards and the
files in `web_server/web_server.cpp`; `wifi/dns_server.cpp`, the scan, the portal's routes and
the wizard's end in `wifi/wifi_provisioning.cpp`. Each module extends the one before it, and the run
is of the last. External: the web server's table and descriptors, DNS sockets, the Wi-Fi driver.

| module | state | code |
|---|---|---|
| `LogStream` | `conn`, `joining` | what each descriptor is, and the page being added |
| | `clients`, `lines` | `ws_clients`, the ring buffer |
| | `sender`, `cleaner` | the two tasks' passes: the copy still to look at, the descriptor about to be sent to, those found gone |
| | `enabled`, `turningOff`, `writers`, `history` | lines retained for `GET /api/logs` |
| `WebServer` | `ap`, `state`, `asked` | the mode booted into, the Wi-Fi state last reported, whose pages it wants |
| | `table` | the handlers, in the order in which they are looked up |
| | `todo` | for each task that reports a state, the registrations it has yet to make or undo |
| `CaptivePortal` | `dns` | `dns_server_running`, `dns_socket`, `dns_task_handle`, the task's place |
| | `http`, `scan`, `radio` | the stop handler's place, the scan's flags and results, the radio's mode |

| code | actions |
|---|---|
| `ws_handler` | `Open` or `Frame`, then `Join` |
| `ws_log_sender_task` | `SenderTakes`, `SenderLooks`, `SenderSends`, `SenderRemoves` |
| `ws_cleanup_task` | `CleanerTakes`, `CleanerLooks`, `CleanerRemoves` |
| `log_ws_vprintf`, `websocket_logger_set_history_enabled` | `Log`, `Retain`, `TurnOn`, `TurnOff`, `ClearHistory` |
| `wifi_state_change_callback` and the four functions that register | `StateChanged`, then `ChangeEntry` for each entry |
| a request | `Find` in the table, then `Dispatch` in `ApiChain`, `MqttChain`, `NodeChain` or `BridgeChain`, or `Served` from the files |
| `dns_server_start`, its task, `dns_server_stop` | `DnsStart`; `DnsOpens`, `DnsBinds`, `DnsLoop`, `DnsAnswers`, `DnsFails`, `DnsLeaves`; `StopRequest`, `DnsFlag`, `DnsClose`, `DnsDelete`, `StopRadio` |
| scan | `ScanRequest`, `ScanStarts`, `ScanRefused`, `ScanDone`, `ScanAges` |

Run `web_server`; its `MCScenes` are pages that read the log; retention; both tasks reporting the
link beside a page; the portal and an access point that comes late; the portal and a page; scans.

| property | says |
|---|---|
| `ServesItsMode` | once nobody changes the table, each request gets the handler its mode has for it, and none is left of the other |
| `ApiStaysUp` | in normal operation the bridge's endpoints and the log page have their handler at every moment, though two tasks may register them again; only the files have gaps |
| `DnsAtRest` | the DNS server's flag is up exactly while its task serves, and the socket goes with it |
| `ListFollowsPages` | a connected page is on the list of those that get the lines (`PagesListed`), one that is gone leaves it |
| `ScanEnds` | "scanning" is said only while the scan's end is to come |

`PagesListed` excepts a page whose connection refused a line (`refused`), and one that was
given a descriptor a pass had found closed (`reused`): that pass removes the newcomer, which gets
no line until it sends a frame itself.

Bounds: one descriptor more than places on the list, and as many connections as descriptors,
so that one may be a second on a descriptor that was closed; two reports of the link, by two tasks,
bring every registration of one between each two of the other. Fairness: the two log tasks and
the web server's go on, and the driver ends a scan it began. Deleting the DNS task by a handle
whose task has ended is undefined; `DnsDelete` lets it do nothing or restart the bridge. Left
out: the text of lines, pages and answers; tasks of the logger that cannot be created.

### Proved

`WebServerProofs` proves `LogTypeOK` (with the limits of the list, the ring buffer and the retained
lines) and `DnsAtRest` for any descriptors, tasks, limits and scenes, and the safety halves of
`ListFollowsPages` (`PagesListed`) and `ScanEnds` (`ScanUnderWay`). `PagesListed` needs to know what the passes carry:
`GoneKnown` says that a descriptor they found gone and that is a page again is among `reused` or
`refused`; the removal at a pass's end takes no other page. `DnsInv` says of each step of the
wizard's end where the DNS task may be: before it anywhere but past its loop, with the flag up;
once the flag is down anywhere but before its socket. `ServesItsMode` and `ApiStaysUp` are not
proved: what the table holds after registrations is a fold over routes and `SelectSeq`, whose value
for a sequence of any length is induction over data.

## LightScales, LightControl

**Source**: the conversions, the client callbacks, the record of a light and the commands in
`ble_mesh/ble_mesh_control.cpp` (83-520, 970-1380, 1690-2260) and `ble_mesh_commands.cpp`; commands
and statuses in `mqtt/mqtt_control.cpp` and `mqtt_external_control.cpp`; the page's commands in
`web_server/web_server.cpp` (304-447). External: the light.

`LightScales` has the conversions as functions of numbers. `LightControl` takes a command
through record, queue, radio and light, and the status back to Home Assistant. Both editions are
in it: Standalone queues what to do and reads its record when it sends; Companion queues the
values and learns its record from what it hears. `light` is the light (models, lightness, level),
`node` the bridge's record of it, `offered` and `shown` what Home Assistant was told, `queue`,
`waiting`, `air`, `late` and `heard` what is under way. `want` and `doubts` are history.
`LightMin` and `LightMax` are the light's range: any lightness but 0 it brings into it (`Shine`). The
bridge asks for both and limits what it sends by the maximum alone.

Run `light_control`:

| property | says |
|---|---|
| `CommandArrives` | when all has settled the light is as it was last asked to be, to the unit, or at its least if it was asked for less |
| `ShownIsTrue` | what Home Assistant shows is how the light is, to the two units that a conversion may lose |

Neither says that choosing colours leaves the brightness as it was, and it does not. The code says of its
conversion that it is "rounded so a send/status round-trip doesn't lose brightness each time"
(`ble_mesh/ble_mesh_control.cpp:354-356`), and the test plan that "brightness must not drift"
(`src/documentation/TEST_PLAN_JOIN_EXISTING_MESH.md:51`). It is so for most values and not for a low
even one: 100 is sent as 49, heard back as 98, sent with the next colour as 48, heard as 96. The way
back is rounded and the way out is not, and every colour costs two units more. `MCLightControl`
has the two round trips on the real scale as an assumption, `LossAddsUp`, which TLC evaluates.

The `doubts` are what the code leaves open:

- `lost`: a message or an answer; `stale`, a status overheard while something else was under way;
- `range`, `scale`: the light's range was not known yet when a lightness was sent, or when one was
  read (until then the bridge reads a colour's lightness on the full scale); `learning`, a model
  not learned yet;
- `overwritten`: a status stored over a Standalone record while a command on it is queued;
  `belated`: one stored after the record was shown, since the Standalone generic callback moves the
  queue on before it stores (a light with on/off only; the matter of run `node_status_stale`);
- `unseen`: a dimmable light switched on whose last brightness is not known; `unlit`: a colour alone, sent
  with a remembered brightness of 1 or 2, which the scale of HSL rounds to 0; `dark`: such a
  brightness asked for with a colour, after which the bridge shows a dark light as on;
- `raw`: the page's lightness put into a Standalone record which holds a colour's, or beyond the
  light's range, which the page does not limit;
- `raised`: the Standalone edition asked for less than the light's least. The light shines at that,
  and the record, which no answer to a Set corrects, keeps what was asked;
- `overtaken`, `guess`: a colour mode decided by a later command, or not known yet;
- `web`: a command from the page or the console, which publish nothing.

Bounds: brightness 3, which loses a unit on the way through HSL and back and is there less than
the light's least (3), and 30, beyond the light's range; two commands, so that one finds the queue busy with another; one refresh or
overheard status, one loss, two tries. The full scale is 31 and not 65535, a percent 5 and not 100;
what the conversions lose, they lose by rounding once each way, which these numbers have in every
remainder. The full scale is more than twice the light's range, so that a reading on the wrong
one shows. The six lights are those whose handling differs; a colour model without Light Lightness is
left out, since the mesh model specification has both colour models extend it. Hue,
saturation and temperature go with the lightness of their message and are left out.

### Proved

`NodesProofs` proves `LightTypeOK` and `CommandArrives` for any lights, ranges (`LightMin` and
`LightMax`), scales, brightness,
retries and bounds, from `ScaleAssumption` and `LightAssumption`. Types need no more of the products and
quotients than their bounds (`Shared`: the share of `b` that `a` has of `c` is at most `b`). `RoundTrip`
proves what `ShownIsTrue` rests on: a brightness that goes out as a lightness of HSL and comes back
once loses at most two units and gains none, for every range and every value.

`CommandArrives` speaks of moments at which the queue is empty; `OnItsWay` says how a command gets
there. While nothing is doubted, either nothing queued can change what is wanted and the light has it
(`NoneAhead` and `Arrived`), or the last message that can is `Ahead`: sent as the record and the
light's arguments are now, it brings about what is wanted however the light is by then (`Brings`),
and, if it was sent and its answer is on the way, it has. In the Companion edition the message has its
values with it. In the Standalone edition it is made when it is sent, of a record that every status
may change, so nothing may be stored before that it is made of (`Undisturbed`): no Get of a brightness
ahead of it, and no late OnOff or Level status when it is itself one. The doubt `overwritten` is
exactly a command given when that is not so. `Shapes` ties what is under way to the front of the
queue. That the Companion's colour-only command needs the doubt `unlit` came out of the proof: with a
remembered brightness of 1 or 2 the code's own guard, which looks for brightness 0
(`mqtt/mqtt_external_control.cpp:456`), lets a lightness of 0 through and the light goes dark.

`LightShownProofs` proves `ShownAsItIs` (`LightSpec => []ShownIsTrue`) for both editions. It needs
one assumption more, `LightsAssumption`:
a light has a model, and one with Light Lightness or a colour model has Generic OnOff and Light
Lightness. That is the mesh model specification's, in which both colour servers extend Light
Lightness, and that Generic OnOff, and the code relies on it (`web_server/web_server.cpp:1590`: "HSL/CTL Servers extend Light
Lightness, so any of the three is dimmable"). TLC's lights satisfy it.

The property speaks of moments at which nothing is under way; the invariant, `Showing`, says how
the record of a light comes to agree with it. `AllFit` holds whatever is doubted: modes, messages and
answers go with the models the light has, and what the Companion has shown is its record. The rest is
while nothing is doubted but what publishes late or not at all (`Sure`), and the editions differ in
which of the two is ahead:

- The Companion's record follows the light. `CShows` says that a part of the record is what the light
  last said of it, unless a message in the queue is still to change it: mode and range (`CKnown`), the
  brightness when last lit (`CLast`), on (`COn`); `CSent` is the same of the answer on the way. While a model of the light is not learned, no colour and no switch is queued.
- The Standalone record runs ahead: a command changes it at once, and the message made of it is
  filled in when it is sent. `SShows` says that what the record has is still to be sent (`SValue`) or
  is the light's (`SLight`, `SMode`, `SOn`), unless the light is still to be asked, and that an answer
  on its way or stored late agrees with what has been written since (`SAir`, `SLate`). It holds because
  of the order of the queue (`SOrder`): what an answer overwrites is not waiting to be sent behind it, but
  for a switch in front of its own brightness. A refresh asks for the colour before the lightness
  (`SGets`), and a command ends with its publication (`SEnds`, `STold`).

The width of the property comes from `RoundTrip`, and from `CoverTrip` for covers: a position
to a level and back loses one at most. What is shown is compared with the light as it is, so the two
units do not add up here, as they do from colour to colour (`LossAddsUp`). A brightness of 1 or 2 may come back as none; `SBright` says that a
switch with no brightness behind it is queued only for a greater one, unless `unlit` or `dark` is doubted.

## BridgeEntities, Commissioning

**Source**: `mqtt/mqtt_bridge.cpp`, the switches of `ble_mesh/ble_mesh_control.cpp` (2270-2366), the
last will and Home Assistant's restart in `mqtt/mqtt_control.cpp`; `ble_mesh/ble_mesh_provisioning.cpp`
(44-340, 569-777), the configuration client's callback (597-1042). External: Home Assistant, the
broker's retained message and last will, devices.

`BridgeEntities` has the bridge's own entities: `enabled` are the two flags, `stackOn` what the
stack does, `todo` what is left of the function each task is in, `retained` and `will` the
broker's, `ha` what Home Assistant was told, listens to and heard. `Commissioning` extends it with
devices of the Standalone edition: `listed` and `adding` (the list and what is being
provisioned), `dev` and `stack` (what device and stack have), `entry` (the node table), `queue`,
`late` and `console` (compositions on their way), `shown`.

| code | actions |
|---|---|
| `recv_unprov_adv_pkt`, `prune_stale_unprovisioned_devices`, `ble_mesh_provision_device`, `prov_complete` | `Beacon`, `PruneStale`, `Provision`, `ProvComplete` |
| configuration client | `GotComposition`, `LateComposition`, `GotKey`, `GotBind`, `GotReset`, `GivenUp`, `ResetGivenUp`, `ConsoleReply` |
| `ble_mesh_unprovision_device`, `unprovision_all_nodes`, console | `Unprovision`, `UnprovisionAll`, `ConsoleGet`, `FactoryReset` (external) |
| `ble_mesh_set_provisioning_enabled` and the like, from three tasks | `HaSets`, `PageSets`, `ConsoleSets`, `TellStack`, `SetQuietly` |
| publications | `Announce`, `ReadFlag`, `SendFlag`, `PublishOn`, `InfoTimer`, `Republish` |
| connection, restarts | `Connects`, `Disconnects`, `LastWill`, `BridgeRestarts`, `HaRestarts`, `HaSubscribes`, `HaOnline`, `Round` |

Run `commissioning`; `MCBudgets` are the bridge alone (switches and an outage; two outages),
the nodes alone (with requests and a loss; with a switch), and an outage with a node.

| property | says |
|---|---|
| `SwitchesAgree` | Home Assistant shows what the switches are set to and the stack does as they say, once nobody is at work on them |
| `AvailableAfterTwoRounds` | two full rounds after its restart Home Assistant has a connected bridge as available |
| `AtRestIsBound` | a node for which nothing is left to do has the key and all its models that can be bound |
| `AutoMissesNone` | while automatic provisioning is on, a device listed by PB-ADV is being added |

What they except: `doubt`, a switch that two tasks were busy with at once or of which nobody was
listening; the history `doubts`: a node whose name was refused, a message to it given up, or its
composition taken for the one the console asked for (`unnamed`, `dropped`, `stolen`); a device
first heard while the switch was off (`byHand`), which only its user adds; one that the stack
refused to add, or put out again for another when its own list was full (`AddUnprovDev`, `refused`).
`recv_unprov_adv_pkt` only logs that (`ble_mesh/ble_mesh_provisioning.cpp:322-327`), it has the device
on its list already, and so it never tries again. The will is retained
and "on" is not, so one round is not enough for the availability.

Bounds: a lamp whose temperature server is on an element of its own, heard by two bearers, and a
plug are the two ways a composition is parsed; two requests are a reset and a second life.

### Proved

`HomeAssistantProofs` proves the four properties of the run and `TypeOK`, for any devices,
compositions, bearers and budgets, from the two assumptions on their types. There are two
invariants, since no step of a node touches what the bridge's entities need and the converse
holds but for `Republish` and restarts.

`NodeInv` is for the nodes. `AtRestIsBound` speaks of an empty queue, so the invariant says what a
queue with something in it leads to (`Leads`): the node is asked for its composition, or is
known for what it is and its key is queued, or has the key and each model that can be bound is, or
its binding is queued. It is a disjunction because a key that is added late, or twice, queues the
bindings again: the messages of an earlier life can make a node's way longer and never end it
early. Two facts about operators carry it: `Bind_App_Key_queue` has a binding for each model
`Bindable` names (the greatest element with a temperature server exists because a composition is
finite, `HasGreatest`, from the well-foundedness of the naturals), and a binding is taken by the
element it is addressed to. `Addressed` keeps queues of unknown nodes empty: else a node provisioned
again could skip its composition. For `AutoMissesNone` the invariant (`Taken`) leaves the switch
out: a device listed by PB-ADV is being added or its user's, whatever the switch is set to, since
it may be turned off and on while the device stays listed.

`BridgeInv` is for the entities. `Program` says what the functions' steps look like: what is sent was
read in the step before, what is read is sent, the nodes come last in a round. `FlagInv`: a
switch in no doubt is shown as it is set or a task has yet to send it, and one that is about to
send has the value it is set to; the history `doubt` is exactly what breaks the second part.
`StackInv` is the same for the stack. `AvailInv` follows a round: a full one leaves Home Assistant
with the entities, so that it listens when the next one begins, and that one leaves it with "on";
the will can be published only when the connection, and with it the count, is lost.

## Only model-checked

Liveness needs fairness and stays with TLC: `EverySendSettles`, `EveryMessageEnds`, `NeverStranded`,
`EveryoneMovesOn`, the second half of `ListFollowsPages`,
`ScanEnds`. So do `ServesItsMode` and `ApiStaysUp`, whose tables are
computed by recursion over sequences. Every other property of a passing run is a theorem.
What recursive definitions compute for every input is out of the prover's reach; none of the
proofs rests on one.

## Not modelled

- Debug console, GPIO and the registries of commands: registration and printing. The commands
  that change state are in `WifiLink`, `MeshIdentity`, `Commissioning` and `LightControl`.
- SIG company and model tables, version and web pages, scripts, table generators, CI: data and
  tooling. Shared headers hold types, which appear where they are used.
- `src/managed_components` (littlefs and its port) is third-party code, used as a file system
  that answers or fails.
- Payloads: JSON of announcements, statuses and pages, the wording of answers, log text. Where
  the choice between payloads matters (colour modes, positions, switches) it is modelled.
- Hue, saturation and temperature; addresses of the discovery's sweep beyond which node answers;
  the encryption of credentials beyond whether they can be read.
- A task or a mutex that cannot be created at boot, except where the code goes on (DNS, timers).

## Running

`tlc -workers 2 -config <file>.cfg <MC module>` for each entry of "runs", and
`tlapm <module>Proofs.tla` for the proofs. In a passing run TLC reports no error; the
violation run ends in a trace that leads through the lines its finding names.
