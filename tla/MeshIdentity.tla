----------------------------- MODULE MeshIdentity -----------------------------
(***************************************************************************)
(* The bridge's own place in a mesh: its role, address, keys and groups.   *)
(* They are kept by the mesh stack (`core', external), in the NVS keys of  *)
(* wifi/mesh_config.cpp (`cfg') and in three globals of                    *)
(* ble_mesh/ble_mesh_control.cpp, and changed by ble_mesh_init, the        *)
(* provisioning and config server callbacks (task Btc), the web handlers   *)
(* (task Http) and, for discovery, the timer task.                         *)
(*                                                                         *)
(* Every function of mesh_config.cpp holds one mutex, so that a save is a  *)
(* step; it may stop at any of its keys.  A save cut off by a restart is   *)
(* such a save and PowerFails.  A load never fails: a key that cannot be   *)
(* read has its default, which an update then writes back.                 *)
(***************************************************************************)
EXTENDS Naturals, Sequences, FiniteSets

CONSTANTS
  Groups,        \* group addresses users configure
  Keys,          \* AppKey indices provisioners use
  Identities,    \* [addr, net] that provisioners assign
  Roles,         \* what a firmware is built for: "node", "provisioner" or both in turn
  Unused,        \* ESP_BLE_MESH_KEY_UNUSED
  Missing,       \* an NVS key that was never written
  MaxGroups,     \* MESH_MAX_GROUP_ADDRS
  Losses,        \* bound: the sets of keys that one load may be unable to read
  MaxChanges,    \* bound: changes made by provisioners
  MaxRequests,   \* bound: changes requested on web pages
  MaxRestarts,   \* bound: restarts
  MaxEvents      \* bound: events of the stack waiting for Btc

NoGroup == 0
NoId == [addr |-> 0, net |-> 0]

Readable == {"mode", "list", "count", "legacy", "addr", "net", "app"}

ASSUME MeshAssumption ==
  /\ {} \in Losses /\ Losses \subseteq SUBSET Readable
  /\ NoGroup \notin Groups /\ Unused \notin Keys /\ Missing \notin 0 .. MaxGroups
  /\ Roles \subseteq {"node", "provisioner"} /\ Roles # {}
  /\ \A id \in Identities : id.addr # 0
  /\ {MaxGroups, MaxEvents} \subseteq Nat \ {0}
  /\ {MaxChanges, MaxRequests, MaxRestarts} \subseteq Nat

VARIABLES
  sku,          \* the role compiled into the firmware
  cfg,          \* flash: namespace mesh_cfg
  core,         \* external: the stack's state, which it keeps in flash
  erased,       \* namespace mesh_core was erased under the running stack
  where,        \* app_main: "boot", "fallback", "again", "portal" or "up"
  mesh,         \* the stack was enabled
  local, netIdx, appIdx,  \* local_element_addr, store.net_idx, store.app_idx
  events,       \* external: what the stack posted to Btc
  btc, http,    \* what the tasks are in the middle of
  pending,      \* groups whose probes wait in the send queue
  changes, requests, restarts,  \* bounds
  apart,        \* history: groups whose saving, or subscribing, was cut off or overtaken, or
                \* changed in flash by a misread list, or in the stack by a provisioner
  keyCut,       \* history: the stack's key changed and the bridge could not note it, or the
                \* saved one could not be read
  netCut,       \* history: a provisioner deleted a NetKey, and its AppKeys went untold
  idCut         \* history: the stack left its mesh and the bridge could not note it

ram == <<local, netIdx, appIdx>>
tasks == <<btc, http>>
boot == <<sku, where, mesh>>
bounds == <<changes, requests, restarts>>
hist == <<apart, keyCut, netCut, idCut>>
vars == <<boot, cfg, core, erased, ram, events, tasks, pending, bounds, hist>>

Idle == [pc |-> "idle"]
Fresh == [role |-> "none", id |-> NoId, keys |-> {}, bound |-> {}, subs |-> {}, adv |-> FALSE]
NoList == [i \in 1 .. MaxGroups |-> NoGroup]
Mode(role) == IF role = "node" THEN "existing" ELSE "standalone"
Settled == events = <<>> /\ btc = Idle /\ http = Idle

(***************************************************************************)
(* wifi/mesh_config.cpp                                                    *)
(***************************************************************************)
\* mesh_config_load when it cannot read the keys `lost': defaults for these and for what was
\* never written; the old single address as a list of one.
LoadLosing(lost) ==
  LET none == cfg.count = Missing \/ "count" \in lost
      single == IF "legacy" \in lost THEN NoGroup ELSE cfg.legacy
  IN [cfg EXCEPT
        !.mode = IF @ = Missing \/ "mode" \in lost THEN Mode(sku) ELSE @,
        !.count = IF none THEN IF single # NoGroup THEN 1 ELSE 0
                  ELSE IF "list" \in lost THEN 0 ELSE @,
        !.list = IF none THEN [NoList EXCEPT ![1] = single]
                 ELSE IF "list" \in lost THEN NoList ELSE @,
        !.addr = IF "addr" \in lost THEN 0 ELSE @,
        !.net = IF "net" \in lost THEN 0 ELSE @,
        !.app = IF "app" \in lost THEN Unused ELSE @]

Loaded == {LoadLosing(lost) : lost \in Losses}

\* What is saved.
Load == LoadLosing({})

InList(c) == {c.list[i] : i \in 1 .. c.count}

\* The groups in doubt once a list that was loaded as c's is saved.
Misread(c) == IF c.list = Load.list /\ c.count = Load.count THEN {} ELSE Groups \cup {NoGroup}

SaveOrder == <<"mode", "list", "count", "addr", "net", "app">>

\* The first n of these keys are written.
Write(new, order, n) ==
  [f \in DOMAIN cfg |-> IF \E i \in 1 .. n : order[i] = f THEN new[f] ELSE cfg[f]]

\* Writes all keys, but gives up at the first that is refused.
SaveAll(new, order) == cfg' = Write(new, order, Len(order))
SaveSome(new, order) == \E n \in 0 .. Len(order) : cfg' = Write(new, order, n)

\* The list one shorter, but not closed up.
Shortened(c, g) ==
  IF g \in InList(c) THEN [c EXCEPT !.count = @ - 1, !.list[c.count] = NoGroup] ELSE c

\* The group list without g, which it lists once (Distinct: MeshIdentityProofs), closed up and
\* ending in a zero.
Without(c, g) ==
  LET at == CHOOSE i \in 1 .. c.count : c.list[i] = g
      next(i) == IF i < c.count THEN c.list[i + 1] ELSE NoGroup
  IN [c EXCEPT !.count = @ - 1,
               !.list = [i \in 1 .. MaxGroups |-> IF i \in at .. c.count THEN next(i) ELSE @[i]]]

With(c, g) == [c EXCEPT !.count = @ + 1, !.list[c.count + 1] = g]

\* The identity of a bridge in no mesh.
NoIdentity(c) == [c EXCEPT !.addr = 0, !.net = 0, !.app = Unused]

(***************************************************************************)
(* Subscriptions                                                           *)
(***************************************************************************)
\* ble_mesh_subscribe_group_addr of each group: the stack finds the element only by the
\* address it has, and keeps MaxGroups subscriptions.
Subscribed(c, groups, element) ==
  LET all == c.subs \cup (groups \ {NoGroup})
  IN IF c.id = NoId \/ element # c.id.addr THEN {c}
     ELSE {[c EXCEPT !.subs = s] : s \in {s \in SUBSET all :
             /\ c.subs \subseteq s /\ Cardinality(s) <= MaxGroups
             /\ s = all \/ Cardinality(s) = MaxGroups}}

\* ble_mesh_unsubscribe_group_addr
Unsubscribed(c, g, element) ==
  IF c.id = NoId \/ element # c.id.addr THEN c ELSE [c EXCEPT !.subs = @ \ {g}]

(***************************************************************************)
(* Boot: app_main and ble_mesh_init                                        *)
(***************************************************************************)
\* Nothing saved but perhaps a group, by an older firmware; or a full list of groups saved.
Configured(g, s) ==
  [mode |-> IF s = <<>> THEN Missing ELSE Mode(sku), list |-> IF s = <<>> THEN NoList ELSE s,
   count |-> IF s = <<>> THEN Missing ELSE Len(s), legacy |-> g, addr |-> 0, net |-> 0, app |-> Unused]

Full == {s \in [1 .. MaxGroups -> Groups] : \A i, j \in 1 .. MaxGroups : s[i] = s[j] => i = j}

Init ==
  /\ sku \in Roles
  /\ cfg \in {Configured(g, s) : g \in Groups \cup {NoGroup}, s \in {<<>>}}
            \cup {Configured(NoGroup, s) : s \in Full}
  /\ core = Fresh /\ erased = FALSE
  /\ where = "boot" /\ mesh = "off"
  /\ local = 0 /\ netIdx = Unused /\ appIdx = Unused
  /\ events = <<>> /\ btc = Idle /\ http = Idle
  /\ pending = {}
  /\ changes = 0 /\ requests = 0 /\ restarts = 0
  /\ apart = {} /\ keyCut = FALSE /\ netCut = FALSE /\ idCut = FALSE

\* The stack holds what the other role left there: it refuses to be enabled.
OtherRole == core.role \notin {"none", sku}

\* Without Wi-Fi the portal is started instead of the mesh.
BootToPortal ==
  /\ where = "boot" /\ where' = "portal"
  /\ UNCHANGED <<sku, mesh, cfg, core, erased, ram, events, tasks, pending, bounds, hist>>

\* A mode this firmware cannot run is read ...
BootToMesh ==
  /\ where = "boot" /\ where' = "fallback"
  /\ \E c \in Loaded : c.mode # Mode(sku)
  /\ UNCHANGED <<sku, mesh, cfg, core, erased, ram, events, tasks, pending, bounds, hist>>

\* ... mesh_config_reset_stack_state and then the update, whose results are not looked at.
Fallback ==
  /\ where = "fallback" /\ where' = "again"
  /\ core' \in {core, Fresh}
  /\ \E c \in Loaded :
       LET new == [NoIdentity(c) EXCEPT !.mode = Mode(sku)]
       IN /\ SaveSome(new, SaveOrder)
          /\ idCut' = (idCut \/ \E f \in {"addr", "net", "app"} : cfg'[f] # new[f])
          /\ apart' = apart \cup Misread(c)
  /\ UNCHANGED <<sku, mesh, erased, ram, events, tasks, pending, bounds, keyCut, netCut>>

OwnAddr == 1  \* PROV_OWN_ADDR

\* The node role: the identity is the saved one until the stack reports its own, which it
\* does at every start; groups are subscribed, the discovery timers started.
EnableNode ==
  /\ where \in {"boot", "again"} /\ sku = "node"
  /\ where' = "up"
  /\ \E c, d \in Loaded :
       /\ c.mode = Mode(sku)
       /\ local' = c.addr /\ netIdx' = c.net /\ appIdx' = c.app
       /\ IF OtherRole THEN mesh' = "down" /\ UNCHANGED <<core, events, apart>>
          ELSE /\ mesh' = "up"
               /\ core' \in Subscribed([core EXCEPT !.role = "node", !.adv = core.id = NoId],
                                       InList(d), c.addr)
               /\ apart' = apart \cup (InList(d) \ InList(Load))
               /\ events' = IF core.id = NoId THEN <<>> ELSE <<[op |-> "complete", id |-> core.id]>>
  /\ UNCHANGED <<sku, cfg, erased, tasks, pending, bounds, keyCut, netCut, idCut>>

EnableProvisioner ==
  /\ where \in {"boot", "again"} /\ sku = "provisioner"
  /\ \E c \in Loaded : c.mode = Mode(sku)
  /\ where' = "up" /\ local' = OwnAddr /\ netIdx' = 0 /\ appIdx' = 0
  /\ IF OtherRole THEN mesh' = "down" /\ UNCHANGED core
     ELSE mesh' = "up" /\ core' = [core EXCEPT !.role = "provisioner", !.keys = @ \cup {0},
                                               !.id = [addr |-> OwnAddr, net |-> 0]]
  /\ UNCHANGED <<sku, cfg, erased, events, tasks, pending, bounds, hist>>

\* The mode could not be saved.
EnableNothing ==
  /\ where = "again" /\ \E c \in Loaded : c.mode # Mode(sku)
  /\ where' = "up" /\ mesh' = "down"
  /\ netIdx' = 0 /\ appIdx' = 0
  /\ UNCHANGED <<sku, cfg, core, erased, local, events, tasks, pending, bounds, hist>>

Reboot(role) ==
  /\ sku' = role /\ where' = "boot" /\ mesh' = "off"
  /\ local' = 0 /\ netIdx' = Unused /\ appIdx' = Unused
  /\ core' = IF erased THEN Fresh ELSE [core EXCEPT !.adv = FALSE]
  /\ erased' = FALSE /\ events' = <<>> /\ pending' = {}
  /\ btc' = Idle /\ http' = Idle
  /\ LET lost == {events[i].op : i \in DOMAIN events}
     IN /\ apart' = apart \cup IF http.pc = "unsubscribe" THEN {http.g} ELSE {}
        /\ keyCut' = (keyCut \/ lost \cap {"add", "bind", "delete"} # {})
        /\ idCut' = (idCut \/ http.pc = "clear" \/ "reset" \in lost)
  /\ netCut' = FALSE
  /\ UNCHANGED <<cfg, changes, requests>>

\* A restart at any time, perhaps with a firmware of the other role.
PowerFails ==
  /\ restarts < MaxRestarts /\ restarts' = restarts + 1
  /\ \E role \in Roles : Reboot(role)

(***************************************************************************)
(* External: what provisioners do to the stack, and what it posts to Btc   *)
(***************************************************************************)
Change(e) ==
  /\ mesh = "up" /\ sku = "node" /\ ~erased
  /\ changes < MaxChanges /\ changes' = changes + 1
  /\ Len(events) < MaxEvents /\ events' = Append(events, e)
  /\ UNCHANGED <<boot, cfg, erased, ram, tasks, pending, requests, restarts, hist>>

\* What the bridge is not told, or does not listen to.
ChangeUntold ==
  /\ mesh = "up" /\ sku = "node" /\ ~erased /\ core.id # NoId
  /\ changes < MaxChanges /\ changes' = changes + 1
  /\ UNCHANGED <<boot, cfg, erased, ram, events, tasks, pending, requests, restarts, keyCut, idCut>>

Join ==
  \E id \in Identities :
    /\ core.id = NoId /\ core.adv
    /\ core' = [core EXCEPT !.id = id, !.adv = FALSE]
    /\ Change([op |-> "complete", id |-> id])

AddKey ==
  \E k \in Keys \ core.keys :
    /\ core.id # NoId
    /\ core' = [core EXCEPT !.keys = @ \cup {k}]
    /\ Change([op |-> "add", key |-> k])

BindKey ==
  \E k \in core.keys \ core.bound :
    /\ core' = [core EXCEPT !.bound = @ \cup {k}]
    /\ Change([op |-> "bind", key |-> k])

DeleteKey ==
  \E k \in core.keys :
    /\ core' = [core EXCEPT !.keys = @ \ {k}, !.bound = @ \ {k}]
    /\ Change([op |-> "delete", key |-> k])

Left == [Fresh EXCEPT !.role = core.role]

ResetByProvisioner ==
  /\ core.id # NoId
  /\ core' = Left
  /\ Change([op |-> "reset"])

\* NetKey Delete: the AppKeys bound to it go as well.
DeleteNetKey ==
  \E gone \in SUBSET core.keys \ {{}} :
    /\ core' = [core EXCEPT !.keys = @ \ gone, !.bound = @ \ gone]
    /\ netCut' = TRUE /\ UNCHANGED apart
    /\ ChangeUntold

\* Config Model Subscription Add and Delete.
ChangeSubscription ==
  \E g \in Groups :
    /\ core' \in {[core EXCEPT !.subs = @ \ {g}]} \cup Subscribed(core, {g}, core.id.addr)
    /\ apart' = apart \cup {g} /\ UNCHANGED netCut
    /\ ChangeUntold

(***************************************************************************)
(* Task Btc: the handlers of the stack's events                            *)
(***************************************************************************)
Handle(op) == btc = Idle /\ events # <<>> /\ Head(events).op = op /\ events' = Tail(events)

Valid(key) == IF key \in core.keys THEN key ELSE Unused

\* The saved key, if it is still one of the stack's.
KeyToUse == Valid(cfg.app)

\* ESP_BLE_MESH_NODE_PROV_COMPLETE_EVT: the key and the groups are read ...
Complete ==
  /\ Handle("complete")
  /\ netIdx' = Head(events).id.net
  /\ \E c \in Loaded :
       /\ appIdx' = Valid(c.app) /\ keyCut' = (keyCut \/ c.app # cfg.app)
       /\ btc' = [pc |-> "identify", id |-> Head(events).id, groups |-> InList(c)]
  /\ UNCHANGED <<boot, cfg, core, erased, local, http, pending, bounds, apart, netCut, idCut>>

\* ... the identity is saved, or not quite ...
Identify ==
  /\ btc.pc = "identify" /\ btc' = [btc EXCEPT !.pc = "subscribe"]
  /\ SaveSome([cfg EXCEPT !.addr = btc.id.addr, !.net = btc.id.net], <<"addr", "net">>)
  /\ idCut' = (idCut \/ erased)
  /\ UNCHANGED <<boot, core, erased, ram, events, http, pending, bounds, apart, keyCut, netCut>>

\* ... and the groups read are subscribed.
SubscribeAll ==
  /\ btc.pc = "subscribe" /\ btc' = Idle
  /\ local' = btc.id.addr
  /\ core' \in Subscribed(core, btc.groups, btc.id.addr)
  /\ apart' = apart \cup (btc.groups \ InList(Load)) \cup (InList(Load) \ (btc.groups \cup core.subs))
                    \cup (btc.groups \ ({NoGroup} \cup core'.subs))
  /\ UNCHANGED <<boot, cfg, erased, netIdx, appIdx, events, http, pending, bounds,
                 keyCut, netCut, idCut>>

\* The key to send with is k from now on; whether it is saved is not looked at.
UseKey(k) ==
  /\ appIdx' = k
  /\ \/ cfg' = [cfg EXCEPT !.app = k] /\ keyCut' = FALSE
     \/ SaveSome([cfg EXCEPT !.app = k], <<"app">>) /\ keyCut' = TRUE
  /\ idCut' = (idCut \/ erased)

KeepKey == UNCHANGED <<appIdx, cfg, keyCut, idCut>>

KeyAdded ==
  /\ Handle("add")
  /\ IF appIdx = Unused THEN UseKey(Head(events).key) ELSE KeepKey
  /\ UNCHANGED <<boot, core, erased, local, netIdx, btc, http, pending, bounds, apart, netCut>>

\* A key bound to one of the bridge's models is the one to use.
KeyBound ==
  /\ Handle("bind")
  /\ IF appIdx # Head(events).key THEN UseKey(Head(events).key) ELSE KeepKey
  /\ UNCHANGED <<boot, core, erased, local, netIdx, btc, http, pending, bounds, apart, netCut>>

\* Keeps a key the provisioner took back.
KeyKept ==
  /\ Handle("delete") /\ KeepKey
  /\ UNCHANGED <<boot, core, erased, local, netIdx, btc, http, pending, bounds, apart, netCut>>

KeyDeleted ==
  /\ Handle("delete")
  /\ IF appIdx = Head(events).key THEN UseKey(Unused) ELSE KeepKey
  /\ UNCHANGED <<boot, core, erased, local, netIdx, btc, http, pending, bounds, apart, netCut>>

\* ESP_BLE_MESH_NODE_PROV_RESET_EVT: the identity is dropped from flash ...
Reset ==
  /\ Handle("reset") /\ btc' = [pc |-> "forget"]
  /\ \E c \in Loaded :
       /\ apart' = apart \cup Misread(c)
       /\ \/ SaveAll(NoIdentity(c), SaveOrder) /\ idCut' = FALSE /\ keyCut' = FALSE
          \/ SaveSome(NoIdentity(c), SaveOrder) /\ idCut' = TRUE /\ UNCHANGED keyCut
  /\ UNCHANGED <<boot, core, erased, ram, http, pending, bounds, netCut>>

\* Keeps the key.
ForgetAddress ==
  /\ btc.pc = "forget" /\ btc' = Idle
  /\ local' = 0 /\ netIdx' = Unused
  /\ core' = [core EXCEPT !.adv = core.id = NoId]
  /\ UNCHANGED <<boot, cfg, erased, appIdx, events, http, pending, bounds, hist>>

\* ... and from memory, and the bridge may be found again (its external nodes: ExternalNodes).
Forget ==
  /\ btc.pc = "forget" /\ btc' = Idle
  /\ local' = 0 /\ netIdx' = Unused /\ appIdx' = Unused
  /\ core' = [core EXCEPT !.adv = core.id = NoId]
  /\ UNCHANGED <<boot, cfg, erased, events, http, pending, bounds, hist>>

(***************************************************************************)
(* Task Http: the mesh settings page, the setup wizard, the console        *)
(***************************************************************************)
Request(page) ==
  /\ where \in page /\ http = Idle
  /\ requests < MaxRequests /\ requests' = requests + 1

\* The running bridge uses a key that is no longer the saved one.
KeyOverwritten == mesh = "up" /\ cfg'.app # cfg.app

\* mesh_settings_set_handler: the list first ...
AddGroup(g) ==
  /\ Request({"up"})
  /\ \E c \in Loaded :
       \/ /\ g \in InList(c)
          /\ http' = [pc |-> "subscribe", g |-> g] /\ UNCHANGED <<cfg, apart>>
       \/ /\ g \notin InList(c) /\ c.count < MaxGroups
          /\ SaveAll(With(c, g), SaveOrder)
          /\ http' = [pc |-> "subscribe", g |-> g] /\ apart' = apart \cup Misread(c)
       \/ /\ g \notin InList(c) /\ c.count < MaxGroups
          /\ SaveSome(With(c, g), SaveOrder)
          /\ apart' = apart \cup {g} \cup Misread(c) /\ UNCHANGED http
  /\ keyCut' = (keyCut \/ KeyOverwritten)
  /\ UNCHANGED <<boot, core, erased, ram, events, btc, pending, changes, restarts,
                 netCut, idCut>>

\* ... then the subscription.
AddedGroup ==
  /\ http.pc = "subscribe" /\ http' = Idle
  /\ core' \in Subscribed(core, {http.g}, local)
  /\ LET heard == http.g \in core'.subs
         listed == http.g \in InList(Load)
         reached == core.id # NoId /\ local = core.id.addr
     IN apart' = IF heard /\ listed THEN apart \ {http.g}
                 ELSE IF heard \/ reached THEN apart \cup {http.g} ELSE apart
  /\ UNCHANGED <<boot, cfg, erased, ram, events, btc, pending, bounds, keyCut, netCut, idCut>>

\* mesh_settings_remove_handler, which goes on as well when the group is not in the list.
RemoveGroup(g) ==
  /\ Request({"up"})
  /\ \E c \in Loaded :
       \/ /\ g \notin InList(c)
          /\ http' = [pc |-> "unsubscribe", g |-> g] /\ UNCHANGED <<cfg, apart>>
       \/ /\ g \in InList(c)
          /\ SaveAll(Without(c, g), SaveOrder)
          /\ http' = [pc |-> "unsubscribe", g |-> g] /\ apart' = apart \cup Misread(c)
       \/ /\ g \in InList(c)
          /\ SaveSome(Without(c, g), SaveOrder)
          /\ apart' = apart \cup {g, NoGroup} \cup Misread(c) /\ UNCHANGED http
  /\ keyCut' = (keyCut \/ KeyOverwritten)
  /\ UNCHANGED <<boot, core, erased, ram, events, btc, pending, changes, restarts,
                 netCut, idCut>>

RemovedGroup ==
  /\ http.pc = "unsubscribe" /\ http' = Idle
  /\ core' = Unsubscribed(core, http.g, local)
  /\ apart' = IF http.g \in core'.subs \cup InList(Load) THEN apart \cup {http.g}
              ELSE apart \ {http.g}
  /\ UNCHANGED <<boot, cfg, erased, ram, events, btc, pending, bounds, keyCut, netCut, idCut>>

\* mesh_leave_handler: what a provisioner's reset does, done by the stack itself.
Leave ==
  /\ Request({"up"}) /\ local # 0
  /\ IF mesh = "up" /\ sku = "node" /\ core.id # NoId
     THEN /\ Len(events) < MaxEvents
          /\ core' = Left /\ events' = Append(events, [op |-> "reset"])
     ELSE UNCHANGED <<core, events>>
  /\ UNCHANGED <<boot, cfg, erased, ram, tasks, pending, changes, restarts, hist>>

\* mesh_config_reset_stack_state, which may fail: a running stack goes on until the restart.
EraseStack ==
  \/ mesh = "up" /\ erased' = TRUE /\ UNCHANGED core
  \/ mesh # "up" /\ core' = Fresh /\ UNCHANGED erased

\* mesh_config_handler: the firmware's own mode is saved, and the identity dropped with
\* another one; then the stack's state is erased, or not: its result is not looked at.
ChooseMode ==
  /\ Request({"portal", "up"})
  /\ \E c \in Loaded :
       LET changed == c.mode # Mode(sku)
           new == [IF changed THEN NoIdentity(c) ELSE c EXCEPT !.mode = Mode(sku)]
       IN /\ apart' = apart \cup Misread(c)
          /\ \/ /\ SaveAll(new, SaveOrder) /\ UNCHANGED idCut
                /\ http' = IF changed THEN [pc |-> "erase"] ELSE Idle
             \/ /\ SaveSome(new, SaveOrder) /\ UNCHANGED http
                /\ idCut' = (idCut \/ changed)
  /\ keyCut' = (keyCut \/ KeyOverwritten)
  /\ UNCHANGED <<boot, core, erased, ram, events, btc, pending, changes, restarts, netCut>>

ModeChosen ==
  /\ http.pc = "erase" /\ http' = Idle
  /\ \/ EraseStack /\ idCut' = (idCut \/ cfg.addr # 0 \/ cfg.app # Unused)
     \/ UNCHANGED <<core, erased, idCut>>
  /\ UNCHANGED <<boot, cfg, ram, events, btc, pending, bounds, apart, keyCut, netCut>>

\* wifi_set saves a node's mode, erases nothing, and restarts.
WifiSet ==
  /\ Request({"portal", "up"})
  /\ http' = [pc |-> "restart"]
  /\ IF sku = "node"
     THEN \E c \in Loaded : /\ SaveSome([c EXCEPT !.mode = Mode(sku)], SaveOrder)
                            /\ apart' = apart \cup Misread(c)
     ELSE UNCHANGED <<cfg, apart>>
  /\ UNCHANGED <<boot, core, erased, ram, events, btc, pending, changes, restarts,
                 keyCut, netCut, idCut>>

\* mesh_reset_role_handler: the stack's state, then the identity, then a restart.
ResetRole ==
  /\ Request({"up"})
  /\ EraseStack /\ http' = [pc |-> "clear"]
  /\ UNCHANGED <<boot, cfg, ram, events, btc, pending, changes, restarts, hist>>

ClearIdentity ==
  /\ http.pc = "clear" /\ http' = [pc |-> "restart"]
  /\ \E c \in Loaded :
       /\ apart' = apart \cup Misread(c)
       /\ \/ SaveAll(NoIdentity(c), SaveOrder) /\ UNCHANGED idCut
          \/ SaveSome(NoIdentity(c), SaveOrder) /\ idCut' = TRUE
  /\ UNCHANGED <<boot, core, erased, ram, events, btc, pending, bounds, keyCut, netCut>>

\* Also the end of the setup wizard.
Restart ==
  /\ http.pc = "restart" \/ (where = "portal" /\ http = Idle)
  /\ Reboot(sku)
  /\ UNCHANGED restarts

(***************************************************************************)
(* Looking for the nodes of the mesh (what is done with their answers, and *)
(* the queue: ExternalNodes, ExternalNodeQueue)                            *)
(***************************************************************************)
Enqueue ==
  /\ \E c \in Loaded : pending' = pending \cup InList(c)
  /\ UNCHANGED <<boot, cfg, core, erased, ram, events, tasks, changes, restarts, hist>>

\* mesh_external_discover_handler: refused only without groups.
Discover == Request({"up"}) /\ Enqueue

\* external_discovery_timer_cb, of both timers: they exist once a node was enabled.
TimerFires ==
  /\ mesh = "up" /\ sku = "node"
  /\ local # 0 /\ appIdx # Unused
  /\ Enqueue /\ UNCHANGED requests

\* send_group_get, with the indices of the moment.
Probe(g) ==
  /\ g \in pending /\ pending' = pending \ {g}
  /\ UNCHANGED <<boot, cfg, core, erased, ram, events, tasks, bounds, hist>>

(***************************************************************************)
(* Specification                                                           *)
(***************************************************************************)
BootStep == BootToMesh \/ Fallback \/ EnableNode \/ EnableProvisioner \/ EnableNothing
Provisioner ==
  Join \/ AddKey \/ BindKey \/ DeleteKey \/ DeleteNetKey \/ ChangeSubscription \/ ResetByProvisioner
Btc == Complete \/ Identify \/ SubscribeAll \/ KeyAdded \/ KeyBound \/ KeyDeleted \/ Reset \/ Forget
HttpStep == AddedGroup \/ RemovedGroup \/ ModeChosen \/ ClearIdentity \/ Restart
Requested ==
  \/ \E g \in Groups : AddGroup(g) \/ RemoveGroup(g)
  \/ Leave \/ ChooseMode \/ WifiSet \/ ResetRole \/ Discover

Next ==
  \/ BootToPortal \/ BootStep \/ PowerFails \/ Provisioner \/ Btc \/ HttpStep \/ Requested
  \/ TimerFires \/ \E g \in Groups \cup {NoGroup} : Probe(g)

Spec == Init /\ [][Next]_vars

(***************************************************************************)
(* Properties                                                              *)
(***************************************************************************)
\* The type invariant.
TypeOK ==
  /\ sku \in Roles /\ where \in {"boot", "fallback", "again", "portal", "up"}
  /\ mesh \in {"off", "up", "down"}
  /\ cfg \in [mode : {Missing, "existing", "standalone"}, list : [1 .. MaxGroups -> Groups \cup {NoGroup}],
              count : {Missing} \cup 0 .. MaxGroups, legacy : Groups \cup {NoGroup},
              addr : {0} \cup {id.addr : id \in Identities}, net : {0} \cup {id.net : id \in Identities},
              app : Keys \cup {Unused}]
  /\ core.subs \subseteq Groups /\ core.bound \subseteq core.keys
  /\ pending \subseteq Groups \cup {NoGroup} /\ apart \subseteq Groups \cup {NoGroup}

Joined == mesh = "up" /\ sku = "node" /\ core.id # NoId /\ ~erased

\* Once everything was handled, a bridge in a mesh sends with one of the stack's keys or with
\* none, unless a NetKey was deleted since it started, of which it takes no notice; and it
\* would after a restart send with the same, unless a change of key could not be saved, or the
\* saved one was not read (ble_mesh_config_server_cb, the PROV_COMPLETE handler).
KeyInUse ==
  Settled /\ Joined /\ ~netCut =>
    appIdx \in core.keys \cup {Unused} /\ (keyCut \/ KeyToUse = appIdx)

\* Once everything was handled, a bridge in a mesh hears the groups its settings list and no
\* other, and lists no address 0, except where a change was cut off or overtaken, a list was
\* not read and then saved, or a provisioner subscribed the bridge or unsubscribed it, which
\* changes no list (mesh_config.cpp, the group handlers, the PROV_COMPLETE handler).
SubscribedAsListed ==
  Settled /\ Joined =>
    \A g \in (Groups \cup {NoGroup}) \ apart : g \in core.subs <=> g \in InList(Load)

\* Once everything was handled, a bridge that left its mesh keeps no identity, neither in
\* memory nor in flash, unless its saving was cut off (the PROV_RESET handler).
LeftClean ==
  Settled /\ mesh = "up" /\ sku = "node" /\ core.id = NoId /\ ~idCut =>
    /\ local = 0 /\ appIdx = Unused
    /\ cfg.addr = 0 /\ cfg.app = Unused

=============================================================================
