---------------------------- MODULE BridgeEntities ----------------------------
(***************************************************************************)
(* The bridge's own entities in Home Assistant, Standalone edition: two    *)
(* switches (provisioning and auto-provisioning), a restart button and     *)
(* four sensors, their availability, and who sets and publishes what       *)
(* (mqtt/mqtt_bridge.cpp and the switches of ble_mesh_control.cpp).        *)
(*                                                                         *)
(* A task has a program, `todo[t]': what is left of the function it is in, *)
(* step by step.  MqttLink has the client, its connection and the timer of *)
(* the rounds in detail; here a connection is up or down.                  *)
(***************************************************************************)
EXTENDS Integers, Sequences, FiniteSets

CONSTANTS
  Budgets          \* bounds: what may happen, and how often, in one behaviour

\* "switches": somebody sets one; "outages": connections lost, restarts of the bridge or of
\* Home Assistant; "cold": the behaviour begins with the bridge booting.
Bounds == {"switches", "outages", "cold", "nodes", "requests", "losses"}
ASSUME BridgeAssumption == Budgets \subseteq [Bounds -> Nat]

Switches == {"provisioning", "auto"}
Tasks == {"mqtt", "timer", "http", "console"}
Rounds == 3

VARIABLES
  enabled,     \* enable_provisioning, enable_auto_provisioning
  stackOn,     \* the stack provisions
  todo,        \* per task
  value,       \* per task: the flag it is about to publish
  conn,        \* "down", "up" or, once the command topics are subscribed to, "heard"
  will,        \* the broker waits before it publishes the last will
  retained,    \* the broker's retained availability
  left,        \* rounds left since Home Assistant was heard to restart
  ha,          \* Home Assistant: entities it was told of, topics it listens to, what it heard
  birth,       \* its "online" is on its way
  held,        \* history: rounds made in full since it restarted, over one connection
  doubt,       \* history: switches two tasks were busy with at once, or of which nobody heard,
               \* since one was last published in peace; "stack": so was the stack, or it refused
  budget       \* bounds: what is left

bridgevars == <<enabled, stackOn, todo, value, conn, will, retained, left, ha, birth, held, doubt, budget>>
flagvars == <<enabled, stackOn, value>>
linkvars == <<conn, will, retained, left, birth>>

-----------------------------------------------------------------------------
(* What is announced *)

SwitchEntity(s) == [state |-> s, command |-> s]
RestartButton == [state |-> "none", command |-> "restart"]
Sensor == [state |-> "info", command |-> "none"]
Entities == {SwitchEntity(s) : s \in Switches} \union {RestartButton, Sensor}
Topics == ({e.state : e \in Entities} \ {"none"}) \union {"availability"}

Unheard == [t \in Topics |-> "unknown"]
OnOff(b) == IF b THEN "ON" ELSE "OFF"

Busy(t) == todo[t] # <<>>
Connected == conn # "down"
Publishing(s) == [op |-> "read", of |-> s]
Sending(s) == [op |-> "send", of |-> s]
Do(op) == [op |-> op, of |-> "none"]
Publish(s) == <<Publishing(s), Sending(s)>>

\* MQTT_EVENT_CONNECTED: mqtt_bridge_subscribe, send_bridge_discovery, and "on"
OnConnected == <<Do("announce")>> \o Publish("provisioning") \o Publish("auto") \o <<Do("on")>>

\* Mutant: a round leaves the availability to the retained message.
RoundWithoutOn == <<Do("announce")>> \o Publish("provisioning") \o Publish("auto") \o <<Do("nodes")>>

\* on_home_assistant_restart_timer
OnRound == OnConnected \o <<Do("nodes")>>

-----------------------------------------------------------------------------
(* Publishing *)

\* A publication, not retained, reaches whoever listens.
Deliver(topic, m) ==
  ha' = IF Connected /\ topic \in ha.hears THEN [ha EXCEPT !.last[topic] = m] ELSE ha

Pop(t) == todo' = [todo EXCEPT ![t] = Tail(@)]
Next1(t, op) == Busy(t) /\ Head(todo[t]).op = op /\ Pop(t)
Of(t) == Head(todo[t]).of

\* Another task has yet to act on what it read of the switch.
Raced(t, s) == \E u \in Tasks \ {t} : Busy(u) /\ Head(todo[u]).of = s /\ Head(todo[u]).op \in {"send", "stack"}

\* Nobody hears what is published of it.
Lost(s) == ~Connected \/ s \notin ha.hears

\* The command topics are subscribed to, and Home Assistant takes note of the entities.
Announce(t) ==
  /\ Next1(t, "announce")
  /\ IF Connected THEN conn' = "heard" /\ ha' = [ha EXCEPT !.known = Entities] ELSE UNCHANGED <<conn, ha>>
  /\ UNCHANGED <<flagvars, will, retained, left, birth, held, doubt, budget>>

\* start_periodic_publish_timer, periodic_publish_callback: publish_bridge_info.
InfoTimer ==
  /\ Connected /\ ~Busy("timer") /\ ha.last["info"] # "known"
  /\ Deliver("info", "known")
  /\ UNCHANGED <<flagvars, linkvars, todo, held, doubt, budget>>

PublishOn(t) ==
  /\ Next1(t, "on")
  /\ Deliver("availability", "on")
  /\ UNCHANGED <<flagvars, linkvars, held, doubt, budget>>

\* The flag is read when the argument of mqtt_publish_..._enabled is evaluated, or a branch
\* of the setter chosen, ...
ReadFlag(t) ==
  /\ Next1(t, "read")
  /\ value' = [value EXCEPT ![t] = enabled[Of(t)]]
  /\ doubt' = IF Raced(t, Of(t)) THEN doubt \union {Of(t)} ELSE doubt \ {Of(t)}
  /\ UNCHANGED <<enabled, stackOn, linkvars, ha, held, budget>>

\* ... and sent a little later.
SendFlag(t) ==
  /\ Next1(t, "send")
  /\ Deliver(Of(t), OnOff(value[t]))
  /\ value' = [value EXCEPT ![t] = FALSE]
  /\ doubt' = IF Raced(t, Of(t)) \/ Lost(Of(t)) THEN doubt \union {Of(t)} ELSE doubt
  /\ UNCHANGED <<enabled, stackOn, linkvars, held, budget>>

-----------------------------------------------------------------------------
(* The switches *)

Spend(what) == budget[what] > 0 /\ budget' = [budget EXCEPT ![what] = @ - 1]

\* Mutant: the change is not published.
SetQuietly(t, s, b) == <<>>

\* What is left to do once the flag is set.
AfterSet(t, s, b) ==
  (IF s = "provisioning" THEN <<Publishing(s), [op |-> "stack", of |-> s]>> ELSE <<>>) \o Publish(s)

\* ble_mesh_set_provisioning_enabled, ble_mesh_set_auto_provisioning_enabled
SetEnabled(t, s, b) ==
  /\ ~Busy(t) /\ Spend("switches")
  /\ IF enabled[s] = b THEN UNCHANGED <<enabled, todo, doubt>>
     ELSE /\ enabled' = [enabled EXCEPT ![s] = b]
          /\ todo' = [todo EXCEPT ![t] = AfterSet(t, s, b)]
          /\ doubt' = IF Raced(t, s) THEN doubt \union {s, "stack"} ELSE doubt
  /\ UNCHANGED <<stackOn, value, linkvars, ha, held>>

\* A command from Home Assistant (mqtt_parse_event_data), the page, the console.
HaSets(s, b) == conn = "heard" /\ [state |-> s, command |-> s] \in ha.known /\ SetEnabled("mqtt", s, b)
PageSets(b) == SetEnabled("http", "auto", b)
ConsoleSets(b) == SetEnabled("console", "provisioning", b)

\* esp_ble_mesh_provisioner_prov_enable or _disable; a refusal is only logged.
TellStack(t) ==
  /\ Next1(t, "stack")
  /\ \/ /\ stackOn' = value[t]
        /\ doubt' = IF Raced(t, Of(t)) \/ value[t] # enabled[Of(t)] THEN doubt \union {Of(t), "stack"}
                    ELSE doubt \ {"stack"}
     \/ stackOn' = stackOn /\ doubt' = doubt \union {"stack"}
  /\ UNCHANGED <<enabled, value, linkvars, ha, held, budget>>

-----------------------------------------------------------------------------
(* The connection, the broker and Home Assistant *)

\* A round that has begun does not count.
Unfinished == IF Busy("timer") THEN -1 ELSE 0

\* MQTT_EVENT_CONNECTED.  A will not yet published may still be.
Connects ==
  /\ ~Connected /\ ~Busy("mqtt")
  /\ conn' = "up"
  /\ will' = FALSE
  /\ \/ UNCHANGED <<retained, ha>>
     \/ /\ will /\ retained' = "offline"
        /\ ha' = IF "availability" \in ha.hears THEN [ha EXCEPT !.last["availability"] = "offline"] ELSE ha
  /\ todo' = [todo EXCEPT !["mqtt"] = OnConnected]
  /\ UNCHANGED <<flagvars, left, birth, held, doubt, budget>>

\* The link is lost: the will follows.  A client that is stopped says good-bye: none follows.
Disconnects ==
  /\ Connected /\ Spend("outages")
  /\ conn' = "down"
  /\ will' \in BOOLEAN
  /\ held' = Unfinished
  /\ UNCHANGED <<flagvars, todo, retained, left, ha, birth, doubt>>

LastWill ==
  /\ will /\ ~Connected
  /\ will' = FALSE /\ retained' = "offline"
  /\ ha' = IF "availability" \in ha.hears THEN [ha EXCEPT !.last["availability"] = "offline"] ELSE ha
  /\ UNCHANGED <<flagvars, todo, conn, left, birth, held, doubt, budget>>

\* The restart button, or the power: the flags are as compiled in.
BridgeRestarts ==
  /\ Spend("outages")
  /\ enabled' = [s \in Switches |-> s = "provisioning"] /\ stackOn' = TRUE
  /\ todo' = [t \in Tasks |-> <<>>] /\ value' = [t \in Tasks |-> FALSE]
  /\ conn' = "down" /\ will' = (will \/ Connected) /\ left' = 0 /\ held' = 0
  /\ doubt' = Switches
  /\ UNCHANGED <<retained, ha, birth>>

\* Home Assistant restarts and has lost what was not retained.
HaRestarts ==
  /\ Spend("outages")
  /\ ha' = [known |-> {}, hears |-> {}, last |-> Unheard]
  /\ birth' = TRUE /\ held' = Unfinished /\ doubt' = doubt \union Switches
  /\ UNCHANGED <<flagvars, conn, will, retained, left, todo>>

\* It subscribes to the topics of the entities it knows; the broker has only the will.
HaSubscribes ==
  /\ ha.known # {} /\ ha.hears = {}
  /\ ha' = [ha EXCEPT !.hears = Topics,
                      !.last["availability"] = IF retained = "none" THEN @ ELSE retained]
  /\ UNCHANGED <<flagvars, linkvars, todo, held, doubt, budget>>

\* mqtt_parse_event_data: "online" on homeassistant/status, if anybody listens.
HaOnline ==
  /\ birth /\ birth' = FALSE
  /\ IF conn = "heard" THEN ~Busy("mqtt") /\ left' = Rounds ELSE UNCHANGED left
  /\ UNCHANGED <<flagvars, todo, conn, will, retained, ha, held, doubt, budget>>

\* on_home_assistant_restart_timer.  A minute is enough for Home Assistant to subscribe.
Round ==
  /\ left > 0 /\ Connected /\ ~Busy("timer") /\ ~birth
  /\ ha.known # {} => ha.hears # {}
  /\ left' = left - 1
  /\ todo' = [todo EXCEPT !["timer"] = OnRound]
  /\ UNCHANGED <<flagvars, conn, will, retained, ha, birth, held, doubt, budget>>

-----------------------------------------------------------------------------
\* The bridge boots, or it has been up and announced for a while.
Cold == conn = "down" /\ retained \in {"none", "offline"} /\ doubt = Switches
        /\ ha = [known |-> {}, hears |-> {}, last |-> Unheard]
Settled == conn = "heard" /\ retained = "offline" /\ doubt = {}
           /\ ha = [known |-> Entities, hears |-> Topics,
                    last |-> [t \in Topics |-> CASE t \in Switches -> OnOff(enabled[t])
                                                 [] t = "info" -> "known" [] OTHER -> "on"]]
BridgeInit ==
  /\ budget \in Budgets
  /\ enabled = [s \in Switches |-> s = "provisioning"] /\ stackOn = TRUE
  /\ todo = [t \in Tasks |-> <<>>] /\ value = [t \in Tasks |-> FALSE]
  /\ IF budget["cold"] > 0 THEN Cold ELSE Settled
  /\ will = FALSE /\ left = 0 /\ birth = FALSE /\ held = 0

BridgeStep(t) == Announce(t) \/ PublishOn(t) \/ ReadFlag(t) \/ SendFlag(t) \/ TellStack(t)

\* Steps that concern no node.
BridgeNext ==
  \/ \E t \in Tasks : BridgeStep(t)
  \/ \E s \in Switches, b \in BOOLEAN : HaSets(s, b)
  \/ \E b \in BOOLEAN : PageSets(b) \/ ConsoleSets(b)
  \/ Connects \/ Disconnects \/ LastWill \/ HaSubscribes \/ HaOnline \/ Round \/ InfoTimer

Quiet == \A t \in Tasks : ~Busy(t)

\* What Home Assistant shows of a switch is what it is set to, and the stack does as the
\* provisioning switch says, once nobody is at work on it: whoever set it, through restarts
\* and lost connections, and unless two tasks overlapped or nobody listened.
SwitchesAgree ==
  Quiet => /\ \A s \in Switches \ doubt : ha.last[s] = OnOff(enabled[s])
           /\ "stack" \in doubt \/ stackOn = enabled["provisioning"]

\* The will is retained and "on" is not, so Home Assistant may be told "offline" just after it
\* was told "on"; two rounds after its restart it has the bridge for what it is.
AvailableAfterTwoRounds == held >= 2 /\ Connected => ha.last["availability"] = "on"
=============================================================================
