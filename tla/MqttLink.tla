------------------------------- MODULE MqttLink -------------------------------
(***************************************************************************)
(* The bridge's connection to its broker: the credentials in NVS, the      *)
(* client that runs with them, and the rounds in which everything is       *)
(* announced again when Home Assistant restarts.                           *)
(*                                                                         *)
(* Tasks: the web server's (http) saves and clears credentials and starts  *)
(* and stops the client, app_main (main) starts it at boot, each client's  *)
(* own task handles its events holding that client's lock (external), and  *)
(* the timer task repeats announcements.  A call on a client from another  *)
(* task waits for the client's lock, for_each_node and get_node wait for   *)
(* the node table's mutex.                                                 *)
(***************************************************************************)
EXTENDS Naturals, Integers, FiniteSets

CONSTANTS
  Nodes,         \* provisioned nodes
  Losses,        \* the sets of keys the flash may refuse to read or to erase at once
  Clients,       \* numbers of the clients that may exist at once
  Timers,        \* numbers of the restart timers that may exist at once
  MaxRequests,   \* bound: credentials saved or cleared on the web page
  MaxEvents,     \* bound: connections made, restarts of Home Assistant, commands, and
                 \* nodes coming and going, together
  MaxRestarts,   \* bound: restarts of the bridge
  MaxRounds      \* bound: rounds counted of a timer nobody stops

Nobody == 0      \* nullptr

ASSUME MqttAssumption ==
  /\ Nobody \notin Clients /\ Nobody \notin Timers
  /\ IsFiniteSet(Clients) /\ IsFiniteSet(Timers)
  /\ {MaxRequests, MaxEvents, MaxRestarts, MaxRounds} \subseteq Nat

VARIABLES
  stored,      \* flash: which save each key holds
  creds,       \* credentials_: the same, in memory
  state,       \* connection_state_
  client,      \* mqtt_client
  run,         \* each client: "none", "down" or "up"
  with,        \* the settings each client was made with
  subs,        \* the nodes each client's connection is subscribed to
  unsubscribed,  \* an UNSUBSCRIBED event is on its way to the client's task
  hdl,         \* what each client's task is in the middle of
  pc,          \* what http and main are in the middle of
  restart,     \* the client http stops is started again
  known,       \* tracked_nodes
  handle,      \* home_assistant_restart_timer
  armed,       \* the restart timers that exist
  tries,       \* num_try, a byte
  timer,       \* what the timer task is in the middle of
  rounds,      \* rounds since Home Assistant restarted
  asked,       \* a restart of Home Assistant was taken note of
  spent,       \* bounds
  excuses      \* history: what went wrong for a reason the properties name

clients == <<client, run, with, subs, unsubscribed, hdl>>
requests == <<pc, restart>>
roundvars == <<handle, armed, tries, timer, rounds, asked>>
mqttvars == <<stored, creds, state, clients, requests, known, roundvars, spent, excuses>>

-----------------------------------------------------------------------------
(* Credentials *)

Keys == {"broker_host", "broker_port", "username", "password"}
Missing == 0
Plain == -1      \* written by firmware that did not encrypt
Whole(v) == [k \in Keys |-> v]
Nothing == Whole(Missing)
Earlier == MaxRequests + 1   \* saved before the restarts that are looked at

\* The order in which save_credentials writes; the port is written with the TLS flag.
After == [broker_host |-> "broker_port", broker_port |-> "username",
          username |-> "password", password |-> "stop"]

\* "ERROR" stands for the three kinds of error.
States == {"UNCONFIGURED", "CONFIGURED", "CONNECTING", "CONNECTED", "DISCONNECTED", "ERROR"}

Encrypted == Keys \ {"broker_port"}
Loads(s) == \A k \in Encrypted : s[k] > 0

\* The keys that are read, or that are left by an erasure: the flash may refuse any of them.
Only(s, keys) == [k \in Keys |-> IF k \in keys THEN s[k] ELSE Missing]

Allow(what, max) == spent[what] < max /\ spent' = [spent EXCEPT ![what] = @ + 1]
Booting == pc["main"] # "done"
AtBoot == IF Booting THEN {"boot"} ELSE {}

\* POST /mqtt/config with credentials that pass validation.
Config ==
  /\ pc["http"] = "idle" /\ Allow("requests", MaxRequests)
  /\ pc' = [pc EXCEPT !["http"] = "broker_host"]
  /\ restart' = TRUE
  /\ excuses' = excuses \union AtBoot
  /\ UNCHANGED <<stored, creds, state, clients, known, roundvars>>

StoreKey ==
  /\ pc["http"] \in Keys
  /\ stored' = [stored EXCEPT ![pc["http"]] = spent["requests"]]
  /\ pc' = [pc EXCEPT !["http"] = After[pc["http"]]]
  /\ IF pc["http"] = "password"
       THEN creds' = Whole(spent["requests"]) /\ state' = "CONFIGURED" /\ excuses' = excuses \ {"torn", "flash"}
       ELSE UNCHANGED <<creds, state>> /\ excuses' = excuses \union {"torn"}
  /\ UNCHANGED <<clients, restart, known, roundvars, spent>>

\* The encryption or the flash refuses a key, or the flash its commit.
StoreFails ==
  /\ pc["http"] \in Keys
  /\ \/ UNCHANGED <<stored, excuses>>
     \/ /\ stored' = [stored EXCEPT ![pc["http"]] = spent["requests"]]
        /\ excuses' = excuses \union {"torn"}
  /\ pc' = [pc EXCEPT !["http"] = "idle"]
  /\ UNCHANGED <<creds, state, clients, restart, known, roundvars, spent>>

\* clear_credentials: no result of nvs_erase_key is looked at.
Erase ==
  /\ pc["http"] = "idle" /\ Allow("requests", MaxRequests)
  /\ creds' = Nothing /\ state' = "UNCONFIGURED"
  /\ \/ stored' = Nothing /\ excuses' = (excuses \ {"torn"}) \union AtBoot
     \/ \E left \in Losses :
          stored' = Only(stored, left) /\ excuses' = excuses \union {"flash"} \union AtBoot
  /\ UNCHANGED <<clients, known, roundvars>>

\* Mutant: the client is not stopped.
ClearOnly == Erase /\ UNCHANGED requests

\* POST /mqtt/clear
Clear ==
  /\ Erase
  /\ pc' = [pc EXCEPT !["http"] = "stop"]
  /\ restart' = FALSE

\* The flash cannot be opened or refuses the commit: an error is answered, and the client stays.
ClearFails ==
  /\ UNCHANGED requests
  /\ \/ Erase /\ "flash" \in excuses'
     \/ /\ pc["http"] = "idle" /\ Allow("requests", MaxRequests)
        /\ UNCHANGED <<stored, creds, state, clients, known, roundvars, excuses>>

-----------------------------------------------------------------------------
(* Starting and stopping the client *)

AfterStop == IF restart THEN "load" ELSE "idle"
Ended(t) == IF t = "http" THEN "idle" ELSE "done"

Stop ==
  /\ pc["http"] = "stop"
  /\ pc' = [pc EXCEPT !["http"] = IF client = Nobody THEN AfterStop ELSE "stopping"]
  /\ state' = IF client = Nobody THEN state ELSE "DISCONNECTED"
  /\ UNCHANGED <<stored, creds, clients, restart, known, roundvars, spent, excuses>>

\* esp_mqtt_client_stop waits for the client's task, destroy frees the client.
Destroy ==
  /\ pc["http"] = "stopping" /\ hdl[client] = "idle"
  /\ run' = [run EXCEPT ![client] = "none"]
  /\ subs' = [subs EXCEPT ![client] = {}]
  /\ unsubscribed' = unsubscribed \ {client}
  /\ pc' = [pc EXCEPT !["http"] = "forget"]
  /\ UNCHANGED <<stored, creds, state, client, with, hdl, restart, known, roundvars, spent, excuses>>

ForgetClient ==
  /\ pc["http"] = "forget"
  /\ client' = Nobody
  /\ pc' = [pc EXCEPT !["http"] = AfterStop]
  /\ UNCHANGED <<stored, creds, state, run, with, subs, unsubscribed, hdl, restart, known, roundvars, spent, excuses>>

\* A key that cannot be read is like one that is missing.  Plain text is cleared, as Erase does.
Load(t) ==
  /\ pc[t] = "load"
  /\ \E lost \in Losses : LET found == Only(stored, Keys \ lost) IN
       /\ IF Loads(found)
            THEN creds' = found /\ state' = "CONFIGURED" /\ pc' = [pc EXCEPT ![t] = "start"]
            ELSE creds' = Nothing /\ state' = "UNCONFIGURED" /\ pc' = [pc EXCEPT ![t] = Ended(t)]
       /\ IF found["broker_host"] = Plain
            THEN \E left \in Losses : stored' = Only(stored, left)
            ELSE stored' = stored
       /\ excuses' = IF found = stored THEN excuses ELSE excuses \union {"flash"}
  /\ UNCHANGED <<clients, restart, known, roundvars, spent>>

StartClient(t) ==
  /\ pc[t] = "start"
  /\ \E c \in {c \in Clients : run[c] = "none"} :
       /\ client' = c
       /\ run' = [run EXCEPT ![c] = "down"]
       /\ with' = [with EXCEPT ![c] = creds]
  /\ state' = "CONNECTING"
  /\ pc' = [pc EXCEPT ![t] = Ended(t)]
  /\ UNCHANGED <<stored, creds, subs, unsubscribed, hdl, restart, known, roundvars, spent, excuses>>

-----------------------------------------------------------------------------
(* The clients' own tasks.  A task that is not idle holds its client's lock. *)

Up == {c \in Clients : run[c] = "up"}
Free(c) == c \in {Nobody} \union {d \in Clients : hdl[d] = "idle"}
TimerHasTable == timer \in {"nodes", "again"}

\* MQTT_EVENT_CONNECTED
ClientConnected(c) ==
  /\ run[c] = "down" /\ hdl[c] = "idle" /\ Allow("events", MaxEvents)
  /\ run' = [run EXCEPT ![c] = "up"]
  /\ hdl' = [hdl EXCEPT ![c] = "nodes"]
  /\ state' = "CONNECTED"
  /\ UNCHANGED <<stored, creds, client, with, subs, unsubscribed, requests, known, roundvars, excuses>>

\* for_each_node in mqtt_subscribe_all_nodes needs the table's mutex.
SubscribeNodes(c) ==
  /\ hdl[c] = "nodes" /\ ~TimerHasTable
  /\ subs' = [subs EXCEPT ![c] = known]
  /\ hdl' = [hdl EXCEPT ![c] = "idle"]
  /\ UNCHANGED <<stored, creds, state, client, run, with, unsubscribed, requests, known, roundvars, spent, excuses>>

ConnectionLost(c) ==
  /\ run' = [run EXCEPT ![c] = "down"]
  /\ subs' = [subs EXCEPT ![c] = {}]
  /\ unsubscribed' = unsubscribed \ {c}
  /\ state' = "DISCONNECTED"

\* MQTT_EVENT_DISCONNECTED
Disconnected(c) ==
  /\ run[c] = "up" /\ hdl[c] = "idle"
  /\ ConnectionLost(c)
  /\ UNCHANGED <<stored, creds, client, with, hdl, requests, known, roundvars, spent, excuses>>

\* MQTT_EVENT_UNSUBSCRIBED, which ends the connection.
Unsubscribed(c) ==
  /\ c \in unsubscribed /\ run[c] = "up" /\ hdl[c] = "idle"
  /\ ConnectionLost(c)
  /\ UNCHANGED <<stored, creds, client, with, hdl, requests, known, roundvars, spent, excuses>>

\* MQTT_EVENT_ERROR
Error(c) ==
  /\ run[c] = "down" /\ hdl[c] = "idle"
  /\ state' = "ERROR"
  /\ UNCHANGED <<stored, creds, clients, requests, known, roundvars, spent, excuses>>

\* MQTT_EVENT_DATA for a node: get_node needs the table's mutex.
Command(c) ==
  /\ run[c] = "up" /\ hdl[c] = "idle" /\ Allow("events", MaxEvents)
  /\ hdl' = [hdl EXCEPT ![c] = "command"]
  /\ UNCHANGED <<stored, creds, state, client, run, with, subs, unsubscribed, requests, known, roundvars, excuses>>

FindNode(c) ==
  /\ hdl[c] = "command" /\ ~TimerHasTable
  /\ hdl' = [hdl EXCEPT ![c] = "idle"]
  /\ UNCHANGED <<stored, creds, state, client, run, with, subs, unsubscribed, requests, known, roundvars, spent, excuses>>

-----------------------------------------------------------------------------
(* Home Assistant restarts: three rounds, a minute apart *)

Bytes == 256
Tries == 3
Races == IF timer = "idle" THEN {} ELSE {"raced"}
HaSteps == {"drop", "null", "create"}

\* MQTT_EVENT_DATA: homeassistant/status says online.
Online(c) ==
  /\ run[c] = "up" /\ hdl[c] = "idle" /\ Allow("events", MaxEvents)
  /\ hdl' = [hdl EXCEPT ![c] = IF handle = Nobody THEN "create" ELSE "drop"]
  /\ excuses' = excuses \union Races
  /\ UNCHANGED <<stored, creds, state, client, run, with, subs, unsubscribed, requests, known, roundvars>>

DropTimer(c) ==
  /\ hdl[c] = "drop"
  /\ armed' = armed \ {handle}
  /\ hdl' = [hdl EXCEPT ![c] = "null"]
  /\ excuses' = excuses \union Races
  /\ UNCHANGED <<stored, creds, state, client, run, with, subs, unsubscribed, requests, known, handle, tries, timer, rounds, asked, spent>>

NullTimer(c) ==
  /\ hdl[c] = "null"
  /\ handle' = Nobody
  /\ hdl' = [hdl EXCEPT ![c] = "create"]
  /\ excuses' = excuses \union Races
  /\ UNCHANGED <<stored, creds, state, client, run, with, subs, unsubscribed, requests, known, armed, tries, timer, rounds, asked, spent>>

\* Mutant: the counter is not reset.
CreateWithoutReset(c) ==
  /\ hdl[c] = "create"
  /\ \/ \E t \in Timers \ armed :
          handle' = t /\ armed' = armed \union {t} /\ rounds' = 0 /\ asked' = TRUE
     \/ asked' = FALSE /\ UNCHANGED <<handle, armed, rounds>>
  /\ hdl' = [hdl EXCEPT ![c] = "idle"]
  /\ excuses' = excuses \union Races
  /\ UNCHANGED <<stored, creds, state, client, run, with, subs, unsubscribed, requests, known, tries, timer, spent>>

\* The counter is set after the timer was started, a minute before it fires.
CreateTimer(c) ==
  /\ hdl[c] = "create"
  /\ \/ \E t \in Timers \ armed :
          /\ handle' = t /\ armed' = armed \union {t}
          /\ tries' = Tries /\ rounds' = 0 /\ asked' = TRUE
     \/ asked' = FALSE /\ UNCHANGED <<handle, armed, tries, rounds>>
  /\ hdl' = [hdl EXCEPT ![c] = "idle"]
  /\ excuses' = excuses \union Races
  /\ UNCHANGED <<stored, creds, state, client, run, with, subs, unsubscribed, requests, known, timer, spent>>

\* Mutant: an unsigned counter is compared with zero the wrong way.
IfNegative == IF tries < 0 /\ handle # Nobody THEN "expire" ELSE "idle"

IfExpired == IF tries = 0 /\ handle # Nobody THEN "expire" ELSE "idle"

\* on_home_assistant_restart_timer
Fire ==
  /\ timer = "idle" /\ armed # {} /\ rounds < MaxRounds
  /\ IF state = "CONNECTED"
       THEN tries' = (tries + Bytes - 1) % Bytes /\ timer' = "nodes"
       ELSE timer' = IfExpired /\ UNCHANGED tries
  /\ excuses' = excuses \union (IF \E c \in Clients : hdl[c] \in HaSteps THEN {"raced"} ELSE {})
  /\ UNCHANGED <<stored, creds, state, clients, requests, known, handle, armed, rounds, asked, spent>>

\* Its two passes over the node table, each with the table's mutex, and the bridge's own topics.
Subscribe(next) ==
  /\ Free(client)
  /\ subs' = IF client \in Up THEN [subs EXCEPT ![client] = known] ELSE subs
  /\ timer' = next

FirstPass ==
  /\ timer = "nodes" /\ Subscribe("bridge")
  /\ UNCHANGED <<stored, creds, state, client, run, with, unsubscribed, hdl, requests, known, handle, armed, tries, rounds, asked, spent, excuses>>

AnnounceBridge ==
  /\ timer = "bridge" /\ Free(client)
  /\ rounds' = rounds + 1
  /\ timer' = "again"
  /\ UNCHANGED <<stored, creds, state, clients, requests, known, handle, armed, tries, asked, spent, excuses>>

SecondPass ==
  /\ timer = "again" /\ Subscribe(IfExpired)
  /\ UNCHANGED <<stored, creds, state, client, run, with, unsubscribed, hdl, requests, known, handle, armed, tries, rounds, asked, spent, excuses>>

Expire ==
  /\ timer = "expire"
  /\ armed' = armed \ {handle}
  /\ timer' = "null"
  /\ UNCHANGED <<stored, creds, state, clients, requests, known, handle, tries, rounds, asked, spent, excuses>>

Expired ==
  /\ timer = "null"
  /\ handle' = Nobody
  /\ timer' = "idle"
  /\ UNCHANGED <<stored, creds, state, clients, requests, known, armed, tries, rounds, asked, spent, excuses>>

-----------------------------------------------------------------------------
(* Nodes come and go, in the Bluetooth task *)

NodeReady(n) ==
  /\ n \notin known /\ Free(client) /\ ~TimerHasTable /\ Allow("events", MaxEvents)
  /\ known' = known \union {n}
  /\ subs' = IF client \in Up THEN [subs EXCEPT ![client] = @ \union {n}] ELSE subs
  /\ UNCHANGED <<stored, creds, state, client, run, with, unsubscribed, hdl, requests, roundvars, excuses>>

NodeLeft(n) ==
  /\ n \in known /\ Free(client) /\ ~TimerHasTable /\ Allow("events", MaxEvents)
  /\ known' = known \ {n}
  /\ IF client \in Up
       THEN subs' = [subs EXCEPT ![client] = @ \ {n}] /\ unsubscribed' = unsubscribed \union {client}
       ELSE UNCHANGED <<subs, unsubscribed>>
  /\ UNCHANGED <<stored, creds, state, client, run, with, hdl, requests, roundvars, excuses>>

-----------------------------------------------------------------------------
(* Restarts *)

Off(what) == [c \in Clients |-> what]

Reboot ==
  /\ Allow("restarts", MaxRestarts)
  /\ creds' = Nothing /\ state' = "UNCONFIGURED"
  /\ client' = Nobody /\ run' = Off("none") /\ with' = Off(Nothing) /\ subs' = Off({})
  /\ unsubscribed' = {} /\ hdl' = Off("idle")
  /\ pc' = [http |-> "idle", main |-> "load"] /\ restart' = FALSE
  /\ handle' = Nobody /\ armed' = {} /\ tries' = Tries /\ timer' = "idle" /\ rounds' = 0 /\ asked' = FALSE
  /\ excuses' = excuses \intersect {"torn"}
  /\ UNCHANGED <<stored, known>>

MqttInit ==
  /\ stored \in {Whole(v) : v \in {Missing, Plain, Earlier}}
  /\ creds = Nothing /\ state = "UNCONFIGURED"
  /\ client = Nobody /\ run = Off("none") /\ with = Off(Nothing) /\ subs = Off({})
  /\ unsubscribed = {} /\ hdl = Off("idle")
  /\ pc = [http |-> "idle", main |-> "load"] /\ restart = FALSE
  /\ known = Nodes
  /\ handle = Nobody /\ armed = {} /\ tries = Tries /\ timer = "idle" /\ rounds = 0 /\ asked = FALSE
  /\ spent = [b \in {"requests", "events", "restarts"} |-> 0]
  /\ excuses = {}

HttpStep == StoreKey \/ StoreFails \/ Stop \/ Destroy \/ ForgetClient \/ Load("http") \/ StartClient("http")
MainStep == Load("main") \/ StartClient("main")
HandlerStep(c) == SubscribeNodes(c) \/ FindNode(c) \/ DropTimer(c) \/ NullTimer(c) \/ CreateTimer(c)
TimerStep == Fire \/ FirstPass \/ AnnounceBridge \/ SecondPass \/ Expire \/ Expired
Event(c) == ClientConnected(c) \/ Disconnected(c) \/ Unsubscribed(c) \/ Error(c) \/ Command(c) \/ Online(c)

MqttNext ==
  \/ Config \/ Clear \/ ClearFails \/ HttpStep \/ MainStep
  \/ \E c \in Clients : HandlerStep(c) \/ Event(c)
  \/ TimerStep
  \/ \E n \in Nodes : NodeReady(n) \/ NodeLeft(n)
  \/ Reboot

MqttSpec == MqttInit /\ [][MqttNext]_mqttvars

\* Every task that can run does, in the end; connections, requests and restarts are up to others.
Fairness ==
  /\ WF_mqttvars(HttpStep) /\ WF_mqttvars(MainStep) /\ WF_mqttvars(TimerStep)
  /\ \A c \in Clients : WF_mqttvars(HandlerStep(c)) /\ WF_mqttvars(Unsubscribed(c))

FairSpec == MqttSpec /\ Fairness

-----------------------------------------------------------------------------
(* Properties *)

Settings == [Keys -> {Missing, Plain, Earlier} \union 1..MaxRequests]

Steps == Keys \union {"idle", "stop", "stopping", "forget", "load", "start", "done"}

\* The type invariant.
MqttTypeOK ==
  /\ stored \in Settings /\ creds \in Settings /\ state \in States
  /\ client \in Clients \union {Nobody}
  /\ run \in [Clients -> {"none", "down", "up"}]
  /\ with \in [Clients -> Settings] /\ subs \in [Clients -> SUBSET Nodes]
  /\ unsubscribed \subseteq Clients
  /\ hdl \in [Clients -> {"idle", "nodes", "command"} \union HaSteps]
  /\ pc \in [{"http", "main"} -> Steps] /\ pc["main"] \in {"load", "start", "done"}
  /\ pc["http"] # "done"
  /\ restart \in BOOLEAN /\ known \subseteq Nodes
  /\ handle \in Timers \union {Nobody} /\ armed \subseteq Timers
  /\ tries \in 0..Bytes - 1
  /\ timer \in {"idle", "nodes", "bridge", "again", "expire", "null"}
  /\ rounds \in Nat /\ asked \in BOOLEAN
  /\ spent \in [{"requests", "events", "restarts"} -> Nat] /\ spent["requests"] <= MaxRequests
  /\ excuses \subseteq {"boot", "torn", "flash", "raced"}

MqttQuiet == pc["http"] = "idle" /\ pc["main"] = "done" /\ \A c \in Clients : hdl[c] = "idle"

\* There is a client exactly when complete credentials are stored, one only, and it runs
\* with them, unless a save was cut off, a request came while the firmware was starting, or the
\* flash refused to read or to erase a key since the last restart or complete save.
RunsWhatIsStored ==
  MqttQuiet /\ excuses \intersect {"boot", "torn", "flash"} = {}
    => IF Loads(stored)
         THEN /\ creds = stored /\ client # Nobody /\ with[client] = stored
              /\ \A c \in Clients : run[c] = "none" <=> c # client
         ELSE \A c \in Clients : run[c] = "none"

\* After Home Assistant restarts exactly three rounds of announcements are made, however often it
\* restarts and wherever the connection comes and goes, and no timer is left that nobody can stop,
\* unless its restart came in the middle of a round.
ThreeRounds ==
  asked /\ timer = "idle" /\ (\A c \in Clients : hdl[c] \notin HaSteps) /\ excuses \intersect {"boot", "raced"} = {}
    => rounds + (IF handle = Nobody THEN 0 ELSE tries) = Tries /\ armed = {handle} \ {Nobody}

\* The timer's pass over the nodes waits for the client's lock, whose task waits for the table.
LockCycle == TimerHasTable /\ client # Nobody /\ hdl[client] \in {"nodes", "command"}

\* Requests are answered, events handled and rounds finished, unless these two tasks wait for
\* each other.
EveryoneMovesOn ==
  /\ pc["http"] # "idle" ~> (pc["http"] = "idle" \/ LockCycle)
  /\ \A c \in Clients : hdl[c] # "idle" ~> (hdl[c] = "idle" \/ LockCycle)
  /\ handle # Nobody ~> (handle = Nobody \/ state # "CONNECTED" \/ "raced" \in excuses \/ LockCycle)
=============================================================================
