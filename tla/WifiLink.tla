------------------------------ MODULE WifiLink ------------------------------
(***************************************************************************)
(* How the bridge gets on the network and stays there: the credentials in  *)
(* flash, the choice at boot between the bridge and the setup portal, the  *)
(* event handler and the reconnect task (wifi/wifi_provisioning.cpp), the  *)
(* order of initialisation (main.cpp), and which pages the web server      *)
(* serves (web_server/web_server.cpp).                                     *)
(*                                                                         *)
(* Four tasks share these variables without a lock.  A step is one event   *)
(* handled, or one task's way from one read or write of what they share to *)
(* the next.  The event loop has a higher priority than app_main and its   *)
(* core, so app_main moves only when every event has been handled; the     *)
(* reconnect task may run beside it.                                       *)
(***************************************************************************)
EXTENDS Naturals, Sequences

CONSTANTS
  Ssids, Passwords,  \* the names and passwords users enter, each given by its length
  Network,           \* the network that is there: [ssid, password]
  MaxAttempts,       \* CONFIG_WIFI_RECONNECT_MAX_ATTEMPTS
  MaxEvents,         \* bound: events the driver posts ahead of the event loop
  MaxOutages,        \* bound: times the router goes away
  MaxChanges,        \* bound: credentials saved or cleared
  MaxFaults          \* bound: power failures, and keys that cannot be erased

None == 999          \* no text: longer than any

Texts == Ssids \cup Passwords \cup {None}
Credentials == [ssid : Texts, password : Texts]
NoCredentials == [ssid |-> None, password |-> None]

ASSUME WifiAssumption ==
  /\ Ssids \subseteq 0 .. 100 /\ Passwords \subseteq 0 .. 100
  /\ Network \in [ssid : Ssids, password : Passwords]
  /\ MaxAttempts \in Nat \ {0}
  /\ MaxEvents \in Nat \ {0}
  /\ MaxOutages \in Nat /\ MaxChanges \in Nat /\ MaxFaults \in Nat

VARIABLES
  unlimited,   \* CONFIG_WIFI_RECONNECT_UNLIMITED_ATTEMPTS, fixed when the firmware is built
  nvs,         \* the namespace wifi_creds: ssid, password, configured
  state,       \* s_provisioning_state
  normal,      \* s_normal_operation_mode
  task,        \* the reconnect task's next step; "none" before it exists
  notified,    \* its notification value
  attempt,     \* s_reconnect_attempt, in unlimited mode only logged and kept 0
  bits,        \* s_wifi_event_group
  boot,        \* app_main's next step
  web,         \* whose pages the web server has
  callback,    \* s_event_callback is set
  services,    \* node_manager, MQTT and the refresh of the nodes were started
  handler,     \* the credentials handler under way: HTTP task, or console
  fallback,    \* s_setup_fallback_timer runs
  radio,       \* external: the Wi-Fi driver and its station
  events,      \* external: the default event loop's queue
  router,      \* external: the network is there
  outages, changes, faults,  \* bounds
  ended,       \* history: what ended the wait for the network at boot
  lostInBoot,  \* history: the link was lost while the bridge was booting
  tries,       \* history: connection attempts since the task was last notified
  torn,        \* history: power or a write failed while credentials were written or erased
  unfinished   \* history: since the last restart, clearing failed with the radio or the flag gone

codevars == <<state, normal, task, notified, attempt, bits, web, callback>>
bootvars == <<boot, services, ended>>
flashvars == <<nvs, handler, fallback, changes, torn, unfinished>>
airvars == <<radio, router, outages>>
histvars == <<lostInBoot, tries>>
wifivars == <<unlimited, codevars, bootvars, flashvars, airvars, histvars, events, faults>>

States == {"idle", "apStarted", "connecting", "connected", "failed", "reconnecting"}
Events == {"apStart", "staStart", "staConnected", "staDisconnected", "gotIp", "apStaIpAssigned"}
Steps == {"none", "wait", "look", "linked", "delay", "reconnecting", "final", "connect",
          "result", "next", "giveUp"}
Boots == {"start", "waiting", "linked", "startTask", "mesh", "portal", "web", "callback",
          "services", "done"}
Writes == {"ssid", "password", "configured", "restart"}
NoHandler == [op |-> "none", at |-> "ssid", new |-> NoCredentials]

WifiTypeOK ==
  /\ unlimited \in BOOLEAN
  /\ nvs \in [ssid : Texts, password : Texts, configured : BOOLEAN]
  /\ state \in States /\ task \in Steps /\ boot \in Boots
  /\ {normal, notified, callback, services, fallback, router, lostInBoot, torn,
      unfinished} \subseteq BOOLEAN
  /\ attempt \in 0 .. MaxAttempts
  /\ bits \subseteq {"connected", "fail"}
  /\ web \in {"none", "portal", "bridge"}
  /\ handler \in [op : {"none", "save", "reset", "clear", "reboot"}, at : Writes, new : Credentials]
  /\ radio \in [mode : {"off", "sta", "ap", "apsta"}, netif : BOOLEAN, config : Credentials,
                sta : {"off", "idle", "connecting", "associated", "up"}]
  /\ events \in Seq(Events)
  /\ outages \in 0 .. MaxOutages /\ changes \in 0 .. MaxChanges /\ faults \in 0 .. MaxFaults
  /\ ended \in {"no", "connected", "failed", "timeout"}
  /\ tries \in Nat

Factory == [ssid |-> None, password |-> None, configured |-> FALSE]
SetUp == [ssid |-> Network.ssid, password |-> Network.password, configured |-> TRUE]

\* What a restart leaves of the code's variables.
Fresh ==
  /\ state' = "idle" /\ normal' = FALSE /\ task' = "none" /\ notified' = FALSE
  /\ attempt' = 0 /\ bits' = {} /\ web' = "none" /\ callback' = FALSE
  /\ boot' = "start" /\ services' = FALSE /\ ended' = "no"
  /\ handler' = NoHandler /\ fallback' = FALSE
  /\ radio' = [mode |-> "off", netif |-> FALSE, config |-> radio.config, sta |-> "off"]
  /\ events' = <<>> /\ lostInBoot' = FALSE /\ tries' = 0 /\ unfinished' = FALSE

WifiInit ==
  /\ unlimited \in BOOLEAN
  /\ nvs \in {Factory, SetUp}
  /\ state = "idle" /\ normal = FALSE /\ task = "none" /\ notified = FALSE
  /\ attempt = 0 /\ bits = {} /\ web = "none" /\ callback = FALSE
  /\ boot = "start" /\ services = FALSE /\ ended = "no"
  /\ handler = NoHandler /\ fallback = FALSE
  /\ radio = [mode |-> "off", netif |-> FALSE, config |-> NoCredentials, sta |-> "off"]
  /\ events = <<>> /\ router \in BOOLEAN
  /\ outages = 0 /\ changes = 0 /\ faults = 0
  /\ lostInBoot = FALSE /\ tries = 0 /\ torn = FALSE /\ unfinished = FALSE

(***************************************************************************)
(* Helpers                                                                 *)
(***************************************************************************)
\* Fault: a name may be one byte too long.
ValidUpTo33(c) == c.ssid \in 1 .. 33 /\ c.password \in {0} \cup 8 .. 64

\* is_valid_ssid and is_valid_password, as far as lengths go.
Valid(c) == c.ssid \in 1 .. 32 /\ c.password \in {0} \cup 8 .. 64

\* wifi_provisioning_get_credentials with its callers' buffers of 32 and 64 bytes: what is
\* there must be shorter than its buffer.
Loads(c) == c.ssid < 32 /\ c.password < 64

Stored == [ssid |-> nvs.ssid, password |-> nvs.password]

\* esp_wifi_sta_get_ap_info succeeds.
Linked == radio.sta \in {"associated", "up"}

PortalUp == radio.mode \in {"ap", "apsta"}

\* What the station's end leaves in the event queue.
Farewell == IF radio.sta \in {"connecting", "associated", "up"} THEN <<"staDisconnected">>
            ELSE <<>>

\* esp_wifi_connect: an error, ignored by its callers, unless the station is idle.
Connected(r) ==
  IF r.sta = "idle" /\ r.config # NoCredentials THEN [r EXCEPT !.sta = "connecting"] ELSE r

\* wifi_state_change_callback: the pages follow the state that is reported.
Pages(s) == CASE ~callback -> web
              [] s = "apStarted" -> "portal"
              [] s = "connected" -> "bridge"
              [] OTHER -> web

\* The state becomes s, and the callback is told.
Report(s) == state' = s /\ web' = Pages(s)

Restarts ==
  /\ Fresh
  /\ torn' = (torn \/ handler.at \in {"password", "configured"})
  /\ UNCHANGED <<unlimited, nvs, router, outages, changes>>

(***************************************************************************)
(* app_main: it moves when the event loop has nothing to do.               *)
(***************************************************************************)
Main(step) == boot = step /\ events = <<>>

\* wifi_provisioning_should_start_captive_portal, up to the wait for the network.
BootStart ==
  /\ Main("start")
  /\ IF nvs.configured /\ Loads(Stored)
       THEN /\ radio' = [mode |-> "sta", netif |-> TRUE, config |-> Stored, sta |-> "idle"]
            /\ events' = <<"staStart">>
            /\ boot' = "waiting"
       ELSE boot' = "portal" /\ UNCHANGED <<radio, events>>
  /\ UNCHANGED <<unlimited, codevars, services, ended, flashvars, router, outages, histvars,
                 faults>>

\* The wait ends with a bit, which it leaves set, or after two minutes.
BootWait ==
  /\ Main("waiting")
  /\ ended' = CASE "connected" \in bits -> "connected"
                 [] bits = {"fail"} -> "failed"
                 [] bits = {} -> "timeout"
  /\ boot' = IF ended' = "connected" THEN "linked" ELSE "portal"
  /\ UNCHANGED <<unlimited, codevars, services, flashvars, airvars, histvars, events, faults>>

\* wifi_provisioning_start_reconnect_task: first the flag, then the task.
BootNormal ==
  /\ Main("linked")
  /\ normal' = TRUE /\ attempt' = 0
  /\ boot' = "startTask"
  /\ UNCHANGED <<unlimited, state, task, notified, bits, web, callback, services, ended,
                 flashvars, airvars, histvars, events, faults>>

BootTask ==
  /\ Main("startTask")
  /\ task' = "wait"
  /\ boot' = "mesh"
  /\ UNCHANGED <<unlimited, state, normal, notified, attempt, bits, web, callback, services,
                 ended, flashvars, airvars, histvars, events, faults>>

\* bluetooth_init and ble_mesh_init take a while, in which the link may drop.
BootMesh ==
  /\ Main("mesh")
  /\ boot' = "web"
  /\ UNCHANGED <<unlimited, codevars, services, ended, flashvars, airvars, histvars, events,
                 faults>>

\* wifi_provisioning_start_captive_portal.
BootPortal ==
  /\ Main("portal")
  /\ radio' = [radio EXCEPT !.mode = "ap", !.sta = "off"]
  /\ events' = Farewell \o <<"apStart">>
  /\ boot' = "web"
  /\ UNCHANGED <<unlimited, codevars, services, ended, flashvars, router, outages, histvars,
                 faults>>

\* start_webserver registers the pages of the state it finds, and its callback afterwards.
BootWeb ==
  /\ Main("web")
  /\ web' = IF state = "apStarted" THEN "portal" ELSE "bridge"
  /\ boot' = "callback"
  /\ UNCHANGED <<unlimited, state, normal, task, notified, attempt, bits, callback, services,
                 ended, flashvars, airvars, histvars, events, faults>>

BootCallback ==
  /\ Main("callback")
  /\ callback' = TRUE
  /\ boot' = "services"
  /\ UNCHANGED <<unlimited, state, normal, task, notified, attempt, bits, web, services, ended,
                 flashvars, airvars, histvars, events, faults>>

\* The end of app_main: node_manager, MQTT and the nodes, if the state allows it.
BootServices ==
  /\ Main("services")
  /\ services' = (state \in {"connected", "idle"})
  /\ boot' = "done"
  /\ UNCHANGED <<unlimited, codevars, ended, flashvars, airvars, histvars, events, faults>>

Boot == BootStart \/ BootWait \/ BootNormal \/ BootTask \/ BootMesh \/ BootPortal \/ BootWeb
          \/ BootCallback \/ BootServices

(***************************************************************************)
(* The event loop: wifi_event_handler.  In the portal after a failed       *)
(* connection it is registered, and so called, twice; the second call      *)
(* finds nothing to change.                                                *)
(***************************************************************************)
Event(e) == events # <<>> /\ Head(events) = e

AccessPointStarted ==
  /\ Event("apStart")
  /\ events' = Tail(events)
  /\ Report("apStarted")
  /\ UNCHANGED <<unlimited, normal, task, notified, attempt, bits, callback, bootvars,
                 flashvars, airvars, histvars, faults>>

StationStarted ==
  /\ Event("staStart")
  /\ events' = Tail(events)
  /\ radio' = Connected(radio)
  /\ UNCHANGED <<unlimited, codevars, bootvars, flashvars, router, outages, histvars, faults>>

StationConnected ==
  /\ Event("staConnected")
  /\ events' = Tail(events)
  /\ Report("connecting")
  /\ UNCHANGED <<unlimited, normal, task, notified, attempt, bits, callback, bootvars,
                 flashvars, airvars, histvars, faults>>

\* In normal operation the task is told; before that, the wait at boot is.
StationDisconnected ==
  /\ Event("staDisconnected")
  /\ events' = Tail(events)
  /\ IF normal /\ task # "none" /\ nvs.configured
       THEN Report("reconnecting") /\ notified' = TRUE /\ UNCHANGED bits
       ELSE Report("failed") /\ bits' = bits \cup {"fail"} /\ UNCHANGED notified
  /\ lostInBoot' = (lostInBoot \/ (boot # "done" /\ ("connected" \in bits \/ task # "none")))
  /\ UNCHANGED <<unlimited, normal, task, attempt, callback, bootvars, flashvars, airvars,
                 tries, faults>>

GotIp ==
  /\ Event("gotIp")
  /\ events' = Tail(events)
  /\ Report("connected")
  /\ attempt' = 0 /\ bits' = bits \cup {"connected"}
  /\ UNCHANGED <<unlimited, normal, task, notified, callback, bootvars, flashvars, airvars,
                 histvars, faults>>

\* A phone has joined: the station is started beside the access point, to scan.
PhoneGotIp ==
  /\ Event("apStaIpAssigned")
  /\ IF radio.mode = "ap"
       THEN /\ radio' = [radio EXCEPT !.mode = "apsta", !.sta = "idle"]
            /\ events' = Append(Tail(events), "staStart")
       ELSE events' = Tail(events) /\ UNCHANGED radio
  /\ UNCHANGED <<unlimited, codevars, bootvars, flashvars, router, outages, histvars, faults>>

EventLoop == AccessPointStarted \/ StationStarted \/ StationConnected \/ StationDisconnected
               \/ GotIp \/ PhoneGotIp

(***************************************************************************)
(* The reconnect task: wifi_reconnect_task.  Nothing ends normal operation *)
(* but a restart (wifi_provisioning_stop_reconnect_task has no caller).    *)
(***************************************************************************)
\* Fault: the attempts of the last loss still count.
TakeKeepingAttempts ==
  /\ task = "wait" /\ notified
  /\ notified' = FALSE
  /\ tries' = 0
  /\ task' = IF unlimited \/ attempt < MaxAttempts THEN "look" ELSE "giveUp"
  /\ UNCHANGED <<unlimited, state, normal, attempt, bits, web, callback, bootvars, flashvars,
                 airvars, lostInBoot, events, faults>>

\* A notification is taken, however many were given.
TakeNotification ==
  /\ task = "wait" /\ notified
  /\ notified' = FALSE
  /\ attempt' = 0
  /\ tries' = 0
  /\ task' = "look"
  /\ UNCHANGED <<unlimited, state, normal, bits, web, callback, bootvars, flashvars, airvars,
                 lostInBoot, events, faults>>

\* Fault: no look at the link between saying "reconnecting" and connecting.
CheckLinkTwice ==
  /\ task \in {"look", "delay", "final"}
  /\ task' = IF Linked /\ task # "final" THEN "linked"
             ELSE CASE task = "look" -> "delay"
                    [] task = "delay" -> "reconnecting"
                    [] task = "final" -> "connect"
  /\ UNCHANGED <<unlimited, state, normal, notified, attempt, bits, web, callback, bootvars,
                 flashvars, airvars, histvars, events, faults>>

\* The three looks at the link: at the notification, after the delay, before connecting.
CheckLink ==
  /\ task \in {"look", "delay", "final"}
  /\ task' = IF Linked THEN "linked"
             ELSE CASE task = "look" -> "delay"
                    [] task = "delay" -> "reconnecting"
                    [] task = "final" -> "connect"
  /\ UNCHANGED <<unlimited, state, normal, notified, attempt, bits, web, callback, bootvars,
                 flashvars, airvars, histvars, events, faults>>

\* Fault: finding the link clears what was notified meanwhile.
FoundLinkedForgetting ==
  /\ task = "linked"
  /\ Report("connected")
  /\ task' = "wait" /\ notified' = FALSE
  /\ UNCHANGED <<unlimited, normal, attempt, bits, callback, bootvars, flashvars, airvars,
                 histvars, events, faults>>

\* The link is there again: the state says so, and the task waits for the next loss.
FoundLinked ==
  /\ task = "linked"
  /\ Report("connected")
  /\ task' = "wait"
  /\ UNCHANGED <<unlimited, normal, notified, attempt, bits, callback, bootvars, flashvars,
                 airvars, histvars, events, faults>>

SayReconnecting ==
  /\ task = "reconnecting"
  /\ Report("reconnecting")
  /\ task' = "final"
  /\ UNCHANGED <<unlimited, normal, notified, attempt, bits, callback, bootvars, flashvars,
                 airvars, histvars, events, faults>>

ConnectAgain ==
  /\ task = "connect"
  /\ radio' = Connected(radio)
  /\ tries' = IF tries < MaxAttempts THEN tries + 1 ELSE tries
  /\ task' = "result"
  /\ UNCHANGED <<unlimited, state, normal, notified, attempt, bits, web, callback, bootvars,
                 flashvars, router, outages, lostInBoot, events, faults>>

\* A bit is set, now or since long ago, or ten seconds have passed.
AwaitResult ==
  /\ task = "result"
  /\ bits' = {}
  /\ IF "connected" \in bits
       THEN attempt' = 0 /\ task' = "wait"
       ELSE attempt' = (IF unlimited THEN 0 ELSE attempt + 1) /\ task' = "next"
  /\ UNCHANGED <<unlimited, state, normal, notified, web, callback, bootvars, flashvars,
                 airvars, histvars, events, faults>>

NextAttempt ==
  /\ task = "next"
  /\ task' = IF unlimited \/ attempt < MaxAttempts THEN "delay" ELSE "giveUp"
  /\ UNCHANGED <<unlimited, state, normal, notified, attempt, bits, web, callback, bootvars,
                 flashvars, airvars, histvars, events, faults>>

GiveUp ==
  /\ task = "giveUp"
  /\ Report("failed")
  /\ task' = "wait"
  /\ UNCHANGED <<unlimited, normal, notified, attempt, bits, callback, bootvars, flashvars,
                 airvars, histvars, events, faults>>

Reconnect == TakeNotification \/ CheckLink \/ FoundLinked \/ SayReconnecting \/ ConnectAgain
               \/ AwaitResult \/ NextAttempt \/ GiveUp

(***************************************************************************)
(* Credentials: the portal's form, the page and the command that clear     *)
(* them, the wizard's restart, and the timer behind a wizard left alone.   *)
(***************************************************************************)
Idle == handler.op = "none"
Changing == Idle /\ changes < MaxChanges /\ changes' = changes + 1
Fault == faults < MaxFaults /\ faults' = faults + 1
StepTo(at) == handler' = [handler EXCEPT !.at = at]

\* wifi_connect_handler, with credentials the checks accept; others change nothing.
Save ==
  /\ web = "portal" /\ PortalUp /\ Changing
  /\ \E c \in [ssid : Ssids, password : Passwords] :
       Valid(c) /\ handler' = [op |-> "save", at |-> "ssid", new |-> c]
  /\ UNCHANGED <<unlimited, nvs, codevars, bootvars, fallback, torn, unfinished, airvars, histvars,
                 events, faults>>

\* wifi_provisioning_set_credentials writes one key after the other; each is in flash at
\* once.  Then the portal waits three minutes for the wizard's end.
SaveKey ==
  /\ handler.op = "save"
  /\ CASE handler.at = "ssid" ->
             nvs' = [nvs EXCEPT !.ssid = handler.new.ssid] /\ StepTo("password")
               /\ UNCHANGED <<fallback, torn>>
       [] handler.at = "password" ->
             nvs' = [nvs EXCEPT !.password = handler.new.password] /\ StepTo("configured")
               /\ UNCHANGED <<fallback, torn>>
       [] handler.at = "configured" ->
             nvs' = [nvs EXCEPT !.configured = TRUE] /\ handler' = NoHandler
               /\ fallback' = TRUE /\ torn' = FALSE
  /\ UNCHANGED <<unlimited, codevars, bootvars, changes, unfinished, airvars, histvars, events,
                 faults>>

\* A key that cannot be written ends the handler; what it wrote before stays.
SaveFails ==
  /\ handler.op = "save"
  /\ handler' = NoHandler
  /\ torn' = (torn \/ handler.at # "ssid")
  /\ UNCHANGED <<unlimited, nvs, codevars, bootvars, fallback, changes, unfinished, airvars,
                 histvars, events, faults>>

\* The Wi-Fi reset of the bridge's pages stops the radio first.
ResetByWeb ==
  /\ web = "bridge" /\ Changing
  /\ radio' = [radio EXCEPT !.mode = "off", !.sta = "off"]
  /\ events' = events \o Farewell
  /\ handler' = [NoHandler EXCEPT !.op = "reset"]
  /\ UNCHANGED <<unlimited, nvs, codevars, bootvars, fallback, torn, unfinished, router, outages,
                 histvars, faults>>

\* The console's wifi_clear.
ClearByConsole ==
  /\ boot = "done" /\ Changing
  /\ handler' = [NoHandler EXCEPT !.op = "clear"]
  /\ UNCHANGED <<unlimited, nvs, codevars, bootvars, fallback, torn, unfinished, airvars, histvars,
                 events, faults>>

\* wifi_provisioning_clear_credentials: an erase that fails is not noticed.  The page also
\* clears what the driver remembers.
ClearKey ==
  /\ handler.op \in {"reset", "clear"} /\ handler.at # "restart"
  /\ \E erased \in BOOLEAN :
       /\ IF erased THEN UNCHANGED faults ELSE Fault
       /\ handler.at = "ssid" =>
            /\ nvs' = IF erased THEN [nvs EXCEPT !.ssid = None] ELSE nvs
            /\ StepTo("password") /\ UNCHANGED <<torn, radio>>
       /\ handler.at = "password" =>
            /\ nvs' = IF erased THEN [nvs EXCEPT !.password = None] ELSE nvs
            /\ StepTo("configured") /\ UNCHANGED <<torn, radio>>
       /\ handler.at = "configured" =>
            /\ nvs' = IF erased THEN [nvs EXCEPT !.configured = FALSE] ELSE nvs
            /\ StepTo("restart") /\ torn' = ~erased
            /\ radio' = IF handler.op = "reset" THEN [radio EXCEPT !.config = NoCredentials]
                        ELSE radio
  /\ UNCHANGED <<unlimited, codevars, bootvars, fallback, changes, unfinished, router, outages,
                 histvars, events>>

\* The namespace cannot be opened, or what was erased cannot be committed.  The page and the
\* command log it and do not restart; the page has stopped the radio before.
ClearFails ==
  /\ handler.op \in {"reset", "clear"} /\ Fault
  /\ \/ handler.at = "ssid" /\ UNCHANGED <<nvs, torn>>
     \/ /\ handler.at = "configured" /\ torn' = TRUE
        /\ nvs' \in {nvs, [nvs EXCEPT !.configured = FALSE]}
  /\ handler' = NoHandler
  /\ unfinished' = (unfinished \/ handler.op = "reset" \/ ~nvs'.configured)
  /\ UNCHANGED <<unlimited, codevars, bootvars, fallback, changes, airvars, histvars, events>>

\* setup_restart_handler: wifi_provisioning_stop_captive_portal, and then a restart.
SetupRestart ==
  /\ web = "portal" /\ PortalUp /\ Changing
  /\ handler' = [NoHandler EXCEPT !.op = "reboot", !.at = "restart"]
  /\ IF state = "apStarted"
       THEN /\ radio' = [radio EXCEPT !.mode = "off", !.sta = "off"]
            /\ events' = events \o Farewell
            /\ state' = "idle"
       ELSE UNCHANGED <<radio, events, state>>
  /\ UNCHANGED <<unlimited, nvs, normal, task, notified, attempt, bits, web, callback, bootvars,
                 fallback, torn, unfinished, router, outages, histvars, faults>>

HandlerRestarts == handler.at = "restart" /\ Restarts /\ UNCHANGED faults

\* setup_fallback_restart_cb, whatever the portal is doing.
FallbackFires == fallback /\ Restarts /\ UNCHANGED faults

PowerFails == Fault /\ Restarts

Users == Save \/ ResetByWeb \/ ClearByConsole \/ SetupRestart
Handlers == SaveKey \/ ClearKey \/ HandlerRestarts

(***************************************************************************)
(* External: the driver's station, the router and a phone.                 *)
(***************************************************************************)
Posts(sta, e) ==
  /\ Len(events) < MaxEvents
  /\ radio' = [radio EXCEPT !.sta = sta]
  /\ events' = Append(events, e)
  /\ UNCHANGED <<unlimited, codevars, bootvars, flashvars, router, outages, histvars, faults>>

Reachable == router /\ radio.config = Network

Associates == radio.sta = "connecting" /\ Reachable /\ Posts("associated", "staConnected")
CannotAssociate == radio.sta = "connecting" /\ ~Reachable /\ Posts("idle", "staDisconnected")
GetsAddress == radio.sta = "associated" /\ router /\ radio.netif /\ Posts("up", "gotIp")
LosesLink == Linked /\ ~router /\ Posts("idle", "staDisconnected")

RouterGoes ==
  /\ router /\ outages < MaxOutages
  /\ router' = FALSE /\ outages' = outages + 1
  /\ UNCHANGED <<unlimited, codevars, bootvars, flashvars, radio, histvars, events, faults>>

RouterComes ==
  /\ ~router
  /\ router' = TRUE
  /\ UNCHANGED <<unlimited, codevars, bootvars, flashvars, radio, outages, histvars, events,
                 faults>>

\* Joining the access point takes a phone longer than app_main needs to finish.
PhoneJoins ==
  /\ radio.mode = "ap" /\ boot = "done"
  /\ \A i \in DOMAIN events : events[i] # "apStaIpAssigned"
  /\ events' = Append(events, "apStaIpAssigned")
  /\ UNCHANGED <<unlimited, codevars, bootvars, flashvars, airvars, histvars, faults>>

Driver == Associates \/ CannotAssociate \/ GetsAddress \/ LosesLink

WifiNext == Boot \/ EventLoop \/ Reconnect \/ Users \/ SaveFails \/ ClearFails \/ Handlers
              \/ FallbackFires \/ PowerFails \/ Driver \/ RouterGoes \/ RouterComes \/ PhoneJoins

WifiSpec == WifiInit /\ [][WifiNext]_wifivars

\* Tasks are scheduled, timers expire, the driver reports, and the router comes back.
WifiFairSpec ==
  /\ WifiSpec
  /\ WF_wifivars(Boot) /\ WF_wifivars(EventLoop) /\ WF_wifivars(Reconnect) /\ WF_wifivars(Handlers)
  /\ WF_wifivars(FallbackFires) /\ WF_wifivars(Driver) /\ WF_wifivars(RouterComes)

(***************************************************************************)
(* Properties                                                              *)
(***************************************************************************)
Settled ==
  /\ events = <<>> /\ boot = "done" /\ Idle
  /\ task \in {"none", "wait"} /\ ~notified
  /\ radio.sta \in {"idle", "up"}

\* When no event, notification or attempt is left, the state the pages and the commands
\* report is the link's, however the handler and the task raced to write it.  With limited
\* attempts the task may note that it gave up after the link has come back; after clearing
\* the credentials failed, the flag may be gone under a bridge that runs on.
StateSettles ==
  (Settled /\ ~unfinished) =>
    /\ (state = "connected" => radio.sta = "up")
    /\ (radio.sta = "up" => state = "connected" \/ (~unlimited /\ state = "failed"))

\* The task gives up on a loss only after as many attempts for it as are configured.
FullAttempts == [][GiveUp => tries >= MaxAttempts]_wifivars

\* Whatever is saved can be read back at the next boot, unless power or a write failed
\* half-way, or the name or the password fills its buffer to the last byte.
SavedLoads ==
  (nvs.configured /\ Idle /\ ~torn) => (Loads(Stored) \/ nvs.ssid = 32 \/ nvs.password = 64)

Serving == radio.mode = "sta" /\ radio.sta = "up" /\ services /\ web = "bridge"
SetupOpen == PortalUp /\ web = "portal"

\* The station found the network while the portal was open: the pages have become the
\* bridge's, without a bridge behind them.
HalfBridge == radio.mode = "apsta" /\ web = "bridge"

\* Once the router stays, the bridge ends up serving, or offering its setup pages: nobody
\* has to cut its power, after whatever outages, saves and restarts.  Excepted are a link
\* lost while booting, a network found from within the portal, limited attempts, and a
\* reset that could not clear the credentials: it has stopped the radio and does not restart.
NeverStranded ==
  <>[](Serving \/ SetupOpen \/ lostInBoot \/ HalfBridge \/ ~unlimited \/ unfinished)

=============================================================================
