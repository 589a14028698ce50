------------------------------ MODULE WebServer ------------------------------
(***************************************************************************)
(* Which handler answers a request (web_server/web_server.cpp): the web    *)
(* server's table of URI handlers, its change from the setup portal's to   *)
(* the bridge's and back as the Wi-Fi state changes, and the dispatch of   *)
(* the bridge's wildcard handlers.                                         *)
(*                                                                         *)
(* The table is changed entry by entry, by whichever task reports a state: *)
(* the event loop or the reconnect task (WifiLink says when), while the    *)
(* web server's own task looks handlers up in it.  Composed with           *)
(* LogStream, whose pages are opened by way of the table.                  *)
(***************************************************************************)
EXTENDS LogStream, SequencesExt

CONSTANTS
  MaxHandlers,     \* max_uri_handlers
  PageFiles,           \* LittleFS: names of the files, plain or ".gz"
  Scenes           \* bounds: what may happen, and how often, in one behaviour

Counts == {"opens", "logs", "turns", "changes", "scans"}
ASSUME WebAssumption ==
  /\ MaxHandlers \in Nat
  /\ Scenes \subseteq [Counts -> Nat] \X [ap : BOOLEAN, late : BOOLEAN]
  /\ \A s \in Scenes : s[1]["opens"] <= MaxOpen /\ s[1]["logs"] <= MaxLogged

Reporters == {"event", "reconnect"}

VARIABLES
  ap,          \* the bridge booted into the setup portal
  state,       \* the Wi-Fi state last reported to the web server
  asked,       \* whose pages the table is to have
  table,       \* the web server's handlers, in the order it looks at them
  todo,        \* per task that reports a state: what is left of its change of the table
  installed,   \* log_ringbuf: the logger has its tasks and sees the lines
  budget       \* bounds: what is left

tablevars == <<state, asked, table, todo, installed>>
webvars == <<logvars, ap, tablevars, budget>>

-----------------------------------------------------------------------------
(* URIs, as sequences of their parts, and the handlers *)

Route(method, uri, by) == [method |-> method, uri |-> uri, by |-> by]
Get(uri, by) == Route("GET", uri, by)
Post(uri, by) == Route("POST", uri, by)

All == Get(<<"*">>, "portal page")
Static == Get(<<"*">>, "file")
LogPage == Get(<<"ws", "logs">>, "log")

\* The addresses by which phones and computers find out that there is a portal.
Probe(i) == Get(<<"probe", ToString(i)>>, IF i \in {1, 2, 5, 7, 8} \union 9..17 THEN "redirect" ELSE "portal hint")
Probes == [i \in 1..17 |-> Probe(i)]
Wizard ==
  <<Get(<<"api", "wifi", "scan">>, "scan"), Post(<<"api", "wifi", "connect">>, "connect"),
    Get(<<"api", "wifi", "status">>, "status"), Post(<<"api", "mesh", "config">>, "set role"),
    Get(<<"api", "mesh", "config">>, "supported role"), Post(<<"api", "setup", "restart">>, "restart")>>
PortalRoutes == Probes \o Wizard
Setup == Get(<<"setup">>, "portal page")

BridgeRoutes ==
  <<Post(<<"bridge", "*">>, "bridge"), Get(<<"mqtt", "*">>, "mqtt"), Post(<<"mqtt", "*">>, "mqtt"),
    Post(<<"node", "*">>, "node"), Get(<<"api", "*">>, "api"), Post(<<"api", "*">>, "api"),
    Get(<<"nodes">>, "nodes"), Get(<<"nodes.json">>, "nodes.json"), Get(<<"">>, "root")>>

\* External: the web server's table.  A pattern that ends in "*" stands for what begins like it;
\* a route for which there is a handler already is refused, as is one too many.
Matches(pattern, uri) ==
  IF Last(pattern) = "*" THEN IsStrictPrefix(Front(pattern), uri) ELSE pattern = uri
Hits(t, method, uri) == {i \in DOMAIN t : t[i].method = method /\ Matches(t[i].uri, uri)}
Find(t, method, uri) ==
  IF Hits(t, method, uri) = {} THEN "none" ELSE t[Min(Hits(t, method, uri))].by
Register(t, r) ==
  IF Hits(t, r.method, r.uri) = {} /\ Len(t) < MaxHandlers THEN Append(t, r) ELSE t
Unregister(t, r) == SelectSeq(t, LAMBDA x : x.method # r.method \/ x.uri # r.uri)

-----------------------------------------------------------------------------
(* Changing the table *)

Add(rs) == [i \in DOMAIN rs |-> [op |-> "add", r |-> rs[i]]]
Drop(rs) == [i \in DOMAIN rs |-> [op |-> "drop", r |-> rs[i]]]

register_captive_portal_handlers == Add(PortalRoutes \o <<Setup, All>>)
unregister_captive_portal_handlers == Drop(PortalRoutes \o <<Setup, All>>)
register_bridge_handlers == Add(BridgeRoutes \o <<LogPage, Static>>)

\* Mutant: the files' wildcard stays, and every other GET is refused beside it.
KeepWildcard == Drop(BridgeRoutes)

\* The log page's handler stays.
unregister_bridge_handlers == Drop(BridgeRoutes \o <<Static>>)

\* Mutant: the bridge's own handlers are taken away first.
FromScratch == unregister_bridge_handlers \o unregister_captive_portal_handlers \o register_bridge_handlers

ToPortal == unregister_bridge_handlers \o register_captive_portal_handlers
ToBridge == unregister_captive_portal_handlers \o register_bridge_handlers

Done(t, ops) == FoldLeft(LAMBDA x, o : IF o.op = "add" THEN Register(x, o.r) ELSE Unregister(x, o.r), t, ops)

\* start_webserver registers what the state it finds calls for.
PortalTable == Done(<<>>, register_captive_portal_handlers)
BridgeTable == Done(<<>>, register_bridge_handlers)

Spend(what) == budget[what] > 0 /\ budget' = [budget EXCEPT ![what] = @ - 1]

\* wifi_state_change_callback.  In the portal an access point that starts late is reported,
\* and a station that finds its network; otherwise a link that is back, by both tasks.
StateChanged(t, s) ==
  /\ todo[t] = <<>> /\ Spend("changes")
  /\ \/ s = "apStarted" /\ ap /\ state = "idle" /\ t = "event" /\ asked' = "portal"
        /\ todo' = [todo EXCEPT ![t] = ToPortal]
     \/ s = "connected" /\ (ap => t = "event") /\ asked' = "bridge"
        /\ todo' = [todo EXCEPT ![t] = ToBridge]
  /\ state' = s
  /\ UNCHANGED <<logvars, ap, table, installed>>

\* The next entry.  With the log page's, websocket_logger_install.
ChangeEntry(t) ==
  /\ todo[t] # <<>>
  /\ LET o == Head(todo[t])
     IN /\ table' = IF o.op = "add" THEN Register(table, o.r) ELSE Unregister(table, o.r)
        /\ installed' = (installed \/ o = [op |-> "add", r |-> LogPage])
  /\ todo' = [todo EXCEPT ![t] = Tail(@)]
  /\ UNCHANGED <<logvars, ap, state, asked, budget>>

-----------------------------------------------------------------------------
(* Dispatch within the bridge's wildcards, by what the URI contains; "" stands for any rest *)

At(has, get, post) == [has |-> has, get |-> get, post |-> post]
Both(has, by) == At(has, by, by)
PostOnly(has, by) == At(has, "405", by)

ota == <<"api", "ota">>
external == <<"api", "mesh", "external">>
upload == ota \o <<"upload">>

\* Mutant: a name before a longer one that begins like it.
UploadFirst == <<Both(upload, "firmware"), Both(upload \o <<"_bundle">>, "bundle")>>

Uploads == <<Both(upload \o <<"_bundle">>, "bundle"), Both(upload, "firmware")>>

\* api_wildcard_handler, with the endpoints of every edition.
ApiChain ==
  <<Both(<<"api", "system_info">>, "system_info"), Both(<<"api", "wifi_info">>, "wifi_info"),
    At(<<"api", "wifi_power">>, "wifi_power_get", "wifi_power_set"),
    Both(<<"api", "console_commands">>, "list_console_commands"),
    At(<<"api", "auto_provisioning">>, "auto_provisioning_get", "auto_provisioning_set")>>
  \o Uploads \o
  <<Both(<<"api", "storage", "upload">>, "storage"), Both(ota \o <<"status">>, "ota_status"),
    Both(ota \o <<"restart">>, "ota_restart"), Both(<<"api", "reset_wifi">>, "reset_wifi"),
    PostOnly(<<"api", "mesh", "leave">>, "leave"),
    PostOnly(<<"api", "mesh", "settings", "remove">>, "settings_remove"),
    At(<<"api", "mesh", "settings">>, "settings_get", "settings_set"),
    Both(<<"api", "mesh", "keys">>, "keys"), Both(<<"api", "mesh", "debug">>, "debug_status"),
    Both(external \o <<"nodes">>, "external_nodes"),
    PostOnly(external \o <<"discover">>, "discover"), PostOnly(external \o <<"command">>, "command"),
    PostOnly(external \o <<"light">>, "light"), PostOnly(external \o <<"forget">>, "forget"),
    PostOnly(external \o <<"mqtt">>, "external_mqtt"), PostOnly(external, "404"),
    PostOnly(<<"api", "mesh", "reset_role">>, "reset_role"), Both(<<"api", "logs">>, "logs")>>

\* mqtt_wildcard_handler, with mqtt_api_handler's actions.
MqttChain ==
  <<At(<<"mqtt", "status">>, "mqtt_status", "400"), PostOnly(<<"mqtt", "config">>, "mqtt_config"),
    PostOnly(<<"mqtt", "clear">>, "mqtt_clear"), PostOnly(<<"mqtt", "bridge_status">>, "bridge_status"),
    PostOnly(<<"mqtt", "bridge_discovery">>, "bridge_discovery")>>

NodeOps ==
  <<"provision", "unprovision", "set_lightness", "set_onoff", "set_hsl", "set_temperature", "rename",
    "send_mqtt_status", "send_mqtt_discovery">>
NodeChain == [i \in DOMAIN NodeOps |-> PostOnly(<<"node", NodeOps[i]>>, NodeOps[i])]
BridgeChain == <<PostOnly(<<"bridge", "reset_wifi">>, "reset_wifi"), PostOnly(<<"bridge", "restart">>, "bridge_restart")>>

Contains2(uri, has) == \E i \in 0..(Len(uri) - Len(has)) : SubSeq(uri, i + 1, i + Len(has)) = has
Dispatch(chain, method, uri) ==
  LET found == {i \in DOMAIN chain : Contains2(uri, chain[i].has)}
  IN IF found = {} THEN "404"
     ELSE IF method = "GET" THEN chain[Min(found)].get ELSE chain[Min(found)].post

\* static_handler: a file, or its ".gz"; root_handler and the portal's know only the plain one.
Served(name) == IF name \in PageFiles \/ (name \o ".gz") \in PageFiles THEN name ELSE "404"
Plain(name) == IF name \in PageFiles THEN name ELSE "404"
RootPage == Plain(IF state = "apStarted" THEN "setup.html" ELSE "index.html")

Answer(method, uri) ==
  LET by == Find(table, method, uri)
  IN CASE by = "api" -> Dispatch(ApiChain, method, uri)
       [] by = "mqtt" -> Dispatch(MqttChain, method, uri)
       [] by = "node" -> Dispatch(NodeChain, method, uri)
       [] by = "bridge" -> Dispatch(BridgeChain, method, uri)
       [] by = "root" -> RootPage
       [] by = "file" -> Served(IF uri = <<"">> THEN "index.html" ELSE Last(uri))
       [] by = "portal page" -> Plain("setup.html")
       [] OTHER -> by

-----------------------------------------------------------------------------
WebInit ==
  \E s \in Scenes :
    /\ budget = s[1] /\ ap = s[2].ap
    /\ state = IF ap /\ ~s[2].late THEN "apStarted" ELSE "idle"
    /\ asked = IF state = "apStarted" THEN "portal" ELSE "bridge"
    /\ table = IF state = "apStarted" THEN PortalTable ELSE BridgeTable
    /\ installed = (state # "apStarted")
    /\ todo = [t \in Reporters |-> <<>>]
    /\ LogInit(budget["opens"], budget["logs"])

\* A page is opened on the log's address if the table has it.
OpenLog(fd) == Find(table, "GET", LogPage.uri) = "log" /\ Open(fd, "ws")

Unchanged == UNCHANGED <<ap, tablevars, budget>>
TableNext ==
  \E t \in Reporters : (\E s \in {"apStarted", "connected"} : StateChanged(t, s)) \/ ChangeEntry(t)

Pages == WebNext \/ \E fd \in Fds : OpenLog(fd)

\* The console turns retention on.
Retention == TurnOn /\ Spend("turns") /\ UNCHANGED <<ap, tablevars>>

\* Without an installed logger there is nothing to log with, nor anybody to send it.
Logger == installed /\ LogNext

-----------------------------------------------------------------------------
AtWork == \E t \in Reporters : todo[t] # <<>>

\* Every endpoint of a chain, asked for by its name, gets its own handler.
OwnHandler(chain) ==
  \A i \in DOMAIN chain : /\ Dispatch(chain, "GET", chain[i].has) = chain[i].get
                          /\ Dispatch(chain, "POST", chain[i].has) = chain[i].post
OwnHandlers == \A c \in {ApiChain, MqttChain, NodeChain, BridgeChain} : OwnHandler(c)

\* Once nobody changes the table, every request is answered by the handler the mode asked for
\* has for it, and no other mode's is left, whatever was registered before and by whom.
ServesItsMode ==
  ~AtWork =>
    IF asked = "portal"
      THEN /\ \A i \in DOMAIN PortalRoutes : Find(table, PortalRoutes[i].method, PortalRoutes[i].uri) = PortalRoutes[i].by
           /\ \A u \in {<<"">>, <<"setup">>, <<"nodes">>, <<"style.css">>} : Answer("GET", u) = "setup.html"
      ELSE /\ OwnHandlers
           /\ \A i \in DOMAIN BridgeRoutes : Find(table, BridgeRoutes[i].method, BridgeRoutes[i].uri) = BridgeRoutes[i].by
           /\ Find(table, "GET", LogPage.uri) = "log"
           /\ Answer("GET", <<"style.css">>) = "style.css" /\ Answer("GET", <<"setup">>) = "404"
           /\ Answer("GET", <<"">>) = "index.html"

\* While the bridge is in normal operation its endpoints answer at every moment, though both
\* tasks may be registering them again; only the files have gaps.
ApiStaysUp ==
  ~ap => /\ \A i \in DOMAIN BridgeRoutes : Find(table, BridgeRoutes[i].method, BridgeRoutes[i].uri) = BridgeRoutes[i].by
         /\ Find(table, "GET", LogPage.uri) = "log"
=============================================================================
