----------------------------- MODULE CaptivePortal -----------------------------
(***************************************************************************)
(* What makes the setup portal one: the DNS server that gives every name   *)
(* the bridge's address (wifi/dns_server.cpp), the scan for networks and   *)
(* the wizard's end (wifi/wifi_provisioning.cpp), with the web server that *)
(* serves it.                                                              *)
(*                                                                         *)
(* The DNS server's flag, socket and handle are written without a lock by  *)
(* the task that starts it, its own and the web server's that stops it.    *)
(***************************************************************************)
EXTENDS WebServer

VARIABLES
  dns,         \* dns_server_running, dns_socket, dns_task_handle, and where its task is
  http,        \* the web server's task: "idle", or where it is in a handler
  scan,        \* s_scan_in_progress, whether there are results, whether of late, and what the driver does
  radio,       \* "ap" until a phone has its address, then "apsta"; "off" at the wizard's end
  heard        \* what was answered last: to a query, to a request for a scan

portalvars == <<dns, http, scan, radio, heard>>
allvars == <<webvars, portalvars>>

NoDns == [running |-> FALSE, socket |-> FALSE, handle |-> FALSE, at |-> "none"]
NoScan == [busy |-> FALSE, found |-> FALSE, fresh |-> FALSE, driver |-> "idle"]
Portal == "192.168.4.1"

-----------------------------------------------------------------------------
(* The DNS server *)

\* dns_server_start: the task may not be to be had.
DnsTask == {[NoDns EXCEPT !.running = TRUE, !.handle = TRUE, !.at = "socket"], NoDns}

\* dns_server_start_with_config, when the portal starts.
DnsStart ==
  /\ ap /\ radio = "none" /\ radio' = "ap"
  /\ dns' \in DnsTask
  /\ UNCHANGED <<webvars, http, scan, heard>>

\* Mutant: a task that ends for want of a socket leaves the flag up.
GoneSilently == [dns EXCEPT !.socket = FALSE, !.at = "ended"]

\* The task ends for want of a socket.
Gone == [dns EXCEPT !.running = FALSE, !.socket = FALSE, !.at = "ended"]

\* dns_server_task, up to its loop.
DnsOpens ==
  /\ dns.at = "socket"
  /\ dns' \in {[dns EXCEPT !.socket = TRUE, !.at = "bind"], Gone}
  /\ UNCHANGED <<webvars, http, scan, radio, heard>>
DnsBinds ==
  /\ dns.at = "bind"
  /\ dns' \in {[dns EXCEPT !.at = "loop"], Gone}
  /\ UNCHANGED <<webvars, http, scan, radio, heard>>

DnsLoop ==
  /\ dns.at = "loop"
  /\ dns' = [dns EXCEPT !.at = IF dns.running THEN "receive" ELSE "leave"]
  /\ UNCHANGED <<webvars, http, scan, radio, heard>>

\* Packets, by what the checks make of them.  The answer has the questions as they came.
Queries == {"name", "names", "no question", "too short", "counts too high", "name cut off",
            "question cut off", "too long to answer"}
DnsAnswer(q) == CASE q \in {"name", "names"} -> Portal [] q = "no question" -> "nothing asked" [] OTHER -> "none"

\* A query is answered by the portal's address, whatever the name: the first entry is "*".
DnsAnswers(q) ==
  /\ dns.at = "receive" /\ dns.socket
  /\ heard' = [heard EXCEPT !.dns = DnsAnswer(q)]
  /\ dns' = [dns EXCEPT !.at = "loop"]
  /\ UNCHANGED <<webvars, http, scan, radio>>

\* Its socket was closed under it.
DnsFails ==
  /\ dns.at = "receive" /\ ~dns.socket
  /\ dns' = [dns EXCEPT !.at = "loop"]
  /\ UNCHANGED <<webvars, http, scan, radio, heard>>

DnsLeaves ==
  /\ dns.at = "leave"
  /\ dns' = [dns EXCEPT !.socket = FALSE, !.at = "ended"]
  /\ UNCHANGED <<webvars, http, scan, radio, heard>>

-----------------------------------------------------------------------------
(* The web server's task in the wizard's handlers *)

\* It has a request for the route, and handles nothing else meanwhile.
Requested(method, uri, by) ==
  http = "idle" /\ joining = Nobody /\ radio \in {"ap", "apsta"} /\ Find(table, method, uri) = by

Told(what) == heard' = [heard EXCEPT !.scan = what]

\* wifi_scan_handler and wifi_provisioning_scan_start: a scan under way and its results of the
\* last half minute are not scanned again, and while no phone has its address nothing is.
ScanRequest ==
  /\ Requested("GET", <<"api", "wifi", "scan">>, "scan") /\ Spend("scans")
  /\ \/ scan.busy /\ Told("scanning") /\ UNCHANGED http
     \/ ~scan.busy /\ scan.fresh /\ Told("list") /\ UNCHANGED http
     \/ ~scan.busy /\ ~scan.fresh /\ radio # "apsta" /\ Told("failed") /\ UNCHANGED http
     \/ ~scan.busy /\ ~scan.fresh /\ radio = "apsta" /\ http' = "scan" /\ UNCHANGED heard
  /\ UNCHANGED <<logvars, ap, tablevars, dns, scan, radio>>

\* Mutant: a scan the driver refuses stays marked as under way.
StaysBusy == [scan EXCEPT !.busy = TRUE]

\* The driver refuses: it is busy connecting.
ScanRefused == [scan EXCEPT !.busy = FALSE]

\* After half a second the scan starts, and what the last one found is shown.
ScanStarts ==
  /\ http = "scan" /\ http' = "idle"
  /\ \/ scan' = [scan EXCEPT !.busy = TRUE, !.driver = "scanning"] /\ Told(IF scan.found THEN "list" ELSE "empty")
     \/ scan' = ScanRefused /\ Told("failed")
  /\ UNCHANGED <<webvars, dns, radio>>

\* WIFI_EVENT_SCAN_DONE, which may come twice: the second finds nothing under way.  The list is
\* replaced, also by none, or without memory stays what it was; none is never fresh.
ScanDone ==
  /\ scan.driver = "scanning"
  /\ \E again \in {"scanning", "idle"}, list \in BOOLEAN :
       scan' = IF scan.busy THEN [busy |-> FALSE, found |-> list, fresh |-> list, driver |-> again]
                            ELSE [scan EXCEPT !.driver = "idle"]
  /\ UNCHANGED <<webvars, dns, http, radio, heard>>

\* Half a minute later the results are old.
ScanAges ==
  /\ scan.fresh
  /\ scan' = [scan EXCEPT !.fresh = FALSE]
  /\ UNCHANGED <<webvars, dns, http, radio, heard>>

\* A phone has its address: the station is started, to scan.
PhoneServed ==
  /\ radio = "ap" /\ radio' = "apsta"
  /\ UNCHANGED <<webvars, dns, http, scan, heard>>

\* setup_restart_handler: wifi_provisioning_stop_captive_portal, if it is up, in its steps.  The
\* wizard is at its end long after the DNS server has its socket.
StopRequest ==
  /\ Requested("POST", <<"api", "setup", "restart">>, "restart") /\ dns.at \notin {"socket", "bind"}
  /\ http' = IF state # "apStarted" THEN "restart"
             ELSE IF dns.running THEN "flag" ELSE "stop radio"
  /\ UNCHANGED <<webvars, dns, scan, radio, heard>>

\* dns_server_stop
DnsFlag ==
  /\ http = "flag" /\ http' = "close"
  /\ dns' = [dns EXCEPT !.running = FALSE]
  /\ UNCHANGED <<webvars, scan, radio, heard>>
DnsClose ==
  /\ http = "close" /\ http' = "delete"
  /\ dns' = [dns EXCEPT !.socket = FALSE]
  /\ UNCHANGED <<webvars, scan, radio, heard>>

\* The handle is never cleared by a task that ends by itself: deleting that one again is
\* undefined, and may end in a restart at once.
DnsDelete ==
  /\ http = "delete"
  /\ dns' = [dns EXCEPT !.handle = FALSE, !.at = "ended"]
  /\ \/ http' = "stop radio"
     \/ dns.at = "ended" /\ http' = "restart"
  /\ UNCHANGED <<webvars, scan, radio, heard>>

\* esp_wifi_stop ends a scan; the state is idle.  Then the bridge restarts, and with it the model.
StopRadio ==
  /\ http = "stop radio" /\ http' = "restart"
  /\ radio' = "off" /\ state' = "idle"
  /\ scan' = [scan EXCEPT !.driver = IF @ = "scanning" THEN "done" ELSE @]
  /\ UNCHANGED <<logvars, ap, asked, table, todo, installed, budget, dns, heard>>

-----------------------------------------------------------------------------
PortalInit ==
  /\ WebInit
  /\ dns = NoDns /\ http = "idle" /\ scan = NoScan /\ radio = "none"
  /\ heard = [dns |-> "none", scan |-> "none"]

DnsStep == DnsOpens \/ DnsBinds \/ DnsLoop \/ (\E q \in Queries : DnsAnswers(q)) \/ DnsFails \/ DnsLeaves
HandlerStep == ScanStarts \/ DnsFlag \/ DnsClose \/ DnsDelete \/ StopRadio

PortalNext ==
  \/ (Logger \/ (http = "idle" /\ Pages)) /\ Unchanged /\ UNCHANGED portalvars
  \/ (TableNext \/ Retention) /\ UNCHANGED portalvars
  \/ DnsStart \/ DnsStep \/ ScanRequest \/ HandlerStep \/ ScanDone \/ ScanAges \/ PhoneServed \/ StopRequest

PortalSpec == PortalInit /\ [][PortalNext]_allvars

\* The tasks go on; connections, lines and requests come as they come.
FairSpec ==
  /\ PortalSpec
  /\ WF_allvars(installed /\ SenderStep /\ Unchanged /\ UNCHANGED portalvars)
  /\ WF_allvars(installed /\ CleanerStep /\ Unchanged /\ UNCHANGED portalvars)
  /\ WF_allvars(Join /\ Unchanged /\ UNCHANGED portalvars)
  /\ WF_allvars(HandlerStep) /\ WF_allvars(ScanDone)

-----------------------------------------------------------------------------
Live == dns.at \notin {"none", "ended"}

\* Whoever ends the DNS server, its flag is up exactly while a task serves (a start refused
\* because of the flag would leave the portal without names), and the socket goes with it.
DnsAtRest ==
  http \notin {"flag", "close", "delete"} => /\ dns.running <=> Live
                                             /\ ~Live => ~dns.socket

\* "scanning" is said only while an end of the scan is to come: the wizard's list appears.
ScanEnds == scan.busy ~> ~scan.busy \/ radio = "off"
=============================================================================
