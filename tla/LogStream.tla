------------------------------ MODULE LogStream ------------------------------
(***************************************************************************)
(* Log lines on their way to the pages that show them: the list of         *)
(* WebSocket clients in debug/websocket_logger.cpp, which the web server's *)
(* task fills, and the sender's and the clean-up task's passes over it;    *)
(* and the lines retained for GET /api/logs.  WebServer has the requests,   *)
(* and composes the two.                                                   *)
(*                                                                         *)
(* A client is known by its descriptor, which the web server gives to the  *)
(* next connection once it is closed.  A pass copies the list under the    *)
(* mutex, looks at each descriptor without it, and takes it again to       *)
(* remove the ones it found closed.                                        *)
(***************************************************************************)
EXTENDS Naturals, FiniteSets

CONSTANTS
  Fds,           \* descriptors of the web server
  Tasks,         \* tasks that log
  MaxClients,    \* MAX_WS_CLIENTS
  MaxLines,      \* lines the ring buffer holds
  MaxHistory,    \* LOG_HISTORY_MAX_LINES
  MaxOpen,       \* bound: connections opened
  MaxLogged      \* bound: lines logged

Nobody == 0

ASSUME LogAssumption ==
  /\ Nobody \notin Fds /\ IsFiniteSet(Fds)
  /\ {MaxClients, MaxLines, MaxHistory} \subseteq Nat \ {0}
  /\ {MaxOpen, MaxLogged} \subseteq Nat

VARIABLES
  conn,        \* external: what each descriptor is: "closed", "http" or "ws"
  joining,     \* the descriptor whose frame the web server's task handles
  clients,     \* ws_clients
  lines,       \* lines in the ring buffer
  sender,      \* the sender's pass
  cleaner,     \* the clean-up task's pass
  writers,     \* tasks about to retain their line
  enabled,     \* log_history_enabled
  turningOff,  \* the console is between switching retention off and clearing
  history,     \* the number of lines in log_history
  opened, logged,  \* bounds
  reused,      \* history: descriptors given away after a pass found them closed
  refused      \* history: clients whose connection refused a line

web == <<conn, joining, opened>>
passes == <<sender, cleaner>>
retention == <<enabled, turningOff, history, writers>>
logvars == <<web, clients, lines, passes, retention, logged, reused, refused>>

Idle == [todo |-> {}, at |-> Nobody, gone |-> {}, busy |-> FALSE]
Pass(copy) == [Idle EXCEPT !.todo = copy, !.busy = TRUE]

-----------------------------------------------------------------------------
(* Connections.  The web server's task handles one request at a time. *)

FoundGone == sender.gone \union cleaner.gone

Open(fd, kind) ==
  /\ conn[fd] = "closed" /\ joining = Nobody /\ opened < MaxOpen
  /\ conn' = [conn EXCEPT ![fd] = kind]
  /\ joining' = IF kind = "ws" THEN fd ELSE Nobody
  /\ opened' = opened + 1
  /\ reused' = IF fd \in FoundGone THEN reused \union {fd} ELSE reused \ {fd}
  /\ refused' = refused \ {fd}
  /\ UNCHANGED <<clients, lines, passes, retention, logged>>

Close(fd) ==
  /\ conn[fd] # "closed" /\ joining = Nobody
  /\ conn' = [conn EXCEPT ![fd] = "closed"]
  /\ UNCHANGED <<joining, clients, lines, passes, retention, opened, logged, reused, refused>>

\* A page sends a frame on its connection.
Frame(fd) ==
  /\ conn[fd] = "ws" /\ joining = Nobody
  /\ joining' = fd
  /\ UNCHANGED <<conn, opened, clients, lines, passes, retention, logged, reused, refused>>

\* ws_handler: a client of the list stays, another is added while there is room.
Join ==
  /\ joining # Nobody
  /\ IF joining \in clients \/ Cardinality(clients) < MaxClients
       THEN clients' = clients \union {joining} /\ UNCHANGED conn
       ELSE conn' = [conn EXCEPT ![joining] = "closed"] /\ UNCHANGED clients
  /\ joining' = Nobody
  /\ UNCHANGED <<opened, lines, passes, retention, logged, reused, refused>>

-----------------------------------------------------------------------------
(* ws_log_sender_task *)

SenderTakes ==
  /\ ~sender.busy /\ lines > 0
  /\ lines' = lines - 1
  /\ sender' = Pass(clients)
  /\ UNCHANGED <<web, clients, cleaner, retention, logged, reused, refused>>

\* Mutant: the check is the wrong way round.
LooksInverted(fd) ==
  /\ sender.at = Nobody /\ fd \in sender.todo
  /\ sender' = IF conn[fd] # "ws" THEN [sender EXCEPT !.todo = @ \ {fd}, !.at = fd]
                                  ELSE [sender EXCEPT !.todo = @ \ {fd}, !.gone = @ \union {fd}]
  /\ UNCHANGED <<web, clients, lines, cleaner, retention, logged, reused, refused>>

SenderLooks(fd) ==
  /\ sender.at = Nobody /\ fd \in sender.todo
  /\ sender' = IF conn[fd] = "ws" THEN [sender EXCEPT !.todo = @ \ {fd}, !.at = fd]
                                  ELSE [sender EXCEPT !.todo = @ \ {fd}, !.gone = @ \union {fd}]
  /\ UNCHANGED <<web, clients, lines, cleaner, retention, logged, reused, refused>>

\* The line is sent, or refused, because the descriptor is closed or for want of buffers.
SenderSends ==
  /\ sender.at # Nobody
  /\ \/ conn[sender.at] # "closed" /\ sender' = [sender EXCEPT !.at = Nobody] /\ UNCHANGED refused
     \/ /\ sender' = [sender EXCEPT !.at = Nobody, !.gone = @ \union {sender.at}]
        /\ refused' = refused \union {sender.at}
  /\ UNCHANGED <<web, clients, lines, cleaner, retention, logged, reused>>

SenderRemoves ==
  /\ sender.busy /\ sender.at = Nobody /\ sender.todo = {}
  /\ clients' = clients \ sender.gone
  /\ sender' = Idle
  /\ UNCHANGED <<web, lines, cleaner, retention, logged, reused, refused>>

-----------------------------------------------------------------------------
(* ws_cleanup_task, every half minute *)

CleanerTakes ==
  /\ ~cleaner.busy /\ clients # {}
  /\ cleaner' = Pass(clients)
  /\ UNCHANGED <<web, clients, lines, sender, retention, logged, reused, refused>>

\* Mutant: only closed descriptors are cleaned up, not those of another connection.
LooksForClosed(fd) ==
  /\ fd \in cleaner.todo
  /\ cleaner' = [cleaner EXCEPT !.todo = @ \ {fd}, !.gone = IF conn[fd] # "closed" THEN @ ELSE @ \union {fd}]
  /\ UNCHANGED <<web, clients, lines, sender, retention, logged, reused, refused>>

CleanerLooks(fd) ==
  /\ fd \in cleaner.todo
  /\ cleaner' = [cleaner EXCEPT !.todo = @ \ {fd}, !.gone = IF conn[fd] = "ws" THEN @ ELSE @ \union {fd}]
  /\ UNCHANGED <<web, clients, lines, sender, retention, logged, reused, refused>>

CleanerRemoves ==
  /\ cleaner.busy /\ cleaner.todo = {}
  /\ clients' = clients \ cleaner.gone
  /\ cleaner' = Idle
  /\ UNCHANGED <<web, lines, sender, retention, logged, reused, refused>>

-----------------------------------------------------------------------------
(* log_ws_vprintf, in any task, and what is retained for GET /api/logs *)

Log(t) ==
  /\ t \notin writers /\ logged < MaxLogged
  /\ lines' = IF lines < MaxLines THEN lines + 1 ELSE lines
  /\ writers' = IF enabled THEN writers \union {t} ELSE writers
  /\ logged' = logged + 1
  /\ UNCHANGED <<web, clients, passes, enabled, turningOff, history, reused, refused>>

Retain(t) ==
  /\ t \in writers
  /\ history' = IF history < MaxHistory THEN history + 1 ELSE history
  /\ writers' = writers \ {t}
  /\ UNCHANGED <<web, clients, lines, passes, enabled, turningOff, logged, reused, refused>>

TurnOn ==
  /\ ~enabled /\ ~turningOff
  /\ enabled' = TRUE
  /\ UNCHANGED <<web, clients, lines, passes, turningOff, history, writers, logged, reused, refused>>

TurnOff ==
  /\ enabled
  /\ enabled' = FALSE /\ turningOff' = TRUE
  /\ UNCHANGED <<web, clients, lines, passes, history, writers, logged, reused, refused>>

ClearHistory ==
  /\ turningOff
  /\ history' = 0 /\ turningOff' = FALSE
  /\ UNCHANGED <<web, clients, lines, passes, enabled, writers, logged, reused, refused>>

-----------------------------------------------------------------------------

\* Of what may happen, `opens' and `logs' are left.
LogInit(opens, logs) ==
  /\ conn = [fd \in Fds |-> "closed"] /\ joining = Nobody /\ opened = MaxOpen - opens
  /\ clients = {} /\ lines = 0
  /\ sender = Idle /\ cleaner = Idle
  /\ writers = {} /\ enabled = FALSE /\ turningOff = FALSE
  /\ history = 0
  /\ logged = MaxLogged - logs /\ reused = {} /\ refused = {}

SenderStep == SenderTakes \/ (\E fd \in Fds : SenderLooks(fd)) \/ SenderSends \/ SenderRemoves
CleanerStep == CleanerTakes \/ (\E fd \in Fds : CleanerLooks(fd)) \/ CleanerRemoves

\* What the web server does with the connections of its pages, and what the logger's tasks and the
\* console, once it has turned retention on, do.
WebNext == Join \/ \E fd \in Fds : Open(fd, "http") \/ Close(fd) \/ Frame(fd)
LogNext ==
  \/ SenderStep \/ CleanerStep
  \/ \E t \in Tasks : Log(t) \/ Retain(t)
  \/ TurnOff \/ ClearHistory

-----------------------------------------------------------------------------
(* Properties *)

Passes == [todo : SUBSET Fds, at : Fds \union {Nobody}, gone : SUBSET Fds, busy : BOOLEAN]

\* The type invariant, with the two limits.
LogTypeOK ==
  /\ conn \in [Fds -> {"closed", "http", "ws"}] /\ joining \in Fds \union {Nobody}
  /\ clients \subseteq Fds /\ Cardinality(clients) <= MaxClients
  /\ lines \in 0..MaxLines /\ sender \in Passes /\ cleaner \in Passes
  /\ writers \subseteq Tasks
  /\ enabled \in BOOLEAN /\ turningOff \in BOOLEAN
  /\ history \in 0..MaxHistory
  /\ opened \in Nat /\ logged \in Nat
  /\ reused \subseteq Fds /\ refused \subseteq Fds

\* A page that is connected is on the list, and gets the lines, unless its connection refused
\* one or its descriptor is that of a connection a pass had just found closed.
PagesListed ==
  \A fd \in Fds : conn[fd] = "ws" /\ joining # fd => fd \in clients \union reused \union refused

\* The list follows the pages: those that are connected are on it, and a descriptor that is no
\* page any more leaves it, and its place, in the end.
ListFollowsPages ==
  /\ []PagesListed
  /\ \A fd \in Fds : fd \in clients /\ conn[fd] # "ws" ~> (fd \notin clients \/ conn[fd] = "ws")

=============================================================================
