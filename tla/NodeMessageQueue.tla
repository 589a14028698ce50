-------------------------- MODULE NodeMessageQueue --------------------------
(***************************************************************************)
(* The Standalone edition's control of one provisioned node: its entry in  *)
(* the message queue (ble_mesh/message_queue.cpp), the client callbacks    *)
(* that move it on (ble_mesh/ble_mesh_control.cpp), the commands and the   *)
(* status publications of MQTT (mqtt/mqtt_control.cpp) and unprovisioning. *)
(* Queues of different nodes share no state.                               *)
(*                                                                         *)
(* Nothing here takes a lock.  try_send_next() is cut where the code has   *)
(* handed a message to send() and not yet noted it, so a task is between   *)
(* operations, about to send, or just back from send().  The history `met' *)
(* says that a task has come into the queue's code while another was in    *)
(* it; `Overlap' bounds the behaviours to those with it or without.        *)
(***************************************************************************)
EXTENDS Naturals, Sequences, FiniteSets

CONSTANTS
  Callers,              \* tasks that enqueue: MQTT, HTTP server, console
  Btc,                  \* the Bluetooth task: client callbacks
  Timer,                \* the esp_timer task: failsafe callbacks
  Retries,              \* retries_left of a message (3 in the code)
  ResetRetries,         \* retries_left of a NODE_RESET (2 from the web page)
  MaxMsgs,              \* bound: how many messages are ever enqueued
  Overlap,              \* bound: tasks may be inside the queue at the same time
  StackMayRefuse,       \* a send may fail at once, or be reported with an error_code
  FailsafeMayBeatStack  \* 10 s may pass before the stack's own timeout of 4 s

Tasks == Callers \cup {Btc, Timer}
Ids == 1 .. MaxMsgs
Off == 0
On == 1
Kinds == {"set", "get", "pub", "reset"}
MeshKinds == Kinds \ {"pub"}

ASSUME NodeAssumption ==
  /\ Btc \notin Callers /\ Timer \notin Callers /\ Btc # Timer
  /\ {Retries, ResetRetries} \subseteq Nat \ {0} /\ MaxMsgs \in Nat
  /\ {Overlap, StackMayRefuse, FailsafeMayBeatStack} \subseteq BOOLEAN

VARIABLES
  registered,  \* node_manager() tracks the node
  hasQueue,    \* node_queues has an entry for it
  queue,       \* node_message_queue::queue
  waiting,     \* node_message_queue::waiting
  failsafe,    \* its failsafe timer is running
  fired,       \* the failsafe callback is about to run in the timer task
  dangling,    \* a failsafe timer is running, or has fired, for a queue that is erased
  onoff,       \* bm2mqtt_node_info::onoff
  pc,          \* per task: where it is in the queue's code
  cur,         \* per task: the message it is sending
  rest,        \* per task: what it does after the queue's code
  tx,          \* the stack: transactions on air and events it has posted to Btc
  light,       \* the state of the light itself
  shown,       \* the state Home Assistant was last told
  met,         \* history: a task has come into the queue's code while another was in it
  last,        \* history: how many messages were enqueued
  fate         \* history: per message its kind, what became of it, and how often it was sent

queueVars == <<hasQueue, queue, waiting, failsafe, fired>>
nodeVars == <<registered, dangling, onoff>>
taskVars == <<pc, cur, rest>>
history == <<last, fate>>
vars == <<queueVars, nodeVars, taskVars, tx, light, shown, met, history>>

Message == [id : Ids, kind : Kinds, left : 0 .. Retries + ResetRetries]
NoMessage == [id |-> 0, kind |-> "none", left |-> 0]
Continuation == [event : {"none", "pub", "ack", "timeout"}, kind : Kinds \cup {"none"},
                 value : {Off, On}]
Nothing == [event |-> "none", kind |-> "none", value |-> Off]
Transaction == [id : Ids, kind : MeshKinds, value : {Off, On}, try : Nat,
                state : {"onair", "ack", "timeout", "error"}]

\* Everything but the history `met'.
CodeOK ==
  /\ registered \in BOOLEAN /\ hasQueue \in BOOLEAN /\ waiting \in BOOLEAN
  /\ queue \in Seq(Message)
  /\ failsafe \in BOOLEAN /\ fired \in BOOLEAN /\ dangling \in BOOLEAN
  /\ {onoff, light, shown} \subseteq {Off, On}
  /\ pc \in [Tasks -> {"idle", "next", "sent", "done"}]
  /\ cur \in [Tasks -> Message \cup {NoMessage}]
  /\ rest \in [Tasks -> Continuation]
  /\ tx \subseteq Transaction
  /\ last \in 0 .. MaxMsgs
  /\ fate \in [Ids -> [kind : Kinds \cup {"none"}, tries : Nat,
                       how : {"none", "queued", "acked", "dropped", "published", "erased"}]]

TypeOK == CodeOK /\ met \in BOOLEAN

Init ==
  /\ registered = TRUE /\ hasQueue = FALSE /\ dangling = FALSE /\ met = FALSE
  /\ queue = <<>> /\ waiting = FALSE /\ failsafe = FALSE /\ fired = FALSE
  /\ onoff = Off /\ light = Off /\ shown = Off
  /\ pc = [t \in Tasks |-> "idle"] /\ cur = [t \in Tasks |-> NoMessage]
  /\ rest = [t \in Tasks |-> Nothing]
  /\ tx = {} /\ last = 0
  /\ fate = [i \in Ids |-> [kind |-> "none", how |-> "none", tries |-> 0]]

(***************************************************************************)
(* Helpers                                                                 *)
(***************************************************************************)
AllIdle == \A t \in Tasks : pc[t] = "idle"

\* Nothing in the code keeps t out while another task is inside.
Enter(t) == pc[t] = "idle" /\ (Overlap \/ AllIdle) /\ met' = (met \/ ~AllIdle)

\* Taking the front out of an empty std::queue is undefined; here it takes nothing.
Popped == IF queue = <<>> THEN <<>> ELSE Tail(queue)

BecomesOf(m, how) == [fate EXCEPT ![m.id].how = how]

\* Task t goes to label, with r left to do when the queue's code is over.
Goto(t, label, r) ==
  /\ pc' = [pc EXCEPT ![t] = label]
  /\ rest' = [rest EXCEPT ![t] = r]
  /\ UNCHANGED cur

(***************************************************************************)
(* message_queue_manager::enqueue and node_message_queue::enqueue          *)
(***************************************************************************)

Push(t, kind, left, r) ==
  LET m == [id |-> last + 1, kind |-> kind, left |-> left]
  IN /\ last < MaxMsgs
     /\ last' = m.id
     /\ fate' = [fate EXCEPT ![m.id] = [kind |-> kind, how |-> "queued", tries |-> 0]]
     /\ hasQueue' = TRUE /\ queue' = Append(queue, m)
     /\ UNCHANGED <<waiting, failsafe, fired, registered, dangling, tx, light, shown>>
     /\ Goto(t, IF waiting THEN "done" ELSE "next", r)

\* A command from Home Assistant: the wanted value goes into the node, a Set is queued,
\* and behind it the publication of the node's state.
HaCommand(t, v) ==
  /\ Enter(t) /\ registered /\ last + 2 <= MaxMsgs
  /\ onoff' = v
  /\ Push(t, "set", Retries, [Nothing EXCEPT !.event = "pub"])

\* The same from the web page, whose handler publishes nothing.
WebCommand(t, v) ==
  /\ Enter(t) /\ registered
  /\ onoff' = v
  /\ Push(t, "set", Retries, Nothing)

\* The second half of HaCommand: enqueue_node_status_publish.
EnqueueStatusPublish(t) ==
  /\ pc[t] = "done" /\ rest[t].event = "pub"
  /\ Push(t, "pub", 0, Nothing)
  /\ UNCHANGED <<onoff, met>>

\* ble_mesh_refresh_node: each Get it queues is like this one.
Refresh(t) ==
  /\ Enter(t) /\ registered
  /\ Push(t, "get", Retries, Nothing)
  /\ UNCHANGED onoff

\* ble_mesh_unprovision_device
Unprovision(t) ==
  /\ Enter(t) /\ registered
  /\ Push(t, "reset", ResetRetries, Nothing)
  /\ UNCHANGED onoff

(***************************************************************************)
(* The stack, reached through send(): a refused send fails silently or is  *)
(* reported with an error_code; so is a send to a node that already has a  *)
(* transaction on air.                                                     *)
(***************************************************************************)
OnAir == {x \in tx : x.state = "onair"}

StackSend(m) ==
  LET x == [id |-> m.id, kind |-> m.kind, value |-> onoff, try |-> fate[m.id].tries,
            state |-> "onair"]
  IN \/ OnAir = {} /\ tx' = tx \cup {x}
     \/ /\ OnAir # {} \/ StackMayRefuse
        /\ tx' = tx \cup {[x EXCEPT !.state = "error"]}
     \/ StackMayRefuse /\ tx' = tx

(***************************************************************************)
(* node_message_queue::try_send_next, up to and including send() ...       *)
(***************************************************************************)
TrySendNext(t) ==
  /\ pc[t] = "next"
  /\ \/ /\ queue = <<>>
        /\ pc' = [pc EXCEPT ![t] = "done"]
        /\ UNCHANGED <<cur, tx, shown, fate>>
     \/ /\ queue # <<>>
        /\ pc' = [pc EXCEPT ![t] = "sent"] /\ cur' = [cur EXCEPT ![t] = Head(queue)]
        /\ fate' = [fate EXCEPT ![Head(queue).id].tries = @ + 1]
        /\ \/ Head(queue).kind = "pub" /\ shown' = onoff /\ UNCHANGED tx
           \/ Head(queue).kind # "pub" /\ StackSend(Head(queue)) /\ UNCHANGED shown
  /\ UNCHANGED <<queueVars, nodeVars, rest, light, met, last>>

\* Fault: waiting is raised but the failsafe timer is not started.
AfterSendUnguarded(t) ==
  /\ pc[t] = "sent" /\ cur' = [cur EXCEPT ![t] = NoMessage]
  /\ \/ /\ cur[t].kind # "pub"
        /\ waiting' = TRUE
        /\ pc' = [pc EXCEPT ![t] = "done"]
        /\ UNCHANGED <<queue, fate, failsafe>>
     \/ /\ cur[t].kind = "pub"
        /\ waiting' = FALSE /\ queue' = Popped
        /\ fate' = BecomesOf(cur[t], "published")
        /\ pc' = [pc EXCEPT ![t] = "next"]
        /\ UNCHANGED failsafe
  /\ UNCHANGED <<hasQueue, fired, nodeVars, rest, tx, light, shown, met, last>>

\* ... and the rest of it.
AfterSend(t) ==
  /\ pc[t] = "sent" /\ cur' = [cur EXCEPT ![t] = NoMessage]
  /\ \/ /\ cur[t].kind # "pub"
        /\ waiting' = TRUE
        /\ failsafe' = TRUE                     \* stopped first if it was running
        /\ pc' = [pc EXCEPT ![t] = "done"]
        /\ UNCHANGED <<queue, fate>>
     \/ /\ cur[t].kind = "pub"
        /\ waiting' = FALSE /\ queue' = Popped
        /\ fate' = BecomesOf(cur[t], "published")
        /\ pc' = [pc EXCEPT ![t] = "next"]
        /\ UNCHANGED failsafe
  /\ UNCHANGED <<hasQueue, fired, nodeVars, rest, tx, light, shown, met, last>>

(***************************************************************************)
(* What moves the queue on                                                 *)
(***************************************************************************)
IsFront(kind) == queue # <<>> /\ Head(queue).kind = kind

\* Fault: the failsafe of the message that goes is not stopped.
PopAndGoUnstopped(t, how, r) ==
  /\ waiting' = FALSE /\ queue' = Tail(queue)
  /\ fate' = BecomesOf(Head(queue), how)
  /\ UNCHANGED failsafe
  /\ Goto(t, "next", r)

\* The front goes, how it may have ended, and the next message is tried.
PopAndGo(t, how, r) ==
  /\ failsafe' = FALSE /\ waiting' = FALSE /\ queue' = Tail(queue)
  /\ fate' = BecomesOf(Head(queue), how)
  /\ Goto(t, "next", r)

Ignored(t, r) ==
  /\ UNCHANGED <<failsafe, waiting, queue, fate>>
  /\ Goto(t, "done", r)

HandleAck(t, kind, r) ==
  \/ IsFront(kind) /\ PopAndGo(t, "acked", r)
  \/ ~IsFront(kind) /\ Ignored(t, r)

\* Fault: the last retry is not counted.
LastTryOneMore(m) == m.left = 0

\* retries_left > 0 && --retries_left > 0 is false
LastTry(m) == m.left <= 1

HandleTimeout(t, kind, r) ==
  \/ ~IsFront(kind) /\ Ignored(t, r)
  \/ IsFront(kind) /\ LastTry(Head(queue)) /\ PopAndGo(t, "dropped", r)
  \/ /\ IsFront(kind) /\ ~LastTry(Head(queue))
     /\ queue' = <<[Head(queue) EXCEPT !.left = @ - 1]>> \o Tail(queue)
     /\ waiting' = FALSE
     /\ UNCHANGED <<failsafe, fate>>
     /\ Goto(t, "next", r)

\* An event of the stack reaches the client callback.  One with an error_code, or for a
\* node that is not tracked any more, changes nothing.
ClientCallback(x) ==
  /\ Enter(Btc) /\ x.state # "onair"
  /\ tx' = tx \ {x}
  /\ \/ /\ x.state = "error" \/ ~registered
        /\ UNCHANGED <<failsafe, waiting, queue, fate, taskVars>>
     \/ /\ x.state = "ack" /\ registered
        /\ HandleAck(Btc, x.kind, [event |-> "ack", kind |-> x.kind, value |-> x.value])
     \/ /\ x.state = "timeout" /\ registered
        /\ HandleTimeout(Btc, x.kind, [event |-> "timeout", kind |-> x.kind, value |-> Off])
  /\ UNCHANGED <<hasQueue, fired, nodeVars, light, shown, last>>

\* ble_mesh_reset_node: the entry of node_queues goes, with its messages, and the timer
\* object it owns is neither stopped nor deleted.
ResetNode ==
  /\ registered' = FALSE /\ hasQueue' = FALSE
  /\ queue' = <<>> /\ waiting' = FALSE /\ failsafe' = FALSE /\ fired' = FALSE
  /\ dangling' = (dangling \/ failsafe \/ fired)
  /\ fate' = [i \in Ids |-> IF \E j \in DOMAIN queue : queue[j].id = i
                            THEN [fate[i] EXCEPT !.how = "erased"] ELSE fate[i]]

\* After handle_ack or handle_timeout the manager removes a reset node whose queue is
\* empty, and the callback of an acknowledged reset removes it in any case.
Removes(r) == r.kind = "reset" /\ (r.event = "ack" \/ queue = <<>>)

\* The callback goes on once the queue's code has returned: only now does it store what
\* the event reports.
AfterClientCallback ==
  LET r == rest[Btc]
  IN /\ pc[Btc] = "done" /\ r.event \in {"ack", "timeout"}
     /\ \/ Removes(r) /\ ResetNode /\ UNCHANGED onoff
        \/ /\ ~Removes(r) /\ UNCHANGED <<queueVars, registered, dangling, fate>>
           /\ onoff' = IF r.kind = "set" \/ (r.kind = "get" /\ r.event = "ack")
                       THEN r.value ELSE onoff
     /\ Goto(Btc, "idle", Nothing)
     /\ UNCHANGED <<tx, light, shown, met, last>>

\* The operation is over.
Leave(t) ==
  /\ pc[t] = "done" /\ rest[t].event = "none"
  /\ Goto(t, "idle", Nothing)
  /\ UNCHANGED <<queueVars, nodeVars, tx, light, shown, met, history>>

(***************************************************************************)
(* The failsafe timer                                                      *)
(***************************************************************************)
FailsafeFires ==
  /\ failsafe /\ pc[Timer] = "idle" /\ ~fired
  /\ FailsafeMayBeatStack \/ (tx = {} /\ AllIdle)
  /\ failsafe' = FALSE /\ fired' = TRUE
  /\ UNCHANGED <<hasQueue, queue, waiting, nodeVars, taskVars, tx, light, shown, met, history>>

FailsafeCallback ==
  /\ Enter(Timer) /\ fired
  /\ fired' = FALSE
  /\ \/ queue = <<>> /\ UNCHANGED <<queue, waiting, failsafe, taskVars, fate>>
     \/ queue # <<>> /\ HandleTimeout(Timer, Head(queue).kind, Nothing)
  /\ UNCHANGED <<hasQueue, nodeVars, tx, light, shown, last>>

(***************************************************************************)
(* The stack's events: an answer, or its timeout, whether or not the light *)
(* got the message.  A timeout reports no state.                           *)
(***************************************************************************)
StackReport(x) ==
  LET applied == IF x.kind = "set" THEN x.value ELSE light
  IN /\ x.state = "onair"
     /\ \/ light' = applied /\ tx' = (tx \ {x}) \cup {[x EXCEPT !.state = "ack", !.value = applied]}
        \/ light' \in {light, applied} /\ tx' = (tx \ {x}) \cup {[x EXCEPT !.state = "timeout"]}
     /\ UNCHANGED <<queueVars, nodeVars, taskVars, shown, met, history>>

Step(t) == TrySendNext(t) \/ AfterSend(t) \/ EnqueueStatusPublish(t) \/ Leave(t)

Next ==
  \/ \E t \in Callers, v \in {Off, On} : HaCommand(t, v)
  \/ \E t \in Callers, v \in {Off, On} : WebCommand(t, v)
  \/ \E t \in Callers : Refresh(t)
  \/ \E t \in Callers : Unprovision(t)
  \/ \E t \in Callers : EnqueueStatusPublish(t)
  \/ \E t \in Tasks : TrySendNext(t)
  \/ \E t \in Tasks : AfterSend(t)
  \/ \E t \in Tasks : Leave(t)
  \/ \E x \in tx : ClientCallback(x)
  \/ AfterClientCallback
  \/ FailsafeFires \/ FailsafeCallback
  \/ \E x \in tx : StackReport(x)

Spec == Init /\ [][Next]_vars

\* Tasks run, the stack answers or times out, the timer task runs what has expired.
Fairness ==
  /\ \A t \in Tasks : WF_vars(Step(t))
  /\ WF_vars(\E x \in tx : ClientCallback(x)) /\ WF_vars(AfterClientCallback)
  /\ WF_vars(FailsafeFires) /\ WF_vars(FailsafeCallback)
  /\ WF_vars(\E x \in tx : StackReport(x))

FairSpec == Spec /\ Fairness

(***************************************************************************)
(* Properties                                                              *)
(***************************************************************************)

Budget(kind) == IF kind = "reset" THEN ResetRetries ELSE Retries

ExactTries ==
  \A i \in Ids :
    LET f == fate[i]
    IN /\ f.kind \in MeshKinds => f.tries <= Budget(f.kind)
       /\ f.how = "dropped" => f.tries = Budget(f.kind)

\* A message is given up only after all its transmissions, and never sent more often, up to
\* the first time that two tasks are in the queue's code together.
DropOnlyAfterAllTries == met \/ ExactTries

BehindReset == \E i, j \in Ids : i < j /\ fate[i].kind = "reset" /\ fate[j].how = "erased"

\* The queue of a removed node is destroyed with its failsafe timer running, so that the
\* callback later runs on freed memory, only if something was queued behind the reset, up
\* to the first time that two tasks are in the queue's code together.
DanglesOnlyBehindReset == met \/ ~dangling \/ BehindReset

\* Every message leaves the queue.
EveryMessageEnds == \A i \in Ids : fate[i].how = "queued" ~> fate[i].how # "queued"

\* mqtt_control.cpp:573 says a status is queued behind the Set it follows "so the
\* published state reflects the ack": when the newest command was acknowledged and its
\* status published, Home Assistant shows what the light is.
PublishedReflectsAck ==
  \A i \in Ids :
    AllIdle /\ queue = <<>> /\ tx = {} /\ i + 1 = last
      /\ fate[i].how = "acked" /\ fate[i + 1].how = "published" => shown = light

=============================================================================
