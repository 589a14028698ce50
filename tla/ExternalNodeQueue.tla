------------------------- MODULE ExternalNodeQueue -------------------------
(***************************************************************************)
(* The queue that serializes the Companion edition's outgoing BLE Mesh     *)
(* sends to External Mesh Nodes (ble_mesh/external_node_queue.cpp).        *)
(*                                                                         *)
(* Every entry point takes the queue's mutex, so a step of this module is  *)
(* what a task does between taking the mutex and releasing it.  The one    *)
(* place where the mutex is released half-way is dispatch(), around the    *)
(* call of send(): `calls[t]' says that task t is inside that call, and    *)
(* anything may happen before it takes the mutex again (Return).           *)
(*                                                                         *)
(* The mesh stack below (which transmits, times out and reports) and the   *)
(* two esp_timers are modelled from how the code uses them.                *)
(***************************************************************************)
EXTENDS Naturals, Sequences, FiniteSets

CONSTANTS
  Callers,            \* HTTP, MQTT and console tasks
  Btc,                \* the Bluetooth task, which runs the client callbacks
  Timer,              \* the esp_timer task, which runs every timer callback
  Addrs,              \* unicast addresses of external nodes
  NoAddr,             \* ack_addr = 0: the send is not acknowledged
  Ops,                \* opcodes of acknowledged sends
  NoOp,               \* ack_opcode = 0, of a send that is not acknowledged
  None,               \* an empty std::optional, or a task outside send()
  MaxRetries,         \* external_send_t::retries_left at enqueue (3 in the code)
  MaxSends,           \* bound: how many sends are ever enqueued
  GapMayFail,         \* esp_timer may refuse to arm the gap timer
  GuardMayFail,       \* esp_timer may refuse to arm the guard timer
  StackMayLose,       \* the stack may never call back for a send
  GuardMayBeatStack   \* the guard may expire before the stack's own report

Tasks == Callers \cup {Btc, Timer}
Ids == 1 .. MaxSends
Commands == [addr : Addrs, op : Ops] \cup [addr : {NoAddr}, op : {NoOp}]

ASSUME QueueAssumption ==
  /\ Btc \notin Callers /\ Timer \notin Callers /\ Btc # Timer
  /\ NoAddr \notin Addrs
  /\ MaxRetries \in Nat /\ MaxSends \in Nat
  /\ {GapMayFail, GuardMayFail, StackMayLose, GuardMayBeatStack} \subseteq BOOLEAN

VARIABLES
  queue,        \* queue_: the deque, as the set of its items; `place' is their order
  inflight,     \* inflight_: the acknowledged send waiting for its reply, or None
  inflightGen,  \* inflight_gen_
  sendGen,      \* send_gen_
  guardGen,     \* guard_gen_
  retry,        \* retry_: the send to repeat after the gap, or None
  busy,         \* busy_
  gapArmed,     \* the gap timer is running
  guardArmed,   \* the guard timer is running
  timerCb,      \* the callback the timer task has started, still without the mutex
  calls,        \* per task: the send() call it is inside, or None
  tx,           \* the stack: transactions on air and reports it has posted to Btc
  cmd,          \* history: what was enqueued, in order
  status,       \* history: what became of every send
  tries,        \* history: how often every send was handed to the stack
  forgotten,    \* history: sends whose node was forgotten after they were enqueued
  heard         \* history: sends whose reply was passed on to the node table

qvars == <<queue, inflight, inflightGen, sendGen, guardGen, retry, busy>>
vars == <<qvars, gapArmed, guardArmed, timerCb, calls, tx,
          cmd, status, tries, forgotten, heard>>

Item == [id : Ids, addr : Addrs \cup {NoAddr}, op : Ops \cup {NoOp},
         left : 0 .. MaxRetries, orphaned : BOOLEAN, place : Nat]
Call == [item : Item, gen : Nat, result : {"none", "ok", "fail"}]
Transaction == [gen : Nat, id : Ids, addr : Addrs, op : Ops \cup {NoOp},
                state : {"onair", "acked", "failed"}]

\* An empty std::optional is told apart from every send.
ASSUME NoneAssumption == None \notin Item /\ None \notin Call

Statuses == {"none", "live", "acked", "sent", "gaveup", "superseded", "dropped"}

TypeOK ==
  /\ queue \subseteq Item
  /\ inflight \in Item \cup {None} /\ retry \in Item \cup {None}
  /\ inflightGen \in Nat /\ sendGen \in Nat /\ guardGen \in Nat
  /\ busy \in BOOLEAN /\ gapArmed \in BOOLEAN /\ guardArmed \in BOOLEAN
  /\ timerCb \in {"none", "gap", "guard"}
  /\ calls \in [Tasks -> Call \cup {None}]
  /\ tx \subseteq Transaction
  /\ cmd \in Seq(Commands) /\ Len(cmd) <= MaxSends
  /\ status \in [Ids -> Statuses] /\ tries \in [Ids -> Nat]
  /\ forgotten \subseteq Ids /\ heard \subseteq Ids

Init ==
  /\ queue = {} /\ inflight = None /\ retry = None
  /\ inflightGen = 0 /\ sendGen = 0 /\ guardGen = 0
  /\ busy = FALSE /\ gapArmed = FALSE /\ guardArmed = FALSE /\ timerCb = "none"
  /\ calls = [t \in Tasks |-> None]
  /\ tx = {}
  /\ cmd = <<>>
  /\ status = [i \in Ids |-> "none"] /\ tries = [i \in Ids |-> 0]
  /\ forgotten = {} /\ heard = {}

(***************************************************************************)
(* Helpers                                                                 *)
(***************************************************************************)
Acknowledged(item) == item.addr # NoAddr

\* A task that is free to enter the queue.
Free(t) == calls[t] = None /\ (t = Timer => timerCb = "none")

First(items) == {i \in items : \A j \in items : i.place <= j.place}

\* Fault: supersede whatever is queued for the node, whichever opcode it has.
SupersededAnyOp(c) ==
  IF c.addr = NoAddr THEN {} ELSE First({i \in queue : i.addr = c.addr})

\* The queued item a new acknowledged send supersedes: the first to its address and opcode.
Superseded(c) ==
  IF c.addr = NoAddr THEN {} ELSE First({i \in queue : i.addr = c.addr /\ i.op = c.op})

\* push_back: the new item goes behind every other.
PlaceOfNew(old) == Len(cmd) + 1

Retriable(item) == item.left > 0

\* Fault: let the reply through.
OrphanStillHeard(item) == [item EXCEPT !.left = 0]

\* What drop_pending_for makes of the send in flight to a forgotten node.
Orphan(item) == [item EXCEPT !.orphaned = TRUE, !.left = 0]

\* Fault: forget that on_send_complete may have ended this send and another has begun.
StillAnyInFlight(t) == inflight # None

\* Back from send(): inflight_ is still the send this call was for.
StillInFlight(t) == inflight # None /\ inflightGen = calls[t].gen

(***************************************************************************)
(* dispatch(), from the state (q, r, inf) its caller has made of queue_,   *)
(* retry_ and inflight_, up to the point where it unlocks to call send().  *)
(***************************************************************************)
\* Fault: busy_ is not raised.
SendNotBusy(t, item, inf) ==
  /\ UNCHANGED busy
  /\ sendGen' = sendGen + 1
  /\ inflight' = IF Acknowledged(item) THEN item ELSE inf
  /\ inflightGen' = IF Acknowledged(item) THEN sendGen + 1 ELSE inflightGen
  /\ calls' = [calls EXCEPT ![t] = [item |-> item, gen |-> sendGen + 1, result |-> "none"]]
  /\ tries' = [tries EXCEPT ![item.id] = @ + 1]

Send(t, item, inf) ==
  /\ busy' = TRUE
  /\ sendGen' = sendGen + 1
  /\ inflight' = IF Acknowledged(item) THEN item ELSE inf
  /\ inflightGen' = IF Acknowledged(item) THEN sendGen + 1 ELSE inflightGen
  /\ calls' = [calls EXCEPT ![t] = [item |-> item, gen |-> sendGen + 1, result |-> "none"]]
  /\ tries' = [tries EXCEPT ![item.id] = @ + 1]

\* Fault: the deque goes before the retry.
DispatchQueueFirst(t, q, r, inf) ==
  \/ /\ r # None /\ q = {}
     /\ queue' = q /\ retry' = None
     /\ Send(t, r, inf)
  \/ /\ retry' = r
     /\ \E item \in First(q) : queue' = q \ {item} /\ Send(t, item, inf)
  \/ /\ r = None /\ q = {}
     /\ queue' = q /\ retry' = None /\ inflight' = inf
     /\ busy' = FALSE
     /\ calls' = [calls EXCEPT ![t] = None]
     /\ UNCHANGED <<inflightGen, sendGen, tries>>

Dispatch(t, q, r, inf) ==
  \/ /\ r # None
     /\ queue' = q /\ retry' = None
     /\ Send(t, r, inf)
  \/ /\ r = None
     /\ retry' = None
     /\ \E item \in First(q) : queue' = q \ {item} /\ Send(t, item, inf)
  \/ /\ r = None /\ q = {}
     /\ queue' = q /\ retry' = None /\ inflight' = inf
     /\ busy' = FALSE
     /\ calls' = [calls EXCEPT ![t] = None]
     /\ UNCHANGED <<inflightGen, sendGen, tries>>

\* start_gap(): arm the gap timer, or dispatch at once when it cannot be armed.
StartGap(t, r, inf) ==
  \/ /\ ~gapArmed /\ gapArmed' = TRUE
     /\ retry' = r /\ inflight' = inf
     /\ calls' = [calls EXCEPT ![t] = None]
     /\ UNCHANGED <<queue, inflightGen, sendGen, busy, tries>>
  \/ /\ gapArmed \/ GapMayFail
     /\ Dispatch(t, queue, r, inf)
     /\ UNCHANGED gapArmed

\* finish(): inflight_ has been taken out; schedule its retry or let it go.
Finish(t, item, acked) ==
  LET again == ~acked /\ Retriable(item)
  IN /\ StartGap(t, IF again THEN [item EXCEPT !.left = @ - 1] ELSE retry, None)
     /\ status' = [status EXCEPT ![item.id] =
                     IF acked THEN "acked" ELSE IF again THEN "live" ELSE "gaveup"]

(***************************************************************************)
(* Entry points                                                            *)
(***************************************************************************)
Enqueue(t, c) ==
  LET id  == Len(cmd) + 1
      old == Superseded(c)
      new == [id |-> id, addr |-> c.addr, op |-> c.op, left |-> MaxRetries,
              orphaned |-> FALSE, place |-> PlaceOfNew(old)]
      q   == (queue \ old) \cup {new}
  IN /\ Free(t) /\ Len(cmd) < MaxSends
     /\ cmd' = Append(cmd, c)
     /\ status' = [i \in Ids |-> IF i = id THEN "live"
                                 ELSE IF \E o \in old : o.id = i THEN "superseded"
                                 ELSE status[i]]
     /\ \/ /\ busy
           /\ queue' = q
           /\ UNCHANGED <<inflight, inflightGen, sendGen, retry, busy, calls, tries>>
        \/ ~busy /\ Dispatch(t, q, retry, inflight)
     /\ UNCHANGED <<guardGen, gapArmed, guardArmed, timerCb, tx, forgotten, heard>>

\* drop_pending_for(): the node at addr is being forgotten.
DropPendingFor(t, addr) ==
  LET hit == {i \in queue : i.addr = addr}
             \cup {i \in {retry} \ {None} : i.addr = addr}
  IN /\ t # Timer /\ Free(t)
     /\ queue' = {i \in queue : i.addr # addr}
     /\ retry' = IF retry # None /\ retry.addr = addr THEN None ELSE retry
     /\ inflight' = IF inflight # None /\ inflight.addr = addr
                    THEN Orphan(inflight) ELSE inflight
     /\ status' = [i \in Ids |-> IF \E h \in hit : h.id = i THEN "dropped" ELSE status[i]]
     /\ forgotten' = forgotten \cup {i \in DOMAIN cmd : cmd[i].addr = addr}
     /\ UNCHANGED <<inflightGen, sendGen, guardGen, busy, gapArmed, guardArmed, timerCb,
                    calls, tx, cmd, tries, heard>>

\* on_send_complete(), from a client callback: report x says how a transaction ended.
\* Unless it returns that the send was orphaned, an ack goes on to the node table.
OnSendComplete(x) ==
  LET acked   == x.state = "acked"
      matches == inflight # None /\ inflight.addr = x.addr /\ inflight.op = x.op
  IN /\ x.state # "onair" /\ calls[Btc] = None
     /\ tx' = tx \ {x}
     /\ heard' = IF acked /\ ~(matches /\ inflight.orphaned) THEN heard \cup {x.id} ELSE heard
     /\ \/ /\ ~matches
           /\ UNCHANGED <<qvars, gapArmed, guardArmed, calls, status, tries>>
        \/ /\ matches
           /\ guardArmed' = FALSE
           /\ Finish(Btc, inflight, acked)
           /\ UNCHANGED guardGen
     /\ UNCHANGED <<timerCb, cmd, forgotten>>

(***************************************************************************)
(* The rest of dispatch(), once send() has returned and the mutex is held  *)
(* again.                                                                  *)
(***************************************************************************)
ReturnUnacknowledged(t) ==
  /\ calls[t] # None /\ calls[t].result # "none" /\ ~Acknowledged(calls[t].item)
  /\ StartGap(t, retry, inflight)
  /\ status' = [status EXCEPT ![calls[t].item.id] = "sent"]
  /\ UNCHANGED <<guardGen, guardArmed, timerCb, tx, cmd, forgotten, heard>>

ReturnAcknowledged(t) ==
  LET mine == StillInFlight(t)
  IN /\ calls[t] # None /\ calls[t].result # "none" /\ Acknowledged(calls[t].item)
     /\ \/ /\ ~mine                              \* already completed by on_send_complete
           /\ calls' = [calls EXCEPT ![t] = None]
           /\ UNCHANGED <<qvars, gapArmed, guardArmed, status, tries>>
        \/ /\ mine /\ calls[t].result = "fail"
           /\ Finish(t, inflight, FALSE)
           /\ UNCHANGED <<guardGen, guardArmed>>
        \/ /\ mine /\ calls[t].result = "ok"
           /\ calls' = [calls EXCEPT ![t] = None]
           /\ \/ guardArmed' = TRUE /\ guardGen' = calls[t].gen
              \/ GuardMayFail /\ guardArmed' = FALSE /\ UNCHANGED guardGen
           /\ UNCHANGED <<queue, inflight, inflightGen, sendGen, retry, busy, gapArmed,
                          status, tries>>
     /\ UNCHANGED <<timerCb, tx, cmd, forgotten, heard>>

(***************************************************************************)
(* Timers.  One task runs all callbacks, so a timer only fires when that   *)
(* task is free; its callback then waits for the mutex.                    *)
(***************************************************************************)
GapFires ==
  /\ gapArmed /\ Free(Timer)
  /\ gapArmed' = FALSE /\ timerCb' = "gap"
  /\ UNCHANGED <<qvars, guardArmed, calls, tx, cmd, status, tries, forgotten, heard>>

\* ACK_GUARD_US is 1.5 s above the stack's own timeout: unless GuardMayBeatStack, it
\* expires only once the stack has no transaction left for the guarded send.
GuardFires ==
  /\ guardArmed /\ Free(Timer)
  /\ GuardMayBeatStack \/ \A x \in tx : x.gen # guardGen
  /\ guardArmed' = FALSE /\ timerCb' = "guard"
  /\ UNCHANGED <<qvars, gapArmed, calls, tx, cmd, status, tries, forgotten, heard>>

GapTimerCb ==
  /\ timerCb = "gap" /\ timerCb' = "none"
  /\ Dispatch(Timer, queue, retry, inflight)
  /\ UNCHANGED <<guardGen, gapArmed, guardArmed, tx, cmd, status, forgotten, heard>>

GuardTimerCb ==
  LET stale == inflight = None \/ inflightGen # guardGen
  IN /\ timerCb = "guard" /\ timerCb' = "none"
     /\ \/ stale /\ UNCHANGED <<qvars, gapArmed, calls, status, tries>>
        \/ ~stale /\ Finish(Timer, inflight, FALSE) /\ UNCHANGED guardGen
     /\ UNCHANGED <<guardArmed, tx, cmd, forgotten, heard>>

(***************************************************************************)
(* The mesh stack: send() hands it a message or fails; an acknowledged one *)
(* stays on air until its reply or the stack's timeout is posted to Btc.   *)
(* It refuses ("Busy") a second transaction to an address, by a report.    *)
(***************************************************************************)
OnAirTo(addr) == {x \in tx : x.addr = addr /\ x.state = "onair"}

StackSend(t) ==
  LET item == calls[t].item
  IN /\ calls[t] # None /\ calls[t].result = "none"
     /\ \/ /\ calls' = [calls EXCEPT ![t].result = "ok"]
           /\ tx' = IF ~Acknowledged(item) THEN tx
                    ELSE tx \cup {[gen |-> calls[t].gen, id |-> item.id, addr |-> item.addr,
                                   op |-> item.op,
                                   state |-> IF OnAirTo(item.addr) = {} THEN "onair" ELSE "failed"]}
        \/ calls' = [calls EXCEPT ![t].result = "fail"] /\ UNCHANGED tx
     /\ UNCHANGED <<qvars, gapArmed, guardArmed, timerCb, cmd, status, tries, forgotten, heard>>

StackReport(x) ==
  /\ x.state = "onair"
  /\ \/ \E s \in {"acked", "failed"} : tx' = (tx \ {x}) \cup {[x EXCEPT !.state = s]}
     \/ StackMayLose /\ tx' = tx \ {x}
  /\ UNCHANGED <<qvars, gapArmed, guardArmed, timerCb, calls, cmd, status, tries, forgotten, heard>>

Return(t) == ReturnUnacknowledged(t) \/ ReturnAcknowledged(t)

Next ==
  \/ \E t \in Tasks, c \in Commands : Enqueue(t, c)
  \/ \E t \in Tasks, a \in Addrs : DropPendingFor(t, a)
  \/ \E x \in tx : OnSendComplete(x)
  \/ \E t \in Tasks : ReturnUnacknowledged(t)
  \/ \E t \in Tasks : ReturnAcknowledged(t)
  \/ GapFires \/ GuardFires \/ GapTimerCb \/ GuardTimerCb
  \/ \E t \in Tasks : StackSend(t)
  \/ \E x \in tx : StackReport(x)

Spec == Init /\ [][Next]_vars

(***************************************************************************)
(* Fairness: tasks are scheduled, the timer task runs what has expired,    *)
(* the stack ends every transaction; no more is asked than that one of     *)
(* them goes on.  New sends are nobody's obligation.                       *)
(***************************************************************************)
GoesOn ==
  \/ \E t \in Tasks : StackSend(t) \/ Return(t)
  \/ GapFires \/ GuardFires \/ GapTimerCb \/ GuardTimerCb
  \/ \E x \in tx : OnSendComplete(x) \/ StackReport(x)

Fairness == WF_vars(GoesOn)

FairSpec == Spec /\ Fairness

(***************************************************************************)
(* Properties                                                              *)
(***************************************************************************)
Unacked(t) == calls[t] # None /\ ~Acknowledged(calls[t].item)

\* busy_ means that exactly one thing drives the queue on: the send in flight, the gap
\* timer, its callback, or a task inside an unacknowledged send().  Two drivers would
\* put two sends on air; none while busy would stall the queue for good.
OneDriver ==
  /\ busy <=> inflight # None \/ gapArmed \/ timerCb = "gap" \/ \E t \in Tasks : Unacked(t)
  /\ inflight # None => ~gapArmed /\ timerCb # "gap"
  /\ gapArmed => timerCb # "gap"
  /\ \A t \in Tasks : Unacked(t) => /\ inflight = None /\ ~gapArmed /\ timerCb # "gap"
                                    /\ \A u \in Tasks : Unacked(u) => u = t
  /\ ~busy => queue = {} /\ retry = None

Newest(i) == i \in DOMAIN cmd /\ \A j \in DOMAIN cmd : j > i => cmd[j] # cmd[i]

\* When the queue falls idle everything is settled, and for every node and opcode the
\* newest command has been transmitted unless its node was forgotten: superseding a
\* queued command never loses the value that should win.
IdleMeansSettled ==
  ~busy => \A i \in DOMAIN cmd :
             /\ status[i] # "live"
             /\ Newest(i) => tries[i] > 0 \/ i \in forgotten

\* The reply to a send whose node has been forgotten does not reach the node table, where it
\* would bring the node back; only one that comes when the queue is done with its send,
\* because the guard was faster than the stack, may.
ForgottenNotHeard == [][\A i \in heard' \ heard : i \in forgotten => status[i] # "live"]_vars

\* Whatever is enqueued, the queue falls idle with every send settled: the bound ends what is
\* new, nothing else may keep it busy.
EverySendSettles == []<>(~busy /\ \A i \in Ids : status[i] # "live")

\* The queue implements what it promises its callers: serial, ordered, bounded delivery
\* with superseding, which stops for a node that is forgotten.
Delivery == INSTANCE SerialDelivery
              WITH Addrs <- Addrs, NoAddr <- NoAddr, Ops <- Ops, NoOp <- NoOp,
                   MaxRetries <- MaxRetries, MaxSends <- MaxSends,
                   cmd <- cmd, status <- status, tries <- tries, forgotten <- forgotten
ImplementsSerialDelivery == Delivery!Spec
=============================================================================
