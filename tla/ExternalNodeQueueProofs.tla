----------------------- MODULE ExternalNodeQueueProofs -----------------------
(***************************************************************************)
(* Theorems about ExternalNodeQueue, and that it implements                *)
(* SerialDelivery, for every number of tasks, nodes, opcodes, sends and    *)
(* retries, and whatever the stack and timers do.                          *)
(***************************************************************************)
EXTENDS ExternalNodeQueue, TLAPS

(***************************************************************************)
(* Types.  The helpers first: whatever well-typed deque, retry slot and    *)
(* in-flight slot dispatch() starts from, it leaves well-typed ones.       *)
(***************************************************************************)
SlotType == Item \cup {None}

\* What dispatch() and start_gap() write.
DrivenTypeOK ==
  /\ queue \subseteq Item /\ inflight \in SlotType /\ retry \in SlotType
  /\ inflightGen \in Nat /\ sendGen \in Nat
  /\ busy \in BOOLEAN
  /\ calls \in [Tasks -> Call \cup {None}]
  /\ tries \in [Ids -> Nat]

LEMMA SendType ==
  ASSUME TypeOK, NEW t \in Tasks, NEW item \in Item, NEW inf \in SlotType,
         Send(t, item, inf)
  PROVE  /\ inflight' \in SlotType /\ inflightGen' \in Nat /\ sendGen' \in Nat
         /\ busy' \in BOOLEAN
         /\ calls' \in [Tasks -> Call \cup {None}] /\ tries' \in [Ids -> Nat]
<1> DEFINE c == [item |-> item, gen |-> sendGen + 1, result |-> "none"]
<1>1. sendGen + 1 \in Nat
  BY DEF TypeOK
<1>2. c \in Call
  BY <1>1 DEF Call
<1>3. calls' \in [Tasks -> Call \cup {None}]
  BY <1>2 DEF Send, TypeOK
<1>4. item.id \in Ids
  BY DEF Item
<1>5. tries' \in [Ids -> Nat]
  BY <1>4 DEF Send, TypeOK
<1>6. QED
  BY <1>1, <1>3, <1>5 DEF Send, TypeOK, SlotType

LEMMA DispatchType ==
  ASSUME TypeOK, NEW t \in Tasks, NEW q \in SUBSET Item,
         NEW r \in SlotType, NEW inf \in SlotType,
         Dispatch(t, q, r, inf)
  PROVE  DrivenTypeOK'
<1>1. CASE r # None /\ queue' = q /\ retry' = None /\ Send(t, r, inf)
  <2>1. r \in Item
    BY <1>1 DEF SlotType
  <2>2. QED
    BY <1>1, <2>1, SendType DEF DrivenTypeOK, SlotType
<1>2. CASE /\ retry' = None
           /\ \E item \in First(q) : queue' = q \ {item} /\ Send(t, item, inf)
  <2>1. PICK item \in First(q) : queue' = q \ {item} /\ Send(t, item, inf)
    BY <1>2
  <2>2. item \in Item
    BY DEF First
  <2>3. QED
    BY <1>2, <2>1, <2>2, SendType DEF DrivenTypeOK, SlotType
<1>3. CASE /\ queue' = q /\ retry' = None /\ inflight' = inf /\ busy' = FALSE
           /\ calls' = [calls EXCEPT ![t] = None]
           /\ UNCHANGED <<inflightGen, sendGen, tries>>
  BY <1>3 DEF TypeOK, DrivenTypeOK, SlotType
<1>4. QED
  BY <1>1, <1>2, <1>3 DEF Dispatch

LEMMA StartGapType ==
  ASSUME TypeOK, NEW t \in Tasks, NEW r \in SlotType, NEW inf \in SlotType,
         StartGap(t, r, inf)
  PROVE  DrivenTypeOK' /\ gapArmed' \in BOOLEAN
<1>1. CASE /\ gapArmed' = TRUE /\ retry' = r /\ inflight' = inf
           /\ calls' = [calls EXCEPT ![t] = None]
           /\ UNCHANGED <<queue, inflightGen, sendGen, busy, tries>>
  BY <1>1 DEF TypeOK, DrivenTypeOK, SlotType
<1>2. CASE Dispatch(t, queue, r, inf) /\ UNCHANGED gapArmed
  <2>1. queue \in SUBSET Item
    BY DEF TypeOK
  <2>2. QED
    BY <1>2, <2>1, DispatchType DEF TypeOK
<1>3. QED
  BY <1>1, <1>2 DEF StartGap

\* The retry slot finish() leaves is well-typed.
LEMMA NextSlotType ==
  ASSUME TypeOK, inflight # None, NEW acked \in BOOLEAN
  PROVE  (IF ~acked /\ Retriable(inflight) THEN [inflight EXCEPT !.left = @ - 1] ELSE retry)
           \in SlotType
<1>1. inflight \in Item
  BY DEF TypeOK
<1>2. CASE ~acked /\ Retriable(inflight)
  <2>1. inflight.left - 1 \in 0 .. MaxRetries
    BY <1>1, <1>2, QueueAssumption DEF Retriable, Item
  <2>2. QED
    BY <1>1, <1>2, <2>1 DEF SlotType, Item
<1>3. CASE ~(~acked /\ Retriable(inflight))
  BY <1>3 DEF TypeOK, SlotType
<1>4. QED
  BY <1>2, <1>3

\* Forgetting a node leaves its send in flight a send.
LEMMA OrphanIsItem == ASSUME NEW item \in Item PROVE Orphan(item) \in Item
<1>1. [item EXCEPT !.orphaned = TRUE] \in Item
  BY DEF Item
<1>2. 0 \in 0 .. MaxRetries
  BY QueueAssumption
<1>3. [[item EXCEPT !.orphaned = TRUE] EXCEPT !.left = 0] \in Item
  BY <1>1, <1>2 DEF Item
<1>4. QED
  BY <1>3 DEF Orphan

LEMMA FinishType ==
  ASSUME TypeOK, NEW t \in Tasks, inflight # None, NEW acked \in BOOLEAN,
         Finish(t, inflight, acked)
  PROVE  /\ DrivenTypeOK' /\ gapArmed' \in BOOLEAN
         /\ status' \in [Ids -> Statuses]
<1> DEFINE again == ~acked /\ Retriable(inflight)
           next  == IF again THEN [inflight EXCEPT !.left = @ - 1] ELSE retry
<1>1. inflight \in Item /\ inflight.id \in Ids
  BY DEF TypeOK, Item
<1>2. next \in SlotType
  BY NextSlotType
<1>3. StartGap(t, next, None)
  BY DEF Finish
<1>4. DrivenTypeOK' /\ gapArmed' \in BOOLEAN
  <2> HIDE DEF next
  <2>1. None \in SlotType
    BY DEF SlotType
  <2>2. QED
    BY <1>2, <1>3, <2>1, StartGapType
<1>5. status' \in [Ids -> Statuses]
  BY <1>1 DEF Finish, TypeOK, Statuses
<1>6. QED
  BY <1>4, <1>5
\* The deque enqueue() makes of queue_ for a command c.
EnqueuedTo(c) ==
  (queue \ Superseded(c))
    \cup {[id |-> Len(cmd) + 1, addr |-> c.addr, op |-> c.op, left |-> MaxRetries,
          orphaned |-> FALSE, place |-> PlaceOfNew(Superseded(c))]}

LEMMA EnqueuedType ==
  ASSUME TypeOK, NEW c \in Commands, Len(cmd) < MaxSends
  PROVE  EnqueuedTo(c) \in SUBSET Item
<1>1. Len(cmd) + 1 \in Ids /\ Len(cmd) \in Nat
  BY QueueAssumption DEF TypeOK, Ids
<1>2. [id |-> Len(cmd) + 1, addr |-> c.addr, op |-> c.op, left |-> MaxRetries,
       orphaned |-> FALSE, place |-> PlaceOfNew(Superseded(c))] \in Item
  BY <1>1, QueueAssumption DEF Item, PlaceOfNew, Commands
<1>3. QED
  BY <1>2 DEF TypeOK, EnqueuedTo

LEMMA InitType == Init => TypeOK
<1> SUFFICES ASSUME Init PROVE TypeOK
  OBVIOUS
<1>1. cmd \in Seq(Commands) /\ Len(cmd) <= MaxSends
  BY QueueAssumption DEF Init
<1>2. QED
  BY <1>1 DEF Init, TypeOK, Statuses

LEMMA NextType == TypeOK /\ [Next]_vars => TypeOK'
<1> SUFFICES ASSUME TypeOK, [Next]_vars PROVE TypeOK'
  OBVIOUS
<1> USE DEF SlotType
<1>1. ASSUME NEW t \in Tasks, NEW c \in Commands, Enqueue(t, c) PROVE TypeOK'
  <2> DEFINE q == EnqueuedTo(c)
  <2>3. q \in SUBSET Item
    BY <1>1, EnqueuedType DEF Enqueue
  <2>4. cmd' \in Seq(Commands) /\ Len(cmd') <= MaxSends
    BY <1>1, QueueAssumption DEF Enqueue, TypeOK
  <2>5. status' \in [Ids -> Statuses]
    BY <1>1 DEF Enqueue, TypeOK, Statuses
  <2>6. DrivenTypeOK'
    <3>1. CASE /\ queue' = q
               /\ UNCHANGED <<inflight, inflightGen, sendGen, retry, busy, calls, tries>>
      BY <2>3, <3>1 DEF TypeOK, DrivenTypeOK
    <3>2. CASE Dispatch(t, q, retry, inflight)
      <4> HIDE DEF q
      <4>1. QED
        BY <2>3, <3>2, DispatchType DEF TypeOK
    <3>3. QED
      BY <1>1, <3>1, <3>2 DEF Enqueue, EnqueuedTo
  <2>7. QED
    BY <1>1, <2>4, <2>5, <2>6 DEF Enqueue, TypeOK, DrivenTypeOK
<1>2. ASSUME NEW t \in Tasks, NEW a \in Addrs, DropPendingFor(t, a) PROVE TypeOK'
  <2>1. inflight' \in SlotType
    <3>1. CASE inflight \in Item /\ inflight' = Orphan(inflight)
      BY <3>1, OrphanIsItem
    <3>2. CASE inflight' = inflight
      BY <3>2 DEF TypeOK
    <3>3. QED
      BY <1>2, <3>1, <3>2 DEF DropPendingFor, TypeOK
  <2>2. status' \in [Ids -> Statuses]
    BY <1>2 DEF DropPendingFor, TypeOK, Statuses
  <2>3. forgotten' \subseteq Ids
    <3>1. DOMAIN cmd = 1 .. Len(cmd) /\ Len(cmd) \in Nat /\ Len(cmd) <= MaxSends
      BY DEF TypeOK
    <3>2. DOMAIN cmd \subseteq Ids
      BY <3>1, QueueAssumption DEF Ids
    <3>3. forgotten' = forgotten \cup {i \in DOMAIN cmd : cmd[i].addr = a}
      BY <1>2 DEF DropPendingFor
    <3>4. QED
      BY <3>2, <3>3 DEF TypeOK
  <2>4. QED
    BY <1>2, <2>1, <2>2, <2>3 DEF DropPendingFor, TypeOK
<1>3. ASSUME NEW x \in tx, OnSendComplete(x) PROVE TypeOK'
  <2>1. tx' \subseteq Transaction /\ heard' \subseteq Ids
    BY <1>3 DEF OnSendComplete, TypeOK, Transaction
  <2>2. CASE UNCHANGED <<qvars, gapArmed, guardArmed, calls, status, tries>>
    BY <1>3, <2>1, <2>2 DEF OnSendComplete, TypeOK, qvars
  <2>3. CASE /\ inflight # None /\ guardArmed' = FALSE /\ UNCHANGED guardGen
             /\ Finish(Btc, inflight, x.state = "acked")
    <3>1. Btc \in Tasks
      BY DEF Tasks
    <3>2. DrivenTypeOK' /\ gapArmed' \in BOOLEAN /\ status' \in [Ids -> Statuses]
      BY <2>3, <3>1, FinishType
    <3>3. QED
      BY <1>3, <2>1, <2>3, <3>2 DEF OnSendComplete, TypeOK, DrivenTypeOK
  <2>4. QED
    BY <1>3, <2>2, <2>3 DEF OnSendComplete
<1>4. ASSUME NEW t \in Tasks, ReturnUnacknowledged(t) PROVE TypeOK'
  <2>1. DrivenTypeOK' /\ gapArmed' \in BOOLEAN
    BY <1>4, StartGapType DEF ReturnUnacknowledged, TypeOK
  <2>2. QED
    BY <1>4, <2>1 DEF ReturnUnacknowledged, TypeOK, DrivenTypeOK, Statuses
<1>5. ASSUME NEW t \in Tasks, ReturnAcknowledged(t) PROVE TypeOK'
  <2>1. CASE /\ calls' = [calls EXCEPT ![t] = None]
             /\ UNCHANGED <<qvars, gapArmed, guardArmed, status, tries>>
    BY <1>5, <2>1 DEF ReturnAcknowledged, TypeOK, qvars
  <2>2. CASE /\ StillInFlight(t) /\ Finish(t, inflight, FALSE)
             /\ UNCHANGED <<guardGen, guardArmed>>
    <3>1. DrivenTypeOK' /\ gapArmed' \in BOOLEAN /\ status' \in [Ids -> Statuses]
      BY <2>2, FinishType DEF StillInFlight
    <3>2. QED
      BY <1>5, <2>2, <3>1 DEF ReturnAcknowledged, TypeOK, DrivenTypeOK
  <2>3. CASE /\ calls[t] # None /\ calls' = [calls EXCEPT ![t] = None]
             /\ \/ guardArmed' = TRUE /\ guardGen' = calls[t].gen
                \/ GuardMayFail /\ guardArmed' = FALSE /\ UNCHANGED guardGen
             /\ UNCHANGED <<queue, inflight, inflightGen, sendGen, retry, busy, gapArmed,
                            status, tries>>
    <3>1. calls[t] \in Call /\ calls[t].gen \in Nat
      BY <2>3 DEF TypeOK, Call
    <3>2. QED
      BY <1>5, <2>3, <3>1 DEF ReturnAcknowledged, TypeOK
  <2>4. QED
    BY <1>5, <2>1, <2>2, <2>3 DEF ReturnAcknowledged
<1>6. CASE GapFires
  BY <1>6 DEF GapFires, TypeOK, qvars
<1>7. CASE GuardFires
  BY <1>7 DEF GuardFires, TypeOK, qvars
<1>8. CASE GapTimerCb
  <2>1. DrivenTypeOK'
    <3>1. Timer \in Tasks /\ queue \in SUBSET Item
      BY DEF Tasks, TypeOK
    <3>2. QED
      BY <1>8, <3>1, DispatchType DEF GapTimerCb, TypeOK
  <2>2. QED
    BY <1>8, <2>1 DEF GapTimerCb, TypeOK, DrivenTypeOK
<1>9. CASE GuardTimerCb
  <2>1. CASE UNCHANGED <<qvars, gapArmed, calls, status, tries>>
    BY <1>9, <2>1 DEF GuardTimerCb, TypeOK, qvars
  <2>2. CASE inflight # None /\ Finish(Timer, inflight, FALSE) /\ UNCHANGED guardGen
    <3>1. Timer \in Tasks
      BY DEF Tasks
    <3>2. DrivenTypeOK' /\ gapArmed' \in BOOLEAN /\ status' \in [Ids -> Statuses]
      BY <2>2, <3>1, FinishType
    <3>3. QED
      BY <1>9, <2>2, <3>2 DEF GuardTimerCb, TypeOK, DrivenTypeOK
  <2>3. QED
    BY <1>9, <2>1, <2>2 DEF GuardTimerCb
<1>10. ASSUME NEW t \in Tasks, StackSend(t) PROVE TypeOK'
  <2>1. calls[t] \in Call /\ calls[t].item \in Item /\ calls[t].gen \in Nat
    BY <1>10 DEF StackSend, TypeOK, Call
  <2>2. calls' \in [Tasks -> Call \cup {None}]
    <3>1. \A r \in {"ok", "fail"} : [calls[t] EXCEPT !.result = r] \in Call
      BY <2>1 DEF Call
    <3>2. \E r \in {"ok", "fail"} :
            calls' = [calls EXCEPT ![t] = [calls[t] EXCEPT !.result = r]]
      BY <1>10 DEF StackSend
    <3>3. QED
      BY <3>1, <3>2 DEF TypeOK
  <2>3. tx' \subseteq Transaction
    <3> DEFINE new == [gen |-> calls[t].gen, id |-> calls[t].item.id,
                       addr |-> calls[t].item.addr, op |-> calls[t].item.op,
                       state |-> IF OnAirTo(calls[t].item.addr) = {} THEN "onair" ELSE "failed"]
    <3>1. CASE UNCHANGED tx
      BY <3>1 DEF TypeOK
    <3>2. CASE Acknowledged(calls[t].item) /\ tx' = tx \cup {new}
      <4>1. calls[t].item.addr \in Addrs /\ calls[t].item.op \in Ops \cup {NoOp}
        BY <2>1, <3>2 DEF Acknowledged, Item
      <4>2. new \in Transaction
        BY <2>1, <4>1 DEF Transaction, Item
      <4>3. QED
        BY <3>2, <4>2 DEF TypeOK
    <3>3. QED
      BY <1>10, <3>1, <3>2 DEF StackSend
  <2>4. QED
    BY <1>10, <2>2, <2>3 DEF StackSend, TypeOK, qvars
<1>11. ASSUME NEW x \in tx, StackReport(x) PROVE TypeOK'
  <2>1. ASSUME NEW s \in {"acked", "failed"} PROVE [x EXCEPT !.state = s] \in Transaction
    BY <2>1 DEF TypeOK, Transaction
  <2>2. tx' \subseteq Transaction
    BY <1>11, <2>1 DEF StackReport, TypeOK
  <2>3. QED
    BY <1>11, <2>2 DEF StackReport, TypeOK, qvars
<1>12. CASE UNCHANGED vars
  BY <1>12 DEF TypeOK, vars, qvars
<1>13. QED
  BY <1>1, <1>2, <1>3, <1>4, <1>5, <1>6, <1>7, <1>8, <1>9, <1>10, <1>11, <1>12 DEF Next

\* Every reachable state is well-typed: retry budgets and opcodes stay in range, every
\* task is inside at most one send(), and the history only speaks of enqueued sends.
THEOREM TypeCorrect == Spec => []TypeOK
BY InitType, NextType, PTL DEF Spec
(***************************************************************************)
(* One driver.  OneDriver is not inductive by itself: a gap callback that  *)
(* dispatches while the timer task was still inside another send() would   *)
(* overwrite that call, so the invariant also says the timer task starts   *)
(* a callback only when it is outside send().                              *)
(***************************************************************************)
TimerAlone == timerCb # "none" => calls[Timer] = None

DriverInv == TypeOK /\ OneDriver /\ TimerAlone

\* dispatch(), entered by t when nothing else drives the queue, leaves one driver or an
\* idle queue.
LEMMA DispatchDrives ==
  ASSUME TypeOK, NEW t \in Tasks, NEW q \in SUBSET Item, NEW r \in SlotType,
         Dispatch(t, q, r, None),
         ~gapArmed', timerCb' # "gap",
         \A u \in Tasks \ {t} : ~Unacked(u)
  PROVE  OneDriver'
<1>1. ASSUME NEW item \in Item, Send(t, item, None), retry' = None
      PROVE  OneDriver'
  <2>1. /\ calls'[t] # None /\ calls'[t].item = item
        /\ \A u \in Tasks \ {t} : calls'[u] = calls[u]
    <3>1. [item |-> item, gen |-> sendGen + 1, result |-> "none"] \in Call
      BY DEF Call, TypeOK
    <3>2. QED
      BY <1>1, <3>1, NoneAssumption DEF Send, TypeOK
  <2>2. \A u \in Tasks : Unacked(u)' <=> u = t /\ ~Acknowledged(item)
    BY <2>1 DEF Unacked, Acknowledged
  <2>3. inflight' # None <=> Acknowledged(item)
    BY <1>1, NoneAssumption DEF Send, Acknowledged
  <2>4. busy'
    BY <1>1 DEF Send
  <2>5. QED
    BY <2>2, <2>3, <2>4 DEF OneDriver
<1>2. CASE r # None /\ retry' = None /\ Send(t, r, None)
  BY <1>1, <1>2 DEF SlotType
<1>3. CASE retry' = None /\ \E item \in First(q) : Send(t, item, None)
  BY <1>1, <1>3 DEF First
<1>4. CASE /\ q = {} /\ queue' = q /\ retry' = None /\ inflight' = None /\ busy' = FALSE
           /\ calls' = [calls EXCEPT ![t] = None]
  <2>1. \A u \in Tasks : ~Unacked(u)'
    BY <1>4 DEF Unacked, TypeOK
  <2>2. QED
    BY <1>4, <2>1 DEF OneDriver
<1>5. QED
  BY <1>2, <1>3, <1>4 DEF Dispatch

LEMMA StartGapDrives ==
  ASSUME TypeOK, NEW t \in Tasks, NEW r \in SlotType,
         StartGap(t, r, None),
         busy, ~gapArmed, timerCb # "gap", timerCb' # "gap",
         \A u \in Tasks \ {t} : ~Unacked(u)
  PROVE  OneDriver'
<1>1. CASE /\ gapArmed' = TRUE /\ inflight' = None /\ UNCHANGED busy
           /\ calls' = [calls EXCEPT ![t] = None]
  <2>1. \A u \in Tasks : ~Unacked(u)'
    BY <1>1 DEF Unacked, TypeOK
  <2>2. QED
    BY <1>1, <2>1 DEF OneDriver
<1>2. CASE Dispatch(t, queue, r, None) /\ UNCHANGED gapArmed
  <2>1. queue \in SUBSET Item
    BY DEF TypeOK
  <2>2. QED
    BY <1>2, <2>1, DispatchDrives
<1>3. QED
  BY <1>1, <1>2 DEF StartGap

\* finish() is only entered with a send in flight, so no other driver exists.
LEMMA FinishDrives ==
  ASSUME TypeOK, OneDriver, NEW t \in Tasks, inflight # None, NEW acked \in BOOLEAN,
         Finish(t, inflight, acked), timerCb' \in {timerCb, "none"}
  PROVE  OneDriver'
<1> DEFINE again == ~acked /\ Retriable(inflight)
           next  == IF again THEN [inflight EXCEPT !.left = @ - 1] ELSE retry
<1>1. next \in SlotType
  BY NextSlotType
<1>2. StartGap(t, next, None)
  BY DEF Finish
<1>3. busy /\ ~gapArmed /\ timerCb # "gap" /\ timerCb' # "gap"
  BY DEF OneDriver
<1>4. \A u \in Tasks \ {t} : ~Unacked(u)
  BY DEF OneDriver
<1>5. QED
  <2> HIDE DEF next
  <2>1. QED
    BY <1>1, <1>2, <1>3, <1>4, StartGapDrives

LEMMA InitDriver == Init => DriverInv
BY InitType DEF Init, DriverInv, OneDriver, TimerAlone, Unacked

LEMMA NextDriver == DriverInv /\ [Next]_vars => OneDriver'
<1> SUFFICES ASSUME DriverInv, [Next]_vars PROVE OneDriver'
  OBVIOUS
<1> USE DEF DriverInv
<1>0. TypeOK'
  BY NextType
<1>1. ASSUME NEW t \in Tasks, NEW c \in Commands, Enqueue(t, c) PROVE OneDriver'
  <2>1. CASE busy /\ UNCHANGED <<inflight, inflightGen, sendGen, retry, busy, calls, tries>>
    BY <1>1, <2>1 DEF Enqueue, OneDriver, Unacked
  <2>2. CASE ~busy /\ Dispatch(t, EnqueuedTo(c), retry, inflight)
    <3>1. /\ inflight = None /\ ~gapArmed' /\ timerCb' # "gap" /\ retry \in SlotType
          /\ \A u \in Tasks \ {t} : ~Unacked(u)
      BY <1>1, <2>2 DEF Enqueue, OneDriver, TypeOK, SlotType
    <3>2. Dispatch(t, EnqueuedTo(c), retry, None)
      BY <2>2, <3>1
    <3>3. EnqueuedTo(c) \in SUBSET Item
      BY <1>1, EnqueuedType DEF Enqueue
    <3>4. QED
      BY <3>1, <3>2, <3>3, DispatchDrives
  <2>3. QED
    BY <1>1, <2>1, <2>2 DEF Enqueue, EnqueuedTo
<1>2. ASSUME NEW t \in Tasks, NEW a \in Addrs, DropPendingFor(t, a) PROVE OneDriver'
  <2>1. inflight' # None <=> inflight # None
    BY <1>0, <1>2, NoneAssumption, OrphanIsItem DEF DropPendingFor, TypeOK
  <2>2. QED
    BY <1>2, <2>1 DEF DropPendingFor, OneDriver, Unacked
<1>3. ASSUME NEW x \in tx, OnSendComplete(x) PROVE OneDriver'
  <2>1. CASE UNCHANGED <<qvars, gapArmed, guardArmed, calls, status, tries>>
    BY <1>3, <2>1 DEF OnSendComplete, OneDriver, Unacked, qvars
  <2>2. CASE inflight # None /\ Finish(Btc, inflight, x.state = "acked")
    <3>1. Btc \in Tasks
      BY DEF Tasks
    <3>2. timerCb' \in {timerCb, "none"}
      BY <1>3 DEF OnSendComplete
    <3>3. QED
      BY <2>2, <3>1, <3>2, FinishDrives
  <2>3. QED
    BY <1>3, <2>1, <2>2 DEF OnSendComplete
<1>4. ASSUME NEW t \in Tasks, ReturnUnacknowledged(t) PROVE OneDriver'
  <2>1. Unacked(t)
    BY <1>4 DEF ReturnUnacknowledged, Unacked
  <2>2. /\ busy /\ inflight = None /\ ~gapArmed /\ timerCb # "gap" /\ timerCb' # "gap"
        /\ retry \in SlotType /\ \A u \in Tasks \ {t} : ~Unacked(u)
    BY <1>4, <2>1 DEF OneDriver, ReturnUnacknowledged, TypeOK, SlotType
  <2>3. StartGap(t, retry, None)
    BY <1>4, <2>2 DEF ReturnUnacknowledged
  <2>4. QED
    BY <2>2, <2>3, StartGapDrives
<1>5. ASSUME NEW t \in Tasks, ReturnAcknowledged(t) PROVE OneDriver'
  <2>1. CASE /\ calls' = [calls EXCEPT ![t] = None]
             /\ UNCHANGED <<queue, inflight, inflightGen, sendGen, retry, busy, gapArmed>>
    <3>1. \A u \in Tasks : Unacked(u)' <=> Unacked(u)
      BY <1>5, <2>1 DEF ReturnAcknowledged, Unacked, Acknowledged, TypeOK
    <3>2. QED
      BY <1>5, <2>1, <3>1 DEF ReturnAcknowledged, OneDriver
  <2>2. CASE StillInFlight(t) /\ Finish(t, inflight, FALSE)
    <3>1. inflight # None /\ timerCb' \in {timerCb, "none"}
      BY <1>5, <2>2 DEF ReturnAcknowledged, StillInFlight
    <3>2. QED
      BY <2>2, <3>1, FinishDrives
  <2>3. QED
    BY <1>5, <2>1, <2>2 DEF ReturnAcknowledged, qvars
<1>6. CASE GapFires
  BY <1>6 DEF GapFires, OneDriver, Unacked, qvars, Free
<1>7. CASE GuardFires
  BY <1>7 DEF GuardFires, OneDriver, Unacked, qvars, Free
<1>8. CASE GapTimerCb
  <2>1. /\ inflight = None /\ ~gapArmed' /\ timerCb' # "gap"
        /\ \A u \in Tasks \ {Timer} : ~Unacked(u)
    BY <1>8 DEF GapTimerCb, OneDriver
  <2>2. Timer \in Tasks /\ queue \in SUBSET Item /\ retry \in SlotType
    BY DEF Tasks, TypeOK, SlotType
  <2>3. Dispatch(Timer, queue, retry, None)
    BY <1>8, <2>1 DEF GapTimerCb
  <2>4. QED
    BY <2>1, <2>2, <2>3, DispatchDrives
<1>9. CASE GuardTimerCb
  <2>1. CASE UNCHANGED <<qvars, gapArmed, calls, status, tries>>
    BY <1>9, <2>1 DEF GuardTimerCb, OneDriver, Unacked, qvars
  <2>2. CASE inflight # None /\ Finish(Timer, inflight, FALSE)
    <3>1. Timer \in Tasks /\ timerCb' \in {timerCb, "none"}
      BY <1>9 DEF Tasks, GuardTimerCb
    <3>2. QED
      BY <2>2, <3>1, FinishDrives
  <2>3. QED
    BY <1>9, <2>1, <2>2 DEF GuardTimerCb
<1>10. ASSUME NEW t \in Tasks, StackSend(t) PROVE OneDriver'
  <2>1. \A u \in Tasks : Unacked(u)' <=> Unacked(u)
    <3>1. \A u \in Tasks \ {t} : calls'[u] = calls[u]
      BY <1>10 DEF StackSend, TypeOK
    <3>2. calls'[t] # None /\ calls'[t].item = calls[t].item /\ calls[t] # None
      <4>1. \A r \in {"ok", "fail"} : /\ [calls[t] EXCEPT !.result = r] \in Call
                                     /\ [calls[t] EXCEPT !.result = r].item = calls[t].item
        BY <1>10 DEF StackSend, TypeOK, Call
      <4>2. \E r \in {"ok", "fail"} :
              calls' = [calls EXCEPT ![t] = [calls[t] EXCEPT !.result = r]]
        BY <1>10 DEF StackSend
      <4>3. QED
        BY <1>10, <4>1, <4>2, NoneAssumption DEF StackSend, TypeOK
    <3>3. QED
      BY <3>1, <3>2 DEF Unacked, Acknowledged
  <2>2. QED
    BY <1>10, <2>1 DEF StackSend, OneDriver, qvars
<1>11. ASSUME NEW x \in tx, StackReport(x) PROVE OneDriver'
  BY <1>11 DEF StackReport, OneDriver, Unacked, qvars
<1>12. CASE UNCHANGED vars
  BY <1>12 DEF vars, qvars, OneDriver, Unacked
<1>13. QED
  BY <1>1, <1>2, <1>3, <1>4, <1>5, <1>6, <1>7, <1>8, <1>9, <1>10, <1>11, <1>12 DEF Next

\* dispatch(), start_gap() and finish() write no other task's slot, and unless t is the
\* timer task leave the timer task where it is.
LEMMA DispatchOwnCall ==
  ASSUME TypeOK, NEW t \in Tasks, NEW q, NEW r, NEW inf, Dispatch(t, q, r, inf)
  PROVE  \A u \in Tasks \ {t} : calls'[u] = calls[u]
<1>1. ASSUME NEW item, Send(t, item, inf) PROVE \A u \in Tasks \ {t} : calls'[u] = calls[u]
  BY <1>1 DEF Send, TypeOK
<1>2. QED
  BY <1>1 DEF Dispatch, TypeOK

LEMMA StartGapOwnCall ==
  ASSUME TypeOK, NEW t \in Tasks, NEW r, NEW inf, StartGap(t, r, inf)
  PROVE  \A u \in Tasks \ {t} : calls'[u] = calls[u]
BY DispatchOwnCall DEF StartGap, TypeOK

LEMMA FinishOwnCall ==
  ASSUME TypeOK, NEW t \in Tasks, NEW item, NEW acked, Finish(t, item, acked)
  PROVE  \A u \in Tasks \ {t} : calls'[u] = calls[u]
<1> DEFINE again == ~acked /\ Retriable(item)
           next  == IF again THEN [item EXCEPT !.left = @ - 1] ELSE retry
<1>1. StartGap(t, next, None)
  BY DEF Finish
<1>2. QED
  <2> HIDE DEF next
  <2>1. QED
    BY <1>1, StartGapOwnCall

LEMMA NextTimerAlone == DriverInv /\ [Next]_vars => TimerAlone'
<1> SUFFICES ASSUME DriverInv, [Next]_vars, timerCb' # "none" PROVE calls'[Timer] = None
  BY DEF TimerAlone
<1> USE DEF DriverInv
<1>0. /\ Timer \in Tasks /\ Btc \in Tasks /\ Timer # Btc
      /\ timerCb # "none" => calls[Timer] = None
  BY QueueAssumption DEF Tasks, TimerAlone
<1>1. ASSUME NEW t \in Tasks, NEW c \in Commands, Enqueue(t, c) PROVE calls'[Timer] = None
  <2>1. t # Timer /\ calls[Timer] = None
    BY <1>0, <1>1 DEF Enqueue, Free
  <2>2. CASE UNCHANGED calls
    BY <2>1, <2>2
  <2>3. CASE Dispatch(t, EnqueuedTo(c), retry, inflight)
    BY <1>0, <2>1, <2>3, DispatchOwnCall
  <2>4. QED
    BY <1>1, <2>2, <2>3 DEF Enqueue, EnqueuedTo
<1>2. ASSUME NEW t \in Tasks, NEW a \in Addrs, DropPendingFor(t, a) PROVE calls'[Timer] = None
  BY <1>0, <1>2 DEF DropPendingFor
<1>3. ASSUME NEW x \in tx, OnSendComplete(x) PROVE calls'[Timer] = None
  <2>1. calls[Timer] = None
    BY <1>0, <1>3 DEF OnSendComplete
  <2>2. CASE UNCHANGED calls
    BY <2>1, <2>2
  <2>3. CASE Finish(Btc, inflight, x.state = "acked")
    BY <1>0, <2>1, <2>3, FinishOwnCall
  <2>4. QED
    BY <1>3, <2>2, <2>3 DEF OnSendComplete
<1>4. ASSUME NEW t \in Tasks, ReturnUnacknowledged(t) PROVE calls'[Timer] = None
  <2>1. calls[Timer] = None /\ t # Timer
    BY <1>0, <1>4 DEF ReturnUnacknowledged
  <2>2. QED
    BY <1>0, <1>4, <2>1, StartGapOwnCall DEF ReturnUnacknowledged
<1>5. ASSUME NEW t \in Tasks, ReturnAcknowledged(t) PROVE calls'[Timer] = None
  <2>1. calls[Timer] = None /\ t # Timer
    BY <1>0, <1>5 DEF ReturnAcknowledged
  <2>2. CASE calls' = [calls EXCEPT ![t] = None]
    BY <1>0, <2>1, <2>2 DEF TypeOK
  <2>3. CASE Finish(t, inflight, FALSE)
    BY <1>0, <2>1, <2>3, FinishOwnCall
  <2>4. QED
    BY <1>5, <2>2, <2>3 DEF ReturnAcknowledged
<1>6. CASE GapFires
  BY <1>6 DEF GapFires, Free
<1>7. CASE GuardFires
  BY <1>7 DEF GuardFires, Free
<1>8. CASE GapTimerCb
  BY <1>8 DEF GapTimerCb
<1>9. CASE GuardTimerCb
  BY <1>9 DEF GuardTimerCb
<1>10. ASSUME NEW t \in Tasks, StackSend(t) PROVE calls'[Timer] = None
  BY <1>0, <1>10 DEF StackSend, TypeOK
<1>11. ASSUME NEW x \in tx, StackReport(x) PROVE calls'[Timer] = None
  BY <1>0, <1>11 DEF StackReport
<1>12. CASE UNCHANGED vars
  BY <1>0, <1>12 DEF vars
<1>13. QED
  BY <1>1, <1>2, <1>3, <1>4, <1>5, <1>6, <1>7, <1>8, <1>9, <1>10, <1>11, <1>12 DEF Next

\* Whatever the tasks, the stack and the timers do, a busy queue is driven by exactly one
\* of them and an idle queue holds nothing back: dispatch() never puts a second send on
\* air, and never stalls with busy_ raised and nobody left to lower it.
THEOREM OneDriverAlways == Spec => []OneDriver
<1>1. DriverInv /\ [Next]_vars => DriverInv'
  BY NextType, NextDriver, NextTimerAlone DEF DriverInv
<1>2. DriverInv => OneDriver
  BY DEF DriverInv
<1>3. QED
  BY InitDriver, <1>1, <1>2, PTL DEF Spec

(***************************************************************************)
(* The queue implements SerialDelivery.  The parts of the invariant take   *)
(* the state they speak of as parameters, since dispatch() is entered      *)
(* half-way through its caller's step.                                     *)
(***************************************************************************)
Recorded(i, c) ==
  i.id \in DOMAIN c /\ c[i.id].addr = i.addr /\ c[i.id].op = i.op /\ i.place = i.id

NoneNewerBegun(n, tr) == \A j \in Ids : j > n => tr[j] = 0

\* May be handed to the stack.
Ready(i, c, st, tr, fg) ==
  /\ Recorded(i, c) /\ st[i.id] = "live" /\ i.id \notin fg /\ ~i.orphaned
  /\ tr[i.id] + i.left = MaxRetries
  /\ NoneNewerBegun(i.id, tr)

\* Was handed to the stack, and is not settled.
Begun(i, c, st, tr, fg) ==
  /\ Recorded(i, c) /\ st[i.id] = "live" /\ tr[i.id] > 0
  /\ NoneNewerBegun(i.id, tr)
  /\ IF i.orphaned THEN i.id \in fg /\ i.left = 0
                   ELSE i.id \notin fg /\ tr[i.id] + i.left = MaxRetries + 1

\* A command that is not live was transmitted, forgotten or overtaken by an equal one.
Accounted(c, st, tr, fg) ==
  /\ fg \subseteq DOMAIN c
  /\ \A n \in Ids \ DOMAIN c : st[n] = "none" /\ tr[n] = 0
  /\ \A n \in DOMAIN c : \/ st[n] = "live" \/ tr[n] > 0 \/ n \in fg
                         \/ \E j \in DOMAIN c : j > n /\ c[j] = c[n]

\* The items of q were not transmitted yet.
Waiting(q, c, st, tr, fg) == \A i \in q : Ready(i, c, st, tr, fg) /\ tr[i.id] = 0

\* Of the live sends the items of q wait, those of r wait to be repeated, those of a are on air.
Delivering(q, r, a, c, st, tr, fg) ==
  /\ Waiting(q, c, st, tr, fg)
  /\ \A i \in r : Ready(i, c, st, tr, fg) /\ tr[i.id] > 0
  /\ \A i \in a : Begun(i, c, st, tr, fg)
  /\ \A n \in Ids : st[n] = "live" => \E i \in q \cup r \cup a : i.id = n
  /\ Accounted(c, st, tr, fg)

Slot(x) == {x} \ {None}
UnackedItems == {calls[t].item : t \in {u \in Tasks : Unacked(u)}}
Air == Slot(inflight) \cup UnackedItems

RetryWaits == retry # None => inflight = None /\ (gapArmed \/ timerCb = "gap")

\* What is inside send(), or with the stack, is what was asked for.
CallsRecorded == \A t \in Tasks : calls[t] # None => Recorded(calls[t].item, cmd)
TxRecorded ==
  \A x \in tx : x.id \in DOMAIN cmd /\ cmd[x.id].addr = x.addr /\ cmd[x.id].op = x.op

DeliveryInv ==
  /\ DriverInv
  /\ Delivering(queue, Slot(retry), Air, cmd, status, tries, forgotten)
  /\ RetryWaits /\ CallsRecorded /\ TxRecorded

-----------------------------------------------------------------------------
(***************************************************************************)
(* Handing an item to the stack.                                           *)
(***************************************************************************)
\* What dispatch() leaves of calls: those it found, and one of an item recorded in c.
CallsFrom(c) ==
  \A u \in Tasks : calls'[u] # None => calls'[u] = calls[u] \/ Recorded(calls'[u].item, c)

\* Items of a queue none of which was transmitted are told apart by their numbers.
LEMMA QueueDistinct ==
  ASSUME NEW q \in SUBSET Item, NEW c, NEW st, NEW tr \in [Ids -> Nat], NEW fg,
         Waiting(q, c, st, tr, fg),
         NEW i \in q, NEW j \in q, i.id = j.id
  PROVE  i = j
<1>1. i \in Item /\ j \in Item
  OBVIOUS
<1>2. i.left = MaxRetries /\ j.left = MaxRetries
  <2>1. i.left \in Nat /\ j.left \in Nat
    BY <1>1, QueueAssumption DEF Item
  <2>2. /\ tr[i.id] = 0 /\ tr[i.id] + i.left = MaxRetries
        /\ tr[j.id] = 0 /\ tr[j.id] + j.left = MaxRetries
    BY DEF Waiting, Ready
  <2>3. QED BY <2>1, <2>2, QueueAssumption
<1>3. /\ i.addr = j.addr /\ i.op = j.op /\ i.place = j.place
  BY DEF Waiting, Ready, Recorded
<1>4. i.orphaned = j.orphaned
  BY <1>1 DEF Waiting, Ready, Item
<1>5. QED
  BY <1>1, <1>2, <1>3, <1>4 DEF Item

LEMMA SendDelivers ==
  ASSUME TypeOK, NEW t \in Tasks, NEW item \in Item, NEW q \in SUBSET Item, NEW c, NEW st,
         DOMAIN c \subseteq Ids, Ready(item, c, st, tries, forgotten),
         \A i \in q : Ready(i, c, st, tries, forgotten) /\ tries[i.id] = 0 /\ i.id > item.id,
         \A n \in Ids : st[n] = "live" => n = item.id \/ \E i \in q : i.id = n,
         Accounted(c, st, tries, forgotten),
         Send(t, item, None), queue' = q, retry' = None,
         \A u \in Tasks \ {t} : ~Unacked(u)
  PROVE  /\ Delivering(queue', Slot(retry'), Air', c, st, tries', forgotten)
         /\ Delivery!MayTransmit(st) /\ tries' # tries
         /\ CallsFrom(c)
<1>1. /\ item.id \in Ids /\ item.id \in Nat /\ item.left \in Nat
      /\ tries \in [Ids -> Nat] /\ tries[item.id] \in Nat
      /\ \A j \in Ids : j \in Nat
  BY QueueAssumption DEF Item, TypeOK, Ids
<1>2. tries' = [tries EXCEPT ![item.id] = @ + 1]
  BY DEF Send
<1>3. /\ tries'[item.id] = tries[item.id] + 1
      /\ \A j \in Ids \ {item.id} : tries'[j] = tries[j]
  BY <1>1, <1>2
<1>4. /\ calls'[t] # None /\ calls'[t].item = item
      /\ \A u \in Tasks \ {t} : calls'[u] = calls[u]
  <2>1. [item |-> item, gen |-> sendGen + 1, result |-> "none"] \in Call
    BY DEF Call, TypeOK
  <2>2. QED
    BY <2>1, NoneAssumption DEF Send, TypeOK
<1>5. Air' = {item}
  <2>1. \A u \in Tasks : Unacked(u)' <=> u = t /\ ~Acknowledged(item)
    BY <1>4 DEF Unacked, Acknowledged
  <2>2. UnackedItems' = IF Acknowledged(item) THEN {} ELSE {item}
    BY <1>4, <2>1 DEF UnackedItems
  <2>3. Slot(inflight)' = IF Acknowledged(item) THEN {item} ELSE {}
    BY NoneAssumption DEF Send, Slot
  <2>4. QED BY <2>2, <2>3 DEF Air
<1>6. Slot(retry') = {}
  BY DEF Slot
<1>7. \A i \in q : Ready(i, c, st, tries', forgotten) /\ tries'[i.id] = 0
  <2> SUFFICES ASSUME NEW i \in q PROVE Ready(i, c, st, tries', forgotten) /\ tries'[i.id] = 0
    OBVIOUS
  <2>1. i.id \in Ids /\ i.id \in Nat /\ i.id > item.id
    BY <1>1 DEF Item
  <2>2. tries'[i.id] = tries[i.id]
    BY <1>1, <1>3, <2>1
  <2>3. NoneNewerBegun(i.id, tries')
    BY <1>1, <1>3, <2>1 DEF Ready, NoneNewerBegun
  <2>4. QED BY <2>2, <2>3 DEF Ready
<1>8. Begun(item, c, st, tries', forgotten)
  <2>1. NoneNewerBegun(item.id, tries')
    BY <1>1, <1>3 DEF Ready, NoneNewerBegun
  <2>2. tries'[item.id] > 0 /\ tries'[item.id] + item.left = MaxRetries + 1
    BY <1>1, <1>3, QueueAssumption DEF Ready
  <2>3. QED BY <2>1, <2>2 DEF Ready, Begun
<1>9. Accounted(c, st, tries', forgotten)
  <2>1. item.id \in DOMAIN c
    BY DEF Ready, Recorded
  <2>2. \A n \in Ids : tries[n] > 0 => tries'[n] > 0
    BY <1>1, <1>3
  <2>3. \A n \in Ids \ DOMAIN c : tries'[n] = tries[n]
    BY <1>1, <1>3, <2>1
  <2>4. QED BY <2>2, <2>3 DEF Accounted
<1>10. Delivering(queue', Slot(retry'), Air', c, st, tries', forgotten)
  BY <1>5, <1>6, <1>7, <1>8, <1>9 DEF Delivering, Waiting
<1>11. Delivery!MayTransmit(st) /\ tries' # tries
  <2>1. item.id \in Delivery!Ids
    BY <1>1 DEF Ids, Delivery!Ids
  <2>2. tries[item.id] <= MaxRetries
    BY <1>1, QueueAssumption DEF Ready
  <2>3. ASSUME NEW j \in Delivery!Ids \ {item.id}
        PROVE  (st[j] = "live" => tries[j] = 0) /\ (j > item.id => tries[j] = 0)
    BY <2>3 DEF Ready, NoneNewerBegun, Delivery!Ids, Ids
  <2>4. QED
    <3>1. tries' # tries
      BY <1>1, <1>3
    <3>2. st[item.id] = "live" /\ item.id \notin forgotten
      BY DEF Ready
    <3>3. QED BY <1>2, <2>1, <2>2, <2>3, <3>1, <3>2 DEF Delivery!MayTransmit
<1>12. CallsFrom(c)
  BY <1>4 DEF CallsFrom, Ready
<1>13. QED BY <1>10, <1>11, <1>12

\* dispatch(), entered with nothing on air: it sends what is to be repeated, or else what has
\* waited longest, or falls idle.
LEMMA DispatchDelivers ==
  ASSUME TypeOK, NEW t \in Tasks, NEW q \in SUBSET Item, NEW r \in SlotType, NEW c, NEW st,
         DOMAIN c \subseteq Ids,
         Delivering(q, Slot(r), {}, c, st, tries, forgotten),
         Dispatch(t, q, r, None),
         \A u \in Tasks \ {t} : ~Unacked(u)
  PROVE  /\ Delivering(queue', Slot(retry'), Air', c, st, tries', forgotten)
         /\ Delivery!MayTransmit(st) /\ (tries' # tries \/ tries' = tries)
         /\ CallsFrom(c) /\ retry' = None
<1>1. \A j \in Ids : j \in Nat
  BY DEF Ids
<1>2. \A i \in q : Ready(i, c, st, tries, forgotten) /\ tries[i.id] = 0 /\ i.id \in Ids
  BY DEF Delivering, Waiting, Item
<1>3. Accounted(c, st, tries, forgotten)
  BY DEF Delivering
<1>4. CASE r # None /\ queue' = q /\ retry' = None /\ Send(t, r, None)
  <2>1. r \in Item /\ r.id \in Ids /\ Slot(r) = {r}
    BY <1>4 DEF SlotType, Item, Slot
  <2>2. Ready(r, c, st, tries, forgotten) /\ tries[r.id] > 0
    BY <2>1 DEF Delivering
  <2>3. \A i \in q : i.id > r.id
    <3> SUFFICES ASSUME NEW i \in q, ~(i.id > r.id) PROVE FALSE
      OBVIOUS
    <3>1. i.id \in Nat /\ r.id \in Nat /\ i.id # r.id
      BY <1>1, <1>2, <2>1, <2>2
    <3>2. NoneNewerBegun(i.id, tries) /\ r.id > i.id
      BY <1>2, <3>1 DEF Ready
    <3>3. QED BY <2>1, <2>2, <3>2 DEF NoneNewerBegun
  <2>4. \A n \in Ids : st[n] = "live" => n = r.id \/ \E i \in q : i.id = n
    BY <2>1 DEF Delivering
  <2>5. QED BY <1>2, <1>3, <1>4, <2>1, <2>2, <2>3, <2>4, SendDelivers
<1>5. CASE r = None /\ retry' = None
             /\ \E item \in First(q) : queue' = q \ {item} /\ Send(t, item, None)
  <2>1. PICK item \in First(q) : queue' = q \ {item} /\ Send(t, item, None)
    BY <1>5
  <2>2. item \in q /\ item \in Item /\ \A j \in q : item.place <= j.place
    BY DEF First
  <2>3. \A i \in q \ {item} : i.id > item.id
    <3> SUFFICES ASSUME NEW i \in q \ {item} PROVE i.id > item.id
      OBVIOUS
    <3>1. i.id # item.id
      <4>1. tries \in [Ids -> Nat]
        BY DEF TypeOK
      <4>2. Waiting(q, c, st, tries, forgotten)
        BY DEF Delivering
      <4>3. i \in q /\ i # item
        OBVIOUS
      <4>4. item \in q
        BY <2>2
      <4>5. i.id = item.id => i = item
        BY <4>1, <4>2, <4>3, <4>4, QueueDistinct
      <4>6. QED BY <4>3, <4>5
    <3>2. item.id <= i.id
      BY <1>2, <2>2 DEF Ready, Recorded
    <3>3. QED BY <1>1, <1>2, <2>2, <3>1, <3>2
  <2>4. \A n \in Ids : st[n] = "live" => n = item.id \/ \E i \in q \ {item} : i.id = n
    BY <1>5 DEF Delivering, Slot
  <2>5. Ready(item, c, st, tries, forgotten)
    BY <1>2, <2>2
  <2> DEFINE rest == q \ {item}
  <2>6. rest \in SUBSET Item /\ queue' = rest /\ Send(t, item, None)
    BY <2>1
  <2>7. \A i \in rest : Ready(i, c, st, tries, forgotten) /\ tries[i.id] = 0 /\ i.id > item.id
    BY <1>2, <2>3
  <2>8. \A n \in Ids : st[n] = "live" => n = item.id \/ \E i \in rest : i.id = n
    BY <2>4
  <2>9. QED
    <3> HIDE DEF rest
    <3>1. QED BY <1>3, <1>5, <2>2, <2>5, <2>6, <2>7, <2>8, SendDelivers
<1>6. CASE /\ r = None /\ q = {}
           /\ queue' = q /\ retry' = None /\ inflight' = None /\ busy' = FALSE
           /\ calls' = [calls EXCEPT ![t] = None]
           /\ UNCHANGED <<inflightGen, sendGen, tries>>
  <2>1. calls'[t] = None /\ \A u \in Tasks \ {t} : calls'[u] = calls[u]
    BY <1>6 DEF TypeOK
  <2>2. Air' = {}
    BY <1>6, <2>1 DEF Air, Slot, UnackedItems, Unacked
  <2>3. Slot(retry') = Slot(r)
    BY <1>6
  <2>4. CallsFrom(c)
    BY <2>1 DEF CallsFrom
  <2>5. QED BY <1>6, <2>2, <2>3, <2>4 DEF Delivery!MayTransmit
<1>7. QED BY <1>4, <1>5, <1>6 DEF Dispatch

\* start_gap(), entered with nothing on air: r is repeated after the gap, or at once.
LEMMA StartGapDelivers ==
  ASSUME TypeOK, NEW t \in Tasks, NEW r \in SlotType, NEW c, NEW st,
         DOMAIN c \subseteq Ids,
         Delivering(queue, Slot(r), {}, c, st, tries, forgotten),
         StartGap(t, r, None),
         \A u \in Tasks \ {t} : ~Unacked(u)
  PROVE  /\ Delivering(queue', Slot(retry'), Air', c, st, tries', forgotten)
         /\ Delivery!MayTransmit(st)
         /\ CallsFrom(c) /\ RetryWaits'
<1>1. CASE /\ gapArmed' = TRUE /\ retry' = r /\ inflight' = None
           /\ calls' = [calls EXCEPT ![t] = None]
           /\ UNCHANGED <<queue, inflightGen, sendGen, busy, tries>>
  <2>1. calls'[t] = None /\ \A u \in Tasks \ {t} : calls'[u] = calls[u]
    BY <1>1 DEF TypeOK
  <2>2. Air' = {}
    BY <1>1, <2>1 DEF Air, Slot, UnackedItems, Unacked
  <2>3. CallsFrom(c)
    BY <2>1 DEF CallsFrom
  <2>4. RetryWaits'
    BY <1>1 DEF RetryWaits
  <2>5. QED BY <1>1, <2>2, <2>3, <2>4 DEF Delivery!MayTransmit
<1>2. CASE Dispatch(t, queue, r, None) /\ UNCHANGED gapArmed
  <2>1. queue \in SUBSET Item
    BY DEF TypeOK
  <2>2. QED BY <1>2, <2>1, DispatchDelivers DEF RetryWaits
<1>3. QED BY <1>1, <1>2 DEF StartGap

(***************************************************************************)
(* The send on air ends.                                                   *)
(***************************************************************************)
\* It is settled.
LEMMA SettledDelivers ==
  ASSUME NEW q \in SUBSET Item, NEW i \in Item, NEW c, NEW s \in Statuses \ {"none", "live"},
         TypeOK, DOMAIN c \subseteq Ids,
         Delivering(q, {}, {i}, c, status, tries, forgotten)
  PROVE  Delivering(q, {}, {}, c, [status EXCEPT ![i.id] = s], tries, forgotten)
<1> DEFINE st == [status EXCEPT ![i.id] = s]
<1>1. /\ i.id \in Ids /\ i.id \in DOMAIN c /\ tries[i.id] > 0
      /\ st[i.id] = s /\ \A n \in Ids \ {i.id} : st[n] = status[n]
  BY DEF Delivering, Begun, Recorded, Item, TypeOK
<1>2. ASSUME NEW j \in q PROVE Ready(j, c, st, tries, forgotten) /\ tries[j.id] = 0
  <2>1. Ready(j, c, status, tries, forgotten) /\ tries[j.id] = 0 /\ j.id \in Ids
    BY DEF Delivering, Waiting, Item
  <2>2. j.id # i.id
    BY <1>1, <2>1
  <2>3. QED BY <1>1, <2>1, <2>2 DEF Ready
<1>3. \A n \in Ids : st[n] = "live" => \E j \in q \cup {} \cup {} : j.id = n
  BY <1>1 DEF Delivering
<1>4. Accounted(c, st, tries, forgotten)
  BY <1>1 DEF Delivering, Accounted
<1>5. QED
  <2> HIDE DEF st
  <2>1. Delivering(q, {}, {}, c, st, tries, forgotten)
    BY <1>2, <1>3, <1>4 DEF Delivering, Waiting
  <2>2. QED BY <2>1 DEF st

\* It is to be repeated.
LEMMA AgainDelivers ==
  ASSUME NEW q, NEW i \in Item, NEW c, NEW st, NEW fg, TypeOK, Retriable(i),
         Delivering(q, {}, {i}, c, st, tries, fg)
  PROVE  Delivering(q, {[i EXCEPT !.left = @ - 1]}, {}, c, st, tries, fg)
<1> DEFINE j == [i EXCEPT !.left = @ - 1]
<1>1. /\ j.id = i.id /\ j.addr = i.addr /\ j.op = i.op /\ j.place = i.place
      /\ j.orphaned = i.orphaned /\ j.left = i.left - 1
  BY DEF Item
<1>2. Begun(i, c, st, tries, fg)
  BY DEF Delivering
<1>3. i.left \in Nat /\ i.left > 0 /\ tries[i.id] \in Nat
  BY QueueAssumption DEF Item, Retriable, TypeOK
<1>4. ~i.orphaned /\ i.id \notin fg /\ tries[i.id] + i.left = MaxRetries + 1
  BY <1>2, <1>3 DEF Begun
<1>5. tries[i.id] + j.left = MaxRetries
  BY <1>1, <1>3, <1>4, QueueAssumption
<1>6. Ready(j, c, st, tries, fg) /\ tries[j.id] > 0
  BY <1>1, <1>2, <1>4, <1>5 DEF Begun, Ready, Recorded
<1>7. Delivering(q, {j}, {}, c, st, tries, fg)
  <2> HIDE DEF j
  <2>1. \A n \in Ids : st[n] = "live" => \E k \in q \cup {j} \cup {} : k.id = n
    BY <1>1 DEF Delivering
  <2>2. QED BY <1>6, <2>1 DEF Delivering
<1>8. QED BY <1>7

\* What the invariant says of the numbers of the commands.
LEMMA Numbers ==
  ASSUME TypeOK
  PROVE  /\ DOMAIN cmd = 1 .. Len(cmd) /\ Len(cmd) \in Nat
         /\ DOMAIN cmd \subseteq Ids
         /\ \A j \in Ids : j \in Nat
<1>1. DOMAIN cmd = 1 .. Len(cmd) /\ Len(cmd) \in Nat /\ Len(cmd) <= MaxSends
  BY DEF TypeOK
<1>2. QED BY <1>1, QueueAssumption DEF Ids

\* With a send in flight nothing else is on air, and nothing waits to be repeated.
LEMMA InflightAlone ==
  ASSUME DeliveryInv, inflight # None
  PROVE  /\ Air = {inflight} /\ retry = None /\ Slot(retry) = {}
         /\ \A u \in Tasks : ~Unacked(u)
<1>1. \A u \in Tasks : ~Unacked(u)
  BY DEF DeliveryInv, DriverInv, OneDriver
<1>2. retry = None
  BY DEF DeliveryInv, RetryWaits
<1>3. QED BY <1>1, <1>2 DEF Air, UnackedItems, Slot

\* finish() settles the send in flight, or begins it again: at once, or after the gap.
LEMMA FinishDelivers ==
  ASSUME DeliveryInv, NEW t \in Tasks, inflight # None, NEW acked \in BOOLEAN,
         acked => inflight.addr # NoAddr,
         Finish(t, inflight, acked), UNCHANGED <<cmd, forgotten>>
  PROVE  /\ Delivering(queue', Slot(retry'), Air', cmd, status', tries', forgotten)
         /\ RetryWaits' /\ CallsFrom(cmd)
         /\ [Delivery!Next]_(Delivery!dvars)
<1>1. /\ TypeOK /\ DOMAIN cmd \subseteq Ids /\ queue \in SUBSET Item
      /\ inflight \in Item /\ inflight.id \in Ids /\ inflight.id \in Delivery!Ids
      /\ status \in [Ids -> Statuses]
  BY Numbers DEF DeliveryInv, DriverInv, TypeOK, Item, Delivery!Ids, Ids
<1>2. /\ Air = {inflight} /\ retry = None /\ Slot(retry) = {}
      /\ \A u \in Tasks \ {t} : ~Unacked(u)
  BY InflightAlone
<1>3. Delivering(queue, {}, {inflight}, cmd, status, tries, forgotten)
  BY <1>2 DEF DeliveryInv
<1>4. Begun(inflight, cmd, status, tries, forgotten)
  BY <1>3 DEF Delivering
<1>5. CASE ~acked /\ Retriable(inflight)
  <2> DEFINE r == [inflight EXCEPT !.left = @ - 1]
  <2>1. StartGap(t, r, None) /\ status' = [status EXCEPT ![inflight.id] = "live"]
    BY <1>5 DEF Finish
  <2>2. r \in SlotType
    BY <1>1, <1>5, NextSlotType
  <2>3. r # None
    <3>1. r \in Item
      <4>1. inflight.left - 1 \in 0 .. MaxRetries
        BY <1>1, <1>5, QueueAssumption DEF Retriable, Item
      <4>2. QED BY <1>1, <4>1 DEF Item
    <3>2. QED BY <3>1, NoneAssumption
  <2>4. status' = status
    BY <1>1, <1>4, <2>1 DEF Begun
  <2>5. Delivering(queue, {r}, {}, cmd, status, tries, forgotten)
    BY <1>1, <1>3, <1>5, AgainDelivers
  <2>6. Slot(r) = {r}
    BY <2>3 DEF Slot
  <2>7. /\ Delivering(queue', Slot(retry'), Air', cmd, status, tries', forgotten)
        /\ Delivery!MayTransmit(status) /\ CallsFrom(cmd) /\ RetryWaits'
    <3> HIDE DEF r
    <3>1. QED BY <1>1, <1>2, <2>1, <2>2, <2>5, <2>6, StartGapDelivers
  <2>8. [Delivery!Next]_(Delivery!dvars)
    BY <2>4, <2>7 DEF Delivery!Next, Delivery!Transmit, Delivery!dvars
  <2>9. QED BY <2>4, <2>7, <2>8
<1>6. CASE acked \/ ~Retriable(inflight)
  <2> DEFINE s == IF acked THEN "acked" ELSE "gaveup"
  <2>1. StartGap(t, retry, None) /\ status' = [status EXCEPT ![inflight.id] = s]
    BY <1>6 DEF Finish
  <2>2. Delivering(queue, {}, {}, cmd, status', tries, forgotten)
    <3>1. s \in Statuses \ {"none", "live"}
      BY DEF Statuses
    <3>2. QED BY <1>1, <1>3, <2>1, <3>1, SettledDelivers
  <2>3. /\ Delivering(queue', Slot(retry'), Air', cmd, status', tries', forgotten)
        /\ Delivery!MayTransmit(status') /\ CallsFrom(cmd) /\ RetryWaits'
    <3>1. retry \in SlotType
      BY <1>2 DEF SlotType
    <3>2. QED BY <1>1, <1>2, <2>1, <2>2, <3>1, StartGapDelivers
  <2>4. Delivery!Settle(inflight.id)
    <3>1. status[inflight.id] = "live" /\ tries[inflight.id] > 0
      BY <1>4 DEF Begun
    <3>2. CASE acked
      <4>1. cmd[inflight.id].addr # NoAddr
        BY <1>4, <3>2 DEF Begun, Recorded
      <4>2. QED BY <2>1, <2>3, <3>1, <3>2, <4>1 DEF Delivery!Settle
    <3>3. CASE ~acked
      <4>1. tries[inflight.id] = MaxRetries + 1 \/ inflight.id \in forgotten
        <5>1. inflight.left = 0
          BY <1>1, <1>6, <3>3, QueueAssumption DEF Retriable, Item
        <5>2. tries[inflight.id] \in Nat
          BY <1>1 DEF TypeOK
        <5>3. QED BY <1>4, <5>1, <5>2, QueueAssumption DEF Begun
      <4>2. QED BY <2>1, <2>3, <3>1, <3>3, <4>1 DEF Delivery!Settle
    <3>4. QED BY <3>2, <3>3
  <2>5. QED BY <1>1, <2>3, <2>4 DEF Delivery!Next
<1>7. QED BY <1>5, <1>6

(***************************************************************************)
(* A command comes.                                                        *)
(***************************************************************************)
NewItem(c) ==
  [id |-> Len(cmd) + 1, addr |-> c.addr, op |-> c.op, left |-> MaxRetries,
   orphaned |-> FALSE, place |-> Len(cmd) + 1]

OldIds(c) == {o.id : o \in Superseded(c)}

\* What a command may supersede: one equal command that waits.
LEMMA SupersededEqual ==
  ASSUME DeliveryInv, NEW c \in Commands
  PROVE  /\ Superseded(c) \subseteq queue
         /\ \A o \in Superseded(c) :
              /\ c.addr # NoAddr /\ o.id \in DOMAIN cmd /\ cmd[o.id] = c
              /\ status[o.id] = "live" /\ tries[o.id] = 0
         /\ \A o, p \in Superseded(c) : o = p
         /\ OldIds(c) = {} \/ \E i \in Ids : OldIds(c) = {i}
<1>1. /\ queue \in SUBSET Item /\ tries \in [Ids -> Nat] /\ cmd \in Seq(Commands)
      /\ \A j \in Ids : j \in Nat
  BY Numbers DEF DeliveryInv, DriverInv, TypeOK
<1>2. \A i \in queue : Ready(i, cmd, status, tries, forgotten) /\ tries[i.id] = 0 /\ i.id \in Ids
  BY <1>1 DEF DeliveryInv, Delivering, Waiting, Item
<1>3. Superseded(c) \subseteq queue
  BY DEF Superseded, First
<1>4. ASSUME NEW o \in Superseded(c)
      PROVE  /\ c.addr # NoAddr /\ o.id \in DOMAIN cmd /\ cmd[o.id] = c
             /\ status[o.id] = "live" /\ tries[o.id] = 0
  <2>1. o \in queue /\ c.addr # NoAddr /\ o.addr = c.addr /\ o.op = c.op
    BY DEF Superseded, First
  <2>2. o.id \in DOMAIN cmd /\ cmd[o.id].addr = c.addr /\ cmd[o.id].op = c.op
    BY <1>2, <2>1 DEF Ready, Recorded
  <2>3. cmd[o.id] \in Commands
    BY <1>1, <2>2
  <2>4. cmd[o.id] = c
    BY <2>1, <2>2, <2>3 DEF Commands
  <2>5. QED BY <1>2, <2>1, <2>2, <2>4 DEF Ready
<1>5. ASSUME NEW o \in Superseded(c), NEW p \in Superseded(c) PROVE o = p
  <2>1. o \in queue /\ p \in queue /\ o.place <= p.place /\ p.place <= o.place
    BY DEF Superseded, First
  <2>2. o.id = p.id
    BY <1>1, <1>2, <2>1 DEF Ready, Recorded
  <2>3. Waiting(queue, cmd, status, tries, forgotten)
    BY DEF DeliveryInv, Delivering
  <2>4. queue \in SUBSET Item /\ o \in queue /\ p \in queue
    BY <1>1, <2>1
  <2>5. tries \in [Ids -> Nat]
    BY <1>1
  <2>6. o.id = p.id => o = p
    BY <2>3, <2>4, <2>5, QueueDistinct
  <2>7. QED BY <2>2, <2>6
<1>6. OldIds(c) = {} \/ \E i \in Ids : OldIds(c) = {i}
  <2>1. CASE Superseded(c) = {}
    BY <2>1 DEF OldIds
  <2>2. ASSUME NEW o \in Superseded(c) PROVE \E i \in Ids : OldIds(c) = {i}
    <3>1. OldIds(c) = {o.id} /\ o.id \in Ids
      BY <1>2, <1>3, <1>5 DEF OldIds
    <3>2. QED BY <3>1
  <2>3. QED BY <2>1, <2>2
<1>7. QED BY <1>3, <1>4, <1>5, <1>6

LEMMA EnqueueDelivers ==
  ASSUME DeliveryInv, NEW c \in Commands, Len(cmd) < MaxSends,
         cmd' = Append(cmd, c),
         status' = [i \in Ids |-> IF i = Len(cmd) + 1 THEN "live"
                                  ELSE IF \E o \in Superseded(c) : o.id = i THEN "superseded"
                                  ELSE status[i]]
  PROVE  Delivering(EnqueuedTo(c), Slot(retry), Air, cmd', status', tries, forgotten)
<1> DEFINE id == Len(cmd) + 1
           old == Superseded(c)
<1>1. /\ TypeOK /\ Accounted(cmd, status, tries, forgotten)
      /\ DOMAIN cmd = 1 .. Len(cmd) /\ Len(cmd) \in Nat /\ DOMAIN cmd \subseteq Ids
      /\ \A j \in Ids : j \in Nat
      /\ id \in Ids /\ id \in Nat /\ id \notin DOMAIN cmd /\ tries \in [Ids -> Nat]
  <2>1. TypeOK /\ Accounted(cmd, status, tries, forgotten)
    BY DEF DeliveryInv, DriverInv, Delivering
  <2>2. /\ DOMAIN cmd = 1 .. Len(cmd) /\ Len(cmd) \in Nat /\ DOMAIN cmd \subseteq Ids
        /\ \A j \in Ids : j \in Nat
    BY <2>1, Numbers
  <2>3. id \in Ids /\ id \in Nat /\ id \notin DOMAIN cmd
    BY <2>2, QueueAssumption DEF Ids
  <2>4. QED BY <2>1, <2>2, <2>3 DEF TypeOK
<1>2. /\ DOMAIN cmd' = DOMAIN cmd \cup {id} /\ cmd'[id] = c
      /\ \A n \in DOMAIN cmd : cmd'[n] = cmd[n]
  BY <1>1 DEF TypeOK
<1>3. /\ old \subseteq queue /\ queue \in SUBSET Item
      /\ \A o \in old : /\ c.addr # NoAddr /\ o.id \in DOMAIN cmd /\ cmd[o.id] = c
                        /\ status[o.id] = "live" /\ tries[o.id] = 0
  BY <1>1, SupersededEqual DEF TypeOK
<1>4. /\ status'[id] = "live"
      /\ \A n \in Ids \ {id} : IF \E o \in old : o.id = n THEN status'[n] = "superseded"
                               ELSE status'[n] = status[n]
  BY <1>1
<1>5. /\ tries[id] = 0 /\ \A j \in Ids : j > id => tries[j] = 0
      /\ id \notin forgotten
  <2>1. \A j \in Ids : j >= id => j \notin DOMAIN cmd
    BY <1>1
  <2>2. QED BY <1>1, <2>1 DEF Accounted
<1>6. EnqueuedTo(c) = (queue \ old) \cup {NewItem(c)}
  BY DEF EnqueuedTo, NewItem, PlaceOfNew
<1>7. \A i \in queue : Ready(i, cmd, status, tries, forgotten) /\ tries[i.id] = 0
  BY DEF DeliveryInv, Delivering, Waiting
<1>8. ASSUME NEW i, Recorded(i, cmd) PROVE Recorded(i, cmd') /\ i.id \in Ids \ {id}
  BY <1>1, <1>2, <1>8 DEF Recorded
<1>9. ASSUME NEW i \in queue \ old
      PROVE  Ready(i, cmd', status', tries, forgotten) /\ tries[i.id] = 0
  <2>1. Ready(i, cmd, status, tries, forgotten) /\ tries[i.id] = 0
    BY <1>7
  <2>2. Recorded(i, cmd') /\ i.id \in Ids \ {id}
    BY <1>8, <2>1 DEF Ready
  <2>3. \A o \in old : o.id # i.id
    <3> SUFFICES ASSUME NEW o \in old, o.id = i.id PROVE FALSE
      OBVIOUS
    <3>1. o \in queue /\ i \in queue /\ o # i
      BY <1>3
    <3>2. queue \in SUBSET Item
      BY <1>3
    <3>3. tries \in [Ids -> Nat]
      BY <1>1
    <3>4. o.id = i.id => o = i
      BY <3>1, <3>2, <3>3, QueueDistinct DEF DeliveryInv, Delivering
    <3>5. QED BY <3>1, <3>4
  <2>4. status'[i.id] = "live"
    BY <1>4, <2>1, <2>2, <2>3 DEF Ready
  <2>5. QED BY <2>1, <2>2, <2>4 DEF Ready
<1>10. Ready(NewItem(c), cmd', status', tries, forgotten) /\ tries[NewItem(c).id] = 0
  <2>1. /\ NewItem(c).id = id /\ NewItem(c).addr = c.addr /\ NewItem(c).op = c.op
        /\ NewItem(c).left = MaxRetries /\ ~NewItem(c).orphaned /\ NewItem(c).place = id
    BY DEF NewItem
  <2>2. Recorded(NewItem(c), cmd')
    BY <1>2, <2>1 DEF Recorded
  <2>3. QED BY <1>4, <1>5, <2>1, <2>2, QueueAssumption DEF Ready, NoneNewerBegun
<1>11. ASSUME NEW i, Recorded(i, cmd), status[i.id] = "live", tries[i.id] > 0
       PROVE  status'[i.id] = "live"
  <2>1. \A o \in old : o.id # i.id
    BY <1>3, <1>11
  <2>2. QED BY <1>4, <1>8, <1>11, <2>1
<1>12. \A i \in Slot(retry) : Ready(i, cmd', status', tries, forgotten) /\ tries[i.id] > 0
  BY <1>8, <1>11 DEF DeliveryInv, Delivering, Ready
<1>13. \A i \in Air : Begun(i, cmd', status', tries, forgotten)
  BY <1>8, <1>11 DEF DeliveryInv, Delivering, Begun
<1>14. ASSUME NEW n \in Ids, status'[n] = "live"
       PROVE  \E i \in EnqueuedTo(c) \cup Slot(retry) \cup Air : i.id = n
  <2>1. CASE n = id
    <3>1. NewItem(c).id = id /\ NewItem(c) \in EnqueuedTo(c)
      BY <1>6 DEF NewItem
    <3>2. QED BY <2>1, <3>1
  <2>2. CASE n # id
    <3>1. status[n] = "live" /\ \A o \in old : o.id # n
      BY <1>4, <1>14, <2>2
    <3>2. PICK i \in queue \cup Slot(retry) \cup Air : i.id = n
      BY <3>1 DEF DeliveryInv, Delivering
    <3>3. i \notin old
      BY <3>1, <3>2
    <3>4. QED BY <1>6, <3>2, <3>3
  <2>3. QED BY <2>1, <2>2
<1>15. Accounted(cmd', status', tries, forgotten)
  <2>1. forgotten \subseteq DOMAIN cmd'
    BY <1>1, <1>2 DEF Accounted
  <2>2. ASSUME NEW n \in Ids \ DOMAIN cmd' PROVE status'[n] = "none" /\ tries[n] = 0
    <3>1. n \in Ids \ DOMAIN cmd /\ n # id
      BY <1>2
    <3>2. \A o \in old : o.id # n
      BY <1>3, <3>1
    <3>3. QED BY <1>1, <1>4, <3>1, <3>2 DEF Accounted
  <2>3. ASSUME NEW n \in DOMAIN cmd'
        PROVE  \/ status'[n] = "live" \/ tries[n] > 0 \/ n \in forgotten
               \/ \E j \in DOMAIN cmd' : j > n /\ cmd'[j] = cmd'[n]
    <3>1. CASE n = id
      BY <1>4, <3>1
    <3>2. CASE n # id
      <4>1. n \in DOMAIN cmd /\ n \in Ids
        BY <1>1, <1>2, <3>2
      <4>2. CASE \E o \in old : o.id = n
        <5>1. cmd'[n] = c /\ id > n
          BY <1>1, <1>2, <1>3, <4>1, <4>2
        <5>2. QED BY <1>2, <5>1
      <4>3. CASE \A o \in old : o.id # n
        <5>1. status'[n] = status[n]
          BY <1>4, <3>2, <4>1, <4>3
        <5>2. \/ status[n] = "live" \/ tries[n] > 0 \/ n \in forgotten
              \/ \E j \in DOMAIN cmd : j > n /\ cmd[j] = cmd[n]
          BY <1>1, <4>1 DEF Accounted
        <5>3. QED BY <1>2, <4>1, <5>1, <5>2
      <4>4. QED BY <4>2, <4>3
    <3>3. QED BY <3>1, <3>2
  <2>4. QED BY <2>1, <2>2, <2>3 DEF Accounted
<1>16. QED
  BY <1>6, <1>9, <1>10, <1>12, <1>13, <1>14, <1>15 DEF Delivering, Waiting

(***************************************************************************)
(* A node is forgotten.                                                    *)
(***************************************************************************)
LEMMA DropDelivers ==
  ASSUME DeliveryInv, NEW t \in Tasks, NEW a \in Addrs, DropPendingFor(t, a)
  PROVE  /\ Delivering(queue', Slot(retry'), Air', cmd, status', tries, forgotten')
         /\ Delivery!Forget(a)
<1> DEFINE hit == {i \in queue \cup Slot(retry) : i.addr = a}
           to  == {n \in DOMAIN cmd : cmd[n].addr = a}
<1>1. /\ a # NoAddr /\ queue \in SUBSET Item /\ DOMAIN cmd \subseteq Ids
      /\ status \in [Ids -> Statuses] /\ Slot(retry) \subseteq Item
      /\ Accounted(cmd, status, tries, forgotten)
  BY Numbers, QueueAssumption DEF DeliveryInv, DriverInv, TypeOK, Slot, Delivering
<1>2. \A i \in queue \cup Slot(retry) : Ready(i, cmd, status, tries, forgotten)
  BY DEF DeliveryInv, Delivering, Waiting
<1>3. \A i \in Air : Begun(i, cmd, status, tries, forgotten)
  BY DEF DeliveryInv, Delivering
<1>4. /\ queue' = {i \in queue : i.addr # a} /\ forgotten' = forgotten \cup to
      /\ Slot(retry') = {i \in Slot(retry) : i.addr # a}
      /\ UNCHANGED <<calls, cmd, tries>>
  BY NoneAssumption DEF DropPendingFor, Slot
<1>5. \A n \in Ids : status'[n] = IF \E h \in hit : h.id = n THEN "dropped" ELSE status[n]
  BY DEF DropPendingFor, Slot
<1>6. \A h \in hit : h.id \in to /\ status[h.id] = "live"
  BY <1>2 DEF Ready, Recorded
<1>7. ASSUME NEW i, Recorded(i, cmd), i.addr # a
      PROVE  /\ status'[i.id] = status[i.id]
             /\ i.id \in forgotten' <=> i.id \in forgotten
  <2>1. i.id \in DOMAIN cmd /\ i.id \in Ids /\ i.id \notin to
    BY <1>1, <1>7 DEF Recorded
  <2>2. \A h \in hit : h.id # i.id
    BY <1>6, <2>1
  <2>3. QED BY <1>4, <1>5, <2>1, <2>2
<1>8. \A i \in queue' : Ready(i, cmd, status', tries, forgotten') /\ tries[i.id] = 0
  BY <1>2, <1>4, <1>7 DEF Ready, DeliveryInv, Delivering, Waiting
<1>9. \A i \in Slot(retry') : Ready(i, cmd, status', tries, forgotten') /\ tries[i.id] > 0
  BY <1>2, <1>4, <1>7 DEF Ready, DeliveryInv, Delivering
<1>10. /\ \A i \in Air' : Begun(i, cmd, status', tries, forgotten')
       /\ \A i \in Air : \E j \in Air' : j.id = i.id
  <2>1. CASE inflight = None
    <3>1. inflight' = None
      BY <2>1 DEF DropPendingFor
    <3>2. Air' = Air
      BY <1>4, <2>1, <3>1 DEF Air, UnackedItems, Unacked
    <3>3. \A i \in Air : i.addr # a
      BY <1>1, <2>1 DEF Air, Slot, UnackedItems, Unacked, Acknowledged
    <3>4. QED BY <1>3, <1>7, <3>2, <3>3 DEF Begun
  <2>2. CASE inflight # None
    <3>1. Air = {inflight} /\ Slot(retry) = {} /\ inflight \in Item
      BY <2>2, InflightAlone DEF DeliveryInv, DriverInv, TypeOK
    <3>2. Begun(inflight, cmd, status, tries, forgotten)
      BY <1>3, <3>1
    <3>3. inflight' \in Item /\ inflight'.id = inflight.id
      BY <2>2, <3>1, OrphanIsItem DEF DropPendingFor, Orphan, Item
    <3>4. Air' = {inflight'}
      <4>1. \A u \in Tasks : ~Unacked(u)
        BY <2>2, InflightAlone
      <4>2. UnackedItems' = {}
        BY <1>4, <4>1 DEF UnackedItems, Unacked
      <4>3. QED BY <3>3, <4>2, NoneAssumption DEF Air, Slot
    <3>5. CASE inflight.addr # a
      <4>1. inflight' = inflight
        BY <3>5 DEF DropPendingFor
      <4>2. QED BY <1>7, <3>1, <3>2, <3>4, <3>5, <4>1 DEF Begun
    <3>6. CASE inflight.addr = a
      <4>1. /\ inflight'.addr = inflight.addr /\ inflight'.op = inflight.op
            /\ inflight'.place = inflight.place /\ inflight'.orphaned /\ inflight'.left = 0
        BY <2>2, <3>1, <3>6 DEF DropPendingFor, Orphan, Item
      <4>2. Recorded(inflight', cmd) /\ inflight.id \in to /\ inflight.id \in Ids
        BY <1>1, <3>2, <3>3, <3>6, <4>1 DEF Begun, Recorded
      <4>3. \A h \in hit : h.id # inflight.id
        <5>1. \A h \in hit : tries[h.id] = 0
          BY <3>1 DEF DeliveryInv, Delivering, Waiting
        <5>2. QED BY <3>2, <5>1 DEF Begun
      <4>4. status'[inflight.id] = "live"
        BY <1>5, <3>2, <4>2, <4>3 DEF Begun
      <4>5. Begun(inflight', cmd, status', tries, forgotten')
        BY <1>4, <3>2, <3>3, <4>1, <4>2, <4>4 DEF Begun
      <4>6. QED BY <3>1, <3>3, <3>4, <4>5
    <3>7. QED BY <3>5, <3>6
  <2>3. QED BY <2>1, <2>2
<1>11. ASSUME NEW n \in Ids, status'[n] = "live"
       PROVE  \E i \in queue' \cup Slot(retry') \cup Air' : i.id = n
  <2>1. status[n] = "live" /\ \A h \in hit : h.id # n
    BY <1>5, <1>11
  <2>2. PICK i \in queue \cup Slot(retry) \cup Air : i.id = n
    BY <2>1 DEF DeliveryInv, Delivering
  <2>3. CASE i \in Air
    BY <1>10, <2>2, <2>3
  <2>4. CASE i \in queue \cup Slot(retry)
    <3>1. i.addr # a
      BY <2>1, <2>2, <2>4
    <3>2. QED BY <1>4, <2>2, <2>4, <3>1
  <2>5. QED BY <2>2, <2>3, <2>4
<1>12. Accounted(cmd, status', tries, forgotten')
  <2>1. forgotten' \subseteq DOMAIN cmd
    BY <1>1, <1>4 DEF Accounted
  <2>2. \A n \in Ids \ DOMAIN cmd : status'[n] = "none" /\ tries[n] = 0
    BY <1>1, <1>5, <1>6 DEF Accounted
  <2>3. \A n \in DOMAIN cmd : n \notin to => status'[n] = status[n] /\ n \in Ids
    BY <1>1, <1>5, <1>6
  <2>4. QED BY <1>1, <1>4, <2>1, <2>2, <2>3 DEF Accounted
<1>13. Delivery!Forget(a)
  <2> DEFINE dropped == {h.id : h \in hit}
             live == {i \in to : status[i] = "live"}
             quiet == {i \in to : status[i] = "live" /\ tries[i] = 0}
  <2>1. dropped \subseteq live
    BY <1>6
  <2>2. quiet \subseteq dropped
    <3> SUFFICES ASSUME NEW n \in quiet PROVE n \in dropped
      OBVIOUS
    <3>1. PICK i \in queue \cup Slot(retry) \cup Air : i.id = n
      BY <1>1 DEF DeliveryInv, Delivering
    <3>2. i \notin Air
      BY <1>3, <3>1 DEF Begun
    <3>3. i.addr = a
      BY <1>2, <3>1, <3>2 DEF Ready, Recorded
    <3>4. QED BY <3>1, <3>2, <3>3
  <2>3. status' = [n \in Ids |-> IF n \in dropped THEN "dropped" ELSE status[n]]
    BY DEF DropPendingFor, Slot
  <2>4. Ids = Delivery!Ids
    BY DEF Ids, Delivery!Ids
  <2>5. QED
    <3> HIDE DEF dropped
    <3>1. QED BY <1>4, <2>1, <2>2, <2>3, <2>4 DEF Delivery!Forget
<1>14. QED
  BY <1>8, <1>9, <1>10, <1>11, <1>12, <1>13 DEF Delivering, Waiting

(***************************************************************************)
(* One step per action.                                                    *)
(***************************************************************************)
Simulates == [Delivery!Next]_(Delivery!dvars)

\* What a step has to show; the rest of the invariant is DriverInv's.
StepOK ==
  /\ Delivering(queue', Slot(retry'), Air', cmd', status', tries', forgotten')
  /\ RetryWaits' /\ CallsFrom(cmd')
  /\ Simulates

\* A step that leaves the queue, its slots and what is in unacknowledged calls alone.
LEMMA SameDelivers ==
  ASSUME DeliveryInv, UNCHANGED <<queue, inflight, retry, cmd, status, tries, forgotten>>,
         \A u \in Tasks : Unacked(u)' <=> Unacked(u),
         \A u \in Tasks : calls'[u] # None => calls[u] # None /\ calls'[u].item = calls[u].item,
         gapArmed \/ timerCb = "gap" => gapArmed' \/ timerCb' = "gap"
  PROVE  StepOK
<1>1. Air' = Air
  <2>1. UnackedItems' = UnackedItems
    BY DEF UnackedItems, Unacked
  <2>2. QED BY <2>1 DEF Air
<1>2. Delivering(queue', Slot(retry'), Air', cmd', status', tries', forgotten')
  BY <1>1 DEF DeliveryInv
<1>3. RetryWaits'
  BY DEF DeliveryInv, RetryWaits
<1>4. CallsFrom(cmd')
  BY DEF DeliveryInv, CallsFrom, CallsRecorded
<1>5. Simulates
  BY DEF Simulates, Delivery!dvars
<1>6. QED BY <1>2, <1>3, <1>4, <1>5 DEF StepOK

LEMMA SubmitStep ==
  ASSUME DeliveryInv, NEW t \in Tasks, NEW c \in Commands, Enqueue(t, c),
         Delivery!MayTransmit(status')
  PROVE  Simulates
<1>1. /\ OldIds(c) \subseteq {i \in DOMAIN cmd : /\ c.addr # NoAddr /\ cmd[i] = c
                                                 /\ status[i] = "live" /\ tries[i] = 0}
      /\ OldIds(c) = {} \/ \E i \in Ids : OldIds(c) = {i}
  BY SupersededEqual DEF OldIds
<1>2. status' = [i \in Ids |-> IF i = Len(cmd) + 1 THEN "live"
                               ELSE IF i \in OldIds(c) THEN "superseded" ELSE status[i]]
  BY DEF Enqueue, OldIds
<1>3. Len(cmd) + 1 \in Ids /\ cmd' = Append(cmd, c) /\ forgotten' = forgotten
  <2>1. Len(cmd) \in Nat /\ Len(cmd) < MaxSends
    BY Numbers DEF DeliveryInv, DriverInv, Enqueue
  <2>2. QED BY <2>1, QueueAssumption DEF Ids, Enqueue
<1>4. Ids = Delivery!Ids /\ Commands = Delivery!Commands
  BY DEF Ids, Delivery!Ids, Commands, Delivery!Commands
<1>5. Delivery!Submit(c)
  <2> DEFINE id == Len(cmd) + 1
             equal == {i \in DOMAIN cmd : /\ c.addr # NoAddr /\ cmd[i] = c
                                          /\ status[i] = "live" /\ tries[i] = 0}
  <2>1. \E old \in {{}} \cup {{i} : i \in equal} :
          status' = [i \in Delivery!Ids |-> IF i = id THEN "live"
                                            ELSE IF i \in old THEN "superseded"
                                            ELSE status[i]]
    <3>1. OldIds(c) \in {{}} \cup {{i} : i \in equal}
      BY <1>1
    <3>2. status' = [i \in Delivery!Ids |-> IF i = id THEN "live"
                                            ELSE IF i \in OldIds(c) THEN "superseded"
                                            ELSE status[i]]
      BY <1>2, <1>4
    <3> HIDE DEF equal
    <3>3. QED BY <3>1, <3>2
  <2>2. id \in Delivery!Ids
    BY <1>3, <1>4
  <2>3. QED BY <1>3, <2>1, <2>2 DEF Delivery!Submit
<1>6. QED BY <1>4, <1>5 DEF Simulates, Delivery!Next

LEMMA EnqueueStep ==
  ASSUME DeliveryInv, NEW t \in Tasks, NEW c \in Commands, Enqueue(t, c)
  PROVE  StepOK
<1>1. TypeOK /\ TypeOK'
  BY NextType DEF DeliveryInv, DriverInv, Next
<1>2. /\ Len(cmd) < MaxSends /\ forgotten' = forgotten
      /\ UNCHANGED <<gapArmed, timerCb>>
  BY DEF Enqueue
<1>3. Delivering(EnqueuedTo(c), Slot(retry), Air, cmd', status', tries, forgotten)
  BY EnqueueDelivers DEF Enqueue
<1>4. CASE busy /\ queue' = EnqueuedTo(c)
           /\ UNCHANGED <<inflight, inflightGen, sendGen, retry, busy, calls, tries>>
  <2>1. Air' = Air
    BY <1>4 DEF Air, UnackedItems, Unacked
  <2>2. RetryWaits'
    BY <1>2, <1>4 DEF DeliveryInv, RetryWaits
  <2>3. Delivery!MayTransmit(status') /\ CallsFrom(cmd')
    BY <1>4 DEF Delivery!MayTransmit, CallsFrom
  <2>4. QED BY <1>2, <1>3, <1>4, <2>1, <2>2, <2>3, SubmitStep DEF StepOK
<1>5. CASE ~busy /\ Dispatch(t, EnqueuedTo(c), retry, inflight)
  <2>1. inflight = None /\ retry = None /\ \A u \in Tasks : ~Unacked(u)
    BY <1>5 DEF DeliveryInv, DriverInv, OneDriver
  <2>2. Air = {} /\ retry \in SlotType
    BY <2>1 DEF Air, Slot, UnackedItems, SlotType
  <2>3. EnqueuedTo(c) \in SUBSET Item
    BY <1>1, <1>2, EnqueuedType
  <2>4. Dispatch(t, EnqueuedTo(c), retry, None)
    BY <1>5, <2>1
  <2>5. DOMAIN cmd' \subseteq Ids
    <3>1. DOMAIN cmd' = 1 .. Len(cmd') /\ Len(cmd') \in Nat /\ Len(cmd') <= MaxSends
      BY <1>1 DEF TypeOK
    <3>2. QED BY <3>1, QueueAssumption DEF Ids
  <2>6. /\ Delivering(queue', Slot(retry'), Air', cmd', status', tries', forgotten)
        /\ Delivery!MayTransmit(status') /\ CallsFrom(cmd') /\ retry' = None
    BY <1>1, <1>3, <2>1, <2>2, <2>3, <2>4, <2>5, DispatchDelivers
  <2>7. RetryWaits'
    BY <2>6 DEF RetryWaits
  <2>8. QED BY <1>2, <2>6, <2>7, SubmitStep DEF StepOK
<1>6. QED BY <1>4, <1>5 DEF Enqueue, EnqueuedTo

LEMMA UnacknowledgedStep ==
  ASSUME DeliveryInv, NEW t \in Tasks, ReturnUnacknowledged(t)
  PROVE  StepOK
<1> DEFINE i == calls[t].item
<1>1. /\ TypeOK /\ Unacked(t) /\ i \in Item /\ i.addr = NoAddr /\ i.id \in Ids
      /\ DOMAIN cmd \subseteq Ids /\ queue \in SUBSET Item
  BY Numbers DEF DeliveryInv, DriverInv, ReturnUnacknowledged, Unacked, Acknowledged, TypeOK,
                 Call, Item
<1>2. /\ inflight = None /\ retry = None /\ \A u \in Tasks \ {t} : ~Unacked(u)
  BY <1>1 DEF DeliveryInv, DriverInv, OneDriver, RetryWaits
<1>3. Air = {i} /\ Slot(retry) = {} /\ retry \in SlotType
  BY <1>1, <1>2 DEF Air, Slot, UnackedItems, SlotType
<1>4. /\ Delivering(queue, {}, {i}, cmd, status, tries, forgotten)
      /\ Begun(i, cmd, status, tries, forgotten)
  BY <1>3 DEF DeliveryInv, Delivering
<1>5. /\ StartGap(t, retry, None) /\ status' = [status EXCEPT ![i.id] = "sent"]
      /\ UNCHANGED <<cmd, forgotten>>
  BY <1>2 DEF ReturnUnacknowledged
<1>6. Delivering(queue, {}, {}, cmd, status', tries, forgotten)
  <2>1. "sent" \in Statuses \ {"none", "live"}
    BY DEF Statuses
  <2> HIDE DEF i
  <2>2. QED BY <1>1, <1>4, <1>5, <2>1, SettledDelivers
<1>7. /\ Delivering(queue', Slot(retry'), Air', cmd, status', tries', forgotten)
      /\ Delivery!MayTransmit(status') /\ CallsFrom(cmd) /\ RetryWaits'
  BY <1>1, <1>2, <1>3, <1>5, <1>6, StartGapDelivers
<1>8. Delivery!Settle(i.id)
  BY <1>1, <1>4, <1>5, <1>7 DEF Delivery!Settle, Begun, Recorded
<1>9. i.id \in Delivery!Ids
  BY <1>1 DEF Ids, Delivery!Ids
<1>10. QED BY <1>5, <1>7, <1>8, <1>9 DEF StepOK, Simulates, Delivery!Next

LEMMA FinishStep ==
  ASSUME DeliveryInv, NEW t \in Tasks, inflight # None, NEW acked \in BOOLEAN,
         acked => inflight.addr # NoAddr,
         Finish(t, inflight, acked), UNCHANGED <<cmd, forgotten>>
  PROVE  StepOK
BY FinishDelivers DEF StepOK, Simulates

LEMMA GapStep == ASSUME DeliveryInv, GapTimerCb PROVE StepOK
<1>1. /\ TypeOK /\ DOMAIN cmd \subseteq Ids /\ queue \in SUBSET Item /\ retry \in SlotType
      /\ Timer \in Tasks
  BY Numbers DEF DeliveryInv, DriverInv, TypeOK, SlotType, Tasks
<1>2. inflight = None /\ \A u \in Tasks : ~Unacked(u)
  BY DEF GapTimerCb, DeliveryInv, DriverInv, OneDriver
<1>3. Air = {}
  BY <1>2 DEF Air, Slot, UnackedItems
<1>4. Dispatch(Timer, queue, retry, None) /\ UNCHANGED <<cmd, status, forgotten>>
  BY <1>2 DEF GapTimerCb
<1>5. Delivering(queue, Slot(retry), {}, cmd, status, tries, forgotten)
  BY <1>3 DEF DeliveryInv
<1>6. /\ Delivering(queue', Slot(retry'), Air', cmd, status, tries', forgotten)
      /\ Delivery!MayTransmit(status) /\ CallsFrom(cmd) /\ retry' = None
  BY <1>1, <1>2, <1>4, <1>5, DispatchDelivers
<1>7. Simulates
  BY <1>4, <1>6 DEF Simulates, Delivery!Next, Delivery!Transmit, Delivery!dvars
<1>8. QED BY <1>4, <1>6, <1>7 DEF StepOK, RetryWaits

LEMMA EachStep == ASSUME DeliveryInv, [Next]_vars PROVE StepOK
<1>0. TypeOK /\ Btc \in Tasks /\ Timer \in Tasks
  BY DEF DeliveryInv, DriverInv, Tasks
<1>1. ASSUME NEW t \in Tasks, NEW c \in Commands, Enqueue(t, c) PROVE StepOK
  BY <1>1, EnqueueStep
<1>2. ASSUME NEW t \in Tasks, NEW a \in Addrs, DropPendingFor(t, a) PROVE StepOK
  <2>1. /\ Delivering(queue', Slot(retry'), Air', cmd, status', tries, forgotten')
        /\ Delivery!Forget(a)
    BY <1>2, DropDelivers
  <2>2. UNCHANGED <<cmd, tries, calls, gapArmed, timerCb>>
    BY <1>2 DEF DropPendingFor
  <2>3. RetryWaits'
    <3>1. retry' # None => retry # None
      BY <1>2 DEF DropPendingFor
    <3>2. inflight = None => inflight' = None
      BY <1>2 DEF DropPendingFor
    <3>3. QED BY <2>2, <3>1, <3>2 DEF DeliveryInv, RetryWaits
  <2>4. QED BY <2>1, <2>2, <2>3 DEF StepOK, CallsFrom, Simulates, Delivery!Next
<1>3. ASSUME NEW x \in tx, OnSendComplete(x) PROVE StepOK
  <2>1. CASE UNCHANGED <<qvars, gapArmed, guardArmed, calls, status, tries>>
    BY <1>3, <2>1, SameDelivers DEF OnSendComplete, qvars, Unacked
  <2>2. CASE /\ inflight # None /\ inflight.addr = x.addr
             /\ Finish(Btc, inflight, x.state = "acked")
    <3>1. inflight.addr # NoAddr
      BY <1>0, <2>2, QueueAssumption DEF TypeOK, Transaction
    <3>2. UNCHANGED <<cmd, forgotten>>
      BY <1>3 DEF OnSendComplete
    <3>3. QED BY <1>0, <2>2, <3>1, <3>2, FinishStep
  <2>3. QED BY <1>3, <2>1, <2>2 DEF OnSendComplete
<1>4. ASSUME NEW t \in Tasks, ReturnUnacknowledged(t) PROVE StepOK
  BY <1>4, UnacknowledgedStep
<1>5. ASSUME NEW t \in Tasks, ReturnAcknowledged(t) PROVE StepOK
  <2>1. CASE /\ calls' = [calls EXCEPT ![t] = None]
             /\ UNCHANGED <<queue, inflight, retry, gapArmed, status, tries>>
    <3>1. calls'[t] = None /\ \A u \in Tasks \ {t} : calls'[u] = calls[u]
      BY <1>0, <2>1 DEF TypeOK
    <3>2. ~Unacked(t)
      BY <1>5 DEF ReturnAcknowledged, Unacked
    <3>3. UNCHANGED <<timerCb, cmd, forgotten>>
      BY <1>5 DEF ReturnAcknowledged
    <3>4. QED BY <2>1, <3>1, <3>2, <3>3, SameDelivers DEF Unacked
  <2>2. CASE StillInFlight(t) /\ Finish(t, inflight, FALSE)
    <3>1. inflight # None /\ UNCHANGED <<cmd, forgotten>>
      BY <1>5, <2>2 DEF ReturnAcknowledged, StillInFlight
    <3>2. QED BY <2>2, <3>1, FinishStep
  <2>3. QED BY <1>5, <2>1, <2>2 DEF ReturnAcknowledged, qvars
<1>6. CASE GapFires
  BY <1>6, SameDelivers DEF GapFires, qvars, Unacked
<1>7. CASE GuardFires
  BY <1>7, SameDelivers DEF GuardFires, Free, qvars, Unacked
<1>8. CASE GapTimerCb
  BY <1>8, GapStep
<1>9. CASE GuardTimerCb
  <2>1. CASE UNCHANGED <<qvars, gapArmed, calls, status, tries>>
    BY <1>9, <2>1, SameDelivers DEF GuardTimerCb, qvars, Unacked
  <2>2. CASE inflight # None /\ Finish(Timer, inflight, FALSE)
    <3>1. UNCHANGED <<cmd, forgotten>>
      BY <1>9 DEF GuardTimerCb
    <3>2. QED BY <1>0, <2>2, <3>1, FinishStep
  <2>3. QED BY <1>9, <2>1, <2>2 DEF GuardTimerCb
<1>10. ASSUME NEW t \in Tasks, StackSend(t) PROVE StepOK
  <2>1. \A u \in Tasks \ {t} : calls'[u] = calls[u]
    BY <1>0, <1>10 DEF StackSend, TypeOK
  <2>2. calls'[t] # None /\ calls'[t].item = calls[t].item /\ calls[t] # None
    <3>1. \A r \in {"ok", "fail"} : /\ [calls[t] EXCEPT !.result = r] \in Call
                                   /\ [calls[t] EXCEPT !.result = r].item = calls[t].item
      BY <1>0, <1>10 DEF StackSend, TypeOK, Call
    <3>2. \E r \in {"ok", "fail"} :
            calls' = [calls EXCEPT ![t] = [calls[t] EXCEPT !.result = r]]
      BY <1>10 DEF StackSend
    <3>3. QED BY <1>0, <1>10, <3>1, <3>2, NoneAssumption DEF StackSend, TypeOK
  <2>3. \A u \in Tasks : Unacked(u)' <=> Unacked(u)
    BY <2>1, <2>2 DEF Unacked, Acknowledged
  <2>4. UNCHANGED <<qvars, gapArmed, timerCb, cmd, status, tries, forgotten>>
    BY <1>10 DEF StackSend
  <2>5. QED BY <2>1, <2>2, <2>3, <2>4, SameDelivers DEF qvars
<1>11. ASSUME NEW x \in tx, StackReport(x) PROVE StepOK
  BY <1>11, SameDelivers DEF StackReport, qvars, Unacked
<1>12. CASE UNCHANGED vars
  BY <1>12, SameDelivers DEF vars, qvars, Unacked
<1>13. QED
  BY <1>1, <1>2, <1>3, <1>4, <1>5, <1>6, <1>7, <1>8, <1>9, <1>10, <1>11, <1>12 DEF Next

(***************************************************************************)
(* The invariant is kept.                                                  *)
(***************************************************************************)
\* A command, once given, is not changed.
LEMMA RecordsKept ==
  ASSUME TypeOK, [Next]_vars
  PROVE  \A n \in DOMAIN cmd : n \in DOMAIN cmd' /\ cmd'[n] = cmd[n]
<1>1. ASSUME NEW t \in Tasks, NEW c \in Commands, Enqueue(t, c)
      PROVE  \A n \in DOMAIN cmd : n \in DOMAIN cmd' /\ cmd'[n] = cmd[n]
  BY <1>1 DEF Enqueue, TypeOK
<1>2. CASE UNCHANGED cmd
  BY <1>2
<1>3. QED
  BY <1>1, <1>2 DEF Next, vars, DropPendingFor, OnSendComplete, ReturnUnacknowledged,
                    ReturnAcknowledged, GapFires, GuardFires, GapTimerCb, GuardTimerCb,
                    StackSend, StackReport

LEMMA NextTxRecorded ==
  ASSUME DeliveryInv, [Next]_vars
  PROVE  TxRecorded'
<1> DEFINE Known(x) == x.id \in DOMAIN cmd /\ cmd[x.id].addr = x.addr /\ cmd[x.id].op = x.op
<1>1. ASSUME NEW x \in tx' PROVE Known(x)
  <2>1. CASE tx' \subseteq tx
    BY <2>1 DEF DeliveryInv, TxRecorded
  <2>2. ASSUME NEW t \in Tasks, StackSend(t) PROVE Known(x)
    <3>1. Recorded(calls[t].item, cmd)
      BY <2>2 DEF DeliveryInv, CallsRecorded, StackSend
    <3>2. CASE x \in tx
      BY <3>2 DEF DeliveryInv, TxRecorded
    <3>3. CASE x \notin tx
      <4>1. x.id = calls[t].item.id /\ x.addr = calls[t].item.addr /\ x.op = calls[t].item.op
        BY <2>2, <3>3 DEF StackSend
      <4>2. QED BY <3>1, <4>1 DEF Recorded
    <3>4. QED BY <3>2, <3>3
  <2>3. ASSUME NEW y \in tx, StackReport(y) PROVE Known(x)
    <3>1. y \in Transaction /\ Known(y)
      BY DEF DeliveryInv, DriverInv, TypeOK, TxRecorded
    <3>2. \A s \in {"acked", "failed"} : /\ [y EXCEPT !.state = s].id = y.id
                                         /\ [y EXCEPT !.state = s].addr = y.addr
                                         /\ [y EXCEPT !.state = s].op = y.op
      BY <3>1 DEF Transaction
    <3>3. x \in tx \/ \E s \in {"acked", "failed"} : x = [y EXCEPT !.state = s]
      BY <2>3 DEF StackReport
    <3>4. QED BY <3>1, <3>2, <3>3 DEF DeliveryInv, TxRecorded
  <2>4. QED
    BY <2>1, <2>2, <2>3 DEF Next, vars, Enqueue, DropPendingFor, OnSendComplete,
                            ReturnUnacknowledged, ReturnAcknowledged, GapFires, GuardFires,
                            GapTimerCb, GuardTimerCb
<1>2. TypeOK
  BY DEF DeliveryInv, DriverInv
<1>3. QED
  BY <1>1, <1>2, RecordsKept DEF TxRecorded

LEMMA NextDelivers == DeliveryInv /\ [Next]_vars => DeliveryInv'
<1> SUFFICES ASSUME DeliveryInv, [Next]_vars PROVE DeliveryInv'
  OBVIOUS
<1>1. DriverInv'
  BY NextType, NextDriver, NextTimerAlone DEF DeliveryInv, DriverInv
<1>2. StepOK
  BY EachStep
<1>3. CallsRecorded'
  <2>1. \A n \in DOMAIN cmd : n \in DOMAIN cmd' /\ cmd'[n] = cmd[n]
    BY RecordsKept DEF DeliveryInv, DriverInv
  <2>2. QED BY <1>2, <2>1 DEF StepOK, CallsFrom, DeliveryInv, CallsRecorded, Recorded
<1>4. TxRecorded'
  BY NextTxRecorded
<1>5. QED BY <1>1, <1>2, <1>3, <1>4 DEF DeliveryInv, StepOK

LEMMA InitDelivers == Init => DeliveryInv
<1> SUFFICES ASSUME Init PROVE DeliveryInv
  OBVIOUS
<1>1. DriverInv
  BY InitDriver
<1>2. Air = {} /\ Slot(retry) = {}
  BY DEF Init, Air, UnackedItems, Unacked, Slot
<1>3. Accounted(cmd, status, tries, forgotten)
  BY DEF Init, Accounted
<1>4. Delivering(queue, Slot(retry), Air, cmd, status, tries, forgotten)
  BY <1>2, <1>3 DEF Init, Delivering, Waiting
<1>5. RetryWaits /\ CallsRecorded /\ TxRecorded
  BY DEF Init, RetryWaits, CallsRecorded, TxRecorded
<1>6. QED BY <1>1, <1>4, <1>5 DEF DeliveryInv

(***************************************************************************)
(* Theorems                                                                *)
(***************************************************************************)
\* external_node_queue.cpp implements serial, ordered and bounded delivery: whatever the tasks,
\* the stack and the timers do, each step of the queue submits, settles, forgets or transmits
\* one command as SerialDelivery allows, or changes nothing its callers can see.
THEOREM DeliveryImplemented == Spec => ImplementsSerialDelivery
<1>1. Init => Delivery!Init
  BY DEF Init, Delivery!Init, Ids, Delivery!Ids
<1>2. DeliveryInv /\ [Next]_vars => [Delivery!Next]_(Delivery!dvars)
  BY EachStep DEF StepOK, Simulates
<1>3. QED
  BY <1>1, <1>2, InitDelivers, NextDelivers, PTL DEF Spec, ImplementsSerialDelivery, Delivery!Spec

\* Whenever busy_ is false every command is settled, and the newest one to each node and opcode
\* was handed to the stack unless its node was forgotten: superseding in enqueue() never
\* loses the value that should win.
THEOREM IdleSettles == Spec => []IdleMeansSettled
<1>1. ASSUME DeliveryInv PROVE IdleMeansSettled
  <2> SUFFICES ASSUME ~busy, NEW i \in DOMAIN cmd
               PROVE  /\ status[i] # "live"
                      /\ Newest(i) => tries[i] > 0 \/ i \in forgotten
    BY DEF IdleMeansSettled
  <2>1. i \in Ids
    BY <1>1, Numbers DEF DeliveryInv, DriverInv
  <2>2. queue = {} /\ retry = None /\ inflight = None /\ \A u \in Tasks : ~Unacked(u)
    BY <1>1 DEF DeliveryInv, DriverInv, OneDriver
  <2>3. queue \cup Slot(retry) \cup Air = {}
    BY <2>2 DEF Slot, Air, UnackedItems
  <2>4. status[i] # "live"
    BY <1>1, <2>1, <2>3 DEF DeliveryInv, Delivering
  <2>5. Newest(i) => tries[i] > 0 \/ i \in forgotten
    BY <1>1, <2>4 DEF DeliveryInv, Delivering, Accounted, Newest
  <2>6. QED BY <2>4, <2>5
<1>2. QED
  BY <1>1, InitDelivers, NextDelivers, PTL DEF Spec

\* on_send_complete() keeps from the node table the reply to a live send whose node was
\* forgotten: such a send is the one in flight, and drop_pending_for() has marked it.
THEOREM ForgottenStaysUnheard == Spec => ForgottenNotHeard
<1>1. ASSUME DeliveryInv, [Next]_vars
      PROVE  [\A i \in heard' \ heard : i \in forgotten => status[i] # "live"]_vars
  <2> SUFFICES ASSUME NEW i \in heard' \ heard, i \in forgotten, status[i] = "live"
               PROVE  FALSE
    OBVIOUS
  <2>1. PICK x \in tx : OnSendComplete(x) /\ heard' # heard
    BY <1>1 DEF Next, vars, Enqueue, DropPendingFor, ReturnUnacknowledged,
                ReturnAcknowledged, GapFires, GuardFires, GapTimerCb, GuardTimerCb,
                StackSend, StackReport
  <2>2. i = x.id
    BY <2>1 DEF OnSendComplete
  <2>3. ~(inflight # None /\ inflight.addr = x.addr /\ inflight.op = x.op /\ inflight.orphaned)
    BY <2>1 DEF OnSendComplete
  <2>4. /\ i \in Ids /\ x.addr # NoAddr /\ cmd[i].addr = x.addr /\ cmd[i].op = x.op
    BY <1>1, <2>2, QueueAssumption DEF DeliveryInv, DriverInv, TypeOK, Transaction, TxRecorded
  <2>5. PICK s \in queue \cup Slot(retry) \cup Air : s.id = i
    BY <1>1, <2>4 DEF DeliveryInv, Delivering
  <2>6. s \notin queue \cup Slot(retry)
    BY <1>1, <2>5 DEF DeliveryInv, Delivering, Waiting, Ready
  <2>7. /\ s.orphaned /\ s.addr = x.addr /\ s.op = x.op
    BY <1>1, <2>4, <2>5, <2>6 DEF DeliveryInv, Delivering, Begun, Recorded
  <2>8. s \notin UnackedItems
    BY <2>4, <2>7 DEF UnackedItems, Unacked, Acknowledged
  <2>9. s = inflight /\ inflight # None
    BY <2>5, <2>6, <2>8 DEF Air, Slot
  <2>10. QED BY <2>3, <2>7, <2>9
<1>2. QED
  BY <1>1, InitDelivers, NextDelivers, PTL DEF Spec, ForgottenNotHeard
=============================================================================
