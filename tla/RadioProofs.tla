----------------------------- MODULE RadioProofs -----------------------------
(***************************************************************************)
(* Theorems about what goes over the bridge's two radios, for every value  *)
(* of the constants.                                                       *)
(*                                                                         *)
(* NodeMessageQueue: messages to nodes of the mesh, for every number of    *)
(* tasks, messages and retries.  What becomes of a message is of tasks     *)
(* that do not overlap in the queue's code, which takes no lock.           *)
(*                                                                         *)
(* WifiLink: how the reconnect task counts its attempts, although the      *)
(* event handler resets the counter under its hands; what the handlers     *)
(* that write one key after the other leave in flash; and that the state   *)
(* reported, however late, comes to be the link's.                         *)
(***************************************************************************)
EXTENDS NodeMessageQueue, WifiLink, TLAPS

(***************************************************************************)
(* Sequences, as far as the queue uses them.                               *)
(***************************************************************************)
LEMMA PushedSeq ==
  ASSUME NEW S, NEW q \in Seq(S), NEW m \in S
  PROVE  /\ Append(q, m) \in Seq(S) /\ Append(q, m) # <<>>
         /\ DOMAIN q = 1 .. Len(q) /\ Len(q) \in Nat
         /\ DOMAIN Append(q, m) = 1 .. Len(q) + 1
         /\ \A i \in DOMAIN q : Append(q, m)[i] = q[i]
         /\ Append(q, m)[Len(q) + 1] = m
OBVIOUS

LEMMA PoppedSeq ==
  ASSUME NEW S, NEW q \in Seq(S), q # <<>>
  PROVE  /\ Tail(q) \in Seq(S) /\ Head(q) \in S /\ Head(q) = q[1]
         /\ Len(q) \in Nat /\ Len(q) > 0 /\ DOMAIN q = 1 .. Len(q)
         /\ DOMAIN Tail(q) = 1 .. Len(q) - 1
         /\ \A i \in DOMAIN Tail(q) : i + 1 \in DOMAIN q /\ Tail(q)[i] = q[i + 1]
OBVIOUS

LEMMA ReplacedSeq ==
  ASSUME NEW S, NEW q \in Seq(S), q # <<>>, NEW m \in S
  PROVE  /\ <<m>> \o Tail(q) \in Seq(S) /\ <<m>> \o Tail(q) # <<>>
         /\ DOMAIN (<<m>> \o Tail(q)) = DOMAIN q
         /\ (<<m>> \o Tail(q))[1] = m /\ Head(<<m>> \o Tail(q)) = m
         /\ \A i \in DOMAIN q : i # 1 => (<<m>> \o Tail(q))[i] = q[i]
OBVIOUS

(***************************************************************************)
(* Types.                                                                  *)
(***************************************************************************)
Fate == [kind : Kinds \cup {"none"}, tries : Nat,
         how : {"none", "queued", "acked", "dropped", "published", "erased"}]

LEMMA GotoType ==
  ASSUME CodeOK, NEW t \in Tasks, NEW label \in {"idle", "next", "sent", "done"},
         NEW r \in Continuation, Goto(t, label, r)
  PROVE  /\ pc' \in [Tasks -> {"idle", "next", "sent", "done"}]
         /\ cur' \in [Tasks -> Message \cup {NoMessage}]
         /\ rest' \in [Tasks -> Continuation]
BY DEF CodeOK, Goto

LEMMA BecomesType ==
  ASSUME CodeOK, NEW m \in Message, NEW how \in {"acked", "dropped", "published"}
  PROVE  BecomesOf(m, how) \in [Ids -> Fate]
<1>1. m.id \in Ids /\ fate[m.id] \in Fate
  BY DEF CodeOK, Message, Fate
<1>2. [fate[m.id] EXCEPT !.how = how] \in Fate
  BY <1>1 DEF Fate
<1>3. QED BY <1>1, <1>2 DEF BecomesOf, CodeOK, Fate

LEMMA PushType ==
  ASSUME CodeOK, NEW t \in Tasks, NEW kind \in Kinds, NEW left \in 0 .. Retries + ResetRetries,
         NEW r \in Continuation, Push(t, kind, left, r), onoff' \in {Off, On}
  PROVE  CodeOK'
<1> DEFINE m == [id |-> last + 1, kind |-> kind, left |-> left]
<1>1. last + 1 \in Ids /\ last' \in 0 .. MaxMsgs
  BY NodeAssumption DEF Push, CodeOK, Ids
<1>2. m \in Message
  BY <1>1 DEF Message
<1>3. queue' \in Seq(Message)
  BY <1>2, PushedSeq DEF Push, CodeOK
<1>4. fate' \in [Ids -> Fate]
  BY <1>1 DEF Push, CodeOK, Fate
<1>5. /\ pc' \in [Tasks -> {"idle", "next", "sent", "done"}]
      /\ cur' \in [Tasks -> Message \cup {NoMessage}] /\ rest' \in [Tasks -> Continuation]
  <2>1. Goto(t, "done", r) \/ Goto(t, "next", r)
    BY DEF Push
  <2>2. QED BY <2>1, GotoType
<1>6. QED BY <1>1, <1>3, <1>4, <1>5 DEF Push, CodeOK, Fate

LEMMA PopType ==
  ASSUME CodeOK, NEW t \in Tasks, NEW how \in {"acked", "dropped"}, NEW r \in Continuation,
         queue # <<>>, PopAndGo(t, how, r)
  PROVE  /\ queue' \in Seq(Message) /\ waiting' \in BOOLEAN /\ failsafe' \in BOOLEAN
         /\ fate' \in [Ids -> Fate]
         /\ pc' \in [Tasks -> {"idle", "next", "sent", "done"}]
         /\ cur' \in [Tasks -> Message \cup {NoMessage}] /\ rest' \in [Tasks -> Continuation]
<1>1. Head(queue) \in Message /\ Tail(queue) \in Seq(Message)
  BY PoppedSeq DEF CodeOK
<1>2. fate' \in [Ids -> Fate]
  BY <1>1, BecomesType DEF PopAndGo
<1>3. QED BY <1>1, <1>2, GotoType DEF PopAndGo

LEMMA HandleType ==
  ASSUME CodeOK, NEW t \in Tasks, NEW kind, NEW r \in Continuation,
         HandleAck(t, kind, r) \/ HandleTimeout(t, kind, r)
  PROVE  /\ queue' \in Seq(Message) /\ waiting' \in BOOLEAN /\ failsafe' \in BOOLEAN
         /\ fate' \in [Ids -> Fate]
         /\ pc' \in [Tasks -> {"idle", "next", "sent", "done"}]
         /\ cur' \in [Tasks -> Message \cup {NoMessage}] /\ rest' \in [Tasks -> Continuation]
<1>1. CASE IsFront(kind) /\ (PopAndGo(t, "acked", r) \/ PopAndGo(t, "dropped", r))
  BY <1>1, PopType DEF IsFront
<1>2. CASE Ignored(t, r)
  BY <1>2, GotoType DEF Ignored, CodeOK, Fate
<1>3. CASE /\ IsFront(kind) /\ ~LastTry(Head(queue))
           /\ queue' = <<[Head(queue) EXCEPT !.left = @ - 1]>> \o Tail(queue)
           /\ waiting' = FALSE
           /\ UNCHANGED <<failsafe, fate>>
           /\ Goto(t, "next", r)
  <2> DEFINE m == [Head(queue) EXCEPT !.left = @ - 1]
  <2>1. queue # <<>> /\ Head(queue) \in Message
    BY <1>3, PoppedSeq DEF IsFront, CodeOK
  <2>2. Head(queue).left - 1 \in 0 .. Retries + ResetRetries
    BY <1>3, <2>1, NodeAssumption DEF LastTry, Message
  <2>3. m \in Message
    BY <2>1, <2>2 DEF Message
  <2>4. queue' \in Seq(Message)
    <3> HIDE DEF m
    <3>1. <<m>> \o Tail(queue) \in Seq(Message)
      BY <2>1, <2>3, ReplacedSeq DEF CodeOK
    <3>2. QED BY <1>3, <3>1 DEF m
  <2>5. QED BY <1>3, <2>4, GotoType DEF CodeOK, Fate
<1>4. QED BY <1>1, <1>2, <1>3 DEF HandleAck, HandleTimeout

LEMMA NothingType == Nothing \in Continuation /\ Nothing.event = "none"
BY DEF Nothing, Continuation

LEMMA InitType == Init => TypeOK
<1> SUFFICES ASSUME Init PROVE TypeOK
  OBVIOUS
<1>1. fate \in [Ids -> Fate]
  <2>1. [kind |-> "none", how |-> "none", tries |-> 0] \in Fate
    BY DEF Fate
  <2>2. QED BY <2>1 DEF Init
<1>2. cur \in [Tasks -> Message \cup {NoMessage}] /\ rest \in [Tasks -> Continuation]
  BY NothingType DEF Init
<1>3. pc \in [Tasks -> {"idle", "next", "sent", "done"}] /\ tx \subseteq Transaction
  BY DEF Init
<1>4. last \in 0 .. MaxMsgs /\ queue \in Seq(Message)
  BY NodeAssumption DEF Init
<1>5. /\ {registered, hasQueue, waiting, failsafe, fired, dangling} \subseteq BOOLEAN
      /\ {onoff, light, shown} \subseteq {Off, On}
  BY DEF Init
<1>6. CodeOK
  BY <1>1, <1>2, <1>3, <1>4, <1>5 DEF CodeOK, Fate
<1>7. QED BY <1>6 DEF Init, TypeOK

LEMMA NextCode == CodeOK /\ [Next]_vars => CodeOK'
<1> SUFFICES ASSUME CodeOK, [Next]_vars PROVE CodeOK'
  OBVIOUS
<1>0. /\ Btc \in Tasks /\ Timer \in Tasks /\ Callers \subseteq Tasks
      /\ Retries \in 0 .. Retries + ResetRetries /\ ResetRetries \in 0 .. Retries + ResetRetries
      /\ 0 \in 0 .. Retries + ResetRetries
      /\ "set" \in Kinds /\ "get" \in Kinds /\ "pub" \in Kinds /\ "reset" \in Kinds
  BY NodeAssumption DEF Tasks, Kinds
<1>1. ASSUME NEW t \in Callers, NEW v \in {Off, On}, HaCommand(t, v) PROVE CodeOK'
  <2>1. [Nothing EXCEPT !.event = "pub"] \in Continuation
    BY DEF Nothing, Continuation
  <2>2. QED BY <1>0, <1>1, <2>1, PushType DEF HaCommand
<1>2. ASSUME NEW t \in Callers, NEW v \in {Off, On}, WebCommand(t, v) PROVE CodeOK'
  BY <1>0, <1>2, NothingType, PushType DEF WebCommand
<1>3. ASSUME NEW t \in Callers, Refresh(t) PROVE CodeOK'
  BY <1>0, <1>3, NothingType, PushType DEF Refresh, CodeOK
<1>4. ASSUME NEW t \in Callers, Unprovision(t) PROVE CodeOK'
  BY <1>0, <1>4, NothingType, PushType DEF Unprovision, CodeOK
<1>5. ASSUME NEW t \in Callers, EnqueueStatusPublish(t) PROVE CodeOK'
  BY <1>0, <1>5, NothingType, PushType DEF EnqueueStatusPublish, CodeOK
<1>6. ASSUME NEW t \in Tasks, TrySendNext(t) PROVE CodeOK'
  <2>1. UNCHANGED <<queueVars, nodeVars, rest, light, last>>
    BY <1>6 DEF TrySendNext
  <2>2. CASE /\ queue = <<>> /\ pc' = [pc EXCEPT ![t] = "done"]
             /\ UNCHANGED <<cur, tx, shown, fate>>
    BY <2>1, <2>2 DEF CodeOK, queueVars, nodeVars
  <2>3. CASE /\ queue # <<>>
             /\ pc' = [pc EXCEPT ![t] = "sent"] /\ cur' = [cur EXCEPT ![t] = Head(queue)]
             /\ fate' = [fate EXCEPT ![Head(queue).id].tries = @ + 1]
             /\ \/ Head(queue).kind = "pub" /\ shown' = onoff /\ UNCHANGED tx
                \/ Head(queue).kind # "pub" /\ StackSend(Head(queue)) /\ UNCHANGED shown
    <3> DEFINE m == Head(queue)
    <3>1. m \in Message /\ m.id \in Ids /\ m.kind \in Kinds
      <4>1. m \in Message
        BY <2>3, PoppedSeq DEF CodeOK
      <4>2. QED BY <4>1 DEF Message
    <3>2. fate[m.id] \in Fate /\ [fate[m.id] EXCEPT !.tries = @ + 1] \in Fate
      BY <3>1 DEF CodeOK, Fate
    <3>3. fate' \in [Ids -> Fate]
      BY <2>3, <3>1, <3>2 DEF CodeOK, Fate
    <3>4. tx' \subseteq Transaction
      <4>1. CASE UNCHANGED tx
        BY <4>1 DEF CodeOK
      <4>2. CASE m.kind # "pub" /\ StackSend(m)
        <5> DEFINE x(s) == [id |-> m.id, kind |-> m.kind, value |-> onoff,
                            try |-> fate[m.id].tries, state |-> s]
        <5>1. \A s \in {"onair", "error"} : x(s) \in Transaction
          BY <3>1, <3>2, <4>2 DEF Transaction, MeshKinds, CodeOK, Fate
        <5>2. [x("onair") EXCEPT !.state = "error"] = x("error")
          OBVIOUS
        <5>3. tx' \subseteq tx \cup {x("onair"), x("error")}
          BY <4>2, <5>2 DEF StackSend
        <5> HIDE DEF x
        <5>4. QED BY <5>1, <5>3 DEF CodeOK
      <4>3. QED BY <2>3, <4>1, <4>2
    <3>5. shown' \in {Off, On}
      BY <2>3 DEF CodeOK
    <3>6. /\ pc' \in [Tasks -> {"idle", "next", "sent", "done"}]
          /\ cur' \in [Tasks -> Message \cup {NoMessage}]
      BY <2>3, <3>1 DEF CodeOK
    <3>7. QED BY <2>1, <3>3, <3>4, <3>5, <3>6 DEF CodeOK, Fate, queueVars, nodeVars
  <2>4. QED BY <1>6, <2>2, <2>3 DEF TrySendNext
<1>7. ASSUME NEW t \in Tasks, AfterSend(t) PROVE CodeOK'
  <2>1. /\ UNCHANGED <<hasQueue, fired, nodeVars, rest, tx, light, shown, last>>
        /\ cur' \in [Tasks -> Message \cup {NoMessage}]
        /\ pc' \in [Tasks -> {"idle", "next", "sent", "done"}]
        /\ waiting' \in BOOLEAN /\ failsafe' \in BOOLEAN
    BY <1>7 DEF AfterSend, CodeOK
  <2>2. queue' \in Seq(Message)
    <3>1. queue \in Seq(Message) /\ Popped \in Seq(Message)
      <4>1. CASE queue = <<>>
        BY <4>1 DEF Popped
      <4>2. CASE queue # <<>>
        BY <4>2, PoppedSeq DEF CodeOK, Popped
      <4>3. QED BY <4>1, <4>2 DEF CodeOK
    <3>2. queue' = queue \/ queue' = Popped
      BY <1>7 DEF AfterSend
    <3>3. QED BY <3>1, <3>2
  <2>3. fate' \in [Ids -> Fate]
    <3>1. CASE fate' = fate
      BY <3>1 DEF CodeOK, Fate
    <3>2. CASE cur[t].kind = "pub" /\ fate' = BecomesOf(cur[t], "published")
      <4>1. cur[t] \in Message
        BY <3>2 DEF CodeOK, NoMessage
      <4>2. QED BY <3>2, <4>1, BecomesType
    <3>3. QED BY <1>7, <3>1, <3>2 DEF AfterSend
  <2>4. QED BY <2>1, <2>2, <2>3 DEF CodeOK, Fate, nodeVars
<1>8. ASSUME NEW t \in Tasks, Leave(t) PROVE CodeOK'
  BY <1>8, GotoType, NothingType DEF Leave, CodeOK, queueVars, nodeVars, history
<1>9. ASSUME NEW x \in tx, ClientCallback(x) PROVE CodeOK'
  <2> DEFINE r(e, v) == [event |-> e, kind |-> x.kind, value |-> v]
  <2>1. /\ tx' \subseteq Transaction
        /\ UNCHANGED <<hasQueue, fired, nodeVars, light, shown, last>>
    BY <1>9 DEF ClientCallback, CodeOK
  <2>2. CASE UNCHANGED <<failsafe, waiting, queue, fate, taskVars>>
    BY <2>1, <2>2 DEF CodeOK, taskVars, nodeVars
  <2>3. CASE HandleAck(Btc, x.kind, r("ack", x.value)) \/ HandleTimeout(Btc, x.kind, r("timeout", Off))
    <3>1. r("ack", x.value) \in Continuation /\ r("timeout", Off) \in Continuation
      BY DEF CodeOK, Transaction, MeshKinds, Continuation
    <3> HIDE DEF r
    <3>2. /\ queue' \in Seq(Message) /\ waiting' \in BOOLEAN /\ failsafe' \in BOOLEAN
          /\ fate' \in [Ids -> Fate]
          /\ pc' \in [Tasks -> {"idle", "next", "sent", "done"}]
          /\ cur' \in [Tasks -> Message \cup {NoMessage}] /\ rest' \in [Tasks -> Continuation]
      BY <1>0, <2>3, <3>1, HandleType
    <3>3. QED BY <2>1, <3>2 DEF CodeOK, Fate, nodeVars
  <2>4. QED BY <1>9, <2>2, <2>3 DEF ClientCallback
<1>10. CASE AfterClientCallback
  <2>1. /\ pc' \in [Tasks -> {"idle", "next", "sent", "done"}]
        /\ cur' \in [Tasks -> Message \cup {NoMessage}] /\ rest' \in [Tasks -> Continuation]
    BY <1>0, <1>10, GotoType, NothingType DEF AfterClientCallback
  <2>2. UNCHANGED <<tx, light, shown, last>>
    BY <1>10 DEF AfterClientCallback
  <2>3. CASE ResetNode /\ UNCHANGED onoff
    <3>1. fate' \in [Ids -> Fate]
      <4>1. \A i \in Ids : fate[i] \in Fate /\ [fate[i] EXCEPT !.how = "erased"] \in Fate
        BY DEF CodeOK, Fate
      <4>2. QED BY <2>3, <4>1 DEF ResetNode
    <3>2. queue' \in Seq(Message)
      BY <2>3 DEF ResetNode
    <3>3. /\ {registered', hasQueue', waiting', failsafe', fired', dangling'} \subseteq BOOLEAN
          /\ onoff' = onoff
      BY <2>3 DEF ResetNode, CodeOK
    <3>4. QED BY <2>1, <2>2, <3>1, <3>2, <3>3 DEF CodeOK, Fate
  <2>4. CASE /\ UNCHANGED <<queueVars, registered, dangling, fate>>
             /\ onoff' \in {rest[Btc].value, onoff}
    <3>1. onoff' \in {Off, On}
      BY <1>0, <2>4 DEF CodeOK, Continuation
    <3>2. QED BY <2>1, <2>2, <2>4, <3>1 DEF CodeOK, queueVars
  <2>5. QED BY <1>10, <2>3, <2>4 DEF AfterClientCallback
<1>11. CASE FailsafeFires
  BY <1>11 DEF FailsafeFires, CodeOK, nodeVars, taskVars, history
<1>12. CASE FailsafeCallback
  <2>1. fired' = FALSE /\ UNCHANGED <<hasQueue, nodeVars, tx, light, shown, last>>
    BY <1>12 DEF FailsafeCallback
  <2>2. CASE UNCHANGED <<queue, waiting, failsafe, taskVars, fate>>
    BY <2>1, <2>2 DEF CodeOK, taskVars, nodeVars
  <2>3. CASE HandleTimeout(Timer, Head(queue).kind, Nothing)
    <3>1. /\ queue' \in Seq(Message) /\ waiting' \in BOOLEAN /\ failsafe' \in BOOLEAN
          /\ fate' \in [Ids -> Fate]
          /\ pc' \in [Tasks -> {"idle", "next", "sent", "done"}]
          /\ cur' \in [Tasks -> Message \cup {NoMessage}] /\ rest' \in [Tasks -> Continuation]
      BY <1>0, <2>3, HandleType, NothingType
    <3>2. QED BY <2>1, <3>1 DEF CodeOK, Fate, nodeVars
  <2>4. QED BY <1>12, <2>2, <2>3 DEF FailsafeCallback
<1>13. ASSUME NEW x \in tx, StackReport(x) PROVE CodeOK'
  <2>1. x \in Transaction /\ light \in {Off, On} /\ x.value \in {Off, On}
    BY DEF CodeOK, Transaction
  <2>2. light' \in {Off, On} /\ UNCHANGED <<queueVars, nodeVars, taskVars, shown, history>>
    BY <1>13, <2>1 DEF StackReport
  <2>3. /\ \A v \in {Off, On} : [x EXCEPT !.state = "ack", !.value = v] \in Transaction
        /\ [x EXCEPT !.state = "timeout"] \in Transaction
    BY <2>1 DEF Transaction
  <2>4. tx' \subseteq Transaction
    <3>1. \/ \E v \in {Off, On} : tx' = (tx \ {x}) \cup {[x EXCEPT !.state = "ack", !.value = v]}
          \/ tx' = (tx \ {x}) \cup {[x EXCEPT !.state = "timeout"]}
      BY <1>13, <2>1 DEF StackReport
    <3>2. QED BY <2>3, <3>1 DEF CodeOK
  <2>5. QED BY <2>2, <2>4 DEF CodeOK, queueVars, nodeVars, taskVars, history
<1>14. CASE UNCHANGED vars
  BY <1>14 DEF CodeOK, vars, queueVars, nodeVars, taskVars, history
<1>15. QED
  BY <1>1, <1>2, <1>3, <1>4, <1>5, <1>6, <1>7, <1>8, <1>9, <1>10, <1>11, <1>12, <1>13, <1>14
  DEF Next

\* Once two tasks have met in the queue's code, it stays so.
LEMMA MetStays ==
  ASSUME [Next]_vars, met \in BOOLEAN
  PROVE  met' \in BOOLEAN /\ (met => met')
<1> DEFINE Goal == met' \in BOOLEAN /\ (met => met')
<1>1. ASSUME NEW t \in Callers, NEW v \in {Off, On}, HaCommand(t, v) \/ WebCommand(t, v) PROVE Goal
  BY <1>1 DEF HaCommand, WebCommand, Enter
<1>2. ASSUME NEW t \in Callers, Refresh(t) \/ Unprovision(t) \/ EnqueueStatusPublish(t) PROVE Goal
  BY <1>2 DEF Refresh, Unprovision, EnqueueStatusPublish, Enter
<1>3. ASSUME NEW t \in Tasks, TrySendNext(t) \/ AfterSend(t) \/ Leave(t) PROVE Goal
  BY <1>3 DEF TrySendNext, AfterSend, Leave
<1>4. ASSUME NEW x \in tx, ClientCallback(x) \/ StackReport(x) PROVE Goal
  BY <1>4 DEF ClientCallback, StackReport, Enter
<1>5. ASSUME AfterClientCallback \/ FailsafeFires \/ UNCHANGED vars PROVE Goal
  <2>1. met' = met
    BY <1>5 DEF AfterClientCallback, FailsafeFires, vars
  <2>2. QED BY <2>1
<1>6. ASSUME FailsafeCallback PROVE Goal
  BY <1>6 DEF FailsafeCallback, Enter
<1>7. QED
  BY <1>1, <1>2, <1>3, <1>4, <1>5, <1>6 DEF Next

LEMMA NextType == TypeOK /\ [Next]_vars => TypeOK'
BY NextCode, MetStays DEF TypeOK

\* The queue, the callbacks, the stack's events and the node's record stay well-typed, whether or
\* not tasks overlap in the queue's code.
THEOREM NodeTypeCorrect == Spec => []TypeOK
BY InitType, NextType, PTL DEF Spec

(***************************************************************************)
(* The invariant.                                                          *)
(***************************************************************************)
\* Up to their first meeting at most one task is inside the queue's code.
OneInside == \A t, u \in Tasks : pc[t] # "idle" /\ pc[u] # "idle" => t = u

\* What is queued was enqueued in this order, and nothing has become of it yet.
Ordered ==
  /\ \A i \in DOMAIN queue :
       /\ queue[i].id <= last
       /\ fate[queue[i].id].kind = queue[i].kind /\ fate[queue[i].id].how = "queued"
  /\ \A i, j \in DOMAIN queue : i < j => queue[i].id < queue[j].id
  /\ \A i \in Ids : i > last => fate[i] = [kind |-> "none", how |-> "none", tries |-> 0]

\* A task is about to send the front, has just sent it, or the front waits for its answer.
Phases ==
  /\ \A t \in Tasks : pc[t] = "next" => ~waiting
  /\ \A t \in Tasks : pc[t] = "sent" => ~waiting /\ queue # <<>> /\ cur[t] = Head(queue)
  /\ waiting => queue # <<>> /\ Head(queue).kind # "pub"
  /\ queue # <<>> => waiting \/ \E t \in Tasks : pc[t] \in {"next", "sent"}

\* The front was sent since its retries were last counted down.
Attempted == waiting \/ \E t \in Tasks : pc[t] = "sent"

\* Of each message its transmissions and the retries it has left add up.
Budgeted ==
  \A i \in DOMAIN queue :
    queue[i].kind # "pub" =>
      LET sum == fate[queue[i].id].tries + queue[i].left
      IN /\ queue[i].left > 0
         /\ i = 1 /\ Attempted => sum = Budget(queue[i].kind) + 1
         /\ i = 1 /\ ~Attempted => sum = Budget(queue[i].kind)
         /\ i # 1 => fate[queue[i].id].tries = 0 /\ sum = Budget(queue[i].kind)

Delivery == Ordered /\ Phases /\ Budgeted /\ ExactTries

QueueInv == CodeOK /\ OneInside /\ Delivery

\* Task t, alone in the queue's code or coming into it, is at label now.
Moved(t, label) ==
  /\ pc' = [pc EXCEPT ![t] = label]
  /\ \A u \in Tasks \ {t} : pc[u] = "idle"

LEMMA MovedAlone ==
  ASSUME CodeOK, NEW t \in Tasks, NEW label, Moved(t, label)
  PROVE  /\ pc'[t] = label /\ \A u \in Tasks \ {t} : pc'[u] = "idle"
         /\ OneInside'
BY DEF CodeOK, Moved, OneInside

\* With no task about to send or just back from it, the front waits.
LEMMA RestWaits ==
  ASSUME QueueInv, \A u \in Tasks : pc[u] \in {"idle", "done"}
  PROVE  /\ queue # <<>> <=> waiting
         /\ Attempted <=> waiting
BY DEF QueueInv, Delivery, Phases, Attempted

\* What is queued, as the lemmas below use it.
LEMMA Items ==
  ASSUME QueueInv
  PROVE  /\ queue \in Seq(Message) /\ fate \in [Ids -> Fate] /\ last \in Nat
         /\ \A i \in DOMAIN queue :
              /\ queue[i] \in Message /\ queue[i].id \in Ids /\ queue[i].left \in Nat
              /\ queue[i].kind \in Kinds /\ i \in Nat /\ i > 0
         /\ \A i \in Ids : i \in Nat /\ fate[i].tries \in Nat
<1>1. queue \in Seq(Message) /\ fate \in [Ids -> Fate] /\ last \in Nat
  BY NodeAssumption DEF QueueInv, CodeOK, Fate
<1>2. \A i \in DOMAIN queue : queue[i] \in Message /\ i \in Nat /\ i > 0
  BY <1>1
<1>3. \A m \in Message : m.id \in Ids /\ m.left \in Nat /\ m.kind \in Kinds
  BY NodeAssumption DEF Message
<1>4. \A i \in Ids : i \in Nat /\ fate[i].tries \in Nat
  BY <1>1 DEF Ids, Fate
<1>5. QED BY <1>1, <1>2, <1>3, <1>4

\* A step that touches neither queue nor fates, into or out of the queue's code.
LEMMA QuietKeeps ==
  ASSUME QueueInv, NEW t \in Tasks, NEW label \in {"idle", "done"}, Moved(t, label),
         pc[t] \in {"idle", "done"}, UNCHANGED <<queue, waiting, fate, last>>
  PROVE  OneInside' /\ Delivery'
<1>1. /\ pc'[t] = label /\ \A u \in Tasks \ {t} : pc'[u] = "idle"
      /\ OneInside'
  BY MovedAlone DEF QueueInv
<1>2. Phases' /\ (Attempted' <=> Attempted)
  BY <1>1 DEF QueueInv, Delivery, Phases, Attempted, Moved
<1>3. Ordered' /\ Budgeted' /\ ExactTries'
  BY <1>2 DEF QueueInv, Delivery, Ordered, Budgeted, ExactTries
<1>4. QED BY <1>1, <1>2, <1>3 DEF Delivery

LEMMA StillKeeps ==
  ASSUME QueueInv, UNCHANGED <<queue, waiting, fate, last, pc, cur>>
  PROVE  OneInside' /\ Delivery'
BY DEF QueueInv, OneInside, Delivery, Ordered, Phases, Budgeted, Attempted, ExactTries

\* What becomes of the message id, and nothing of the others.
Became(id, how) ==
  /\ fate'[id].kind = fate[id].kind /\ fate'[id].how = how /\ fate'[id].tries = fate[id].tries
  /\ \A i \in Ids \ {id} : fate'[i] = fate[i]

LEMMA BecomesBecame ==
  ASSUME QueueInv, NEW m \in Message, NEW how, fate' = BecomesOf(m, how)
  PROVE  Became(m.id, how)
<1>1. m.id \in Ids /\ fate \in [Ids -> Fate]
  BY Items DEF Message
<1>2. fate[m.id] \in Fate
  BY <1>1
<1>3. QED BY <1>1, <1>2 DEF BecomesOf, Became, Fate

\* The front goes, and the next message is tried.
LEMMA PopKeeps ==
  ASSUME QueueInv, NEW t \in Tasks, Moved(t, "next"), queue # <<>>,
         NEW how \in {"acked", "published", "dropped"},
         how = "dropped" => fate[Head(queue).id].tries = Budget(Head(queue).kind),
         queue' = Tail(queue), waiting' = FALSE, fate' = BecomesOf(Head(queue), how),
         last' = last
  PROVE  OneInside' /\ Delivery'
<1> DEFINE m == Head(queue)
<1>1. /\ pc'[t] = "next" /\ \A u \in Tasks \ {t} : pc'[u] = "idle"
      /\ OneInside'
  BY MovedAlone DEF QueueInv
<1>2. /\ m \in Message /\ m = queue[1] /\ 1 \in DOMAIN queue /\ m.id \in Ids
      /\ \A i \in DOMAIN Tail(queue) : i + 1 \in DOMAIN queue /\ Tail(queue)[i] = queue[i + 1]
      /\ \A i \in DOMAIN Tail(queue) : i \in Nat /\ i > 0
  BY Items, PoppedSeq
<1>3. Became(m.id, how)
  BY <1>2, BecomesBecame
<1>4. \A i \in DOMAIN Tail(queue) : Tail(queue)[i].id \in Ids \ {m.id}
  <2> SUFFICES ASSUME NEW i \in DOMAIN Tail(queue) PROVE Tail(queue)[i].id \in Ids \ {m.id}
    OBVIOUS
  <2>1. i + 1 \in DOMAIN queue /\ Tail(queue)[i] = queue[i + 1] /\ 1 < i + 1
    BY <1>2
  <2>2. queue[1].id < queue[i + 1].id
    BY <1>2, <2>1 DEF QueueInv, Delivery, Ordered
  <2>3. queue[1].id \in Nat /\ queue[i + 1].id \in Ids
    BY <1>2, <2>1, Items
  <2>4. QED BY <1>2, <2>1, <2>2, <2>3
<1>5. Ordered'
  <2>1. \A i \in DOMAIN queue' :
          /\ queue'[i].id <= last'
          /\ fate'[queue'[i].id].kind = queue'[i].kind /\ fate'[queue'[i].id].how = "queued"
    BY <1>2, <1>3, <1>4 DEF QueueInv, Delivery, Ordered, Became
  <2>2. \A i, j \in DOMAIN queue' : i < j => queue'[i].id < queue'[j].id
    <3> SUFFICES ASSUME NEW i \in DOMAIN Tail(queue), NEW j \in DOMAIN Tail(queue), i < j
                 PROVE  Tail(queue)[i].id < Tail(queue)[j].id
      OBVIOUS
    <3>1. i + 1 < j + 1 /\ i + 1 \in DOMAIN queue /\ j + 1 \in DOMAIN queue
      BY <1>2
    <3>2. QED BY <1>2, <3>1 DEF QueueInv, Delivery, Ordered
  <2>3. \A i \in Ids : i > last' => fate'[i] = [kind |-> "none", how |-> "none", tries |-> 0]
    <3>1. ~(m.id > last)
      BY <1>2, Items DEF QueueInv, Delivery, Ordered
    <3>2. QED BY <1>3, <3>1 DEF QueueInv, Delivery, Ordered, Became
  <2>4. QED BY <2>1, <2>2, <2>3 DEF Ordered
<1>6. Phases' /\ ~Attempted'
  BY <1>1 DEF Phases, Attempted
<1>7. Budgeted'
  <2> SUFFICES ASSUME NEW i \in DOMAIN Tail(queue), Tail(queue)[i].kind # "pub"
               PROVE  /\ Tail(queue)[i].left > 0
                      /\ fate'[Tail(queue)[i].id].tries = 0
                      /\ fate'[Tail(queue)[i].id].tries + Tail(queue)[i].left = Budget(Tail(queue)[i].kind)
    BY <1>6 DEF Budgeted
  <2>1. /\ i + 1 \in DOMAIN queue /\ Tail(queue)[i] = queue[i + 1] /\ i + 1 # 1
        /\ fate'[Tail(queue)[i].id] = fate[queue[i + 1].id]
    BY <1>2, <1>3, <1>4 DEF Became
  <2>2. QED BY <2>1 DEF QueueInv, Delivery, Budgeted
<1>8. ExactTries'
  <2>1. fate[m.id].kind = m.kind
    BY <1>2 DEF QueueInv, Delivery, Ordered
  <2>2. QED BY <1>2, <1>3, <2>1 DEF QueueInv, Delivery, ExactTries, Became
<1>9. QED BY <1>1, <1>5, <1>6, <1>7, <1>8 DEF Delivery

\* The front has one retry less, and is sent again.
LEMMA RetryKeeps ==
  ASSUME QueueInv, NEW t \in Tasks, Moved(t, "next"), queue # <<>>, waiting,
         ~LastTry(Head(queue)),
         queue' = <<[Head(queue) EXCEPT !.left = @ - 1]>> \o Tail(queue), waiting' = FALSE,
         UNCHANGED <<fate, last>>
  PROVE  OneInside' /\ Delivery'
<1> DEFINE m == [Head(queue) EXCEPT !.left = @ - 1]
<1>1. /\ pc'[t] = "next" /\ \A u \in Tasks \ {t} : pc'[u] = "idle"
      /\ OneInside'
  BY MovedAlone DEF QueueInv
<1>2. Head(queue) \in Message /\ Head(queue) = queue[1] /\ 1 \in DOMAIN queue
  BY Items, PoppedSeq
<1>3. Head(queue).left \in Nat /\ Head(queue).left > 1
  BY <1>2, Items DEF LastTry
<1>4. /\ m.id = queue[1].id /\ m.kind = queue[1].kind /\ m.left = queue[1].left - 1
      /\ m \in Message
  BY <1>2, <1>3, NodeAssumption DEF Message
<1>5. /\ DOMAIN queue' = DOMAIN queue /\ queue'[1] = m
      /\ \A i \in DOMAIN queue : i # 1 => queue'[i] = queue[i]
  <2> HIDE DEF m
  <2>1. queue' = <<m>> \o Tail(queue)
    BY DEF m
  <2>2. QED BY <1>4, <2>1, Items, ReplacedSeq
<1> HIDE DEF m
<1>6. \A i \in DOMAIN queue : queue'[i].id = queue[i].id /\ queue'[i].kind = queue[i].kind
  BY <1>4, <1>5
<1>7. Ordered'
  BY <1>5, <1>6 DEF QueueInv, Delivery, Ordered
<1>8. Phases' /\ ~Attempted'
  BY <1>1 DEF Phases, Attempted
<1>9. Budgeted'
  <2> SUFFICES ASSUME NEW i \in DOMAIN queue, queue[i].kind # "pub"
               PROVE  /\ queue'[i].left > 0
                      /\ fate[queue[i].id].tries + queue'[i].left = Budget(queue[i].kind)
                      /\ i # 1 => fate[queue[i].id].tries = 0
    BY <1>5, <1>6, <1>8 DEF Budgeted
  <2>1. CASE i = 1
    <3>1. fate[queue[1].id].tries + queue[1].left = Budget(queue[1].kind) + 1
      BY <2>1 DEF QueueInv, Delivery, Budgeted, Attempted
    <3>2. fate[queue[1].id].tries \in Nat /\ queue[1].left \in Nat /\ Budget(queue[1].kind) \in Nat
      BY <1>2, Items, NodeAssumption DEF Budget
    <3>3. queue'[1].left = queue[1].left - 1 /\ queue[1].left > 1
      BY <1>2, <1>3, <1>4, <1>5
    <3>5. fate[queue[1].id].tries + (queue[1].left - 1) = Budget(queue[1].kind)
      <4> DEFINE n == fate[queue[1].id].tries
                 l == queue[1].left
                 b == Budget(queue[1].kind)
      <4>1. n \in Nat /\ l \in Nat /\ b \in Nat /\ n + l = b + 1
        BY <3>1, <3>2
      <4> HIDE DEF n, l, b
      <4>2. n + (l - 1) = b
        BY <4>1
      <4>3. QED BY <4>2 DEF n, l, b
    <3>6. queue[1].left - 1 > 0
      BY <3>2, <3>3
    <3>7. QED BY <2>1, <3>3, <3>5, <3>6
  <2>2. CASE i # 1
    BY <1>5, <2>2 DEF QueueInv, Delivery, Budgeted
  <2>3. QED BY <2>1, <2>2
<1>10. ExactTries'
  BY DEF QueueInv, Delivery, ExactTries
<1>11. QED BY <1>1, <1>7, <1>8, <1>9, <1>10 DEF Delivery

\* A message is queued behind the others, or tried at once.
LEMMA PushKeeps ==
  ASSUME QueueInv, NEW t \in Tasks, NEW kind \in Kinds, NEW left \in Nat, NEW r,
         Push(t, kind, left, r), \A u \in Tasks \ {t} : pc[u] = "idle",
         pc[t] \in {"idle", "done"},
         kind # "pub" => left > 0 /\ left = Budget(kind), left \in 0 .. Retries + ResetRetries
  PROVE  OneInside' /\ Delivery'
<1> DEFINE m == [id |-> last + 1, kind |-> kind, left |-> left]
           n == Len(queue)
           label == IF waiting THEN "done" ELSE "next"
<1>1. /\ pc'[t] = label /\ \A u \in Tasks \ {t} : pc'[u] = "idle"
      /\ OneInside'
  <2>1. Moved(t, label)
    BY DEF Push, Goto, Moved
  <2>2. QED BY <2>1, MovedAlone DEF QueueInv
<1>2. (queue # <<>> <=> waiting) /\ (Attempted <=> waiting)
  BY RestWaits
<1>3. /\ last + 1 \in Ids /\ last' = last + 1 /\ m \in Message /\ last \in Nat
  BY Items, NodeAssumption DEF Push, Ids, Message
<1>4. /\ n \in Nat /\ DOMAIN queue = 1 .. n /\ DOMAIN queue' = 1 .. n + 1
      /\ \A i \in DOMAIN queue : queue'[i] = queue[i]
      /\ queue'[n + 1] = m /\ queue' # <<>>
      /\ queue # <<>> => Head(queue') = Head(queue)
  <2>1. queue' = Append(queue, m)
    BY DEF Push
  <2> HIDE DEF m
  <2>2. QED BY <1>3, <2>1, Items, PushedSeq
<1>5. /\ fate'[last + 1] = [kind |-> kind, how |-> "queued", tries |-> 0]
      /\ \A i \in Ids : i # last + 1 => fate'[i] = fate[i]
  BY <1>3, Items DEF Push
<1>6. \A i \in DOMAIN queue : queue[i].id \in Ids /\ queue[i].id # last + 1 /\ queue[i].id < last + 1
  BY <1>3, Items DEF QueueInv, Delivery, Ordered, Ids
<1>7. m.id = last + 1 /\ m.kind = kind /\ m.left = left
  OBVIOUS
<1> HIDE DEF m, n
<1>8. Ordered'
  <2>1. \A i \in DOMAIN queue' : i \in DOMAIN queue \/ i = n + 1
    BY <1>4
  <2>2. \A i \in DOMAIN queue' :
          /\ queue'[i].id <= last'
          /\ fate'[queue'[i].id].kind = queue'[i].kind /\ fate'[queue'[i].id].how = "queued"
    <3> SUFFICES ASSUME NEW i \in DOMAIN queue'
                 PROVE  /\ queue'[i].id <= last'
                        /\ fate'[queue'[i].id].kind = queue'[i].kind
                        /\ fate'[queue'[i].id].how = "queued"
      OBVIOUS
    <3>1. CASE i \in DOMAIN queue
      <4>1. fate'[queue[i].id] = fate[queue[i].id] /\ queue[i].id <= last + 1
        BY <1>3, <1>5, <1>6, <3>1 DEF Ids
      <4>2. QED BY <1>3, <1>4, <3>1, <4>1 DEF QueueInv, Delivery, Ordered
    <3>2. CASE i = n + 1
      BY <1>3, <1>4, <1>5, <1>7, <3>2
    <3>3. QED BY <2>1, <3>1, <3>2
  <2>3. \A i, j \in DOMAIN queue' : i < j => queue'[i].id < queue'[j].id
    <3> SUFFICES ASSUME NEW i \in DOMAIN queue', NEW j \in DOMAIN queue', i < j
                 PROVE  queue'[i].id < queue'[j].id
      OBVIOUS
    <3>1. i \in DOMAIN queue
      BY <1>4
    <3>2. CASE j \in DOMAIN queue
      BY <1>4, <3>1, <3>2 DEF QueueInv, Delivery, Ordered
    <3>3. CASE j = n + 1
      BY <1>4, <1>6, <1>7, <3>1, <3>3
    <3>4. QED BY <2>1, <3>2, <3>3
  <2>4. \A i \in Ids : i > last' => fate'[i] = [kind |-> "none", how |-> "none", tries |-> 0]
    BY <1>3, <1>5 DEF QueueInv, Delivery, Ordered, Ids
  <2>5. QED BY <2>2, <2>3, <2>4 DEF Ordered
<1>9. Phases'
  <2>1. waiting' = waiting
    BY DEF Push
  <2>2. CASE waiting
    BY <1>1, <1>2, <1>4, <2>1, <2>2 DEF QueueInv, Delivery, Phases
  <2>3. CASE ~waiting
    BY <1>1, <2>1, <2>3 DEF Phases
  <2>4. QED BY <2>2, <2>3
<1>10. Attempted' <=> Attempted
  BY <1>1, <1>2 DEF Push, Attempted
<1>11. Budgeted'
  <2> SUFFICES ASSUME NEW i \in DOMAIN queue', queue'[i].kind # "pub"
               PROVE  LET sum == fate'[queue'[i].id].tries + queue'[i].left
                      IN /\ queue'[i].left > 0
                         /\ i = 1 /\ Attempted => sum = Budget(queue'[i].kind) + 1
                         /\ i = 1 /\ ~Attempted => sum = Budget(queue'[i].kind)
                         /\ i # 1 => fate'[queue'[i].id].tries = 0 /\ sum = Budget(queue'[i].kind)
    BY <1>10 DEF Budgeted
  <2>1. CASE i \in DOMAIN queue
    <3>1. queue'[i] = queue[i] /\ fate'[queue[i].id] = fate[queue[i].id]
      BY <1>4, <1>5, <1>6, <2>1
    <3>2. QED BY <2>1, <3>1 DEF QueueInv, Delivery, Budgeted
  <2>2. CASE i = n + 1
    <3>1. /\ queue'[i].left = left /\ queue'[i].kind = kind /\ queue'[i].id = last + 1
          /\ fate'[last + 1].tries = 0
      BY <1>4, <1>5, <1>7, <2>2
    <3>2. i = 1 => ~Attempted
      BY <1>2, <1>4, <2>2
    <3>3. QED BY <3>1, <3>2
  <2>3. QED BY <1>4, <2>1, <2>2
<1>12. ExactTries'
  <2> SUFFICES ASSUME NEW i \in Ids
               PROVE  /\ fate'[i].kind \in MeshKinds => fate'[i].tries <= Budget(fate'[i].kind)
                      /\ fate'[i].how = "dropped" => fate'[i].tries = Budget(fate'[i].kind)
    BY DEF ExactTries
  <2>1. CASE i = last + 1
    BY <1>5, <2>1, NodeAssumption DEF Budget
  <2>2. CASE i # last + 1
    BY <1>5, <2>2 DEF QueueInv, Delivery, ExactTries
  <2>3. QED BY <2>1, <2>2
<1>13. QED BY <1>1, <1>8, <1>9, <1>11, <1>12 DEF Delivery

\* The front has been handed to the stack, or published.
LEMMA SendKeeps ==
  ASSUME QueueInv, NEW t \in Tasks, TrySendNext(t)
  PROVE  OneInside' /\ Delivery'
<1>1. pc[t] = "next" /\ \A u \in Tasks \ {t} : pc[u] = "idle"
  BY DEF TrySendNext, QueueInv, OneInside
<1>2. ~waiting /\ ~Attempted
  BY <1>1 DEF QueueInv, Delivery, Phases, Attempted
<1>3. UNCHANGED <<queue, waiting, last>>
  BY DEF TrySendNext, queueVars
<1>4. CASE queue = <<>> /\ pc' = [pc EXCEPT ![t] = "done"] /\ UNCHANGED <<cur, fate>>
  <2>1. /\ pc'[t] = "done" /\ \A u \in Tasks \ {t} : pc'[u] = "idle"
        /\ OneInside'
    BY <1>1, <1>4, MovedAlone DEF Moved, QueueInv
  <2>2. Phases'
    BY <1>2, <1>3, <1>4, <2>1 DEF Phases
  <2>3. Ordered' /\ ExactTries'
    BY <1>3, <1>4 DEF QueueInv, Delivery, Ordered, ExactTries
  <2>4. Budgeted'
    BY <1>3, <1>4 DEF Budgeted
  <2>5. QED BY <2>1, <2>2, <2>3, <2>4 DEF Delivery
<1>5. CASE /\ queue # <<>>
           /\ pc' = [pc EXCEPT ![t] = "sent"] /\ cur' = [cur EXCEPT ![t] = Head(queue)]
           /\ fate' = [fate EXCEPT ![Head(queue).id].tries = @ + 1]
  <2> DEFINE m == Head(queue)
  <2>1. /\ pc'[t] = "sent" /\ \A u \in Tasks \ {t} : pc'[u] = "idle"
        /\ OneInside'
    BY <1>1, <1>5, MovedAlone DEF Moved, QueueInv
  <2>2. m \in Message /\ m = queue[1] /\ 1 \in DOMAIN queue /\ m.id \in Ids
    BY <1>5, Items, PoppedSeq
  <2>3. /\ fate'[m.id].kind = fate[m.id].kind /\ fate'[m.id].how = fate[m.id].how
        /\ fate'[m.id].tries = fate[m.id].tries + 1
        /\ \A i \in Ids : i # m.id => fate'[i] = fate[i]
    <3>1. fate \in [Ids -> Fate] /\ fate[m.id] \in Fate
      BY <2>2, Items
    <3>2. QED BY <1>5, <2>2, <3>1 DEF Fate
  <2>4. \A i \in DOMAIN queue : i # 1 => queue[i].id \in Ids \ {m.id}
    <3> SUFFICES ASSUME NEW i \in DOMAIN queue, i # 1 PROVE queue[i].id \in Ids \ {m.id}
      OBVIOUS
    <3>1. i > 1 /\ queue[i].id \in Ids /\ queue[1].id \in Nat
      BY <2>2, Items
    <3>2. queue[1].id < queue[i].id
      BY <2>2, <3>1 DEF QueueInv, Delivery, Ordered
    <3>3. QED BY <2>2, <3>1, <3>2
  <2>5. Ordered'
    <3>1. \A i \in DOMAIN queue :
            /\ queue[i].id <= last
            /\ fate'[queue[i].id].kind = queue[i].kind /\ fate'[queue[i].id].how = "queued"
      BY <2>2, <2>3, <2>4 DEF QueueInv, Delivery, Ordered
    <3>2. ~(m.id > last)
      BY <2>2, Items DEF QueueInv, Delivery, Ordered
    <3>3. QED BY <1>3, <2>3, <3>1, <3>2 DEF QueueInv, Delivery, Ordered
  <2>6. Phases'
    <3>1. cur'[t] = m
      BY <1>5 DEF QueueInv, CodeOK
    <3>2. QED BY <1>2, <1>3, <1>5, <2>1, <3>1 DEF Phases
  <2>7. Attempted'
    BY <2>1 DEF Attempted
  <2>8. m.kind # "pub" =>
          /\ m.left > 0 /\ fate[m.id].tries + m.left = Budget(m.kind)
          /\ fate'[m.id].tries + m.left = Budget(m.kind) + 1
          /\ fate'[m.id].tries <= Budget(m.kind)
    <3> SUFFICES ASSUME m.kind # "pub"
                 PROVE  /\ m.left > 0 /\ fate[m.id].tries + m.left = Budget(m.kind)
                        /\ fate'[m.id].tries + m.left = Budget(m.kind) + 1
                        /\ fate'[m.id].tries <= Budget(m.kind)
      OBVIOUS
    <3>1. m.left > 0 /\ fate[m.id].tries + m.left = Budget(m.kind)
      BY <1>2, <2>2 DEF QueueInv, Delivery, Budgeted
    <3>2. m.left \in Nat /\ fate[m.id].tries \in Nat /\ Budget(m.kind) \in Nat
      BY <2>2, Items, NodeAssumption DEF Budget
    <3>3. \A a, b, c \in Nat : a + b = c /\ b > 0 => (a + 1) + b = c + 1 /\ a + 1 <= c
      OBVIOUS
    <3>4. QED BY <2>3, <3>1, <3>2, <3>3
  <2>9. Budgeted'
    <3> SUFFICES ASSUME NEW i \in DOMAIN queue, queue[i].kind # "pub"
                 PROVE  LET sum == fate'[queue[i].id].tries + queue[i].left
                        IN /\ queue[i].left > 0
                           /\ i = 1 => sum = Budget(queue[i].kind) + 1
                           /\ i # 1 => fate'[queue[i].id].tries = 0 /\ sum = Budget(queue[i].kind)
      BY <1>3, <2>7 DEF Budgeted
    <3>1. CASE i = 1
      BY <2>2, <2>8, <3>1
    <3>2. CASE i # 1
      BY <2>3, <2>4, <3>2 DEF QueueInv, Delivery, Budgeted
    <3>3. QED BY <3>1, <3>2
  <2>10. ExactTries'
    <3>1. fate[m.id].kind = m.kind /\ fate[m.id].how = "queued"
      BY <2>2 DEF QueueInv, Delivery, Ordered
    <3> SUFFICES ASSUME NEW i \in Ids
                 PROVE  /\ fate'[i].kind \in MeshKinds => fate'[i].tries <= Budget(fate'[i].kind)
                        /\ fate'[i].how = "dropped" => fate'[i].tries = Budget(fate'[i].kind)
      BY DEF ExactTries
    <3>2. CASE i = m.id
      BY <2>3, <2>8, <3>1, <3>2 DEF MeshKinds
    <3>3. CASE i # m.id
      BY <2>3, <3>3 DEF QueueInv, Delivery, ExactTries
    <3>4. QED BY <3>2, <3>3
  <2>11. QED BY <2>1, <2>5, <2>6, <2>9, <2>10 DEF Delivery
<1>6. QED BY <1>4, <1>5 DEF TrySendNext

LEMMA SentKeeps ==
  ASSUME QueueInv, NEW t \in Tasks, AfterSend(t)
  PROVE  OneInside' /\ Delivery'
<1>1. /\ pc[t] = "sent" /\ \A u \in Tasks \ {t} : pc[u] = "idle"
      /\ last' = last
  BY DEF AfterSend, QueueInv, OneInside
<1>2. queue # <<>> /\ cur[t] = Head(queue) /\ Attempted
  BY <1>1 DEF QueueInv, Delivery, Phases, Attempted
<1>3. CASE /\ cur[t].kind # "pub" /\ waiting' = TRUE /\ pc' = [pc EXCEPT ![t] = "done"]
           /\ UNCHANGED <<queue, fate>>
  <2>1. /\ pc'[t] = "done" /\ \A u \in Tasks \ {t} : pc'[u] = "idle"
        /\ OneInside'
    BY <1>1, <1>3, MovedAlone DEF Moved, QueueInv
  <2>2. Phases' /\ Attempted'
    BY <1>2, <1>3, <2>1 DEF Phases, Attempted
  <2>3. Ordered' /\ ExactTries'
    BY <1>1, <1>3 DEF QueueInv, Delivery, Ordered, ExactTries
  <2>4. Budgeted'
    BY <1>2, <1>3, <2>2 DEF QueueInv, Delivery, Budgeted
  <2>5. QED BY <2>1, <2>2, <2>3, <2>4 DEF Delivery
<1>4. CASE /\ cur[t].kind = "pub" /\ waiting' = FALSE /\ queue' = Popped
           /\ fate' = BecomesOf(cur[t], "published") /\ pc' = [pc EXCEPT ![t] = "next"]
  BY <1>1, <1>2, <1>4, PopKeeps DEF Moved, Popped
<1>5. QED BY <1>3, <1>4 DEF AfterSend

\* An acknowledgement or a timeout for the front, or for something else.
LEMMA HandleKeeps ==
  ASSUME QueueInv, NEW t \in Tasks, NEW kind, NEW r, \A u \in Tasks : pc[u] = "idle",
         HandleAck(t, kind, r) \/ HandleTimeout(t, kind, r), last' = last
  PROVE  OneInside' /\ Delivery'
<1>1. \A label : Goto(t, label, r) => Moved(t, label)
  BY DEF Goto, Moved
<1>2. (queue # <<>> <=> waiting) /\ (Attempted <=> waiting)
  BY RestWaits
<1>3. CASE IsFront(kind) /\ PopAndGo(t, "acked", r)
  BY <1>1, <1>3, PopKeeps DEF IsFront, PopAndGo
<1>4. CASE IsFront(kind) /\ LastTry(Head(queue)) /\ PopAndGo(t, "dropped", r)
  <2> DEFINE m == Head(queue)
  <2>1. m \in Message /\ m = queue[1] /\ 1 \in DOMAIN queue /\ queue # <<>>
    BY <1>4, Items, PoppedSeq DEF IsFront
  <2>2. m.kind # "pub" /\ Attempted
    BY <1>2, <2>1 DEF QueueInv, Delivery, Phases
  <2>3. m.left > 0 /\ fate[m.id].tries + m.left = Budget(m.kind) + 1
    BY <2>1, <2>2 DEF QueueInv, Delivery, Budgeted
  <2>4. m.left \in Nat /\ fate[m.id].tries \in Nat /\ Budget(m.kind) \in Nat /\ m.left <= 1
    BY <1>4, <2>1, Items, NodeAssumption DEF Budget, LastTry
  <2>5. fate[m.id].tries = Budget(m.kind)
    BY <2>3, <2>4
  <2>6. QED BY <1>1, <1>4, <2>1, <2>5, PopKeeps DEF PopAndGo
<1>5. CASE Ignored(t, r)
  BY <1>1, <1>5, QuietKeeps DEF Ignored
<1>6. CASE /\ IsFront(kind) /\ ~LastTry(Head(queue))
           /\ queue' = <<[Head(queue) EXCEPT !.left = @ - 1]>> \o Tail(queue)
           /\ waiting' = FALSE /\ fate' = fate
           /\ Goto(t, "next", r)
  BY <1>1, <1>2, <1>6, RetryKeeps DEF IsFront
<1>7. QED BY <1>3, <1>4, <1>5, <1>6 DEF HandleAck, HandleTimeout

LEMMA ResetKeeps ==
  ASSUME QueueInv, NEW t \in Tasks, pc[t] = "done", Moved(t, "idle"), ResetNode, last' = last
  PROVE  OneInside' /\ Delivery'
<1>1. /\ pc'[t] = "idle" /\ \A u \in Tasks \ {t} : pc'[u] = "idle"
      /\ OneInside'
  BY MovedAlone DEF QueueInv
<1>2. queue' = <<>> /\ waiting' = FALSE /\ DOMAIN queue' = {}
  BY DEF ResetNode
<1>3. Phases'
  BY <1>1, <1>2 DEF Phases
<1>4. Budgeted'
  BY <1>2 DEF Budgeted
<1>5. \A i \in Ids : /\ fate'[i].kind = fate[i].kind /\ fate'[i].tries = fate[i].tries
                     /\ fate'[i].how \in {"erased", fate[i].how}
  <2>1. \A i \in Ids : fate[i] \in Fate
    BY Items
  <2>2. QED BY <2>1 DEF ResetNode, Fate
<1>6. \A i \in Ids : i > last => fate'[i] = fate[i]
  <2>1. \A i \in Ids : i > last => ~\E j \in DOMAIN queue : queue[j].id = i
    BY Items DEF QueueInv, Delivery, Ordered
  <2>2. QED BY <2>1 DEF ResetNode
<1>7. Ordered'
  BY <1>2, <1>6 DEF QueueInv, Delivery, Ordered
<1>8. ExactTries'
  BY <1>5 DEF QueueInv, Delivery, ExactTries
<1>9. QED BY <1>1, <1>3, <1>4, <1>7, <1>8 DEF Delivery

LEMMA InitQueue == Init => QueueInv
<1> SUFFICES ASSUME Init PROVE QueueInv
  OBVIOUS
<1>1. OneInside /\ Phases
  BY DEF Init, OneInside, Phases
<1>2. queue = <<>> /\ DOMAIN queue = {} /\ last = 0
  BY DEF Init
<1>3. Budgeted
  BY <1>2 DEF Budgeted
<1>4. Ordered /\ ExactTries
  BY <1>2, NodeAssumption DEF Init, Ordered, ExactTries, Budget, MeshKinds, Kinds, Ids
<1>5. QED BY <1>1, <1>3, <1>4, InitType DEF QueueInv, Delivery, TypeOK

LEMMA NextDelivery ==
  ASSUME ~met', QueueInv, [Next]_vars
  PROVE  OneInside' /\ Delivery'
<1>0. /\ Btc \in Tasks /\ Timer \in Tasks /\ Callers \subseteq Tasks
      /\ Retries \in Nat /\ ResetRetries \in Nat /\ Retries > 0 /\ ResetRetries > 0
      /\ {0, Retries, ResetRetries} \subseteq 0 .. Retries + ResetRetries
      /\ {"set", "get", "pub", "reset"} \subseteq Kinds
      /\ Budget("set") = Retries /\ Budget("get") = Retries /\ Budget("reset") = ResetRetries
  BY NodeAssumption DEF Tasks, Kinds, Budget
<1>a. ASSUME NEW t \in Tasks, pc[t] = "done" PROVE \A u \in Tasks \ {t} : pc[u] = "idle"
  BY <1>a DEF QueueInv, OneInside
<1>b. ASSUME NEW t \in Tasks, Enter(t) PROVE \A u \in Tasks : pc[u] = "idle"
  BY <1>b DEF Enter, AllIdle
<1>1. ASSUME NEW t \in Callers, NEW v \in {Off, On}, HaCommand(t, v) PROVE OneInside' /\ Delivery'
  BY <1>0, <1>b, <1>1, PushKeeps DEF HaCommand
<1>2. ASSUME NEW t \in Callers, NEW v \in {Off, On}, WebCommand(t, v) PROVE OneInside' /\ Delivery'
  BY <1>0, <1>b, <1>2, PushKeeps DEF WebCommand
<1>3. ASSUME NEW t \in Callers, Refresh(t) PROVE OneInside' /\ Delivery'
  BY <1>0, <1>b, <1>3, PushKeeps DEF Refresh
<1>4. ASSUME NEW t \in Callers, Unprovision(t) PROVE OneInside' /\ Delivery'
  BY <1>0, <1>b, <1>4, PushKeeps DEF Unprovision
<1>5. ASSUME NEW t \in Callers, EnqueueStatusPublish(t) PROVE OneInside' /\ Delivery'
  BY <1>0, <1>a, <1>5, PushKeeps DEF EnqueueStatusPublish
<1>6. ASSUME NEW t \in Tasks, TrySendNext(t) PROVE OneInside' /\ Delivery'
  BY <1>6, SendKeeps
<1>7. ASSUME NEW t \in Tasks, AfterSend(t) PROVE OneInside' /\ Delivery'
  BY <1>7, SentKeeps
<1>8. ASSUME NEW t \in Tasks, Leave(t) PROVE OneInside' /\ Delivery'
  BY <1>a, <1>8, QuietKeeps DEF Leave, Goto, Moved, queueVars, history
<1>9. ASSUME NEW x \in tx, ClientCallback(x) PROVE OneInside' /\ Delivery'
  <2>1. CASE UNCHANGED <<failsafe, waiting, queue, fate, taskVars>>
    BY <1>9, <2>1, StillKeeps DEF ClientCallback, taskVars
  <2>2. CASE \E r : HandleAck(Btc, x.kind, r) \/ HandleTimeout(Btc, x.kind, r)
    BY <1>0, <1>b, <1>9, <2>2, HandleKeeps DEF ClientCallback
  <2>3. QED BY <1>9, <2>1, <2>2 DEF ClientCallback
<1>10. CASE AfterClientCallback
  <2>1. pc[Btc] = "done" /\ Moved(Btc, "idle") /\ last' = last
    BY <1>0, <1>a, <1>10 DEF AfterClientCallback, Goto, Moved
  <2>2. ResetNode \/ UNCHANGED <<queue, waiting, fate>>
    BY <1>10 DEF AfterClientCallback, queueVars
  <2>3. QED BY <1>0, <2>1, <2>2, ResetKeeps, QuietKeeps
<1>11. CASE FailsafeFires
  BY <1>11, StillKeeps DEF FailsafeFires, taskVars, history
<1>12. CASE FailsafeCallback
  <2>1. CASE UNCHANGED <<queue, waiting, failsafe, taskVars, fate>>
    BY <1>12, <2>1, StillKeeps DEF FailsafeCallback, taskVars
  <2>2. CASE HandleTimeout(Timer, Head(queue).kind, Nothing)
    BY <1>0, <1>b, <1>12, <2>2, HandleKeeps DEF FailsafeCallback
  <2>3. QED BY <1>12, <2>1, <2>2 DEF FailsafeCallback
<1>13. ASSUME NEW x \in tx, StackReport(x) PROVE OneInside' /\ Delivery'
  BY <1>13, StillKeeps DEF StackReport, queueVars, taskVars, history
<1>14. CASE UNCHANGED vars
  BY <1>14, StillKeeps DEF vars, queueVars, taskVars, history
<1>15. QED
  BY <1>1, <1>2, <1>3, <1>4, <1>5, <1>6, <1>7, <1>8, <1>9, <1>10, <1>11, <1>12, <1>13, <1>14
  DEF Next

\* Up to the first time that two tasks are in the queue's code together, a message is given up
\* only after exactly as many transmissions as it had retries, and none is sent more often:
\* whether the stack refuses sends, whether the failsafe goes off before the stack has answered,
\* and whatever else is queued.
THEOREM NodeExactTries == Spec => []DropOnlyAfterAllTries
<1>1. Init => met \/ QueueInv
  BY InitQueue
<1>2. ASSUME TypeOK, met \/ QueueInv, [Next]_vars PROVE met' \/ QueueInv'
  BY <1>2, NextCode, NextDelivery, MetStays DEF QueueInv, TypeOK
<1>3. met \/ QueueInv => DropOnlyAfterAllTries
  BY DEF QueueInv, Delivery, DropOnlyAfterAllTries
<1>4. QED BY InitType, NextType, <1>1, <1>2, <1>3, PTL DEF Spec

(***************************************************************************)
(* The removal of a node, where the stack's timeouts come first.           *)
(***************************************************************************)
\* The stack reports on the front, or on a message before it.
Reported ==
  \A x \in tx : /\ x.id <= last /\ fate[x.id].kind = x.kind
                /\ \A i \in DOMAIN queue : x.id <= queue[i].id

\* Whoever is about to remove the node was told so by a reset before all that is queued.
ResetBefore ==
  pc[Btc] # "idle" /\ rest[Btc].event = "ack" /\ rest[Btc].kind = "reset" =>
    \E i \in Ids : /\ i <= last /\ fate[i].kind = "reset"
                   /\ \A j \in DOMAIN queue : i < queue[j].id

\* The failsafe guards the front; it goes off only when the stack has nothing left to say.
Guarded ==
  /\ failsafe => queue # <<>> /\ Head(queue).kind # "pub"
  /\ fired => /\ tx = {} /\ ~failsafe /\ waiting
              /\ pc[Btc] = "idle" /\ \A t \in Tasks : pc[t] \in {"idle", "done"}

Undangled == dangling => BehindReset

DangleInv == QueueInv /\ Reported /\ ResetBefore /\ Guarded /\ Undangled

\* What a step leaves of the messages enqueued before it.
Trail ==
  /\ last' \in Nat /\ last <= last'
  /\ \A i \in Ids : i <= last => /\ fate'[i].kind = fate[i].kind
                                 /\ fate[i].how = "erased" => fate'[i].how = "erased"
  /\ \A i \in DOMAIN queue' :
       \/ queue'[i].id = last + 1
       \/ \E j \in DOMAIN queue : queue[j].id = queue'[i].id

LEMMA StillTrail ==
  ASSUME QueueInv, UNCHANGED <<queue, fate, last>>
  PROVE  Trail
BY Items DEF Trail

LEMMA PopTrail ==
  ASSUME QueueInv, queue # <<>>, NEW how, queue' = Tail(queue),
         fate' = BecomesOf(Head(queue), how), last' = last
  PROVE  Trail
<1>1. Head(queue) \in Message /\ Head(queue) = queue[1] /\ 1 \in DOMAIN queue
  BY Items, PoppedSeq
<1>2. Became(Head(queue).id, how) /\ fate[Head(queue).id].how = "queued"
  BY <1>1, BecomesBecame DEF QueueInv, Delivery, Ordered
<1>3. \A i \in DOMAIN queue' : \E j \in DOMAIN queue : queue[j].id = queue'[i].id
  BY Items, PoppedSeq
<1>4. QED BY <1>2, <1>3, Items DEF Trail, Became

LEMMA RetryTrail ==
  ASSUME QueueInv, queue # <<>>,
         queue' = <<[Head(queue) EXCEPT !.left = @ - 1]>> \o Tail(queue),
         ~LastTry(Head(queue)), UNCHANGED <<fate, last>>
  PROVE  Trail /\ queue' # <<>> /\ Head(queue').kind = Head(queue).kind
<1> DEFINE m == [Head(queue) EXCEPT !.left = @ - 1]
<1>1. Head(queue) \in Message /\ Head(queue) = queue[1] /\ 1 \in DOMAIN queue
  BY Items, PoppedSeq
<1>2. Head(queue).left \in Nat /\ Head(queue).left > 1
  BY <1>1, Items DEF LastTry
<1>3. m.id = queue[1].id /\ m.kind = queue[1].kind /\ m \in Message
  BY <1>1, <1>2, NodeAssumption DEF Message
<1>4. /\ DOMAIN queue' = DOMAIN queue /\ queue'[1] = m /\ queue' # <<>> /\ Head(queue') = m
      /\ \A i \in DOMAIN queue : i # 1 => queue'[i] = queue[i]
  <2> HIDE DEF m
  <2>1. queue' = <<m>> \o Tail(queue)
    BY DEF m
  <2>2. QED BY <1>3, <2>1, Items, ReplacedSeq
<1> HIDE DEF m
<1>5. \A i \in DOMAIN queue' : queue'[i].id = queue[i].id
  BY <1>3, <1>4
<1>6. Trail
  <2>1. \A i \in DOMAIN queue' : \E j \in DOMAIN queue : queue[j].id = queue'[i].id
    BY <1>4, <1>5
  <2>2. last \in Nat /\ last' = last /\ fate' = fate /\ last <= last
    BY Items
  <2>3. QED BY <2>1, <2>2 DEF Trail
<1>7. QED BY <1>1, <1>3, <1>4, <1>6

LEMMA PushTrail ==
  ASSUME QueueInv, NEW t \in Tasks, NEW kind \in Kinds,
         NEW left \in 0 .. Retries + ResetRetries, NEW r, Push(t, kind, left, r)
  PROVE  Trail /\ (queue # <<>> => queue' # <<>> /\ Head(queue') = Head(queue))
<1> DEFINE m == [id |-> last + 1, kind |-> kind, left |-> left]
<1>1. last + 1 \in Ids /\ last' = last + 1 /\ m \in Message /\ last \in Nat
  BY Items, NodeAssumption DEF Push, Ids, Message
<1>2. m.id = last + 1
  OBVIOUS
<1>3. /\ \A i \in DOMAIN queue' : queue'[i].id = last + 1
                                  \/ \E j \in DOMAIN queue : queue[j].id = queue'[i].id
      /\ queue # <<>> => queue' # <<>> /\ Head(queue') = Head(queue)
  <2>1. queue' = Append(queue, m)
    BY DEF Push
  <2> HIDE DEF m
  <2>2. QED BY <1>1, <1>2, <2>1, Items, PushedSeq
<1>4. \A i \in Ids : i # last + 1 => fate'[i] = fate[i]
  BY <1>1, Items DEF Push
<1>5. QED BY <1>1, <1>3, <1>4 DEF Trail, Ids

LEMMA SendTrail ==
  ASSUME QueueInv, NEW t \in Tasks, TrySendNext(t)
  PROVE  Trail
<1>1. UNCHANGED <<queue, last>>
  BY DEF TrySendNext, queueVars
<1>2. CASE queue = <<>> /\ UNCHANGED fate
  BY <1>1, <1>2, StillTrail
<1>3. CASE queue # <<>> /\ fate' = [fate EXCEPT ![Head(queue).id].tries = @ + 1]
  <2>1. Head(queue) \in Message /\ fate \in [Ids -> Fate] /\ last \in Nat
    BY <1>3, Items, PoppedSeq
  <2>2. \A i \in Ids : fate'[i].kind = fate[i].kind /\ fate'[i].how = fate[i].how
    BY <1>3, <2>1 DEF Message, Fate
  <2>3. QED BY <1>1, <2>1, <2>2 DEF Trail
<1>4. QED BY <1>2, <1>3 DEF TrySendNext

LEMMA ResetTrail ==
  ASSUME QueueInv, ResetNode, last' = last
  PROVE  /\ Trail
         /\ \A j \in DOMAIN queue : fate'[queue[j].id].how = "erased"
<1>1. /\ fate \in [Ids -> Fate] /\ last \in Nat
      /\ \A j \in DOMAIN queue : queue[j].id \in Ids
  BY Items
<1>2. queue' = <<>> /\ DOMAIN queue' = {}
  BY DEF ResetNode
<1>3. \A i \in Ids : /\ fate'[i].kind = fate[i].kind
                     /\ fate[i].how = "erased" => fate'[i].how = "erased"
                     /\ (\E j \in DOMAIN queue : queue[j].id = i) => fate'[i].how = "erased"
  BY <1>1 DEF ResetNode, Fate
<1>4. QED BY <1>1, <1>2, <1>3 DEF Trail

(***************************************************************************)
(* What follows from the trail of a step.                                  *)
(***************************************************************************)
LEMMA TrailReported ==
  ASSUME QueueInv, Reported, Trail,
         \A x \in tx' : \E y \in tx : x.id = y.id /\ x.kind = y.kind
  PROVE  Reported'
<1> SUFFICES ASSUME NEW x \in tx', NEW y \in tx, x.id = y.id, x.kind = y.kind
             PROVE  /\ x.id <= last' /\ fate'[x.id].kind = x.kind
                    /\ \A i \in DOMAIN queue' : x.id <= queue'[i].id
  BY DEF Reported
<1>1. y.id \in Ids /\ y.id <= last /\ fate[y.id].kind = y.kind
  BY DEF Reported, QueueInv, CodeOK, Transaction
<1>2. y.id \in Nat /\ last \in Nat
  BY <1>1, Items
<1>3. \A i \in DOMAIN queue' : y.id <= queue'[i].id
  BY <1>1, <1>2 DEF Reported, Trail
<1>4. QED BY <1>1, <1>2, <1>3 DEF Trail

LEMMA TrailReset ==
  ASSUME QueueInv, ResetBefore, Trail, pc'[Btc] # "idle" => pc[Btc] # "idle" /\ rest'[Btc] = rest[Btc]
  PROVE  ResetBefore'
<1> SUFFICES ASSUME pc[Btc] # "idle", rest[Btc].event = "ack", rest[Btc].kind = "reset"
             PROVE  \E i \in Ids : /\ i <= last' /\ fate'[i].kind = "reset"
                                   /\ \A j \in DOMAIN queue' : i < queue'[j].id
  BY DEF ResetBefore
<1>1. PICK i \in Ids : /\ i <= last /\ fate[i].kind = "reset"
                       /\ \A j \in DOMAIN queue : i < queue[j].id
  BY DEF ResetBefore
<1>2. i \in Nat /\ last \in Nat
  BY Items
<1>3. \A j \in DOMAIN queue' : i < queue'[j].id
  BY <1>1, <1>2 DEF Trail
<1>4. QED BY <1>1, <1>2, <1>3 DEF Trail

LEMMA TrailDangles ==
  ASSUME QueueInv, Undangled, Trail, dangling' = dangling
  PROVE  Undangled'
<1> SUFFICES ASSUME dangling
             PROVE  \E i, j \in Ids : i < j /\ fate'[i].kind = "reset" /\ fate'[j].how = "erased"
  BY DEF Undangled, BehindReset
<1>1. PICK i \in Ids, j \in Ids : i < j /\ fate[i].kind = "reset" /\ fate[j].how = "erased"
  BY DEF Undangled, BehindReset
<1>2. i <= last /\ j <= last
  BY <1>1, Items DEF QueueInv, Delivery, Ordered
<1>3. QED BY <1>1, <1>2 DEF Trail

\* A step that starts no send and removes nothing: what is left to show is Guarded'.
LEMMA TrailKeeps ==
  ASSUME DangleInv, Trail, dangling' = dangling,
         \A x \in tx' : \E y \in tx : x.id = y.id /\ x.kind = y.kind,
         pc'[Btc] # "idle" => pc[Btc] # "idle" /\ rest'[Btc] = rest[Btc]
  PROVE  Reported' /\ ResetBefore' /\ Undangled'
BY TrailReported, TrailReset, TrailDangles DEF DangleInv

(***************************************************************************)
(* Each step, as far as the removal is concerned.                          *)
(***************************************************************************)
LEMMA PushDangle ==
  ASSUME DangleInv, NEW t \in Callers, NEW kind \in Kinds,
         NEW left \in 0 .. Retries + ResetRetries, NEW r, Push(t, kind, left, r),
         \A u \in Tasks \ {t} : pc[u] = "idle"
  PROVE  Reported' /\ ResetBefore' /\ Guarded' /\ Undangled'
<1>1. t \in Tasks /\ Btc \in Tasks /\ t # Btc
  BY NodeAssumption DEF Tasks
<1>2. Moved(t, IF waiting THEN "done" ELSE "next")
  BY DEF Push, Goto, Moved
<1>3. pc'[t] = (IF waiting THEN "done" ELSE "next") /\ \A u \in Tasks \ {t} : pc'[u] = "idle"
  BY <1>1, <1>2, MovedAlone DEF DangleInv, QueueInv
<1>4. Trail /\ (queue # <<>> => queue' # <<>> /\ Head(queue') = Head(queue))
  BY <1>1, PushTrail DEF DangleInv
<1>5. UNCHANGED <<waiting, failsafe, fired, dangling, tx>>
  BY DEF Push
<1>6. Reported' /\ ResetBefore' /\ Undangled'
  BY <1>1, <1>3, <1>4, <1>5, TrailKeeps
<1>7. Guarded'
  BY <1>1, <1>3, <1>4, <1>5 DEF DangleInv, Guarded
<1>8. QED BY <1>6, <1>7

LEMMA SendDangle ==
  ASSUME DangleInv, NEW t \in Tasks, TrySendNext(t)
  PROVE  Reported' /\ ResetBefore' /\ Guarded' /\ Undangled'
<1>1. /\ pc[t] = "next" /\ ~fired /\ Btc \in Tasks
      /\ UNCHANGED <<queue, failsafe, fired, dangling, rest, last>>
  BY DEF TrySendNext, queueVars, nodeVars, DangleInv, Guarded, Tasks
<1>2. Trail
  BY SendTrail DEF DangleInv
<1>3. Guarded'
  BY <1>1 DEF DangleInv, Guarded
<1>4. ResetBefore'
  <2>1. pc'[Btc] # "idle" => pc[Btc] # "idle"
    BY <1>1 DEF TrySendNext, DangleInv, QueueInv, CodeOK
  <2>2. QED BY <1>1, <1>2, <2>1, TrailReset DEF DangleInv
<1>5. Undangled'
  BY <1>1, <1>2, TrailDangles DEF DangleInv
<1>6. Reported'
  <2>1. CASE tx' \subseteq tx
    BY <1>2, <2>1, TrailReported DEF DangleInv
  <2>2. CASE queue # <<>> /\ StackSend(Head(queue))
    <3> DEFINE m == Head(queue)
    <3>1. m = queue[1] /\ 1 \in DOMAIN queue /\ m.id \in Ids /\ m.kind \in Kinds
      BY <2>2, Items, PoppedSeq DEF DangleInv
    <3>2. /\ m.id <= last /\ fate[m.id].kind = m.kind
          /\ \A i \in DOMAIN queue : m.id <= queue[i].id
      <4>1. \A i \in DOMAIN queue : i # 1 => m.id < queue[i].id
        BY <3>1, Items DEF DangleInv, QueueInv, Delivery, Ordered
      <4>2. \A i \in DOMAIN queue : queue[i].id \in Nat
        BY Items DEF DangleInv
      <4>3. QED BY <3>1, <4>1, <4>2 DEF DangleInv, QueueInv, Delivery, Ordered
    <3>3. \A x \in tx' : x \in tx \/ (x.id = m.id /\ x.kind = m.kind)
      BY <2>2 DEF StackSend
    <3>4. \A x \in tx : x.id \in Ids
      BY DEF DangleInv, QueueInv, CodeOK, Transaction
    <3>5. \A x \in tx' : /\ x.id \in Ids /\ x.id <= last /\ fate[x.id].kind = x.kind
                         /\ \A i \in DOMAIN queue : x.id <= queue[i].id
      BY <3>1, <3>2, <3>3, <3>4 DEF DangleInv, Reported
    <3>6. QED BY <1>1, <1>2, <3>5 DEF Reported, Trail
  <2>3. QED BY <2>1, <2>2 DEF TrySendNext
<1>7. QED BY <1>3, <1>4, <1>5, <1>6

LEMMA SentDangle ==
  ASSUME DangleInv, NEW t \in Tasks, AfterSend(t)
  PROVE  Reported' /\ ResetBefore' /\ Guarded' /\ Undangled'
<1>1. /\ pc[t] = "sent" /\ ~fired /\ Btc \in Tasks
      /\ queue # <<>> /\ cur[t] = Head(queue)
      /\ UNCHANGED <<fired, dangling, rest, last, tx>>
  BY DEF AfterSend, nodeVars, DangleInv, Guarded, Tasks, QueueInv, Delivery, Phases
<1>2. Trail
  <2>1. CASE UNCHANGED <<queue, fate>>
    BY <1>1, <2>1, StillTrail DEF DangleInv
  <2>2. CASE queue' = Popped /\ fate' = BecomesOf(cur[t], "published")
    BY <1>1, <2>2, PopTrail DEF DangleInv, Popped
  <2>3. QED BY <2>1, <2>2 DEF AfterSend
<1>3. Guarded'
  BY <1>1 DEF AfterSend, DangleInv, Guarded
<1>4. pc'[Btc] # "idle" => pc[Btc] # "idle"
  BY <1>1 DEF AfterSend, DangleInv, QueueInv, CodeOK
<1>5. QED BY <1>1, <1>2, <1>3, <1>4, TrailKeeps

\* An acknowledgement or a timeout, whichever task learns of it.
LEMMA HandleTrail ==
  ASSUME DangleInv, NEW t \in Tasks, NEW kind, NEW r,
         HandleAck(t, kind, r) \/ HandleTimeout(t, kind, r), last' = last
  PROVE  /\ Trail
         /\ failsafe' => failsafe /\ queue' # <<>> /\ Head(queue').kind = Head(queue).kind
<1>1. CASE IsFront(kind) /\ (PopAndGo(t, "acked", r) \/ PopAndGo(t, "dropped", r))
  BY <1>1, PopTrail DEF IsFront, PopAndGo, DangleInv
<1>2. CASE Ignored(t, r)
  BY <1>2, StillTrail DEF Ignored, DangleInv, Guarded
<1>3. CASE /\ IsFront(kind) /\ ~LastTry(Head(queue))
           /\ queue' = <<[Head(queue) EXCEPT !.left = @ - 1]>> \o Tail(queue)
           /\ UNCHANGED <<failsafe, fate>>
  BY <1>3, RetryTrail DEF IsFront, DangleInv
<1>4. QED BY <1>1, <1>2, <1>3 DEF HandleAck, HandleTimeout

LEMMA CallbackDangle ==
  ASSUME DangleInv, NEW x \in tx, ClientCallback(x), \A u \in Tasks : pc[u] = "idle"
  PROVE  Reported' /\ ResetBefore' /\ Guarded' /\ Undangled'
<1>1. /\ ~fired /\ Btc \in Tasks /\ tx' = tx \ {x}
      /\ UNCHANGED <<fired, dangling, last>>
  BY DEF ClientCallback, nodeVars, DangleInv, Guarded, Tasks
<1>2. CASE UNCHANGED <<failsafe, waiting, queue, fate, taskVars>>
  <2>1. Trail
    BY <1>1, <1>2, StillTrail DEF DangleInv
  <2>2. Guarded'
    BY <1>1, <1>2 DEF DangleInv, Guarded
  <2>3. QED BY <1>1, <1>2, <2>1, <2>2, TrailKeeps DEF taskVars
<1>3. ASSUME NEW r, HandleAck(Btc, x.kind, r) \/ HandleTimeout(Btc, x.kind, r),
             r.event = "ack" => HandleAck(Btc, x.kind, r), r.kind = x.kind
      PROVE  Reported' /\ ResetBefore' /\ Guarded' /\ Undangled'
  <2>1. /\ Trail
        /\ failsafe' => failsafe /\ queue' # <<>> /\ Head(queue').kind = Head(queue).kind
    BY <1>1, <1>3, HandleTrail
  <2>2. Guarded'
    BY <1>1, <2>1 DEF DangleInv, Guarded
  <2>3. Reported' /\ Undangled'
    BY <1>1, <2>1, TrailReported, TrailDangles DEF DangleInv
  <2>4. ResetBefore'
    <3>1. rest'[Btc] = r
      BY <1>1, <1>3 DEF HandleAck, HandleTimeout, PopAndGo, Ignored, Goto,
                        DangleInv, QueueInv, CodeOK
    <3> SUFFICES ASSUME r.event = "ack", x.kind = "reset"
                 PROVE  \E i \in Ids : /\ i <= last' /\ fate'[i].kind = "reset"
                                       /\ \A j \in DOMAIN queue' : i < queue'[j].id
      BY <1>3, <3>1 DEF ResetBefore
    <3>2. /\ x.id \in Ids /\ x.id <= last /\ fate[x.id].kind = "reset"
          /\ \A j \in DOMAIN queue : x.id <= queue[j].id
      BY DEF DangleInv, Reported, QueueInv, CodeOK, Transaction
    <3>3. /\ x.id <= last' /\ fate'[x.id].kind = "reset"
      BY <1>1, <2>1, <3>2 DEF Trail
    <3>4. CASE PopAndGo(Btc, "acked", r) /\ queue # <<>>
      <4> SUFFICES ASSUME NEW j \in DOMAIN Tail(queue) PROVE x.id < Tail(queue)[j].id
        BY <3>2, <3>3, <3>4 DEF PopAndGo
      <4>1. /\ 1 \in DOMAIN queue /\ j + 1 \in DOMAIN queue /\ Tail(queue)[j] = queue[j + 1]
            /\ 1 < j + 1
        BY <3>4, Items, PoppedSeq DEF DangleInv
      <4>2. queue[1].id < queue[j + 1].id /\ x.id <= queue[1].id
        BY <3>2, <4>1 DEF DangleInv, QueueInv, Delivery, Ordered
      <4>3. x.id \in Nat /\ queue[1].id \in Nat /\ queue[j + 1].id \in Nat
        BY <3>2, <4>1, Items DEF DangleInv
      <4>4. QED BY <4>1, <4>2, <4>3
    <3>5. CASE ~IsFront(x.kind) /\ Ignored(Btc, r)
      <4> SUFFICES ASSUME NEW j \in DOMAIN queue PROVE x.id < queue[j].id
        BY <3>2, <3>3, <3>5 DEF Ignored
      <4>1. 1 \in DOMAIN queue /\ queue # <<>> /\ Head(queue) = queue[1]
        BY Items, PoppedSeq DEF DangleInv
      <4>2. queue[1].kind # "reset" /\ fate[queue[1].id].kind = queue[1].kind
        BY <3>5, <4>1 DEF IsFront, DangleInv, QueueInv, Delivery, Ordered
      <4>3. x.id \in Nat /\ queue[1].id \in Nat /\ queue[j].id \in Nat /\ j \in Nat /\ j > 0
        BY <3>2, <4>1, Items DEF DangleInv
      <4>4. x.id < queue[1].id
        BY <3>2, <4>1, <4>2, <4>3
      <4>5. j = 1 \/ queue[1].id < queue[j].id
        BY <4>1, <4>3 DEF DangleInv, QueueInv, Delivery, Ordered
      <4>6. QED BY <4>3, <4>4, <4>5
    <3>6. QED BY <1>3, <3>4, <3>5 DEF HandleAck, IsFront
  <2>5. QED BY <2>2, <2>3, <2>4
<1>4. QED
  <2>1. DEFINE r(e, v) == [event |-> e, kind |-> x.kind, value |-> v]
  <2>2. \A e, v : r(e, v).event = e /\ r(e, v).kind = x.kind
    OBVIOUS
  <2>3. \/ UNCHANGED <<failsafe, waiting, queue, fate, taskVars>>
        \/ HandleAck(Btc, x.kind, r("ack", x.value))
        \/ HandleTimeout(Btc, x.kind, r("timeout", Off))
    BY DEF ClientCallback
  <2> HIDE DEF r
  <2>4. CASE HandleAck(Btc, x.kind, r("ack", x.value))
    BY <1>3, <2>2, <2>4
  <2>5. CASE HandleTimeout(Btc, x.kind, r("timeout", Off))
    BY <1>3, <2>2, <2>5
  <2>6. QED BY <1>2, <2>3, <2>4, <2>5

\* The node goes.  Its failsafe runs only if something is queued, which is behind the reset.
LEMMA AfterCallbackDangle ==
  ASSUME DangleInv, AfterClientCallback
  PROVE  Reported' /\ ResetBefore' /\ Guarded' /\ Undangled'
<1>1. /\ Btc \in Tasks /\ pc[Btc] = "done" /\ ~fired
      /\ UNCHANGED <<tx, last>>
  BY DEF AfterClientCallback, DangleInv, Guarded, Tasks
<1>2. pc'[Btc] = "idle"
  BY <1>1 DEF AfterClientCallback, Goto, DangleInv, QueueInv, CodeOK
<1>3. CASE UNCHANGED <<queueVars, dangling, fate>>
  <2>1. Trail
    BY <1>1, <1>3, StillTrail DEF DangleInv, queueVars
  <2>2. Guarded'
    BY <1>1, <1>3 DEF DangleInv, Guarded, queueVars
  <2>3. QED BY <1>1, <1>2, <1>3, <2>1, <2>2, TrailKeeps
<1>4. CASE Removes(rest[Btc]) /\ ResetNode
  <2>1. Trail /\ \A j \in DOMAIN queue : fate'[queue[j].id].how = "erased"
    BY <1>1, <1>4, ResetTrail DEF DangleInv
  <2>2. Guarded'
    BY <1>4 DEF ResetNode, Guarded
  <2>3. Reported' /\ ResetBefore'
    BY <1>1, <1>2, <2>1, TrailReported, TrailReset DEF DangleInv
  <2>4. Undangled'
    <3>1. CASE dangling' = dangling
      BY <2>1, <3>1, TrailDangles DEF DangleInv
    <3>2. CASE failsafe
      <4>1. queue # <<>> /\ rest[Btc].event = "ack" /\ rest[Btc].kind = "reset"
        BY <1>4, <3>2 DEF DangleInv, Guarded, Removes
      <4>2. 1 \in DOMAIN queue /\ queue[1].id \in Ids
        BY <4>1, Items, PoppedSeq DEF DangleInv
      <4>3. PICK i \in Ids : /\ i <= last /\ fate[i].kind = "reset"
                             /\ \A j \in DOMAIN queue : i < queue[j].id
        BY <1>1, <4>1 DEF DangleInv, ResetBefore
      <4>4. i < queue[1].id /\ fate'[i].kind = "reset" /\ fate'[queue[1].id].how = "erased"
        BY <2>1, <4>2, <4>3 DEF Trail
      <4>5. QED BY <4>2, <4>4 DEF Undangled, BehindReset
    <3>3. dangling' = dangling \/ failsafe
      BY <1>1, <1>4 DEF ResetNode, DangleInv, QueueInv, CodeOK
    <3>4. QED BY <3>1, <3>2, <3>3
  <2>5. QED BY <2>2, <2>3, <2>4
<1>5. QED BY <1>3, <1>4 DEF AfterClientCallback

LEMMA FailsafeDangle ==
  ASSUME ~FailsafeMayBeatStack, DangleInv, FailsafeFires
  PROVE  Reported' /\ ResetBefore' /\ Guarded' /\ Undangled'
<1>1. /\ tx = {} /\ failsafe /\ \A t \in Tasks : pc[t] = "idle"
      /\ UNCHANGED <<queue, waiting, fate, last, dangling, tx, pc, rest>>
      /\ ~failsafe' /\ Btc \in Tasks
  BY DEF FailsafeFires, AllIdle, nodeVars, taskVars, history, Tasks
<1>2. waiting
  BY <1>1, RestWaits DEF DangleInv, Guarded
<1>3. Trail
  BY <1>1, StillTrail DEF DangleInv
<1>4. Guarded'
  BY <1>1, <1>2 DEF Guarded
<1>5. QED BY <1>1, <1>3, <1>4, TrailKeeps

LEMMA FailsafeCallbackDangle ==
  ASSUME DangleInv, FailsafeCallback, \A u \in Tasks : pc[u] = "idle"
  PROVE  Reported' /\ ResetBefore' /\ Guarded' /\ Undangled'
<1>1. /\ ~fired' /\ ~failsafe /\ Timer # Btc /\ Btc \in Tasks /\ Timer \in Tasks
      /\ UNCHANGED <<dangling, tx, last>>
  BY NodeAssumption DEF FailsafeCallback, nodeVars, DangleInv, Guarded, Tasks
<1>2. CASE UNCHANGED <<queue, waiting, failsafe, taskVars, fate>>
  <2>1. Trail
    BY <1>1, <1>2, StillTrail DEF DangleInv
  <2>2. QED BY <1>1, <1>2, <2>1, TrailKeeps DEF taskVars, Guarded
<1>3. CASE HandleTimeout(Timer, Head(queue).kind, Nothing)
  <2>1. Trail /\ ~failsafe'
    BY <1>1, <1>3, HandleTrail
  <2>2. pc'[Btc] = "idle"
    BY <1>1, <1>3 DEF HandleTimeout, PopAndGo, Ignored, Goto, DangleInv, QueueInv, CodeOK
  <2>3. QED BY <1>1, <2>1, <2>2, TrailKeeps DEF Guarded
<1>4. QED BY <1>2, <1>3 DEF FailsafeCallback

LEMMA NextDangle ==
  ASSUME ~met', ~FailsafeMayBeatStack, DangleInv, [Next]_vars
  PROVE  Reported' /\ ResetBefore' /\ Guarded' /\ Undangled'
<1> DEFINE Goal == Reported' /\ ResetBefore' /\ Guarded' /\ Undangled'
<1>0. /\ Btc \in Tasks /\ Timer \in Tasks /\ Callers \subseteq Tasks
      /\ {0, Retries, ResetRetries} \subseteq 0 .. Retries + ResetRetries
      /\ {"set", "get", "pub", "reset"} \subseteq Kinds
  BY NodeAssumption DEF Tasks, Kinds
<1>a. ASSUME NEW t \in Tasks, pc[t] = "done" PROVE \A u \in Tasks \ {t} : pc[u] = "idle"
  BY <1>a DEF DangleInv, QueueInv, OneInside
<1>b. ASSUME NEW t \in Tasks, Enter(t) PROVE \A u \in Tasks : pc[u] = "idle"
  BY <1>b DEF Enter, AllIdle
<1>1. ASSUME NEW t \in Callers, NEW v \in {Off, On}, HaCommand(t, v) PROVE Goal
  BY <1>0, <1>b, <1>1, PushDangle DEF HaCommand
<1>2. ASSUME NEW t \in Callers, NEW v \in {Off, On}, WebCommand(t, v) PROVE Goal
  BY <1>0, <1>b, <1>2, PushDangle DEF WebCommand
<1>3. ASSUME NEW t \in Callers, Refresh(t) PROVE Goal
  BY <1>0, <1>b, <1>3, PushDangle DEF Refresh
<1>4. ASSUME NEW t \in Callers, Unprovision(t) PROVE Goal
  BY <1>0, <1>b, <1>4, PushDangle DEF Unprovision
<1>5. ASSUME NEW t \in Callers, EnqueueStatusPublish(t) PROVE Goal
  BY <1>0, <1>a, <1>5, PushDangle DEF EnqueueStatusPublish
<1>6. ASSUME NEW t \in Tasks, TrySendNext(t) PROVE Goal
  BY <1>6, SendDangle
<1>7. ASSUME NEW t \in Tasks, AfterSend(t) PROVE Goal
  BY <1>7, SentDangle
<1>8. ASSUME NEW t \in Tasks, Leave(t) PROVE Goal
  <2>1. UNCHANGED <<queue, waiting, failsafe, fired, dangling, fate, last, tx>>
    BY <1>8 DEF Leave, queueVars, nodeVars, history
  <2>2. /\ pc[t] = "done" /\ pc'[t] = "idle"
        /\ \A u \in Tasks \ {t} : pc'[u] = pc[u] /\ rest'[u] = rest[u]
    BY <1>8 DEF Leave, Goto, DangleInv, QueueInv, CodeOK
  <2>3. Trail
    BY <2>1, StillTrail DEF DangleInv
  <2>4. Guarded'
    BY <1>0, <2>1, <2>2 DEF DangleInv, Guarded
  <2>5. QED BY <1>0, <2>1, <2>2, <2>3, <2>4, TrailKeeps
<1>9. ASSUME NEW x \in tx, ClientCallback(x) PROVE Goal
  BY <1>0, <1>b, <1>9, CallbackDangle DEF ClientCallback
<1>10. CASE AfterClientCallback
  BY <1>10, AfterCallbackDangle
<1>11. CASE FailsafeFires
  BY <1>11, FailsafeDangle
<1>12. CASE FailsafeCallback
  BY <1>0, <1>b, <1>12, FailsafeCallbackDangle DEF FailsafeCallback
<1>13. ASSUME NEW x \in tx, StackReport(x) PROVE Goal
  <2>1. /\ UNCHANGED <<queue, waiting, failsafe, fired, dangling, fate, last, pc, rest>>
        /\ ~fired
    BY <1>13 DEF StackReport, queueVars, nodeVars, taskVars, history, DangleInv, Guarded
  <2>2. \A y \in tx' : \E z \in tx : y.id = z.id /\ y.kind = z.kind
    <3>1. /\ x \in Transaction /\ x.value \in {Off, On} /\ light \in {Off, On}
      BY DEF DangleInv, QueueInv, CodeOK, Transaction
    <3>2. \/ \E v \in {Off, On} : tx' = (tx \ {x}) \cup {[x EXCEPT !.state = "ack", !.value = v]}
          \/ tx' = (tx \ {x}) \cup {[x EXCEPT !.state = "timeout"]}
      BY <1>13, <3>1 DEF StackReport
    <3>3. \A v \in {Off, On} : /\ [x EXCEPT !.state = "ack", !.value = v].id = x.id
                              /\ [x EXCEPT !.state = "ack", !.value = v].kind = x.kind
      BY <3>1 DEF Transaction
    <3>4. [x EXCEPT !.state = "timeout"].id = x.id /\ [x EXCEPT !.state = "timeout"].kind = x.kind
      BY <3>1 DEF Transaction
    <3>5. \A y \in tx' : y \in tx \/ (y.id = x.id /\ y.kind = x.kind)
      BY <3>2, <3>3, <3>4
    <3>6. QED BY <3>5
  <2>3. Trail
    BY <2>1, StillTrail DEF DangleInv
  <2>4. QED BY <2>1, <2>2, <2>3, TrailKeeps DEF DangleInv, Guarded
<1>14. CASE UNCHANGED vars
  <2>1. UNCHANGED <<queue, waiting, failsafe, fired, dangling, fate, last, pc, rest, tx>>
    BY <1>14 DEF vars, queueVars, nodeVars, taskVars, history
  <2>2. Trail
    BY <2>1, StillTrail DEF DangleInv
  <2>3. QED BY <2>1, <2>2, TrailKeeps DEF DangleInv, Guarded
<1>15. QED
  BY <1>1, <1>2, <1>3, <1>4, <1>5, <1>6, <1>7, <1>8, <1>9, <1>10, <1>11, <1>12, <1>13, <1>14
  DEF Next

\* As long as the stack gives up on a message before the failsafe does, a node is removed under
\* a running failsafe only if messages were queued behind the reset that removes it, up to the
\* first time that two tasks are in the queue's code together.
THEOREM NodeDangle == ~FailsafeMayBeatStack => (Spec => []DanglesOnlyBehindReset)
<1> SUFFICES ASSUME ~FailsafeMayBeatStack PROVE Spec => []DanglesOnlyBehindReset
  OBVIOUS
<1>1. Init => met \/ DangleInv
  BY InitQueue DEF Init, DangleInv, Reported, ResetBefore, Guarded, Undangled, Tasks
<1>2. ASSUME TypeOK, met \/ DangleInv, [Next]_vars PROVE met' \/ DangleInv'
  BY <1>2, NextCode, NextDelivery, NextDangle, MetStays DEF DangleInv, QueueInv, TypeOK
<1>3. met \/ DangleInv => DanglesOnlyBehindReset
  BY DEF DangleInv, Undangled, DanglesOnlyBehindReset
<1>4. QED BY InitType, NextType, <1>1, <1>2, <1>3, PTL DEF Spec

-----------------------------------------------------------------------------

\* Steps between the loop's condition and the end of an attempt.
InLoop == {"delay", "reconnecting", "final", "connect", "result"}

\* The counter never runs ahead of the attempts really made, and leaves room for one more
\* wherever the task is about to make it.
CountInv ==
  /\ attempt \in Nat /\ tries \in Nat
  /\ attempt <= tries
  /\ unlimited => attempt = 0
  /\ task = "look" => attempt = 0
  /\ task \in InLoop => attempt < MaxAttempts
  /\ task = "result" => attempt < tries
  /\ task = "giveUp" => tries >= MaxAttempts

\* What the counting is about.
countvars == <<unlimited, task, attempt, tries>>

LEMMA CountInit == WifiInit => CountInv
  BY WifiAssumption DEF WifiInit, CountInv, InLoop, WifiAssumption

LEMMA CountStutter == ASSUME CountInv, UNCHANGED countvars PROVE CountInv'
  BY DEF CountInv, countvars, InLoop

\* A restart, whatever causes it, begins the counting afresh.
LEMMA CountRestarts == ASSUME Restarts PROVE CountInv'
  BY WifiAssumption DEF Restarts, Fresh, CountInv, InLoop, WifiAssumption

\* Booting sets the counter to 0 and starts the task, before it has anything to count.
LEMMA CountBoot == ASSUME CountInv, Boot PROVE CountInv'
<1>1. CASE BootNormal
  BY <1>1, WifiAssumption DEF BootNormal, histvars, CountInv, InLoop, WifiAssumption
<1>2. CASE BootTask
  BY <1>2 DEF BootTask, histvars, CountInv, InLoop
<1>3. CASE ~BootNormal /\ ~BootTask
  <2>1. UNCHANGED countvars
    BY <1>3 DEF Boot, BootStart, BootWait, BootMesh, BootPortal, BootWeb, BootCallback,
                BootServices, codevars, histvars, countvars
  <2>2. QED BY <2>1, CountStutter
<1>4. QED BY <1>1, <1>2, <1>3

\* The handler only ever lowers the counter, to 0.
LEMMA CountEvents == ASSUME CountInv, EventLoop PROVE CountInv'
<1>1. CASE GotIp
  BY <1>1, WifiAssumption DEF GotIp, histvars, CountInv, InLoop, WifiAssumption
<1>2. CASE ~GotIp
  <2>1. UNCHANGED countvars
    BY <1>2 DEF EventLoop, AccessPointStarted, StationStarted, StationConnected,
                StationDisconnected, PhoneGotIp, codevars, histvars, countvars
  <2>2. QED BY <2>1, CountStutter
<1>3. QED BY <1>1, <1>2

\* Each step of the task.
LEMMA CountReconnect == ASSUME CountInv, Reconnect PROVE CountInv'
<1>1. CASE TakeNotification
  BY <1>1 DEF TakeNotification, CountInv, InLoop
<1>2. CASE CheckLink
  BY <1>2, WifiAssumption DEF CheckLink, histvars, CountInv, InLoop, WifiAssumption
<1>3. CASE FoundLinked
  BY <1>3 DEF FoundLinked, histvars, CountInv, InLoop
<1>4. CASE SayReconnecting
  BY <1>4 DEF SayReconnecting, histvars, CountInv, InLoop
<1>5. CASE ConnectAgain
  BY <1>5, WifiAssumption DEF ConnectAgain, CountInv, InLoop, WifiAssumption
<1>6. CASE AwaitResult
  BY <1>6 DEF AwaitResult, histvars, CountInv, InLoop
<1>7. CASE NextAttempt
  BY <1>7, WifiAssumption DEF NextAttempt, histvars, CountInv, InLoop, WifiAssumption
<1>8. CASE GiveUp
  BY <1>8 DEF GiveUp, histvars, CountInv, InLoop
<1>9. QED
  BY <1>1, <1>2, <1>3, <1>4, <1>5, <1>6, <1>7, <1>8 DEF Reconnect

\* The rest of the system counts nothing.
LEMMA QuietSteps ==
  ASSUME Users \/ SaveFails \/ ClearFails \/ SaveKey \/ ClearKey \/ Driver \/ RouterGoes
           \/ RouterComes \/ PhoneJoins
  PROVE  UNCHANGED countvars
<1>1. CASE Users
  BY <1>1 DEF Users, Save, ResetByWeb, ClearByConsole, SetupRestart, codevars, histvars,
              countvars
<1>2. CASE SaveFails \/ ClearFails \/ SaveKey \/ ClearKey
  BY <1>2 DEF SaveFails, ClearFails, SaveKey, ClearKey, codevars, histvars, countvars
<1>3. CASE Driver
  BY <1>3 DEF Driver, Associates, CannotAssociate, GetsAddress, LosesLink, Posts, codevars,
              histvars, countvars
<1>4. CASE RouterGoes \/ RouterComes \/ PhoneJoins
  BY <1>4 DEF RouterGoes, RouterComes, PhoneJoins, codevars, histvars, countvars
<1>5. QED BY <1>1, <1>2, <1>3, <1>4

LEMMA CountNext == ASSUME CountInv, [WifiNext]_wifivars PROVE CountInv'
<1>1. CASE Boot BY <1>1, CountBoot
<1>2. CASE EventLoop BY <1>2, CountEvents
<1>3. CASE Reconnect BY <1>3, CountReconnect
<1>4. CASE HandlerRestarts \/ FallbackFires \/ PowerFails
  BY <1>4, CountRestarts DEF HandlerRestarts, FallbackFires, PowerFails
<1>5. CASE Users \/ SaveFails \/ ClearFails \/ SaveKey \/ ClearKey \/ Driver \/ RouterGoes
             \/ RouterComes \/ PhoneJoins
  BY <1>5, QuietSteps, CountStutter
<1>6. CASE UNCHANGED wifivars
  BY <1>6, CountStutter DEF wifivars, codevars, histvars, countvars
<1>7. QED
  BY <1>1, <1>2, <1>3, <1>4, <1>5, <1>6 DEF WifiNext, Handlers

\* wifi_reconnect_task: however often the event handler resets the counter, and wherever
\* restarts come, the task gives a loss up only after all the attempts configured for it.
THEOREM WifiFullAttempts == WifiSpec => FullAttempts
<1>1. CountInv /\ [WifiNext]_wifivars => [GiveUp => tries >= MaxAttempts]_wifivars
  BY DEF CountInv, GiveUp
<1>2. QED
  BY <1>1, CountInit, CountNext, PTL DEF WifiSpec, FullAttempts

(***************************************************************************)
(* What is in flash, and what the handler under way will make of it.       *)
(***************************************************************************)
Between == {"password", "configured"}
Flashes == [ssid : Texts, password : Texts, configured : BOOLEAN]
Handlings == [op : {"none", "save", "reset", "clear", "reboot"}, at : Writes, new : Credentials]

\* The handler that saves carries checked credentials, and what it has written so far is
\* theirs.  Outside a handler's writes, whole writings leave checked credentials.
FlashInv ==
  /\ nvs \in Flashes
  /\ handler \in Handlings
  /\ handler.op = "none" => handler.at = "ssid"
  /\ handler.op = "save" =>
       /\ Valid(handler.new) /\ handler.at # "restart"
       /\ handler.at \in Between => nvs.ssid = handler.new.ssid
       /\ handler.at = "configured" => nvs.password = handler.new.password
  /\ (nvs.configured /\ ~torn /\ handler.at \notin Between) => Valid(Stored)

writevars == <<nvs, handler, torn>>

LEMMA NoHandling ==
  NoHandler.op = "none" /\ NoHandler.at = "ssid" /\ NoHandler \in Handlings
  BY DEF NoHandler, NoCredentials, Credentials, Texts, Handlings, Writes

LEMMA FlashInit == ASSUME Valid(Network), WifiInit PROVE FlashInv
<1>1. NoHandler.op = "none" /\ NoHandler.at = "ssid" /\ NoHandler \in Handlings
  BY NoHandling
<1>2. CASE nvs = Factory
  <2>1. nvs \in Flashes /\ ~nvs.configured
    BY <1>2 DEF Factory, Flashes, Texts
  <2>2. QED BY <1>1, <2>1 DEF WifiInit, FlashInv, Between
<1>3. CASE nvs = SetUp
  <2>1. Network.ssid \in Texts /\ Network.password \in Texts
    BY WifiAssumption DEF WifiAssumption, Texts
  <2>2. nvs \in Flashes /\ nvs.ssid = Network.ssid /\ nvs.password = Network.password
    BY <1>3, <2>1 DEF SetUp, Flashes
  <2>3. Valid(Stored)
    BY <2>2 DEF Stored, Valid
  <2>4. QED BY <1>1, <2>2, <2>3 DEF WifiInit, FlashInv, Between
<1>4. QED BY <1>2, <1>3 DEF WifiInit

LEMMA FlashStutter == ASSUME FlashInv, UNCHANGED writevars PROVE FlashInv'
  BY DEF FlashInv, writevars, Between, Valid, Stored

\* A restart between two writes is remembered; any other finds whole credentials.
LEMMA FlashRestarts == ASSUME FlashInv, Restarts PROVE FlashInv'
<1>1. NoHandler.op = "none" /\ NoHandler.at = "ssid" /\ NoHandler \in Handlings
  BY NoHandling
<1>2. nvs' = nvs /\ handler' = NoHandler /\ torn' = (torn \/ handler.at \in Between)
  BY DEF Restarts, Fresh, Between
<1>3. (nvs'.configured /\ ~torn') => Valid(Stored)'
  BY <1>2 DEF FlashInv, Stored, Valid
<1>4. QED BY <1>1, <1>2, <1>3 DEF FlashInv, Between

LEMMA FlashUsers == ASSUME FlashInv, Users PROVE FlashInv'
<1>1. nvs' = nvs /\ torn' = torn /\ Idle
  BY DEF Users, Save, ResetByWeb, ClearByConsole, SetupRestart, Changing
<1>2. (nvs'.configured /\ ~torn') => Valid(Stored)'
  BY <1>1 DEF FlashInv, Idle, Between, Stored, Valid
<1>3. CASE Save
  <2>1. PICK c \in [ssid : Ssids, password : Passwords] :
          Valid(c) /\ handler' = [op |-> "save", at |-> "ssid", new |-> c]
    BY <1>3 DEF Save
  <2>2. c \in Credentials
    BY DEF Credentials, Texts
  <2>3. QED BY <1>1, <1>2, <2>1, <2>2 DEF FlashInv, Between, Writes, Flashes, Handlings
<1>4. CASE ResetByWeb \/ ClearByConsole \/ SetupRestart
  <2>1. \/ handler' = [NoHandler EXCEPT !.op = "reset"]
        \/ handler' = [NoHandler EXCEPT !.op = "clear"]
        \/ handler' = [NoHandler EXCEPT !.op = "reboot", !.at = "restart"]
    BY <1>4 DEF ResetByWeb, ClearByConsole, SetupRestart
  <2>2. handler' \in Handlings /\ handler'.op \in {"reset", "clear", "reboot"}
    BY <2>1, NoHandling DEF Handlings, Writes
  <2>3. QED BY <1>1, <1>2, <2>2 DEF FlashInv
<1>5. QED BY <1>3, <1>4 DEF Users

\* One key after the other; the last makes the credentials whole, and checked.
LEMMA FlashSaveKey == ASSUME FlashInv, SaveKey PROVE FlashInv'
<1>1. handler.op = "save" /\ Valid(handler.new) /\ handler.new \in Credentials
  BY DEF SaveKey, FlashInv, Handlings
<1>2. CASE handler.at = "ssid"
  <2>1. /\ nvs' = [nvs EXCEPT !.ssid = handler.new.ssid]
        /\ handler' = [handler EXCEPT !.at = "password"] /\ torn' = torn
    BY <1>2 DEF SaveKey, StepTo
  <2>2. QED BY <1>1, <2>1 DEF FlashInv, Between, Writes, Credentials, Flashes, Handlings
<1>3. CASE handler.at = "password"
  <2>1. /\ nvs' = [nvs EXCEPT !.password = handler.new.password]
        /\ handler' = [handler EXCEPT !.at = "configured"] /\ torn' = torn
    BY <1>3 DEF SaveKey, StepTo
  <2>2. QED BY <1>1, <1>3, <2>1 DEF FlashInv, Between, Writes, Credentials, Flashes, Handlings
<1>4. CASE handler.at = "configured"
  <2>1. /\ nvs' = [nvs EXCEPT !.configured = TRUE]
        /\ handler' = NoHandler /\ torn' = FALSE
    BY <1>4 DEF SaveKey
  <2>2. NoHandler.op = "none" /\ NoHandler.at = "ssid" /\ NoHandler \in Handlings
    BY NoHandling
  <2>3. nvs'.ssid = handler.new.ssid /\ nvs'.password = handler.new.password
    BY <1>1, <1>4, <2>1 DEF FlashInv, Between
  <2>4. Valid(Stored)'
    BY <1>1, <2>3 DEF Valid, Stored
  <2>5. nvs' \in Flashes
    BY <2>1 DEF FlashInv, Flashes
  <2>6. QED BY <2>1, <2>2, <2>4, <2>5 DEF FlashInv, Between
<1>5. QED BY <1>1, <1>2, <1>3, <1>4 DEF FlashInv, Writes, Handlings

LEMMA FlashSaveFails == ASSUME FlashInv, SaveFails PROVE FlashInv'
<1>1. NoHandler.op = "none" /\ NoHandler.at = "ssid" /\ NoHandler \in Handlings
  BY NoHandling
<1>2. nvs' = nvs /\ handler' = NoHandler /\ torn' = (torn \/ handler.at # "ssid")
  BY DEF SaveFails
<1>3. (nvs'.configured /\ ~torn') => Valid(Stored)'
  BY <1>2 DEF FlashInv, Between, Stored, Valid
<1>4. QED BY <1>1, <1>2, <1>3 DEF FlashInv, Between

\* Erasing ends with nothing configured, or with the failure remembered.
LEMMA FlashClearKey == ASSUME FlashInv, ClearKey PROVE FlashInv'
<1>1. handler.op \in {"reset", "clear"} /\ None \in Texts
  BY DEF ClearKey, Texts
<1>2. CASE handler.at = "ssid"
  <2>1. /\ nvs' \in {nvs, [nvs EXCEPT !.ssid = None]}
        /\ handler' = [handler EXCEPT !.at = "password"] /\ torn' = torn
    BY <1>2 DEF ClearKey, StepTo
  <2>2. QED BY <1>1, <2>1 DEF FlashInv, Between, Writes, Flashes, Handlings
<1>3. CASE handler.at = "password"
  <2>1. /\ nvs' \in {nvs, [nvs EXCEPT !.password = None]}
        /\ handler' = [handler EXCEPT !.at = "configured"] /\ torn' = torn
    BY <1>3 DEF ClearKey, StepTo
  <2>2. QED BY <1>1, <2>1 DEF FlashInv, Between, Writes, Flashes, Handlings
<1>4. CASE handler.at = "configured"
  <2>1. PICK erased \in BOOLEAN :
          /\ nvs' = IF erased THEN [nvs EXCEPT !.configured = FALSE] ELSE nvs
          /\ handler' = [handler EXCEPT !.at = "restart"] /\ torn' = ~erased
    BY <1>4 DEF ClearKey, StepTo
  <2>2. nvs' \in Flashes /\ (nvs'.configured => torn')
    BY <2>1 DEF FlashInv, Flashes
  <2>3. QED BY <1>1, <2>1, <2>2 DEF FlashInv, Writes, Handlings
<1>5. QED BY <1>2, <1>3, <1>4 DEF FlashInv, Writes, Handlings, ClearKey

LEMMA FlashClearFails == ASSUME FlashInv, ClearFails PROVE FlashInv'
<1>1. NoHandler.op = "none" /\ NoHandler.at = "ssid" /\ NoHandler \in Handlings
  BY NoHandling
<1>2. handler' = NoHandler
  BY DEF ClearFails
<1>3. CASE handler.at = "ssid" /\ UNCHANGED <<nvs, torn>>
  <2>1. (nvs'.configured /\ ~torn') => Valid(Stored)'
    BY <1>3 DEF FlashInv, Between, Stored, Valid
  <2>2. QED BY <1>1, <1>2, <1>3, <2>1 DEF FlashInv, Between
<1>4. CASE torn' = TRUE /\ nvs' \in {nvs, [nvs EXCEPT !.configured = FALSE]}
  BY <1>1, <1>2, <1>4 DEF FlashInv, Between, Flashes
<1>5. QED BY <1>3, <1>4 DEF ClearFails

\* No other task writes the credentials.
LEMMA FlashKept ==
  ASSUME Boot \/ EventLoop \/ Reconnect \/ Driver \/ RouterGoes \/ RouterComes \/ PhoneJoins
  PROVE  UNCHANGED writevars
<1>1. CASE Boot
  BY <1>1 DEF Boot, BootStart, BootWait, BootNormal, BootTask, BootMesh, BootPortal, BootWeb,
              BootCallback, BootServices, flashvars, writevars
<1>2. CASE EventLoop
  BY <1>2 DEF EventLoop, AccessPointStarted, StationStarted, StationConnected,
              StationDisconnected, GotIp, PhoneGotIp, flashvars, writevars
<1>3. CASE Reconnect
  BY <1>3 DEF Reconnect, TakeNotification, CheckLink, FoundLinked, SayReconnecting,
              ConnectAgain, AwaitResult, NextAttempt, GiveUp, flashvars, writevars
<1>4. CASE Driver
  BY <1>4 DEF Driver, Associates, CannotAssociate, GetsAddress, LosesLink, Posts, flashvars,
              writevars
<1>5. CASE RouterGoes \/ RouterComes \/ PhoneJoins
  BY <1>5 DEF RouterGoes, RouterComes, PhoneJoins, flashvars, writevars
<1>6. QED BY <1>1, <1>2, <1>3, <1>4, <1>5

LEMMA FlashNext == ASSUME FlashInv, [WifiNext]_wifivars PROVE FlashInv'
<1>1. CASE Users BY <1>1, FlashUsers
<1>2. CASE SaveKey BY <1>2, FlashSaveKey
<1>3. CASE SaveFails BY <1>3, FlashSaveFails
<1>4. CASE ClearKey \/ ClearFails BY <1>4, FlashClearKey, FlashClearFails
<1>5. CASE HandlerRestarts \/ FallbackFires \/ PowerFails
  BY <1>5, FlashRestarts DEF HandlerRestarts, FallbackFires, PowerFails
<1>6. CASE Boot \/ EventLoop \/ Reconnect \/ Driver \/ RouterGoes \/ RouterComes \/ PhoneJoins
  BY <1>6, FlashKept, FlashStutter
<1>7. CASE UNCHANGED wifivars
  BY <1>7, FlashStutter DEF wifivars, flashvars, writevars
<1>8. QED
  BY <1>1, <1>2, <1>3, <1>4, <1>5, <1>6, <1>7 DEF WifiNext, Handlers

\* set_credentials, clear_credentials and what interrupts them: whichever handlers wrote and
\* wherever power or a write failed, the credentials a boot finds whole can be loaded,
\* except those that fill a buffer to the last byte.
THEOREM WifiSavedLoads == Valid(Network) => (WifiSpec => []SavedLoads)
<1> SUFFICES ASSUME Valid(Network) PROVE WifiSpec => []SavedLoads
  OBVIOUS
<1>1. WifiInit => FlashInv
  BY FlashInit
<1>2. FlashInv => SavedLoads
  <2> SUFFICES ASSUME FlashInv, nvs.configured, Idle, ~torn
               PROVE  Loads(Stored) \/ nvs.ssid = 32 \/ nvs.password = 64
    BY DEF SavedLoads
  <2>1. Valid(Stored)
    BY DEF FlashInv, Idle, Between
  <2>2. QED BY <2>1 DEF Valid, Stored, Loads
<1>3. QED
  BY <1>1, <1>2, FlashNext, PTL DEF WifiSpec

(***************************************************************************)
(* The event queue.                                                        *)
(***************************************************************************)
Has(s, e) == \E i \in 1 .. Len(s) : s[i] = e

\* Whatever of P is in s has q after it.
Followed(s, P, q) == \A i \in 1 .. Len(s) : s[i] \in P => \E k \in 1 .. Len(s) : k > i /\ s[k] = q

LEMMA QueueTail ==
  ASSUME NEW s \in Seq(Events), s # <<>>
  PROVE  /\ Tail(s) \in Seq(Events) /\ Len(s) \in Nat \ {0} /\ Len(Tail(s)) = Len(s) - 1
         /\ Head(s) = s[1] /\ \A i \in 1 .. Len(Tail(s)) : Tail(s)[i] = s[i + 1]
  OBVIOUS

LEMMA QueueAppend ==
  ASSUME NEW s \in Seq(Events), NEW e \in Events
  PROVE  /\ Append(s, e) \in Seq(Events) /\ Len(s) \in Nat /\ Len(Append(s, e)) = Len(s) + 1
         /\ Append(s, e)[Len(s) + 1] = e /\ \A i \in 1 .. Len(s) : Append(s, e)[i] = s[i]
  OBVIOUS

\* What is not the head stays.
LEMMA HasTail ==
  ASSUME NEW s \in Seq(Events), s # <<>>, NEW e, Has(s, e), Head(s) # e
  PROVE  Has(Tail(s), e)
<1>1. PICK i \in 1 .. Len(s) : s[i] = e
  BY DEF Has
<1>2. i - 1 \in 1 .. Len(Tail(s)) /\ Tail(s)[i - 1] = e
  BY <1>1, QueueTail
<1>3. QED BY <1>2 DEF Has

LEMMA HasOfTail ==
  ASSUME NEW s \in Seq(Events), s # <<>>, NEW e, Has(Tail(s), e)
  PROVE  Has(s, e)
<1>1. PICK i \in 1 .. Len(Tail(s)) : Tail(s)[i] = e
  BY DEF Has
<1>2. i + 1 \in 1 .. Len(s) /\ s[i + 1] = e
  BY <1>1, QueueTail
<1>3. QED BY <1>2 DEF Has

LEMMA HasAppend ==
  ASSUME NEW s \in Seq(Events), NEW e \in Events
  PROVE  /\ Has(Append(s, e), e)
         /\ \A f : Has(s, f) => Has(Append(s, e), f)
<1>1. Len(s) + 1 \in 1 .. Len(Append(s, e))
  BY QueueAppend
<1>2. \A i \in 1 .. Len(s) : i \in 1 .. Len(Append(s, e))
  BY QueueAppend
<1>3. QED BY <1>1, <1>2, QueueAppend DEF Has

LEMMA FollowedTail ==
  ASSUME NEW s \in Seq(Events), s # <<>>, NEW P, NEW q, Followed(s, P, q)
  PROVE  /\ Followed(Tail(s), P, q)
         /\ Head(s) \in P => Has(Tail(s), q)
<1>1. ASSUME NEW i \in 1 .. Len(s), s[i] \in P
      PROVE  \E k \in 1 .. Len(Tail(s)) : k > i - 1 /\ Tail(s)[k] = q
  <2>1. PICK k \in 1 .. Len(s) : k > i /\ s[k] = q
    BY <1>1 DEF Followed
  <2>2. k - 1 \in 1 .. Len(Tail(s)) /\ Tail(s)[k - 1] = q /\ k - 1 > i - 1
    BY <2>1, QueueTail
  <2>3. QED BY <2>2
<1>2. ASSUME NEW i \in 1 .. Len(Tail(s)), Tail(s)[i] \in P
      PROVE  \E k \in 1 .. Len(Tail(s)) : k > i /\ Tail(s)[k] = q
  <2>1. i + 1 \in 1 .. Len(s) /\ s[i + 1] \in P /\ (i + 1) - 1 = i
    BY <1>2, QueueTail
  <2>2. QED BY <1>1, <2>1
<1>3. Head(s) \in P => Has(Tail(s), q)
  <2>1. 1 \in 1 .. Len(s) /\ Head(s) = s[1]
    BY QueueTail
  <2>2. QED BY <1>1, <2>1 DEF Has
<1>4. QED BY <1>2, <1>3 DEF Followed

LEMMA FollowedAppend ==
  ASSUME NEW s \in Seq(Events), NEW e \in Events, NEW P, NEW q, e \notin P,
         Followed(s, P, q) \/ e = q
  PROVE  Followed(Append(s, e), P, q)
<1>1. ASSUME NEW i \in 1 .. Len(Append(s, e)), Append(s, e)[i] \in P
      PROVE  \E k \in 1 .. Len(Append(s, e)) : k > i /\ Append(s, e)[k] = q
  <2>1. i \in 1 .. Len(s) /\ s[i] \in P
    BY <1>1, QueueAppend
  <2>2. CASE e = q
    <3>1. Len(s) + 1 \in 1 .. Len(Append(s, e)) /\ Len(s) + 1 > i
      BY <2>1, QueueAppend
    <3>2. QED BY <2>2, <3>1, QueueAppend
  <2>3. CASE Followed(s, P, q)
    <3>1. PICK k \in 1 .. Len(s) : k > i /\ s[k] = q
      BY <2>1, <2>3 DEF Followed
    <3>2. k \in 1 .. Len(Append(s, e)) /\ Append(s, e)[k] = q
      BY <3>1, QueueAppend
    <3>3. QED BY <3>1, <3>2
  <2>4. QED BY <2>2, <2>3
<1>2. QED BY <1>1 DEF Followed

LEMMA NothingFollows == ASSUME NEW P, NEW q PROVE Followed(<<>>, P, q) /\ ~Has(<<>>, q)
  BY DEF Followed, Has

(***************************************************************************)
(* What is reported and what the link is.  Reports are late: the handler's *)
(* by what is still in the queue, the task's by what happened since it     *)
(* looked at the link.  Whenever the last report is wrong, something that  *)
(* will correct it is under way.                                           *)
(***************************************************************************)
\* radio is a record of the driver's.
ARadio == radio = [mode |-> radio.mode, netif |-> radio.netif, config |-> radio.config,
                   sta |-> radio.sta]

\* The last thing the queue says of the link is true.
Undoing == {"staDisconnected", "staConnected", "apStart"}

AirInv ==
  /\ events \in Seq(Events) /\ ARadio
  /\ radio.mode = "ap" => radio.sta = "off"
  /\ boot = "start" => radio.mode = "off" /\ radio.sta = "off"
  /\ radio.sta # "up" => Followed(events, {"gotIp"}, "staDisconnected")
  /\ radio.sta = "up" => Followed(events, Undoing, "gotIp")

\* A handler restarts the bridge next, or has failed to clear the credentials under it.
Leaving == handler.at = "restart" \/ unfinished

\* How far it is: only what it does last restarts the bridge.
Busy ==
  /\ nvs = [ssid |-> nvs.ssid, password |-> nvs.password, configured |-> nvs.configured]
  /\ handler = [op |-> handler.op, at |-> handler.at, new |-> handler.new]
  /\ handler.at \in Writes
  /\ handler.op = "none" => handler.at = "ssid"
  /\ handler.op = "save" => handler.at # "restart"

Early == {"start", "waiting", "linked", "startTask"}

\* The task exists in normal operation only, and that only with credentials in flash.
ModeInv ==
  /\ boot \in Early => task = "none"
  /\ boot \in {"waiting", "linked", "startTask"} => nvs.configured \/ Leaving
  /\ boot = "startTask" => normal
  /\ task # "none" => normal /\ (nvs.configured \/ Leaving)
  /\ task = "giveUp" => ~unlimited

Loss == Has(events, "staDisconnected") \/ notified

\* "connected" is not said of a lost link, unless the loss is still to be handled, or the task
\* is on its way to report it.  What the task found linked may be lost since.
NoFalseLink ==
  /\ state = "connected" /\ ~Linked
       => Loss \/ task \in {"look", "delay", "reconnecting"} \/ Leaving
  /\ task = "linked" /\ ~Linked => Loss \/ Leaving

\* Of a link that is up nothing else is said, unless its address is still to be handled, the
\* task will look at it once more, or gave up at last.
NoHiddenLink ==
  radio.sta = "up" => \/ Has(events, "gotIp")
                      \/ state = "connected" \/ (~unlimited /\ state = "failed")
                      \/ task \in {"final", "linked"}

LinkInv == AirInv /\ Busy /\ ModeInv /\ NoFalseLink /\ NoHiddenLink

LEMMA LinkInit == ASSUME WifiInit PROVE LinkInv
<1>1. ARadio
  BY DEF WifiInit, ARadio
<1>2. AirInv
  BY <1>1, NothingFollows DEF WifiInit, AirInv
<1>3. Busy
  BY NoHandling DEF WifiInit, Busy, Factory, SetUp, NoHandler, Writes
<1>4. QED BY <1>2, <1>3 DEF WifiInit, LinkInv, ModeInv, NoFalseLink, NoHiddenLink, Linked, Early

LEMMA LinkRestarts == ASSUME LinkInv, Restarts PROVE LinkInv'
<1>1. radio'.sta = "off" /\ radio'.mode = "off" /\ ARadio'
  BY DEF Restarts, Fresh, LinkInv, AirInv, ARadio
<1>2. AirInv'
  BY <1>1, NothingFollows DEF Restarts, Fresh, AirInv
<1>3. Busy'
  BY NoHandling DEF Restarts, Fresh, LinkInv, Busy, NoHandler, Writes
<1>4. QED
  BY <1>1, <1>2, <1>3 DEF Restarts, Fresh, LinkInv, ModeInv, NoFalseLink, NoHiddenLink, Linked,
     Early

\* Who reports nothing and leaves task and handler alone.
aircodevars == <<unlimited, nvs, state, normal, task, notified, boot, handler, unfinished>>

(***************************************************************************)
(* The driver: it posts what it does to the link.                          *)
(***************************************************************************)
LEMMA LinkPosts ==
  ASSUME LinkInv, NEW sta \in {"idle", "associated", "up"}, NEW e \in Events, Posts(sta, e),
         radio.sta \in {"connecting", "associated", "up"},
         \/ sta = "up" /\ e = "gotIp"
         \/ sta = "associated" /\ e = "staConnected" /\ radio.sta = "connecting"
         \/ sta = "idle" /\ e = "staDisconnected"
  PROVE  LinkInv'
<1>1. /\ radio' = [radio EXCEPT !.sta = sta] /\ events' = Append(events, e)
      /\ UNCHANGED aircodevars
  BY DEF Posts, codevars, bootvars, flashvars, aircodevars
<1>2. ARadio' /\ radio'.sta = sta /\ radio'.mode = radio.mode /\ radio.mode # "ap"
  BY <1>1 DEF LinkInv, AirInv, ARadio
<1>3. events \in Seq(Events) /\ events' \in Seq(Events)
  BY <1>1, QueueAppend DEF LinkInv, AirInv
<1>4. AirInv'
  <2>1. CASE sta = "up"
    <3>1. Followed(events', Undoing, "gotIp")
      BY <1>1, <1>3, <2>1, FollowedAppend DEF Undoing
    <3>2. QED BY <1>1, <1>2, <1>3, <2>1, <3>1 DEF LinkInv, AirInv, aircodevars
  <2>2. CASE sta # "up"
    <3>1. Followed(events', {"gotIp"}, "staDisconnected")
      BY <1>1, <1>3, <2>2, FollowedAppend DEF LinkInv, AirInv
    <3>2. QED BY <1>1, <1>2, <1>3, <2>2, <3>1 DEF LinkInv, AirInv, aircodevars
  <2>3. QED BY <2>1, <2>2
<1>5. /\ Has(events', e) /\ \A f : Has(events, f) => Has(events', f)
  BY <1>1, <1>3, HasAppend
<1>6. NoFalseLink'
  BY <1>1, <1>2, <1>5 DEF LinkInv, NoFalseLink, Linked, Loss, Leaving, aircodevars
<1>7. NoHiddenLink'
  BY <1>1, <1>2, <1>5 DEF NoHiddenLink
<1>8. QED BY <1>1, <1>4, <1>6, <1>7 DEF LinkInv, Busy, ModeInv, Leaving, aircodevars

LEMMA LinkDriver == ASSUME LinkInv, Driver PROVE LinkInv'
<1>1. CASE Associates
  BY <1>1, LinkPosts DEF Associates, Events
<1>2. CASE CannotAssociate
  BY <1>2, LinkPosts DEF CannotAssociate, Events
<1>3. CASE GetsAddress
  BY <1>3, LinkPosts DEF GetsAddress, Events
<1>4. CASE LosesLink
  BY <1>4, LinkPosts DEF LosesLink, Linked, Events
<1>5. QED BY <1>1, <1>2, <1>3, <1>4 DEF Driver

LEMMA LinkStutter ==
  ASSUME LinkInv, UNCHANGED <<aircodevars, radio, events>>
  PROVE  LinkInv'
BY DEF LinkInv, AirInv, ARadio, Busy, ModeInv, NoFalseLink, NoHiddenLink, Linked, Loss,
       Leaving, aircodevars

LEMMA LinkPhone == ASSUME LinkInv, PhoneJoins PROVE LinkInv'
<1>1. events' = Append(events, "apStaIpAssigned") /\ UNCHANGED <<aircodevars, radio>>
  BY DEF PhoneJoins, codevars, bootvars, flashvars, airvars, aircodevars
<1>2. events \in Seq(Events) /\ "apStaIpAssigned" \in Events
  BY DEF LinkInv, AirInv, Events
<1>3. events' \in Seq(Events) /\ \A f : Has(events, f) => Has(events', f)
  BY <1>1, <1>2, QueueAppend, HasAppend
<1>4. AirInv'
  <2>1. radio.sta # "up" => Followed(events', {"gotIp"}, "staDisconnected")
    BY <1>1, <1>2, FollowedAppend DEF LinkInv, AirInv
  <2>2. radio.sta = "up" => Followed(events', Undoing, "gotIp")
    BY <1>1, <1>2, FollowedAppend DEF LinkInv, AirInv, Undoing
  <2>3. QED BY <1>1, <1>3, <2>1, <2>2 DEF LinkInv, AirInv, ARadio, aircodevars
<1>5. NoFalseLink' /\ NoHiddenLink'
  BY <1>1, <1>3 DEF LinkInv, NoFalseLink, NoHiddenLink, Linked, Loss, Leaving, aircodevars
<1>6. QED BY <1>1, <1>4, <1>5 DEF LinkInv, Busy, ModeInv, Leaving, aircodevars

(***************************************************************************)
(* app_main.                                                               *)
(***************************************************************************)
\* The rest of what app_main does is said to nobody.
mainvars == <<unlimited, nvs, state, notified, handler, unfinished, radio, events>>

LEMMA LinkMain ==
  ASSUME LinkInv, BootWait \/ BootNormal \/ BootTask \/ BootMesh \/ BootWeb \/ BootCallback
                    \/ BootServices
  PROVE  LinkInv'
<1>1. UNCHANGED mainvars
  BY DEF BootWait, BootNormal, BootTask, BootMesh, BootWeb, BootCallback, BootServices, codevars,
         flashvars, airvars, mainvars
<1>2. ModeInv'
  <2>1. CASE BootWait
    BY <2>1 DEF LinkInv, ModeInv, Early, Leaving, Main, BootWait, codevars, flashvars
  <2>2. CASE BootNormal
    BY <2>2 DEF LinkInv, ModeInv, Early, Leaving, Main, BootNormal, flashvars
  <2>3. CASE BootTask
    BY <2>3 DEF LinkInv, ModeInv, Early, Leaving, Main, BootTask, flashvars
  <2>4. CASE BootMesh \/ BootWeb \/ BootCallback \/ BootServices
    BY <2>4 DEF LinkInv, ModeInv, Early, Leaving, Main, BootMesh, BootWeb, BootCallback,
                BootServices, codevars, flashvars
  <2>5. QED BY <2>1, <2>2, <2>3, <2>4
<1>3. task' = task \/ (task = "none" /\ task' = "wait")
  BY DEF BootWait, BootNormal, BootTask, BootMesh, BootWeb, BootCallback, BootServices, codevars,
         LinkInv, ModeInv, Early, Main
<1>4. AirInv' /\ Busy'
  <2>1. boot' # "start"
    BY DEF BootWait, BootNormal, BootTask, BootMesh, BootWeb, BootCallback, BootServices
  <2>2. QED BY <1>1, <2>1 DEF LinkInv, AirInv, ARadio, Busy, mainvars
<1>5. NoFalseLink' /\ NoHiddenLink'
  BY <1>1, <1>3 DEF LinkInv, NoFalseLink, NoHiddenLink, Linked, Loss, Leaving, mainvars
<1>6. QED BY <1>2, <1>4, <1>5 DEF LinkInv

LEMMA LinkBootStart == ASSUME LinkInv, BootStart PROVE LinkInv'
<1>1. /\ boot = "start" /\ events = <<>> /\ UNCHANGED <<unlimited, nvs, state, normal, task, notified, handler,
                      unfinished>>
  BY DEF BootStart, Main, codevars, flashvars
<1>2. task = "none"
  BY <1>1 DEF LinkInv, ModeInv, Early
<1>3. CASE /\ nvs.configured /\ boot' = "waiting" /\ events' = <<"staStart">>
           /\ radio' = [mode |-> "sta", netif |-> TRUE, config |-> Stored, sta |-> "idle"]
  <2>1. events' = Append(<<>>, "staStart") /\ "staStart" \in Events /\ <<>> \in Seq(Events)
    BY <1>3 DEF Events
  <2>2. events' \in Seq(Events) /\ Followed(events', {"gotIp"}, "staDisconnected")
    BY <2>1, QueueAppend, FollowedAppend, NothingFollows
  <2>3. AirInv'
    BY <1>3, <2>2 DEF AirInv, ARadio
  <2>4. ModeInv'
    BY <1>1, <1>2, <1>3 DEF ModeInv, Early
  <2>5. Loss => Loss'
    BY <1>1, NothingFollows DEF Loss
  <2>6. ~Linked' /\ radio'.sta # "up"
    BY <1>3 DEF Linked
  <2>7. NoFalseLink'
    <3>1. ~Linked
      BY <1>1 DEF LinkInv, AirInv, Linked
    <3>2. QED BY <1>1, <1>2, <2>5, <3>1 DEF LinkInv, NoFalseLink, Leaving
  <2>8. QED BY <1>1, <2>3, <2>4, <2>6, <2>7 DEF LinkInv, Busy, NoHiddenLink
<1>4. CASE boot' = "portal" /\ UNCHANGED <<radio, events>>
  BY <1>1, <1>2, <1>4 DEF LinkInv, AirInv, ARadio, Busy, ModeInv, Early, NoFalseLink,
     NoHiddenLink, Linked, Loss, Leaving
<1>5. QED BY <1>3, <1>4 DEF BootStart

LEMMA LinkBootPortal == ASSUME LinkInv, BootPortal PROVE LinkInv'
<1>1. /\ events = <<>> /\ UNCHANGED <<unlimited, nvs, state, normal, task, notified, handler,
                      unfinished>>
      /\ boot' = "web" /\ radio' = [radio EXCEPT !.mode = "ap", !.sta = "off"]
      /\ events' = Farewell \o <<"apStart">>
  BY DEF BootPortal, Main, codevars, flashvars
<1>2. radio'.sta = "off" /\ ARadio'
  BY <1>1 DEF LinkInv, AirInv, ARadio
<1>3. PICK s \in Seq(Events) : events' = Append(s, "apStart") /\ ~Has(s, "gotIp")
                              /\ (Linked => Has(s, "staDisconnected"))
  <2>1. CASE Farewell = <<>>
    <3>1. ~Linked
      BY <2>1 DEF Farewell, Linked
    <3>2. <<>> \in Seq(Events) /\ events' = Append(<<>>, "apStart")
      BY <1>1, <2>1
    <3>3. QED BY <3>1, <3>2, NothingFollows
  <2>2. CASE Farewell = <<"staDisconnected">>
    <3>1. /\ Farewell \in Seq(Events) /\ events' = Append(Farewell, "apStart")
          /\ Len(Farewell) = 1 /\ Farewell[1] = "staDisconnected"
      BY <1>1, <2>2 DEF Events
    <3>2. Has(Farewell, "staDisconnected") /\ ~Has(Farewell, "gotIp")
      BY <3>1 DEF Has
    <3>3. QED BY <3>1, <3>2
  <2>3. QED BY <2>1, <2>2 DEF Farewell
<1>4. "apStart" \in Events
  BY DEF Events
<1>5. AirInv'
  <2>1. Followed(s, {"gotIp"}, "staDisconnected")
    BY <1>3 DEF Followed, Has
  <2>2. Followed(events', {"gotIp"}, "staDisconnected") /\ events' \in Seq(Events)
    BY <1>3, <1>4, <2>1, FollowedAppend, QueueAppend
  <2>3. QED BY <1>1, <1>2, <2>2 DEF AirInv
<1>6. Linked => Loss'
  BY <1>3, <1>4, HasAppend DEF Loss
<1>7. ~Linked => (Loss => Loss')
  BY <1>1, NothingFollows DEF Loss
<1>8. NoFalseLink'
  BY <1>1, <1>6, <1>7 DEF LinkInv, NoFalseLink, Leaving
<1>9. ModeInv'
  BY <1>1 DEF LinkInv, ModeInv, Early, Leaving
<1>10. QED BY <1>1, <1>2, <1>5, <1>8, <1>9 DEF LinkInv, Busy, NoHiddenLink

LEMMA LinkBoot == ASSUME LinkInv, Boot PROVE LinkInv'
BY LinkMain, LinkBootStart, LinkBootPortal DEF Boot

(***************************************************************************)
(* The event loop.                                                         *)
(***************************************************************************)
\* One event taken from the queue; what is said of the others holds on.
LEMMA LinkTaken ==
  ASSUME LinkInv, NEW e, Event(e), events' = Tail(events),
         UNCHANGED <<nvs, boot, handler, unfinished, radio>>
  PROVE  /\ AirInv' /\ Busy'
         /\ \A f : f # e /\ Has(events, f) => Has(events', f)
         /\ e = "gotIp" /\ radio.sta # "up" => Has(events', "staDisconnected")
         /\ e \in Undoing /\ radio.sta = "up" => Has(events', "gotIp")
<1>1. events \in Seq(Events) /\ events # <<>> /\ Head(events) = e
  BY DEF LinkInv, AirInv, Event
<1>2. AirInv'
  <2>1. events' \in Seq(Events)
    BY <1>1, QueueTail
  <2>2. radio.sta # "up" => Followed(events', {"gotIp"}, "staDisconnected")
    BY <1>1, FollowedTail DEF LinkInv, AirInv
  <2>3. radio.sta = "up" => Followed(events', Undoing, "gotIp")
    BY <1>1, FollowedTail DEF LinkInv, AirInv
  <2>4. QED BY <2>1, <2>2, <2>3 DEF LinkInv, AirInv, ARadio
<1>3. \A f : f # e /\ Has(events, f) => Has(events', f)
  BY <1>1, HasTail
<1>4. e = "gotIp" /\ radio.sta # "up" => Has(events', "staDisconnected")
  BY <1>1, FollowedTail DEF LinkInv, AirInv
<1>5. e \in Undoing /\ radio.sta = "up" => Has(events', "gotIp")
  BY <1>1, FollowedTail DEF LinkInv, AirInv
<1>6. QED BY <1>2, <1>3, <1>4, <1>5 DEF LinkInv, Busy

LEMMA LinkReported ==
  ASSUME LinkInv, AccessPointStarted \/ StationConnected \/ GotIp
  PROVE  LinkInv'
<1>1. UNCHANGED <<unlimited, nvs, normal, task, notified, boot, handler, unfinished, radio>>
  BY DEF AccessPointStarted, StationConnected, GotIp, bootvars, flashvars, airvars
<1>2. ModeInv'
  BY <1>1 DEF LinkInv, ModeInv, Leaving
<1>3. CASE GotIp
  <2>1. Event("gotIp") /\ events' = Tail(events) /\ state' = "connected"
    BY <1>3 DEF GotIp, Report
  <2>2. /\ AirInv' /\ Busy'
        /\ Has(events, "staDisconnected") => Has(events', "staDisconnected")
        /\ radio.sta # "up" => Has(events', "staDisconnected")
    BY <1>1, <2>1, LinkTaken
  <2>3. NoFalseLink'
    BY <1>1, <2>2 DEF NoFalseLink, Linked, Loss
  <2>4. QED BY <1>2, <2>1, <2>2, <2>3 DEF LinkInv, NoHiddenLink
<1>4. CASE AccessPointStarted \/ StationConnected
  <2>1. PICK e \in {"apStart", "staConnected"} : Event(e)
    BY <1>4 DEF AccessPointStarted, StationConnected
  <2>2. events' = Tail(events) /\ state' # "connected"
    BY <1>4 DEF AccessPointStarted, StationConnected, Report
  <2>3. /\ AirInv' /\ Busy'
        /\ Has(events, "staDisconnected") => Has(events', "staDisconnected")
        /\ radio.sta = "up" => Has(events', "gotIp")
    BY <1>1, <2>1, <2>2, LinkTaken DEF Undoing
  <2>4. NoFalseLink'
    BY <1>1, <2>2, <2>3 DEF LinkInv, NoFalseLink, Linked, Loss, Leaving
  <2>5. QED BY <1>1, <1>2, <2>3, <2>4 DEF LinkInv, NoHiddenLink
<1>5. QED BY <1>3, <1>4

\* The loss is no longer in the queue, but the task is notified of it.
LEMMA LinkLost == ASSUME LinkInv, StationDisconnected PROVE LinkInv'
<1>1. /\ UNCHANGED <<unlimited, nvs, normal, task, boot, handler, unfinished, radio>>
      /\ Event("staDisconnected") /\ events' = Tail(events) /\ state' # "connected"
      /\ normal /\ task # "none" /\ nvs.configured => notified'
  BY DEF StationDisconnected, Report, bootvars, flashvars, airvars
<1>2. AirInv' /\ Busy' /\ (radio.sta = "up" => Has(events', "gotIp"))
  BY <1>1, LinkTaken DEF Undoing
<1>3. ModeInv'
  BY <1>1 DEF LinkInv, ModeInv, Leaving
<1>4. NoFalseLink'
  BY <1>1 DEF LinkInv, ModeInv, NoFalseLink, Loss, Leaving
<1>5. QED BY <1>1, <1>2, <1>3, <1>4 DEF LinkInv, NoHiddenLink

\* esp_wifi_connect does not bring a link up or down.
LEMMA LinkConnects ==
  ASSUME LinkInv, radio' = Connected(radio), boot' = boot
  PROVE  /\ ARadio' /\ (Linked' <=> Linked) /\ (radio'.sta = "up" <=> radio.sta = "up")
         /\ radio'.mode = "ap" => radio'.sta = "off"
         /\ boot' = "start" => radio'.mode = "off" /\ radio'.sta = "off"
BY DEF LinkInv, AirInv, ARadio, Connected, Linked

LEMMA LinkStarted == ASSUME LinkInv, StationStarted PROVE LinkInv'
<1>1. /\ Event("staStart") /\ events' = Tail(events) /\ radio' = Connected(radio)
      /\ UNCHANGED aircodevars
  BY DEF StationStarted, codevars, bootvars, flashvars, aircodevars
<1>2. /\ ARadio' /\ (Linked' <=> Linked) /\ (radio'.sta = "up" <=> radio.sta = "up")
      /\ radio'.mode = "ap" => radio'.sta = "off"
      /\ boot' = "start" => radio'.mode = "off" /\ radio'.sta = "off"
  BY <1>1, LinkConnects DEF aircodevars
<1>3. events \in Seq(Events) /\ events # <<>> /\ Head(events) = "staStart"
  BY <1>1 DEF LinkInv, AirInv, Event
<1>4. AirInv'
  <2>1. radio.sta # "up" => Followed(events', {"gotIp"}, "staDisconnected")
    BY <1>1, <1>3, FollowedTail DEF LinkInv, AirInv
  <2>2. radio.sta = "up" => Followed(events', Undoing, "gotIp")
    BY <1>1, <1>3, FollowedTail DEF LinkInv, AirInv
  <2>3. QED BY <1>1, <1>2, <1>3, <2>1, <2>2, QueueTail DEF AirInv
<1>5. \A f : f # "staStart" /\ Has(events, f) => Has(events', f)
  BY <1>1, <1>3, HasTail
<1>6. Loss => Loss'
  BY <1>1, <1>5 DEF Loss, aircodevars
<1>7. NoFalseLink' /\ NoHiddenLink'
  BY <1>1, <1>2, <1>5, <1>6 DEF LinkInv, NoFalseLink, NoHiddenLink, Leaving, aircodevars
<1>8. QED BY <1>1, <1>4, <1>7 DEF LinkInv, Busy, ModeInv, Leaving, aircodevars

LEMMA LinkPhoneIp == ASSUME LinkInv, PhoneGotIp PROVE LinkInv'
<1>1. Event("apStaIpAssigned") /\ UNCHANGED aircodevars
  BY DEF PhoneGotIp, codevars, bootvars, flashvars, aircodevars
<1>2. events \in Seq(Events) /\ events # <<>> /\ Head(events) = "apStaIpAssigned"
  BY <1>1 DEF LinkInv, AirInv, Event
<1>3. /\ Tail(events) \in Seq(Events)
      /\ \A f : f # "apStaIpAssigned" /\ Has(events, f) => Has(Tail(events), f)
      /\ radio.sta # "up" => Followed(Tail(events), {"gotIp"}, "staDisconnected")
      /\ radio.sta = "up" => Followed(Tail(events), Undoing, "gotIp")
  <2>1. radio.sta # "up" => Followed(Tail(events), {"gotIp"}, "staDisconnected")
    BY <1>2, FollowedTail DEF LinkInv, AirInv
  <2>2. radio.sta = "up" => Followed(Tail(events), Undoing, "gotIp")
    BY <1>2, FollowedTail DEF LinkInv, AirInv
  <2>3. QED BY <1>2, <2>1, <2>2, QueueTail, HasTail
<1>4. CASE radio.mode = "ap"
  <2>1. /\ radio' = [radio EXCEPT !.mode = "apsta", !.sta = "idle"]
        /\ events' = Append(Tail(events), "staStart") /\ radio.sta = "off" /\ "staStart" \in Events
    BY <1>4 DEF PhoneGotIp, LinkInv, AirInv, Events
  <2>2. ARadio' /\ radio'.mode = "apsta" /\ radio'.sta = "idle"
    BY <2>1 DEF LinkInv, AirInv, ARadio
  <2>3. events' \in Seq(Events) /\ Followed(events', {"gotIp"}, "staDisconnected")
    BY <1>3, <2>1, QueueAppend, FollowedAppend
  <2>4. boot # "start"
    BY <1>4 DEF LinkInv, AirInv
  <2>5. AirInv'
    BY <1>1, <2>2, <2>3, <2>4 DEF AirInv, aircodevars
  <2>6. Loss => Loss'
    BY <1>1, <1>3, <2>1, HasAppend DEF Loss, aircodevars
  <2>7. NoFalseLink' /\ NoHiddenLink'
    BY <1>1, <2>1, <2>2, <2>6 DEF LinkInv, NoFalseLink, NoHiddenLink, Linked, Leaving, aircodevars
  <2>8. QED BY <1>1, <2>5, <2>7 DEF LinkInv, Busy, ModeInv, Leaving, aircodevars
<1>5. CASE radio.mode # "ap"
  <2>1. events' = Tail(events) /\ radio' = radio
    BY <1>5 DEF PhoneGotIp
  <2>2. AirInv'
    BY <1>1, <1>3, <2>1 DEF LinkInv, AirInv, ARadio, aircodevars
  <2>3. NoFalseLink' /\ NoHiddenLink'
    BY <1>1, <1>3, <2>1 DEF LinkInv, NoFalseLink, NoHiddenLink, Linked, Loss, Leaving, aircodevars
  <2>4. QED BY <1>1, <2>2, <2>3 DEF LinkInv, Busy, ModeInv, Leaving, aircodevars
<1>6. QED BY <1>4, <1>5

LEMMA LinkEvents == ASSUME LinkInv, EventLoop PROVE LinkInv'
BY LinkReported, LinkLost, LinkStarted, LinkPhoneIp DEF EventLoop

(***************************************************************************)
(* The reconnect task.                                                     *)
(***************************************************************************)
\* A step of the task that leaves the link and the queue alone.
LEMMA LinkTask ==
  ASSUME LinkInv,
         UNCHANGED <<unlimited, nvs, normal, boot, handler, unfinished, radio, events>>,
         task # "none", task' # "giveUp" \/ ~unlimited, NoFalseLink', NoHiddenLink'
  PROVE  LinkInv'
<1>1. ModeInv'
  BY DEF LinkInv, ModeInv, Early, Leaving
<1>2. QED BY <1>1 DEF LinkInv, AirInv, ARadio, Busy

LEMMA LinkReconnect == ASSUME LinkInv, Reconnect PROVE LinkInv'
<1>1. CASE TakeNotification
  <2>1. /\ UNCHANGED <<unlimited, nvs, state, normal, boot, handler, unfinished, radio,
                  events>>
        /\ task = "wait" /\ task' = "look"
    BY <1>1 DEF TakeNotification, bootvars, flashvars, airvars
  <2>2. NoFalseLink' /\ NoHiddenLink'
    BY <2>1 DEF LinkInv, NoFalseLink, NoHiddenLink, Linked
  <2>3. QED BY <2>1, <2>2, LinkTask
<1>2. CASE CheckLink
  <2>1. /\ UNCHANGED <<unlimited, nvs, state, normal, notified, boot, handler, unfinished, radio,
                  events>>
        /\ task \in {"look", "delay", "final"}
        /\ task' = IF Linked THEN "linked"
                   ELSE CASE task = "look" -> "delay"
                          [] task = "delay" -> "reconnecting"
                          [] task = "final" -> "connect"
    BY <1>2 DEF CheckLink, bootvars, flashvars, airvars
  <2>2. CASE Linked
    <3>1. task' = "linked"
      BY <2>1, <2>2
    <3>2. NoFalseLink' /\ NoHiddenLink'
      BY <2>1, <2>2, <3>1 DEF NoFalseLink, NoHiddenLink, Linked
    <3>3. QED BY <2>1, <3>1, <3>2, LinkTask
  <2>3. CASE ~Linked
    <3>1. /\ task \in {"look", "delay"} => task' \in {"delay", "reconnecting"}
          /\ task = "final" => task' = "connect"
      BY <2>1, <2>3
    <3>2. NoFalseLink' /\ NoHiddenLink'
      BY <2>1, <2>3, <3>1 DEF LinkInv, NoFalseLink, NoHiddenLink, Linked, Loss, Leaving
    <3>3. QED BY <2>1, <3>1, <3>2, LinkTask
  <2>4. QED BY <2>2, <2>3
<1>3. CASE FoundLinked
  <2>1. /\ UNCHANGED <<unlimited, nvs, normal, notified, boot, handler, unfinished, radio,
                  events>>
        /\ task = "linked" /\ task' = "wait" /\ state' = "connected"
    BY <1>3 DEF FoundLinked, Report, bootvars, flashvars, airvars
  <2>2. NoFalseLink' /\ NoHiddenLink'
    BY <2>1 DEF LinkInv, NoFalseLink, NoHiddenLink, Linked, Loss, Leaving
  <2>3. QED BY <2>1, <2>2, LinkTask
<1>4. CASE SayReconnecting
  <2>1. /\ UNCHANGED <<unlimited, nvs, normal, notified, boot, handler, unfinished, radio,
                  events>>
        /\ task = "reconnecting" /\ task' = "final" /\ state' = "reconnecting"
    BY <1>4 DEF SayReconnecting, Report, bootvars, flashvars, airvars
  <2>2. NoFalseLink' /\ NoHiddenLink'
    BY <2>1 DEF NoFalseLink, NoHiddenLink
  <2>3. QED BY <2>1, <2>2, LinkTask
<1>5. CASE ConnectAgain
  <2>1. /\ UNCHANGED <<unlimited, nvs, state, normal, notified, boot, handler, unfinished,
                  events>>
        /\ task = "connect" /\ task' = "result" /\ radio' = Connected(radio)
    BY <1>5 DEF ConnectAgain, bootvars, flashvars
  <2>2. /\ ARadio' /\ (Linked' <=> Linked) /\ (radio'.sta = "up" <=> radio.sta = "up")
        /\ radio'.mode = "ap" => radio'.sta = "off"
        /\ boot' = "start" => radio'.mode = "off" /\ radio'.sta = "off"
    BY <2>1, LinkConnects
  <2>3. AirInv'
    BY <2>1, <2>2 DEF LinkInv, AirInv
  <2>4. NoFalseLink' /\ NoHiddenLink'
    BY <2>1, <2>2 DEF LinkInv, NoFalseLink, NoHiddenLink, Loss, Leaving
  <2>5. QED BY <2>1, <2>3, <2>4 DEF LinkInv, Busy, ModeInv, Early, Leaving
<1>6. CASE AwaitResult \/ NextAttempt
  <2>1. /\ UNCHANGED <<unlimited, nvs, state, normal, notified, boot, handler, unfinished, radio,
                  events>>
        /\ task \in {"result", "next"} /\ task' \in {"wait", "next", "delay", "giveUp"}
        /\ task' # "giveUp" \/ ~unlimited
    BY <1>6 DEF AwaitResult, NextAttempt, bootvars, flashvars, airvars
  <2>2. NoFalseLink' /\ NoHiddenLink'
    BY <2>1 DEF LinkInv, NoFalseLink, NoHiddenLink, Linked, Loss, Leaving
  <2>3. QED BY <2>1, <2>2, LinkTask
<1>7. CASE GiveUp
  <2>1. /\ UNCHANGED <<unlimited, nvs, normal, notified, boot, handler, unfinished, radio,
                  events>>
        /\ task = "giveUp" /\ task' = "wait" /\ state' = "failed"
    BY <1>7 DEF GiveUp, Report, bootvars, flashvars, airvars
  <2>2. NoFalseLink' /\ NoHiddenLink'
    BY <2>1 DEF LinkInv, ModeInv, NoFalseLink, NoHiddenLink
  <2>3. QED BY <2>1, <2>2, LinkTask
<1>8. QED
  BY <1>1, <1>2, <1>3, <1>4, <1>5, <1>6, <1>7 DEF Reconnect

(***************************************************************************)
(* The handlers of credentials.                                            *)
(***************************************************************************)
\* Whoever ends the station leaves the loss in the queue.
LEMMA LinkStopped ==
  ASSUME LinkInv, radio' = [radio EXCEPT !.mode = "off", !.sta = "off"],
         events' = events \o Farewell, UNCHANGED <<unlimited, nvs, normal, task, notified, boot>>,
         state' = state \/ state' # "connected", Busy', Leaving => Leaving'
  PROVE  LinkInv'
<1>1. ARadio' /\ radio'.sta = "off" /\ radio'.mode = "off"
  BY DEF LinkInv, AirInv, ARadio
<1>2. events \in Seq(Events) /\ "staDisconnected" \in Events
  BY DEF LinkInv, AirInv, Events
<1>3. /\ events' \in Seq(Events) /\ Followed(events', {"gotIp"}, "staDisconnected")
      /\ Linked => Has(events', "staDisconnected")
      /\ \A f : Has(events, f) => Has(events', f)
  <2>1. CASE Farewell = <<>>
    <3>1. events' = events /\ ~Linked /\ radio.sta # "up"
      BY <1>2, <2>1 DEF Farewell, Linked
    <3>2. QED BY <1>2, <3>1 DEF LinkInv, AirInv
  <2>2. CASE Farewell = <<"staDisconnected">>
    <3>1. events' = Append(events, "staDisconnected")
      BY <1>2, <2>2
    <3>2. QED BY <1>2, <3>1, QueueAppend, FollowedAppend, HasAppend
  <2>3. QED BY <2>1, <2>2 DEF Farewell
<1>4. AirInv'
  BY <1>1, <1>3 DEF AirInv
<1>5. NoFalseLink' /\ NoHiddenLink'
  BY <1>1, <1>3 DEF LinkInv, NoFalseLink, NoHiddenLink, Linked, Loss
<1>6. QED BY <1>4, <1>5 DEF LinkInv, ModeInv

\* Only the handler moves, and not from its restart.
LEMMA LinkHandled ==
  ASSUME LinkInv, UNCHANGED <<unlimited, state, normal, task, notified, boot, events>>,
         nvs.configured => nvs'.configured \/ Leaving', Leaving => Leaving', Busy',
         ARadio', radio'.mode = radio.mode, radio'.sta = radio.sta
  PROVE  LinkInv'
<1>1. AirInv'
  BY DEF LinkInv, AirInv
<1>2. ModeInv'
  BY DEF LinkInv, ModeInv, Early
<1>3. NoFalseLink' /\ NoHiddenLink'
  BY DEF LinkInv, NoFalseLink, NoHiddenLink, Linked, Loss
<1>4. QED BY <1>1, <1>2, <1>3 DEF LinkInv

LEMMA LinkUsers == ASSUME LinkInv, Users PROVE LinkInv'
<1>1. /\ handler.at # "restart" /\ (Leaving => Leaving')
      /\ UNCHANGED <<unlimited, nvs, normal, task, notified, boot>>
  BY DEF LinkInv, Busy, Leaving, Idle, Changing, Users, Save, ResetByWeb, ClearByConsole,
         SetupRestart, codevars, bootvars
<1>2. Busy'
  <2>1. CASE Save
    <3>1. PICK c : handler' = [op |-> "save", at |-> "ssid", new |-> c]
      BY <2>1 DEF Save
    <3>2. QED BY <1>1, <3>1 DEF LinkInv, Busy, Writes
  <2>2. CASE ResetByWeb \/ ClearByConsole \/ SetupRestart
    <3>1. \/ handler' = [NoHandler EXCEPT !.op = "reset"]
          \/ handler' = [NoHandler EXCEPT !.op = "clear"]
          \/ handler' = [NoHandler EXCEPT !.op = "reboot", !.at = "restart"]
      BY <2>2 DEF ResetByWeb, ClearByConsole, SetupRestart
    <3>2. QED BY <1>1, <3>1 DEF LinkInv, Busy, Writes, NoHandler
  <2>3. QED BY <2>1, <2>2 DEF Users
<1>3. CASE ResetByWeb
  BY <1>1, <1>2, <1>3, LinkStopped DEF ResetByWeb, codevars
<1>4. CASE SetupRestart /\ state = "apStarted"
  BY <1>1, <1>2, <1>4, LinkStopped DEF SetupRestart
<1>5. CASE Save \/ ClearByConsole \/ (SetupRestart /\ state # "apStarted")
  <2>1. UNCHANGED <<state, radio, events>>
    BY <1>5 DEF Save, ClearByConsole, SetupRestart, codevars, airvars
  <2>2. ARadio'
    BY <2>1 DEF LinkInv, AirInv, ARadio
  <2>3. QED BY <1>1, <1>2, <2>1, <2>2, LinkHandled
<1>6. QED BY <1>3, <1>4, <1>5 DEF Users

\* Credentials leave flash with the last step before the restart, or a failure leaves traces.
LEMMA LinkKeys ==
  ASSUME LinkInv, SaveKey \/ SaveFails \/ ClearKey \/ ClearFails
  PROVE  LinkInv'
<1>1. UNCHANGED <<unlimited, state, normal, task, notified, boot, events>>
  BY DEF SaveKey, SaveFails, ClearKey, ClearFails, codevars, bootvars
<1>2. ARadio /\ Busy
  BY DEF LinkInv, AirInv
<1>3. Leaving => Leaving'
  BY <1>2 DEF Busy, Leaving, SaveKey, SaveFails, ClearKey, ClearFails
<1>4. CASE SaveKey \/ SaveFails
  <2>1. radio' = radio /\ (nvs.configured => nvs'.configured)
    BY <1>2, <1>4 DEF Busy, SaveKey, SaveFails, airvars, Writes
  <2>2. Busy'
    <3>1. CASE handler' = NoHandler
      <4>1. nvs' = nvs \/ nvs' = [nvs EXCEPT !.configured = TRUE]
        BY <1>2, <1>4, <3>1 DEF Busy, SaveKey, SaveFails, StepTo, Writes, NoHandler
      <4>2. QED BY <1>2, <3>1, <4>1 DEF Busy, NoHandler, Writes
    <3>2. CASE /\ handler' = [handler EXCEPT !.at = "password"] /\ handler.op = "save"
               /\ nvs' = [nvs EXCEPT !.ssid = handler.new.ssid]
      BY <1>2, <3>2 DEF Busy, Writes
    <3>3. CASE /\ handler' = [handler EXCEPT !.at = "configured"] /\ handler.op = "save"
               /\ nvs' = [nvs EXCEPT !.password = handler.new.password]
      BY <1>2, <3>3 DEF Busy, Writes
    <3>4. QED BY <1>2, <1>4, <3>1, <3>2, <3>3 DEF Busy, SaveKey, SaveFails, StepTo, Writes
  <2>3. QED BY <1>1, <1>2, <1>3, <2>1, <2>2, LinkHandled DEF ARadio
<1>5. CASE ClearKey
  <2>1. ARadio' /\ radio'.mode = radio.mode /\ radio'.sta = radio.sta
    BY <1>2, <1>5 DEF Busy, ClearKey, ARadio, Writes
  <2>2. Busy'
    <3>1. handler.op \in {"reset", "clear"}
      BY <1>5 DEF ClearKey
    <3>2. PICK at \in Writes : handler' = [handler EXCEPT !.at = at]
      BY <1>2, <1>5 DEF Busy, ClearKey, StepTo, Writes
    <3>3. nvs' \in {nvs, [nvs EXCEPT !.ssid = None], [nvs EXCEPT !.password = None],
                    [nvs EXCEPT !.configured = FALSE]}
      BY <1>2, <1>5 DEF Busy, ClearKey, Writes
    <3>4. nvs' = [ssid |-> nvs'.ssid, password |-> nvs'.password, configured |-> nvs'.configured]
      BY <1>2, <3>3 DEF Busy
    <3>5. QED BY <1>2, <3>1, <3>2, <3>4 DEF Busy
  <2>3. nvs.configured => nvs'.configured \/ Leaving'
    BY <1>2, <1>5 DEF Busy, ClearKey, StepTo, Writes, Leaving
  <2>4. QED BY <1>1, <1>3, <2>1, <2>2, <2>3, LinkHandled
<1>6. CASE ClearFails
  <2>1. radio' = radio /\ handler' = NoHandler
    BY <1>6 DEF ClearFails, airvars
  <2>2. nvs' \in {nvs, [nvs EXCEPT !.configured = FALSE]}
    BY <1>6 DEF ClearFails
  <2>3. Busy'
    BY <1>2, <2>1, <2>2 DEF Busy, NoHandler, Writes
  <2>4. nvs.configured => nvs'.configured \/ Leaving'
    BY <1>6, <2>2 DEF ClearFails, Leaving
  <2>5. QED BY <1>1, <1>2, <1>3, <2>1, <2>3, <2>4, LinkHandled DEF ARadio
<1>7. QED BY <1>4, <1>5, <1>6

LEMMA LinkNext == ASSUME LinkInv, [WifiNext]_wifivars PROVE LinkInv'
<1>1. CASE Boot BY <1>1, LinkBoot
<1>2. CASE EventLoop BY <1>2, LinkEvents
<1>3. CASE Reconnect BY <1>3, LinkReconnect
<1>4. CASE Users BY <1>4, LinkUsers
<1>5. CASE SaveKey \/ SaveFails \/ ClearKey \/ ClearFails BY <1>5, LinkKeys
<1>6. CASE HandlerRestarts \/ FallbackFires \/ PowerFails
  BY <1>6, LinkRestarts DEF HandlerRestarts, FallbackFires, PowerFails
<1>7. CASE Driver BY <1>7, LinkDriver
<1>8. CASE RouterGoes \/ RouterComes
  BY <1>8, LinkStutter DEF RouterGoes, RouterComes, codevars, bootvars, flashvars, aircodevars
<1>9. CASE PhoneJoins BY <1>9, LinkPhone
<1>10. CASE UNCHANGED wifivars
  BY <1>10, LinkStutter DEF wifivars, codevars, bootvars, flashvars, airvars, aircodevars
<1>11. QED
  BY <1>1, <1>2, <1>3, <1>4, <1>5, <1>6, <1>7, <1>8, <1>9, <1>10 DEF WifiNext, Handlers

\* wifi_event_handler and wifi_reconnect_task write the state one behind the other's back, on
\* news that may be old: once nothing is left in the queue, to be notified or to be tried, what
\* they leave is the state of the link, unless clearing the credentials failed under the bridge.
THEOREM WifiStateSettles == WifiSpec => []StateSettles
<1>1. LinkInv => StateSettles
  <2> SUFFICES ASSUME LinkInv, Settled, ~unfinished
               PROVE  /\ (state = "connected" => radio.sta = "up")
                      /\ (radio.sta = "up" => state = "connected" \/ (~unlimited /\ state = "failed"))
    BY DEF StateSettles
  <2>1. ~Loss /\ ~Leaving /\ ~Has(events, "gotIp") /\ task \in {"none", "wait"}
    BY NothingFollows DEF LinkInv, Busy, Settled, Idle, Loss, Leaving
  <2>2. QED BY <2>1 DEF LinkInv, NoFalseLink, NoHiddenLink, Linked, Settled
<1>2. QED BY <1>1, LinkInit, LinkNext, PTL DEF WifiSpec
=============================================================================
