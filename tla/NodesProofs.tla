---------------------------- MODULE NodesProofs ----------------------------
(***************************************************************************)
(* Theorems about nodes and what is known of them: about ExternalNodes,    *)
(* for every number of nodes, sends, forgets and restarts, and every       *)
(* scene; and about LightControl, for any lights, ranges, scales and       *)
(* brightness, and any number of commands, probes and losses.              *)
(***************************************************************************)
EXTENDS ExternalNodes, LightControl, FiniteSetTheorems, SequenceTheorems, TLAPS

(***************************************************************************)
(* Types.  At most one send is in flight, so that at most one is orphaned: *)
(* OneOrphan says so without counting.                                     *)
(***************************************************************************)
OneOrphan == \A r, s \in sends : r.orphaned /\ s.orphaned => r = s

Around ==
  /\ announced \in [Addrs -> Kinds \cup {"none"}]
  /\ {connected, link, unsubAck, haAsked} \subseteq BOOLEAN
  /\ ha \in [Addrs -> SUBSET Kinds] /\ lost \in [Addrs -> SUBSET Kinds]
  /\ scene \in Scenes /\ forgets \in 0 .. scene.maxForgets /\ crashes \in 0 .. MaxCrashes

Typed ==
  /\ table \in Snapshot /\ disk \in Snapshot /\ saveTimer \in BOOLEAN /\ unsaved \in BOOLEAN
  /\ sends \subseteq Send /\ OneOrphan /\ sincePurge \subseteq Addrs
  /\ job \in [Tasks -> Job]
  /\ Around

LEMMA TypedIsTypeOK == Typed => TypeOK
<1> SUFFICES ASSUME Typed PROVE TypeOK
  OBVIOUS
<1> DEFINE orphans == {s \in sends : s.orphaned}
<1>1. Cardinality(orphans) <= 1
  <2>1. CASE orphans = {}
    <3>1. Cardinality(orphans) = 0
      BY <2>1, FS_EmptySet
    <3>2. QED BY <3>1
  <2>2. ASSUME NEW r \in orphans PROVE Cardinality(orphans) <= 1
    <3>1. orphans = {r}
      BY <2>2 DEF Typed, OneOrphan
    <3>2. Cardinality({r}) = 1
      BY FS_Singleton
    <3>3. QED BY <3>1, <3>2
  <2>3. QED BY <2>1, <2>2
<1>2. QED BY <1>1 DEF Typed, Around, TypeOK

LEMMA IdleType ==
  /\ Idle \in Job /\ Idle.pc = "idle" /\ ~Idle.reply /\ ~Idle.forget
  /\ Idle.left = [a \in Addrs |-> Unknown]
<1>1. Nobody \in Addrs
  BY ExternalNodesAssumption DEF Nobody
<1>2. [a \in Addrs |-> Unknown] \in Snapshot
  BY DEF Snapshot, Unknown, Nodes
<1>3. QED
  BY <1>1, <1>2 DEF Idle, Job, Pcs, Kinds, Nodes, Unknown, Features

LEMMA KindType == ASSUME NEW known PROVE KindOf(known) \in Kinds
BY DEF KindOf, Kinds

LEMMA HeardType == ASSUME NEW known \in Nodes, NEW f \in Features PROVE Heard(known, f) \in Nodes
BY DEF Heard, Nodes

\* Moving a job on to its next step.
LEMMA MovedType ==
  ASSUME NEW j \in Job, NEW pc \in Pcs
  PROVE  /\ [j EXCEPT !.pc = pc] \in Job /\ [j EXCEPT !.pc = pc].pc = pc
         /\ [j EXCEPT !.pc = pc].reply = j.reply /\ [j EXCEPT !.pc = pc].addr = j.addr
         /\ [j EXCEPT !.pc = pc].left = j.left
BY DEF Job

LEMMA TurnType ==
  ASSUME NEW j, j.left \in Snapshot, j.forget \in BOOLEAN, NEW pc \in Pcs,
         NEW n \in NextTurn(j, pc)
  PROVE  n \in Job /\ n.pc \in {"idle", pc} /\ ~n.reply
<1>1. CASE n = Idle
  BY <1>1, IdleType
<1>2. CASE n # Idle
  <2>1. PICK a \in Addrs :
          n = [Idle EXCEPT !.pc = pc, !.addr = a, !.node = j.left[a], !.forget = j.forget,
                           !.left = [j.left EXCEPT ![a] = Unknown]]
    BY <1>2 DEF NextTurn
  <2>2. j.left[a] \in Nodes /\ [j.left EXCEPT ![a] = Unknown] \in Snapshot
    BY DEF Snapshot, Unknown, Nodes
  <2>3. QED BY <2>1, <2>2, IdleType DEF Job
<1>3. QED BY <1>1, <1>2

LEMMA WalkType ==
  ASSUME Typed, NEW t, Walk(t)
  PROVE  \E n \in Job : Start(t, n) /\ n.pc \in {"idle", "announce"} /\ ~n.reply
<1> DEFINE j == [Idle EXCEPT !.left = table]
<1>1. PICK n \in NextTurn(j, "announce") : Start(t, n)
  BY DEF Walk
<1>2. j.left \in Snapshot /\ j.forget \in BOOLEAN /\ "announce" \in Pcs
  BY IdleType DEF Typed, Job, Pcs
<1>3. n \in Job /\ n.pc \in {"idle", "announce"} /\ ~n.reply
  <2> HIDE DEF j
  <2>1. QED BY <1>2, TurnType
<1>4. QED BY <1>1, <1>3

\* Task t is now at one of pcs; no other task has moved.
Went(t, pcs) ==
  /\ job' \in [Tasks -> Job] /\ job'[t].pc \in pcs
  /\ \A u \in Tasks \ {t} : job'[u] = job[u]

LEMMA StartWent ==
  ASSUME Typed, NEW t \in Tasks, NEW j \in Job, Start(t, j)
  PROVE  Went(t, {j.pc}) /\ job'[t] = j
BY DEF Typed, Start, Went

LEMMA GotoWent ==
  ASSUME Typed, NEW t \in Tasks, NEW pc \in Pcs, Goto(t, pc)
  PROVE  Went(t, {pc}) /\ job'[t] = [job[t] EXCEPT !.pc = pc]
<1>1. job[t] \in Job
  BY DEF Typed
<1>2. [job[t] EXCEPT !.pc = pc] \in Job /\ [job[t] EXCEPT !.pc = pc].pc = pc
  BY <1>1, MovedType
<1>3. QED BY <1>2, StartWent DEF Goto

LEMMA PurgedType ==
  ASSUME Typed, NEW a \in Addrs, NEW q \in Purged(a)
  PROVE  /\ q \subseteq Send
         /\ \A r, s \in q : r.orphaned /\ s.orphaned => r = s
         /\ \A s \in q : s.orphaned \/ (s \in sends /\ s.addr # a)
<1> DEFINE mine == {s \in sends : s.addr = a}
           rest == sends \ mine
           onair == {s \in mine : \A r \in rest : ~r.orphaned}
<1>1. PICK x \in {{}} \cup {{[s EXCEPT !.orphaned = TRUE]} : s \in onair} : q = rest \cup x
  BY DEF Purged
<1>2. CASE x = {}
  BY <1>1, <1>2 DEF Typed, OneOrphan
<1>3. ASSUME NEW s \in onair, x = {[s EXCEPT !.orphaned = TRUE]}
      PROVE  /\ q \subseteq Send
             /\ \A r, u \in q : r.orphaned /\ u.orphaned => r = u
             /\ \A u \in q : u.orphaned \/ (u \in sends /\ u.addr # a)
  <2>1. [s EXCEPT !.orphaned = TRUE] \in Send /\ [s EXCEPT !.orphaned = TRUE].orphaned
    BY DEF Typed, Send
  <2>2. QED BY <1>1, <1>3, <2>1 DEF Typed
<1>4. QED BY <1>1, <1>2, <1>3

LEMMA EnqueueType ==
  ASSUME Typed, NEW a \in Addrs, NEW f \in Features, Enqueue(a, f)
  PROVE  sends' \subseteq Send /\ OneOrphan' /\ sincePurge' \subseteq Addrs
<1>1. [addr |-> a, feature |-> f, orphaned |-> FALSE] \in Send
  BY DEF Send
<1>2. \A s \in sends' : s.orphaned => s \in sends
  BY DEF Enqueue
<1>3. sends' \subseteq Send /\ sincePurge' \subseteq Addrs
  BY <1>1 DEF Typed, Enqueue
<1>4. QED BY <1>2, <1>3 DEF Typed, OneOrphan

(***************************************************************************)
(* The invariant.                                                          *)
(***************************************************************************)
\* A light model replaces Level, so that to hear either again changes nothing.
OneOfBoth(known) == \A a \in Addrs : ~({"level", "light"} \subseteq known[a])

Saved ==
  /\ SavedUnlessPending
  /\ OneOfBoth(table) /\ OneOfBoth(disk)
  /\ At(Timer, "write") => OneOfBoth(job[Timer].left)

\* Whoever may still answer was asked since the last purge of its address, or is past it.
Replies ==
  /\ \A s \in sends : s.orphaned \/ s.addr \in sincePurge
  /\ At(Btc, "upsert") /\ job[Btc].reply => job[Btc].addr \in sincePurge

NodesInv == Typed /\ Saved /\ Replies

\* A step that does not touch the table or its copy keeps what is said of them.
LEMMA SavedMove ==
  ASSUME NodesInv, NEW t \in Tasks, NEW pcs, Went(t, pcs), "write" \notin pcs,
         job[t].pc \notin {"mark", "rangeGet", "write"}, UNCHANGED <<table, disk, unsaved, saveTimer>>
  PROVE  Saved'
<1>1. \A u \in Tasks : \/ job'[u] = job[u]
                       \/ u = t /\ job'[u].pc # "write"
  BY DEF Went
<1>2. Timer \in Tasks
  BY DEF Tasks
<1>3. SavedUnlessPending'
  <2>1. saveTimer => SavedUnlessPending'
    BY DEF SavedUnlessPending
  <2>2. ASSUME NEW u \in Tasks, At(u, "mark") \/ At(u, "rangeGet") PROVE SavedUnlessPending'
    <3>1. job'[u] = job[u]
      BY <1>1, <2>2 DEF At
    <3>2. QED BY <2>2, <3>1 DEF SavedUnlessPending, At
  <2>3. CASE At(Timer, "write") /\ job[Timer].left = table
    <3>1. job'[Timer] = job[Timer]
      BY <1>1, <1>2, <2>3 DEF At
    <3>2. QED BY <2>3, <3>1 DEF SavedUnlessPending, At
  <2>4. CASE ~At(Timer, "write") /\ (unsaved \/ disk = table)
    <3>1. ~At(Timer, "write")'
      BY <1>1, <1>2, <2>4 DEF At
    <3>2. QED BY <2>4, <3>1 DEF SavedUnlessPending, At
  <2>5. QED BY <2>1, <2>2, <2>3, <2>4 DEF NodesInv, Saved, SavedUnlessPending
<1>4. At(Timer, "write")' => job'[Timer] = job[Timer]
  BY <1>1, <1>2 DEF At
<1>5. QED BY <1>3, <1>4 DEF NodesInv, Saved, OneOfBoth, At

\* A step that does not touch the sends keeps what is said of them.
LEMMA RepliesMove ==
  ASSUME NodesInv, NEW t \in Tasks, NEW pcs, Went(t, pcs), "upsert" \notin pcs,
         UNCHANGED <<sends, sincePurge>>
  PROVE  Replies'
<1>1. Btc \in Tasks
  BY DEF Tasks
<1>2. At(Btc, "upsert")' => job'[Btc] = job[Btc]
  BY <1>1 DEF Went, At
<1>3. QED BY <1>2 DEF NodesInv, Replies, At

LEMMA QuietMove ==
  ASSUME NodesInv, NEW t \in Tasks, NEW pcs, Went(t, pcs), Around',
         pcs \cap {"write", "upsert"} = {}, job[t].pc \notin {"mark", "rangeGet", "write"},
         UNCHANGED <<table, disk, unsaved, saveTimer, sends, sincePurge>>
  PROVE  NodesInv'
<1>1. Typed'
  BY DEF NodesInv, Typed, OneOrphan, Went
<1>2. QED BY <1>1, SavedMove, RepliesMove DEF NodesInv

\* Nobody moves.
LEMMA QuietWorld ==
  ASSUME NodesInv, Around',
         UNCHANGED <<table, disk, unsaved, saveTimer, sends, sincePurge, job>>
  PROVE  NodesInv'
BY DEF NodesInv, Typed, OneOrphan, Saved, SavedUnlessPending, OneOfBoth, Replies, At

LEMMA QuietStart ==
  ASSUME NodesInv, NEW t \in Tasks, NEW n \in Job, Start(t, n), n.pc \notin {"write", "upsert"},
         Around', job[t].pc \notin {"mark", "rangeGet", "write"},
         UNCHANGED <<table, disk, unsaved, saveTimer, sends, sincePurge>>
  PROVE  NodesInv'
<1>1. Went(t, {n.pc})
  BY StartWent DEF NodesInv
<1>2. QED BY <1>1, QuietMove

LEMMA QuietGoto ==
  ASSUME NodesInv, NEW t \in Tasks, NEW pc \in Pcs \ {"write", "upsert"}, Goto(t, pc),
         Around', job[t].pc \notin {"mark", "rangeGet", "write"},
         UNCHANGED <<table, disk, unsaved, saveTimer, sends, sincePurge>>
  PROVE  NodesInv'
<1>1. job[t] \in Job
  BY DEF NodesInv, Typed
<1>2. [job[t] EXCEPT !.pc = pc] \in Job /\ [job[t] EXCEPT !.pc = pc].pc = pc
  BY <1>1, MovedType
<1>3. QED BY <1>2, QuietStart DEF Goto

\* The next turn of a walk over copies of nodes, or its end.
LEMMA QuietTurn ==
  ASSUME NodesInv, NEW t \in Tasks, NEW j \in Job, NEW pc \in Pcs \ {"write", "upsert"},
         \E n \in NextTurn(j, pc) : Start(t, n),
         Around', job[t].pc \notin {"mark", "rangeGet", "write"},
         UNCHANGED <<table, disk, unsaved, saveTimer, sends, sincePurge>>
  PROVE  NodesInv'
<1>1. PICK n \in NextTurn(j, pc) : Start(t, n)
  OBVIOUS
<1>2. j.left \in Snapshot /\ j.forget \in BOOLEAN
  BY DEF Job
<1>3. n \in Job /\ n.pc \in {"idle", pc}
  BY <1>2, TurnType
<1>4. QED BY <1>1, <1>3, QuietStart

(***************************************************************************)
(* One step per action.  The world first, then the announcements, which    *)
(* do not touch the table.                                                 *)
(***************************************************************************)
LEMMA WorldSteps ==
  ASSUME NodesInv, MqttDisconnected \/ MqttUnsubscribed \/ LinkDrops \/ HaRestarts
  PROVE  NodesInv'
<1>1. Around'
  BY DEF NodesInv, Typed, Around, MqttDisconnected, MqttUnsubscribed, LinkDrops, HaRestarts,
         boundvars
<1>2. QED
  BY <1>1, QuietWorld DEF MqttDisconnected, MqttUnsubscribed, LinkDrops, HaRestarts, storevars

LEMMA ReadyIsIdle == ASSUME NEW t, Ready(t) PROVE job[t] = Idle /\ job[t].pc = "idle"
BY IdleType DEF Ready

LEMMA WalkSteps ==
  ASSUME NodesInv, MqttConnected \/ Republish
  PROVE  NodesInv'
<1> DEFINE j == [Idle EXCEPT !.left = table]
<1>1. j \in Job /\ "announce" \in Pcs
  BY IdleType DEF NodesInv, Typed, Job, Pcs
<1>2. Mqtt \in Tasks /\ Timer \in Tasks
  BY DEF Tasks
<1>3. Around'
  BY DEF NodesInv, Typed, Around, MqttConnected, Republish, boundvars
<1>4. UNCHANGED <<table, disk, unsaved, saveTimer, sends, sincePurge>>
  BY DEF MqttConnected, Republish, storevars
<1>5. ASSUME NEW t \in Tasks, Walk(t), Ready(t) PROVE NodesInv'
  <2>1. \E n \in NextTurn(j, "announce") : Start(t, n)
    BY <1>5 DEF Walk
  <2>2. job[t].pc = "idle"
    BY <1>5, ReadyIsIdle
  <2>3. QED
    <3> HIDE DEF j
    <3>1. QED BY <1>1, <1>3, <1>4, <2>1, <2>2, QuietTurn
<1>6. QED BY <1>2, <1>5 DEF MqttConnected, Republish

LEMMA NotifyStep == ASSUME NodesInv, Notify PROVE NodesInv'
<1> DEFINE j == job[Btc]
           told == [Idle EXCEPT !.addr = j.addr, !.node = table[j.addr],
                                !.pc = IF j.isNew THEN "announce" ELSE "decide"]
<1>1. Btc \in Tasks /\ j \in Job /\ table[j.addr] \in Nodes
  BY DEF Tasks, NodesInv, Typed, Job, Snapshot
<1>2. told \in Job /\ told.pc \in {"announce", "decide"}
  BY <1>1, IdleType DEF Job, Pcs
<1>3. Around' /\ j.pc = "notify" /\ UNCHANGED <<table, disk, unsaved, saveTimer, sends, sincePurge>>
  BY DEF NodesInv, Typed, Around, Notify, mqttvars, boundvars, storevars, At
<1>4. Start(Btc, Idle) \/ Start(Btc, told)
  BY DEF Notify
<1>5. QED
  <2> HIDE DEF told
  <2>1. QED BY <1>1, <1>2, <1>3, <1>4, IdleType, QuietStart

LEMMA DecideStep == ASSUME NodesInv, Decide PROVE NodesInv'
<1>1. Btc \in Tasks /\ "announce" \in Pcs
  BY DEF Tasks, Pcs
<1>2. Around' /\ job[Btc].pc = "decide" /\ UNCHANGED <<table, disk, unsaved, saveTimer, sends, sincePurge>>
  BY DEF NodesInv, Typed, Around, Decide, mqttvars, boundvars, storevars, At
<1>3. Goto(Btc, "announce") \/ Start(Btc, Idle)
  BY DEF Decide
<1>4. QED BY <1>1, <1>2, <1>3, IdleType, QuietStart, QuietGoto

LEMMA AnnounceStep == ASSUME NodesInv, NEW t \in Tasks, Announce(t) PROVE NodesInv'
<1> DEFINE j == job[t]
           prev == announced[j.addr]
           next == [j EXCEPT !.pc = "retract", !.old = prev]
<1>1. j \in Job /\ "retract" \in Pcs /\ "publish" \in Pcs /\ j.pc = "announce"
  BY DEF NodesInv, Typed, Pcs, Announce, At
<1>2. KindOf(j.node) \in Kinds
  BY KindType
<1>3. Around'
  BY <1>2 DEF NodesInv, Typed, Around, Announce, mqttvars, boundvars
<1>4. UNCHANGED <<table, disk, unsaved, saveTimer, sends, sincePurge>>
  BY DEF Announce, storevars
<1>5. CASE prev \in Kinds /\ Start(t, next)
  <2>1. next \in Job /\ next.pc = "retract"
    BY <1>1, <1>5 DEF Job
  <2>2. QED
    <3> HIDE DEF next
    <3>1. QED BY <1>1, <1>3, <1>4, <1>5, <2>1, QuietStart
<1>6. CASE Goto(t, "publish")
  BY <1>1, <1>3, <1>4, <1>6, QuietGoto
<1>7. QED BY <1>5, <1>6 DEF Announce

LEMMA RetractStep == ASSUME NodesInv, NEW t \in Tasks, Retract(t) PROVE NodesInv'
<1>1. /\ job[t] \in Job /\ "drop" \in Pcs /\ "publish" \in Pcs /\ job[t].pc = "retract"
      /\ job[t].old \in Kinds
  BY DEF NodesInv, Typed, Pcs, Job, Retract, At
<1>2. Around'
  BY <1>1 DEF NodesInv, Typed, Around, Retract, boundvars
<1>3. UNCHANGED <<table, disk, unsaved, saveTimer, sends, sincePurge>>
  BY DEF Retract, storevars
<1>4. CASE \E n \in NextTurn(job[t], "drop") : Start(t, n)
  BY <1>1, <1>2, <1>3, <1>4, QuietTurn
<1>5. CASE Goto(t, "publish")
  BY <1>1, <1>2, <1>3, <1>5, QuietGoto
<1>6. QED BY <1>4, <1>5 DEF Retract

LEMMA PublishStep == ASSUME NodesInv, NEW t \in Tasks, PublishDiscovery(t) PROVE NodesInv'
<1>1. job[t] \in Job /\ "announce" \in Pcs /\ job[t].pc = "publish"
  BY DEF NodesInv, Typed, Pcs, PublishDiscovery, At
<1>2. KindOf(job[t].node) \in Kinds
  BY KindType
<1>3. Around'
  BY <1>1, <1>2 DEF NodesInv, Typed, Around, PublishDiscovery, boundvars
<1>4. UNCHANGED <<table, disk, unsaved, saveTimer, sends, sincePurge>>
  BY DEF PublishDiscovery, storevars
<1>5. QED BY <1>1, <1>3, <1>4, QuietTurn DEF PublishDiscovery
LEMMA UnannounceStep == ASSUME NodesInv, NEW t \in Tasks, Unannounce(t) PROVE NodesInv'
<1> DEFINE j == job[t]
           old == IF announced[j.addr] = "none" THEN KindOf(j.node) ELSE announced[j.addr]
           next == [j EXCEPT !.pc = "retract", !.old = old]
<1>1. j \in Job /\ "drop" \in Pcs /\ "retract" \in Pcs /\ j.pc = "unannounce" /\ j.addr \in Addrs
  BY DEF NodesInv, Typed, Pcs, Job, Unannounce, At
<1>2. old \in Kinds
  BY <1>1, KindType DEF NodesInv, Typed, Around
<1>3. Around' /\ UNCHANGED <<table, disk, unsaved, saveTimer, sends, sincePurge>>
  <2> HIDE DEF old
  <2>1. lost' = lost \/ lost' = [lost EXCEPT ![j.addr] = @ \cup ({old} \cap ha[j.addr])]
    BY DEF Unannounce, old
  <2>2. lost' \in [Addrs -> SUBSET Kinds]
    BY <1>1, <1>2, <2>1 DEF NodesInv, Typed, Around
  <2>3. QED BY <2>2 DEF NodesInv, Typed, Around, Unannounce, boundvars, storevars
<1>4. CASE Start(t, next)
  <2>1. next \in Job /\ next.pc = "retract"
    BY <1>1, <1>2 DEF Job
  <2>2. QED
    <3> HIDE DEF next
    <3>1. QED BY <1>1, <1>3, <1>4, <2>1, QuietStart
<1>5. CASE \E n \in NextTurn(j, "drop") : Start(t, n)
  BY <1>1, <1>3, <1>5, QuietTurn
<1>6. QED BY <1>4, <1>5 DEF Unannounce

LEMMA ForgetSteps ==
  ASSUME NodesInv, (\E a \in Addrs : Forget(a)) \/ ForgetAll
  PROVE  NodesInv'
<1> DEFINE one(a) == [Idle EXCEPT !.pc = "drop", !.addr = a, !.forget = TRUE]
           all == [Idle EXCEPT !.forget = TRUE, !.left = table]
<1>1. Http \in Tasks /\ Btc \in Tasks /\ "drop" \in Pcs
  BY DEF Tasks, Pcs
<1>2. /\ \A a \in Addrs : one(a) \in Job /\ one(a).pc = "drop"
      /\ all \in Job
  BY IdleType DEF Job, Pcs, NodesInv, Typed
<1>3. Around'
  <2>1. forgets < scene.maxForgets /\ forgets' = forgets + 1 /\ scene' = scene
    BY DEF Forget, ForgetAll
  <2>2. scene.maxForgets \in Nat
    BY ExternalNodesAssumption DEF NodesInv, Typed, Around, Scene
  <2>3. forgets' \in 0 .. scene'.maxForgets
    BY <2>1, <2>2 DEF NodesInv, Typed, Around
  <2>4. QED BY <2>3 DEF NodesInv, Typed, Around, Forget, ForgetAll, mqttvars
<1>4. UNCHANGED <<table, disk, unsaved, saveTimer, sends, sincePurge>>
  BY DEF Forget, ForgetAll, storevars
<1>5. ASSUME NEW a \in Addrs, Forget(a) PROVE NodesInv'
  <2>1. Start(Http, one(a)) /\ job[Http].pc = "idle"
    BY <1>5, ReadyIsIdle DEF Forget
  <2>2. QED
    <3> HIDE DEF one
    <3>1. QED BY <1>1, <1>2, <1>3, <1>4, <2>1, QuietStart
<1>6. CASE ForgetAll
  <2>1. (\E n \in NextTurn(all, "drop") : Start(Btc, n)) /\ job[Btc].pc = "idle"
    BY <1>6, ReadyIsIdle DEF ForgetAll
  <2>2. QED
    <3> HIDE DEF all
    <3>1. QED BY <1>1, <1>2, <1>3, <1>4, <2>1, QuietTurn
<1>7. QED BY <1>5, <1>6

LEMMA CommandStep == ASSUME NodesInv, NEW t \in Tasks, NEW a \in Addrs, Command(t, a) PROVE NodesInv'
<1>1. PICK asked \in CommandsFor(table[a]) :
        Start(t, [Idle EXCEPT !.pc = "enqueue", !.addr = a, !.asked = asked])
  BY DEF Command
<1>2. asked \in Nodes
  BY DEF CommandsFor, Nodes, Features
<1>3. Around' /\ UNCHANGED <<table, disk, unsaved, saveTimer, sends, sincePurge>> /\ job[t].pc = "idle"
  BY ReadyIsIdle DEF NodesInv, Typed, Around, Command, mqttvars, boundvars, storevars
<1> DEFINE n == [Idle EXCEPT !.pc = "enqueue", !.addr = a, !.asked = asked]
<1>4. n \in Job /\ n.pc = "enqueue"
  BY <1>2, IdleType DEF Job, Pcs
<1>5. QED
  <2>1. Start(t, n)
    BY <1>1
  <2> HIDE DEF n
  <2>2. QED BY <1>3, <1>4, <2>1, QuietStart

(***************************************************************************)
(* Sending and hearing.                                                    *)
(***************************************************************************)
\* What a command adds to the queue may be answered from now on.
LEMMA EnqueueReplies ==
  ASSUME NodesInv, NEW a \in Addrs, NEW f \in Features, Enqueue(a, f),
         At(Btc, "upsert")' => job'[Btc] = job[Btc]
  PROVE  Replies'
<1>1. \A s \in sends' : s \in sends \/ s.addr = a
  BY DEF Enqueue
<1>2. sincePurge' = sincePurge \cup {a}
  BY DEF Enqueue
<1>3. QED BY <1>1, <1>2 DEF NodesInv, Replies, At

LEMMA TestCommandStep ==
  ASSUME NodesInv, NEW a \in Addrs, NEW f \in Features, TestCommand(a, f)
  PROVE  NodesInv'
<1>1. Enqueue(a, f) /\ UNCHANGED <<table, announced, job, mqttvars, storevars, boundvars>>
  BY DEF TestCommand
<1>2. sends' \subseteq Send /\ OneOrphan' /\ sincePurge' \subseteq Addrs
  BY <1>1, EnqueueType DEF NodesInv
<1>3. Typed'
  BY <1>1, <1>2 DEF NodesInv, Typed, Around, mqttvars, storevars, boundvars
<1>4. Saved'
  BY <1>1 DEF NodesInv, Saved, SavedUnlessPending, OneOfBoth, At, storevars
<1>5. Replies'
  BY <1>1, EnqueueReplies
<1>6. QED BY <1>3, <1>4, <1>5 DEF NodesInv

LEMMA QueueCommandStep == ASSUME NodesInv, NEW t \in Tasks, QueueCommand(t) PROVE NodesInv'
<1> DEFINE j == job[t]
           next(f) == [j EXCEPT !.asked = @ \ {f}]
<1>1. j \in Job /\ j.pc = "enqueue" /\ j.addr \in Addrs /\ j.asked \subseteq Features
  BY DEF NodesInv, Typed, Job, Nodes, QueueCommand, At
<1>2. PICK f \in j.asked : Enqueue(j.addr, f) /\ (Start(t, Idle) \/ Start(t, next(f)))
  BY DEF QueueCommand
<1>3. UNCHANGED <<table, announced, mqttvars, storevars, boundvars>>
  BY DEF QueueCommand
<1>4. Went(t, {"idle", "enqueue"})
  <2>1. next(f) \in Job /\ next(f).pc = "enqueue"
    BY <1>1 DEF Job, Nodes
  <2>2. QED
    <3> HIDE DEF next
    <3>1. QED BY <1>2, <2>1, IdleType, StartWent DEF NodesInv, Went
<1>5. sends' \subseteq Send /\ OneOrphan' /\ sincePurge' \subseteq Addrs
  BY <1>1, <1>2, EnqueueType DEF NodesInv
<1>6. Typed'
  BY <1>3, <1>4, <1>5 DEF NodesInv, Typed, Around, Went, mqttvars, storevars, boundvars
<1>7. Saved'
  BY <1>1, <1>3, <1>4, SavedMove DEF storevars
<1>8. Replies'
  <2>1. At(Btc, "upsert")' => job'[Btc] = job[Btc]
    BY <1>4 DEF Went, At, Tasks
  <2>2. QED BY <1>1, <1>2, <2>1, EnqueueReplies
<1>9. QED BY <1>6, <1>7, <1>8 DEF NodesInv

LEMMA HearStatusStep ==
  ASSUME NodesInv, NEW a \in Addrs, NEW f \in Features, HearStatus(a, f)
  PROVE  NodesInv'
<1> DEFINE n == [Idle EXCEPT !.pc = "upsert", !.addr = a, !.feature = f]
<1>1. Btc \in Tasks /\ job[Btc].pc = "idle" /\ Start(Btc, n)
  BY ReadyIsIdle DEF Tasks, HearStatus
<1>2. n \in Job /\ n.pc = "upsert" /\ ~n.reply
  BY IdleType DEF Job, Pcs
<1>3. Went(Btc, {"upsert"}) /\ job'[Btc] = n
  BY <1>1, <1>2, StartWent DEF NodesInv
<1>4. UNCHANGED <<table, sends, announced, mqttvars, storevars, boundvars, sincePurge>>
  BY DEF HearStatus
<1> HIDE DEF n
<1>5. Typed'
  BY <1>3, <1>4 DEF NodesInv, Typed, OneOrphan, Around, Went, mqttvars, storevars, boundvars
<1>6. Saved'
  BY <1>1, <1>3, <1>4, SavedMove DEF storevars
<1>7. Replies'
  BY <1>2, <1>3, <1>4 DEF NodesInv, Replies
<1>8. QED BY <1>5, <1>6, <1>7 DEF NodesInv

LEMMA HearReplyStep == ASSUME NodesInv, NEW s \in sends, HearReply(s) PROVE NodesInv'
<1> DEFINE n == [Idle EXCEPT !.pc = "upsert", !.addr = s.addr, !.feature = s.feature,
                             !.reply = TRUE]
<1>1. Btc \in Tasks /\ job[Btc].pc = "idle" /\ sends' = sends \ {s}
  BY ReadyIsIdle DEF Tasks, HearReply
<1>2. n \in Job /\ n.pc = "upsert" /\ n.addr = s.addr
  BY IdleType DEF Job, Pcs, NodesInv, Typed, Send
<1>3. Start(Btc, IF s.orphaned THEN Idle ELSE n)
  BY DEF HearReply
<1> HIDE DEF n
<1>4. Went(Btc, {"idle", "upsert"}) /\ job'[Btc] = IF s.orphaned THEN Idle ELSE n
  <2> DEFINE m == IF s.orphaned THEN Idle ELSE n
  <2>1. m \in Job /\ m.pc \in {"idle", "upsert"} /\ Start(Btc, m)
    BY <1>2, <1>3, IdleType
  <2> HIDE DEF m
  <2>2. Went(Btc, {m.pc}) /\ job'[Btc] = m
    BY <1>1, <2>1, StartWent DEF NodesInv
  <2>3. QED BY <2>1, <2>2 DEF Went, m
<1>5. UNCHANGED <<table, announced, mqttvars, storevars, boundvars, sincePurge>>
  BY DEF HearReply
<1>6. Typed'
  BY <1>1, <1>4, <1>5 DEF NodesInv, Typed, OneOrphan, Around, Went, mqttvars, storevars, boundvars
<1>7. Saved'
  BY <1>1, <1>4, <1>5, SavedMove DEF storevars
<1>8. Replies'
  BY <1>1, <1>2, <1>4, <1>5, IdleType DEF NodesInv, Replies, At
<1>9. QED BY <1>6, <1>7, <1>8 DEF NodesInv

LEMMA SendGivenUpStep == ASSUME NodesInv, NEW s \in sends, SendGivenUp(s) PROVE NodesInv'
<1>1. /\ sends' = sends \ {s}
      /\ UNCHANGED <<table, announced, job, mqttvars, storevars, boundvars, sincePurge>>
  BY DEF SendGivenUp
<1>2. Typed'
  BY <1>1 DEF NodesInv, Typed, OneOrphan, Around, mqttvars, storevars, boundvars
<1>3. Saved'
  BY <1>1 DEF NodesInv, Saved, SavedUnlessPending, OneOfBoth, At, storevars
<1>4. Replies'
  BY <1>1 DEF NodesInv, Replies, At
<1>5. QED BY <1>2, <1>3, <1>4 DEF NodesInv
LEMMA HeardKeeps ==
  ASSUME NodesInv, NEW a \in Addrs, NEW f \in Features,
         table' = [table EXCEPT ![a] = Heard(table[a], f)],
         f = "level" => "light" \notin table[a]
  PROVE  /\ table' \in Snapshot /\ OneOfBoth(table')
         /\ f \in table[a] => table' = table
<1>1. table[a] \in Nodes /\ table \in Snapshot
  BY DEF NodesInv, Typed, Snapshot
<1>2. Heard(table[a], f) \in Nodes
  BY <1>1, HeardType
<1>3. ~({"level", "light"} \subseteq table[a])
  BY DEF NodesInv, Saved, OneOfBoth
<1>4. ~({"level", "light"} \subseteq Heard(table[a], f))
  BY <1>1, <1>3 DEF Heard, Nodes, Features
<1>5. f \in table[a] => Heard(table[a], f) = table[a]
  BY <1>1, <1>3 DEF Heard, Nodes, Features
<1>6. table' \in Snapshot
  BY <1>1, <1>2 DEF Snapshot
<1>7. OneOfBoth(table')
  BY <1>1, <1>4 DEF NodesInv, Saved, OneOfBoth, Snapshot
<1>8. f \in table[a] => table' = table
  BY <1>1, <1>5 DEF Snapshot
<1>9. QED BY <1>6, <1>7, <1>8

LEMMA UpsertStep == ASSUME NodesInv, Upsert PROVE NodesInv'
<1> DEFINE j == job[Btc]
           n(new) == [Idle EXCEPT !.addr = j.addr, !.isNew = new,
                                  !.pc = IF ~new THEN "notify"
                                         ELSE IF j.feature = "light" THEN "rangeGet"
                                         ELSE "mark"]
<1>1. Btc \in Tasks /\ j \in Job /\ j.pc = "upsert" /\ j.addr \in Addrs /\ j.feature \in Features
  BY DEF Tasks, NodesInv, Typed, Job, Upsert, At
<1>2. UNCHANGED <<sends, announced, mqttvars, storevars, boundvars, sincePurge>>
  BY DEF Upsert
<1>3. CASE Start(Btc, Idle) /\ UNCHANGED table
  <2>1. Around'
    BY <1>2 DEF NodesInv, Typed, Around, mqttvars, boundvars
  <2>2. QED BY <1>1, <1>2, <1>3, <2>1, IdleType, QuietStart DEF storevars
<1>4. CASE /\ j.feature = "level" => "light" \notin table[j.addr]
           /\ table' = [table EXCEPT ![j.addr] = Heard(table[j.addr], j.feature)]
           /\ \E new \in {j.feature = "range" \/ j.feature \notin table[j.addr]}
                         \cup (IF j.feature = "light" THEN {TRUE} ELSE {}) :
                Start(Btc, n(new))
  <2>1. PICK new \in BOOLEAN : /\ Start(Btc, n(new))
                               /\ j.feature \notin table[j.addr] => new
    BY <1>4
  <2>2. /\ table' \in Snapshot /\ OneOfBoth(table')
        /\ j.feature \in table[j.addr] => table' = table
    BY <1>1, <1>4, HeardKeeps
  <2>3. n(new) \in Job /\ n(new).pc = IF ~new THEN "notify"
                                      ELSE IF j.feature = "light" THEN "rangeGet" ELSE "mark"
    BY <1>1, IdleType DEF Job, Pcs
  <2> HIDE DEF n
  <2>4. Went(Btc, {n(new).pc}) /\ job'[Btc] = n(new)
    BY <1>1, <2>1, <2>3, StartWent DEF NodesInv
  <2>5. Typed'
    BY <1>2, <2>2, <2>4 DEF NodesInv, Typed, OneOrphan, Around, Went, mqttvars, storevars, boundvars
  <2>6. CASE new
    <3>1. At(Btc, "rangeGet")' \/ At(Btc, "mark")'
      BY <2>3, <2>4, <2>6 DEF At
    <3>2. At(Timer, "write")' => job'[Timer] = job[Timer]
      BY <3>1, <2>4 DEF Went, At, Tasks
    <3>3. Saved'
      BY <1>1, <1>2, <2>2, <3>1, <3>2 DEF NodesInv, Saved, SavedUnlessPending, OneOfBoth, At, storevars
    <3>4. Replies'
      <4>1. "upsert" \notin {n(new).pc}
        BY <2>3, <2>6
      <4>2. QED BY <1>1, <1>2, <2>4, <4>1, RepliesMove
    <3>5. QED BY <2>5, <3>3, <3>4 DEF NodesInv
  <2>7. CASE ~new
    <3>1. table' = table
      BY <2>1, <2>2, <2>7
    <3>2. n(new).pc = "notify"
      BY <2>3, <2>7
    <3>3. Around'
      BY <1>2 DEF NodesInv, Typed, Around, mqttvars, boundvars
    <3>4. QED BY <1>1, <1>2, <2>4, <3>1, <3>2, <3>3, QuietMove DEF storevars
  <2>8. QED BY <2>6, <2>7
<1>5. QED BY <1>3, <1>4 DEF Upsert

LEMMA RangeGetStep == ASSUME NodesInv, RangeGet PROVE NodesInv'
<1>1. Btc \in Tasks /\ "mark" \in Pcs /\ job[Btc].addr \in Addrs /\ "range" \in Features
  BY DEF Tasks, Pcs, NodesInv, Typed, Job, Features
<1>2. /\ Enqueue(job[Btc].addr, "range")
      /\ UNCHANGED <<table, announced, mqttvars, storevars, boundvars>>
  BY DEF RangeGet
<1>3. Went(Btc, {"mark"})
  BY <1>1, GotoWent DEF RangeGet, NodesInv
<1>4. sends' \subseteq Send /\ OneOrphan' /\ sincePurge' \subseteq Addrs
  BY <1>1, <1>2, EnqueueType DEF NodesInv
<1>5. Typed'
  BY <1>2, <1>3, <1>4 DEF NodesInv, Typed, Around, Went, mqttvars, storevars, boundvars
<1>6. At(Btc, "mark")' /\ (At(Timer, "write")' => job'[Timer] = job[Timer])
  BY <1>3 DEF Went, At, Tasks
<1>7. Saved'
  BY <1>1, <1>2, <1>6 DEF NodesInv, Saved, SavedUnlessPending, OneOfBoth, At, storevars
<1>8. Replies'
  BY <1>1, <1>2, <1>6, EnqueueReplies DEF At
<1>9. QED BY <1>5, <1>7, <1>8 DEF NodesInv

LEMMA MarkDirtyStep == ASSUME NodesInv, NEW t \in Tasks, MarkDirty(t) PROVE NodesInv'
<1>1. saveTimer' = TRUE /\ UNCHANGED <<table, sends, announced, mqttvars, disk, unsaved, boundvars, sincePurge>>
  BY DEF MarkDirty
<1>2. Went(t, {"unannounce", "notify"})
  <2>1. "unannounce" \in Pcs /\ "notify" \in Pcs
    BY DEF Pcs
  <2>2. Goto(t, "unannounce") \/ Goto(t, "notify")
    BY DEF MarkDirty
  <2>3. QED BY <2>1, <2>2, GotoWent DEF NodesInv, Went
<1>3. Typed'
  BY <1>1, <1>2 DEF NodesInv, Typed, OneOrphan, Around, Went, mqttvars, boundvars
<1>4. At(Timer, "write")' => job'[Timer] = job[Timer]
  BY <1>2 DEF Went, At, Tasks
<1>5. Saved'
  BY <1>1, <1>4 DEF NodesInv, Saved, SavedUnlessPending, OneOfBoth, At
<1>6. Replies'
  BY <1>1, <1>2, RepliesMove
<1>7. QED BY <1>3, <1>5, <1>6 DEF NodesInv

(***************************************************************************)
(* Forgetting.                                                             *)
(***************************************************************************)
LEMMA DropPendingStep == ASSUME NodesInv, NEW t \in Tasks, DropPending(t) PROVE NodesInv'
<1> DEFINE a == job[t].addr
<1>1. a \in Addrs /\ job[t].pc = "drop" /\ "erase" \in Pcs
  BY DEF NodesInv, Typed, Job, DropPending, At, Pcs
<1>2. /\ sends' \in Purged(a) /\ UNCHANGED <<table, announced, mqttvars, storevars, boundvars>>
      /\ sincePurge' = IF ReplyTaken(a) THEN sincePurge \cup {a} ELSE sincePurge \ {a}
  BY DEF DropPending
<1>3. /\ sends' \subseteq Send /\ OneOrphan'
      /\ \A s \in sends' : s.orphaned \/ (s \in sends /\ s.addr # a)
  BY <1>1, <1>2, PurgedType DEF NodesInv, OneOrphan
<1>4. Went(t, {"erase"})
  BY <1>1, GotoWent DEF DropPending, NodesInv
<1>5. Typed'
  BY <1>1, <1>2, <1>3, <1>4 DEF NodesInv, Typed, Around, Went, mqttvars, storevars, boundvars
<1>6. Saved'
  BY <1>1, <1>2, <1>4, SavedMove DEF storevars
<1>7. Replies'
  <2>1. \A s \in sends' : s.orphaned \/ s.addr \in sincePurge'
    BY <1>2, <1>3 DEF NodesInv, Replies
  <2>2. ASSUME At(Btc, "upsert")', job'[Btc].reply PROVE job'[Btc].addr \in sincePurge'
    <3>1. job'[Btc] = job[Btc]
      BY <1>4, <2>2 DEF Went, At, Tasks
    <3>2. At(Btc, "upsert") /\ job[Btc].reply /\ job[Btc].addr \in sincePurge
      BY <2>2, <3>1 DEF NodesInv, Replies, At
    <3>3. job[Btc].addr = a => ReplyTaken(a)
      BY <3>2 DEF ReplyTaken
    <3>4. QED BY <1>2, <3>1, <3>2, <3>3
  <2>3. QED BY <2>1, <2>2 DEF Replies
<1>8. QED BY <1>5, <1>6, <1>7 DEF NodesInv

LEMMA EraseStep == ASSUME NodesInv, NEW t \in Tasks, Erase(t) PROVE NodesInv'
<1> DEFINE j == job[t]
           n == [j EXCEPT !.node = table[j.addr], !.pc = "mark"]
<1>1. j \in Job /\ j.addr \in Addrs /\ j.pc = "erase" /\ "drop" \in Pcs /\ table \in Snapshot
  BY DEF NodesInv, Typed, Job, Erase, At, Pcs
<1>2. UNCHANGED <<sends, announced, mqttvars, storevars, boundvars, sincePurge>>
  BY DEF Erase
<1>3. Around'
  BY <1>2 DEF NodesInv, Typed, Around, mqttvars, boundvars
<1>4. CASE (\E m \in NextTurn(j, "drop") : Start(t, m)) /\ UNCHANGED table
  BY <1>1, <1>2, <1>3, <1>4, QuietTurn DEF storevars
<1>5. CASE table' = [table EXCEPT ![j.addr] = Unknown] /\ Start(t, n)
  <2>1. n \in Job /\ n.pc = "mark"
    BY <1>1 DEF Job, Pcs, Snapshot
  <2> HIDE DEF n
  <2>2. Went(t, {"mark"})
    BY <1>5, <2>1, StartWent DEF NodesInv
  <2>3. table' \in Snapshot /\ OneOfBoth(table')
    BY <1>1, <1>5 DEF Snapshot, Nodes, Unknown, NodesInv, Saved, OneOfBoth
  <2>4. Typed'
    BY <1>2, <1>3, <2>2, <2>3 DEF NodesInv, Typed, OneOrphan, Went, storevars
  <2>5. At(t, "mark")' /\ (At(Timer, "write")' => job'[Timer] = job[Timer])
    BY <2>2 DEF Went, At, Tasks
  <2>6. Saved'
    BY <1>2, <2>3, <2>5 DEF NodesInv, Saved, SavedUnlessPending, OneOfBoth, At, storevars
  <2>7. Replies'
    BY <1>2, <2>2, RepliesMove
  <2>8. QED BY <2>4, <2>6, <2>7 DEF NodesInv
<1>6. QED BY <1>4, <1>5 DEF Erase

(***************************************************************************)
(* Saving.                                                                 *)
(***************************************************************************)
LEMMA SaveFiresStep == ASSUME NodesInv, SaveFires PROVE NodesInv'
<1> DEFINE n == [Idle EXCEPT !.pc = "write", !.left = table]
<1>1. Timer \in Tasks /\ Start(Timer, n) /\ saveTimer' = FALSE
  BY DEF Tasks, SaveFires
<1>2. n \in Job /\ n.pc = "write" /\ n.left = table
  BY IdleType DEF Job, Pcs, NodesInv, Typed
<1> HIDE DEF n
<1>3. Went(Timer, {"write"}) /\ job'[Timer] = n
  BY <1>1, <1>2, StartWent DEF NodesInv
<1>4. UNCHANGED <<table, sends, announced, mqttvars, disk, unsaved, boundvars, sincePurge>>
  BY DEF SaveFires
<1>5. Typed'
  BY <1>1, <1>3, <1>4 DEF NodesInv, Typed, OneOrphan, Around, Went, mqttvars, boundvars
<1>6. Saved'
  BY <1>2, <1>3, <1>4 DEF NodesInv, Saved, SavedUnlessPending, OneOfBoth, At
<1>7. Replies'
  BY <1>1, <1>3, <1>4, RepliesMove
<1>8. QED BY <1>5, <1>6, <1>7 DEF NodesInv

\* Flash holds the copy then, or lost it.
LEMMA WriteStep == ASSUME NodesInv, WriteToFlash \/ WriteRefused PROVE NodesInv'
<1>1. /\ Timer \in Tasks /\ At(Timer, "write") /\ job[Timer].left \in Snapshot
      /\ disk' = job[Timer].left \/ (unsaved' /\ disk' = disk)
      /\ unsaved' \in BOOLEAN /\ (unsaved' \/ disk' = job[Timer].left)
  BY DEF Tasks, WriteToFlash, WriteRefused, NodesInv, Typed, Job
<1>2. Went(Timer, {"idle"})
  BY <1>1, IdleType, StartWent DEF NodesInv, WriteToFlash, WriteRefused
<1>3. UNCHANGED <<table, sends, announced, mqttvars, saveTimer, boundvars, sincePurge>>
  BY DEF WriteToFlash, WriteRefused
<1>4. Typed'
  BY <1>1, <1>2, <1>3 DEF NodesInv, Typed, OneOrphan, Around, Went, mqttvars, boundvars
<1>5. SavedUnlessPending'
  <2>1. ASSUME NEW u \in Tasks, At(u, "mark") \/ At(u, "rangeGet") PROVE SavedUnlessPending'
    <3>1. job'[u] = job[u]
      BY <1>1, <1>2, <2>1 DEF Went, At
    <3>2. QED BY <2>1, <3>1 DEF SavedUnlessPending, At
  <2>2. ~At(Timer, "write")'
    BY <1>2 DEF Went, At
  <2>3. QED BY <1>1, <1>3, <2>1, <2>2 DEF NodesInv, Saved, SavedUnlessPending
<1>6. Saved'
  <2>1. ~At(Timer, "write")'
    BY <1>2 DEF Went, At
  <2>2. QED BY <1>1, <1>3, <1>5, <2>1 DEF NodesInv, Saved, OneOfBoth
<1>7. Replies'
  BY <1>1, <1>2, <1>3, RepliesMove
<1>8. QED BY <1>4, <1>6, <1>7 DEF NodesInv

LEMMA RestartStep == ASSUME NodesInv, Restart PROVE NodesInv'
<1>1. crashes' \in 0 .. MaxCrashes
  BY ExternalNodesAssumption DEF Restart, NodesInv, Typed, Around
<1>2. job' \in [Tasks -> Job] /\ \A t \in Tasks : job'[t].pc = "idle"
  BY IdleType DEF Restart
<1>0. [a \in Addrs |-> Unknown] \in Snapshot /\ OneOfBoth([a \in Addrs |-> Unknown])
  BY DEF Snapshot, Unknown, Nodes, OneOfBoth
<1>3. Typed'
  BY <1>0, <1>1, <1>2 DEF Restart, NodesInv, Typed, OneOrphan, Around
<1>4. Timer \in Tasks /\ Btc \in Tasks
  BY DEF Tasks
<1>5. Saved'
  <2>1. OneOfBoth(table') /\ OneOfBoth(disk')
    BY <1>0 DEF Restart, NodesInv, Saved
  <2>2. OneOfBoth(table)' /\ OneOfBoth(disk)'
    BY <2>1 DEF OneOfBoth
  <2>3. SavedUnlessPending'
    BY <1>2, <1>4 DEF Restart, SavedUnlessPending, At
  <2>4. QED BY <1>2, <1>4, <2>2, <2>3 DEF Saved, At
<1>6. Replies'
  BY <1>2, <1>4 DEF Restart, Replies, At
<1>7. QED BY <1>3, <1>5, <1>6 DEF NodesInv

LEMMA InitNodes == Init => NodesInv
<1> SUFFICES ASSUME Init PROVE NodesInv
  OBVIOUS
<1>1. Typed
  <2>1. \A s \in Scenes : s.maxForgets \in Nat
    BY ExternalNodesAssumption DEF Scene
  <2>2. table \in Snapshot /\ disk \in Snapshot
    BY DEF Init, Snapshot, Nodes, Unknown
  <2>3. Around
    <3>1. announced \in [Addrs -> Kinds \cup {"none"}]
      BY DEF Init
    <3>2. ha \in [Addrs -> SUBSET Kinds] /\ lost \in [Addrs -> SUBSET Kinds]
      BY DEF Init
    <3>3. scene \in Scenes /\ forgets \in 0 .. scene.maxForgets /\ crashes \in 0 .. MaxCrashes
      BY <2>1, ExternalNodesAssumption DEF Init
    <3>4. {connected, link, unsubAck, haAsked} \subseteq BOOLEAN
      BY DEF Init
    <3>5. QED BY <3>1, <3>2, <3>3, <3>4 DEF Around
  <2>4. QED BY <2>2, <2>3, IdleType DEF Init, Typed, OneOrphan
<1>2. \A t \in Tasks : job[t].pc = "idle"
  BY IdleType DEF Init
<1>3. Timer \in Tasks /\ Btc \in Tasks
  BY DEF Tasks
<1>4. Saved
  BY <1>2, <1>3 DEF Init, Saved, SavedUnlessPending, OneOfBoth, Unknown, At
<1>5. Replies
  BY <1>2, <1>3 DEF Init, Replies, At
<1>6. QED BY <1>1, <1>4, <1>5 DEF NodesInv

LEMMA NextNodes == NodesInv /\ [Next]_vars => NodesInv'
<1> SUFFICES ASSUME NodesInv, [Next]_vars PROVE NodesInv'
  OBVIOUS
<1>1. CASE UNCHANGED vars
  BY <1>1, QuietWorld DEF vars, mqttvars, storevars, boundvars, NodesInv, Typed, Around
<1>2. CASE Next
  BY <1>2, WorldSteps, WalkSteps, NotifyStep, DecideStep, AnnounceStep, RetractStep, PublishStep,
     UnannounceStep, ForgetSteps, CommandStep, TestCommandStep, QueueCommandStep,
     HearStatusStep, HearReplyStep, SendGivenUpStep, UpsertStep, RangeGetStep, MarkDirtyStep,
     DropPendingStep, EraseStep, SaveFiresStep, WriteStep, RestartStep
  DEF Next
<1>3. QED BY <1>1, <1>2

(***************************************************************************)
(* What Home Assistant has, while handlers do not overlap.                 *)
(***************************************************************************)
Announcing(j) == ~j.forget /\ j.pc \in {"announce", "retract", "publish"}

\* Handler j will still announce a: it is a's turn, or a is left of the walk.
Owes(j, a) ==
  \/ Announcing(j) /\ (j.addr = a \/ j.left[a] # Unknown)
  \/ ~j.forget /\ j.addr = a /\ (j.pc \in {"rangeGet", "mark"} \/ (j.pc = "notify" /\ j.isNew))

Settled(a) ==
  table[a] # Unknown /\ connected =>
    /\ announced[a] = KindOf(table[a])
    /\ link => haAsked \/ KindOf(table[a]) \in ha[a]

\* No entity but of the kind last announced, and the one being removed.
Only(j, a) ==
  ha[a] \ lost[a] \subseteq
    {announced[a]} \cup (IF j.pc = "retract" /\ j.addr = a THEN {j.old} ELSE {})

\* A node not known has no entity announced, except while it is being forgotten.
Gone(j, a) ==
  table[a] = Unknown =>
    announced[a] = "none" \/ (j.forget /\ j.addr = a /\ j.pc \in {"mark", "unannounce"})

\* What a handler knows at its next step: its copies of nodes are the table's.
Turn(j) ==
  /\ j.pc \in {"drop", "erase", "unannounce"} => j.forget
  /\ j.pc \in {"rangeGet", "notify", "decide", "announce", "publish"} => ~j.forget
  /\ j.pc = "rangeGet" \/ (j.pc = "mark" /\ ~j.forget) => j.isNew
  /\ j.pc = "decide" \/ Announcing(j) => j.node = table[j.addr] /\ j.node # Unknown
  /\ j.pc = "decide" \/ Announcing(j) => \A a \in Addrs : j.left[a] \in {Unknown, table[a]}
  /\ Announcing(j) /\ j.pc # "announce" => announced[j.addr] = KindOf(j.node)
  /\ Announcing(j) /\ j.pc = "retract" => j.old # KindOf(j.node)
  /\ j.forget /\ j.pc \in {"mark", "unannounce", "retract"} => table[j.addr] = Unknown

Fits(j) ==
  /\ Turn(j)
  /\ \A a \in Addrs : (Owes(j, a) \/ Settled(a)) /\ Only(j, a) /\ Gone(j, a)

Alone(t) == \A u \in Tasks \ {t} : job[u] = Idle

Shown == scene.overlap \/ \E t \in Tasks : Alone(t) /\ Fits(job[t])

\* What it is about, the jobs apart.
showvars == <<table, announced, connected, link, ha, haAsked, lost>>

\* Handlers at these steps owe nothing.
Calm == {"idle", "upsert", "drop", "erase", "enqueue", "write"}

AtRest == \A a \in Addrs : /\ Settled(a) /\ ha[a] \ lost[a] \subseteq {announced[a]}
                           /\ table[a] = Unknown => announced[a] = "none"

LEMMA CalmFits ==
  ASSUME NEW n, n.pc \in Calm, n.pc \in {"drop", "erase"} => n.forget
  PROVE  (Fits(n) <=> AtRest) /\ (Fits(n)' <=> AtRest')
BY DEF Calm, Fits, Turn, Announcing, Owes, Only, Gone, AtRest

LEMMA FitsStutter == ASSUME NEW n, Fits(n), UNCHANGED showvars PROVE Fits(n)'
BY DEF Fits, Turn, Announcing, Owes, Settled, Only, Gone, showvars

LEMMA CalmStutter == ASSUME AtRest, UNCHANGED showvars PROVE AtRest'
BY DEF AtRest, Settled, showvars

\* Whoever is not idle is the only one.
LEMMA OnlyOne ==
  ASSUME Shown, ~scene.overlap, NEW t \in Tasks, job[t] # Idle \/ Ready(t)
  PROVE  Alone(t) /\ Fits(job[t])
BY DEF Shown, Alone, Ready

LEMMA NotIdle ==
  ASSUME NEW t, NEW pc \in Pcs \ {"idle"}, At(t, pc)
  PROVE  job[t] # Idle
BY IdleType DEF At

LEMMA Handed ==
  ASSUME NodesInv, NEW t \in Tasks, Alone(t), NEW n, Start(t, n), Fits(n)'
  PROVE  Shown'
<1>1. job'[t] = n /\ \A u \in Tasks \ {t} : job'[u] = job[u]
  BY DEF Start, NodesInv, Typed
<1>2. Alone(t)'
  BY <1>1 DEF Alone
<1>3. Fits(job[t])'
  BY <1>1 DEF Fits, Turn, Announcing, Owes, Settled, Only, Gone
<1>4. QED BY <1>2, <1>3 DEF Shown

\* A handler that goes from one step that owes nothing to another.
LEMMA CalmMove ==
  ASSUME NodesInv, Shown, ~scene.overlap, NEW t \in Tasks, NEW n, Start(t, n),
         Ready(t) \/ (job[t] # Idle /\ job[t].pc \in Calm), n.pc \in Calm,
         n.pc \in {"drop", "erase"} => n.forget, UNCHANGED showvars
  PROVE  Shown'
<1>1. Alone(t) /\ Fits(job[t])
  BY OnlyOne
<1>2. job[t].pc \in Calm
  BY ReadyIsIdle DEF Calm
<1>3. AtRest
  <2>1. job[t].pc \in {"drop", "erase"} => job[t].forget
    BY <1>1 DEF Fits, Turn
  <2>2. QED BY <1>1, <1>2, <2>1, CalmFits
<1>4. Fits(n)'
  BY <1>3, CalmStutter, CalmFits
<1>5. QED BY <1>1, <1>4, Handed

\* A handler whose step changes nothing but its own place.
LEMMA FitMove ==
  ASSUME NodesInv, Shown, ~scene.overlap, NEW t \in Tasks, job[t] # Idle \/ Ready(t),
         NEW n, Start(t, n), Fits(job[t]) => Fits(n), UNCHANGED showvars
  PROVE  Shown'
BY OnlyOne, FitsStutter, Handed

\* The next turn: the node is taken from the copy, the rest stays.
LEMMA TurnTaken ==
  ASSUME NEW j \in Job, NEW pc \in Pcs, NEW n \in NextTurn(j, pc)
  PROVE  \/ n = Idle /\ \A a \in Addrs : j.left[a] = Unknown
         \/ /\ n.pc = pc /\ n.forget = j.forget /\ ~n.isNew
            /\ n.addr \in Addrs /\ n.node = j.left[n.addr] /\ n.node # Unknown
            /\ n.left = [j.left EXCEPT ![n.addr] = Unknown]
<1> DEFINE rest == {a \in Addrs : j.left[a] # Unknown}
<1>1. CASE rest = {}
  BY <1>1 DEF NextTurn
<1>2. CASE rest # {}
  <2>1. PICK a \in rest :
          n = [Idle EXCEPT !.pc = pc, !.addr = a, !.node = j.left[a], !.forget = j.forget,
                           !.left = [j.left EXCEPT ![a] = Unknown]]
    BY <1>2 DEF NextTurn
  <2>2. QED BY <2>1 DEF Idle
<1>3. QED BY <1>1, <1>2

LEMMA ForgetTurn ==
  ASSUME NodesInv, Shown, ~scene.overlap, NEW t \in Tasks, NEW j \in Job, j.forget,
         \E n \in NextTurn(j, "drop") : Start(t, n), Alone(t), AtRest'
  PROVE  Shown'
<1>1. PICK n \in NextTurn(j, "drop") : Start(t, n)
  OBVIOUS
<1>2. "drop" \in Pcs
  BY DEF Pcs
<1>3. n.pc \in Calm /\ (n.pc \in {"drop", "erase"} => n.forget)
  BY <1>2, TurnTaken, IdleType DEF Calm
<1>4. QED BY <1>1, <1>3, CalmFits, Handed

\* Walking on: whatever is not left is settled.
LEMMA WalkTurn ==
  ASSUME NodesInv, NEW t \in Tasks, Alone(t), NEW j \in Job, ~j.forget,
         \E n \in NextTurn(j, "announce") : Start(t, n),
         \A a \in Addrs : /\ j.left[a] \in {Unknown, table'[a]}
                          /\ j.left[a] # Unknown \/ Settled(a)'
                          /\ ha'[a] \ lost'[a] \subseteq {announced'[a]}
                          /\ table'[a] = Unknown => announced'[a] = "none"
  PROVE  Shown'
<1>1. PICK n \in NextTurn(j, "announce") : Start(t, n)
  OBVIOUS
<1>2. "announce" \in Pcs /\ j.left \in [Addrs -> Nodes]
  BY DEF Pcs, Job, Snapshot
<1>3. CASE n = Idle /\ \A a \in Addrs : j.left[a] = Unknown
  <2>1. AtRest'
    BY <1>3 DEF AtRest
  <2>2. QED BY <1>1, <1>3, <2>1, IdleType, CalmFits, Handed DEF Calm
<1>4. CASE /\ n.pc = "announce" /\ n.forget = j.forget /\ ~n.isNew
           /\ n.addr \in Addrs /\ n.node = j.left[n.addr] /\ n.node # Unknown
           /\ n.left = [j.left EXCEPT ![n.addr] = Unknown]
  <2>1. Announcing(n) /\ \A a \in Addrs : n.left[a] \in {Unknown, j.left[a]}
    BY <1>2, <1>4 DEF Announcing
  <2>2. \A a \in Addrs : j.left[a] # Unknown => Owes(n, a)
    BY <1>2, <1>4, <2>1 DEF Owes
  <2>3. Turn(n)'
    BY <1>4, <2>1 DEF Turn, Announcing
  <2>4. \A a \in Addrs : Only(n, a)' /\ Gone(n, a)' /\ (Owes(n, a)' <=> Owes(n, a))
    BY <1>4 DEF Only, Gone, Owes, Announcing
  <2>5. Fits(n)'
    BY <2>2, <2>3, <2>4 DEF Fits
  <2>6. QED BY <1>1, <2>5, Handed
<1>5. QED BY <1>2, <1>3, <1>4, TurnTaken

(***************************************************************************)
(* One step per action: the world, the steps that owe nothing, and the     *)
(* turns of a node from hearing of it to its entity.                       *)
(***************************************************************************)
LEMMA ShownStutter == ASSUME Shown, UNCHANGED <<showvars, job, scene>> PROVE Shown'
BY DEF Shown, Alone, showvars, Fits, Turn, Announcing, Owes, Settled, Only, Gone

LEMMA ShownWorld ==
  ASSUME NodesInv, Shown, MqttDisconnected \/ MqttUnsubscribed \/ LinkDrops \/ HaRestarts
  PROVE  Shown'
<1>1. UNCHANGED <<table, announced, job, scene>>
  BY DEF MqttDisconnected, MqttUnsubscribed, LinkDrops, HaRestarts, boundvars
<1>2. \/ UNCHANGED <<ha, lost, haAsked>>
      \/ haAsked' /\ \A a \in Addrs : ha'[a] = {} /\ lost'[a] = {}
  BY DEF MqttDisconnected, MqttUnsubscribed, LinkDrops, HaRestarts
<1>3. (connected' => connected) /\ (link' => link)
  BY DEF MqttDisconnected, MqttUnsubscribed, LinkDrops, HaRestarts
<1>4. ASSUME NEW t \in Tasks, Fits(job[t]) PROVE Fits(job[t])'
  <2>1. Turn(job[t])'
    BY <1>1, <1>4 DEF Fits, Turn, Announcing
  <2>2. ASSUME NEW a \in Addrs, Owes(job[t], a) PROVE Owes(job[t], a)'
    BY <1>1, <2>2 DEF Owes, Announcing
  <2>3. ASSUME NEW a \in Addrs, Settled(a) PROVE Settled(a)'
    BY <1>1, <1>2, <1>3, <2>3 DEF Settled
  <2>4. ASSUME NEW a \in Addrs, Only(job[t], a), Gone(job[t], a)
        PROVE  Only(job[t], a)' /\ Gone(job[t], a)'
    BY <1>1, <1>2, <2>4 DEF Only, Gone
  <2>5. QED BY <1>4, <2>1, <2>2, <2>3, <2>4 DEF Fits
<1>5. QED BY <1>1, <1>4 DEF Shown, Alone

LEMMA ShownCalm ==
  ASSUME NodesInv, Shown, ~scene.overlap,
         \/ \E a \in Addrs, f \in Features : HearStatus(a, f)
         \/ \E s \in sends : HearReply(s)
         \/ \E a \in Addrs : Forget(a)
         \/ ForgetAll
         \/ \E t \in Tasks, a \in Addrs : Command(t, a)
         \/ \E t \in Tasks : QueueCommand(t)
         \/ \E t \in Tasks : DropPending(t)
         \/ SaveFires \/ WriteToFlash \/ WriteRefused
  PROVE  Shown'
<1>1. UNCHANGED showvars
  BY DEF HearStatus, HearReply, Forget, ForgetAll, Command, QueueCommand, DropPending,
         SaveFires, WriteToFlash, WriteRefused, showvars, mqttvars
<1>2. {Btc, Http, Timer} \subseteq Tasks /\ {"enqueue", "drop", "erase", "write"} \subseteq Pcs
  BY DEF Tasks, Pcs
<1>3. CASE \E a \in Addrs, f \in Features : HearStatus(a, f)
  <2>1. PICK n : Start(Btc, n) /\ n.pc = "upsert" /\ Ready(Btc)
    BY <1>3 DEF HearStatus, Idle
  <2>2. QED BY <1>1, <1>2, <2>1, CalmMove DEF Calm
<1>4. CASE \E s \in sends : HearReply(s)
  <2>1. PICK n : Start(Btc, n) /\ n.pc \in {"idle", "upsert"} /\ Ready(Btc)
    BY <1>4 DEF HearReply, Idle
  <2>2. QED BY <1>1, <1>2, <2>1, CalmMove DEF Calm
<1>5. CASE \E a \in Addrs : Forget(a)
  <2>1. PICK n : Start(Http, n) /\ n.pc = "drop" /\ n.forget /\ Ready(Http)
    BY <1>5 DEF Forget, Idle
  <2>2. QED BY <1>1, <1>2, <2>1, CalmMove DEF Calm
<1>6. CASE ForgetAll
  <2>1. PICK j : j = [Idle EXCEPT !.forget = TRUE, !.left = table]
    OBVIOUS
  <2>2. j \in Job /\ j.forget
    BY <2>1, IdleType DEF Job, NodesInv, Typed
  <2>3. PICK n \in NextTurn(j, "drop") : Start(Btc, n)
    BY <1>6, <2>1 DEF ForgetAll
  <2>4. n.pc \in {"idle", "drop"} /\ (n.pc \in {"drop", "erase"} => n.forget)
    BY <1>2, <2>2, TurnTaken, IdleType
  <2>5. QED BY <1>1, <1>2, <1>6, <2>3, <2>4, CalmMove DEF Calm, ForgetAll
<1>7. CASE \E t \in Tasks, a \in Addrs : Command(t, a)
  <2>1. PICK t \in Tasks : \E n : Start(t, n) /\ n.pc = "enqueue" /\ Ready(t)
    BY <1>7 DEF Command, Idle
  <2>2. PICK n : Start(t, n) /\ n.pc = "enqueue" /\ Ready(t)
    BY <2>1
  <2>3. QED BY <1>1, <2>2, CalmMove DEF Calm
<1>8. CASE \E t \in Tasks : QueueCommand(t)
  <2>1. PICK t \in Tasks : QueueCommand(t)
    BY <1>8
  <2>2. job[t] \in Job /\ At(t, "enqueue") /\ job[t] # Idle
    BY <1>2, <2>1, NotIdle DEF QueueCommand, NodesInv, Typed
  <2>3. PICK n : Start(t, n) /\ n.pc \in {"idle", "enqueue"}
    BY <2>1, <2>2, IdleType DEF QueueCommand, At, Job
  <2>4. QED BY <1>1, <2>2, <2>3, CalmMove DEF Calm, At
<1>9. CASE \E t \in Tasks : DropPending(t)
  <2>1. PICK t \in Tasks : DropPending(t)
    BY <1>9
  <2>2. job[t] \in Job /\ At(t, "drop") /\ job[t] # Idle
    BY <1>2, <2>1, NotIdle DEF DropPending, NodesInv, Typed
  <2>3. Alone(t) /\ Fits(job[t])
    BY <2>2, OnlyOne
  <2>4. PICK n : Start(t, n) /\ n.pc = "erase" /\ n.forget = job[t].forget
    BY <2>1, <2>2 DEF DropPending, Goto, Job
  <2>5. n.forget
    BY <2>2, <2>3, <2>4 DEF Fits, Turn, At
  <2>6. QED BY <1>1, <2>2, <2>4, <2>5, CalmMove DEF Calm, At
<1>10. CASE SaveFires
  <2>1. PICK n : Start(Timer, n) /\ n.pc = "write" /\ Ready(Timer)
    BY <1>10 DEF SaveFires, Idle
  <2>2. QED BY <1>1, <1>2, <2>1, CalmMove DEF Calm
<1>11. CASE WriteToFlash \/ WriteRefused
  <2>1. Start(Timer, Idle) /\ At(Timer, "write") /\ job[Timer] # Idle
    BY <1>2, <1>11, NotIdle DEF WriteToFlash, WriteRefused
  <2>2. QED BY <1>1, <1>2, <2>1, IdleType, CalmMove DEF Calm, At
<1>12. QED
  BY <1>3, <1>4, <1>5, <1>6, <1>7, <1>8, <1>9, <1>10, <1>11

\* What is heard makes the node one to announce, unless it is no news.
LEMMA ShownUpsert == ASSUME NodesInv, Shown, ~scene.overlap, Upsert PROVE Shown'
<1> DEFINE j == job[Btc]
<1>1. Btc \in Tasks /\ j \in Job /\ j.pc = "upsert" /\ j.addr \in Addrs /\ j.feature \in Features
  BY DEF Tasks, NodesInv, Typed, Job, Upsert, At
<1>2. j # Idle
  BY <1>1, IdleType
<1>3. Alone(Btc) /\ AtRest
  <2>1. Alone(Btc) /\ Fits(j)
    BY <1>1, <1>2, OnlyOne
  <2>2. QED BY <1>1, <2>1, CalmFits DEF Calm
<1>4. UNCHANGED <<announced, connected, link, ha, haAsked, lost>>
  BY DEF Upsert, mqttvars
<1>5. CASE Start(Btc, Idle) /\ UNCHANGED table
  BY <1>1, <1>2, <1>4, <1>5, IdleType, CalmMove DEF Calm, showvars
<1>6. CASE /\ j.feature = "level" => "light" \notin table[j.addr]
           /\ table' = [table EXCEPT ![j.addr] = Heard(table[j.addr], j.feature)]
           /\ \E new \in {j.feature = "range" \/ j.feature \notin table[j.addr]}
                         \cup (IF j.feature = "light" THEN {TRUE} ELSE {}) :
                Start(Btc, [Idle EXCEPT !.addr = j.addr, !.isNew = new,
                                        !.pc = IF ~new THEN "notify"
                                               ELSE IF j.feature = "light" THEN "rangeGet"
                                               ELSE "mark"])
  <2>0. PICK new \in BOOLEAN :
          \E n : /\ Start(Btc, n) /\ n.addr = j.addr /\ n.isNew = new /\ ~n.forget
                 /\ n.pc \in IF new THEN {"rangeGet", "mark"} ELSE {"notify"}
                 /\ j.feature \notin table[j.addr] => new
    <3>1. PICK new \in BOOLEAN :
            /\ j.feature \notin table[j.addr] => new
            /\ Start(Btc, [Idle EXCEPT !.addr = j.addr, !.isNew = new,
                                       !.pc = IF ~new THEN "notify"
                                              ELSE IF j.feature = "light" THEN "rangeGet"
                                              ELSE "mark"])
      BY <1>6
    <3>2. PICK n : n = [Idle EXCEPT !.addr = j.addr, !.isNew = new,
                                    !.pc = IF ~new THEN "notify"
                                           ELSE IF j.feature = "light" THEN "rangeGet"
                                           ELSE "mark"]
      OBVIOUS
    <3>3. /\ n.addr = j.addr /\ n.isNew = new /\ ~n.forget
          /\ n.pc \in IF new THEN {"rangeGet", "mark"} ELSE {"notify"}
      BY <3>2 DEF Idle
    <3>4. QED BY <3>1, <3>2, <3>3
  <2>1. PICK n : /\ Start(Btc, n) /\ n.addr = j.addr /\ n.isNew = new /\ ~n.forget
                 /\ n.pc \in IF new THEN {"rangeGet", "mark"} ELSE {"notify"}
                 /\ j.feature \notin table[j.addr] => new
    BY <2>0
  <2>2. j.feature \in table[j.addr] => table' = table
    BY <1>1, <1>6, HeardKeeps
  <2>3. Turn(n)'
    BY <2>1 DEF Turn, Announcing
  <2>4. ASSUME NEW a \in Addrs PROVE (Owes(n, a)' \/ Settled(a)') /\ Only(n, a)' /\ Gone(n, a)'
    <3>1. table'[a] # table[a] => new /\ a = j.addr
      BY <1>1, <1>6, <2>1, <2>2 DEF NodesInv, Typed, Snapshot
    <3>2. table'[a] # table[a] => Owes(n, a)'
      BY <2>1, <3>1 DEF Owes
    <3>3. table'[a] = table[a] => Settled(a)'
      BY <1>3, <1>4 DEF AtRest, Settled
    <3>4. Only(n, a)'
      BY <1>3, <1>4, <2>1 DEF AtRest, Only
    <3>5. table'[a] = Unknown => table[a] = Unknown
      <4>1. Heard(table[j.addr], j.feature) # Unknown
        BY <1>1, <1>6 DEF Heard, Unknown, Features, NodesInv, Typed, Snapshot
      <4>2. QED BY <1>1, <1>6, <4>1 DEF NodesInv, Typed, Snapshot
    <3>6. Gone(n, a)'
      BY <1>3, <1>4, <3>5 DEF AtRest, Gone
    <3>7. QED BY <3>2, <3>3, <3>4, <3>6
  <2>5. Fits(n)'
    BY <2>3, <2>4 DEF Fits
  <2>6. QED BY <1>1, <1>3, <2>1, <2>5, Handed
<1>7. QED BY <1>5, <1>6 DEF Upsert

LEMMA ShownRangeGet == ASSUME NodesInv, Shown, ~scene.overlap, RangeGet PROVE Shown'
<1>1. Btc \in Tasks /\ "rangeGet" \in Pcs /\ job[Btc] \in Job /\ At(Btc, "rangeGet")
  BY DEF Tasks, Pcs, NodesInv, Typed, RangeGet
<1>2. UNCHANGED showvars
  BY DEF RangeGet, showvars, mqttvars
<1>3. PICK n : Start(Btc, n) /\ n = [job[Btc] EXCEPT !.pc = "mark"]
  BY DEF RangeGet, Goto
<1>4. Fits(job[Btc]) => Fits(n)
  BY <1>1, <1>3 DEF At, Job, Fits, Turn, Announcing, Owes, Only, Gone
<1>5. QED BY <1>1, <1>2, <1>3, <1>4, NotIdle, FitMove

LEMMA ShownMarkDirty == ASSUME NodesInv, Shown, ~scene.overlap, NEW t \in Tasks, MarkDirty(t) PROVE Shown'
<1>1. "mark" \in Pcs /\ job[t] \in Job /\ At(t, "mark")
  BY DEF Pcs, NodesInv, Typed, MarkDirty
<1>2. UNCHANGED showvars
  BY DEF MarkDirty, showvars, mqttvars
<1>3. PICK n : Start(t, n) /\ n = [job[t] EXCEPT !.pc = IF job[t].forget THEN "unannounce" ELSE "notify"]
  BY DEF MarkDirty, Goto
<1>4. Fits(job[t]) => Fits(n)
  BY <1>1, <1>3 DEF At, Job, Fits, Turn, Announcing, Owes, Only, Gone
<1>5. QED BY <1>1, <1>2, <1>3, <1>4, NotIdle, FitMove

LEMMA ShownNotify == ASSUME NodesInv, Shown, ~scene.overlap, Notify PROVE Shown'
<1> DEFINE j == job[Btc]
<1>1. /\ Btc \in Tasks /\ "notify" \in Pcs /\ j \in Job /\ At(Btc, "notify") /\ j.addr \in Addrs
      /\ table[j.addr] \in Nodes
  BY DEF Tasks, Pcs, NodesInv, Typed, Notify, Job, Snapshot
<1>2. UNCHANGED showvars
  BY DEF Notify, showvars, mqttvars
<1>3. CASE ~connected \/ table[j.addr] = Unknown
  <2>1. Start(Btc, Idle)
    BY <1>3 DEF Notify
  <2>2. Settled(j.addr)
    BY <1>3 DEF Settled
  <2>3. Fits(j) => AtRest
    BY <1>1, <2>2 DEF At, Fits, Turn, Announcing, Owes, Only, Gone, AtRest
  <2>4. Fits(j) => Fits(Idle)
    BY <2>3, IdleType, CalmFits DEF Calm
  <2>5. QED BY <1>1, <1>2, <2>1, <2>4, NotIdle, FitMove
<1>4. CASE ~(~connected \/ table[j.addr] = Unknown)
  <2>1. PICK n : Start(Btc, n) /\ n = [Idle EXCEPT !.addr = j.addr, !.node = table[j.addr],
                                       !.pc = IF j.isNew THEN "announce" ELSE "decide"]
    BY <1>4 DEF Notify
  <2>2. /\ n.addr = j.addr /\ n.node = table[j.addr] /\ ~n.forget
        /\ n.pc = IF j.isNew THEN "announce" ELSE "decide"
        /\ \A a \in Addrs : n.left[a] = Unknown
    BY <2>1 DEF Idle
  <2>3. Fits(j) => Fits(n)
    BY <1>1, <1>4, <2>2 DEF At, Fits, Turn, Announcing, Owes, Only, Gone
  <2>4. QED BY <1>1, <1>2, <2>1, <2>3, NotIdle, FitMove
<1>5. QED BY <1>3, <1>4

LEMMA ShownDecide == ASSUME NodesInv, Shown, ~scene.overlap, Decide PROVE Shown'
<1> DEFINE j == job[Btc]
<1>1. Btc \in Tasks /\ "decide" \in Pcs /\ j \in Job /\ At(Btc, "decide")
  BY DEF Tasks, Pcs, NodesInv, Typed, Decide
<1>2. UNCHANGED showvars
  BY DEF Decide, showvars, mqttvars
<1>3. Fits(j) => AtRest
  BY <1>1 DEF At, Fits, Turn, Announcing, Owes, Only, Gone, AtRest
<1>4. CASE Start(Btc, Idle)
  <2>1. Fits(j) => Fits(Idle)
    BY <1>3, IdleType, CalmFits DEF Calm
  <2>2. QED BY <1>1, <1>2, <1>4, <2>1, NotIdle, FitMove
<1>5. CASE Goto(Btc, "announce")
  <2>1. PICK n : Start(Btc, n) /\ n = [j EXCEPT !.pc = "announce"]
    BY <1>5 DEF Goto
  <2>2. Fits(j) => Fits(n)
    BY <1>1, <2>1 DEF At, Job, Fits, Turn, Announcing, Owes, Only, Gone
  <2>3. QED BY <1>1, <1>2, <2>1, <2>2, NotIdle, FitMove
<1>6. QED BY <1>4, <1>5 DEF Decide

LEMMA ShownAnnounce == ASSUME NodesInv, Shown, ~scene.overlap, NEW t \in Tasks, Announce(t) PROVE Shown'
<1> DEFINE j == job[t]
           kind == KindOf(j.node)
           prev == announced[j.addr]
<1>1. /\ "announce" \in Pcs /\ j \in Job /\ At(t, "announce") /\ j.addr \in Addrs
      /\ announced \in [Addrs -> Kinds \cup {"none"}]
  BY DEF Pcs, NodesInv, Typed, Around, Announce, Job
<1>2. /\ UNCHANGED <<table, connected, link, ha, haAsked, lost>>
      /\ announced' = [announced EXCEPT ![j.addr] = kind]
  BY DEF Announce, mqttvars
<1>3. Alone(t) /\ Fits(j)
  BY <1>1, NotIdle, OnlyOne
<1>4. PICK n : /\ Start(t, n)
               /\ \/ prev \in Kinds \ {kind} /\ n = [j EXCEPT !.pc = "retract", !.old = prev]
                  \/ prev \notin Kinds \ {kind} /\ n = [j EXCEPT !.pc = "publish"]
  BY DEF Announce, Goto
<1>5. /\ n.addr = j.addr /\ n.node = j.node /\ n.forget = j.forget /\ n.left = j.left
      /\ \/ n.pc = "retract" /\ n.old = prev /\ prev # kind
         \/ n.pc = "publish" /\ prev \in {"none", kind}
  BY <1>1, <1>4 DEF Job
<1>6. ~j.forget /\ Announcing(j) /\ Announcing(n)
  BY <1>1, <1>3, <1>5 DEF At, Fits, Turn, Announcing
<1>7. j.node = table[j.addr] /\ j.node # Unknown /\ announced'[j.addr] = kind
  BY <1>1, <1>2, <1>3, <1>6 DEF Fits, Turn
<1>8. Turn(n)'
  BY <1>2, <1>3, <1>5, <1>6, <1>7 DEF Fits, Turn, Announcing
<1>9. ASSUME NEW a \in Addrs PROVE (Owes(n, a)' \/ Settled(a)') /\ Only(n, a)' /\ Gone(n, a)'
  <2>1. Owes(j, a) \/ Settled(a)
    BY <1>3 DEF Fits
  <2>2. Owes(j, a) => Owes(n, a)'
    BY <1>5, <1>6 DEF Owes, Announcing
  <2>3. a # j.addr => announced'[a] = announced[a]
    BY <1>1, <1>2
  <2>4. a = j.addr => Owes(n, a)'
    BY <1>5, <1>6 DEF Owes, Announcing
  <2>5. Settled(a) /\ a # j.addr => Settled(a)'
    BY <1>2, <2>3 DEF Settled
  <2>6. Only(j, a) /\ Gone(j, a)
    BY <1>3 DEF Fits
  <2>7. ha[a] \ lost[a] \subseteq {announced[a]} /\ (a = j.addr => announced[a] = prev)
    BY <1>1, <2>6 DEF Only, At
  <2>8. Only(n, a)'
    <3>1. CASE a # j.addr
      BY <1>2, <1>5, <2>3, <2>7, <3>1 DEF Only
    <3>2. CASE a = j.addr /\ prev = "none"
      <4>1. ha[a] \ lost[a] = {}
        <5>1. ha[a] \in SUBSET Kinds
          BY DEF NodesInv, Typed, Around
        <5>2. QED BY <2>7, <3>2, <5>1 DEF Kinds
      <4>2. QED BY <1>2, <4>1 DEF Only
    <3>3. CASE a = j.addr /\ prev # "none"
      BY <1>2, <1>5, <1>7, <2>7, <3>3 DEF Only
    <3>4. QED BY <3>1, <3>2, <3>3
  <2>9. Gone(n, a)'
    <3>1. a = j.addr => table'[a] # Unknown
      BY <1>2, <1>7
    <3>2. QED BY <1>2, <1>6, <2>3, <2>6, <3>1 DEF Gone
  <2>10. QED BY <2>1, <2>2, <2>4, <2>5, <2>8, <2>9
<1>10. Fits(n)'
  BY <1>8, <1>9 DEF Fits
<1>11. QED BY <1>3, <1>4, <1>10, Handed

LEMMA ShownRetract == ASSUME NodesInv, Shown, ~scene.overlap, NEW t \in Tasks, Retract(t) PROVE Shown'
<1> DEFINE j == job[t]
<1>1. /\ "retract" \in Pcs /\ j \in Job /\ At(t, "retract") /\ j.addr \in Addrs
      /\ ha \in [Addrs -> SUBSET Kinds] /\ lost \in [Addrs -> SUBSET Kinds]
  BY DEF Pcs, NodesInv, Typed, Around, Retract, Job
<1>2. /\ UNCHANGED <<table, announced, connected, link, haAsked>>
      /\ ha' = IF link THEN [ha EXCEPT ![j.addr] = @ \ {j.old}] ELSE ha
      /\ lost' = IF link THEN lost ELSE [lost EXCEPT ![j.addr] = @ \cup ({j.old} \cap ha[j.addr])]
  BY DEF Retract
<1>3. Alone(t) /\ Fits(j)
  BY <1>1, NotIdle, OnlyOne
<1>4. \A a \in Addrs : /\ a # j.addr => ha'[a] = ha[a] /\ lost'[a] = lost[a]
                       /\ ha'[a] \ lost'[a] \subseteq {announced'[a]}
  <2>1. \A a \in Addrs : a # j.addr => ha'[a] = ha[a] /\ lost'[a] = lost[a]
    BY <1>1, <1>2
  <2>2. ha'[j.addr] \ lost'[j.addr] \subseteq (ha[j.addr] \ lost[j.addr]) \ {j.old}
    <3>1. CASE link
      BY <1>1, <1>2, <3>1
    <3>2. CASE ~link
      BY <1>1, <1>2, <3>2
    <3>3. QED BY <3>1, <3>2
  <2>3. \A a \in Addrs : ha[a] \ lost[a] \subseteq
                          {announced[a]} \cup (IF a = j.addr THEN {j.old} ELSE {})
    BY <1>1, <1>3 DEF Fits, Only, At
  <2>4. QED BY <1>1, <1>2, <2>1, <2>2, <2>3
<1>5. ASSUME NEW a \in Addrs, a # j.addr, Settled(a) PROVE Settled(a)'
  BY <1>2, <1>4, <1>5 DEF Settled
<1>6. CASE j.forget
  <2>1. \E n \in NextTurn(j, "drop") : Start(t, n)
    BY <1>6 DEF Retract
  <2>2. table[j.addr] = Unknown
    BY <1>1, <1>3, <1>6 DEF Fits, Turn, At
  <2>3. ASSUME NEW a \in Addrs PROVE Settled(a)'
    <3>1. CASE a = j.addr
      BY <1>2, <2>2, <3>1 DEF Settled
    <3>2. CASE a # j.addr
      <4>1. Settled(a)
        BY <1>3, <1>6 DEF Fits, Owes, Announcing
      <4>2. QED BY <1>5, <3>2, <4>1
    <3>3. QED BY <3>1, <3>2
  <2>4. \A a \in Addrs : table'[a] = Unknown => announced'[a] = "none"
    BY <1>1, <1>2, <1>3 DEF Fits, Gone, At
  <2>5. AtRest'
    BY <1>4, <2>3, <2>4 DEF AtRest
  <2>6. QED BY <1>1, <1>3, <1>6, <2>1, <2>5, ForgetTurn
<1>7. CASE ~j.forget
  <2>1. PICK n : Start(t, n) /\ n = [j EXCEPT !.pc = "publish"]
    BY <1>7 DEF Retract, Goto
  <2>2. /\ n.addr = j.addr /\ n.node = j.node /\ n.forget = j.forget /\ n.left = j.left
        /\ n.pc = "publish" /\ Announcing(j) /\ Announcing(n)
    BY <1>1, <1>7, <2>1 DEF Job, Announcing, At
  <2>3. Turn(n)'
    BY <1>1, <1>2, <1>3, <1>7, <2>2 DEF At, Fits, Turn
  <2>4. ASSUME NEW a \in Addrs PROVE (Owes(n, a)' \/ Settled(a)') /\ Only(n, a)' /\ Gone(n, a)'
    <3>1. Owes(j, a) \/ Settled(a)
      BY <1>3 DEF Fits
    <3>2. (Owes(j, a) => Owes(n, a)') /\ (a = j.addr => Owes(n, a)')
      BY <1>7, <2>2 DEF Owes, Announcing
    <3>3. Only(n, a)'
      BY <1>4 DEF Only
    <3>4. Gone(n, a)'
      BY <1>2, <1>3, <1>7 DEF Fits, Gone
    <3>5. QED BY <1>5, <3>1, <3>2, <3>3, <3>4
  <2>5. Fits(n)'
    BY <2>3, <2>4 DEF Fits
  <2>6. QED BY <1>3, <2>1, <2>5, Handed
<1>8. QED BY <1>6, <1>7

LEMMA ShownPublish ==
  ASSUME NodesInv, Shown, ~scene.overlap, NEW t \in Tasks, PublishDiscovery(t)
  PROVE  Shown'
<1> DEFINE j == job[t]
           kind == KindOf(j.node)
<1>1. /\ "publish" \in Pcs /\ j \in Job /\ At(t, "publish") /\ j.addr \in Addrs
      /\ ha \in [Addrs -> SUBSET Kinds] /\ lost \in [Addrs -> SUBSET Kinds]
  BY DEF Pcs, NodesInv, Typed, Around, PublishDiscovery, Job
<1>2. /\ UNCHANGED <<table, announced, connected, link, haAsked>>
      /\ ha' = IF link THEN [ha EXCEPT ![j.addr] = @ \cup {kind}] ELSE ha
      /\ lost' = IF link THEN [lost EXCEPT ![j.addr] = @ \ {kind}] ELSE lost
      /\ \E n \in NextTurn(j, "announce") : Start(t, n)
  BY DEF PublishDiscovery
<1>3. Alone(t) /\ Fits(j)
  BY <1>1, NotIdle, OnlyOne
<1>4. ~j.forget /\ Announcing(j)
  BY <1>1, <1>3 DEF At, Fits, Turn, Announcing
<1>5. /\ j.node = table[j.addr] /\ announced[j.addr] = kind
      /\ \A a \in Addrs : j.left[a] \in {Unknown, table'[a]}
  BY <1>1, <1>2, <1>3, <1>4 DEF At, Fits, Turn
<1>6. ASSUME NEW a \in Addrs
      PROVE  /\ j.left[a] # Unknown \/ Settled(a)'
             /\ ha'[a] \ lost'[a] \subseteq {announced'[a]}
             /\ table'[a] = Unknown => announced'[a] = "none"
  <2>1. ha[a] \ lost[a] \subseteq {announced[a]}
    BY <1>1, <1>3 DEF Fits, Only, At
  <2>2. CASE a = j.addr
    <3>1. Settled(a)'
      BY <1>1, <1>2, <1>5, <2>2 DEF Settled
    <3>2. ha'[a] \ lost'[a] \subseteq {announced'[a]}
      <4>1. CASE link
        BY <1>1, <1>2, <1>5, <2>1, <2>2, <4>1
      <4>2. CASE ~link
        BY <1>2, <2>1, <4>2
      <4>3. QED BY <4>1, <4>2
    <3>3. table'[a] = Unknown => announced'[a] = "none"
      BY <1>2, <1>3, <1>4 DEF Fits, Gone
    <3>4. QED BY <3>1, <3>2, <3>3
  <2>3. CASE a # j.addr
    <3>1. ha'[a] = ha[a] /\ lost'[a] = lost[a]
      BY <1>1, <1>2, <2>3
    <3>2. j.left[a] # Unknown \/ Settled(a)
      BY <1>3, <1>4, <2>3 DEF Fits, Owes
    <3>3. Settled(a) => Settled(a)'
      BY <1>2, <3>1 DEF Settled
    <3>4. table'[a] = Unknown => announced'[a] = "none"
      BY <1>2, <1>3, <1>4 DEF Fits, Gone
    <3>5. QED BY <1>2, <2>1, <3>1, <3>2, <3>3, <3>4
  <2>4. QED BY <2>2, <2>3
<1>7. QED BY <1>1, <1>2, <1>3, <1>4, <1>5, <1>6, WalkTurn

\* MqttConnected and Republish set out to announce every node there is.
LEMMA ShownWalk == ASSUME NodesInv, Shown, ~scene.overlap, MqttConnected \/ Republish PROVE Shown'
<1>1. PICK t \in Tasks : Ready(t) /\ Walk(t)
  BY DEF MqttConnected, Republish, Tasks
<1>2. UNCHANGED <<table, announced, ha, lost>>
  BY DEF MqttConnected, Republish
<1>3. PICK j : j = [Idle EXCEPT !.left = table]
  OBVIOUS
<1>4. j \in Job /\ ~j.forget /\ j.left = table
  BY <1>3, IdleType DEF Job, NodesInv, Typed
<1>5. \E n \in NextTurn(j, "announce") : Start(t, n)
  BY <1>1, <1>3 DEF Walk
<1>6. Alone(t) /\ AtRest
  <2>1. Alone(t) /\ Fits(Idle)
    BY <1>1, OnlyOne DEF Ready
  <2>2. QED BY <2>1, IdleType, CalmFits DEF Calm
<1>7. \A a \in Addrs : /\ j.left[a] \in {Unknown, table'[a]}
                       /\ j.left[a] # Unknown \/ Settled(a)'
                       /\ ha'[a] \ lost'[a] \subseteq {announced'[a]}
                       /\ table'[a] = Unknown => announced'[a] = "none"
  BY <1>2, <1>4, <1>6 DEF AtRest, Settled
<1>8. QED BY <1>4, <1>5, <1>6, <1>7, WalkTurn

LEMMA ShownErase == ASSUME NodesInv, Shown, ~scene.overlap, NEW t \in Tasks, Erase(t) PROVE Shown'
<1> DEFINE j == job[t]
<1>1. /\ "erase" \in Pcs /\ j \in Job /\ At(t, "erase") /\ j.addr \in Addrs /\ table \in Snapshot
  BY DEF Pcs, NodesInv, Typed, Erase, Job
<1>2. UNCHANGED <<announced, connected, link, ha, haAsked, lost>>
  BY DEF Erase, mqttvars
<1>3. Alone(t) /\ Fits(j) /\ j.forget
  <2>1. Alone(t) /\ Fits(j)
    BY <1>1, NotIdle, OnlyOne
  <2>2. QED BY <1>1, <2>1 DEF Fits, Turn, At
<1>4. AtRest
  BY <1>1, <1>3, CalmFits DEF Calm, At
<1>5. CASE (\E n \in NextTurn(j, "drop") : Start(t, n)) /\ UNCHANGED table
  <2>1. AtRest'
    BY <1>2, <1>4, <1>5, CalmStutter DEF showvars
  <2>2. QED BY <1>1, <1>3, <1>5, <2>1, ForgetTurn
<1>6. CASE /\ table' = [table EXCEPT ![j.addr] = Unknown]
           /\ Start(t, [j EXCEPT !.node = table[j.addr], !.pc = "mark"])
  <2>1. PICK n : Start(t, n) /\ n = [j EXCEPT !.node = table[j.addr], !.pc = "mark"]
    BY <1>6
  <2>2. n.pc = "mark" /\ n.forget /\ n.addr = j.addr
    BY <1>1, <1>3, <2>1 DEF Job
  <2>3. table'[j.addr] = Unknown /\ \A a \in Addrs : a # j.addr => table'[a] = table[a]
    BY <1>1, <1>6 DEF Snapshot
  <2>4. Fits(n)'
    BY <1>2, <1>4, <2>2, <2>3 DEF AtRest, Fits, Turn, Announcing, Owes, Settled, Only, Gone
  <2>5. QED BY <1>3, <2>1, <2>4, Handed
<1>7. QED BY <1>5, <1>6 DEF Erase

LEMMA ShownUnannounce ==
  ASSUME NodesInv, Shown, ~scene.overlap, NEW t \in Tasks, Unannounce(t)
  PROVE  Shown'
<1> DEFINE j == job[t]
           old == IF announced[j.addr] = "none" THEN KindOf(j.node) ELSE announced[j.addr]
<1>1. /\ "unannounce" \in Pcs /\ j \in Job /\ At(t, "unannounce") /\ j.addr \in Addrs
      /\ announced \in [Addrs -> Kinds \cup {"none"}]
      /\ ha \in [Addrs -> SUBSET Kinds] /\ lost \in [Addrs -> SUBSET Kinds]
  BY DEF Pcs, NodesInv, Typed, Around, Unannounce, Job
<1>2. UNCHANGED <<table, connected, link, ha, haAsked>>
  BY DEF Unannounce
<1>3. Alone(t) /\ Fits(j) /\ j.forget /\ table[j.addr] = Unknown
  <2>1. Alone(t) /\ Fits(j)
    BY <1>1, NotIdle, OnlyOne
  <2>2. QED BY <1>1, <2>1 DEF Fits, Turn, At
<1>4. /\ announced'[j.addr] = "none" /\ \A a \in Addrs : a # j.addr => announced'[a] = announced[a]
  BY <1>1 DEF Unannounce
<1>5. ha[j.addr] \ lost[j.addr] \subseteq {old}
  <2>1. ha[j.addr] \ lost[j.addr] \subseteq {announced[j.addr]}
    BY <1>1, <1>3 DEF Fits, Only, At
  <2>2. "none" \notin ha[j.addr]
    BY <1>1 DEF Kinds
  <2>3. QED BY <2>1, <2>2
<1>6. ASSUME NEW a \in Addrs
      PROVE  /\ Settled(a)' /\ (table'[a] = Unknown => announced'[a] = "none")
             /\ a # j.addr => ha[a] \ lost[a] \subseteq {announced'[a]}
  <2>1. Settled(a) /\ Only(j, a) /\ Gone(j, a)
    BY <1>1, <1>3 DEF At, Fits, Owes, Announcing
  <2>2. CASE a = j.addr
    BY <1>2, <1>3, <1>4, <2>2 DEF Settled
  <2>3. CASE a # j.addr
    BY <1>1, <1>2, <1>4, <2>1, <2>3 DEF Settled, Only, Gone
  <2>4. QED BY <2>2, <2>3
<1>7. CASE Start(t, [j EXCEPT !.pc = "retract", !.old = old]) /\ UNCHANGED lost
  <2>1. PICK n : Start(t, n) /\ n = [j EXCEPT !.pc = "retract", !.old = old]
    BY <1>7
  <2>2. n.pc = "retract" /\ n.forget /\ n.addr = j.addr /\ n.old = old
    BY <1>1, <1>3, <2>1 DEF Job
  <2>3. Turn(n)'
    BY <1>2, <1>3, <2>2 DEF Turn, Announcing
  <2>4. \A a \in Addrs : Only(n, a)' /\ Gone(n, a)'
    BY <1>2, <1>5, <1>6, <1>7, <2>2 DEF Only, Gone
  <2>5. Fits(n)'
    BY <1>6, <2>3, <2>4 DEF Fits
  <2>6. QED BY <1>3, <2>1, <2>5, Handed
<1>8. CASE /\ lost' = [lost EXCEPT ![j.addr] = @ \cup ({old} \cap ha[j.addr])]
           /\ \E n \in NextTurn(j, "drop") : Start(t, n)
  <2>1. \A a \in Addrs : ha'[a] \ lost'[a] \subseteq {announced'[a]}
    BY <1>1, <1>2, <1>5, <1>6, <1>8
  <2>2. AtRest'
    BY <1>6, <2>1 DEF AtRest
  <2>3. QED BY <1>1, <1>3, <1>8, <2>2, ForgetTurn
<1>9. QED BY <1>7, <1>8 DEF Unannounce

LEMMA ShownRestart == ASSUME NodesInv, Restart PROVE Shown'
<1>1. job'[Btc] = Idle /\ Alone(Btc)' /\ Btc \in Tasks
  BY DEF Restart, Alone, Tasks
<1>2. AtRest'
  BY DEF Restart, AtRest, Settled
<1>3. Fits(job[Btc])'
  <2>1. job'[Btc].pc = "idle"
    BY <1>1, IdleType
  <2>2. PICK n : n = job'[Btc]
    OBVIOUS
  <2>3. Fits(n)'
    BY <1>2, <2>1, <2>2, CalmFits DEF Calm
  <2>4. QED BY <2>2, <2>3 DEF Fits, Turn, Announcing, Owes, Settled, Only, Gone
<1>4. QED BY <1>1, <1>3 DEF Shown

LEMMA ShownInit == Init => Shown
<1> SUFFICES ASSUME Init PROVE Shown
  OBVIOUS
<1>1. AtRest
  BY DEF Init, AtRest, Settled
<1>2. Fits(Idle)
  BY <1>1, IdleType, CalmFits DEF Calm
<1>3. QED BY <1>2 DEF Init, Shown, Alone, Tasks

LEMMA ShownNext == NodesInv /\ Shown /\ [Next]_vars => Shown'
<1> SUFFICES ASSUME NodesInv, Shown, [Next]_vars PROVE Shown'
  OBVIOUS
<1>1. CASE scene.overlap
  <2>1. scene' = scene
    BY DEF vars, boundvars, Next, HearStatus, TestCommand, HearReply, SendGivenUp, Upsert,
       RangeGet, Notify, Decide, MarkDirty, Announce, Retract, PublishDiscovery, MqttConnected,
       MqttDisconnected, MqttUnsubscribed, LinkDrops, HaRestarts, Republish, Forget, ForgetAll,
       DropPending, Erase, Unannounce, Command, QueueCommand, SaveFires, WriteToFlash, WriteRefused, Restart
  <2>2. QED BY <1>1, <2>1 DEF Shown
<1>2. CASE UNCHANGED vars
  BY <1>2, ShownStutter DEF vars, mqttvars, boundvars, showvars
<1>3. CASE \/ \E a \in Addrs, f \in Features : TestCommand(a, f)
           \/ \E s \in sends : SendGivenUp(s)
  BY <1>3, ShownStutter DEF TestCommand, SendGivenUp, mqttvars, boundvars, showvars
<1>4. CASE ~scene.overlap /\ Next
  BY <1>3, <1>4, ShownWorld, ShownCalm, ShownUpsert, ShownRangeGet, ShownMarkDirty, ShownNotify,
     ShownDecide, ShownAnnounce, ShownRetract, ShownPublish, ShownWalk, ShownErase,
     ShownUnannounce, ShownRestart
  DEF Next
<1>5. QED BY <1>1, <1>2, <1>4

(***************************************************************************)
(* Theorems                                                                *)
(***************************************************************************)
\* The table, its copy in flash, the announcements and every handler's place stay well-typed,
\* and the queue never has two sends whose nodes were forgotten while they were in flight.
THEOREM NodesTypeCorrect == Spec => []TypeOK
<1>1. NodesInv => TypeOK
  BY TypedIsTypeOK DEF NodesInv
<1>2. QED BY <1>1, InitNodes, NextNodes, PTL DEF Spec

\* However handlers that hear, forget and save overlap, and wherever the bridge restarts:
\* unless the countdown of mark_external_nodes_dirty runs or is about to be restarted, flash
\* holds the table, or the copy being written does, unless flash refused the last write or was
\* not read since.
THEOREM NodesSaved == Spec => []SavedUnlessPending
<1>1. NodesInv => SavedUnlessPending
  BY DEF NodesInv, Saved
<1>2. QED BY <1>1, InitNodes, NextNodes, PTL DEF Spec

\* forget_external_node purges the send queue before it erases the node: a reply that brings the
\* node back was asked for after that, or was past the queue already.
THEOREM NodesRevival == Spec => RevivedOnlyAroundPurge
<1>1. ASSUME NodesInv, [Next]_vars
      PROVE  [\A a \in Addrs : table[a] = Unknown /\ table'[a] # Unknown /\ crashes' = crashes
                                 => ~job[Btc].reply \/ a \in sincePurge]_vars
  <2> SUFFICES ASSUME NEW a \in Addrs, table[a] = Unknown, table'[a] # Unknown,
                      crashes' = crashes, job[Btc].reply
               PROVE  a \in sincePurge
    OBVIOUS
  <2>1. table \in Snapshot /\ crashes \in Nat
    BY <1>1, ExternalNodesAssumption DEF NodesInv, Typed, Around
  <2>2. ~Restart
    BY <2>1 DEF Restart
  <2>3. ASSUME NEW t \in Tasks, Erase(t) PROVE FALSE
    BY <2>1, <2>3 DEF Erase, Snapshot
  <2>4. Upsert
    BY <1>1, <2>2, <2>3 DEF Next, vars, HearStatus, TestCommand, HearReply, SendGivenUp,
       RangeGet, Notify, Decide, MarkDirty, Announce, Retract, PublishDiscovery, MqttConnected,
       MqttDisconnected, MqttUnsubscribed, LinkDrops, HaRestarts, Republish, Forget, ForgetAll,
       DropPending, Unannounce, Command, QueueCommand, SaveFires, WriteToFlash, WriteRefused
  <2>5. a = job[Btc].addr
    BY <2>1, <2>4 DEF Upsert, Snapshot
  <2>6. QED BY <1>1, <2>4, <2>5 DEF NodesInv, Replies, Upsert
<1>2. QED BY <1>1, InitNodes, NextNodes, PTL DEF Spec, RevivedOnlyAroundPurge

\* However Home Assistant restarts, the broker's link drops and nodes are heard, replaced and
\* forgotten: while handlers do not overlap, every node ends up with an entity of its kind,
\* and no other entity outlives its removal by mqtt_announce_external_node and
\* mqtt_forget_external_node.
THEOREM NodesShown == Spec => []ShownAsKnown
<1>1. NodesInv /\ Shown => ShownAsKnown
  <2> SUFFICES ASSUME Shown, AllIdle, connected, link, ~scene.overlap, NEW a \in Addrs, NodesInv
               PROVE  LET kinds == IF table[a] = Unknown THEN {} ELSE {KindOf(table[a])}
                      IN ha[a] \ lost[a] \subseteq kinds /\ (haAsked \/ kinds \subseteq ha[a])
    BY DEF ShownAsKnown
  <2>1. AtRest
    <3>1. Fits(Idle)
      BY DEF Shown, AllIdle
    <3>2. QED BY <3>1, IdleType, CalmFits DEF Calm
  <2>2. "none" \notin ha[a]
    BY DEF NodesInv, Typed, Around, Kinds
  <2>3. QED BY <2>1, <2>2 DEF AtRest, Settled
<1>2. NodesInv /\ [Next]_vars => NodesInv'
  BY NextNodes
<1>3. QED BY <1>1, <1>2, InitNodes, ShownInit, ShownNext, PTL DEF Spec

(***************************************************************************)
(* LightControl: types.  A conversion gives a number of the type it is     *)
(* sent in; of what a division gives only its bounds are needed.           *)
(***************************************************************************)
LEMMA Shared ==
  ASSUME NEW a \in Nat, NEW b \in Nat, NEW c \in Nat \ {0}, a <= c
  PROVE  (b * a) \div c \in 0 .. b
<1> DEFINE q == (b * a) \div c
<1>0. b * a \in Nat
  OBVIOUS
<1>1. b * a <= b * c
  OBVIOUS
<1>2. q \in Int /\ q * c <= b * a /\ b * a < (q + 1) * c
  BY <1>0
<1>3. q <= b
  <2>1. SUFFICES ASSUME q >= b + 1 PROVE FALSE
    BY <1>2
  <2>2. q * c >= (b + 1) * c
    BY <1>2, <2>1
  <2> QED BY <1>1, <1>2, <2>2
<1>4. q >= 0
  BY <1>0, <1>2
<1> QED BY <1>2, <1>3, <1>4

LEMMA ScalesAre ==
  /\ FullScale \in Nat \ {0} /\ LightMax \in 1 .. FullScale /\ Percent \in 1 .. FullScale
  /\ LevelMax \in Nat /\ LevelMin = -LevelMax - 1 /\ LevelMin \in Int
  /\ 0 \in LevelNumbers /\ LevelMin \in LevelNumbers /\ 0 \in Numbers
<1>1. FullScale \in Nat \ {0} /\ LightMax \in 1 .. FullScale /\ Percent \in 1 .. FullScale
  BY ScaleAssumption, LightAssumption
<1>2. LevelMax \in Nat
  BY <1>1 DEF LevelMax
<1> QED BY <1>1, <1>2 DEF LevelMin, LevelNumbers, Numbers

LEMMA HslLightnessType ==
  ASSUME NEW l \in Numbers, NEW max \in Numbers
  PROVE  HslLightness(l, max) \in 0 .. l /\ HslLightness(l, max) \in Numbers
<1>1. FullScale \in Nat /\ l \in Nat /\ max \in Nat /\ max \div 2 \in Nat /\ max \div 2 <= max
  BY ScalesAre DEF Numbers
<1>2. ASSUME max > 0 PROVE HslLightness(l, max) \in 0 .. l
  BY <1>1, <1>2, Shared DEF HslLightness
<1>3. HslLightness(l, max) \in 0 .. l
  BY <1>1, <1>2 DEF HslLightness
<1>4. (0 .. l) \subseteq Numbers
  BY ScalesAre DEF Numbers
<1> QED BY <1>3, <1>4

LEMMA BrightnessType ==
  ASSUME NEW h \in Numbers, NEW max \in Numbers
  PROVE  Brightness(h, max) \in Numbers
<1> DEFINE half == max \div 2
<1>1. FullScale \in Nat /\ h \in Nat /\ max \in Nat /\ max <= FullScale /\ half \in Nat
  BY ScalesAre DEF Numbers
<1>2. h * max \in Nat /\ half \div 2 \in Nat
  BY <1>1
<1>3. CASE half = 0
  BY <1>3 DEF Brightness
<1>4. CASE half # 0
  <2>1. (h * max + half \div 2) \div half \in Nat
    <3> HIDE DEF half
    <3>1. \A p \in Nat : p \div half \in Nat
      BY <1>1, <1>4
    <3> QED BY <1>2, <3>1
  <2>2. LeastOf((h * max + half \div 2) \div half, max) \in 0 .. max
    <3> HIDE DEF half
    <3> QED BY <2>1, <1>1 DEF LeastOf
  <2> QED BY <2>2, <1>1, <1>4 DEF Brightness, Numbers
<1> QED BY <1>3, <1>4

\* What a quotient is, in the words of its product.
LEMMA QuotientIs ==
  ASSUME NEW a \in Nat, NEW d \in Nat \ {0}
  PROVE  /\ a \div d \in Nat
         /\ d * (a \div d) <= a /\ a < d * (a \div d) + d
OBVIOUS

\* A product compared with another of the same factor.
LEMMA FactorLess ==
  ASSUME NEW d \in Nat \ {0}, NEW x \in Int, NEW y \in Int, d * x < d * y
  PROVE  x < y
<1>1. SUFFICES ASSUME x >= y PROVE FALSE
  OBVIOUS
<1>2. PICK k \in Nat : x = y + k
  <2>1. x - y \in Nat /\ x = y + (x - y)
    BY <1>1
  <2> QED BY <2>1
<1>3. d * x = d * y + d * k /\ d * k >= 0 /\ d * x \in Int /\ d * y \in Int
  BY <1>2
<1> QED BY <1>3

\* A brightness sent as a lightness of HSL and read back loses at most two units, and gains
\* none, whatever the light's range (lightness_actual_to_brightness after HslLightness).
THEOREM RoundTrip ==
  ASSUME NEW max \in Nat, NEW l \in 0 .. max
  PROVE  Brightness(HslLightness(l, max), max) \in l - 2 .. l
<1> DEFINE half == max \div 2
           h == HslLightness(l, max)
<1>1. /\ l \in Nat /\ l <= max /\ half \in Nat /\ half \div 2 \in Nat
      /\ max \in {2 * half, 2 * half + 1} /\ half \in {2 * (half \div 2), 2 * (half \div 2) + 1}
  OBVIOUS
<1>2. CASE half = 0
  <2>1. l \in {0, 1} /\ max \in {0, 1}
    BY <1>1, <1>2
  <2>2. max = 1 => h = 0
    BY <1>2, <2>1 DEF HslLightness
  <2>3. max = 0 => h = 0
    BY <1>1 DEF HslLightness
  <2> QED BY <1>2, <2>1, <2>2, <2>3 DEF Brightness
<1>3. CASE half # 0
  <2> DEFINE hd == half \div 2
             b == (h * max + hd) \div half
  <2>1. max > 0
    BY <1>1, <1>3
  <2> HIDE DEF half
  <2>2. l * half \in Nat /\ l * half = half * l
    BY <1>1
  <2>3. h = (l * half) \div max
    BY <2>1 DEF HslLightness, half
  <2>4. h \in Nat /\ max * h <= half * l /\ half * l < max * h + max
    BY <2>1, <2>2, <2>3, QuotientIs
  <2>5. h * max \in Nat /\ h * max = max * h
    BY <2>4
  <2> HIDE DEF h
  <2>6. hd \in Nat /\ half \in {2 * hd, 2 * hd + 1}
    BY <1>1
  <2> HIDE DEF hd
  <2>7. b \in Nat /\ half * b <= max * h + hd /\ max * h + hd < half * b + half
    <3>1. h * max + hd \in Nat
      BY <2>5, <2>6
    <3> QED BY <1>1, <1>3, <2>5, <3>1, QuotientIs
  <2> HIDE DEF b
  <2>8. half * (l + 1) = half * l + half /\ half * (l - 3) = half * l - 3 * half
    BY <1>1
  <2>9. half * l \in Nat /\ half * b \in Nat /\ max * h \in Nat
    BY <1>1, <2>4, <2>7
  <2>10. half * b < half * (l + 1) /\ half * (l - 3) < half * b
    <3> DEFINE p == half * l
               r == half * b
               q == max * h
               u == half * (l + 1)
               v == half * (l - 3)
    <3>1. /\ p \in Nat /\ r \in Nat /\ q \in Nat /\ q <= p /\ p < q + max
          /\ r <= q + hd /\ q + hd < r + half /\ u = p + half /\ v = p - 3 * half
      BY <2>4, <2>7, <2>8, <2>9
    <3> HIDE DEF p, r, q, u, v
    <3>2. r < u /\ v < r
      BY <1>1, <1>3, <2>6, <3>1
    <3> QED BY <3>2 DEF r, u, v
  <2>11. b < l + 1 /\ l - 3 < b
    BY <1>1, <1>3, <2>7, <2>10, FactorLess
  <2>12. b \in l - 2 .. l /\ b <= max
    BY <1>1, <2>7, <2>11
  <2>13. Brightness(h, max) = LeastOf(b, max)
    BY <1>3 DEF Brightness, half, b, hd
  <2> QED BY <2>12, <2>13 DEF LeastOf, h
<1> QED BY <1>2, <1>3

LEMMA PositionType ==
  ASSUME NEW p \in 0 .. Percent
  PROVE  PositionToLevel(p) \in LevelNumbers
<1> DEFINE D == LevelMax - LevelMin
<1>1. p \in Nat /\ Percent \in Nat \ {0} /\ p <= Percent /\ D \in Nat /\ LevelMin \in Int /\ LevelMax \in Int
  BY ScalesAre
<1>2. (D * p) \div Percent \in 0 .. D
  <2> HIDE DEF D
  <2> QED BY <1>1, Shared
<1>3. D * p = (p - 0) * D /\ Percent - 0 = Percent
  <2> HIDE DEF D
  <2> QED BY <1>1
<1>4. LeastOf(GreatestOf(p, 0), Percent) = p
  BY <1>1 DEF LeastOf, GreatestOf
<1>5. PositionToLevel(p) = (D * p) \div Percent + LevelMin
  BY <1>1, <1>3, <1>4 DEF PositionToLevel, map
<1> HIDE DEF D
<1>6. LevelMin + D = LevelMax
  BY <1>1 DEF D
<1> QED BY <1>1, <1>2, <1>5, <1>6 DEF LevelNumbers

(***************************************************************************)
(* What a status makes of the bridge's record.                             *)
(***************************************************************************)
LEMMA ModelOfIs ==
  /\ DOMAIN ModelOf = {"onoffSet", "onoffGet", "levelSet", "lightSet", "lightGet", "lightRange",
                       "hslSet", "hslGet", "hslRange", "ctlSet", "tempGet", "tempRange"}
  /\ \A op \in DOMAIN ModelOf : ModelOf[op] \in Models
  /\ \A op \in DOMAIN ModelOf :
       ModelOf[op] \in {"onoff", "level"} <=> op \in {"onoffSet", "onoffGet", "levelSet"}
BY DEF ModelOf, Models

LEMMA ToBrightnessType ==
  ASSUME NEW n \in ANode, NEW l \in 0 .. LightMax
  PROVE  ToBrightness(n, l) \in Numbers
<1>1. l \in Numbers /\ n.maxL \in Numbers
  BY ScalesAre DEF Numbers, ANode
<1> QED BY <1>1, BrightnessType DEF ToBrightness

LEMMA WithModelType ==
  ASSUME NEW n \in ANode, NEW m \in Models
  PROVE  WithModel(n, m) \in ANode
BY DEF WithModel, ANode

LEMMA ModedType ==
  ASSUME NEW n \in ANode, NEW mode \in Modes, NEW s
  PROVE  Moded(n, mode, s) \in ANode
BY DEF Moded, ANode

LEMMA BrightenedType ==
  ASSUME NEW n \in ANode, NEW b \in Numbers
  PROVE  Brightened(n, b) \in ANode
<1>1. (b > 0) \in BOOLEAN
  OBVIOUS
<1> QED BY <1>1 DEF Brightened, ANode

LEMMA UpsertedIsOne ==
  ASSUME NEW n, NEW op, NEW got, NEW s, NEW S, n \in S, UpsertOnOff(n, got) \in S,
         UpsertLevel(n, got) \in S, UpsertLightness(n, got) \in S, UpsertHsl(n, got, s) \in S,
         UpsertCtl(n, got, s) \in S, UpsertLightnessRange(n) \in S,
         ModelOf[op] \in {"onoff", "level", "lightness", "hsl", "ctl"}
  PROVE  Upserted(n, op, got, s) \in S
<1>1. UpsertByModel(n, got, s)[ModelOf[op]] \in S
  BY SMT DEF UpsertByModel
<1> QED BY <1>1, SMT DEF Upserted

LEMMA UpsertedType ==
  ASSUME NEW n \in ANode, NEW op \in DOMAIN ModelOf, NEW got \in ALight, NEW s
  PROVE  Upserted(n, op, got, s) \in ANode
<1>1. got.l \in 0 .. LightMax /\ got.level \in LevelNumbers /\ LightMax \in Numbers
  BY ScalesAre DEF ALight, Numbers
<1>2. {"onoff", "level", "lightness", "hsl", "ctl"} = Models /\ {"hs", "color_temp"} \subseteq Modes
  BY DEF Models, Modes
<1>3. UpsertOnOff(n, got) \in ANode
  <2> DEFINE m == WithModel(n, "onoff")
  <2>1. m \in ANode /\ n.last \in Numbers /\ (got.l > 0) \in BOOLEAN
    BY <1>2, WithModelType DEF ANode
  <2> HIDE DEF m
  <2>2. [m EXCEPT !.on = got.l > 0,
                  !.l = IF got.l > 0 /\ @ = 0 /\ n.last > 0 THEN n.last ELSE @] \in ANode
    BY <2>1 DEF ANode
  <2> QED BY <2>2 DEF UpsertOnOff, m
<1>4. UpsertLevel(n, got) \in ANode
  <2>1. WithModel(n, "level") \in ANode
    BY <1>2, WithModelType
  <2>2. [WithModel(n, "level") EXCEPT !.level = got.level] \in ANode
    BY <1>1, <2>1 DEF ANode
  <2>3. [n EXCEPT !.known = TRUE] \in ANode
    BY DEF ANode
  <2> QED BY <2>2, <2>3 DEF UpsertLevel
<1>5. UpsertLightness(n, got) \in ANode
  BY <1>1, <1>2, WithModelType, ToBrightnessType, BrightenedType DEF UpsertLightness
<1>6. UpsertHsl(n, got, s) \in ANode
  BY <1>1, <1>2, WithModelType, ModedType, ToBrightnessType, BrightenedType DEF UpsertHsl
<1>7. UpsertCtl(n, got, s) \in ANode
  BY <1>1, <1>2, WithModelType, ModedType, ToBrightnessType, BrightenedType DEF UpsertCtl
<1>8. UpsertLightnessRange(n) \in ANode
  BY <1>1 DEF UpsertLightnessRange, ANode
<1>9. ModelOf[op] \in {"onoff", "level", "lightness", "hsl", "ctl"}
  BY ModelOfIs DEF Models
<1> QED BY <1>3, <1>4, <1>5, <1>6, <1>7, <1>8, <1>9, UpsertedIsOne

LEMMA StoredType ==
  ASSUME NEW n \in ANode, NEW op, NEW got \in ALight
  PROVE  /\ Stored(n, op, got) \in ANode
         /\ StoredLate(n, op, got) \in ANode
         /\ SentMode(n, op) \in ANode
<1>1. got.l \in 0 .. LightMax /\ got.l \in Numbers /\ got.level \in LevelNumbers
      /\ LightMax \in Numbers /\ n.maxL \in Numbers /\ (got.l > 0) \in BOOLEAN /\ "hs" \in Modes
  BY ScalesAre DEF ALight, Numbers, ANode, Modes
<1>2. Brightness(got.l, n.maxL) \in Numbers /\ ToBrightness(n, got.l) \in Numbers
  BY <1>1, BrightnessType, ToBrightnessType
<1>3. Stored(n, op, got) \in ANode
  BY <1>1, <1>2 DEF Stored, ANode
<1>4. StoredLate(n, op, got) \in ANode
  BY <1>1 DEF StoredLate, ANode
<1> QED BY <1>1, <1>3, <1>4 DEF SentMode, ANode

LEMMA ModesType ==
  ASSUME NEW n \in ANode
  PROVE  /\ SupportedModes(n.features) \subseteq Modes \union {"cover", "onoff"}
         /\ \A f : SupportedModes(f) \subseteq Modes \union {"cover", "onoff"}
         /\ \A f : CompositionMode(f) \in Modes
<1>1. \A f : SupportedModes(f) \subseteq Modes \union {"cover", "onoff"}
  BY DEF SupportedModes, Modes
<1> QED BY <1>1 DEF CompositionMode, Modes

\* What a message carries, and what a light makes of it, in a light's terms.
LEMMA SaidType ==
  ASSUME NEW n \in ANode, NEW op
  PROVE  MadeOf(n, op) \in [on : BOOLEAN, l : Numbers, level : LevelNumbers]
<1>1. n.on \in BOOLEAN /\ n.l \in Numbers /\ n.level \in LevelNumbers /\ n.maxL \in Numbers
  BY DEF ANode
<1>2. HslLightness(n.l, n.maxL) \in Numbers
  BY <1>1, HslLightnessType, ScalesAre DEF Numbers
<1>3. NoArgs \in [on : BOOLEAN, l : Numbers, level : LevelNumbers]
  BY ScalesAre DEF NoArgs
<1> QED BY <1>1, <1>2, <1>3 DEF MadeOf, ble_mesh_gen_onoff_set, ble_mesh_gen_level_set,
        ble_mesh_lightness_set, ble_mesh_light_hsl_set, ble_mesh_ctl_set

\* What a light makes of a lightness it is sent.
LEMMA RaisedIs ==
  ASSUME NEW l \in Numbers
  PROVE  LET to == LeastOf(l, LightMax)
         IN /\ Raised(to) \in 0 .. LightMax /\ (Raised(to) > 0 <=> l > 0)
            /\ l = 0 \/ l >= LightMin => Raised(to) = to
<1>1. l \in Nat /\ LightMax \in Nat /\ LightMin \in 1 .. LightMax
  BY LightAssumption, ScalesAre DEF Numbers
<1> QED BY <1>1 DEF Raised, LeastOf, GreatestOf

LEMMA EffectType ==
  ASSUME light \in ALight, NEW op,
         NEW a \in [on : BOOLEAN, l : Numbers, level : LevelNumbers]
  PROVE  Effect(op, a) \in ALight
<1>1. /\ a.on \in BOOLEAN /\ a.l \in Nat /\ a.level \in LevelNumbers
      /\ LightMax \in Nat /\ LightMax > 0
      /\ light.l \in 0 .. LightMax /\ light.was \in 1 .. LightMax /\ {"hs", "color_temp"} \subseteq Modes
  BY ScalesAre DEF ALight, Numbers, Modes
<1> DEFINE to == Raised(LeastOf(a.l, LightMax))
<1>2. /\ to \in 0 .. LightMax /\ (a.l > 0 => to \in 1 .. LightMax)
      /\ light.was \in 0 .. LightMax /\ 0 \in 0 .. LightMax
  BY <1>1, RaisedIs
<1>3. Shine(a.l) \in ALight
  <2>1. Shine(a.l) = [light EXCEPT !.l = to, !.was = IF a.l > 0 THEN to ELSE @]
    BY DEF Shine
  <2> HIDE DEF to
  <2> QED BY <1>1, <1>2, <2>1 DEF ALight
<1>4. [Shine(a.l) EXCEPT !.by = "hs"] \in ALight /\ [Shine(a.l) EXCEPT !.by = "color_temp"] \in ALight
  BY <1>1, <1>3 DEF ALight
<1>5. [light EXCEPT !.l = IF ~a.on THEN 0 ELSE IF @ = 0 THEN light.was ELSE @] \in ALight
  BY <1>1, <1>2 DEF ALight
<1>6. [light EXCEPT !.level = a.level] \in ALight
  BY <1>1 DEF ALight
<1> QED BY <1>3, <1>4, <1>5, <1>6 DEF Effect

(***************************************************************************)
(* Messages.                                                               *)
(***************************************************************************)
LEMMA ItemsType ==
  /\ \A op \in DOMAIN ModelOf \union Local :
       \A a \in [on : BOOLEAN, l : Numbers, level : LevelNumbers] : Item(op, a) \in AnItem
  /\ \A ops \in Seq(DOMAIN ModelOf \union Local) : Items(ops) \in Seq(AnItem)
<1>1. Retries \in Nat \ {0}
  BY LightAssumption
<1>2. \A op \in DOMAIN ModelOf \union Local :
       \A a \in [on : BOOLEAN, l : Numbers, level : LevelNumbers] : Item(op, a) \in AnItem
  BY <1>1 DEF Item, AnItem
<1>3. NoArgs \in [on : BOOLEAN, l : Numbers, level : LevelNumbers]
  BY ScalesAre DEF NoArgs
<1>4. ASSUME NEW ops \in Seq(DOMAIN ModelOf \union Local)
      PROVE  Items(ops) \in Seq(AnItem)
  BY <1>2, <1>3 DEF Items
<1> QED BY <1>2, <1>4

Asks == {"onoffGet", "hslGet", "hslRange", "lightGet", "lightRange", "tempRange", "tempGet",
         "status", "announce"}

LEMMA RefreshOpsType ==
  ASSUME NEW f
  PROVE  RefreshOps(f) \in Seq(Asks) /\ RefreshOps(f) \o <<"announce", "status">> \in Seq(Asks)
<1>1. \A p, r \in Seq(Asks) : p \o r \in Seq(Asks)
  OBVIOUS
<1>2. <<>> \in Seq(Asks)
  OBVIOUS
<1>3. /\ <<"onoffGet">> \in Seq(Asks) /\ <<"hslGet", "hslRange">> \in Seq(Asks)
      /\ <<"lightGet", "lightRange">> \in Seq(Asks) /\ <<"tempRange", "tempGet">> \in Seq(Asks)
      /\ <<"status">> \in Seq(Asks) /\ <<"announce", "status">> \in Seq(Asks)
  BY DEF Asks
<1>4. /\ If("onoff" \in f, <<"onoffGet">>) \in Seq(Asks)
      /\ If("hsl" \in f, <<"hslGet", "hslRange">>) \in Seq(Asks)
      /\ If("lightness" \in f, <<"lightGet", "lightRange">>) \in Seq(Asks)
      /\ If("ctl" \in f, <<"tempRange", "tempGet">>) \in Seq(Asks)
  BY <1>2, <1>3 DEF If
<1>5. RefreshOps(f) \in Seq(Asks)
  BY ONLY <1>1, <1>3, <1>4 DEF RefreshOps
<1> QED BY <1>1, <1>3, <1>5

\* What is asked for, in numbers a message can carry.
LEMMA AskedType ==
  ASSUME LightTypeOK, NEW c \in Commands
  PROVE  /\ AskedLightness(c) \in Numbers /\ ModeOf(node, c) \in Modes
         /\ c.b # Absent => Clamped(node, c.b) \in Numbers /\ Clamped(node, c.b) <= node.maxL
         /\ \A mode, l : l \in Numbers => Rendered(mode, l) \in 0 .. l
         /\ Wanted(c) \in [on : BOOLEAN, cover : BOOLEAN, l : Numbers \union {Absent}]
         /\ HasBrightness(c) \in BOOLEAN /\ Changes(c) \in BOOLEAN /\ c.on \in BOOLEAN
         /\ HasBrightness(c) => c.b # Absent
<1>1. /\ c.on \in BOOLEAN /\ c.b \in Levels \union {Absent} /\ Levels \subseteq 1 .. FullScale
      /\ c.colour \in {"none", "hs", "color_temp"} /\ node.mode \in Modes
      /\ {node.l, node.last, node.maxL} \subseteq Numbers /\ FullScale \in Nat
  BY ScalesAre, LightAssumption DEF Commands, LightTypeOK, ANode
<1>2. ModeOf(node, c) \in Modes
  BY <1>1 DEF ModeOf, Modes
<1>3. c.b # Absent => Clamped(node, c.b) \in Numbers /\ Clamped(node, c.b) <= node.maxL
  <2>1. c.b # Absent => c.b \in 1 .. FullScale
    BY <1>1
  <2>2. node.maxL \in 0 .. FullScale
    BY <1>1 DEF Numbers
  <2> QED BY <1>1, <2>1, <2>2 DEF Clamped, LeastOf, Numbers
<1>4. HasBrightness(c) \in BOOLEAN /\ (HasBrightness(c) => c.b # Absent)
  BY DEF HasBrightness
<1>5. AskedLightness(c) \in Numbers
  BY <1>1, <1>3, <1>4 DEF AskedLightness
<1>6. ASSUME NEW mode, NEW l \in Numbers
      PROVE  Rendered(mode, l) \in 0 .. l /\ Rendered(mode, l) \in Numbers
  <2>1. HslLightness(l, node.maxL) \in 0 .. l
    BY <1>1, HslLightnessType
  <2>2. l \in 0 .. l /\ (0 .. l) \subseteq Numbers
    BY <1>1 DEF Numbers
  <2> QED BY <2>1, <2>2 DEF Rendered
<1>7. Wanted(c) \in [on : BOOLEAN, cover : BOOLEAN, l : Numbers \union {Absent}]
  BY <1>1, <1>3, <1>4, <1>6 DEF Wanted
<1> QED BY <1>1, <1>2, <1>3, <1>4, <1>5, <1>6, <1>7 DEF Changes

LEMMA DiscoveredType ==
  ASSUME NEW n \in ANode, NEW got \in ALight
  PROVE  Discovered(n, got) \in ANode
<1> DEFINE Hear(k, m, op) == IF m \in got.models THEN Upserted(k, op, got, FALSE) ELSE k
<1>1. \A k \in ANode : \A m : \A op \in DOMAIN ModelOf : Hear(k, m, op) \in ANode
  BY UpsertedType
<1>2. Discovered(n, got) =
        Hear(Hear(Hear(Hear(Hear(Hear(n, "onoff", "onoffGet"), "level", "levelSet"),
          "lightness", "lightGet"), "hsl", "hslGet"), "ctl", "tempGet"), "lightness", "lightRange")
  BY DEF Discovered
<1>3. {"onoffGet", "levelSet", "lightGet", "hslGet", "tempGet", "lightRange"} \subseteq DOMAIN ModelOf
  BY ModelOfIs
<1> HIDE DEF Hear
<1> QED BY <1>1, <1>2, <1>3

Shapes ==
  /\ waiting => queue # <<>> /\ Head(queue).op \in DOMAIN ModelOf
  /\ air \notin {Nothing, Lost} => waiting /\ air.op = Head(queue).op
  /\ Standalone /\ heard # Nothing =>
       heard.op \in {"hslRange", "lightRange", "tempGet", "tempRange"}

LEMMA NothingElse ==
  /\ Nothing # Lost
  /\ \A x \in AnAnswer : x # Nothing /\ x # Lost /\ x.op # "lost"
  /\ \A w \in [on : BOOLEAN, cover : BOOLEAN, l : Numbers \union {Absent}] : w # Nothing
<1>1. Nothing.op = "nothing" /\ Lost.op = "lost"
  BY DEF Nothing, Lost
<1>2. \A x \in AnAnswer : x.op # "nothing" /\ x.op # "lost"
  BY ModelOfIs DEF AnAnswer
<1>3. \A w \in [on : BOOLEAN, cover : BOOLEAN, l : Numbers \union {Absent}] : w # Nothing
  BY DEF Nothing
<1> QED BY <1>1, <1>2, <1>3

LEMMA InitTypeCorrect ==
  ASSUME LightInit
  PROVE  LightTypeOK /\ Shapes
<1>1. edition \in {"standalone", "companion"} /\ waiting = FALSE /\ air = Nothing /\ late = Nothing
      /\ heard = Nothing /\ want = Nothing
  BY DEF LightInit
<1>2. PICK f \in Lights, l \in Lit : \E by \in (IF BothColours(f) THEN {"hs", "color_temp"}
                                              ELSE {CompositionMode(f)}) :
         /\ light = [models |-> f, l |-> l, was |-> IF l > 0 THEN l ELSE LightMax,
                      by |-> by, level |-> LevelMin]
         /\ \/ node = NewNode(edition, f) /\ offered = {} /\ shown = Nothing
            \/ /\ Companion /\ node = Discovered(NewNode(edition, f), light)
               /\ offered = SupportedModes(node.features) /\ shown = StatusOf(node)
         /\ queue = IF Standalone
                      THEN Items(RefreshOps(f) \o <<"announce", "status">>) ELSE <<>>
  BY DEF LightInit
<1>3. PICK by \in Modes :
         /\ light = [models |-> f, l |-> l, was |-> IF l > 0 THEN l ELSE LightMax,
                      by |-> by, level |-> LevelMin]
         /\ \/ node = NewNode(edition, f) /\ offered = {} /\ shown = Nothing
            \/ /\ Companion /\ node = Discovered(NewNode(edition, f), light)
               /\ offered = SupportedModes(node.features) /\ shown = StatusOf(node)
         /\ queue = IF Standalone
                      THEN Items(RefreshOps(f) \o <<"announce", "status">>) ELSE <<>>
  <2>1. CompositionMode(f) \in Modes /\ {"hs", "color_temp"} \subseteq Modes
    BY DEF CompositionMode, Modes
  <2> QED BY <1>2, <2>1
<1>4. f \in SUBSET Models /\ l \in 0 .. LightMax
  BY LightAssumption
<1>5. light \in ALight
  <2>1. l \in Numbers /\ LightMax \in Numbers
    BY <1>4, ScalesAre DEF Numbers
  <2>2. CASE l > 0
    BY <1>3, <1>4, <2>1, <2>2, ScalesAre DEF ALight
  <2>3. CASE ~(l > 0)
    BY <1>3, <1>4, <2>1, <2>3, ScalesAre DEF ALight
  <2> QED BY <2>2, <2>3
<1>6. NewNode(edition, f) \in ANode
  <2>1. CompositionMode(f) \in Modes /\ "brightness" \in Modes /\ 0 \in Numbers /\ FullScale \in Numbers
        /\ 0 \in LevelNumbers
    BY ScalesAre DEF CompositionMode, Modes, Numbers
  <2> QED BY <1>4, <2>1 DEF NewNode, ANode
<1>7. node \in ANode
  BY <1>3, <1>5, <1>6, DiscoveredType
<1>8. offered \subseteq Modes \union {"cover", "onoff"}
  <2>1. \A g : SupportedModes(g) \subseteq Modes \union {"cover", "onoff"}
    BY DEF SupportedModes, Modes
  <2> QED BY <1>3, <2>1
<1>9. queue \in Seq(AnItem)
  <2>1. Asks \subseteq DOMAIN ModelOf \union Local
    BY ModelOfIs DEF Asks, Local
  <2>2. RefreshOps(f) \o <<"announce", "status">> \in Seq(DOMAIN ModelOf \union Local)
    BY <2>1, RefreshOpsType
  <2>3. Items(RefreshOps(f) \o <<"announce", "status">>) \in Seq(AnItem)
    BY <2>2, ItemsType
  <2> QED BY <1>3, <2>3
<1> QED BY <1>1, <1>5, <1>7, <1>8, <1>9 DEF LightTypeOK, Shapes

(***************************************************************************)
(* A command arrives.  As long as nothing is doubted, either the light is  *)
(* as it was asked to be and nothing that could change that is queued, or  *)
(* the last such message of the queue brings it about, however the light   *)
(* is by then.  The Companion queues the values; the Standalone edition    *)
(* makes the message of its record when it sends, so that what is still to *)
(* be stored before must not touch what the message is made of.            *)
(***************************************************************************)
SetsFor(w) == IF w.cover THEN {"levelSet"} ELSE Sets \ {"levelSet"}
Says(k) == IF Standalone THEN MadeOf(node, queue[k].op) ELSE queue[k].args

\* A message with these arguments leaves a light as it is wanted, however it was.
Brings(w, op, a) ==
  IF w.cover THEN a.level = PositionToLevel(w.l)
  ELSE IF op = "onoffSet" THEN w.l = Absent /\ (a.on <=> w.on)
  ELSE IF w.l # Absent THEN LeastOf(a.l, LightMax) = w.l ELSE w.on /\ a.l > 0

\* Nothing the Standalone edition still has to hear is stored before message k is made.
Undisturbed(k) ==
  /\ \A j \in 1 .. (k - 1) : queue[j].op \notin {"lightGet", "hslGet"}
  /\ queue[k].op \in {"onoffSet", "levelSet"} =>
       /\ late = Nothing
       /\ \A j \in 1 .. (k - 1) : queue[j].op \notin {"onoffSet", "onoffGet", "levelSet"}
  /\ queue[k].op = "hslSet" => node.maxL = LightMax

\* Message k is the last that changes what is wanted.
Ahead(k) ==
  /\ queue[k].op \in SetsFor(want)
  /\ \A j \in DOMAIN queue : j > k => queue[j].op \notin SetsFor(want)
  /\ Brings(want, queue[k].op, Says(k))
  /\ k = 1 /\ waiting /\ air \notin {Lost, Nothing} => Arrived
  /\ Standalone => Undisturbed(k)

NoneAhead == \A j \in DOMAIN queue : queue[j].op \notin SetsFor(want)

OnItsWay ==
  want # Nothing /\ Trusted => (NoneAhead /\ Arrived) \/ \E k \in DOMAIN queue : Ahead(k)

LEMMA Appended ==
  ASSUME NEW q \in Seq(AnItem), NEW r \in Seq(AnItem), NEW s, s = q \o r
  PROVE  /\ s \in Seq(AnItem) /\ Len(s) = Len(q) + Len(r)
         /\ \A i \in 1 .. Len(q) : s[i] = q[i]
         /\ \A i \in 1 .. Len(r) : s[Len(q) + i] = r[i]
         /\ \A i \in 1 .. Len(s) : i > Len(q) => i - Len(q) \in 1 .. Len(r) /\ s[i] = r[i - Len(q)]
         /\ q # <<>> => s # <<>> /\ Head(s) = Head(q)
OBVIOUS

\* A command's messages are added behind everything else.
LEMMA CommandAhead ==
  ASSUME LightTypeOK, Shapes,
         NEW r \in Seq(AnItem), queue' = queue \o r, NEW t \in DOMAIN r,
         r[t].op \in SetsFor(want'),
         \A j \in DOMAIN r : j > t => r[j].op \notin SetsFor(want'),
         Brings(want', r[t].op, IF Standalone THEN MadeOf(node', r[t].op) ELSE r[t].args),
         edition' = edition, waiting' = waiting, late' = late,
         Standalone => /\ ~Overwriting
                       /\ \A j \in 1 .. (t - 1) : r[j].op = "onoffSet"
                       /\ r[t].op \in {"onoffSet", "levelSet"} => t = 1
                       /\ r[t].op = "hslSet" => node'.maxL = LightMax
  PROVE  \E k \in DOMAIN queue' : Ahead(k)'
<1>a. queue \in Seq(AnItem) /\ Len(queue) \in Nat /\ t \in 1 .. Len(r) /\ Len(r) \in Nat
  BY DEF LightTypeOK
<1>b. PICK n \in Nat : n = Len(queue)
  BY <1>a
<1>c. PICK k \in Nat : k = n + t
  BY <1>a, <1>b
<1>1. /\ queue \in Seq(AnItem) /\ n \in Nat /\ n = Len(queue) /\ t \in 1 .. Len(r) /\ Len(r) \in Nat
      /\ k \in Nat /\ k = n + t
  BY <1>a, <1>b, <1>c
<1>2. /\ queue' \in Seq(AnItem) /\ Len(queue') = n + Len(r)
      /\ \A i \in 1 .. n : queue'[i] = queue[i]
      /\ \A i \in 1 .. Len(r) : queue'[n + i] = r[i]
      /\ \A i \in 1 .. Len(queue') : i > n => i - n \in 1 .. Len(r) /\ queue'[i] = r[i - n]
  BY <1>1, Appended
<1>3. k \in DOMAIN queue' /\ queue'[k] = r[t] /\ k \in Nat
  BY <1>1, <1>2
<1>4. \A j \in DOMAIN queue' : j > k => queue'[j].op \notin SetsFor(want')
  <2>1. SUFFICES ASSUME NEW j \in DOMAIN queue', j > k
                 PROVE  queue'[j].op \notin SetsFor(want')
    OBVIOUS
  <2>2. j \in 1 .. Len(queue') /\ j > n /\ j - n > t
    BY <1>1, <1>2, <2>1
  <2>3. j - n \in DOMAIN r /\ queue'[j] = r[j - n]
    BY <1>1, <1>2, <2>2
  <2> QED BY <2>2, <2>3
<1>5. k = 1 => ~waiting'
  BY <1>1 DEF Shapes
<1>6. Says(k)' = IF Standalone THEN MadeOf(node', r[t].op) ELSE r[t].args
  BY <1>1, <1>2, <1>3 DEF Says, Standalone
<1>7. ASSUME Standalone
      PROVE  Undisturbed(k)'
  <2>1. late = Nothing
        /\ \A j \in 1 .. n : queue[j].op \notin {"onoffSet", "onoffGet", "levelSet", "lightGet", "hslGet"}
    <3>1. late = Nothing /\ ~(\E i \in DOMAIN queue :
            queue[i].op \in {"onoffSet", "onoffGet", "levelSet", "lightGet", "hslGet"})
      BY <1>7 DEF Overwriting, Pending
    <3>2. DOMAIN queue = 1 .. n
      BY <1>1
    <3> QED BY <3>1, <3>2
  <2>2. \A j \in 1 .. (k - 1) : j \in 1 .. n \/ j - n \in 1 .. (t - 1)
    BY <1>1
  <2>3. \A j \in 1 .. (k - 1) : /\ queue'[j].op \notin {"lightGet", "hslGet"}
                                /\ j \in 1 .. n => queue'[j].op \notin {"onoffSet", "onoffGet", "levelSet"}
    <3>1. SUFFICES ASSUME NEW j \in 1 .. (k - 1)
                   PROVE  /\ queue'[j].op \notin {"lightGet", "hslGet"}
                          /\ j \in 1 .. n => queue'[j].op \notin {"onoffSet", "onoffGet", "levelSet"}
      OBVIOUS
    <3>2. CASE j \in 1 .. n
      BY <1>2, <2>1, <3>2 DEF LightTypeOK
    <3>3. CASE j \notin 1 .. n
      <4>1. j - n \in 1 .. (t - 1) /\ j \in 1 .. Len(queue') /\ j > n
        BY <1>1, <1>2, <2>2, <3>3
      <4> QED BY <1>2, <1>7, <3>3, <4>1
    <3> QED BY <3>2, <3>3
  <2>4. r[t].op \in {"onoffSet", "levelSet"} => \A j \in 1 .. (k - 1) : j \in 1 .. n
    BY <1>1, <1>7
  <2> QED BY <1>3, <1>7, <2>1, <2>3, <2>4 DEF Undisturbed
<1>8. Ahead(k)'
  <2> QED BY <1>3, <1>4, <1>5, <1>6, <1>7 DEF Ahead, Standalone
<1> QED BY <1>3, <1>8

LEMMA Clean ==
  ASSUME NEW c, Trusted', NewDoubts(c) \subseteq doubts'
  PROVE  /\ ~Overwriting /\ (Changes(c) => node.maxL = LightMax)
         /\ ~(Changes(c) /\ ~HasBrightness(c) /\ Rendered(ModeOf(node, c), Kept) = 0)
BY DEF Trusted, NewDoubts

\* A colour alone goes out with the brightness there is to keep.
LEMMA ColourKeeps ==
  ASSUME LightTypeOK, NEW c \in Commands, Companion => c.b = Absent,
         Changes(c), ~HasBrightness(c)
  PROVE  AskedLightness(c) = Kept
<1>1. c.colour \in {"hs", "color_temp"}
  BY DEF Changes, Commands
<1>2. ModeOf(node, c) # "brightness"
  BY <1>1 DEF ModeOf
<1>3. node.l \in Nat
  BY ScalesAre DEF LightTypeOK, ANode, Numbers
<1>4. edition \in {"standalone", "companion"}
  BY DEF LightTypeOK
<1> QED BY <1>2, <1>3, <1>4 DEF AskedLightness, Kept, Standalone, Companion

\* What a command sends brings about what it asks for.
LEMMA CommandBrings ==
  ASSUME LightTypeOK, NEW c \in Commands, Trusted', NewDoubts(c) \subseteq doubts', NEW a,
         Companion /\ ~HasBrightness(c) => c.b = Absent
  PROVE  /\ Wanted(c).cover = FALSE /\ Wanted(c).on = c.on
         /\ ~Changes(c) /\ (a.on <=> c.on) => Brings(Wanted(c), "onoffSet", a)
         /\ Changes(c) /\ a.l = Rendered(ModeOf(node, c), AskedLightness(c)) =>
              \A op : op # "onoffSet" => Brings(Wanted(c), op, a)
<1> DEFINE w == Wanted(c)
           mode == ModeOf(node, c)
<1>1. /\ Changes(c) => node.maxL = LightMax
      /\ ~(Changes(c) /\ ~HasBrightness(c) /\ Rendered(mode, AskedLightness(c)) = 0)
  BY Clean, ColourKeeps
<1>2. w = [on |-> c.on, cover |-> FALSE,
           l |-> IF HasBrightness(c) /\ c.on THEN Rendered(mode, Clamped(node, c.b)) ELSE Absent]
  BY DEF Wanted
<1>3. w.cover = FALSE /\ w.on = c.on
      /\ w.l = IF HasBrightness(c) /\ c.on THEN Rendered(mode, Clamped(node, c.b)) ELSE Absent
  <2> HIDE DEF mode
  <2> QED BY <1>2
<1>4. ~Changes(c) => w.l = Absent
  BY <1>3 DEF Changes
<1>5. ASSUME Changes(c), a.l = Rendered(mode, AskedLightness(c))
      PROVE  IF w.l # Absent THEN LeastOf(a.l, LightMax) = w.l ELSE w.on /\ a.l > 0
  <2>1. c.on
    BY <1>5 DEF Changes
  <2>2. AskedLightness(c) \in Numbers /\ HasBrightness(c) \in BOOLEAN
        /\ (\A m, l : l \in Numbers => Rendered(m, l) \in 0 .. l)
        /\ (HasBrightness(c) => c.b # Absent)
        /\ (c.b # Absent => Clamped(node, c.b) \in Numbers /\ Clamped(node, c.b) <= node.maxL)
    BY AskedType
  <2>3. CASE HasBrightness(c)
    <3>1. AskedLightness(c) = Clamped(node, c.b)
      BY <2>2, <2>3 DEF AskedLightness
    <3>2. a.l = w.l /\ Clamped(node, c.b) \in Nat /\ Clamped(node, c.b) <= LightMax
          /\ w.l \in 0 .. Clamped(node, c.b) /\ LightMax \in Nat
      BY <1>1, <1>3, <1>5, <2>1, <2>2, <2>3, <3>1, ScalesAre DEF Numbers
    <3>3. w.l \in Nat /\ w.l <= LightMax
      BY <3>2
    <3> QED BY <3>2, <3>3 DEF LeastOf, Absent
  <2>4. CASE ~HasBrightness(c)
    <3>1. w.l = Absent /\ w.on
      BY <1>3, <2>1, <2>4
    <3>2. a.l \in Nat /\ a.l # 0
      BY <1>1, <1>5, <2>2, <2>4, ScalesAre DEF Numbers
    <3> QED BY <3>1, <3>2
  <2> QED BY <2>3, <2>4
<1> QED BY <1>3, <1>4, <1>5 DEF Brings

(***************************************************************************)
(* Commands of Home Assistant.                                             *)
(***************************************************************************)
LEMMA Joined ==
  ASSUME NEW S, NEW x \in S, NEW y \in S, NEW z \in S
  PROVE  <<x>> \o <<y>> = <<x, y>> /\ <<x, y>> \o <<z>> = <<x, y, z>>
<1>1. /\ <<x>> \in Seq(S) /\ <<y>> \in Seq(S) /\ <<x, y>> \in Seq(S) /\ <<z>> \in Seq(S)
      /\ <<x, y, z>> \in Seq(S) /\ Len(<<x>>) = 1 /\ Len(<<x, y>>) = 2
      /\ Len(<<y>>) = 1 /\ Len(<<z>>) = 1 /\ Len(<<x, y, z>>) = 3
  OBVIOUS
<1>2. /\ <<x>>[1] = x /\ <<y>>[1] = y /\ <<z>>[1] = z /\ <<x, y>>[1] = x /\ <<x, y>>[2] = y
      /\ <<x, y, z>>[1] = x /\ <<x, y, z>>[2] = y /\ <<x, y, z>>[3] = z
  OBVIOUS
<1>3. <<x>> \o <<y>> = <<x, y>>
  <2>1. /\ <<x>> \o <<y>> \in Seq(S) /\ Len(<<x>> \o <<y>>) = 2
        /\ (<<x>> \o <<y>>)[1] = x /\ (<<x>> \o <<y>>)[2] = y
    BY <1>1, <1>2, ConcatProperties
  <2>2. \A i \in 1 .. 2 : (<<x>> \o <<y>>)[i] = <<x, y>>[i]
    BY <1>2, <2>1
  <2> QED BY <1>1, <2>1, <2>2, SeqEqual
<1>4. <<x, y>> \o <<z>> = <<x, y, z>>
  <2>1. /\ <<x, y>> \o <<z>> \in Seq(S) /\ Len(<<x, y>> \o <<z>>) = 3
        /\ (<<x, y>> \o <<z>>)[1] = x /\ (<<x, y>> \o <<z>>)[2] = y /\ (<<x, y>> \o <<z>>)[3] = z
    BY <1>1, <1>2, ConcatProperties
  <2>2. \A i \in 1 .. 3 : (<<x, y>> \o <<z>>)[i] = <<x, y, z>>[i]
    BY <1>2, <2>1
  <2> QED BY <1>1, <2>1, <2>2, SeqEqual
<1> QED BY <1>3, <1>4

LEMMA ItemsAre ==
  ASSUME NEW a \in DOMAIN ModelOf \union Local, NEW b \in DOMAIN ModelOf \union Local,
         NEW c \in DOMAIN ModelOf \union Local
  PROVE  /\ Items(<<a>> \o <<b>> \o <<c>>) = <<Item(a, NoArgs), Item(b, NoArgs), Item(c, NoArgs)>>
         /\ Items(<<a>> \o <<>> \o <<c>>) = <<Item(a, NoArgs), Item(c, NoArgs)>>
         /\ Items(<<a, c>>) = <<Item(a, NoArgs), Item(c, NoArgs)>>
<1>1. <<a>> \o <<b>> \o <<c>> = <<a, b, c>> /\ <<a>> \o <<>> \o <<c>> = <<a, c>>
  <2>1. <<a>> \o <<>> = <<a>>
    BY ConcatEmptySeq
  <2>2. <<a>> \o <<b>> = <<a, b>> /\ <<a, b>> \o <<c>> = <<a, b, c>> /\ <<a>> \o <<c>> = <<a, c>>
    BY Joined
  <2> QED BY ONLY <2>1, <2>2
<1>2. Items(<<a, b, c>>) = <<Item(a, NoArgs), Item(b, NoArgs), Item(c, NoArgs)>>
  BY DEF Items
<1>3. Items(<<a, c>>) = <<Item(a, NoArgs), Item(c, NoArgs)>>
  BY DEF Items
<1> QED BY <1>1, <1>2, <1>3

LEMMA OpOfItem == \A op, a : Item(op, a).op = op /\ Item(op, a).args = a
BY DEF Item

LEMMA CommandKeeps ==
  ASSUME LightTypeOK, Shapes, NEW r \in Seq(AnItem), queue' = queue \o r, node' \in ANode,
         want' \in [on : BOOLEAN, cover : BOOLEAN, l : Numbers \union {Absent}],
         UNCHANGED <<edition, light, waiting, air, late, heard, offered>>
  PROVE  LightTypeOK' /\ Shapes'
<1>1. queue' \in Seq(AnItem) /\ (queue # <<>> => queue' # <<>> /\ Head(queue') = Head(queue))
  BY Appended DEF LightTypeOK
<1>2. LightTypeOK'
  BY <1>1 DEF LightTypeOK
<1>3. (waiting => queue' # <<>> /\ Head(queue').op = Head(queue).op)
  BY <1>1 DEF Shapes
<1>4. air \notin {Nothing, Lost} => waiting /\ air.op = Head(queue').op
  BY <1>1 DEF Shapes
<1>5. waiting => Head(queue').op \in DOMAIN ModelOf
  BY <1>1 DEF Shapes
<1> QED BY <1>2, <1>3, <1>4, <1>5 DEF Shapes, Standalone

LEMMA LightCommandKeeps ==
  ASSUME LightTypeOK, Shapes, NEW c \in Commands, LightCommand(c)
  PROVE  LightTypeOK' /\ Shapes' /\ OnItsWay'
<1>1. /\ want' = Wanted(c) /\ NewDoubts(c) \subseteq doubts'
      /\ UNCHANGED <<edition, light, waiting, air, late, heard, offered>>
  BY DEF LightCommand, Given
<1>2. /\ AskedLightness(c) \in Numbers /\ ModeOf(node, c) \in Modes
      /\ Wanted(c) \in [on : BOOLEAN, cover : BOOLEAN, l : Numbers \union {Absent}]
      /\ Changes(c) \in BOOLEAN /\ c.on \in BOOLEAN
  BY AskedType
<1>3. Wanted(c).cover = FALSE
  BY DEF Wanted
<1>4. SetsFor(want') = {"onoffSet", "lightSet", "hslSet", "ctlSet"}
  BY <1>1, <1>3 DEF SetsFor, Sets
<1>5. SetFor[ModeOf(node, c)] \in {"lightSet", "hslSet", "ctlSet"}
  BY <1>2 DEF SetFor, Modes
<1>6. {"onoffSet", "lightSet", "hslSet", "ctlSet", "status"} \subseteq DOMAIN ModelOf \union Local
  BY ModelOfIs DEF Local
<1>7. NoArgs \in [on : BOOLEAN, l : Numbers, level : LevelNumbers]
  BY ScalesAre DEF NoArgs
<1>7a. Companion /\ ~HasBrightness(c) => c.b = Absent
  BY DEF LightCommand, HasBrightness, Companion, Standalone
<1>8. CASE Standalone
  <2> DEFINE m == SetFor[ModeOf(node, c)]
             r == Items(<<"onoffSet">> \o If(Changes(c), <<m>>) \o <<"status">>)
             x == Item("onoffSet", NoArgs)
             y == Item(m, NoArgs)
             z == Item("status", NoArgs)
  <2>1. /\ node' = [node EXCEPT !.on = c.on, !.l = IF Changes(c) THEN AskedLightness(c) ELSE @,
                       !.mode = IF Changes(c) /\ ModeOf(node, c) = "color_temp" THEN ModeOf(node, c) ELSE @]
        /\ queue' = queue \o r
    BY <1>8 DEF LightCommand, StandaloneCommand
  <2>2. {x, y, z} \subseteq AnItem /\ x.op = "onoffSet" /\ y.op = m /\ z.op = "status"
    BY <1>5, <1>6, <1>7, ItemsType, OpOfItem
  <2>3. r = IF Changes(c) THEN <<x, y, z>> ELSE <<x, z>>
    <3>1. m \in DOMAIN ModelOf \union Local
      BY <1>5, <1>6
    <3> HIDE DEF m
    <3> QED BY <1>6, <3>1, ItemsAre DEF If
  <2>4. node' \in ANode /\ node'.on = c.on /\ node'.maxL = node.maxL
        /\ (Changes(c) => node'.l = AskedLightness(c))
    BY <1>2, <2>1 DEF LightTypeOK, ANode
  <2> HIDE DEF r, x, y, z, m
  <2>5. <<x, y, z>> \in Seq(AnItem) /\ <<x, z>> \in Seq(AnItem)
    BY <2>2
  <2>6. LightTypeOK' /\ Shapes'
    BY <1>1, <1>2, <2>1, <2>3, <2>4, <2>5, CommandKeeps
  <2>7. ASSUME Trusted'
        PROVE  \E k \in DOMAIN queue' : Ahead(k)'
    <3>1. ~Overwriting /\ (Changes(c) => node.maxL = LightMax)
      BY <1>1, <2>7, Clean
    <3>2. CASE Changes(c)
      <4> DEFINE a == MadeOf(node', m)
      <4>1. r = <<x, y, z>> /\ r \in Seq(AnItem) /\ 2 \in DOMAIN r /\ r[2] = y
            /\ (\A j \in DOMAIN r : j > 2 => r[j] = z) /\ r[1] = x
        BY <2>3, <2>5, <3>2
      <4>2. a.l = Rendered(ModeOf(node, c), AskedLightness(c))
        BY <1>2, <2>4, <3>2 DEF MadeOf, m, SetFor, Modes, Rendered, ble_mesh_lightness_set,
           ble_mesh_light_hsl_set, ble_mesh_ctl_set, NoArgs
      <4>3. Brings(want', m, a)
        BY <1>1, <1>5, <1>7a, <2>7, <3>2, <4>2, CommandBrings DEF m
      <4>4. /\ r[2].op = m /\ r[2].op \in SetsFor(want')
            /\ \A j \in DOMAIN r : j > 2 => r[j].op \notin SetsFor(want')
            /\ \A j \in 1 .. (2 - 1) : r[j].op = "onoffSet"
            /\ r[2].op \notin {"onoffSet", "levelSet"}
        BY <1>4, <1>5, <2>2, <4>1 DEF m
      <4> HIDE DEF a
      <4>5. Brings(want', r[2].op, IF Standalone THEN MadeOf(node', r[2].op) ELSE r[2].args)
        BY <1>8, <4>3, <4>4 DEF a
      <4>6. node'.maxL = LightMax /\ ~Overwriting
        BY <2>4, <3>1, <3>2
      <4> QED BY <1>1, <2>1, <4>1, <4>4, <4>5, <4>6, CommandAhead
    <3>3. CASE ~Changes(c)
      <4> DEFINE a == MadeOf(node', "onoffSet")
      <4>1. r = <<x, z>> /\ r \in Seq(AnItem) /\ 1 \in DOMAIN r /\ r[1] = x
            /\ (\A j \in DOMAIN r : j > 1 => r[j] = z)
        BY <2>3, <2>5, <3>3
      <4>2. a.on = c.on
        BY <2>4 DEF MadeOf, ble_mesh_gen_onoff_set, NoArgs
      <4>3. Brings(want', "onoffSet", a)
        BY <1>1, <1>7a, <2>7, <3>3, <4>2, CommandBrings
      <4>4. /\ r[1].op = "onoffSet" /\ r[1].op \in SetsFor(want')
            /\ \A j \in DOMAIN r : j > 1 => r[j].op \notin SetsFor(want')
            /\ \A j \in 1 .. (1 - 1) : r[j].op = "onoffSet"
        BY <1>4, <2>2, <4>1
      <4> HIDE DEF a
      <4>5. Brings(want', r[1].op, IF Standalone THEN MadeOf(node', r[1].op) ELSE r[1].args)
        BY <1>8, <4>3, <4>4 DEF a
      <4> QED BY <1>1, <2>1, <2>4, <3>1, <4>1, <4>4, <4>5, CommandAhead
    <3> QED BY <3>2, <3>3
  <2> QED BY <2>6, <2>7 DEF OnItsWay
<1>9. CASE ~Standalone
  <2> DEFINE y == ExternalSet(node, ModeOf(node, c), AskedLightness(c))
             x == external_command(c.on)
  <2>1. PICK state \in IF Changes(c) THEN {<<>>, <<x>>} ELSE {<<x>>} :
          queue' = queue \o state \o If(Changes(c), <<y>>)
    BY <1>9 DEF LightCommand, CompanionCommand
  <2>2. node' = node
    BY <1>9 DEF LightCommand, CompanionCommand
  <2>3. x \in AnItem /\ x.op = "onoffSet" /\ x.args.on = c.on
    <3>1. [NoArgs EXCEPT !.on = c.on] \in [on : BOOLEAN, l : Numbers, level : LevelNumbers]
          /\ [NoArgs EXCEPT !.on = c.on].on = c.on
      BY <1>2, ScalesAre DEF NoArgs
    <3> QED BY <1>6, <3>1, ItemsType, OpOfItem DEF external_command
  <2>4. y \in AnItem /\ y.op \in {"lightSet", "hslSet", "ctlSet"}
        /\ y.args.l = Rendered(ModeOf(node, c), AskedLightness(c))
    <3>1. \A l \in Numbers : /\ [NoArgs EXCEPT !.l = l] \in [on : BOOLEAN, l : Numbers, level : LevelNumbers]
                             /\ [NoArgs EXCEPT !.l = l].l = l
      BY ScalesAre DEF NoArgs
    <3>2. HslLightness(AskedLightness(c), node.maxL) \in Numbers
      BY <1>2, HslLightnessType DEF LightTypeOK, ANode
    <3>3. \A l \in Numbers : \A op \in {"lightSet", "hslSet", "ctlSet"} :
            /\ Item(op, [NoArgs EXCEPT !.l = l]) \in AnItem /\ Item(op, [NoArgs EXCEPT !.l = l]).op = op
            /\ Item(op, [NoArgs EXCEPT !.l = l]).args.l = l
      BY <1>6, <3>1, ItemsType, OpOfItem
    <3> QED BY <1>2, <3>2, <3>3 DEF ExternalSet, Modes, Rendered, external_lightness_command,
                 external_hsl_command, external_ctl_command
  <2> HIDE DEF x, y
  <2>5. <<x, y>> \in Seq(AnItem) /\ <<x>> \in Seq(AnItem) /\ <<y>> \in Seq(AnItem)
        /\ queue \in Seq(AnItem)
    BY <2>3, <2>4 DEF LightTypeOK
  <2>6. \/ Changes(c) /\ queue' = queue \o <<x, y>>
        \/ Changes(c) /\ queue' = queue \o <<y>>
        \/ ~Changes(c) /\ queue' = queue \o <<x>>
    <3>1. (queue \o <<x>>) \o <<y>> = queue \o <<x, y>>
      <4>1. <<x>> \o <<y>> = <<x, y>>
        BY <2>3, <2>4, Joined
      <4>2. (queue \o <<x>>) \o <<y>> = queue \o (<<x>> \o <<y>>)
        BY <2>5, ConcatAssociative
      <4> QED BY ONLY <4>1, <4>2
    <3>2. queue \o <<>> = queue
      BY <2>5
    <3>3. (queue \o <<x>>) \o <<>> = queue \o <<x>>
      BY <2>5
    <3> QED BY <2>1, <3>1, <3>2, <3>3 DEF If
  <2>7. LightTypeOK' /\ Shapes'
    BY <1>1, <1>2, <2>2, <2>5, <2>6, CommandKeeps DEF LightTypeOK
  <2>8. ASSUME Trusted'
        PROVE  \E k \in DOMAIN queue' : Ahead(k)'
    <3>1. Changes(c) => Brings(want', y.op, y.args)
      BY <1>1, <1>7a, <2>4, <2>8, CommandBrings
    <3>2. ~Changes(c) => Brings(want', x.op, x.args)
      BY <1>1, <1>7a, <2>3, <2>8, CommandBrings
    <3>3. x.op \in SetsFor(want') /\ y.op \in SetsFor(want')
      BY <1>4, <2>3, <2>4
    <3>4. CASE Changes(c) /\ queue' = queue \o <<x, y>>
      <4> DEFINE r == <<x, y>>
      <4>1. r \in Seq(AnItem) /\ 2 \in DOMAIN r /\ r[2] = y /\ (\A j \in DOMAIN r : ~(j > 2))
        BY <2>5
      <4> HIDE DEF r
      <4> QED BY <1>1, <1>9, <3>1, <3>3, <3>4, <4>1, CommandAhead DEF r
    <3>5. CASE Changes(c) /\ queue' = queue \o <<y>>
      <4> DEFINE r == <<y>>
      <4>1. r \in Seq(AnItem) /\ 1 \in DOMAIN r /\ r[1] = y /\ (\A j \in DOMAIN r : ~(j > 1))
        BY <2>5
      <4> HIDE DEF r
      <4> QED BY <1>1, <1>9, <3>1, <3>3, <3>5, <4>1, CommandAhead DEF r
    <3>6. CASE ~Changes(c) /\ queue' = queue \o <<x>>
      <4> DEFINE r == <<x>>
      <4>1. r \in Seq(AnItem) /\ 1 \in DOMAIN r /\ r[1] = x /\ (\A j \in DOMAIN r : ~(j > 1))
        BY <2>5
      <4> HIDE DEF r
      <4> QED BY <1>1, <1>9, <3>2, <3>3, <3>6, <4>1, CommandAhead DEF r
    <3> QED BY <2>6, <3>4, <3>5, <3>6
  <2> QED BY <2>7, <2>8 DEF OnItsWay
<1> QED BY <1>8, <1>9

(***************************************************************************)
(* Covers, and the commands of the page and the console.                   *)
(***************************************************************************)
LEMMA CoverCommandKeeps ==
  ASSUME LightTypeOK, Shapes, NEW p \in 0 .. Percent, CoverCommand(p)
  PROVE  LightTypeOK' /\ Shapes' /\ OnItsWay'
<1>1. /\ want' = [on |-> TRUE, cover |-> TRUE, l |-> p]
      /\ doubts' = doubts \union (IF Overwriting THEN {"overwritten"} ELSE {})
      /\ UNCHANGED <<edition, light, waiting, air, late, heard, offered>>
  BY DEF CoverCommand
<1>2. PositionToLevel(p) \in LevelNumbers /\ p \in Numbers
  BY PositionType, ScalesAre DEF Numbers
<1>3. want' \in [on : BOOLEAN, cover : BOOLEAN, l : Numbers \union {Absent}]
      /\ SetsFor(want') = {"levelSet"}
      /\ (\A a : a.level = PositionToLevel(p) => Brings(want', "levelSet", a))
  BY <1>1, <1>2 DEF SetsFor, Brings
<1>4. {"levelSet", "status"} \subseteq DOMAIN ModelOf \union Local
  BY ModelOfIs DEF Local
<1>5. NoArgs \in [on : BOOLEAN, l : Numbers, level : LevelNumbers]
  BY ScalesAre DEF NoArgs
<1>6. Trusted' => ~Overwriting
  BY <1>1 DEF Trusted
<1>7. CASE Standalone
  <2> DEFINE x == Item("levelSet", NoArgs)
             z == Item("status", NoArgs)
             r == <<x, z>>
             a == MadeOf(node', "levelSet")
  <2>1. node' = [node EXCEPT !.level = PositionToLevel(p)] /\ queue' = queue \o r
    BY <1>4, <1>7, ItemsAre DEF CoverCommand
  <2>2. x \in AnItem /\ z \in AnItem /\ x.op = "levelSet" /\ z.op = "status"
    BY <1>4, <1>5, ItemsType, OpOfItem
  <2>3. node' \in ANode /\ node'.level = PositionToLevel(p)
    BY <1>2, <2>1 DEF LightTypeOK, ANode
  <2>4. Brings(want', "levelSet", a)
    <3>1. a.level = PositionToLevel(p)
      BY <2>3 DEF MadeOf, ble_mesh_gen_level_set, NoArgs
    <3> QED BY <1>3, <3>1
  <2> HIDE DEF x, z, a
  <2>5. r \in Seq(AnItem) /\ 1 \in DOMAIN r /\ r[1] = x /\ \A j \in DOMAIN r : j > 1 => r[j] = z
    BY <2>2
  <2> HIDE DEF r
  <2>6. LightTypeOK' /\ Shapes'
    BY <1>1, <1>3, <2>1, <2>3, <2>5, CommandKeeps
  <2>7. Brings(want', r[1].op, IF Standalone THEN MadeOf(node', r[1].op) ELSE r[1].args)
    BY <1>7, <2>2, <2>4, <2>5 DEF a
  <2>8. ASSUME Trusted'
        PROVE  \E k \in DOMAIN queue' : Ahead(k)'
    <3>1. /\ r[1].op = "levelSet" /\ r[1].op \in SetsFor(want')
          /\ \A j \in DOMAIN r : j > 1 => r[j].op \notin SetsFor(want')
          /\ \A j \in 1 .. (1 - 1) : r[j].op = "onoffSet"
      BY <1>3, <2>2, <2>5
    <3> QED BY <1>1, <1>6, <2>1, <2>5, <2>7, <2>8, <3>1, CommandAhead
  <2> QED BY <2>6, <2>8 DEF OnItsWay
<1>8. CASE ~Standalone
  <2> DEFINE x == external_level_command(PositionToLevel(p))
             r == <<x>>
  <2>1. node' = node /\ queue' = Append(queue, x)
    BY <1>8 DEF CoverCommand
  <2>2. x \in AnItem /\ x.op = "levelSet" /\ x.args.level = PositionToLevel(p)
    <3>1. /\ [NoArgs EXCEPT !.level = PositionToLevel(p)] \in [on : BOOLEAN, l : Numbers, level : LevelNumbers]
          /\ [NoArgs EXCEPT !.level = PositionToLevel(p)].level = PositionToLevel(p)
      BY <1>2, ScalesAre DEF NoArgs
    <3> QED BY <1>4, <3>1, ItemsType, OpOfItem DEF external_level_command
  <2> HIDE DEF x
  <2>3. r \in Seq(AnItem) /\ 1 \in DOMAIN r /\ r[1] = x /\ (\A j \in DOMAIN r : ~(j > 1))
    BY <2>2
  <2>4. queue' = queue \o r
    BY <2>1, <2>2, AppendIsConcat DEF LightTypeOK
  <2> HIDE DEF r
  <2>5. LightTypeOK' /\ Shapes'
    BY <1>1, <1>3, <2>1, <2>3, <2>4, CommandKeeps DEF LightTypeOK
  <2>6. \E k \in DOMAIN queue' : Ahead(k)'
    <3>1. /\ r[1].op = "levelSet" /\ r[1].op \in SetsFor(want')
          /\ \A j \in DOMAIN r : j > 1 => r[j].op \notin SetsFor(want')
      BY <1>3, <2>2, <2>3
    <3>2. Brings(want', r[1].op, IF Standalone THEN MadeOf(node', r[1].op) ELSE r[1].args)
      BY <1>3, <1>8, <2>2, <2>3
    <3> QED BY <1>1, <1>8, <2>3, <2>4, <3>1, <3>2, CommandAhead
  <2> QED BY <2>5, <2>6 DEF OnItsWay
<1> QED BY <1>7, <1>8

\* The page's and the console's commands: one message, made of the record.
LEMMA OneMessage ==
  ASSUME LightTypeOK, Shapes, Standalone, node' \in ANode,
         NEW op \in {"onoffSet", "lightSet", "hslSet"}, queue' = Append(queue, Item(op, NoArgs)),
         want' \in [on : BOOLEAN, cover : BOOLEAN, l : Numbers \union {Absent}],
         want'.cover = FALSE,
         Trusted' => /\ Brings(want', op, MadeOf(node', op)) /\ ~Overwriting
                     /\ op = "hslSet" => node'.maxL = LightMax,
         UNCHANGED <<edition, light, waiting, air, late, heard, offered>>
  PROVE  LightTypeOK' /\ Shapes' /\ OnItsWay'
<1> DEFINE x == Item(op, NoArgs)
           r == <<x>>
<1>1. x \in AnItem /\ x.op = op
  <2>1. op \in DOMAIN ModelOf \union Local
    BY ModelOfIs
  <2>2. NoArgs \in [on : BOOLEAN, l : Numbers, level : LevelNumbers]
    BY ScalesAre DEF NoArgs
  <2> QED BY <2>1, <2>2, ItemsType, OpOfItem
<1>2. queue' = queue \o r
  BY <1>1, AppendIsConcat DEF LightTypeOK
<1> HIDE DEF x
<1>3. r \in Seq(AnItem) /\ 1 \in DOMAIN r /\ r[1] = x /\ \A j \in DOMAIN r : ~(j > 1)
  BY <1>1
<1> HIDE DEF r
<1>4. LightTypeOK' /\ Shapes'
  BY <1>2, <1>3, CommandKeeps
<1>5. SetsFor(want') = {"onoffSet", "lightSet", "hslSet", "ctlSet"}
  BY DEF SetsFor, Sets
<1>6. ASSUME Trusted'
      PROVE  \E k \in DOMAIN queue' : Ahead(k)'
  <2>1. r[1].op = op /\ r[1].op \in SetsFor(want') /\ r[1].op # "levelSet"
    BY <1>1, <1>3, <1>5
  <2>2. \A j \in 1 .. (1 - 1) : r[j].op = "onoffSet"
    OBVIOUS
  <2>3. Brings(want', r[1].op, IF Standalone THEN MadeOf(node', r[1].op) ELSE r[1].args)
    BY <1>6, <2>1
  <2>4. \A j \in DOMAIN r : j > 1 => r[j].op \notin SetsFor(want')
    BY <1>3
  <2> QED BY <1>2, <1>3, <1>6, <2>1, <2>2, <2>3, <2>4, CommandAhead
<1> QED BY <1>4, <1>6 DEF OnItsWay

LEMMA PageCommandsKeep ==
  ASSUME LightTypeOK, Shapes, NEW c \in Commands, set_onoff_handler(c) \/ set_hsl_handler(c)
  PROVE  LightTypeOK' /\ Shapes' /\ OnItsWay'
<1>1. /\ Standalone /\ want' = Wanted(c) /\ NewDoubts(c) \subseteq doubts'
      /\ UNCHANGED <<edition, light, waiting, air, late, heard, offered>>
  BY DEF set_onoff_handler, set_hsl_handler, ByPage
<1>2. /\ AskedLightness(c) \in Numbers /\ Changes(c) \in BOOLEAN /\ c.on \in BOOLEAN
      /\ Wanted(c) \in [on : BOOLEAN, cover : BOOLEAN, l : Numbers \union {Absent}]
      /\ Wanted(c).cover = FALSE /\ (HasBrightness(c) => c.b # Absent)
      /\ (c.b # Absent => Clamped(node, c.b) \in Numbers)
  BY AskedType DEF Wanted
<1>3. Trusted' => ~Overwriting /\ (Changes(c) => node.maxL = LightMax)
  BY <1>1, Clean
<1>4. CASE set_onoff_handler(c)
  <2>1. /\ node' = [node EXCEPT !.on = c.on] /\ queue' = Append(queue, Item("onoffSet", NoArgs))
        /\ c.b = Absent /\ c.colour = "none"
    BY <1>4 DEF set_onoff_handler
  <2>2. node' \in ANode /\ node'.on = c.on
    BY <1>2, <2>1 DEF LightTypeOK, ANode
  <2>3. ~Changes(c)
    BY <1>2, <2>1 DEF Changes
  <2>4. Trusted' => Brings(want', "onoffSet", MadeOf(node', "onoffSet"))
    <3>1. MadeOf(node', "onoffSet").on = c.on
      BY <2>2 DEF MadeOf, ble_mesh_gen_onoff_set, NoArgs
    <3> QED BY <1>1, <2>3, <3>1, CommandBrings DEF Companion, Standalone
  <2> QED BY <1>1, <1>2, <1>3, <2>1, <2>2, <2>4, OneMessage
<1>5. CASE set_hsl_handler(c)
  <2>1. /\ node' = [node EXCEPT !.l = Clamped(node, c.b)] /\ queue' = Append(queue, Item("hslSet", NoArgs))
        /\ "hsl" \in node.features /\ c.on /\ c.b # Absent /\ c.colour = "hs"
    BY <1>5 DEF set_hsl_handler
  <2>2. node' \in ANode /\ node'.l = Clamped(node, c.b) /\ node'.maxL = node.maxL
    BY <1>2, <2>1 DEF LightTypeOK, ANode
  <2>3. Changes(c) /\ HasBrightness(c) /\ ModeOf(node, c) = "hs"
    BY <1>1, <2>1 DEF Changes, HasBrightness, ModeOf
  <2>4. Trusted' => Brings(want', "hslSet", MadeOf(node', "hslSet"))
    <3>1. AskedLightness(c) = Clamped(node, c.b)
      BY <2>1, <2>3 DEF AskedLightness
    <3>2. MadeOf(node', "hslSet").l = Rendered(ModeOf(node, c), AskedLightness(c))
      BY <2>2, <2>3, <3>1 DEF MadeOf, ble_mesh_light_hsl_set, NoArgs, Rendered
    <3> QED BY <1>1, <2>3, <3>2, CommandBrings DEF Companion, Standalone
  <2> QED BY <1>1, <1>2, <1>3, <2>1, <2>2, <2>3, <2>4, OneMessage
<1> QED BY <1>4, <1>5

LEMMA SetLightnessKeeps ==
  ASSUME LightTypeOK, Shapes, NEW b \in Levels, SetLightness(b)
  PROVE  LightTypeOK' /\ Shapes' /\ OnItsWay'
<1>1. /\ want' = [on |-> TRUE, cover |-> FALSE, l |-> LeastOf(b, LightMax)]
      /\ (IF Overwriting THEN {"overwritten"} ELSE {}) \subseteq doubts'
      /\ UNCHANGED <<edition, light, waiting, air, late, heard, offered>>
  BY DEF SetLightness
<1>2. b \in Numbers /\ LeastOf(b, LightMax) \in Numbers
  <2>1. b \in 1 .. FullScale
    BY LightAssumption
  <2> QED BY <2>1, ScalesAre DEF Numbers, LeastOf
<1>3. /\ want' \in [on : BOOLEAN, cover : BOOLEAN, l : Numbers \union {Absent}]
      /\ want'.cover = FALSE /\ want'.l = LeastOf(b, LightMax) /\ want'.l # Absent
      /\ SetsFor(want') = {"onoffSet", "lightSet", "hslSet", "ctlSet"}
  BY <1>1, <1>2, ScalesAre DEF SetsFor, Sets, Numbers, Absent
<1>4. Trusted' => ~Overwriting
  BY <1>1 DEF Trusted
<1>5. \A a : a.l = b => Brings(want', "lightSet", a)
  BY <1>3 DEF Brings
<1>6. CASE Standalone
  <2>1. node' = [node EXCEPT !.l = b] /\ queue' = Append(queue, Item("lightSet", NoArgs))
    BY <1>6 DEF SetLightness
  <2>2. node' \in ANode /\ node'.l = b
    BY <1>2, <2>1 DEF LightTypeOK, ANode
  <2>3. MadeOf(node', "lightSet").l = b
    BY <2>2 DEF MadeOf, ble_mesh_lightness_set, NoArgs
  <2>4. Brings(want', "lightSet", MadeOf(node', "lightSet"))
    BY <1>5, <2>3
  <2> QED BY <1>1, <1>3, <1>4, <1>6, <2>1, <2>2, <2>4, OneMessage
<1>7. CASE ~Standalone
  <2> DEFINE x == external_lightness_command(b)
             r == <<x>>
  <2>1. node' = node /\ queue' = Append(queue, x)
    BY <1>7 DEF SetLightness
  <2>2. x \in AnItem /\ x.op = "lightSet" /\ x.args.l = b
    <3>1. /\ [NoArgs EXCEPT !.l = b] \in [on : BOOLEAN, l : Numbers, level : LevelNumbers]
          /\ [NoArgs EXCEPT !.l = b].l = b
      BY <1>2, ScalesAre DEF NoArgs
    <3>2. "lightSet" \in DOMAIN ModelOf \union Local
      BY ModelOfIs
    <3> QED BY <3>1, <3>2, ItemsType, OpOfItem DEF external_lightness_command
  <2> HIDE DEF x
  <2>3. r \in Seq(AnItem) /\ 1 \in DOMAIN r /\ r[1] = x /\ (\A j \in DOMAIN r : ~(j > 1))
    BY <2>2
  <2>4. queue' = queue \o r
    BY <2>1, <2>2, AppendIsConcat DEF LightTypeOK
  <2> HIDE DEF r
  <2>5. LightTypeOK' /\ Shapes'
    BY <1>1, <1>3, <2>1, <2>3, <2>4, CommandKeeps DEF LightTypeOK
  <2>6. \E k \in DOMAIN queue' : Ahead(k)'
    <3>1. /\ r[1].op = "lightSet" /\ r[1].op \in SetsFor(want')
          /\ \A j \in DOMAIN r : j > 1 => r[j].op \notin SetsFor(want')
      BY <1>3, <2>2, <2>3
    <3>2. Brings(want', r[1].op, IF Standalone THEN MadeOf(node', r[1].op) ELSE r[1].args)
      BY <1>3, <1>5, <1>7, <2>2, <2>3
    <3> QED BY <1>1, <1>7, <2>3, <2>4, <3>1, <3>2, CommandAhead
  <2> QED BY <2>5, <2>6 DEF OnItsWay
<1> QED BY <1>6, <1>7

(***************************************************************************)
(* The queue moves on, or is not touched.                                  *)
(***************************************************************************)
\* The message that is ahead still is, d places further on.
LEMMA Carried ==
  ASSUME LightTypeOK, queue' \in Seq(AnItem), NEW d \in {0, 1},
         \A i \in DOMAIN queue : i > d =>
           /\ i - d \in DOMAIN queue'
           /\ queue'[i - d].op = queue[i].op /\ queue'[i - d].args = queue[i].args,
         \A j \in DOMAIN queue' : j + d \in DOMAIN queue \/ queue'[j].op \notin Sets,
         want' = want, edition' = edition,
         NEW k \in DOMAIN queue, k > d, Ahead(k),
         k - d = 1 /\ waiting' /\ air' \notin {Lost, Nothing} => Arrived',
         Standalone =>
           /\ MadeOf(node', queue[k].op) = MadeOf(node, queue[k].op)
           /\ queue[k].op \in {"onoffSet", "levelSet"} => late' = Nothing
           /\ queue[k].op = "hslSet" => node'.maxL = LightMax
  PROVE  Ahead(k - d)'
<1>1. PICK h \in Nat : h = k - d
  BY DEF LightTypeOK
<1>2. /\ DOMAIN queue = 1 .. Len(queue) /\ Len(queue) \in Nat /\ k \in Nat
      /\ DOMAIN queue' = 1 .. Len(queue') /\ Len(queue') \in Nat
  BY DEF LightTypeOK
<1>3. h \in DOMAIN queue' /\ queue'[h].op = queue[k].op /\ queue'[h].args = queue[k].args
  BY <1>1
<1>4. SetsFor(want) \subseteq Sets /\ SetsFor(want') = SetsFor(want)
  BY DEF SetsFor, Sets
<1>5. queue'[h].op \in SetsFor(want')
  BY <1>3, <1>4 DEF Ahead
<1>6. \A j \in DOMAIN queue' : j > h => queue'[j].op \notin SetsFor(want')
  <2>1. SUFFICES ASSUME NEW j \in DOMAIN queue', j > h, j + d \in DOMAIN queue
                 PROVE  queue'[j].op \notin SetsFor(want')
    BY <1>4
  <2>2. PICK i \in DOMAIN queue : i = j + d
    BY <2>1
  <2>3. i > d /\ i > k /\ i - d = j
    BY <1>1, <1>2, <2>1, <2>2
  <2> QED BY <1>4, <2>2, <2>3 DEF Ahead
<1>7. Says(h)' = Says(k)
  BY <1>3 DEF Says, Standalone
<1>8. Brings(want', queue'[h].op, Says(h)')
  BY <1>3, <1>7 DEF Ahead
<1>9. ASSUME Standalone
      PROVE  Undisturbed(h)'
  <2>1. Undisturbed(k)
    BY <1>9 DEF Ahead
  <2>2. ASSUME NEW j \in 1 .. (h - 1)
        PROVE  \E i \in 1 .. (k - 1) : queue'[j].op = queue[i].op
    <3>1. j + d \in 1 .. (k - 1) /\ j + d \in DOMAIN queue /\ j + d > d /\ (j + d) - d = j
      BY <1>1, <1>2
    <3> QED BY <3>1
  <2> QED BY <1>3, <1>9, <2>1, <2>2 DEF Undisturbed
<1>10. h = 1 /\ waiting' /\ air' \notin {Lost, Nothing} => Arrived'
  BY <1>1
<1>11. Ahead(h)'
  BY <1>5, <1>6, <1>8, <1>9, <1>10 DEF Ahead, Standalone
<1> QED BY <1>1, <1>11

\* Nothing is ahead, and the light stays as it is wanted.
LEMMA StillArrived ==
  ASSUME LightTypeOK, queue' \in Seq(AnItem), NEW d \in {0, 1},
         \A i \in DOMAIN queue : i > d =>
           i - d \in DOMAIN queue' /\ queue'[i - d].op = queue[i].op,
         \A j \in DOMAIN queue' : j + d \in DOMAIN queue \/ queue'[j].op \notin Sets,
         \A j \in DOMAIN queue : j > d => queue[j].op \notin SetsFor(want),
         want' = want, Arrived,
         IF want.cover THEN light'.level = light.level ELSE light'.l = light.l
  PROVE  NoneAhead' /\ Arrived'
<1>1. SetsFor(want) \subseteq Sets /\ SetsFor(want') = SetsFor(want)
  BY DEF SetsFor, Sets
<1>2. ASSUME NEW j \in DOMAIN queue', j + d \in DOMAIN queue
      PROVE  queue'[j].op \notin SetsFor(want')
  <2>1. PICK i \in DOMAIN queue : i = j + d
    BY <1>2
  <2>2. i > d /\ i - d = j
    BY <2>1 DEF LightTypeOK
  <2> QED BY <1>1, <2>1, <2>2
<1>3. NoneAhead'
  BY <1>1, <1>2 DEF NoneAhead
<1>4. Arrived'
  BY DEF Arrived
<1> QED BY <1>3, <1>4

\* What adds no Set and changes nothing that is wanted.
LEMMA Aside ==
  ASSUME LightTypeOK, Shapes, OnItsWay, NEW r \in Seq(AnItem),
         \A i \in DOMAIN r : r[i].op \notin Sets, queue' = queue \o r,
         UNCHANGED <<edition, waiting, air, want>>, doubts \subseteq doubts',
         light'.l = light.l, light'.level = light.level,
         late' = late \/ late' = Nothing,
         Standalone =>
           /\ node'.l = node.l /\ (node.maxL = LightMax => node'.maxL = LightMax)
           /\ late = Nothing => node'.on = node.on /\ node'.level = node.level
  PROVE  OnItsWay'
<1>1. /\ queue' \in Seq(AnItem) /\ Len(queue') = Len(queue) + Len(r)
      /\ \A i \in 1 .. Len(queue) : queue'[i] = queue[i]
      /\ \A i \in 1 .. Len(queue') : i > Len(queue) => i - Len(queue) \in 1 .. Len(r) /\ queue'[i] = r[i - Len(queue)]
      /\ queue \in Seq(AnItem)
  BY Appended DEF LightTypeOK
<1>2. \A i \in DOMAIN queue : i > 0 =>
           /\ i - 0 \in DOMAIN queue'
           /\ queue'[i - 0].op = queue[i].op /\ queue'[i - 0].args = queue[i].args
  BY <1>1
<1>3. \A j \in DOMAIN queue' : j + 0 \in DOMAIN queue \/ queue'[j].op \notin Sets
  <2>1. SUFFICES ASSUME NEW j \in DOMAIN queue', j \notin DOMAIN queue
                 PROVE  queue'[j].op \notin Sets
    BY <1>1
  <2>2. j \in 1 .. Len(queue') /\ j > Len(queue)
    BY <1>1, <2>1
  <2>3. j - Len(queue) \in DOMAIN r /\ queue'[j] = r[j - Len(queue)]
    BY <1>1, <2>2
  <2> QED BY <2>3
<1>4. SUFFICES ASSUME want' # Nothing, Trusted'
               PROVE  (NoneAhead' /\ Arrived') \/ \E k \in DOMAIN queue' : Ahead(k)'
  BY DEF OnItsWay
<1>5. want # Nothing /\ Trusted
  BY <1>4 DEF Trusted
<1>6. CASE NoneAhead /\ Arrived
  <2>1. \A j \in DOMAIN queue : j > 0 => queue[j].op \notin SetsFor(want)
    BY <1>6 DEF NoneAhead
  <2> QED BY <1>1, <1>2, <1>3, <1>6, <2>1, StillArrived
<1>7. ASSUME NEW k \in DOMAIN queue, Ahead(k)
      PROVE  \E h \in DOMAIN queue' : Ahead(h)'
  <2>1. k \in Nat /\ k > 0 /\ k - 0 = k /\ k \in DOMAIN queue'
    BY <1>1
  <2>2. k = 1 /\ waiting' /\ air' \notin {Lost, Nothing} => Arrived'
    <3>1. Arrived => Arrived'
      BY DEF Arrived
    <3> QED BY <1>7, <3>1 DEF Ahead
  <2>3. ASSUME Standalone
        PROVE  /\ MadeOf(node', queue[k].op) = MadeOf(node, queue[k].op)
               /\ queue[k].op \in {"onoffSet", "levelSet"} => late' = Nothing
               /\ queue[k].op = "hslSet" => node'.maxL = LightMax
    <3>1. /\ queue[k].op \in {"onoffSet", "levelSet"} => late = Nothing
          /\ queue[k].op = "hslSet" => node.maxL = LightMax
      BY <1>7, <2>3 DEF Ahead, Undisturbed
    <3>2. /\ node'.l = node.l /\ (queue[k].op = "hslSet" => node'.maxL = node.maxL)
          /\ queue[k].op \in {"onoffSet", "levelSet"} => node'.on = node.on /\ node'.level = node.level
      BY <2>3, <3>1
    <3>3. MadeOf(node', queue[k].op) = MadeOf(node, queue[k].op)
      BY <3>2 DEF MadeOf, ble_mesh_gen_onoff_set, ble_mesh_gen_level_set,
         ble_mesh_lightness_set, ble_mesh_light_hsl_set, ble_mesh_ctl_set
    <3> QED BY <2>3, <3>1, <3>3
  <2>4. Ahead(k - 0)'
    BY <1>1, <1>2, <1>3, <1>7, <2>1, <2>2, <2>3, Carried
  <2> QED BY <2>1, <2>4
<1> QED BY <1>5, <1>6, <1>7 DEF OnItsWay

\* The front leaves the queue: it was answered, or was nothing to send.
LEMMA Popped ==
  ASSUME LightTypeOK, Shapes, OnItsWay, queue # <<>>, NEW r \in Seq(AnItem),
         \A i \in DOMAIN r : r[i].op \notin Sets, queue' = Tail(queue) \o r,
         UNCHANGED <<edition, light, want>>, ~waiting', doubts \subseteq doubts',
         Head(queue).op \in Sets => waiting /\ air \notin {Lost, Nothing},
         Standalone =>
           /\ late' = late \/ Head(queue).op \in {"onoffSet", "onoffGet", "levelSet"}
           /\ Head(queue).op \notin {"lightGet", "hslGet"} => node'.l = node.l
           /\ node'.on = node.on /\ node'.level = node.level
           /\ node.maxL = LightMax => node'.maxL = LightMax
  PROVE  OnItsWay'
<1>1. /\ queue \in Seq(AnItem) /\ Tail(queue) \in Seq(AnItem) /\ Len(Tail(queue)) = Len(queue) - 1
      /\ \A i \in 1 .. Len(Tail(queue)) : Tail(queue)[i] = queue[i + 1]
      /\ Head(queue) = queue[1] /\ Len(queue) \in Nat /\ Len(queue) >= 1
  BY DEF LightTypeOK
<1>2. /\ queue' \in Seq(AnItem) /\ Len(queue') = Len(Tail(queue)) + Len(r)
      /\ \A i \in 1 .. Len(Tail(queue)) : queue'[i] = Tail(queue)[i]
      /\ \A i \in 1 .. Len(queue') : i > Len(Tail(queue)) =>
           i - Len(Tail(queue)) \in 1 .. Len(r) /\ queue'[i] = r[i - Len(Tail(queue))]
  BY <1>1, Appended
<1>3. ASSUME NEW i \in DOMAIN queue, i > 1
      PROVE  i - 1 \in DOMAIN queue' /\ queue'[i - 1] = queue[i]
  <2>1. i - 1 \in 1 .. Len(Tail(queue)) /\ (i - 1) + 1 = i /\ i - 1 \in 1 .. Len(queue')
    BY <1>1, <1>2, <1>3
  <2> QED BY <1>1, <1>2, <2>1
<1>4. \A j \in DOMAIN queue' : j + 1 \in DOMAIN queue \/ queue'[j].op \notin Sets
  <2>1. SUFFICES ASSUME NEW j \in DOMAIN queue', j + 1 \notin DOMAIN queue
                 PROVE  queue'[j].op \notin Sets
    OBVIOUS
  <2>2. j \in 1 .. Len(queue') /\ j > Len(Tail(queue))
    BY <1>1, <1>2, <2>1
  <2>3. j - Len(Tail(queue)) \in DOMAIN r /\ queue'[j] = r[j - Len(Tail(queue))]
    BY <1>2, <2>2
  <2> QED BY <2>3
<1>5. SUFFICES ASSUME want' # Nothing, Trusted'
               PROVE  (NoneAhead' /\ Arrived') \/ \E k \in DOMAIN queue' : Ahead(k)'
  BY DEF OnItsWay
<1>6. want # Nothing /\ Trusted
  BY <1>5 DEF Trusted
<1>7. ASSUME Arrived, \A j \in DOMAIN queue : j > 1 => queue[j].op \notin SetsFor(want)
      PROVE  NoneAhead' /\ Arrived'
  <2>1. IF want.cover THEN light'.level = light.level ELSE light'.l = light.l
    OBVIOUS
  <2> QED BY <1>2, <1>3, <1>4, <1>7, <2>1, StillArrived
<1>8. CASE NoneAhead /\ Arrived
  BY <1>7, <1>8 DEF NoneAhead
<1>9. ASSUME NEW k \in DOMAIN queue, Ahead(k)
      PROVE  (NoneAhead' /\ Arrived') \/ \E h \in DOMAIN queue' : Ahead(h)'
  <2>1. k \in Nat /\ k >= 1
    BY <1>1
  <2>2. CASE k = 1
    <3>1. queue[1].op \in Sets
      BY <1>9, <2>2 DEF Ahead, SetsFor, Sets
    <3>2. Arrived
      BY <1>1, <1>9, <2>2, <3>1 DEF Ahead
    <3>3. \A j \in DOMAIN queue : j > 1 => queue[j].op \notin SetsFor(want)
      BY <1>9, <2>2 DEF Ahead
    <3> QED BY <1>7, <3>2, <3>3
  <2>3. CASE k > 1
    <3>1. ASSUME Standalone
          PROVE  /\ MadeOf(node', queue[k].op) = MadeOf(node, queue[k].op)
                 /\ queue[k].op \in {"onoffSet", "levelSet"} => late' = Nothing
                 /\ queue[k].op = "hslSet" => node'.maxL = LightMax
      <4>1. /\ queue[1].op \notin {"lightGet", "hslGet"}
            /\ queue[k].op \in {"onoffSet", "levelSet"} =>
                 late = Nothing /\ queue[1].op \notin {"onoffSet", "onoffGet", "levelSet"}
            /\ queue[k].op = "hslSet" => node.maxL = LightMax
        <5>1. 1 \in 1 .. (k - 1)
          BY <2>1, <2>3
        <5> QED BY <1>9, <3>1, <5>1 DEF Ahead, Undisturbed
      <4>2. node'.l = node.l /\ node'.on = node.on /\ node'.level = node.level
            /\ (queue[k].op = "hslSet" => node'.maxL = node.maxL)
        BY <1>1, <3>1, <4>1
      <4>3. MadeOf(node', queue[k].op) = MadeOf(node, queue[k].op)
        BY <4>2 DEF MadeOf, ble_mesh_gen_onoff_set, ble_mesh_gen_level_set,
           ble_mesh_lightness_set, ble_mesh_light_hsl_set, ble_mesh_ctl_set
      <4> QED BY <1>1, <3>1, <4>1, <4>3
    <3>2. Ahead(k - 1)'
      <4>1. \A i \in DOMAIN queue : i > 1 =>
              /\ i - 1 \in DOMAIN queue'
              /\ queue'[i - 1].op = queue[i].op /\ queue'[i - 1].args = queue[i].args
        BY <1>3
      <4> QED BY <1>2, <1>4, <1>9, <2>3, <3>1, <4>1, Carried
    <3>3. k - 1 \in DOMAIN queue'
      BY <1>3, <2>3
    <3> QED BY <3>2, <3>3
  <2> QED BY <2>1, <2>2, <2>3
<1> QED BY <1>6, <1>8, <1>9 DEF OnItsWay

LEMMA AsideType ==
  ASSUME LightTypeOK, Shapes, NEW r \in Seq(AnItem), queue' = queue \o r,
         node' \in ANode, light' \in ALight, {late', heard'} \subseteq AnAnswer \union {Nothing},
         offered' \subseteq Modes \union {"cover", "onoff"},
         Standalone /\ heard' # Nothing =>
           heard'.op \in {"hslRange", "lightRange", "tempGet", "tempRange"},
         UNCHANGED <<edition, waiting, air, want>>
  PROVE  LightTypeOK' /\ Shapes'
<1>1. queue' \in Seq(AnItem) /\ (queue # <<>> => queue' # <<>> /\ Head(queue') = Head(queue))
  BY Appended DEF LightTypeOK
<1>2. LightTypeOK'
  BY <1>1 DEF LightTypeOK
<1>3. waiting => queue' # <<>> /\ Head(queue').op \in DOMAIN ModelOf
  BY <1>1 DEF Shapes
<1>4. air \notin {Nothing, Lost} => waiting /\ air.op = Head(queue').op
  BY <1>1 DEF Shapes
<1> QED BY <1>2, <1>3, <1>4 DEF Shapes, Standalone

LEMMA NoneAdded ==
  ASSUME LightTypeOK
  PROVE  /\ <<>> \in Seq(AnItem) /\ \A i \in DOMAIN <<>> : <<>>[i].op \notin Sets
         /\ queue \o <<>> = queue /\ (queue # <<>> => Tail(queue) \o <<>> = Tail(queue))
<1>1. queue \in Seq(AnItem) /\ (queue # <<>> => Tail(queue) \in Seq(AnItem))
  BY DEF LightTypeOK
<1>2. queue \o <<>> = queue
  BY <1>1, ConcatEmptySeq
<1>3. queue # <<>> => Tail(queue) \o <<>> = Tail(queue)
  BY <1>1, ConcatEmptySeq
<1> QED BY <1>2, <1>3

\* The Unacknowledged sets, the Gets past the queue and what is told by hand.
LEMMA PastTheQueue ==
  ASSUME LightTypeOK, Shapes, OnItsWay,
         \/ ble_mesh_ctl_temperature_set \/ console_ctl_temperature_set \/ console_get
         \/ ByHand \/ Answer
  PROVE  LightTypeOK' /\ Shapes' /\ OnItsWay'
<1> DEFINE r == <<>>
<1>1. r \in Seq(AnItem) /\ (\A i \in DOMAIN r : r[i].op \notin Sets) /\ queue \o r = queue
  BY NoneAdded
<1>2. /\ UNCHANGED <<edition, waiting, air, want, late, queue>>
      /\ doubts \subseteq doubts'
      /\ light' = light \/ light' = [light EXCEPT !.by = "color_temp"]
      /\ node' = node \/ node' = [node EXCEPT !.mode = "color_temp"]
  BY DEF ble_mesh_ctl_temperature_set, console_ctl_temperature_set, console_get, ByHand, Answer,
     Unacknowledged
<1>3. /\ light' \in ALight /\ light'.l = light.l /\ light'.level = light.level
      /\ node' \in ANode /\ node'.l = node.l /\ node'.on = node.on /\ node'.level = node.level
      /\ node'.maxL = node.maxL
  BY <1>2 DEF LightTypeOK, ALight, ANode, Modes
<1>4. heard' \in AnAnswer \union {Nothing} /\
      (Standalone /\ heard' # Nothing =>
           heard'.op \in {"hslRange", "lightRange", "tempGet", "tempRange"})
  <2>1. CASE console_get
    <3>1. PICK op \in {"hslRange", "lightRange", "tempGet", "tempRange"} :
            heard' = [op |-> op, got |-> light]
      BY <2>1 DEF console_get
    <3> QED BY <3>1, ModelOfIs DEF LightTypeOK, AnAnswer
  <2>2. CASE Answer
    <3>1. PICK m \in light.models : heard' = [op |-> StatusFrom[m], got |-> light]
      BY <2>2 DEF Answer
    <3>2. m \in Models
      BY <3>1 DEF LightTypeOK, ALight
    <3>3. StatusFrom[m] \in DOMAIN ModelOf
      BY <3>2, ModelOfIs DEF StatusFrom, Models
    <3>4. ~Standalone
      BY <2>2 DEF Answer, Companion, Standalone
    <3> QED BY <3>1, <3>3, <3>4 DEF LightTypeOK, AnAnswer
  <2>3. CASE ~console_get /\ ~Answer
    <3>1. heard' = heard
      BY <2>3 DEF ble_mesh_ctl_temperature_set, console_ctl_temperature_set, ByHand, Unacknowledged
    <3> QED BY <3>1 DEF LightTypeOK, Shapes
  <2> QED BY <2>1, <2>2, <2>3
<1>5. offered' \subseteq Modes \union {"cover", "onoff"}
  <2>1. offered' \in {offered, SupportedModes(node.features), {}}
    BY DEF ble_mesh_ctl_temperature_set, console_ctl_temperature_set, console_get, ByHand, Answer,
     Unacknowledged
  <2>2. SupportedModes(node.features) \subseteq Modes \union {"cover", "onoff"}
    BY DEF SupportedModes, Modes
  <2> QED BY <2>1, <2>2 DEF LightTypeOK
<1> HIDE DEF r
<1>6. LightTypeOK' /\ Shapes'
  <2>1. late' \in AnAnswer \union {Nothing}
    BY <1>2 DEF LightTypeOK
  <2> QED BY <1>1, <1>2, <1>3, <1>4, <1>5, <2>1, AsideType
<1>7. OnItsWay'
  BY <1>1, <1>2, <1>3, Aside
<1> QED BY <1>6, <1>7

LEMMA RefreshKeeps ==
  ASSUME LightTypeOK, Shapes, OnItsWay, Refresh
  PROVE  LightTypeOK' /\ Shapes' /\ OnItsWay'
<1> DEFINE ops == RefreshOps(node.features)
           r == Items(ops)
<1>1. queue' = queue \o r
      /\ UNCHANGED <<edition, light, node, waiting, air, late, heard, offered, want, doubts>>
  BY DEF Refresh
<1>2. ops \in Seq(Asks)
  BY RefreshOpsType
<1>3. r \in Seq(AnItem) /\ (\A i \in DOMAIN r : r[i].op \notin Sets)
  <2> HIDE DEF ops
  <2>1. Asks \subseteq DOMAIN ModelOf \union Local
    BY ModelOfIs DEF Asks, Local
  <2>2. r \in Seq(AnItem)
    <3>1. ops \in Seq(DOMAIN ModelOf \union Local)
      BY <1>2, <2>1
    <3> QED BY <3>1, ItemsType
  <2>3. \A i \in DOMAIN r : i \in DOMAIN ops /\ r[i].op = ops[i]
    BY OpOfItem DEF Items
  <2>4. \A i \in DOMAIN ops : ops[i] \in Asks
    BY <1>2
  <2> QED BY <2>2, <2>3, <2>4 DEF Asks, Sets
<1> HIDE DEF r
<1>4. LightTypeOK' /\ Shapes'
  <2>1. /\ node' \in ANode /\ light' \in ALight /\ {late', heard'} \subseteq AnAnswer \union {Nothing}
        /\ offered' \subseteq Modes \union {"cover", "onoff"}
        /\ (Standalone /\ heard' # Nothing =>
           heard'.op \in {"hslRange", "lightRange", "tempGet", "tempRange"})
    BY <1>1 DEF LightTypeOK, Shapes
  <2> QED BY <1>1, <1>3, <2>1, AsideType
<1>5. OnItsWay'
  BY <1>1, <1>3, Aside
<1> QED BY <1>4, <1>5

LEMMA ToldRange ==
  ASSUME LightTypeOK, NEW n, NEW q \in Seq(AnItem), NEW m \in Models, Told(n, q, m)
  PROVE  /\ node' = n /\ offered' \subseteq Modes \union {"cover", "onoff"}
         /\ \E r \in Seq(AnItem) : queue' = q \o r /\ \A i \in DOMAIN r : r[i].op \notin Sets
<1>1. node' = n /\ offered' = SupportedModes(n.features)
  BY DEF Told
<1>2. offered' \subseteq Modes \union {"cover", "onoff"}
  BY <1>1 DEF SupportedModes, Modes
<1>3. CASE m \in LightModels /\ m \notin node.features
  <2> DEFINE x == Item(RangeOf[m], NoArgs)
             r == <<x>>
  <2>1. RangeOf[m] \in {"lightRange", "hslRange", "tempRange"}
    BY <1>3 DEF RangeOf, LightModels
  <2>2. RangeOf[m] \in DOMAIN ModelOf \union Local
    BY <2>1, ModelOfIs
  <2>3. NoArgs \in [on : BOOLEAN, l : Numbers, level : LevelNumbers]
    BY ScalesAre DEF NoArgs
  <2>4. x \in AnItem /\ x.op \notin Sets
    BY <2>1, <2>2, <2>3, ItemsType, OpOfItem DEF Sets
  <2>5. queue' = Append(q, x)
    BY <1>3 DEF Told
  <2> HIDE DEF x
  <2>6. queue' = q \o r
    BY <2>4, <2>5, AppendIsConcat
  <2>7. r \in Seq(AnItem) /\ \A i \in DOMAIN r : r[i].op \notin Sets
    BY <2>4
  <2> QED BY <1>1, <1>2, <2>6, <2>7
<1>4. CASE ~(m \in LightModels /\ m \notin node.features)
  <2>1. queue' = q
    BY <1>4 DEF Told
  <2>2. q \o <<>> = q /\ <<>> \in Seq(AnItem) /\ \A i \in DOMAIN <<>> : <<>>[i].op \notin Sets
    BY ConcatEmptySeq
  <2> QED BY <1>1, <1>2, <2>1, <2>2
<1> QED BY <1>3, <1>4

LEMMA OverhearKeeps ==
  ASSUME LightTypeOK, Shapes, OnItsWay, Overhear
  PROVE  LightTypeOK' /\ Shapes' /\ OnItsWay'
<1>1. /\ heard # Nothing /\ heard' = Nothing /\ doubts \subseteq doubts'
      /\ UNCHANGED <<edition, light, waiting, air, late, want>>
  BY DEF Overhear
<1>2. heard \in AnAnswer /\ heard.got \in ALight /\ heard.op \in DOMAIN ModelOf
      /\ ModelOf[heard.op] \in Models /\ node \in ANode /\ queue \in Seq(AnItem)
      /\ light' \in ALight /\ {late', heard'} \subseteq AnAnswer \union {Nothing}
  BY <1>1, ModelOfIs DEF LightTypeOK, AnAnswer
<1>3. CASE Standalone
  <2> DEFINE r == <<>>
  <2>1. node' = Stored(node, heard.op, heard.got) /\ UNCHANGED <<queue, offered>>
    BY <1>3 DEF Overhear
  <2>2. r \in Seq(AnItem) /\ (\A i \in DOMAIN r : r[i].op \notin Sets) /\ queue \o r = queue
    BY NoneAdded
  <2>3. heard.op \notin {"hslGet", "lightGet"}
    BY <1>1, <1>3 DEF Shapes
  <2>4. node' = node \/ node' = [node EXCEPT !.maxL = LightMax]
    BY <2>1, <2>3 DEF Stored
  <2>5. /\ node' \in ANode /\ node'.l = node.l /\ node'.on = node.on /\ node'.level = node.level
        /\ (node.maxL = LightMax => node'.maxL = LightMax)
    BY <1>2, <2>4, ScalesAre DEF ANode, Numbers
  <2> HIDE DEF r
  <2>6. LightTypeOK' /\ Shapes'
    <3>1. offered' \subseteq Modes \union {"cover", "onoff"}
      BY <2>1 DEF LightTypeOK
    <3> QED BY <1>1, <1>2, <2>1, <2>2, <2>5, <3>1, AsideType
  <2>7. OnItsWay'
    BY <1>1, <2>1, <2>2, <2>5, Aside
  <2> QED BY <2>6, <2>7
<1>4. CASE ~Standalone
  <2>1. Told(Upserted(node, heard.op, heard.got, FALSE), queue, ModelOf[heard.op])
    BY <1>4 DEF Overhear
  <2>2. /\ node' = Upserted(node, heard.op, heard.got, FALSE)
        /\ offered' \subseteq Modes \union {"cover", "onoff"}
        /\ \E r \in Seq(AnItem) : queue' = queue \o r /\ \A i \in DOMAIN r : r[i].op \notin Sets
    BY <1>2, <2>1, ToldRange
  <2>3. PICK r \in Seq(AnItem) : queue' = queue \o r /\ \A i \in DOMAIN r : r[i].op \notin Sets
    BY <2>2
  <2>4. node' \in ANode
    BY <1>2, <2>2, UpsertedType
  <2>5. LightTypeOK' /\ Shapes'
    BY <1>1, <1>2, <1>4, <2>2, <2>3, <2>4, AsideType
  <2>6. OnItsWay'
    BY <1>1, <1>4, <2>3, Aside
  <2> QED BY <2>5, <2>6
<1> QED BY <1>3, <1>4

LEMMA StoreLateKeeps ==
  ASSUME LightTypeOK, Shapes, OnItsWay, StoreLate
  PROVE  LightTypeOK' /\ Shapes' /\ OnItsWay'
<1> DEFINE r == <<>>
<1>1. /\ late # Nothing /\ late' = Nothing /\ node' = StoredLate(node, late.op, late.got)
      /\ doubts \subseteq doubts'
      /\ UNCHANGED <<edition, light, queue, waiting, air, heard, offered, want>>
  BY DEF StoreLate
<1>2. late \in AnAnswer /\ late.got \in ALight /\ node \in ANode
      /\ light' \in ALight /\ {late', heard'} \subseteq AnAnswer \union {Nothing}
      /\ offered' \subseteq Modes \union {"cover", "onoff"}
      /\ (Standalone /\ heard' # Nothing =>
           heard'.op \in {"hslRange", "lightRange", "tempGet", "tempRange"})
  BY <1>1 DEF LightTypeOK, AnAnswer, Shapes
<1>3. r \in Seq(AnItem) /\ (\A i \in DOMAIN r : r[i].op \notin Sets) /\ queue \o r = queue
  BY NoneAdded
<1>4. node' \in ANode
  BY <1>1, <1>2, StoredType
<1>5. node'.l = node.l /\ node'.maxL = node.maxL
  BY <1>1, <1>2 DEF StoredLate, ANode
<1> HIDE DEF r
<1>6. LightTypeOK' /\ Shapes'
  BY <1>1, <1>2, <1>3, <1>4, AsideType
<1>7. OnItsWay'
  BY <1>1, <1>3, <1>5, Aside
<1> QED BY <1>6, <1>7

(***************************************************************************)
(* The light, and what comes back from it.                                 *)
(***************************************************************************)
\* What a message that brings about what is wanted does to the light.
LEMMA EffectArrives ==
  ASSUME light \in ALight, NEW op \in SetsFor(want),
         NEW a \in [on : BOOLEAN, l : Numbers, level : LevelNumbers],
         Brings(want, op, a), want.on \in BOOLEAN, want.cover \in BOOLEAN,
         light' = Effect(op, a), want' = want
  PROVE  Arrived'
<1>1. /\ light.l \in Nat /\ light.was \in Nat /\ light.was > 0 /\ a.on \in BOOLEAN /\ a.l \in Nat
      /\ LightMax \in Nat /\ LightMax > 0
  BY ScalesAre DEF ALight, Numbers
<1>2. CASE want.cover
  <2>1. op = "levelSet"
    BY <1>2 DEF SetsFor
  <2>2. light'.level = a.level
    BY <2>1 DEF Effect, ALight
  <2> QED BY <1>2, <2>2 DEF Arrived, Brings
<1>3. CASE ~want.cover
  <2>1. op \in {"onoffSet", "lightSet", "hslSet", "ctlSet"}
    BY <1>3 DEF SetsFor, Sets
  <2>2. CASE op = "onoffSet"
    <3>1. want.l = Absent /\ (a.on <=> want.on)
      BY <1>3, <2>2 DEF Brings
    <3>2. light'.l = IF ~a.on THEN 0 ELSE IF light.l = 0 THEN light.was ELSE light.l
      BY <2>2 DEF Effect, ALight
    <3>3. light'.l > 0 <=> a.on
      BY <1>1, <3>2
    <3> QED BY <1>3, <3>1, <3>3 DEF Arrived
  <2>3. CASE op # "onoffSet"
    <3>1. light'.l = Raised(LeastOf(a.l, LightMax))
      BY <2>1, <2>3 DEF Effect, Shine, ALight
    <3>2. IF want.l # Absent THEN LeastOf(a.l, LightMax) = want.l ELSE want.on /\ a.l > 0
      BY <1>3, <2>3 DEF Brings
    <3>3. a.l > 0 => Raised(LeastOf(a.l, LightMax)) > 0
      BY RaisedIs
    <3> QED BY <1>3, <3>1, <3>2, <3>3 DEF Arrived
  <2> QED BY <2>2, <2>3
<1> QED BY <1>2, <1>3

LEMMA EffectElsewhere ==
  ASSUME light \in ALight, NEW a, NEW op, op \notin SetsFor(want)
  PROVE  IF want.cover THEN Effect(op, a).level = light.level ELSE Effect(op, a).l = light.l
<1>1. CASE want.cover
  <2>1. op # "levelSet"
    BY <1>1 DEF SetsFor
  <2> QED BY <1>1, <2>1 DEF Effect, Shine, ALight
<1>2. CASE ~want.cover
  <2>1. op \notin {"onoffSet", "lightSet", "hslSet", "ctlSet"}
    BY <1>2 DEF SetsFor, Sets
  <2> QED BY <1>2, <2>1 DEF Effect, ALight
<1> QED BY <1>1, <1>2

LEMMA SendFrontKeeps ==
  ASSUME LightTypeOK, Shapes, OnItsWay, SendFront
  PROVE  LightTypeOK' /\ Shapes' /\ OnItsWay'
<1> DEFINE i == Head(queue)
           said == IF Standalone THEN MadeOf(node, i.op) ELSE i.args
           after == Effect(i.op, said)
<1>1. /\ ~waiting /\ queue # <<>> /\ i.op \notin Local /\ node' = SentMode(node, i.op)
      /\ \/ light' = after /\ air' = [op |-> i.op, got |-> after]
         \/ light' \in {light, after} /\ air' = Lost
      /\ waiting' = TRUE
      /\ UNCHANGED <<edition, queue, late, heard, offered, want>> /\ doubts \subseteq doubts'
  BY DEF SendFront
<1>2. /\ queue \in Seq(AnItem) /\ i \in AnItem /\ i = queue[1] /\ 1 \in DOMAIN queue
      /\ node \in ANode /\ light \in ALight
  BY <1>1 DEF LightTypeOK
<1>3. /\ i.op \in DOMAIN ModelOf /\ i.args \in [on : BOOLEAN, l : Numbers, level : LevelNumbers]
  BY <1>1, <1>2 DEF AnItem
<1>4. said \in [on : BOOLEAN, l : Numbers, level : LevelNumbers]
  BY <1>2, <1>3, SaidType
<1>5. after \in ALight /\ light' \in ALight /\ node' \in ANode
  <2> HIDE DEF said
  <2>1. after \in ALight
    BY <1>2, <1>4, EffectType
  <2> QED BY <1>1, <1>2, <2>1, StoredType
<1>6. said = Says(1)
  BY <1>2 DEF Says
<1>7. \A op : MadeOf(node', op) = MadeOf(node, op)
  <2>1. node' = node \/ node' = [node EXCEPT !.mode = "hs"]
    BY <1>1 DEF SentMode
  <2>2. node'.on = node.on /\ node'.l = node.l /\ node'.level = node.level /\ node'.maxL = node.maxL
    BY <1>2, <2>1 DEF ANode
  <2> QED BY <2>2 DEF MadeOf, ble_mesh_gen_onoff_set, ble_mesh_gen_level_set,
         ble_mesh_lightness_set, ble_mesh_light_hsl_set, ble_mesh_ctl_set
<1>8. node'.maxL = node.maxL
  BY <1>1, <1>2 DEF SentMode, ANode
<1> HIDE DEF i, said, after
<1>9. LightTypeOK' /\ Shapes'
  <2>1. air' \in AnAnswer \union {Nothing, Lost}
    BY <1>1, <1>3, <1>5 DEF AnAnswer
  <2>2. LightTypeOK'
    BY <1>1, <1>5, <2>1 DEF LightTypeOK
  <2>3. air' \notin {Nothing, Lost} => air'.op = Head(queue').op
    BY <1>1 DEF i
  <2>4. queue' # <<>> /\ Head(queue').op \in DOMAIN ModelOf
    BY <1>1, <1>3 DEF i
  <2> QED BY <1>1, <2>2, <2>3, <2>4 DEF Shapes, Standalone
<1>10. SUFFICES ASSUME want' # Nothing, Trusted'
                PROVE  (NoneAhead' /\ Arrived') \/ \E k \in DOMAIN queue' : Ahead(k)'
  BY <1>9 DEF OnItsWay
<1>11. /\ want # Nothing /\ Trusted
       /\ want.on \in BOOLEAN /\ want.cover \in BOOLEAN
  BY <1>1, <1>10 DEF Trusted, LightTypeOK
<1>12. /\ \A j \in DOMAIN queue : j > 0 =>
            /\ j - 0 \in DOMAIN queue'
            /\ queue'[j - 0].op = queue[j].op /\ queue'[j - 0].args = queue[j].args
       /\ \A j \in DOMAIN queue' : j + 0 \in DOMAIN queue \/ queue'[j].op \notin Sets
  BY <1>1, <1>2
<1>13. CASE NoneAhead /\ Arrived
  <2>1. i.op \notin SetsFor(want) /\ \A j \in DOMAIN queue : j > 0 => queue[j].op \notin SetsFor(want)
    BY <1>2, <1>13 DEF NoneAhead
  <2>2. IF want.cover THEN after.level = light.level ELSE after.l = light.l
    BY <1>2, <2>1, EffectElsewhere DEF after
  <2>3. IF want.cover THEN light'.level = light.level ELSE light'.l = light.l
    BY <1>1, <2>2
  <2> QED BY <1>1, <1>2, <1>12, <1>13, <2>1, <2>3, StillArrived
<1>14. ASSUME NEW k \in DOMAIN queue, Ahead(k)
       PROVE  \E h \in DOMAIN queue' : Ahead(h)'
  <2>1. k - 0 = k /\ k > 0
    BY <1>2
  <2>2. k = 1 /\ waiting' /\ air' \notin {Lost, Nothing} => Arrived'
    <3>1. SUFFICES ASSUME k = 1, air' # Lost PROVE Arrived'
      OBVIOUS
    <3>2. light' = Effect(i.op, said)
      BY <1>1, <3>1 DEF after
    <3>3. i.op \in SetsFor(want) /\ Brings(want, i.op, said)
      BY <1>2, <1>6, <1>14, <3>1 DEF Ahead
    <3> QED BY <1>1, <1>2, <1>4, <1>11, <3>2, <3>3, EffectArrives
  <2>3. ASSUME Standalone
        PROVE  /\ MadeOf(node', queue[k].op) = MadeOf(node, queue[k].op)
               /\ queue[k].op \in {"onoffSet", "levelSet"} => late' = Nothing
               /\ queue[k].op = "hslSet" => node'.maxL = LightMax
    BY <1>1, <1>7, <1>8, <1>14, <2>3 DEF Ahead, Undisturbed
  <2>4. Ahead(k - 0)'
    BY <1>1, <1>2, <1>12, <1>14, <2>1, <2>2, <2>3, Carried
  <2> QED BY <1>1, <2>1, <2>4
<1> QED BY <1>11, <1>13, <1>14 DEF OnItsWay

LEMMA PublishKeeps ==
  ASSUME LightTypeOK, Shapes, OnItsWay, Publish
  PROVE  LightTypeOK' /\ Shapes' /\ OnItsWay'
<1> DEFINE r == <<>>
<1>1. /\ ~waiting /\ queue # <<>> /\ Head(queue).op \in Local /\ queue' = Tail(queue)
      /\ UNCHANGED <<edition, light, node, waiting, air, late, heard, want, doubts>>
      /\ offered' = offered \/ offered' = SupportedModes(node.features)
  BY DEF Publish
<1>2. r \in Seq(AnItem) /\ (\A i \in DOMAIN r : r[i].op \notin Sets) /\ queue' = Tail(queue) \o r
  BY <1>1, NoneAdded
<1>3. LightTypeOK' /\ Shapes'
  <2>1. queue' \in Seq(AnItem)
    BY <1>1 DEF LightTypeOK
  <2>2. offered' \subseteq Modes \union {"cover", "onoff"}
    <3>1. SupportedModes(node.features) \subseteq Modes \union {"cover", "onoff"}
      BY DEF SupportedModes, Modes
    <3> QED BY <1>1, <3>1 DEF LightTypeOK
  <2>3. LightTypeOK'
    BY <1>1, <2>1, <2>2 DEF LightTypeOK
  <2> QED BY <1>1, <2>3 DEF Shapes, Standalone
<1>4. Head(queue).op \notin Sets
  BY <1>1 DEF Local, Sets
<1> HIDE DEF r
<1>5. OnItsWay'
  BY <1>1, <1>2, <1>4, Popped
<1> QED BY <1>3, <1>5

LEMMA ReplyKeeps ==
  ASSUME LightTypeOK, Shapes, OnItsWay, Reply
  PROVE  LightTypeOK' /\ Shapes' /\ OnItsWay'
<1>1. /\ waiting /\ air \notin {Nothing, Lost} /\ waiting' = FALSE /\ air' = Nothing /\ late = Nothing
      /\ UNCHANGED <<edition, light, heard, want, doubts>>
  BY DEF Reply
<1>2. /\ queue # <<>> /\ queue \in Seq(AnItem) /\ Tail(queue) \in Seq(AnItem)
      /\ air \in AnAnswer /\ air.op = Head(queue).op /\ air.op \in DOMAIN ModelOf
      /\ air.got \in ALight /\ ModelOf[air.op] \in Models /\ node \in ANode
  BY <1>1, ModelOfIs DEF LightTypeOK, Shapes, AnAnswer
<1>3. ASSUME queue' \in Seq(AnItem), node' \in ANode, late' \in AnAnswer \union {Nothing},
             offered' \subseteq Modes \union {"cover", "onoff"}
      PROVE  LightTypeOK' /\ Shapes'
  <2>1. LightTypeOK'
    BY <1>1, <1>3 DEF LightTypeOK
  <2> QED BY <1>1, <2>1 DEF Shapes, Standalone
<1>4. CASE ~Standalone
  <2>1. edition = "companion"
    BY <1>4 DEF LightTypeOK, Standalone
  <2>2. /\ Told(Upserted(node, air.op, air.got, air.op \in Sets), Tail(queue), ModelOf[air.op])
        /\ late' = late
    BY <2>1 DEF Reply, Companion
  <2>3. /\ node' = Upserted(node, air.op, air.got, air.op \in Sets)
        /\ offered' \subseteq Modes \union {"cover", "onoff"}
        /\ \E r \in Seq(AnItem) : queue' = Tail(queue) \o r /\ \A i \in DOMAIN r : r[i].op \notin Sets
    BY <1>2, <2>2, ToldRange
  <2>4. node' \in ANode
    BY <1>2, <2>3, UpsertedType
  <2>5. PICK r \in Seq(AnItem) : queue' = Tail(queue) \o r /\ \A i \in DOMAIN r : r[i].op \notin Sets
    BY <2>3
  <2>6. queue' \in Seq(AnItem)
    BY <1>2, <2>5
  <2>7. LightTypeOK' /\ Shapes'
    BY <1>1, <1>3, <2>2, <2>3, <2>4, <2>6
  <2>8. OnItsWay'
    BY <1>1, <1>2, <1>4, <2>5, Popped
  <2> QED BY <2>7, <2>8
<1>5. CASE Standalone
  <2> DEFINE r == <<>>
  <2>1. /\ queue' = Tail(queue) /\ offered' = offered
        /\ IF ModelOf[air.op] \in {"onoff", "level"}
             THEN late' = air /\ node' = node
             ELSE node' = Stored(node, air.op, air.got) /\ late' = late
    BY <1>5 DEF Reply, Companion, Standalone
  <2>2. r \in Seq(AnItem) /\ (\A i \in DOMAIN r : r[i].op \notin Sets) /\ queue' = Tail(queue) \o r
    BY <1>2, <2>1, NoneAdded
  <2>3. node' \in ANode
    BY <1>2, <2>1, StoredType
  <2>4. LightTypeOK' /\ Shapes'
    <3>1. late' \in AnAnswer \union {Nothing} /\ offered' \subseteq Modes \union {"cover", "onoff"}
      BY <1>1, <1>2, <2>1 DEF LightTypeOK
    <3> QED BY <1>2, <1>3, <2>1, <2>3, <3>1
  <2>5. late' = late \/ Head(queue).op \in {"onoffSet", "onoffGet", "levelSet"}
    BY <1>2, <2>1, ModelOfIs
  <2>6. /\ Head(queue).op \notin {"lightGet", "hslGet"} => node'.l = node.l
        /\ node'.on = node.on /\ node'.level = node.level
        /\ node.maxL = LightMax => node'.maxL = LightMax
    BY <1>2, <2>1 DEF Stored, ANode
  <2> HIDE DEF r
  <2>7. OnItsWay'
    BY <1>1, <1>2, <2>2, <2>5, <2>6, Popped
  <2> QED BY <2>4, <2>7
<1> QED BY <1>4, <1>5

LEMMA TimeoutKeeps ==
  ASSUME LightTypeOK, Shapes, OnItsWay, Timeout
  PROVE  LightTypeOK' /\ Shapes' /\ OnItsWay'
<1> DEFINE i == Head(queue)
           again == [i EXCEPT !.left = @ - 1]
<1>1. /\ waiting /\ waiting' = FALSE /\ air' = Nothing
      /\ queue' = IF i.left > 1 THEN <<again>> \o Tail(queue) ELSE Tail(queue)
      /\ doubts' = IF i.left > 1 /\ (Companion \/ i.op # "onoffSet") THEN doubts
                   ELSE doubts \union {"lost"}
      /\ late' = IF Standalone /\ i.op = "onoffSet"
                   THEN [op |-> i.op, got |-> [light EXCEPT !.l = 0]] ELSE Nothing
      /\ UNCHANGED <<edition, light, node, heard, offered, want>>
  BY DEF Timeout
<1>2. /\ queue # <<>> /\ queue \in Seq(AnItem) /\ Tail(queue) \in Seq(AnItem) /\ i \in AnItem
      /\ i = queue[1] /\ i.op \in DOMAIN ModelOf /\ Len(queue) \in Nat /\ Len(queue) > 0
      /\ Len(Tail(queue)) = Len(queue) - 1
      /\ \A j \in 1 .. Len(Tail(queue)) : Tail(queue)[j] = queue[j + 1]
  BY <1>1 DEF LightTypeOK, Shapes
<1>3. i.left > 1 => again \in AnItem /\ again.op = i.op /\ again.args = i.args
  <2>1. i.left \in 0 .. Retries /\ Retries \in Nat
    BY <1>2, LightAssumption DEF AnItem
  <2>2. i.left > 1 => i.left - 1 \in 0 .. Retries
    BY <2>1
  <2> QED BY <1>2, <2>2 DEF AnItem
<1> HIDE DEF again
<1>4. i.left > 1 =>
        /\ <<again>> \o Tail(queue) \in Seq(AnItem)
        /\ DOMAIN (<<again>> \o Tail(queue)) = DOMAIN queue
        /\ (<<again>> \o Tail(queue))[1] = again
        /\ \A j \in DOMAIN queue : j > 1 => (<<again>> \o Tail(queue))[j] = queue[j]
  <2>1. SUFFICES ASSUME i.left > 1
                 PROVE  /\ <<again>> \o Tail(queue) \in Seq(AnItem)
                        /\ DOMAIN (<<again>> \o Tail(queue)) = DOMAIN queue
                        /\ (<<again>> \o Tail(queue))[1] = again
                        /\ \A j \in DOMAIN queue : j > 1 => (<<again>> \o Tail(queue))[j] = queue[j]
    OBVIOUS
  <2>2. <<again>> \in Seq(AnItem) /\ Len(<<again>>) = 1 /\ <<again>>[1] = again
    BY <1>3, <2>1
  <2>3. /\ <<again>> \o Tail(queue) \in Seq(AnItem)
        /\ Len(<<again>> \o Tail(queue)) = Len(queue)
        /\ \A j \in 1 .. Len(queue) : (<<again>> \o Tail(queue))[j] =
                                        IF j <= 1 THEN <<again>>[j] ELSE Tail(queue)[j - 1]
    BY <1>2, <2>2, ConcatProperties
  <2>4. \A j \in DOMAIN queue : j > 1 => j - 1 \in 1 .. Len(Tail(queue)) /\ (j - 1) + 1 = j
    BY <1>2
  <2> QED BY <1>2, <2>2, <2>3, <2>4
<1>5. queue' \in Seq(AnItem)
  BY <1>1, <1>2, <1>4
<1>6. LightTypeOK' /\ Shapes'
  <2>1. late' \in AnAnswer \union {Nothing}
    <3>1. [light EXCEPT !.l = 0] \in ALight
      BY ScalesAre DEF LightTypeOK, ALight
    <3> QED BY <1>1, <1>2, <3>1 DEF AnAnswer
  <2>2. LightTypeOK'
    BY <1>1, <1>5, <2>1 DEF LightTypeOK
  <2> QED BY <1>1, <2>2 DEF Shapes, Standalone
<1>7. SUFFICES ASSUME want' # Nothing, Trusted'
               PROVE  (NoneAhead' /\ Arrived') \/ \E k \in DOMAIN queue' : Ahead(k)'
  BY <1>6 DEF OnItsWay
<1>8. /\ i.left > 1 /\ (Companion \/ i.op # "onoffSet") /\ doubts' = doubts /\ late' = Nothing
      /\ want # Nothing /\ Trusted
  BY <1>1, <1>7 DEF Trusted, Companion, Standalone
<1>9. /\ DOMAIN queue' = DOMAIN queue
      /\ \A j \in DOMAIN queue : queue'[j].op = queue[j].op /\ queue'[j].args = queue[j].args
  <2>1. \A j \in DOMAIN queue : j = 1 \/ j > 1
    BY <1>2
  <2>2. queue' = <<again>> \o Tail(queue)
    BY <1>1, <1>8
  <2> QED BY <1>2, <1>3, <1>4, <1>8, <2>1, <2>2
<1>10. /\ \A j \in DOMAIN queue : j > 0 =>
            /\ j - 0 \in DOMAIN queue'
            /\ queue'[j - 0].op = queue[j].op /\ queue'[j - 0].args = queue[j].args
       /\ \A j \in DOMAIN queue' : j + 0 \in DOMAIN queue \/ queue'[j].op \notin Sets
  BY <1>2, <1>9
<1>11. CASE NoneAhead /\ Arrived
  <2>1. \A j \in DOMAIN queue : j > 0 => queue[j].op \notin SetsFor(want)
    BY <1>11 DEF NoneAhead
  <2>2. IF want.cover THEN light'.level = light.level ELSE light'.l = light.l
    BY <1>1
  <2> QED BY <1>1, <1>5, <1>10, <1>11, <2>1, <2>2, StillArrived
<1>12. ASSUME NEW k \in DOMAIN queue, Ahead(k)
       PROVE  \E h \in DOMAIN queue' : Ahead(h)'
  <2>1. k - 0 = k /\ k > 0
    BY <1>2
  <2>2. ASSUME Standalone
        PROVE  /\ MadeOf(node', queue[k].op) = MadeOf(node, queue[k].op)
               /\ queue[k].op \in {"onoffSet", "levelSet"} => late' = Nothing
               /\ queue[k].op = "hslSet" => node'.maxL = LightMax
    BY <1>1, <1>8, <1>12, <2>2 DEF Ahead, Undisturbed
  <2>3. Ahead(k - 0)'
    BY <1>1, <1>5, <1>10, <1>12, <2>1, <2>2, Carried
  <2> QED BY <1>9, <2>1, <2>3
<1> QED BY <1>8, <1>11, <1>12 DEF OnItsWay

LEMMA LightStep ==
  ASSUME LightTypeOK, Shapes, OnItsWay, [LightNext]_lightvars
  PROVE  LightTypeOK' /\ Shapes' /\ OnItsWay'
<1>1. ASSUME NEW c \in Commands, LightCommand(c) \/ set_onoff_handler(c) \/ set_hsl_handler(c)
      PROVE  LightTypeOK' /\ Shapes' /\ OnItsWay'
  BY <1>1, LightCommandKeeps, PageCommandsKeep
<1>2. ASSUME NEW p \in 0 .. Percent, CoverCommand(p)
      PROVE  LightTypeOK' /\ Shapes' /\ OnItsWay'
  BY <1>2, CoverCommandKeeps
<1>3. ASSUME NEW b \in Levels, SetLightness(b)
      PROVE  LightTypeOK' /\ Shapes' /\ OnItsWay'
  BY <1>3, SetLightnessKeeps
<1>4. CASE \/ ble_mesh_ctl_temperature_set \/ console_ctl_temperature_set \/ console_get
           \/ ByHand \/ Answer
  BY <1>4, PastTheQueue
<1>5. CASE Refresh
  BY <1>5, RefreshKeeps
<1>6. CASE Overhear
  BY <1>6, OverhearKeeps
<1>7. CASE SendFront
  BY <1>7, SendFrontKeeps
<1>8. CASE Publish
  BY <1>8, PublishKeeps
<1>9. CASE Reply
  BY <1>9, ReplyKeeps
<1>10. CASE StoreLate
  BY <1>10, StoreLateKeeps
<1>11. CASE Timeout
  BY <1>11, TimeoutKeeps
<1>12. CASE UNCHANGED lightvars
  BY <1>12 DEF lightvars, LightTypeOK, Shapes, OnItsWay, Ahead, NoneAhead, Arrived, Trusted,
     Undisturbed, Says, Standalone
<1> QED BY <1>1, <1>2, <1>3, <1>4, <1>5, <1>6, <1>7, <1>8, <1>9, <1>10, <1>11, <1>12 DEF LightNext

\* The inductive invariant: types, what may wait for what, and the command on its way to the
\* light through queue, air, losses, retries and late stores.
THEOREM LightInvariant == LightSpec => [](LightTypeOK /\ Shapes /\ OnItsWay)
<1>1. LightInit => LightTypeOK /\ Shapes /\ OnItsWay
  <2>1. LightInit => want = Nothing
    BY DEF LightInit
  <2> QED BY <2>1, InitTypeCorrect DEF OnItsWay
<1>2. LightTypeOK /\ Shapes /\ OnItsWay /\ [LightNext]_lightvars => (LightTypeOK /\ Shapes /\ OnItsWay)'
  BY LightStep
<1> QED BY <1>1, <1>2, PTL DEF LightSpec

\* Brightness, level and mode keep to their C types through every conversion of either
\* edition, and the queue, the record and the answers to their shapes.
THEOREM LightTypeCorrect == LightSpec => []LightTypeOK
BY LightInvariant, PTL

\* When the queue has run empty the light is as it was last asked to be, whatever commands,
\* refreshes, statuses and losses came between, in either edition.
THEOREM CommandsArrive == LightSpec => []CommandArrives
<1>1. LightTypeOK /\ Shapes /\ OnItsWay => CommandArrives
  <2>1. SUFFICES ASSUME OnItsWay, Quiet, want # Nothing, Trusted
                 PROVE  Arrived
    BY DEF CommandArrives
  <2>2. DOMAIN queue = {}
    BY <2>1 DEF Quiet
  <2> QED BY <2>1, <2>2 DEF OnItsWay
<1> QED BY <1>1, LightInvariant, PTL
=============================================================================
