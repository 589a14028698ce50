------------------------- MODULE NodeRegistryProofs -------------------------
(***************************************************************************)
(* Theorems about NodeRegistry: for any nodes, any schema found in flash,  *)
(* any number of changes and restarts, with or without writes and reads    *)
(* that flash refuses, and also when tasks work on one node at a time.     *)
(***************************************************************************)
EXTENDS NodeRegistry, TLAPS

(***************************************************************************)
(* Types.                                                                  *)
(***************************************************************************)
LEMMA GotoType ==
  ASSUME JobOK, NEW t \in Tasks, NEW step \in StepsOf(t), Goto(t, step)
  PROVE  JobOK'
<1>1. Idle.node \in Nodes /\ Idle.at = "idle"
  BY RegistryAssumption DEF Idle
<1>2. "idle" \in StepsOf(t) /\ StepsOf(t) \subseteq Steps
  BY DEF StepsOf, Steps
<1>3. job' \in [Tasks -> [at : Steps, node : Nodes]]
  BY <1>1, <1>2 DEF JobOK, Goto, Idle
<1>4. job'[t].at = step /\ \A u \in Tasks \ {t} : job'[u] = job[u]
  BY <1>1 DEF JobOK, Goto
<1>5. QED
  BY <1>3, <1>4 DEF JobOK

LEMMA BeginType ==
  ASSUME JobOK, NEW t \in Tasks, NEW step \in StepsOf(t), NEW n \in Nodes, Begin(t, step, n)
  PROVE  JobOK'
<1>1. StepsOf(t) \subseteq Steps
  BY DEF StepsOf, Steps
<1>2. job' \in [Tasks -> [at : Steps, node : Nodes]]
  BY <1>1 DEF JobOK, Begin
<1>3. job'[t].at = step /\ \A u \in Tasks \ {t} : job'[u] = job[u]
  BY DEF JobOK, Begin
<1>4. QED
  BY <1>2, <1>3 DEF JobOK

\* Who is at a step: the tasks that can be, and never in place of another.
LEMMA AtTask ==
  ASSUME JobOK, NEW t \in Tasks
  PROVE  /\ At(t, "version") \/ At(t, "blob") \/ At(t, "mark") \/ At(t, "unannounce")
            \/ At(t, "unstack") \/ At(t, "forget") => t \in {Btc, Timer}
         /\ job[t].node \in Nodes
  BY RegistryAssumption DEF JobOK, At, StepsOf, Tasks, Steps

LEMMA StepsOfTasks ==
  /\ \A t \in {Btc, Timer} :
       {"idle", "version", "blob", "mark", "unannounce", "unstack", "forget"} \subseteq StepsOf(t)
  /\ {"store", "config"} \subseteq StepsOf(Btc) /\ "clear" \in StepsOf(Timer)
  /\ {"idle", "delete"} \subseteq StepsOf(Console)
  BY RegistryAssumption DEF StepsOf, Steps

\* What a boot reads is well-typed.
LEMMA LoadType ==
  ASSUME NEW d \in Disks, NEW s \in SUBSET Nodes
  PROVE  /\ Load(d).table \in Tables /\ Load(d).marked \in BOOLEAN
         /\ Refreshed(Load(d).table, s) \in Tables
<1>1. Load(d).table \in Tables /\ Load(d).marked \in BOOLEAN
  BY DEF Load, Disks, Tables, NoNodes, Info
<1>2. Refreshed(Load(d).table, s) \in Tables
  BY <1>1 DEF Refreshed, Tables, Info
<1>3. QED
  BY <1>1, <1>2

\* The tables of a boot, whether flash can be read or not.
RestartTable(fails) ==
  Refreshed((IF fails THEN NothingLoaded ELSE Load(disk)).table, stack)

LEMMA RestartTables ==
  ASSUME TypeOK, Restart
  PROVE  /\ \E fails \in BOOLEAN :
              /\ table' = RestartTable(fails) /\ missed' = fails
              /\ torn' = (torn \/ fails \/ disk.layout # disk.version)
         /\ table' \in Tables /\ failures' \in 0 .. MaxFailures
         /\ {dirty', timer', unsaved', missed', torn'} \subseteq BOOLEAN
<1>1. PICK fails \in BOOLEAN :
         LET loaded == IF fails THEN NothingLoaded ELSE Load(disk)
         IN /\ IF fails THEN FlashFails ELSE UNCHANGED failures
            /\ table' = Refreshed(loaded.table, stack)
            /\ dirty' = loaded.marked /\ timer' = dirty' /\ unsaved' = dirty'
            /\ missed' = fails
            /\ torn' = (torn \/ fails \/ disk.layout # disk.version)
  BY DEF Restart
<1>2. failures' \in 0 .. MaxFailures
  BY <1>1, RegistryAssumption DEF FlashFails, TypeOK
<1>3. CASE fails
  <2>1. NothingLoaded.table = NoNodes /\ NothingLoaded.marked = FALSE
    BY DEF NothingLoaded
  <2>2. Refreshed(NoNodes, stack) \in Tables
    BY DEF Refreshed, NoNodes, Tables, Info
  <2>3. QED
    BY <1>1, <1>2, <1>3, <2>1, <2>2 DEF RestartTable
<1>4. CASE ~fails
  <2>1. Refreshed(Load(disk).table, stack) \in Tables /\ Load(disk).marked \in BOOLEAN
    BY LoadType DEF TypeOK
  <2>2. QED
    BY <1>1, <1>2, <1>4, <2>1 DEF RestartTable
<1>5. QED
  BY <1>3, <1>4

LEMMA MeetType ==
  ASSUME NEW n \in Nodes, met \in SUBSET Nodes, Meet(n)
  PROVE  met' \in SUBSET Nodes
  BY DEF Meet

LEMMA InitType == Init => TypeOK
<1> SUFFICES ASSUME Init PROVE TypeOK
  OBVIOUS
<1>1. disk \in Disks
  BY RegistryAssumption DEF Init, Disks, Tables, Info, SchemaVersion
<1>2. stack \in SUBSET Nodes
  BY DEF Init
<1>3. table \in Tables /\ dirty \in BOOLEAN
  BY <1>1, <1>2, LoadType DEF Init
<1>4. JobOK
  BY RegistryAssumption DEF Init, JobOK, Idle, StepsOf, Steps
<1>5. queue \in [Nodes -> Seq(Messages)]
  BY DEF Init
<1>6. changes \in 0 .. MaxChanges /\ crashes \in 0 .. MaxCrashes /\ failures \in 0 .. MaxFailures
  BY RegistryAssumption DEF Init
<1>7. {written, unnamed, orphans, met} \subseteq SUBSET Nodes
  BY <1>2 DEF Init
<1>8. QED
  BY <1>1, <1>2, <1>3, <1>4, <1>5, <1>6, <1>7 DEF Init, TypeOK

\* The queues, whatever a step takes from one or puts into one.
QueueOK == queue \in [Nodes -> Seq(Messages)]

LEMMA EnqueueType ==
  ASSUME QueueOK, NEW n \in Nodes, NEW m \in Messages, Enqueue(n, m)
  PROVE  QueueOK'
  BY DEF QueueOK, Enqueue

LEMMA FrontType ==
  ASSUME QueueOK, NEW n \in Nodes, Front(n) # "none"
  PROVE  queue[n] # << >> /\ Tail(queue[n]) \in Seq(Messages)
  BY DEF QueueOK, Front

\* One step per action; `job' first, by the lemma on how it is changed.
LEMMA NextType == TypeOK /\ [Next]_vars => TypeOK'
<1> SUFFICES ASSUME TypeOK, [Next]_vars PROVE TypeOK'
  OBVIOUS
<1> USE StepsOfTasks
<1>0. JobOK /\ QueueOK /\ {Btc, Timer, Console} \subseteq Tasks /\ met \in SUBSET Nodes
  BY DEF TypeOK, QueueOK, Tasks
<1>1. CASE Restart
  <2>1. /\ table' \in Tables /\ failures' \in 0 .. MaxFailures
        /\ {dirty', timer', unsaved', missed', torn'} \subseteq BOOLEAN
    BY <1>1, RestartTables
  <2>2. JobOK'
    BY <1>1, RegistryAssumption DEF Restart, JobOK, Idle, StepsOf, Steps
  <2>3. crashes' \in 0 .. MaxCrashes
    BY <1>1, RegistryAssumption DEF Restart, TypeOK
  <2>4. orphans' \in SUBSET Nodes /\ unnamed' \in SUBSET Nodes
    BY <1>1 DEF Restart, TypeOK
  <2>5. queue' \in [Nodes -> Seq(Messages)]
    BY <1>1 DEF Restart
  <2>6. UNCHANGED <<stack, disk, ha, changes, written, met>>
    BY <1>1 DEF Restart
  <2>7. QED
    BY <2>1, <2>2, <2>3, <2>4, <2>5, <2>6 DEF TypeOK
<1>2. CASE SaveTimerFires
  <2>1. JobOK'
    <3>1. CASE dirty
      <4>1. Idle.node \in Nodes
        BY RegistryAssumption DEF Idle
      <4>2. QED
        BY <1>0, <1>2, <3>1, <4>1, BeginType DEF SaveTimerFires
    <3>2. CASE ~dirty
      BY <1>0, <1>2, <3>2 DEF SaveTimerFires, JobOK
    <3>3. QED
      BY <3>1, <3>2
  <2>2. QED
    BY <1>2, <2>1 DEF SaveTimerFires, TypeOK, boundvars, histvars, goneorhere
<1>3. CASE ClearDirty
  <2>1. JobOK'
    BY <1>0, <1>3, GotoType DEF ClearDirty
  <2>2. QED
    BY <1>3, <2>1 DEF ClearDirty, TypeOK, boundvars, goneorhere
<1>4. ASSUME NEW t \in Tasks, SaveVersion(t) PROVE TypeOK'
  <2>1. JobOK'
    BY <1>0, <1>4, AtTask, GotoType DEF SaveVersion
  <2>2. disk' \in Disks
    BY <1>4 DEF SaveVersion, TypeOK, Disks, SchemaVersion
  <2>3. failures' \in 0 .. MaxFailures
    <3>1. FlashFails \/ UNCHANGED failures
      BY <1>4 DEF SaveVersion
    <3>2. QED
      BY <3>1, RegistryAssumption DEF FlashFails, TypeOK
  <2>4. QED
    BY <1>4, <2>1, <2>2, <2>3 DEF SaveVersion, TypeOK, goneorhere
<1>5. ASSUME NEW t \in Tasks, SaveBlob(t) PROVE TypeOK'
  <2>1. AfterBlob(t) \in StepsOf(t)
    BY <1>0, <1>5, AtTask DEF SaveBlob, AfterBlob
  <2>2. JobOK'
    BY <1>0, <1>5, <2>1, GotoType DEF SaveBlob
  <2>3. CASE FlashFails /\ missed' = TRUE /\ UNCHANGED <<disk, unsaved, written>>
    <3>1. failures' \in 0 .. MaxFailures
      BY <2>3, RegistryAssumption DEF FlashFails, TypeOK
    <3>2. QED
      BY <1>5, <2>2, <2>3, <3>1 DEF SaveBlob, TypeOK, goneorhere
  <2>4. CASE /\ disk' = [disk EXCEPT !.layout = SchemaVersion, !.nodes = table]
             /\ UNCHANGED failures /\ unsaved' = FALSE /\ missed' = (disk.version # SchemaVersion)
             /\ written' = IF missed' THEN written ELSE {n \in Nodes : table[n] = "composed"}
    <3>1. disk' = [version |-> disk.version, layout |-> SchemaVersion, nodes |-> table]
      BY <2>4 DEF TypeOK, Disks
    <3>2. disk' \in Disks
      BY <3>1 DEF TypeOK, Disks, SchemaVersion
    <3>3. missed' \in BOOLEAN
      BY <2>4
    <3>4. written' \in SUBSET Nodes
      BY <2>4 DEF TypeOK
    <3>5. UNCHANGED <<torn, unnamed, orphans, met, stack, table, dirty, timer, queue, ha, changes,
                      crashes>>
      BY <1>5 DEF SaveBlob, goneorhere
    <3>6. QED
      BY <2>2, <2>4, <3>2, <3>3, <3>4, <3>5 DEF TypeOK, boundvars
  <2>5. QED
    BY <1>5, <2>3, <2>4 DEF SaveBlob
<1>6. ASSUME NEW t \in Tasks, MarkDirty(t) PROVE TypeOK'
  <2>1. JobOK'
    BY <1>0, <1>6, AtTask, GotoType DEF MarkDirty
  <2>2. QED
    BY <1>6, <2>1 DEF MarkDirty, Mark, TypeOK, boundvars, goneorhere
<1>7. CASE StoreNodeInfo
  <2>1. JobOK'
    BY <1>0, <1>7, GotoType DEF StoreNodeInfo
  <2>2. table' \in Tables
    BY <1>7 DEF StoreNodeInfo, TypeOK, Tables, Info
  <2>3. QED
    BY <1>7, <2>1, <2>2 DEF StoreNodeInfo, TypeOK, storevars, savevars, goneorhere, boundvars
<1>8. CASE AskComposition
  <2>1. JobOK'
    BY <1>0, <1>8, GotoType DEF AskComposition
  <2>2. QueueOK'
    BY <1>0, <1>8, AtTask, EnqueueType DEF AskComposition, Messages, QueueOK
  <2>3. QED
    BY <1>8, <2>1, <2>2 DEF AskComposition, TypeOK, QueueOK, storevars, savevars, goneorhere, boundvars
<1>9. CASE Republish
  <2>1. QueueOK'
    BY <1>0, <1>9 DEF Republish, QueueOK, Messages
  <2>2. QED
    BY <1>0, <1>9, <2>1 DEF Republish, TypeOK, JobOK, QueueOK, storevars, savevars, goneorhere, boundvars
<1>10. CASE DeleteFromStack
  <2>1. JobOK'
    BY <1>0, <1>10, GotoType DEF DeleteFromStack
  <2>2. job[Console].node \in Nodes
    BY <1>0, AtTask
  <2>3. QED
    BY <1>10, <2>1, <2>2 DEF DeleteFromStack, TypeOK, savevars, boundvars
<1>11. ASSUME NEW n \in Nodes, ProvComplete(n) PROVE TypeOK'
  <2>1. JobOK'
    BY <1>0, <1>11, BeginType DEF ProvComplete, JobOK
  <2>2. changes' \in 0 .. MaxChanges
    BY <1>11, RegistryAssumption DEF ProvComplete, Change, TypeOK
  <2>3. QED
    BY <1>0, <1>11, MeetType, <2>1, <2>2 DEF ProvComplete, Change, TypeOK, storevars, savevars, goneorhere
<1>12. ASSUME NEW n \in Nodes, CompositionReceived(n) PROVE TypeOK'
  <2>1. JobOK'
    BY <1>0, <1>12, BeginType DEF CompositionReceived
  <2>2. QueueOK'
    BY <1>0, <1>12, FrontType DEF CompositionReceived, QueueOK, Messages
  <2>3. table' \in Tables
    BY <1>12 DEF CompositionReceived, TypeOK, Tables, Info
  <2>4. QED
    BY <1>0, <1>12, MeetType, <2>1, <2>2, <2>3
       DEF CompositionReceived, TypeOK, QueueOK, storevars, savevars, goneorhere, boundvars
<1>13. ASSUME NEW n \in Nodes, AppKeyAdded(n) PROVE TypeOK'
  <2>1. QueueOK'
    BY <1>0, <1>13, FrontType DEF AppKeyAdded, QueueOK, Messages
  <2>2. QED
    BY <1>0, <1>13, <2>1, MeetType DEF AppKeyAdded, TypeOK, JobOK, QueueOK, storevars, savevars, goneorhere, boundvars
<1>14. ASSUME NEW n \in Nodes, Announce(n) PROVE TypeOK'
  <2>1. QueueOK'
    BY <1>0, <1>14, FrontType DEF Announce, QueueOK
  <2>2. QED
    BY <1>0, <1>14, <2>1, MeetType DEF Announce, TypeOK, JobOK, QueueOK, storevars, savevars, goneorhere, boundvars
<1>15. ASSUME NEW n \in Nodes, Command(n) PROVE TypeOK'
  <2>1. QueueOK'
    BY <1>0, <1>15, EnqueueType DEF Command, Messages
  <2>2. changes' \in 0 .. MaxChanges
    BY <1>15, RegistryAssumption DEF Command, Change, TypeOK
  <2>3. QED
    BY <1>0, <1>15, <2>1, <2>2 DEF Command, Change, TypeOK, JobOK, QueueOK, storevars, savevars, goneorhere
<1>16. ASSUME NEW n \in Nodes, Ended(n) PROVE TypeOK'
  <2>1. QueueOK'
    BY <1>0, <1>16, FrontType DEF Ended, QueueOK
  <2>2. QED
    BY <1>0, <1>16, <2>1, MeetType DEF Ended, TypeOK, JobOK, QueueOK, storevars, savevars, goneorhere, boundvars
<1>17. ASSUME NEW n \in Nodes, Unprovision(n) PROVE TypeOK'
  <2>1. QueueOK'
    BY <1>0, <1>17, EnqueueType DEF Unprovision, Messages, QueueOK
  <2>2. changes' \in 0 .. MaxChanges
    BY <1>17, RegistryAssumption DEF Unprovision, Change, TypeOK
  <2>3. stack' \in SUBSET Nodes /\ orphans' \in SUBSET Nodes
    BY <1>17 DEF Unprovision, TypeOK
  <2>4. UNCHANGED <<table, savevars, unnamed, met, job, ha, crashes, failures>>
    BY <1>17 DEF Unprovision, Change
  <2>5. QED
    BY <1>0, <2>1, <2>2, <2>3, <2>4 DEF TypeOK, JobOK, QueueOK, savevars
<1>18. ASSUME NEW n \in Nodes, UnprovisionAll(n) PROVE TypeOK'
  <2>1. JobOK'
    BY <1>0, <1>18, BeginType DEF UnprovisionAll
  <2>2. QueueOK'
    BY <1>0, <1>18, EnqueueType DEF UnprovisionAll, Messages, QueueOK
  <2>3. changes' \in 0 .. MaxChanges
    BY <1>18, RegistryAssumption DEF UnprovisionAll, Change, TypeOK
  <2>4. QED
    BY <1>18, <2>1, <2>2, <2>3 DEF UnprovisionAll, Change, TypeOK, QueueOK, storevars, savevars, goneorhere
<1>19. ASSUME NEW n \in Nodes, ResetAcknowledged(n) PROVE TypeOK'
  <2>1. JobOK'
    BY <1>0, <1>19, BeginType DEF ResetAcknowledged
  <2>2. QueueOK'
    BY <1>0, <1>19, FrontType DEF ResetAcknowledged, QueueOK
  <2>3. QED
    BY <1>0, <1>19, MeetType, <2>1, <2>2 DEF ResetAcknowledged, TypeOK, QueueOK, storevars, savevars, goneorhere, boundvars
<1>20. ASSUME NEW t \in Tasks, NEW n \in Nodes, ResetGivenUp(t, n) PROVE TypeOK'
  <2>1. t \in {Btc, Timer}
    BY <1>20 DEF ResetGivenUp, Tasks
  <2>2. JobOK'
    BY <1>0, <1>20, <2>1, BeginType DEF ResetGivenUp, JobOK
  <2>3. QueueOK'
    BY <1>0, <1>20, FrontType DEF ResetGivenUp, QueueOK
  <2>4. QED
    BY <1>0, <1>20, MeetType, <2>2, <2>3 DEF ResetGivenUp, TypeOK, QueueOK, storevars, savevars, goneorhere, boundvars
<1>21. ASSUME NEW t \in Tasks, RemoveEntity(t) PROVE TypeOK'
  <2>1. JobOK'
    BY <1>0, <1>21, AtTask, GotoType DEF RemoveEntity
  <2>2. QED
    BY <1>21, <2>1 DEF RemoveEntity, TypeOK, storevars, savevars, goneorhere, boundvars
<1>22. ASSUME NEW t \in Tasks, RemoveFromStack(t) PROVE TypeOK'
  <2>1. JobOK'
    BY <1>0, <1>22, AtTask, GotoType DEF RemoveFromStack
  <2>2. QED
    BY <1>22, <2>1 DEF RemoveFromStack, TypeOK, storevars, savevars, goneorhere, boundvars
<1>23. ASSUME NEW t \in Tasks, RemoveNode(t) PROVE TypeOK'
  <2>1. JobOK'
    BY <1>0, <1>23, AtTask, GotoType DEF RemoveNode
  <2>2. table' \in Tables
    BY <1>23 DEF RemoveNode, TypeOK, Tables, Info
  <2>3. QueueOK'
    <3>1. << >> \in Seq(Messages)
      OBVIOUS
    <3>2. queue' = [queue EXCEPT ![job[t].node] = << >>]
      BY <1>23 DEF RemoveNode
    <3>3. QED
      BY <1>0, <3>1, <3>2 DEF QueueOK
  <2>4. QED
    BY <1>23, <2>1, <2>2, <2>3 DEF RemoveNode, Mark, TypeOK, QueueOK, boundvars, goneorhere
<1>24. CASE UNCHANGED vars
  BY <1>24 DEF vars, boundvars, TypeOK, JobOK
<1>25. QED
  BY <1>1, <1>2, <1>3, <1>4, <1>5, <1>6, <1>7, <1>8, <1>9, <1>10, <1>11, <1>12, <1>13, <1>14,
     <1>15, <1>16, <1>17, <1>18, <1>19, <1>20, <1>21, <1>22, <1>23, <1>24 DEF Next

\* TypeOK: every state of the registry is well-typed, and each task is only ever at a step
\* that its own code has.
THEOREM RegistryTypeCorrect == Spec => []TypeOK
  BY InitType, NextType, PTL DEF Spec

(***************************************************************************)
(* Saving.  SavedUnlessMissed is not inductive: the end of a save clears   *)
(* the flag, and only the history says whether a mark goes with it.        *)
(***************************************************************************)
Due == {"version", "blob", "mark"}
WriteDue == \E t \in Tasks : job[t].at \in Due

\* What is not in flash has been marked since the last write, or will be written or
\* marked by a task that is about to.
MarkRemembered == unsaved \/ missed \/ Saved \/ WriteDue

SaveInv == SavedUnlessMissed /\ MarkRemembered

\* A task that begins something, or goes on from a step that writes nothing, takes no
\* write that is due away.
LEMMA BeginKeepsDue ==
  ASSUME JobOK, NEW t \in Tasks, NEW step, NEW n, Begin(t, step, n), WriteDue
  PROVE  WriteDue'
<1>1. PICK u \in Tasks : job[u].at \in Due
  BY DEF WriteDue
<1>2. u # t
  BY <1>1 DEF Begin, At, Due
<1>3. job'[u] = job[u]
  BY <1>2 DEF Begin, JobOK
<1>4. QED
  BY <1>1, <1>3 DEF WriteDue

LEMMA GotoKeepsDue ==
  ASSUME JobOK, NEW t \in Tasks, job[t].at \notin Due, NEW step, Goto(t, step), WriteDue
  PROVE  WriteDue'
<1>1. PICK u \in Tasks : job[u].at \in Due
  BY DEF WriteDue
<1>2. job'[u] = job[u]
  BY <1>1 DEF Goto, JobOK
<1>3. QED
  BY <1>1, <1>2 DEF WriteDue

\* A task that arrives at such a step makes a write due.
LEMMA GotoMakesDue ==
  ASSUME JobOK, NEW t \in Tasks, NEW step \in Due, Goto(t, step)
  PROVE  WriteDue'
<1>1. job'[t].at = step
  BY DEF Goto, JobOK, Due
<1>2. QED
  BY <1>1 DEF WriteDue

\* Steps that change nothing of the table, flash and marks.
LEMMA QuietSteps ==
  ASSUME SaveInv, UNCHANGED <<table, disk, dirty, timer, unsaved, missed>>,
         WriteDue => WriteDue'
  PROVE  SaveInv'
  BY DEF SaveInv, SavedUnlessMissed, SavePending, MarkRemembered, Saved, InFlash, WriteDue, Due

\* With a write due, nothing else matters.
LEMMA DueIsEnough ==
  ASSUME WriteDue'
  PROVE  SaveInv'
  BY DEF SaveInv, SavedUnlessMissed, SavePending, MarkRemembered, WriteDue, Due

LEMMA SaveInit == Init => SaveInv
<1> SUFFICES ASSUME Init PROVE SaveInv
  OBVIOUS
<1>1. disk \in Disks
  BY InitType DEF TypeOK
<1>2. InFlash \in Tables /\ table = Refreshed(InFlash, stack)
  BY <1>1, LoadType DEF Init, InFlash
<1>3. Saved
  BY <1>2 DEF Saved, Refreshed, Tables
<1>4. QED
  BY <1>3 DEF SaveInv, SavedUnlessMissed, MarkRemembered

LEMMA NextSaves == TypeOK /\ SaveInv /\ [Next]_vars => SaveInv'
<1> SUFFICES ASSUME TypeOK, SaveInv, [Next]_vars PROVE SaveInv'
  OBVIOUS
<1>0. JobOK /\ {Btc, Timer, Console} \subseteq Tasks
  BY DEF TypeOK, Tasks
<1>1. CASE Restart
  <2>1. PICK fails \in BOOLEAN : table' = RestartTable(fails) /\ missed' = fails
    BY <1>1, RestartTables
  <2>2. CASE fails
    BY <2>1, <2>2 DEF SaveInv, SavedUnlessMissed, MarkRemembered
  <2>3. CASE ~fails
    <3>1. InFlash \in Tables /\ table' = Refreshed(InFlash, stack) /\ disk' = disk
      BY <1>1, <2>1, <2>3, LoadType DEF Restart, RestartTable, InFlash, TypeOK
    <3>2. Saved'
      BY <3>1 DEF Saved, InFlash, Refreshed, Tables
    <3>3. QED
      BY <3>2 DEF SaveInv, SavedUnlessMissed, MarkRemembered
  <2>4. QED
    BY <2>2, <2>3
<1>2. CASE SaveTimerFires
  <2>1. CASE dirty
    <3>1. job' = [job EXCEPT ![Timer] = [at |-> "version", node |-> Idle.node]]
      BY <1>2, <2>1 DEF SaveTimerFires, Begin
    <3>2. job'[Timer].at = "version"
      BY <1>0, <3>1 DEF JobOK
    <3>3. QED
      BY <1>0, <3>2, DueIsEnough DEF WriteDue, Due
  <2>2. CASE ~dirty
    BY <1>2, <2>2 DEF SaveTimerFires, SaveInv, SavedUnlessMissed, SavePending, MarkRemembered,
                      Saved, InFlash, WriteDue, Due, histvars
  <2>3. QED
    BY <2>1, <2>2
<1>3. CASE ClearDirty
  <2>1. WriteDue => WriteDue'
    BY <1>0, <1>3, GotoKeepsDue DEF ClearDirty, At, Due
  <2>2. CASE WriteDue
    BY <2>1, <2>2, DueIsEnough
  <2>3. CASE ~WriteDue
    <3>1. missed' \/ Saved
      BY <1>3, <2>3 DEF ClearDirty, SaveInv, MarkRemembered
    <3>2. Saved => Saved'
      BY <1>3 DEF ClearDirty, Saved, InFlash
    <3>3. QED
      BY <3>1, <3>2 DEF SaveInv, SavedUnlessMissed, MarkRemembered
  <2>4. QED
    BY <2>2, <2>3
<1>4. ASSUME NEW t \in Tasks, SaveVersion(t) PROVE SaveInv'
  BY <1>0, <1>4, GotoMakesDue, DueIsEnough DEF SaveVersion, Due
<1>5. ASSUME NEW t \in Tasks, SaveBlob(t) PROVE SaveInv'
  <2>1. CASE missed'
    BY <2>1 DEF SaveInv, SavedUnlessMissed, MarkRemembered
  <2>2. CASE ~missed'
    <3>1. /\ disk' = [disk EXCEPT !.layout = SchemaVersion, !.nodes = table]
          /\ missed' = (disk.version # SchemaVersion)
      BY <1>5, <2>2 DEF SaveBlob
    <3>2. disk' = [version |-> SchemaVersion, layout |-> SchemaVersion, nodes |-> table]
      BY <2>2, <3>1 DEF TypeOK, Disks
    <3>3. InFlash' = table'
      <4>1. disk'.version = SchemaVersion /\ disk'.layout = disk'.version /\ disk'.nodes = table
        BY <3>2
      <4>2. Load(disk').table = disk'.nodes
        BY <4>1 DEF Load
      <4>3. QED
        BY <1>5, <4>1, <4>2 DEF InFlash, SaveBlob
    <3>4. Saved'
      BY <3>3 DEF Saved
    <3>5. QED
      BY <3>4 DEF SaveInv, SavedUnlessMissed, MarkRemembered
  <2>3. QED
    BY <2>1, <2>2
<1>6. ASSUME NEW t \in Tasks, MarkDirty(t) PROVE SaveInv'
  BY <1>6 DEF MarkDirty, Mark, SaveInv, SavedUnlessMissed, SavePending, MarkRemembered
<1>7. CASE StoreNodeInfo
  BY <1>0, <1>7, GotoMakesDue, DueIsEnough DEF StoreNodeInfo, Due
<1>8. CASE AskComposition
  <2>1. WriteDue => WriteDue'
    BY <1>0, <1>8, GotoKeepsDue DEF AskComposition, At, Due
  <2>2. QED
    BY <1>8, <2>1, QuietSteps DEF AskComposition, storevars, savevars
<1>9. CASE Republish
  BY <1>9, QuietSteps DEF Republish, WriteDue, storevars, savevars
<1>10. CASE DeleteFromStack
  <2>1. WriteDue => WriteDue'
    BY <1>0, <1>10, GotoKeepsDue DEF DeleteFromStack, At, Due
  <2>2. QED
    BY <1>10, <2>1, QuietSteps DEF DeleteFromStack, savevars
<1>11. ASSUME NEW n \in Nodes, ProvComplete(n) PROVE SaveInv'
  <2>1. WriteDue => WriteDue'
    BY <1>0, <1>11, BeginKeepsDue DEF ProvComplete, WriteDue
  <2>2. QED
    BY <1>11, <2>1, QuietSteps DEF ProvComplete, storevars, savevars
<1>12. ASSUME NEW n \in Nodes, CompositionReceived(n) PROVE SaveInv'
  <2>1. job'[Btc].at = "mark"
    BY <1>0, <1>12 DEF CompositionReceived, Begin, JobOK
  <2>2. QED
    BY <1>0, <2>1, DueIsEnough DEF WriteDue, Due
<1>13. ASSUME NEW n \in Nodes, AppKeyAdded(n) PROVE SaveInv'
  BY <1>13, QuietSteps DEF AppKeyAdded, WriteDue, storevars, savevars
<1>14. ASSUME NEW n \in Nodes, Announce(n) PROVE SaveInv'
  BY <1>14, QuietSteps DEF Announce, WriteDue, storevars, savevars
<1>15. ASSUME NEW n \in Nodes, Command(n) PROVE SaveInv'
  BY <1>15, QuietSteps DEF Command, WriteDue, storevars, savevars
<1>16. ASSUME NEW n \in Nodes, Ended(n) PROVE SaveInv'
  BY <1>16, QuietSteps DEF Ended, WriteDue, storevars, savevars
<1>17. ASSUME NEW n \in Nodes, Unprovision(n) PROVE SaveInv'
  BY <1>17, QuietSteps DEF Unprovision, WriteDue, savevars
<1>18. ASSUME NEW n \in Nodes, UnprovisionAll(n) PROVE SaveInv'
  <2>1. WriteDue => WriteDue'
    BY <1>0, <1>18, BeginKeepsDue DEF UnprovisionAll
  <2>2. QED
    BY <1>18, <2>1, QuietSteps DEF UnprovisionAll, storevars, savevars
<1>19. ASSUME NEW n \in Nodes, ResetAcknowledged(n) PROVE SaveInv'
  <2>1. WriteDue => WriteDue'
    BY <1>0, <1>19, BeginKeepsDue DEF ResetAcknowledged
  <2>2. QED
    BY <1>19, <2>1, QuietSteps DEF ResetAcknowledged, storevars, savevars
<1>20. ASSUME NEW t \in Tasks, NEW n \in Nodes, ResetGivenUp(t, n) PROVE SaveInv'
  <2>1. WriteDue => WriteDue'
    BY <1>0, <1>20, BeginKeepsDue DEF ResetGivenUp, WriteDue
  <2>2. QED
    BY <1>20, <2>1, QuietSteps DEF ResetGivenUp, storevars, savevars
<1>21. ASSUME NEW t \in Tasks, RemoveEntity(t) PROVE SaveInv'
  <2>1. WriteDue => WriteDue'
    BY <1>0, <1>21, GotoKeepsDue DEF RemoveEntity, At, Due
  <2>2. QED
    BY <1>21, <2>1, QuietSteps DEF RemoveEntity, storevars, savevars
<1>22. ASSUME NEW t \in Tasks, RemoveFromStack(t) PROVE SaveInv'
  <2>1. WriteDue => WriteDue'
    BY <1>0, <1>22, GotoKeepsDue DEF RemoveFromStack, At, Due
  <2>2. QED
    BY <1>22, <2>1, QuietSteps DEF RemoveFromStack, storevars, savevars
<1>23. ASSUME NEW t \in Tasks, RemoveNode(t) PROVE SaveInv'
  BY <1>23 DEF RemoveNode, Mark, SaveInv, SavedUnlessMissed, SavePending, MarkRemembered
<1>24. CASE UNCHANGED vars
  BY <1>24, QuietSteps DEF vars, WriteDue
<1>25. QED
  BY <1>1, <1>2, <1>3, <1>4, <1>5, <1>6, <1>7, <1>8, <1>9, <1>10, <1>11, <1>12, <1>13, <1>14,
     <1>15, <1>16, <1>17, <1>18, <1>19, <1>20, <1>21, <1>22, <1>23, <1>24 DEF Next

\* SavedUnlessMissed: whatever the tasks do, and wherever a restart comes, what is known of
\* the nodes is in flash or a save is due, unless a mark was cleared unseen, or a write
\* or a boot's read refused.
THEOREM RegistrySaved == Spec => []SavedUnlessMissed
<1>1. SaveInv => SavedUnlessMissed
  BY DEF SaveInv
<1>2. QED
  BY InitType, NextType, SaveInit, NextSaves, <1>1, PTL DEF Spec

(***************************************************************************)
(* What has reached flash is kept.  What a firmware with schema 3 left has *)
(* not reached flash in this sense: no boot reads it.                      *)
(***************************************************************************)
\* What has reached flash of a node is there, and in the table.
FeaturesInv ==
  /\ disk.layout \in {0, 3} => written = {}
  /\ torn \/ \A n \in written : table[n] = "composed" /\ disk.nodes[n] = "composed"

LEMMA FeaturesInit == Init => FeaturesInv
<1> SUFFICES ASSUME Init PROVE FeaturesInv
  OBVIOUS
<1>1. disk.version \in 0 .. 4 /\ disk.layout = disk.version
  BY RegistryAssumption DEF Init
<1>2. disk.layout \in {0, 3} => written = {}
  BY <1>1 DEF Init, NoNodes
<1>3. \A n \in written : /\ n \in Nodes /\ disk.nodes[n] = "composed"
                          /\ disk.version \in {1, 2, SchemaVersion}
  <2>1. written = {} \/ disk.version \in {1, 2, SchemaVersion}
    BY <1>1, <1>2 DEF SchemaVersion
  <2>2. written \subseteq stack
    BY DEF Init
  <2>3. QED
    BY <2>1, <2>2 DEF Init
<1>4. \A n \in written : table[n] = "composed"
  BY <1>1, <1>3 DEF Init, Load, Refreshed
<1>5. QED
  BY <1>2, <1>3, <1>4 DEF FeaturesInv

\* A step that leaves flash and the history alone, and takes no features from the table.
LEMMA FeaturesStay ==
  ASSUME FeaturesInv, UNCHANGED <<disk, written, torn>>,
         \A n \in Nodes : table[n] = "composed" => table'[n] = "composed",
         written \subseteq Nodes
  PROVE  FeaturesInv'
BY DEF FeaturesInv

LEMMA NextFeatures == TypeOK /\ FeaturesInv /\ [Next]_vars => FeaturesInv'
<1> SUFFICES ASSUME TypeOK, FeaturesInv, [Next]_vars PROVE FeaturesInv'
  OBVIOUS
<1>0. /\ written \subseteq Nodes /\ disk \in Disks /\ table \in Tables
      /\ Btc \in Tasks /\ \A t \in Tasks : job[t].node \in Nodes
  BY DEF TypeOK, JobOK, Tasks
<1>1. CASE Restart
  <2>1. PICK fails \in BOOLEAN : /\ table' = RestartTable(fails)
                                 /\ torn' = (torn \/ fails \/ disk.layout # disk.version)
    BY <1>1, RestartTables
  <2>2. UNCHANGED <<disk, written>>
    BY <1>1 DEF Restart
  <2>3. ASSUME ~torn', NEW n \in written PROVE table'[n] = "composed" /\ disk.nodes[n] = "composed"
    <3>1. ~torn /\ ~fails /\ disk.layout = disk.version
      BY <2>1, <2>3
    <3>2. disk.version \in {1, 2, SchemaVersion}
      BY <1>0, <2>3, <3>1 DEF FeaturesInv, Disks, SchemaVersion
    <3>3. disk.nodes[n] = "composed" /\ n \in Nodes
      BY <1>0, <2>3, <3>1 DEF FeaturesInv
    <3>4. QED
      BY <2>1, <3>1, <3>2, <3>3 DEF RestartTable, Load, Refreshed
  <2>4. QED
    BY <2>2, <2>3 DEF FeaturesInv
<1>2. ASSUME NEW t \in Tasks, SaveVersion(t) PROVE FeaturesInv'
  <2>1. disk'.layout = disk.layout /\ disk'.nodes = disk.nodes /\ UNCHANGED <<table, written, torn>>
    BY <1>0, <1>2 DEF SaveVersion, Disks
  <2>2. QED
    BY <2>1 DEF FeaturesInv
<1>3. ASSUME NEW t \in Tasks, SaveBlob(t) PROVE FeaturesInv'
  <2>1. UNCHANGED <<table, torn>>
    BY <1>3 DEF SaveBlob
  <2>2. CASE UNCHANGED <<disk, written>>
    BY <2>1, <2>2 DEF FeaturesInv
  <2>3. CASE /\ disk' = [disk EXCEPT !.layout = SchemaVersion, !.nodes = table]
             /\ written' \in {written, {n \in Nodes : table[n] = "composed"}}
    <3>1. disk'.layout = SchemaVersion /\ disk'.nodes = table
      BY <1>0, <2>3 DEF Disks
    <3>2. torn \/ \A n \in written' : table[n] = "composed"
      BY <2>3 DEF FeaturesInv
    <3>3. QED
      BY <2>1, <3>1, <3>2 DEF FeaturesInv, SchemaVersion
  <2>4. QED
    BY <1>3, <2>2, <2>3 DEF SaveBlob
<1>4. CASE StoreNodeInfo
  BY <1>0, <1>4, FeaturesStay DEF StoreNodeInfo, storevars, savevars, Tables
<1>5. ASSUME NEW n \in Nodes, CompositionReceived(n) PROVE FeaturesInv'
  BY <1>0, <1>5, FeaturesStay DEF CompositionReceived, storevars, savevars, Tables
<1>6. ASSUME NEW t \in Tasks, RemoveNode(t) PROVE FeaturesInv'
  <2>1. /\ UNCHANGED <<disk, torn>> /\ written' = written \ {job[t].node}
        /\ \A n \in Nodes : n # job[t].node => table'[n] = table[n]
    BY <1>0, <1>6 DEF RemoveNode, Mark, Tables
  <2>2. QED
    BY <1>0, <2>1 DEF FeaturesInv
<1>7. CASE UNCHANGED <<table, disk, written, torn>>
  BY <1>0, <1>7, FeaturesStay
<1>8. QED
  <2>1. ASSUME SaveTimerFires \/ ClearDirty \/ (\E t \in Tasks : MarkDirty(t))
               \/ AskComposition \/ Republish \/ DeleteFromStack
               \/ \E n \in Nodes : ProvComplete(n) \/ AppKeyAdded(n) \/ Announce(n)
               \/ Command(n) \/ Ended(n) \/ Unprovision(n) \/ UnprovisionAll(n)
               \/ ResetAcknowledged(n)
        PROVE  UNCHANGED <<table, disk, written, torn>>
    BY <2>1 DEF SaveTimerFires, ClearDirty, MarkDirty, Mark, AskComposition, Republish,
       DeleteFromStack, ProvComplete, AppKeyAdded, Announce, Command, Ended, Unprovision,
       UnprovisionAll, ResetAcknowledged, storevars, savevars, histvars
  <2>2. ASSUME NEW t \in Tasks, RemoveEntity(t) \/ RemoveFromStack(t)
                                \/ \E n \in Nodes : ResetGivenUp(t, n)
        PROVE  UNCHANGED <<table, disk, written, torn>>
    BY <2>2 DEF RemoveEntity, RemoveFromStack, ResetGivenUp, storevars, savevars
  <2>3. UNCHANGED vars => UNCHANGED <<table, disk, written, torn>>
    BY DEF vars
  <2>4. QED
    BY <1>1, <1>2, <1>3, <1>4, <1>5, <1>6, <1>7, <2>1, <2>2, <2>3 DEF Next

\* FeaturesKept: what is known of a node's models and has reached flash is never lost, whatever
\* schema was found there (what a firmware with schema 3 left is not read), whenever the bridge
\* restarts and whatever writes flash refuses, unless a restart came between the two writes of
\* the migrating save or could not read flash.
THEOREM RegistryFeatures == Spec => []FeaturesKept
<1>1. FeaturesInv => FeaturesKept
  BY DEF FeaturesInv, FeaturesKept
<1>2. QED
  BY InitType, NextType, FeaturesInit, NextFeatures, <1>1, PTL DEF Spec

(***************************************************************************)
(* The tables agree about every node that no two tasks have worked on at   *)
(* the same time.  A save between two steps of a provisioning lets others  *)
(* in, so a node may be removed while it is still being added: what keeps  *)
(* the tables together is that one task at a time takes it out of them.    *)
(***************************************************************************)
Stores(t, n) == job[t].node = n /\ job[t].at = "store"
Forgets(t, n) == job[t].node = n /\ job[t].at = "forget"
Leaves(t, n) == job[t].node = n /\ job[t].at \in {"unannounce", "unstack", "forget"}

\* n is in the mesh and known, or about to be; or gone, up to the last step of its removal,
\* which one task does, in the order of the code.
Agree(n) ==
  /\ n \in stack => n \in unnamed \/ table[n] # "none" \/ \E t \in Tasks : Stores(t, n)
  /\ n \notin stack =>
       n \notin ha /\ ((table[n] = "none" /\ queue[n] = << >>) \/ \E t \in Tasks : Forgets(t, n))
  /\ \A t \in Tasks : Stores(t, n) => n \in stack /\ \A u \in Tasks : ~Leaves(u, n)
  /\ \A t \in Tasks : Leaves(t, n) =>
       /\ \A u \in Tasks \ {t} : ~Leaves(u, n)
       /\ Forgets(t, n) <=> n \notin stack
       /\ job[t].at = "unstack" => n \notin ha

AgreeInv == \A n \in Nodes \ (orphans \cup met) : Agree(n)

\* No task takes up a step that matters to n's tables, or goes on from one.
SameWork(n) ==
  \A t \in Tasks : job'[t] = job[t]
     \/ ((job[t].node = n => job[t].at \notin Working) /\ (job'[t].node = n => job'[t].at \notin Working))

\* A step that does nothing to n, but may queue messages for a node that is known.
LEMMA AgreeStays ==
  ASSUME NEW n \in Nodes, Agree(n), SameWork(n),
         n \in stack <=> n \in stack', n \in ha' => n \in ha, n \in unnamed => n \in unnamed',
         table'[n] = "none" <=> table[n] = "none",
         table[n] = "none" /\ queue[n] = << >> => queue'[n] = << >> \/ n \in stack
  PROVE  Agree(n)'
<1>1. \A t \in Tasks : /\ Stores(t, n)' <=> Stores(t, n)
                       /\ Forgets(t, n)' <=> Forgets(t, n)
                       /\ Leaves(t, n)' <=> Leaves(t, n)
                       /\ Leaves(t, n) => job'[t] = job[t]
  BY DEF SameWork, Working, Stores, Forgets, Leaves
<1>2. QED
  BY <1>1 DEF Agree

\* Where one task's job goes; the others' stay.
LEMMA GotoJob ==
  ASSUME JobOK, NEW t \in Tasks, NEW step, Goto(t, step)
  PROVE  /\ job'[t].at = step
         /\ step # "idle" => job'[t].node = job[t].node
         /\ \A u \in Tasks \ {t} : job'[u] = job[u]
  BY DEF JobOK, Goto, Idle

LEMMA BeginJob ==
  ASSUME JobOK, NEW t \in Tasks, NEW step, NEW m, Begin(t, step, m)
  PROVE  /\ job[t].at = "idle" /\ job'[t].at = step /\ job'[t].node = m
         /\ \A u \in Tasks \ {t} : job'[u] = job[u]
  BY DEF JobOK, Begin, At

LEMMA GotoSame ==
  ASSUME JobOK, NEW t \in Tasks, NEW step, Goto(t, step), NEW n,
         job[t].at \notin Working \/ job[t].node # n, step \notin Working \/ job[t].node # n
  PROVE  SameWork(n)
<1>1. step = "idle" => step \notin Working
  BY DEF Working
<1>2. QED
  BY <1>1, GotoJob DEF SameWork

LEMMA BeginSame ==
  ASSUME JobOK, NEW t \in Tasks, NEW step, NEW m, Begin(t, step, m), NEW n,
         step \notin Working \/ m # n
  PROVE  SameWork(n)
  BY BeginJob DEF SameWork, Working

LEMMA AgreeInit == Init => AgreeInv
<1> SUFFICES ASSUME Init, NEW n \in Nodes PROVE Agree(n)
  BY DEF AgreeInv
<1>1. disk \in Disks
  BY InitType DEF TypeOK
<1>2. Load(disk).table \in Tables /\ table = Refreshed(Load(disk).table, stack)
  BY <1>1, LoadType DEF Init
<1>3. n \in stack => table[n] # "none"
  BY <1>2 DEF Refreshed, Tables
<1>4. n \notin stack => table[n] = "none"
  <2>1. n \notin stack => disk.nodes[n] = "none"
    BY DEF Init
  <2>2. n \notin stack => Load(disk).table[n] = "none"
    BY <2>1 DEF Load, NoNodes
  <2>3. QED BY <1>2, <2>2 DEF Refreshed
<1>5. n \notin stack => n \notin ha
  BY DEF Init
<1>6. queue[n] = << >> /\ \A t \in Tasks : job[t].at = "idle"
  BY DEF Init, Idle
<1>7. QED
  BY <1>3, <1>4, <1>5, <1>6 DEF Agree, Stores, Forgets, Leaves

\* What comes when n is in the hands of no task meets none.
LEMMA MetNone ==
  ASSUME NEW n \in Nodes, Meet(n), n \notin met'
  PROVE  \A t \in Tasks : ~Stores(t, n) /\ ~Leaves(t, n)
  BY DEF Meet, Working, Stores, Leaves

\* A node with a message that ends then is in the mesh.
LEMMA FrontIsInStack ==
  ASSUME NEW n \in Nodes, Agree(n), Front(n) # "none", Meet(n), n \notin met'
  PROVE  n \in stack
<1>1. queue[n] # << >> /\ \A t \in Tasks : ~Forgets(t, n)
  BY MetNone DEF Front, Forgets, Leaves
<1>2. QED
  BY <1>1 DEF Agree

\* One step per group of actions, seen from one node.
LEMMA NextAgrees ==
  ASSUME TypeOK, AgreeInv, [Next]_vars
  PROVE  AgreeInv'
<1> SUFFICES ASSUME NEW n \in Nodes, n \notin orphans', n \notin met' PROVE Agree(n)'
  BY DEF AgreeInv
<1>0. /\ JobOK /\ {Btc, Timer, Console} \subseteq Tasks /\ table \in Tables
      /\ queue \in [Nodes -> Seq(Messages)]
  BY DEF TypeOK, Tasks
<1>k. Agree(n) /\ n \notin orphans /\ (~Restart /\ n \in unnamed => n \in unnamed')
  <2>1. /\ orphans \subseteq orphans' /\ met \subseteq met'
        /\ ~Restart => unnamed \subseteq unnamed'
    BY DEF Next, Restart, SaveTimerFires, ClearDirty, SaveVersion, SaveBlob, MarkDirty, Mark,
       StoreNodeInfo, AskComposition, Republish, DeleteFromStack, ProvComplete,
       CompositionReceived, AppKeyAdded, Announce, Command, Ended, Unprovision, UnprovisionAll,
       ResetAcknowledged, ResetGivenUp, RemoveEntity, RemoveFromStack, RemoveNode, vars,
       storevars, savevars, goneorhere, histvars, Meet
  <2>2. QED BY <2>1 DEF AgreeInv
<1>1. CASE Restart
  <2>1. UNCHANGED <<stack, ha>> /\ (\E fails \in BOOLEAN : table' = RestartTable(fails))
        /\ orphans' = orphans \cup {m \in Nodes \ stack : table'[m] # "none"}
    BY <1>1, RestartTables DEF Restart
  <2>2. queue'[n] = << >> /\ \A t \in Tasks : job'[t].at = "idle"
    BY <1>1 DEF Restart, Idle
  <2>3. n \notin stack' => table'[n] = "none"
    BY <2>1
  <2>4. n \in stack' => table'[n] # "none"
    BY <2>1 DEF Refreshed, RestartTable
  <2>5. n \notin stack' => n \notin ha'
    BY <1>k, <2>1 DEF Agree
  <2>6. QED
    BY <2>2, <2>3, <2>4, <2>5 DEF Agree, Stores, Forgets, Leaves
<1>u. SUFFICES ASSUME ~Restart PROVE Agree(n)'
  BY <1>1
<1>v. n \in unnamed => n \in unnamed'
  BY <1>k, <1>u
<1>2. CASE SaveTimerFires
  <2>1. SameWork(n)
    <3>1. CASE dirty
      <4>1. Begin(Timer, "version", Idle.node) /\ "version" \notin Working
        BY <1>2, <3>1 DEF SaveTimerFires, Working
      <4>2. QED BY <1>0, <4>1, BeginSame
    <3>2. CASE ~dirty
      BY <1>2, <3>2 DEF SaveTimerFires, SameWork
    <3>3. QED BY <3>1, <3>2
  <2>2. QED
    BY <1>k, <1>v, <1>2, <2>1, AgreeStays DEF SaveTimerFires
<1>3. CASE ClearDirty
  <2>1. SameWork(n)
    BY <1>0, <1>3, GotoSame DEF ClearDirty, At, Working
  <2>2. QED
    BY <1>k, <1>v, <1>3, <2>1, AgreeStays DEF ClearDirty
<1>4. ASSUME NEW t \in Tasks, SaveVersion(t) \/ SaveBlob(t) \/ MarkDirty(t) PROVE Agree(n)'
  <2>1. AfterBlob(t) \notin Working
    BY DEF AfterBlob, Working
  <2>2. SameWork(n)
    BY <1>0, <1>4, <2>1, GotoSame DEF SaveVersion, SaveBlob, MarkDirty, At, Working
  <2>3. UNCHANGED <<stack, table, queue, ha>>
    BY <1>4 DEF SaveVersion, SaveBlob, MarkDirty
  <2>4. QED
    BY <1>k, <1>v, <2>2, <2>3, AgreeStays
<1>5. CASE StoreNodeInfo
  <2>1. CASE job[Btc].node # n
    <3>1. SameWork(n)
      BY <1>0, <1>5, <2>1, GotoSame DEF StoreNodeInfo
    <3>2. table'[n] = table[n]
      BY <1>5, <2>1 DEF StoreNodeInfo
    <3>3. QED
      BY <1>k, <1>v, <1>5, <3>1, <3>2, AgreeStays DEF StoreNodeInfo
  <2>2. CASE job[Btc].node = n
    <3>1. n \in stack /\ \A u \in Tasks : ~Leaves(u, n)
      BY <1>0, <1>k, <1>5, <2>2 DEF StoreNodeInfo, At, Stores, Agree
    <3>2. table'[n] # "none" /\ stack' = stack
      BY <1>0, <1>5, <2>2 DEF StoreNodeInfo, Tables
    <3>3. job'[Btc].at = "version" /\ \A u \in Tasks \ {Btc} : job'[u] = job[u]
      BY <1>0, <1>5, GotoJob DEF StoreNodeInfo
    <3>4. \A u \in Tasks : ~Leaves(u, n)'
      BY <3>1, <3>3 DEF Leaves
    <3>5. QED
      BY <3>1, <3>2, <3>4 DEF Agree, Forgets, Leaves
  <2>3. QED BY <2>1, <2>2
<1>6. CASE AskComposition
  <2>1. SameWork(n)
    BY <1>0, <1>6, GotoSame DEF AskComposition, At, Working
  <2>2. table[n] = "none" => queue'[n] = queue[n]
    BY <1>0, <1>6 DEF AskComposition, Enqueue
  <2>3. QED
    BY <1>k, <1>v, <1>6, <2>1, <2>2, AgreeStays DEF AskComposition
<1>7. CASE Republish
  <2>1. table[n] = "none" => queue'[n] = queue[n]
    BY <1>7 DEF Republish
  <2>2. QED
    BY <1>k, <1>v, <1>7, <2>1, AgreeStays DEF Republish, SameWork
<1>8. CASE DeleteFromStack
  <2>1. job[Console].node # n
    BY <1>8 DEF DeleteFromStack
  <2>2. SameWork(n)
    BY <1>0, <1>8, <2>1, GotoSame DEF DeleteFromStack
  <2>3. QED
    BY <1>k, <1>v, <1>8, <2>1, <2>2, AgreeStays DEF DeleteFromStack
<1>9. ASSUME NEW m \in Nodes, ProvComplete(m) PROVE Agree(n)'
  <2>1. CASE m # n
    <3>1. SameWork(n)
      <4>1. Begin(Btc, "store", m) \/ UNCHANGED job
        BY <1>9 DEF ProvComplete
      <4>2. Begin(Btc, "store", m) => SameWork(n)
        BY <1>0, <2>1, BeginSame
      <4>3. QED
        BY <4>1, <4>2 DEF SameWork
    <3>2. QED
      BY <1>k, <1>v, <1>9, <2>1, <3>1, AgreeStays DEF ProvComplete
  <2>2. CASE m = n
    <3>1. \A u \in Tasks : ~Leaves(u, n) /\ ~Stores(u, n)
      BY <1>9, <2>2, MetNone DEF ProvComplete
    <3>2. n \in stack'
      BY <1>9, <2>2 DEF ProvComplete
    <3>3. CASE Begin(Btc, "store", n)
      <4>1. job'[Btc].at = "store" /\ job'[Btc].node = n /\ \A u \in Tasks \ {Btc} : job'[u] = job[u]
        BY <1>0, <3>3, BeginJob
      <4>2. \A u \in Tasks : ~Leaves(u, n)'
        BY <3>1, <4>1 DEF Leaves
      <4>3. Stores(Btc, n)'
        BY <4>1 DEF Stores
      <4>4. QED
        BY <1>0, <3>2, <4>2, <4>3 DEF Agree
    <3>4. CASE unnamed' = unnamed \cup {n} /\ UNCHANGED job
      <4>1. \A u \in Tasks : ~Leaves(u, n)' /\ ~Stores(u, n)'
        BY <3>1, <3>4 DEF Leaves, Stores
      <4>2. QED
        BY <3>2, <3>4, <4>1 DEF Agree
    <3>5. QED
      BY <1>9, <2>2, <3>3, <3>4 DEF ProvComplete
  <2>3. QED BY <2>1, <2>2
<1>10. ASSUME NEW m \in Nodes, CompositionReceived(m) PROVE Agree(n)'
  <2>1. SameWork(n)
    BY <1>0, <1>10, BeginSame DEF CompositionReceived, Working
  <2>2. table'[n] = "none" <=> table[n] = "none"
    BY <1>0, <1>10 DEF CompositionReceived, Tables
  <2>3. table[n] = "none" => queue'[n] = queue[n]
    BY <1>0, <1>10 DEF CompositionReceived
  <2>4. QED
    BY <1>k, <1>v, <1>10, <2>1, <2>2, <2>3, AgreeStays DEF CompositionReceived
<1>11. ASSUME NEW m \in Nodes, AppKeyAdded(m) \/ Announce(m) \/ Ended(m) PROVE Agree(n)'
  <2>1. SameWork(n) /\ UNCHANGED <<stack, table>>
    BY <1>11 DEF AppKeyAdded, Announce, Ended, SameWork
  <2>2. queue[n] = << >> => queue'[n] = << >>
    <3>1. queue[m] # << >> /\ \E q : queue' = [queue EXCEPT ![m] = q]
      BY <1>11 DEF AppKeyAdded, Announce, Ended, Front
    <3>2. QED BY <1>0, <3>1
  <2>3. CASE n \in ha' => n \in ha
    BY <1>k, <1>v, <2>1, <2>2, <2>3, AgreeStays
  <2>4. CASE n \in ha' /\ n \notin ha
    <3>1. m = n /\ n \in stack /\ Meet(n) /\ UNCHANGED job
      BY <1>11, <2>4 DEF AppKeyAdded, Announce, Ended
    <3>2. \A t \in Tasks : ~Stores(t, n) /\ ~Leaves(t, n)
      BY <3>1, MetNone
    <3>3. \A t \in Tasks : ~Stores(t, n)' /\ ~Leaves(t, n)'
      BY <3>1, <3>2 DEF Stores, Leaves
    <3>4. n \in unnamed' \/ table'[n] # "none"
      BY <1>k, <1>v, <2>1, <3>1, <3>2 DEF Agree
    <3>5. QED BY <2>1, <3>1, <3>3, <3>4 DEF Agree
  <2>5. QED BY <2>3, <2>4
<1>12. ASSUME NEW m \in Nodes, Command(m) PROVE Agree(n)'
  <2>1. table[n] = "none" => queue'[n] = queue[n]
    BY <1>0, <1>12 DEF Command, Enqueue
  <2>2. QED
    BY <1>k, <1>v, <1>12, <2>1, AgreeStays DEF Command, SameWork
<1>13. ASSUME NEW m \in Nodes, Unprovision(m) PROVE Agree(n)'
  <2>1. n \in stack' <=> n \in stack
    BY <1>13 DEF Unprovision
  <2>2. table[n] = "none" => queue'[n] = queue[n]
    BY <1>0, <1>13 DEF Unprovision, Enqueue
  <2>3. QED
    BY <1>k, <1>v, <1>13, <2>1, <2>2, AgreeStays DEF Unprovision, SameWork
<1>14. ASSUME NEW m \in Nodes, UnprovisionAll(m) PROVE Agree(n)'
  <2>1. SameWork(n)
    BY <1>0, <1>14, BeginSame DEF UnprovisionAll, Working
  <2>2. table[n] = "none" => queue'[n] = queue[n]
    BY <1>0, <1>14 DEF UnprovisionAll, Enqueue
  <2>3. QED
    BY <1>k, <1>v, <1>14, <2>1, <2>2, AgreeStays DEF UnprovisionAll
<1>15. ASSUME NEW t \in Tasks, NEW m \in Nodes,
              (t = Btc /\ ResetAcknowledged(m)) \/ ResetGivenUp(t, m)
       PROVE  Agree(n)'
  <2>1. Front(m) # "none" /\ Meet(m) /\ UNCHANGED <<stack, table, ha>>
        /\ queue' = [queue EXCEPT ![m] = Tail(@)]
        /\ (Begin(t, "unannounce", m) \/ UNCHANGED job)
    BY <1>15 DEF ResetAcknowledged, ResetGivenUp
  <2>2. queue[n] = << >> => queue'[n] = << >>
    BY <1>0, <2>1 DEF Front
  <2>3. CASE UNCHANGED job \/ m # n
    <3>1. SameWork(n)
      BY <1>0, <2>1, <2>3, BeginSame DEF SameWork
    <3>2. QED
      BY <1>k, <1>v, <2>1, <2>2, <3>1, AgreeStays
  <2>4. CASE Begin(t, "unannounce", m) /\ m = n
    <3>1. n \in stack /\ \A u \in Tasks : ~Stores(u, n) /\ ~Leaves(u, n)
      BY <1>k, <2>1, <2>4, MetNone, FrontIsInStack
    <3>2. (n \in unnamed' \/ table'[n] # "none") /\ n \in stack'
      BY <1>k, <1>v, <2>1, <3>1 DEF Agree
    <3>3. job'[t].at = "unannounce" /\ \A u \in Tasks \ {t} : job'[u] = job[u]
      BY <1>0, <2>4, BeginJob
    <3>4. /\ \A u \in Tasks : ~Stores(u, n)' /\ ~Forgets(u, n)'
          /\ \A u \in Tasks \ {t} : ~Leaves(u, n)'
      BY <3>1, <3>3 DEF Stores, Forgets, Leaves
    <3>5. QED
      BY <3>2, <3>3, <3>4 DEF Agree
  <2>5. QED BY <2>1, <2>3, <2>4
<1>16. ASSUME NEW t \in Tasks, RemoveEntity(t) \/ RemoveFromStack(t) \/ RemoveNode(t),
              job[t].node # n
       PROVE  Agree(n)'
  <2>1. SameWork(n)
    BY <1>0, <1>16, GotoSame DEF RemoveEntity, RemoveFromStack, RemoveNode
  <2>2. (n \in stack' <=> n \in stack) /\ (n \in ha' => n \in ha)
    BY <1>16 DEF RemoveEntity, RemoveFromStack, RemoveNode
  <2>3. table'[n] = table[n] /\ queue'[n] = queue[n]
    BY <1>0, <1>16 DEF RemoveEntity, RemoveFromStack, RemoveNode, Tables
  <2>4. QED
    BY <1>k, <1>v, <2>1, <2>2, <2>3, AgreeStays
<1>17. ASSUME NEW t \in Tasks, RemoveEntity(t), job[t].node = n PROVE Agree(n)'
  <2>1. Leaves(t, n) /\ ~Forgets(t, n)
    BY <1>17 DEF RemoveEntity, At, Leaves, Forgets
  <2>2. n \in stack /\ (n \in unnamed' \/ table[n] # "none")
        /\ \A u \in Tasks : ~Stores(u, n) /\ (u # t => ~Leaves(u, n))
    BY <1>k, <1>v, <2>1 DEF Agree
  <2>3. UNCHANGED <<stack, table>> /\ n \notin ha'
    BY <1>17, <2>2 DEF RemoveEntity
  <2>4. job'[t].at = "unstack" /\ \A u \in Tasks \ {t} : job'[u] = job[u]
    BY <1>0, <1>17, GotoJob DEF RemoveEntity
  <2>5. /\ \A u \in Tasks : ~Stores(u, n)' /\ ~Forgets(u, n)'
        /\ \A u \in Tasks \ {t} : ~Leaves(u, n)'
    BY <2>2, <2>4 DEF Stores, Forgets, Leaves
  <2>6. QED
    BY <2>2, <2>3, <2>5 DEF Agree
<1>18. ASSUME NEW t \in Tasks, RemoveFromStack(t), job[t].node = n PROVE Agree(n)'
  <2>1. Leaves(t, n) /\ job[t].at = "unstack"
    BY <1>18 DEF RemoveFromStack, At, Leaves
  <2>2. n \notin ha /\ \A u \in Tasks : ~Stores(u, n) /\ (u # t => ~Leaves(u, n))
    BY <1>k, <2>1 DEF Agree
  <2>3. n \notin stack' /\ n \notin ha'
    BY <1>18, <2>2 DEF RemoveFromStack
  <2>4. job'[t].at = "forget" /\ job'[t].node = n /\ \A u \in Tasks \ {t} : job'[u] = job[u]
    BY <1>0, <1>18, GotoJob DEF RemoveFromStack
  <2>5. /\ Forgets(t, n)' /\ \A u \in Tasks : ~Stores(u, n)'
        /\ \A u \in Tasks \ {t} : ~Leaves(u, n)'
    BY <2>2, <2>4 DEF Stores, Forgets, Leaves
  <2>6. QED
    BY <2>3, <2>4, <2>5 DEF Agree
<1>19. ASSUME NEW t \in Tasks, RemoveNode(t), job[t].node = n PROVE Agree(n)'
  <2>1. Leaves(t, n) /\ Forgets(t, n)
    BY <1>19 DEF RemoveNode, At, Leaves, Forgets
  <2>2. n \notin stack /\ n \notin ha
        /\ \A u \in Tasks : ~Stores(u, n) /\ (u # t => ~Leaves(u, n))
    BY <1>k, <2>1 DEF Agree
  <2>3. UNCHANGED <<stack, ha>> /\ table'[n] = "none" /\ queue'[n] = << >>
    BY <1>0, <1>19 DEF RemoveNode, Tables
  <2>4. job'[t].at = "mark" /\ \A u \in Tasks \ {t} : job'[u] = job[u]
    BY <1>0, <1>19, GotoJob DEF RemoveNode
  <2>5. \A u \in Tasks : ~Stores(u, n)' /\ ~Leaves(u, n)'
    BY <2>2, <2>4 DEF Stores, Leaves
  <2>6. QED
    BY <2>2, <2>3, <2>5 DEF Agree
<1>20. CASE UNCHANGED vars
  BY <1>k, <1>v, <1>20, AgreeStays DEF vars, SameWork
<1>21. QED
  BY <1>0, <1>1, <1>2, <1>3, <1>4, <1>5, <1>6, <1>7, <1>8, <1>9, <1>10, <1>11, <1>12, <1>13,
     <1>14, <1>15, <1>16, <1>17, <1>18, <1>19, <1>20 DEF Next

\* ble_mesh_provisioning.cpp and ble_mesh_reset_node: whatever restarts, refused writes, refused
\* names and commands come between, a node no task is working on is in the stack's table and
\* the node manager's (but for one the stack would not name), or in neither and not in Home
\* Assistant; for every node no task has met another at.
THEOREM RegistryAgrees == Spec => []TablesAgree
<1>1. AgreeInv => TablesAgree
  BY DEF AgreeInv, Agree, TablesAgree, Settled, Stores, Forgets
<1>2. QED
  BY InitType, NextType, AgreeInit, NextAgrees, <1>1, PTL DEF Spec
=============================================================================
