------------------------- MODULE CommandTasks_proof -------------------------
(***************************************************************************)
(* Proofs about CommandTasks, for any number of tasks, readers and any     *)
(* limits.  The inductive invariant speaks of one task at a time: tasks     *)
(* meet only in the pruning of finished ones.  The action properties, the   *)
(* bound on finished tasks and the notice held back by readers come last.    *)
(***************************************************************************)
EXTENDS CommandTasks, DataLemmas

(* A task of an earlier process, loaded or not: nothing acts on it any more. *)
Closed(t) ==
  /\ begun[t] = "over" /\ proc[t] = "none" /\ stopping[t] = "none"
  /\ fin[t] = "none" /\ ~armed[t] /\ stopReason[t] = "none"

(* A task that has no process, file or promise yet.                         *)
Fresh(t) ==
  /\ proc[t] = "none" /\ stopping[t] = "none" /\ fin[t] = "none"
  /\ saving[t] = {} /\ disk[t] = "none" /\ ~persisted[t] /\ ~armed[t]
  /\ stopReason[t] = "none" /\ status[t] = "running"
  /\ notices[t] = 0 /\ notice[t] = NoNotice /\ t \notin seen

StartInv(t) ==
  /\ begun[t] \in {"unborn", "creating"} => Fresh(t)
  /\ begun[t] = "spawning" => /\ proc[t] = "alive" /\ fin[t] = "none"
                              /\ saving[t] = {} /\ ~persisted[t]
  /\ "start" \in saving[t] => begun[t] = "persisting"

(* What a stop in flight knows of the task.                                 *)
StopInv(t) ==
  /\ stopping[t] = "kill" /\ status[t] \in ActiveStates
       => status[t] = "stopping" /\ stopReason[t] # "none" /\ proc[t] # "none"
  /\ stopping[t] = "close" /\ fin[t] = "none" => proc[t] \in {"exited", "closed"}
  /\ fin[t] = "output" /\ finStatus[t] = "stopped"
       => stopping[t] = "finish" /\ stopReason[t] \in {"user", "model", "shutdown"}
  /\ fin[t] = "output" /\ finStatus[t] \in {"completed", "stopped"}
       => proc[t] \in {"exited", "closed"}
  /\ status[t] = "stopped"
       => stopReason[t] \in {"user", "model", "shutdown"} \/ Closed(t)

(* What memory, the writes in flight and the disk know of the end.           *)
EndInv(t) ==
  /\ "finish" \in saving[t] => fin[t] = "saving"
  /\ fin[t] \in {"saving", "removing", "done", "failed"} => status[t] \in ModelStates
  /\ status[t] \notin ActiveStates
       => fin[t] \in {"saving", "removing", "done", "failed"} \/ Closed(t)
  /\ disk[t] \in {"none", status[t]} \cup ActiveStates
  /\ persisted[t] => /\ status[t] \notin ActiveStates
                     /\ saving[t] = {}
                     /\ disk[t] \in {status[t], "none"}
                     /\ fin[t] \in {"removing", "done", "failed"} \/ Closed(t)

NoticeInv(t) ==
  /\ notices[t] <= 1
  /\ notices[t] = 1 <=> notice[t] # NoNotice
  /\ t \in seen => sent[t] \/ Closed(t)
  /\ notice[t] # NoNotice =>
       /\ sent[t] \/ Closed(t)
       /\ \/ persisted[t] /\ status[t] = notice[t].status
          \/ Closed(t) /\ saving[t] = {} /\ disk[t] = "none"
       /\ notice[t].by \notin SilentSources
       /\ notice[t].status = "stopped" => notice[t].by = "user"

(* Tasks whose files are being removed have left the map for good.           *)
PruneInv ==
  \A t, u \in Tasks : u \in removing[t]
    => u \notin known /\ begun[u] \notin {"unborn", "creating"}

TaskInv(t) == StartInv(t) /\ StopInv(t) /\ EndInv(t) /\ NoticeInv(t)

IInv == TypeOK /\ (\A t \in Tasks : TaskInv(t)) /\ PruneInv

-----------------------------------------------------------------------------
(* stopTask keeps the types of what it writes.                              *)
LEMMA StopTaskTypes ==
  ASSUME TypeOK, NEW t \in Tasks, NEW why \in Sources, stopTask(t, why)
  PROVE  /\ status' \in [Tasks -> Statuses]
         /\ stopReason' \in [Tasks -> Sources \cup {"none"}]
         /\ stopping' \in [Tasks -> {"none", "kill", "close", "finish"}]
<1>1. CASE UNCHANGED <<status, stopVars>>
  BY <1>1 DEF TypeOK, stopVars
<1>2. CASE /\ stopReason' = [stopReason EXCEPT ![t] = why]
           /\ status' = [status EXCEPT ![t] = "stopping"]
           /\ stopping' = [stopping EXCEPT ![t] = "kill"]
  BY <1>2 DEF TypeOK, Statuses, ActiveStates
<1>3. CASE /\ stopping' = [stopping EXCEPT ![t] = "close"]
           /\ UNCHANGED <<status, stopReason>>
  BY <1>3 DEF TypeOK
<1> QED
  BY <1>1, <1>2, <1>3, Zenon DEF stopTask

(* trackFinish keeps the types of what it writes.                           *)
LEMMA FinishTypes ==
  ASSUME TypeOK, NEW t \in Tasks, NEW to \in ModelStates, trackFinish(t, to)
  PROVE  /\ fin' \in [Tasks -> {"none", "output", "saving", "removing", "done", "failed"}]
         /\ finStatus' \in [Tasks -> ModelStates]
<1>1. fin' \in [Tasks -> {"none", "output", "saving", "removing", "done", "failed"}]
  BY DEF TypeOK, trackFinish
<1>2. finStatus' \in [Tasks -> ModelStates]
  BY DEF TypeOK, trackFinish
<1> QED
  BY <1>1, <1>2

(* finishFromClose keeps the types of what it writes.                       *)
LEMMA CloseTypes ==
  ASSUME TypeOK, NEW t \in Tasks, finishFromClose(t)
  PROVE  /\ fin' \in [Tasks -> {"none", "output", "saving", "removing", "done", "failed"}]
         /\ finStatus' \in [Tasks -> ModelStates]
         /\ stopReason' \in [Tasks -> Sources \cup {"none"}]
<1>1. exitStatus(t) \in ModelStates
  BY DEF exitStatus, ModelStates
<1>2. stopReason' \in [Tasks -> Sources \cup {"none"}]
  BY DEF TypeOK, finishFromClose
<1> QED
  BY <1>1, <1>2, FinishTypes DEF finishFromClose

(* emitTerminalNotification keeps the types of what it writes.              *)
LEMMA NoticeTypes ==
  ASSUME TypeOK, NEW t \in Tasks, emitTerminalNotification(t),
         stopReason' \in [Tasks -> Sources \cup {"none"}]
  PROVE  /\ sent' \in [Tasks -> BOOLEAN]
         /\ notices' \in [Tasks -> Nat]
         /\ notice' \in [Tasks -> [status : ModelStates \cup {"none"}, by : Sources \cup {"none"}]]
<1>1. CASE UNCHANGED noticeVars
  BY <1>1 DEF TypeOK, noticeVars
<1>2. CASE /\ notifiable(t)
           /\ sent' = [sent EXCEPT ![t] = TRUE]
           /\ notices' = [notices EXCEPT ![t] = @ + 1]
           /\ notice' = [notice EXCEPT ![t] = [status |-> status'[t], by |-> stopReason'[t]]]
  <2>1. status'[t] \in ModelStates
    BY <1>2 DEF notifiable
  <2>2. sent' \in [Tasks -> BOOLEAN] /\ notices' \in [Tasks -> Nat]
    BY <1>2 DEF TypeOK
  <2>3. notice' \in [Tasks -> [status : ModelStates \cup {"none"}, by : Sources \cup {"none"}]]
    BY <1>2, <2>1 DEF TypeOK
  <2> QED
    BY <2>2, <2>3
<1> QED
  BY <1>1, <1>2, Zenon DEF emitTerminalNotification

-----------------------------------------------------------------------------
(* Every step keeps the types.                                              *)
LEMMA TypeStep == TypeOK /\ [Next]_vars => TypeOK'
<1> USE DEF TypeOK, Statuses, ActiveStates, ModelStates, Sources, NoNotice, procVars,
            stopVars, finVars, fileVars, noticeVars
<1> SUFFICES ASSUME TypeOK, [Next]_vars PROVE TypeOK'
  OBVIOUS
<1>1. ASSUME NEW t \in Tasks, BeginStart(t) PROVE TypeOK'
  BY <1>1 DEF BeginStart
<1>2. ASSUME NEW t \in Tasks, OutputFileFails(t) PROVE TypeOK'
  BY <1>2 DEF OutputFileFails
<1>3. ASSUME NEW t \in Tasks, Spawn(t) PROVE TypeOK'
  <2>1. /\ fin' \in [Tasks -> {"none", "output", "saving", "removing", "done", "failed"}]
        /\ finStatus' \in [Tasks -> ModelStates]
    BY <1>3, FinishTypes DEF Spawn
  <2>2. CASE /\ proc' = [proc EXCEPT ![t] = "alive"]
             /\ begun' = [begun EXCEPT ![t] = "spawning"]
    BY <1>3, <2>1, <2>2 DEF Spawn
  <2>3. CASE /\ begun' = [begun EXCEPT ![t] = "over"]
             /\ UNCHANGED proc
    BY <1>3, <2>1, <2>3 DEF Spawn
  <2> QED
    BY <1>3, <2>2, <2>3, Zenon DEF Spawn
<1>4. ASSUME NEW t \in Tasks, Spawned(t) PROVE TypeOK'
  BY <1>4 DEF Spawned
<1>5. ASSUME NEW t \in Tasks, LaunchFails(t) PROVE TypeOK'
  BY <1>5 DEF LaunchFails, trackFinish
<1>6. ASSUME NEW t \in Tasks, StartSaved(t) PROVE TypeOK'
  BY <1>6 DEF StartSaved, writeSettles
<1>7. ASSUME NEW t \in Tasks, StartSaveFails(t) PROVE TypeOK'
  <2>1. stopTask(t, "shutdown") /\ "shutdown" \in Sources
    BY <1>7 DEF StartSaveFails
  <2>2. /\ status' \in [Tasks -> Statuses]
        /\ stopReason' \in [Tasks -> Sources \cup {"none"}]
        /\ stopping' \in [Tasks -> {"none", "kill", "close", "finish"}]
    BY <2>1, StopTaskTypes
  <2> QED
    BY <1>7, <2>2 DEF StartSaveFails, writeSettles
<1>8. ASSUME NEW t \in Tasks, CleanedUp(t) PROVE TypeOK'
  BY <1>8 DEF CleanedUp
<1>9. ASSUME NEW t \in Tasks, Exit(t) PROVE TypeOK'
  BY <1>9 DEF Exit
<1>10. ASSUME NEW t \in Tasks, Close(t) PROVE TypeOK'
  <2>1. /\ fin' \in [Tasks -> {"none", "output", "saving", "removing", "done", "failed"}]
        /\ finStatus' \in [Tasks -> ModelStates]
        /\ stopReason' \in [Tasks -> Sources \cup {"none"}]
    BY <1>10, CloseTypes DEF Close
  <2> QED
    BY <1>10, <2>1 DEF Close
<1>11. ASSUME NEW t \in Tasks, ProcessError(t) PROVE TypeOK'
  BY <1>11 DEF ProcessError, trackFinish
<1>12. ASSUME NEW t \in Tasks, OutputEnds(t) PROVE TypeOK'
  BY <1>12 DEF OutputEnds
<1>13. ASSUME NEW t \in Tasks, OutputFails(t) PROVE TypeOK'
  <2>1. stopTask(t, "output-error") /\ "output-error" \in Sources
    BY <1>13 DEF OutputFails
  <2>2. /\ status' \in [Tasks -> Statuses]
        /\ stopReason' \in [Tasks -> Sources \cup {"none"}]
        /\ stopping' \in [Tasks -> {"none", "kill", "close", "finish"}]
    BY <2>1, StopTaskTypes
  <2> QED
    BY <1>13, <2>2 DEF OutputFails
<1>14. ASSUME NEW t \in Tasks, StopOvertaken(t) PROVE TypeOK'
  BY <1>14 DEF StopOvertaken
<1>15. ASSUME NEW t \in Tasks, StopUnconfirmed(t) PROVE TypeOK'
  BY <1>15 DEF StopUnconfirmed, retractStop
<1>16. ASSUME NEW t \in Tasks, NEW confirmed \in BOOLEAN, StopSettles(t, confirmed) PROVE TypeOK'
  <2>1. /\ fin' \in [Tasks -> {"none", "output", "saving", "removing", "done", "failed"}]
        /\ finStatus' \in [Tasks -> ModelStates]
        /\ stopReason' \in [Tasks -> Sources \cup {"none"}]
    <3>1. stoppedStatus(t) \in ModelStates
      BY DEF stoppedStatus
    <3>2. CASE finishFromClose(t)
      BY <3>2, CloseTypes
    <3>3. CASE trackFinish(t, stoppedStatus(t)) /\ UNCHANGED stopReason
      BY <3>1, <3>3, FinishTypes
    <3> QED
      BY <1>16, <3>2, <3>3 DEF StopSettles
  <2> QED
    BY <1>16, <2>1 DEF StopSettles
<1>17. ASSUME NEW t \in Tasks, StopAwaitedClose(t) PROVE TypeOK'
  BY <1>17 DEF StopAwaitedClose, finishFromClose, trackFinish, exitStatus
<1>18. ASSUME NEW t \in Tasks, StopDone(t) PROVE TypeOK'
  BY <1>18 DEF StopDone
<1>19. ASSUME NEW t \in Tasks, FinishStatus(t) PROVE TypeOK'
  BY <1>19 DEF FinishStatus
<1>20. ASSUME NEW t \in Tasks, FinishSaved(t) PROVE TypeOK'
  <2>1. CASE fin' = [fin EXCEPT ![t] = "done"] /\ emitTerminalNotification(t)
    <3>1. /\ sent' \in [Tasks -> BOOLEAN]
          /\ notices' \in [Tasks -> Nat]
          /\ notice' \in [Tasks -> [status : ModelStates \cup {"none"}, by : Sources \cup {"none"}]]
      <4>1. stopReason' = stopReason
        BY <1>20 DEF FinishSaved
      <4> QED
        BY <2>1, <4>1, NoticeTypes
    <3>2. known' \in SUBSET Tasks /\ removing' \in [Tasks -> SUBSET Tasks]
      BY <1>20 DEF FinishSaved, Excess
    <3>3. /\ saving' \in [Tasks -> SUBSET {"start", "arm", "finish"}]
          /\ disk' \in [Tasks -> Statuses \cup {"none"}]
          /\ persisted' \in [Tasks -> BOOLEAN]
      BY <1>20 DEF FinishSaved, writeSettles
    <3> QED
      BY <1>20, <2>1, <3>1, <3>2, <3>3 DEF FinishSaved
  <2>2. CASE fin' = [fin EXCEPT ![t] = "removing"] /\ UNCHANGED noticeVars
    BY <1>20, <2>2 DEF FinishSaved, writeSettles, Excess
  <2> QED
    BY <1>20, <2>1, <2>2 DEF FinishSaved
<1>21. ASSUME NEW t \in Tasks, FinishSaveFails(t) PROVE TypeOK'
  BY <1>21 DEF FinishSaveFails, writeSettles
<1>22. ASSUME NEW t \in Tasks, FilesRemoved(t) PROVE TypeOK'
  <2>1. emitTerminalNotification(t) /\ t \in Tasks
    BY <1>22 DEF FilesRemoved
  <2>2. /\ sent' \in [Tasks -> BOOLEAN]
        /\ notices' \in [Tasks -> Nat]
        /\ notice' \in [Tasks -> [status : ModelStates \cup {"none"}, by : Sources \cup {"none"}]]
    <3>1. stopReason' = stopReason
      BY <1>22 DEF FilesRemoved
    <3> QED
      BY <2>1, <3>1, NoticeTypes
  <2> QED
    BY <1>22, <2>2 DEF FilesRemoved
<1>23. ASSUME NEW t \in Tasks, RemovalFails(t) PROVE TypeOK'
  BY <1>23 DEF RemovalFails
<1>24. ASSUME NEW t \in Tasks, Arm(t) PROVE TypeOK'
  BY <1>24 DEF Arm
<1>25. ASSUME NEW t \in Tasks, ArmSaved(t) PROVE TypeOK'
  BY <1>25 DEF ArmSaved, writeSettles
<1>26. ASSUME NEW t \in Tasks, ArmSaveFails(t) PROVE TypeOK'
  BY <1>26 DEF ArmSaveFails, writeSettles
<1>27. ASSUME NEW t \in Tasks, NEW why \in Sources, Stop(t, why) PROVE TypeOK'
  <2>1. stopTask(t, why) /\ why \in Sources
    BY <1>27 DEF Stop
  <2>2. /\ status' \in [Tasks -> Statuses]
        /\ stopReason' \in [Tasks -> Sources \cup {"none"}]
        /\ stopping' \in [Tasks -> {"none", "kill", "close", "finish"}]
    BY <2>1, StopTaskTypes
  <2> QED
    BY <1>27, <2>2 DEF Stop
<1>28. ASSUME NEW r \in Readers, NEW t \in Tasks, ReadStart(r, t) PROVE TypeOK'
  BY <1>28 DEF ReadStart, readVars, Idle
<1>29. ASSUME NEW r \in Readers, ReadWakes(r) PROVE TypeOK'
  BY <1>29 DEF ReadWakes, readVars, Idle
<1>30. ASSUME NEW r \in Readers, ReadReturns(r) PROVE TypeOK'
  <2>1. reader[r].task \in Tasks /\ reader' = [reader EXCEPT ![r] = Idle]
    BY <1>30 DEF ReadReturns, Idle
  <2>2. UNCHANGED <<noticeVars, seen>> \/ delivers(reader[r].task)
    BY <1>30, Zenon DEF ReadReturns
  <2>3. /\ sent' \in [Tasks -> BOOLEAN] /\ UNCHANGED <<notices, notice>>
        /\ seen' \in SUBSET Tasks
    <3>1. CASE UNCHANGED <<noticeVars, seen>>
      BY <3>1
    <3>2. CASE delivers(reader[r].task)
      BY <2>1, <3>2 DEF delivers
    <3> QED
      BY <2>2, <3>1, <3>2
  <2> QED
    BY <1>30, <2>1, <2>3 DEF ReadReturns, readVars
<1>31. ASSUME NEW r \in Readers, ReadAborted(r) PROVE TypeOK'
  <2>1. emitTerminalNotification(reader[r].task) /\ reader[r].task \in Tasks
    BY <1>31 DEF ReadAborted, release, Idle
  <2>2. /\ sent' \in [Tasks -> BOOLEAN]
        /\ notices' \in [Tasks -> Nat]
        /\ notice' \in [Tasks -> [status : ModelStates \cup {"none"}, by : Sources \cup {"none"}]]
    <3>1. stopReason' = stopReason
      BY <1>31 DEF ReadAborted, readVars
    <3> QED
      BY <2>1, <3>1, NoticeTypes
  <2>3. reader' \in [Readers -> {Idle} \cup [task : Tasks, stage : {"wait", "file", "aborted"}]]
    BY <1>31, <2>1 DEF ReadAborted, release
  <2> QED
    BY <1>31, <2>2, <2>3 DEF ReadAborted, readVars
<1>32. ASSUME NEW r \in Readers, ReadThrows(r) PROVE TypeOK'
  <2>1. emitTerminalNotification(reader[r].task) /\ reader[r].task \in Tasks
    BY <1>32 DEF ReadThrows, release, Idle
  <2>2. /\ sent' \in [Tasks -> BOOLEAN]
        /\ notices' \in [Tasks -> Nat]
        /\ notice' \in [Tasks -> [status : ModelStates \cup {"none"}, by : Sources \cup {"none"}]]
    <3>1. stopReason' = stopReason
      BY <1>32 DEF ReadThrows, readVars
    <3> QED
      BY <2>1, <3>1, NoticeTypes
  <2>3. reader' \in [Readers -> {Idle} \cup [task : Tasks, stage : {"wait", "file", "aborted"}]]
    BY <1>32 DEF ReadThrows, release
  <2> QED
    BY <1>32, <2>2, <2>3 DEF ReadThrows, readVars
<1>33. CASE RemoveSession
  BY <1>33 DEF RemoveSession
<1>34. CASE Restart
  BY <1>34 DEF Restart, Idle
<1>35. CASE UNCHANGED vars
  BY <1>35 DEF vars
<1> HIDE DEF TypeOK
<1> QED
  BY <1>1, <1>2, <1>3, <1>4, <1>5, <1>6, <1>7, <1>8, <1>9, <1>10, <1>11, <1>12, <1>13,
     <1>14, <1>15, <1>16, <1>17, <1>18, <1>19, <1>20, <1>21, <1>22, <1>23, <1>24, <1>25,
     <1>26, <1>27, <1>28, <1>29, <1>30, <1>31, <1>32, <1>33, <1>34, <1>35, StopAssumption
  DEF Next, StartNext, ProcessNext, StopNext, FinishNext, ArmNext, ReadNext

(* The first state has the types.                                           *)
LEMMA TypeInit == Init => TypeOK
  BY DEF Init, TypeOK, Statuses, ActiveStates, ModelStates, Sources, NoNotice, Idle

(* Every variable keeps the type its declaration in manager.ts and types.ts   *)
(* gives it, whatever fails.                                                *)
THEOREM TypeCorrect == Spec => []TypeOK
  BY TypeInit, TypeStep, PTL DEF Spec

-----------------------------------------------------------------------------
(* A step that leaves a task alone, except that its manifest may be removed. *)
Same(t) ==
  /\ begun'[t] = begun[t] /\ status'[t] = status[t] /\ proc'[t] = proc[t]
  /\ stopReason'[t] = stopReason[t] /\ stopping'[t] = stopping[t]
  /\ fin'[t] = fin[t] /\ finStatus'[t] = finStatus[t] /\ persisted'[t] = persisted[t]
  /\ armed'[t] = armed[t] /\ sent'[t] = sent[t] /\ saving'[t] = saving[t]
  /\ disk'[t] \in {disk[t], "none"}
  /\ notices'[t] = notices[t] /\ notice'[t] = notice[t]
  /\ t \in seen' <=> t \in seen

(* Such a step keeps what is invariant of that task.                        *)
LEMMA Frame ==
  ASSUME NEW t \in Tasks, TypeOK, TaskInv(t), Same(t)
  PROVE  TaskInv(t)'
<1> USE DEF TaskInv, Same
<1>1. StartInv(t)'
  BY DEF StartInv, Fresh
<1>2. StopInv(t)'
  BY DEF StopInv, Closed
<1>3. EndInv(t)'
  BY DEF EndInv, Closed
<1>4. NoticeInv(t)'
  BY DEF NoticeInv, EndInv, Closed
<1> QED
  BY <1>1, <1>2, <1>3, <1>4

(* Removals in flight only shrink, and no removed task comes back.          *)
LEMMA PruneFrame ==
  ASSUME PruneInv, known' \subseteq known,
         \A t \in Tasks : removing'[t] \subseteq removing[t],
         \A t \in Tasks : begun'[t] \in {"unborn", "creating"}
                            => begun[t] \in {"unborn", "creating"}
  PROVE  PruneInv'
  BY DEF PruneInv

(* A step of one task has to keep the invariant of that task alone.         *)
LEMMA OneTask ==
  ASSUME IInv, TypeOK', PruneInv', NEW t \in Tasks, TaskInv(t)',
         \A u \in Tasks : u # t => Same(u)
  PROVE  IInv'
<1>1. ASSUME NEW u \in Tasks PROVE TaskInv(u)'
  BY Frame DEF IInv
<1> QED
  BY <1>1 DEF IInv

(* What stopTask does to its task.                                          *)
LEMMA StopTaskAt ==
  ASSUME TypeOK, NEW t \in Tasks, NEW why \in Sources, stopTask(t, why)
  PROVE  /\ \/ /\ status'[t] = status[t] /\ stopReason'[t] = stopReason[t]
               /\ stopping'[t] = stopping[t]
            \/ /\ stopping[t] = "none" /\ status[t] \in ActiveStates /\ proc[t] = "alive"
               /\ status'[t] = "stopping" /\ stopReason'[t] = why /\ stopping'[t] = "kill"
            \/ /\ stopping[t] = "none" /\ status[t] \in ActiveStates
               /\ proc[t] \in {"exited", "closed"} /\ status'[t] = status[t]
               /\ stopReason'[t] = stopReason[t] /\ stopping'[t] = "close"
         /\ \A u \in Tasks : u # t => status'[u] = status[u]
<1>1. CASE UNCHANGED <<status, stopVars>>
  BY <1>1 DEF stopVars
<1>2. CASE /\ stoppable(t) /\ proc[t] = "alive"
           /\ stopReason' = [stopReason EXCEPT ![t] = why]
           /\ status' = [status EXCEPT ![t] = "stopping"]
           /\ stopping' = [stopping EXCEPT ![t] = "kill"]
  BY <1>2 DEF TypeOK, stoppable, isCommandTaskActive
<1>3. CASE /\ stoppable(t) /\ proc[t] # "alive"
           /\ stopping' = [stopping EXCEPT ![t] = "close"]
           /\ UNCHANGED <<status, stopReason>>
  BY <1>3 DEF TypeOK, stoppable, isCommandTaskActive
<1> QED
  BY <1>1, <1>2, <1>3, Zenon DEF stopTask

(* What finishFromClose does to its task.                                   *)
LEMMA CloseAt ==
  ASSUME TypeOK, NEW t \in Tasks, finishFromClose(t)
  PROVE  \/ /\ fin[t] = "none" /\ fin'[t] = "output" /\ stopReason'[t] = "none"
            /\ finStatus'[t] \in {"completed", "failed"}
         \/ /\ fin[t] # "none" /\ fin'[t] = fin[t] /\ stopReason'[t] = stopReason[t]
            /\ finStatus'[t] = finStatus[t]
<1>1. exitStatus(t) \in {"completed", "failed"}
  BY DEF exitStatus
<1>2. CASE fin[t] = "none"
  BY <1>1, <1>2 DEF finishFromClose, trackFinish, TypeOK
<1>3. CASE fin[t] # "none"
  BY <1>3 DEF finishFromClose, trackFinish, TypeOK
<1> QED
  BY <1>2, <1>3

(* What emitTerminalNotification does to its task.                          *)
LEMMA NoticeAt ==
  ASSUME TypeOK, NEW t \in Tasks, emitTerminalNotification(t)
  PROVE  /\ \/ /\ sent'[t] = sent[t] /\ notices'[t] = notices[t] /\ notice'[t] = notice[t]
            \/ /\ ~sent[t] /\ persisted'[t] /\ status'[t] \in ModelStates
               /\ stopReason'[t] \notin SilentSources /\ sent'[t]
               /\ armed'[t] \/ stopReason'[t] = "user"
               /\ notices'[t] = notices[t] + 1
               /\ notice'[t] = [status |-> status'[t], by |-> stopReason'[t]]
         /\ \A u \in Tasks : u # t => /\ sent'[u] = sent[u] /\ notices'[u] = notices[u]
                                      /\ notice'[u] = notice[u]
<1>1. CASE UNCHANGED noticeVars
  BY <1>1 DEF noticeVars
<1>2. CASE /\ notifiable(t)
           /\ sent' = [sent EXCEPT ![t] = TRUE]
           /\ notices' = [notices EXCEPT ![t] = @ + 1]
           /\ notice' = [notice EXCEPT ![t] = [status |-> status'[t], by |-> stopReason'[t]]]
  <2>1. sent'[t] /\ notices'[t] = notices[t] + 1
    BY <1>2 DEF TypeOK
  <2>2. notice'[t] = [status |-> status'[t], by |-> stopReason'[t]]
    BY <1>2 DEF TypeOK
  <2>3. \A u \in Tasks : u # t => /\ sent'[u] = sent[u] /\ notices'[u] = notices[u]
                                 /\ notice'[u] = notice[u]
    BY <1>2 DEF TypeOK
  <2>4. /\ ~sent[t] /\ persisted'[t] /\ status'[t] \in ModelStates
        /\ stopReason'[t] \notin SilentSources
        /\ armed'[t] \/ stopReason'[t] = "user"
    BY <1>2, Zenon DEF notifiable
  <2> QED
    BY <2>1, <2>2, <2>3, <2>4, Zenon
<1> QED
  BY <1>1, <1>2, Zenon DEF emitTerminalNotification

(* A notification keeps the account of its task, if that task is not of an    *)
(* earlier process.                                                        *)
LEMMA NoticeKept ==
  ASSUME TypeOK, NEW t \in Tasks, emitTerminalNotification(t), NoticeInv(t), StopInv(t)',
         ~Closed(t) \/ (~armed'[t] /\ stopReason'[t] = "none"),
         Closed(t) => Closed(t)',
         persisted[t] => persisted'[t], status'[t] = status[t],
         saving'[t] \subseteq saving[t],
         Closed(t) => disk'[t] \in {disk[t], "none"}, t \in seen' <=> t \in seen
  PROVE  NoticeInv(t)'
<1>1. CASE /\ sent'[t] = sent[t] /\ notices'[t] = notices[t] /\ notice'[t] = notice[t]
  BY <1>1 DEF NoticeInv
<1>2. CASE /\ ~sent[t] /\ persisted'[t] /\ status'[t] \in ModelStates
           /\ stopReason'[t] \notin SilentSources /\ sent'[t]
           /\ armed'[t] \/ stopReason'[t] = "user"
           /\ notices'[t] = notices[t] + 1
           /\ notice'[t] = [status |-> status'[t], by |-> stopReason'[t]]
  <2>1. ~Closed(t) /\ notice[t] = NoNotice /\ notices[t] = 0
    <3>1. ~Closed(t)
      BY <1>2
    <3>2. notice[t] = NoNotice
      BY <1>2, <3>1 DEF NoticeInv
    <3>3. notices[t] # 1
      BY <3>2, Zenon DEF NoticeInv
    <3>4. notices[t] \in Nat /\ notices[t] <= 1
      BY DEF NoticeInv, TypeOK
    <3> QED
      BY <3>1, <3>2, <3>3, <3>4
  <2>2. status'[t] = "stopped" => stopReason'[t] = "user"
    BY <1>2 DEF StopInv, Closed, SilentSources
  <2>3. notice'[t] # NoNotice /\ notices'[t] = 1
    BY <1>2, <2>1 DEF NoNotice, ModelStates
  <2> QED
    BY <1>2, <2>2, <2>3 DEF NoticeInv
<1> QED
  BY <1>1, <1>2, NoticeAt

(* The steps of start keep the invariant.                                   *)
LEMMA StartSteps ==
  ASSUME IInv, TypeOK', NEW t \in Tasks, StartNext(t)
  PROVE  IInv'
<1> USE DEF procVars, stopVars, finVars, fileVars, noticeVars, readVars
<1>0. TypeOK /\ TaskInv(t) /\ PruneInv
  BY DEF IInv
<1> USE <1>0 DEF TaskInv
<1>1. ASSUME BeginStart(t) PROVE IInv'
  <2>1. \A u \in Tasks : u # t => Same(u)
    BY <1>1 DEF BeginStart, TypeOK, Same
  <2>2. StartInv(t)'
    BY <1>1 DEF BeginStart, TypeOK, StartInv, StopInv, Fresh
  <2>3. StopInv(t)'
    BY <1>1 DEF BeginStart, TypeOK, StartInv, StopInv, Closed, EndInv, Fresh,
       ActiveStates, ModelStates
  <2>4. EndInv(t)'
    BY <1>1 DEF BeginStart, TypeOK, StartInv, EndInv, Closed, Fresh, ActiveStates,
       ModelStates
  <2>5. NoticeInv(t)'
    BY <1>1 DEF BeginStart, TypeOK, EndInv, NoticeInv, Closed, ActiveStates, SilentSources
  <2>6. PruneInv'
    BY <1>1, PruneFrame DEF BeginStart, TypeOK
  <2> QED
    BY <2>1, <2>2, <2>3, <2>4, <2>5, <2>6, OneTask DEF TaskInv
<1>2. ASSUME OutputFileFails(t) PROVE IInv'
  <2>1. \A u \in Tasks : u # t => Same(u)
    BY <1>2 DEF OutputFileFails, TypeOK, Same
  <2>2. StartInv(t)'
    BY <1>2 DEF OutputFileFails, TypeOK, StartInv, StopInv, Fresh
  <2>3. StopInv(t)'
    BY <1>2 DEF OutputFileFails, TypeOK, StartInv, StopInv, Closed, EndInv, Fresh,
       ActiveStates, ModelStates
  <2>4. EndInv(t)'
    BY <1>2 DEF OutputFileFails, TypeOK, StartInv, EndInv, Closed, Fresh, ActiveStates,
       ModelStates
  <2>5. NoticeInv(t)'
    BY <1>2 DEF OutputFileFails, TypeOK, EndInv, NoticeInv, Closed, ActiveStates,
       SilentSources
  <2>6. PruneInv'
    BY <1>2, PruneFrame DEF OutputFileFails, TypeOK
  <2> QED
    BY <2>1, <2>2, <2>3, <2>4, <2>5, <2>6, OneTask DEF TaskInv
<1>3. ASSUME Spawn(t) PROVE IInv'
  <2>1. \A u \in Tasks : u # t => Same(u)
    BY <1>3 DEF Spawn, trackFinish, TypeOK, Same
  <2>2. StartInv(t)'
    BY <1>3 DEF Spawn, trackFinish, TypeOK, StartInv, StopInv, Fresh
  <2>3. StopInv(t)'
    BY <1>3 DEF Spawn, trackFinish, TypeOK, StartInv, StopInv, Closed, EndInv, Fresh,
       ActiveStates, ModelStates
  <2>4. EndInv(t)'
    BY <1>3 DEF Spawn, trackFinish, TypeOK, StartInv, EndInv, Closed, Fresh,
       ActiveStates, ModelStates
  <2>5. NoticeInv(t)'
    BY <1>3 DEF Spawn, trackFinish, TypeOK, EndInv, NoticeInv, Closed, ActiveStates,
       SilentSources
  <2>6. PruneInv'
    <3>1. \A u \in Tasks : begun'[u] \in {"unborn", "creating"}
                           => begun[u] \in {"unborn", "creating"}
      BY <1>3 DEF Spawn, TypeOK
    <3> QED
      BY <1>3, <3>1 DEF Spawn, PruneInv
  <2> QED
    BY <2>1, <2>2, <2>3, <2>4, <2>5, <2>6, OneTask DEF TaskInv
<1>4. ASSUME Spawned(t) PROVE IInv'
  <2>1. \A u \in Tasks : u # t => Same(u)
    BY <1>4 DEF Spawned, TypeOK, Same
  <2>2. StartInv(t)'
    BY <1>4 DEF Spawned, TypeOK, StartInv, StopInv, Fresh
  <2>3. StopInv(t)'
    BY <1>4 DEF Spawned, TypeOK, StartInv, StopInv, Closed, EndInv, Fresh, ActiveStates,
       ModelStates
  <2>4. EndInv(t)'
    BY <1>4 DEF Spawned, TypeOK, StartInv, EndInv, Closed, Fresh, ActiveStates, ModelStates
  <2>5. NoticeInv(t)'
    BY <1>4 DEF Spawned, TypeOK, EndInv, NoticeInv, Closed, ActiveStates, SilentSources
  <2>6. PruneInv'
    BY <1>4, PruneFrame DEF Spawned, TypeOK
  <2> QED
    BY <2>1, <2>2, <2>3, <2>4, <2>5, <2>6, OneTask DEF TaskInv
<1>5. ASSUME LaunchFails(t) PROVE IInv'
  <2>1. \A u \in Tasks : u # t => Same(u)
    BY <1>5 DEF LaunchFails, trackFinish, TypeOK, Same
  <2>2. StartInv(t)'
    BY <1>5 DEF LaunchFails, trackFinish, TypeOK, StartInv, StopInv, Fresh
  <2>3. StopInv(t)'
    BY <1>5 DEF LaunchFails, trackFinish, TypeOK, StartInv, StopInv, Closed, EndInv,
       Fresh, ActiveStates, ModelStates
  <2>4. EndInv(t)'
    BY <1>5 DEF LaunchFails, trackFinish, TypeOK, StartInv, EndInv, Closed, Fresh,
       ActiveStates, ModelStates
  <2>5. NoticeInv(t)'
    BY <1>5 DEF LaunchFails, trackFinish, TypeOK, EndInv, NoticeInv, Closed,
       ActiveStates, SilentSources
  <2>6. PruneInv'
    BY <1>5, PruneFrame DEF LaunchFails, trackFinish, TypeOK
  <2> QED
    BY <2>1, <2>2, <2>3, <2>4, <2>5, <2>6, OneTask DEF TaskInv
<1>6. ASSUME StartSaved(t) PROVE IInv'
  <2>1. \A u \in Tasks : u # t => Same(u)
    BY <1>6 DEF StartSaved, writeSettles, mayWrite, TypeOK, Same
  <2>2. StartInv(t)'
    BY <1>6 DEF StartSaved, writeSettles, mayWrite, TypeOK, StartInv, StopInv, Fresh
  <2>3. StopInv(t)'
    BY <1>6 DEF StartSaved, writeSettles, mayWrite, TypeOK, StartInv, StopInv, Closed,
       EndInv, Fresh, ActiveStates, ModelStates
  <2>4. EndInv(t)'
    BY <1>6 DEF StartSaved, writeSettles, mayWrite, TypeOK, StartInv, EndInv, Closed,
       Fresh, ActiveStates, ModelStates
  <2>5. NoticeInv(t)'
    BY <1>6 DEF StartSaved, writeSettles, mayWrite, TypeOK, EndInv, NoticeInv, Closed,
       ActiveStates, SilentSources
  <2>6. PruneInv'
    BY <1>6, PruneFrame DEF StartSaved, writeSettles, mayWrite, TypeOK
  <2> QED
    BY <2>1, <2>2, <2>3, <2>4, <2>5, <2>6, OneTask DEF TaskInv
<1>7. ASSUME StartSaveFails(t) PROVE IInv'
  <2>0. /\ begun'[t] = "cleanup" /\ proc'[t] = proc[t] /\ fin'[t] = fin[t]
        /\ finStatus'[t] = finStatus[t] /\ persisted'[t] = persisted[t]
        /\ armed'[t] = armed[t] /\ sent'[t] = sent[t] /\ disk'[t] = disk[t]
        /\ notices'[t] = notices[t] /\ notice'[t] = notice[t] /\ (t \in seen' <=> t \in seen)
        /\ saving'[t] = saving[t] \ {"start"}
    BY <1>7 DEF StartSaveFails, TypeOK, writeSettles
  <2> stopTask(t, "shutdown") /\ "shutdown" \in Sources
    BY <1>7 DEF StartSaveFails, Sources
  <2>1. \A u \in Tasks : u # t => Same(u)
    BY <1>7 DEF StartSaveFails, writeSettles, stopTask, mayWrite, TypeOK, Same
  <2>2. StartInv(t)'
    BY <1>7, <2>0, StopTaskAt DEF StartSaveFails, mayWrite, TypeOK, StartInv, Fresh,
       stoppable, isCommandTaskActive, ActiveStates
  <2>3. StopInv(t)'
    BY <1>7, <2>0, StopTaskAt DEF StartSaveFails, mayWrite, TypeOK, StartInv, StopInv,
       EndInv, Closed, Fresh, stoppable, ActiveStates, ModelStates, Sources
  <2>4. EndInv(t)'
    BY <1>7, <2>0, StopTaskAt DEF StartSaveFails, mayWrite, TypeOK, StartInv, EndInv,
       Closed, Fresh, ActiveStates, ModelStates
  <2>5. NoticeInv(t)'
    BY <1>7, <2>0, StopTaskAt DEF StartSaveFails, mayWrite, TypeOK, StartInv, EndInv,
       NoticeInv, Closed, ActiveStates, SilentSources
  <2>6. PruneInv'
    BY <1>7, PruneFrame DEF StartSaveFails, writeSettles, stopTask, mayWrite, TypeOK
  <2> QED
    BY <2>1, <2>2, <2>3, <2>4, <2>5, <2>6, OneTask DEF TaskInv
<1>8. ASSUME CleanedUp(t) PROVE IInv'
  <2>1. \A u \in Tasks : u # t => Same(u)
    BY <1>8 DEF CleanedUp, TypeOK, Same
  <2>2. StartInv(t)'
    BY <1>8 DEF CleanedUp, TypeOK, StartInv, StopInv, Fresh
  <2>3. StopInv(t)'
    BY <1>8 DEF CleanedUp, TypeOK, StartInv, StopInv, Closed, EndInv, Fresh,
       ActiveStates, ModelStates
  <2>4. EndInv(t)'
    BY <1>8 DEF CleanedUp, TypeOK, StartInv, EndInv, Closed, Fresh, ActiveStates,
       ModelStates
  <2>5. NoticeInv(t)'
    BY <1>8 DEF CleanedUp, TypeOK, EndInv, NoticeInv, Closed, ActiveStates, SilentSources
  <2>6. PruneInv'
    BY <1>8, PruneFrame DEF CleanedUp, TypeOK
  <2> QED
    BY <2>1, <2>2, <2>3, <2>4, <2>5, <2>6, OneTask DEF TaskInv
<1> QED
  BY <1>1, <1>2, <1>3, <1>4, <1>5, <1>6, <1>7, <1>8 DEF StartNext

(* So do the events of the child process.                                   *)
LEMMA ProcessSteps ==
  ASSUME IInv, TypeOK', NEW t \in Tasks, ProcessNext(t)
  PROVE  IInv'
<1> USE DEF procVars, stopVars, finVars, fileVars, noticeVars, readVars
<1>0. TypeOK /\ TaskInv(t) /\ PruneInv
  BY DEF IInv
<1> USE <1>0 DEF TaskInv
<1>1. ASSUME Exit(t) PROVE IInv'
  <2>1. \A u \in Tasks : u # t => Same(u)
    BY <1>1 DEF Exit, TypeOK, Same
  <2>2. StartInv(t)'
    BY <1>1 DEF Exit, TypeOK, StartInv, StopInv, Fresh
  <2>3. StopInv(t)'
    BY <1>1 DEF Exit, TypeOK, StartInv, StopInv, Closed, EndInv, Fresh, ActiveStates,
       ModelStates
  <2>4. EndInv(t)'
    BY <1>1 DEF Exit, TypeOK, StartInv, EndInv, Closed, Fresh, ActiveStates, ModelStates
  <2>5. NoticeInv(t)'
    BY <1>1 DEF Exit, TypeOK, EndInv, NoticeInv, Closed, ActiveStates, SilentSources
  <2>6. PruneInv'
    BY <1>1, PruneFrame DEF Exit, TypeOK
  <2> QED
    BY <2>1, <2>2, <2>3, <2>4, <2>5, <2>6, OneTask DEF TaskInv
<1>2. ASSUME Close(t) PROVE IInv'
  <2>1. \A u \in Tasks : u # t => Same(u)
    BY <1>2 DEF Close, finishFromClose, trackFinish, exitStatus, TypeOK, Same
  <2>2. StartInv(t)'
    BY <1>2 DEF Close, finishFromClose, trackFinish, exitStatus, TypeOK, StartInv,
       StopInv, Fresh
  <2>3. StopInv(t)'
    <3>1. /\ status'[t] = status[t] /\ proc[t] = "exited" /\ proc'[t] = "closed"
          /\ stopping'[t] = stopping[t] /\ begun'[t] = begun[t] /\ armed'[t] = armed[t]
      BY <1>2 DEF Close, TypeOK
    <3>2. CASE status[t] = "stopping" /\ UNCHANGED <<fin, finStatus, stopReason>>
      BY <3>1, <3>2 DEF StopInv, Closed
    <3>3. CASE status[t] # "stopping" /\ finishFromClose(t)
      BY <3>1, <3>3, CloseAt DEF StopInv, EndInv, Closed, ActiveStates
    <3> QED
      BY <1>2, <3>2, <3>3 DEF Close
  <2>4. EndInv(t)'
    BY <1>2 DEF Close, finishFromClose, trackFinish, exitStatus, TypeOK, StartInv,
       EndInv, Closed, Fresh, ActiveStates, ModelStates
  <2>5. NoticeInv(t)'
    BY <1>2 DEF Close, finishFromClose, trackFinish, exitStatus, TypeOK, EndInv,
       NoticeInv, Closed, ActiveStates, SilentSources
  <2>6. PruneInv'
    BY <1>2, PruneFrame DEF Close, finishFromClose, trackFinish, exitStatus, TypeOK
  <2> QED
    BY <2>1, <2>2, <2>3, <2>4, <2>5, <2>6, OneTask DEF TaskInv
<1>3. ASSUME ProcessError(t) PROVE IInv'
  <2>1. \A u \in Tasks : u # t => Same(u)
    BY <1>3 DEF ProcessError, trackFinish, TypeOK, Same
  <2>2. StartInv(t)'
    BY <1>3 DEF ProcessError, trackFinish, TypeOK, StartInv, StopInv, Fresh
  <2>3. StopInv(t)'
    BY <1>3 DEF ProcessError, trackFinish, TypeOK, StartInv, StopInv, Closed, EndInv,
       Fresh, ActiveStates, ModelStates
  <2>4. EndInv(t)'
    BY <1>3 DEF ProcessError, trackFinish, TypeOK, StartInv, EndInv, Closed, Fresh,
       ActiveStates, ModelStates
  <2>5. NoticeInv(t)'
    BY <1>3 DEF ProcessError, trackFinish, TypeOK, EndInv, NoticeInv, Closed,
       ActiveStates, SilentSources
  <2>6. PruneInv'
    BY <1>3, PruneFrame DEF ProcessError, trackFinish, TypeOK
  <2> QED
    BY <2>1, <2>2, <2>3, <2>4, <2>5, <2>6, OneTask DEF TaskInv
<1>4. ASSUME OutputEnds(t) PROVE IInv'
  <2>1. \A u \in Tasks : u # t => Same(u)
    BY <1>4 DEF OutputEnds, TypeOK, Same
  <2>2. StartInv(t)'
    BY <1>4 DEF OutputEnds, TypeOK, StartInv, StopInv, Fresh
  <2>3. StopInv(t)'
    BY <1>4 DEF OutputEnds, TypeOK, StartInv, StopInv, Closed, EndInv, Fresh,
       ActiveStates, ModelStates
  <2>4. EndInv(t)'
    BY <1>4 DEF OutputEnds, TypeOK, StartInv, EndInv, Closed, Fresh, ActiveStates,
       ModelStates
  <2>5. NoticeInv(t)'
    BY <1>4 DEF OutputEnds, TypeOK, EndInv, NoticeInv, Closed, ActiveStates, SilentSources
  <2>6. PruneInv'
    BY <1>4, PruneFrame DEF OutputEnds, TypeOK
  <2> QED
    BY <2>1, <2>2, <2>3, <2>4, <2>5, <2>6, OneTask DEF TaskInv
<1>5. ASSUME OutputFails(t) PROVE IInv'
  <2>0. /\ begun'[t] = begun[t] /\ proc'[t] = proc[t] /\ fin'[t] = fin[t]
        /\ finStatus'[t] = finStatus[t] /\ persisted'[t] = persisted[t]
        /\ armed'[t] = armed[t] /\ sent'[t] = sent[t] /\ disk'[t] = disk[t]
        /\ notices'[t] = notices[t] /\ notice'[t] = notice[t] /\ (t \in seen' <=> t \in seen)
        /\ saving'[t] = saving[t]
    BY <1>5 DEF OutputFails, TypeOK
  <2> stopTask(t, "output-error") /\ "output-error" \in Sources
    BY <1>5 DEF OutputFails, Sources
  <2>1. \A u \in Tasks : u # t => Same(u)
    BY <1>5 DEF OutputFails, stopTask, TypeOK, Same
  <2>2. StartInv(t)'
    BY <1>5, <2>0, StopTaskAt DEF OutputFails, TypeOK, StartInv, Fresh, stoppable,
       isCommandTaskActive, ActiveStates
  <2>3. StopInv(t)'
    BY <1>5, <2>0, StopTaskAt DEF OutputFails, TypeOK, StartInv, StopInv, EndInv, Closed,
       Fresh, stoppable, ActiveStates, ModelStates, Sources
  <2>4. EndInv(t)'
    BY <1>5, <2>0, StopTaskAt DEF OutputFails, TypeOK, StartInv, EndInv, Closed, Fresh,
       ActiveStates, ModelStates
  <2>5. NoticeInv(t)'
    BY <1>5, <2>0, StopTaskAt DEF OutputFails, TypeOK, StartInv, EndInv, NoticeInv,
       Closed, ActiveStates, SilentSources
  <2>6. PruneInv'
    BY <1>5, PruneFrame DEF OutputFails, stopTask, TypeOK
  <2> QED
    BY <2>1, <2>2, <2>3, <2>4, <2>5, <2>6, OneTask DEF TaskInv
<1> QED
  BY <1>1, <1>2, <1>3, <1>4, <1>5 DEF ProcessNext

(* So do the steps of a stop.                                               *)
LEMMA StopSteps ==
  ASSUME IInv, TypeOK', NEW t \in Tasks, StopNext(t) \/ \E why \in StopSources : Stop(t,
     why)
  PROVE  IInv'
<1> USE DEF procVars, stopVars, finVars, fileVars, noticeVars, readVars
<1>0. TypeOK /\ TaskInv(t) /\ PruneInv
  BY DEF IInv
<1> USE <1>0 DEF TaskInv
<1>1. ASSUME NEW why \in Sources, Stop(t, why) PROVE IInv'
  <2>0. /\ begun'[t] = begun[t] /\ proc'[t] = proc[t] /\ fin'[t] = fin[t]
        /\ finStatus'[t] = finStatus[t] /\ persisted'[t] = persisted[t]
        /\ armed'[t] = armed[t] /\ sent'[t] = sent[t] /\ disk'[t] = disk[t]
        /\ notices'[t] = notices[t] /\ notice'[t] = notice[t] /\ (t \in seen' <=> t \in seen)
        /\ saving'[t] = saving[t]
    BY <1>1 DEF Stop, TypeOK
  <2> stopTask(t, why) /\ why \in Sources
    BY <1>1 DEF Stop, Sources
  <2>1. \A u \in Tasks : u # t => Same(u)
    BY <1>1 DEF Stop, stopTask, TypeOK, Same
  <2>2. StartInv(t)'
    BY <1>1, <2>0, StopTaskAt DEF Stop, TypeOK, StartInv, Fresh, stoppable,
       isCommandTaskActive, ActiveStates
  <2>3. StopInv(t)'
    BY <1>1, <2>0, StopTaskAt DEF Stop, TypeOK, StartInv, StopInv, EndInv, Closed, Fresh,
       stoppable, ActiveStates, ModelStates, Sources
  <2>4. EndInv(t)'
    BY <1>1, <2>0, StopTaskAt DEF Stop, TypeOK, StartInv, EndInv, Closed, Fresh,
       ActiveStates, ModelStates
  <2>5. NoticeInv(t)'
    <3>1. status[t] \in ActiveStates
      BY <1>1 DEF Stop, stoppable, isCommandTaskActive
    <3>2. ~persisted[t]
      BY <3>1 DEF EndInv
    <3>3. NoticeInv(t)
      BY <1>0
    <3>4. notice[t] # NoNotice => Closed(t)
      BY <3>2, <3>3 DEF NoticeInv
    <3>5. Closed(t) => Closed(t)'
      <4>1. Closed(t) => stopReason'[t] = stopReason[t] /\ stopping'[t] = stopping[t]
        BY StopTaskAt DEF Closed
      <4> QED
        BY <2>0, <4>1 DEF Closed
    <3>6. notices'[t] <= 1 /\ (notices'[t] = 1 <=> notice'[t] # NoNotice)
      BY <2>0, <3>3 DEF NoticeInv
    <3>7. t \in seen' => sent'[t] \/ Closed(t)'
      BY <2>0, <3>3, <3>5 DEF NoticeInv
    <3> QED
      BY <2>0, <3>2, <3>3, <3>4, <3>5, <3>6, <3>7 DEF NoticeInv
  <2>6. PruneInv'
    BY <1>1, PruneFrame DEF Stop, stopTask, TypeOK
  <2> QED
    BY <2>1, <2>2, <2>3, <2>4, <2>5, <2>6, OneTask DEF TaskInv
<1>2. ASSUME StopOvertaken(t) PROVE IInv'
  <2>1. \A u \in Tasks : u # t => Same(u)
    BY <1>2 DEF StopOvertaken, isCommandTaskActive, TypeOK, Same
  <2>2. StartInv(t)'
    BY <1>2 DEF StopOvertaken, isCommandTaskActive, TypeOK, StartInv, StopInv, Fresh
  <2>3. StopInv(t)'
    BY <1>2 DEF StopOvertaken, isCommandTaskActive, TypeOK, StartInv, StopInv, Closed,
       EndInv, Fresh, ActiveStates, ModelStates
  <2>4. EndInv(t)'
    BY <1>2 DEF StopOvertaken, isCommandTaskActive, TypeOK, StartInv, EndInv, Closed,
       Fresh, ActiveStates, ModelStates
  <2>5. NoticeInv(t)'
    BY <1>2 DEF StopOvertaken, isCommandTaskActive, TypeOK, EndInv, NoticeInv, Closed,
       ActiveStates, SilentSources
  <2>6. PruneInv'
    BY <1>2, PruneFrame DEF StopOvertaken, isCommandTaskActive, TypeOK
  <2> QED
    BY <2>1, <2>2, <2>3, <2>4, <2>5, <2>6, OneTask DEF TaskInv
<1>3. ASSUME StopUnconfirmed(t) PROVE IInv'
  <2>1. \A u \in Tasks : u # t => Same(u)
    BY <1>3 DEF StopUnconfirmed, retractStop, isCommandTaskActive, stillThere, TypeOK, Same
  <2>2. StartInv(t)'
    BY <1>3 DEF StopUnconfirmed, retractStop, isCommandTaskActive, stillThere, TypeOK,
       StartInv, StopInv, Fresh
  <2>3. StopInv(t)'
    BY <1>3 DEF StopUnconfirmed, retractStop, isCommandTaskActive, stillThere, TypeOK,
       StartInv, StopInv, Closed, EndInv, Fresh, ActiveStates, ModelStates
  <2>4. EndInv(t)'
    BY <1>3 DEF StopUnconfirmed, retractStop, isCommandTaskActive, stillThere, TypeOK,
       StartInv, EndInv, Closed, Fresh, ActiveStates, ModelStates
  <2>5. NoticeInv(t)'
    BY <1>3 DEF StopUnconfirmed, retractStop, isCommandTaskActive, stillThere, TypeOK,
       EndInv, NoticeInv, Closed, ActiveStates, SilentSources
  <2>6. PruneInv'
    BY <1>3, PruneFrame DEF StopUnconfirmed, retractStop, isCommandTaskActive,
       stillThere, TypeOK
  <2> QED
    BY <2>1, <2>2, <2>3, <2>4, <2>5, <2>6, OneTask DEF TaskInv
<1>4. ASSUME NEW confirmed \in BOOLEAN, StopSettles(t, confirmed) PROVE IInv'
  <2>0. /\ stopping[t] = "kill" /\ stopping'[t] = "finish" /\ status[t] \in ActiveStates
        /\ status'[t] = status[t] /\ proc[t] # "alive" /\ proc'[t] = proc[t]
        /\ begun'[t] = begun[t] /\ saving'[t] = saving[t] /\ persisted'[t] = persisted[t]
        /\ armed'[t] = armed[t]
    BY <1>4 DEF StopSettles, TypeOK, isCommandTaskActive, stillThere
  <2>1. \A u \in Tasks : u # t => Same(u)
    BY <1>4 DEF StopSettles, isCommandTaskActive, stillThere, finishFromClose,
       trackFinish, exitStatus, stoppedStatus, TypeOK, Same
  <2>2. StartInv(t)'
    BY <1>4, <2>0 DEF StopSettles, StartInv, Fresh, TypeOK
  <2>3. StopInv(t)'
    <3>1. proc[t] \in {"exited", "closed"} /\ stopReason[t] # "none" /\ ~Closed(t)
      BY <2>0 DEF StopInv, TypeOK, Closed
    <3>2. CASE finishFromClose(t)
      BY <2>0, <3>1, <3>2, CloseAt DEF StopInv, ActiveStates
    <3>3. CASE trackFinish(t, stoppedStatus(t)) /\ UNCHANGED stopReason
      <4>1. \/ fin'[t] = "output" /\ finStatus'[t] = stoppedStatus(t) /\ fin[t] = "none"
            \/ fin'[t] = fin[t] /\ finStatus'[t] = finStatus[t]
        BY <3>3 DEF trackFinish, TypeOK
      <4>2. /\ stoppedStatus(t) \in {"failed", "stopped"}
            /\ stoppedStatus(t) = "stopped" => stopReason[t] \in {"user", "model",
               "shutdown"}
        BY <3>1 DEF stoppedStatus, TypeOK, Sources
      <4> QED
        BY <2>0, <3>1, <3>3, <4>1, <4>2 DEF StopInv, ActiveStates
    <3> QED
      BY <1>4, <3>2, <3>3 DEF StopSettles
  <2>4. EndInv(t)'
    BY <1>4 DEF StopSettles, isCommandTaskActive, stillThere, finishFromClose,
       trackFinish, exitStatus, stoppedStatus, TypeOK, StartInv, EndInv, Closed, Fresh,
       ActiveStates, ModelStates
  <2>5. NoticeInv(t)'
    BY <1>4 DEF StopSettles, isCommandTaskActive, stillThere, finishFromClose,
       trackFinish, exitStatus, stoppedStatus, TypeOK, EndInv, NoticeInv, Closed,
       ActiveStates, SilentSources
  <2>6. PruneInv'
    BY <1>4, PruneFrame DEF StopSettles, isCommandTaskActive, stillThere,
       finishFromClose, trackFinish, exitStatus, stoppedStatus, TypeOK
  <2> QED
    BY <2>1, <2>2, <2>3, <2>4, <2>5, <2>6, OneTask DEF TaskInv
<1>5. ASSUME StopAwaitedClose(t) PROVE IInv'
  <2>1. \A u \in Tasks : u # t => Same(u)
    BY <1>5 DEF StopAwaitedClose, finishFromClose, trackFinish, exitStatus, TypeOK, Same
  <2>2. StartInv(t)'
    BY <1>5 DEF StopAwaitedClose, finishFromClose, trackFinish, exitStatus, TypeOK,
       StartInv, StopInv, Fresh
  <2>3. StopInv(t)'
    BY <1>5 DEF StopAwaitedClose, finishFromClose, trackFinish, exitStatus, TypeOK,
       StartInv, StopInv, Closed, EndInv, Fresh, ActiveStates, ModelStates
  <2>4. EndInv(t)'
    BY <1>5 DEF StopAwaitedClose, finishFromClose, trackFinish, exitStatus, TypeOK,
       StartInv, EndInv, Closed, Fresh, ActiveStates, ModelStates
  <2>5. NoticeInv(t)'
    BY <1>5 DEF StopAwaitedClose, finishFromClose, trackFinish, exitStatus, TypeOK,
       EndInv, NoticeInv, Closed, ActiveStates, SilentSources
  <2>6. PruneInv'
    BY <1>5, PruneFrame DEF StopAwaitedClose, finishFromClose, trackFinish, exitStatus,
       TypeOK
  <2> QED
    BY <2>1, <2>2, <2>3, <2>4, <2>5, <2>6, OneTask DEF TaskInv
<1>6. ASSUME StopDone(t) PROVE IInv'
  <2>1. \A u \in Tasks : u # t => Same(u)
    BY <1>6 DEF StopDone, settled, TypeOK, Same
  <2>2. StartInv(t)'
    BY <1>6 DEF StopDone, settled, TypeOK, StartInv, StopInv, Fresh
  <2>3. StopInv(t)'
    BY <1>6 DEF StopDone, settled, TypeOK, StartInv, StopInv, Closed, EndInv, Fresh,
       ActiveStates, ModelStates
  <2>4. EndInv(t)'
    BY <1>6 DEF StopDone, settled, TypeOK, StartInv, EndInv, Closed, Fresh, ActiveStates,
       ModelStates
  <2>5. NoticeInv(t)'
    BY <1>6 DEF StopDone, settled, TypeOK, EndInv, NoticeInv, Closed, ActiveStates,
       SilentSources
  <2>6. PruneInv'
    BY <1>6, PruneFrame DEF StopDone, settled, TypeOK
  <2> QED
    BY <2>1, <2>2, <2>3, <2>4, <2>5, <2>6, OneTask DEF TaskInv
<1> QED
  BY <1>1, <1>2, <1>3, <1>4, <1>5, <1>6, StopAssumption DEF StopNext, Sources

(* So do the steps of finish.                                               *)
LEMMA FinishSteps ==
  ASSUME IInv, TypeOK', NEW t \in Tasks, FinishNext(t)
  PROVE  IInv'
<1> USE DEF procVars, stopVars, finVars, fileVars, noticeVars, readVars
<1>0. TypeOK /\ TaskInv(t) /\ PruneInv
  BY DEF IInv
<1> USE <1>0 DEF TaskInv
<1>1. ASSUME FinishStatus(t) PROVE IInv'
  <2>1. \A u \in Tasks : u # t => Same(u)
    BY <1>1 DEF FinishStatus, TypeOK, Same
  <2>2. StartInv(t)'
    BY <1>1 DEF FinishStatus, TypeOK, StartInv, StopInv, Fresh
  <2>3. StopInv(t)'
    BY <1>1 DEF FinishStatus, TypeOK, StartInv, StopInv, Closed, EndInv, Fresh,
       ActiveStates, ModelStates
  <2>4. EndInv(t)'
    BY <1>1 DEF FinishStatus, TypeOK, StartInv, EndInv, Closed, Fresh, ActiveStates,
       ModelStates
  <2>5. NoticeInv(t)'
    BY <1>1 DEF FinishStatus, TypeOK, EndInv, NoticeInv, Closed, ActiveStates, SilentSources
  <2>6. PruneInv'
    BY <1>1, PruneFrame DEF FinishStatus, TypeOK
  <2> QED
    BY <2>1, <2>2, <2>3, <2>4, <2>5, <2>6, OneTask DEF TaskInv
<1>2. ASSUME FinishSaved(t) PROVE IInv'
  <2>0. /\ fin[t] = "saving" /\ fin'[t] \in {"done", "removing"} /\ persisted'[t]
        /\ disk'[t] = status[t] /\ status'[t] = status[t] /\ stopReason'[t] = stopReason[t]
        /\ begun'[t] = begun[t] /\ (t \in seen' <=> t \in seen)
    <3>1. fin'[t] \in {"done", "removing"}
      <4>1. CASE fin' = [fin EXCEPT ![t] = "done"]
        BY <4>1 DEF TypeOK
      <4>2. CASE fin' = [fin EXCEPT ![t] = "removing"]
        BY <4>2 DEF TypeOK
      <4> QED
        BY <1>2, <4>1, <4>2 DEF FinishSaved
    <3> QED
      BY <1>2, <3>1 DEF FinishSaved, TypeOK
  <2>10. saving'[t] = {}
    <3>1. saving[t] \ {"finish"} = {}
      <4>1. "start" \notin saving[t] /\ "arm" \notin saving[t]
        BY <1>2 DEF FinishSaved, mayWrite
      <4>2. saving[t] \subseteq {"start", "arm", "finish"}
        BY DEF TypeOK
      <4> QED
        BY <4>1, <4>2
    <3> QED
      BY <1>2, <3>1 DEF FinishSaved, writeSettles, TypeOK
  <2>11. status[t] \in ModelStates /\ begun[t] \notin {"unborn", "creating",
     "spawning"} /\ ~Closed(t)
    BY <2>0 DEF StartInv, Fresh, EndInv, Closed
  <2>1. \A u \in Tasks : u # t => Same(u)
    <3> TAKE u \in Tasks
    <3> HAVE u # t
    <3>1. fin'[u] = fin[u]
      <4>1. CASE fin' = [fin EXCEPT ![t] = "done"]
        BY <4>1 DEF TypeOK
      <4>2. CASE fin' = [fin EXCEPT ![t] = "removing"]
        BY <4>2 DEF TypeOK
      <4> QED
        BY <1>2, <4>1, <4>2 DEF FinishSaved
    <3>2. sent'[u] = sent[u] /\ notices'[u] = notices[u] /\ notice'[u] = notice[u]
      <4>1. CASE emitTerminalNotification(t)
        BY <4>1, NoticeAt
      <4>2. CASE UNCHANGED noticeVars
        BY <4>2
      <4> QED
        BY <1>2, <4>1, <4>2 DEF FinishSaved
    <3> QED
      BY <1>2, <3>1, <3>2 DEF FinishSaved, writeSettles, Same, TypeOK
  <2>2. StartInv(t)'
    BY <1>2 DEF FinishSaved, writeSettles, mayWrite, emitTerminalNotification,
       notifiable, TypeOK, StartInv, StopInv, Fresh
  <2>3. StopInv(t)'
    BY <1>2 DEF FinishSaved, writeSettles, mayWrite, emitTerminalNotification,
       notifiable, TypeOK, StartInv, StopInv, Closed, EndInv, Fresh, ActiveStates,
       ModelStates
  <2>4. EndInv(t)'
    BY <2>0, <2>10, <2>11 DEF EndInv, ModelStates, ActiveStates
  <2>5. NoticeInv(t)'
    <3>1. CASE emitTerminalNotification(t)
      BY <2>0, <2>10, <2>11, <2>3, <3>1, NoticeKept
    <3>2. CASE UNCHANGED noticeVars
      BY <2>0, <2>11, <3>2 DEF NoticeInv
    <3> QED
      BY <1>2, <3>1, <3>2 DEF FinishSaved
  <2>6. PruneInv'
    <3> DEFINE gone == Excess(known, persisted')
    <3>1. ASSUME NEW u \in gone PROVE u \in Tasks /\ begun[u] \notin {"unborn", "creating"}
      <4>1. u \in Tasks /\ persisted'[u]
        BY DEF Excess, TypeOK
      <4>2. CASE u = t
        BY <2>11, <4>2
      <4>3. CASE u # t
        <5>1. persisted[u]
          BY <1>2, <4>1, <4>3 DEF FinishSaved, TypeOK
        <5>2. StartInv(u)
          BY <4>1 DEF IInv
        <5> QED
          BY <4>1, <5>1, <5>2 DEF StartInv, Fresh
      <4> QED
        BY <4>2, <4>3
    <3>2. /\ known' = known \ gone /\ begun' = begun
          /\ removing' = [removing EXCEPT ![t] = gone]
      BY <1>2 DEF FinishSaved
    <3> HIDE DEF gone
    <3> QED
      BY <3>1, <3>2 DEF PruneInv, TypeOK
  <2> QED
    BY <2>1, <2>2, <2>3, <2>4, <2>5, <2>6, OneTask DEF TaskInv
<1>3. ASSUME FinishSaveFails(t) PROVE IInv'
  <2>1. \A u \in Tasks : u # t => Same(u)
    BY <1>3 DEF FinishSaveFails, writeSettles, mayWrite, TypeOK, Same
  <2>2. StartInv(t)'
    BY <1>3 DEF FinishSaveFails, writeSettles, mayWrite, TypeOK, StartInv, StopInv, Fresh
  <2>3. StopInv(t)'
    BY <1>3 DEF FinishSaveFails, writeSettles, mayWrite, TypeOK, StartInv, StopInv,
       Closed, EndInv, Fresh, ActiveStates, ModelStates
  <2>4. EndInv(t)'
    BY <1>3 DEF FinishSaveFails, writeSettles, mayWrite, TypeOK, StartInv, EndInv,
       Closed, Fresh, ActiveStates, ModelStates
  <2>5. NoticeInv(t)'
    BY <1>3 DEF FinishSaveFails, writeSettles, mayWrite, TypeOK, EndInv, NoticeInv,
       Closed, ActiveStates, SilentSources
  <2>6. PruneInv'
    BY <1>3, PruneFrame DEF FinishSaveFails, writeSettles, mayWrite, TypeOK
  <2> QED
    BY <2>1, <2>2, <2>3, <2>4, <2>5, <2>6, OneTask DEF TaskInv
<1>4. ASSUME FilesRemoved(t) PROVE IInv'
  <2>1. \A u \in Tasks : u # t => Same(u)
    <3>1. \A u \in Tasks : u # t => /\ sent'[u] = sent[u] /\ notices'[u] = notices[u]
                                   /\ notice'[u] = notice[u]
      BY <1>4, NoticeAt DEF FilesRemoved
    <3> QED
      BY <1>4, <3>1 DEF FilesRemoved, Same, TypeOK
  <2>2. StartInv(t)'
    BY <1>4 DEF FilesRemoved, emitTerminalNotification, notifiable, TypeOK, StartInv,
       StopInv, Fresh
  <2>3. StopInv(t)'
    BY <1>4 DEF FilesRemoved, emitTerminalNotification, notifiable, TypeOK, StartInv,
       StopInv, Closed, EndInv, Fresh, ActiveStates, ModelStates
  <2>4. EndInv(t)'
    BY <1>4 DEF FilesRemoved, emitTerminalNotification, notifiable, TypeOK, StartInv,
       EndInv, Closed, Fresh, ActiveStates, ModelStates
  <2>5. NoticeInv(t)'
    <3>1. emitTerminalNotification(t) /\ ~Closed(t)
      BY <1>4 DEF FilesRemoved, Closed
    <3>2. /\ persisted'[t] = persisted[t] /\ status'[t] = status[t]
          /\ saving'[t] = saving[t] /\ (t \in seen' <=> t \in seen)
      BY <1>4 DEF FilesRemoved
    <3> QED
      BY <2>3, <3>1, <3>2, NoticeKept
  <2>6. PruneInv'
    BY <1>4, PruneFrame DEF FilesRemoved, emitTerminalNotification, notifiable, TypeOK
  <2> QED
    BY <2>1, <2>2, <2>3, <2>4, <2>5, <2>6, OneTask DEF TaskInv
<1>5. ASSUME RemovalFails(t) PROVE IInv'
  <2>1. \A u \in Tasks : u # t => Same(u)
    BY <1>5 DEF RemovalFails, TypeOK, Same
  <2>2. StartInv(t)'
    BY <1>5 DEF RemovalFails, TypeOK, StartInv, StopInv, Fresh
  <2>3. StopInv(t)'
    BY <1>5 DEF RemovalFails, TypeOK, StartInv, StopInv, Closed, EndInv, Fresh,
       ActiveStates, ModelStates
  <2>4. EndInv(t)'
    BY <1>5 DEF RemovalFails, TypeOK, StartInv, EndInv, Closed, Fresh, ActiveStates,
       ModelStates
  <2>5. NoticeInv(t)'
    BY <1>5 DEF RemovalFails, TypeOK, EndInv, NoticeInv, Closed, ActiveStates, SilentSources
  <2>6. PruneInv'
    BY <1>5, PruneFrame DEF RemovalFails, TypeOK
  <2> QED
    BY <2>1, <2>2, <2>3, <2>4, <2>5, <2>6, OneTask DEF TaskInv
<1> QED
  BY <1>1, <1>2, <1>3, <1>4, <1>5 DEF FinishNext

(* So does arming.                                                          *)
LEMMA ArmSteps ==
  ASSUME IInv, TypeOK', NEW t \in Tasks, ArmNext(t)
  PROVE  IInv'
<1> USE DEF procVars, stopVars, finVars, fileVars, noticeVars, readVars
<1>0. TypeOK /\ TaskInv(t) /\ PruneInv
  BY DEF IInv
<1> USE <1>0 DEF TaskInv
<1>1. ASSUME Arm(t) PROVE IInv'
  <2>1. \A u \in Tasks : u # t => Same(u)
    BY <1>1 DEF Arm, TypeOK, Same
  <2>2. StartInv(t)'
    BY <1>1 DEF Arm, TypeOK, StartInv, StopInv, Fresh
  <2>3. StopInv(t)'
    BY <1>1 DEF Arm, TypeOK, StartInv, StopInv, Closed, EndInv, Fresh, ActiveStates,
       ModelStates
  <2>4. EndInv(t)'
    BY <1>1 DEF Arm, TypeOK, StartInv, EndInv, Closed, Fresh, ActiveStates, ModelStates
  <2>5. NoticeInv(t)'
    BY <1>1 DEF Arm, TypeOK, EndInv, NoticeInv, Closed, ActiveStates, SilentSources
  <2>6. PruneInv'
    BY <1>1, PruneFrame DEF Arm, TypeOK
  <2> QED
    BY <2>1, <2>2, <2>3, <2>4, <2>5, <2>6, OneTask DEF TaskInv
<1>2. ASSUME ArmSaved(t) PROVE IInv'
  <2>1. \A u \in Tasks : u # t => Same(u)
    BY <1>2 DEF ArmSaved, writeSettles, mayWrite, TypeOK, Same
  <2>2. StartInv(t)'
    BY <1>2 DEF ArmSaved, writeSettles, mayWrite, TypeOK, StartInv, StopInv, Fresh
  <2>3. StopInv(t)'
    BY <1>2 DEF ArmSaved, writeSettles, mayWrite, TypeOK, StartInv, StopInv, Closed,
       EndInv, Fresh, ActiveStates, ModelStates
  <2>4. EndInv(t)'
    BY <1>2 DEF ArmSaved, writeSettles, mayWrite, TypeOK, StartInv, EndInv, Closed,
       Fresh, ActiveStates, ModelStates
  <2>5. NoticeInv(t)'
    BY <1>2 DEF ArmSaved, writeSettles, mayWrite, TypeOK, EndInv, NoticeInv, Closed,
       ActiveStates, SilentSources
  <2>6. PruneInv'
    BY <1>2, PruneFrame DEF ArmSaved, writeSettles, mayWrite, TypeOK
  <2> QED
    BY <2>1, <2>2, <2>3, <2>4, <2>5, <2>6, OneTask DEF TaskInv
<1>3. ASSUME ArmSaveFails(t) PROVE IInv'
  <2>1. \A u \in Tasks : u # t => Same(u)
    BY <1>3 DEF ArmSaveFails, writeSettles, mayWrite, TypeOK, Same
  <2>2. StartInv(t)'
    BY <1>3 DEF ArmSaveFails, writeSettles, mayWrite, TypeOK, StartInv, StopInv, Fresh
  <2>3. StopInv(t)'
    BY <1>3 DEF ArmSaveFails, writeSettles, mayWrite, TypeOK, StartInv, StopInv, Closed,
       EndInv, Fresh, ActiveStates, ModelStates
  <2>4. EndInv(t)'
    BY <1>3 DEF ArmSaveFails, writeSettles, mayWrite, TypeOK, StartInv, EndInv, Closed,
       Fresh, ActiveStates, ModelStates
  <2>5. NoticeInv(t)'
    BY <1>3 DEF ArmSaveFails, writeSettles, mayWrite, TypeOK, EndInv, NoticeInv, Closed,
       ActiveStates, SilentSources
  <2>6. PruneInv'
    BY <1>3, PruneFrame DEF ArmSaveFails, writeSettles, mayWrite, TypeOK
  <2> QED
    BY <2>1, <2>2, <2>3, <2>4, <2>5, <2>6, OneTask DEF TaskInv
<1> QED
  BY <1>1, <1>2, <1>3 DEF ArmNext

(* A read in progress is a read of some task.                               *)
LEMMA ReaderTask ==
  ASSUME TypeOK, NEW r \in Readers, reader[r].stage \in {"wait", "file", "aborted"}
  PROVE  \E t \in Tasks : t = reader[r].task
<1>1. reader[r] \in {Idle} \cup [task : Tasks, stage : {"wait", "file", "aborted"}]
  BY DEF TypeOK
<1>2. reader[r] # Idle
  BY DEF Idle
<1> QED
  BY <1>1, <1>2

(* So do the reads.                                                         *)
LEMMA ReadSteps ==
  ASSUME IInv, TypeOK', NEW r \in Readers, ReadNext(r)
  PROVE  IInv'
<1> USE DEF procVars, stopVars, finVars, fileVars, noticeVars, readVars
<1>0. TypeOK /\ PruneInv
  BY DEF IInv
<1> USE <1>0
<1>1. ASSUME NEW t \in Tasks, ReadStart(r, t) PROVE IInv'
  <2>1. \A u \in Tasks : Same(u)
    BY <1>1 DEF ReadStart, readVars, Idle, Same
  <2>2. PruneInv'
    BY <1>1, PruneFrame DEF ReadStart, readVars, Idle, IInv
  <2> QED
    BY <2>1, <2>2, Frame DEF IInv
<1>2. ASSUME ReadWakes(r) PROVE IInv'
  <2>1. \A u \in Tasks : Same(u)
    BY <1>2 DEF ReadWakes, readVars, Idle, Same
  <2>2. PruneInv'
    BY <1>2, PruneFrame DEF ReadWakes, readVars, Idle, IInv
  <2> QED
    BY <2>1, <2>2, Frame DEF IInv
<1>3. ASSUME ReadReturns(r) PROVE IInv'
  <2>0. PICK t \in Tasks : t = reader[r].task
    BY <1>3, ReaderTask DEF ReadReturns
  <2>inv. TaskInv(t)
    BY DEF IInv
  <2> USE <2>0, <2>inv DEF TaskInv
  <2>rest. UNCHANGED readVars /\ UNCHANGED <<notices, notice>>
    <3>1. UNCHANGED <<noticeVars, seen>> \/ delivers(t)
      BY <1>3, Zenon DEF ReadReturns
    <3> QED
      BY <1>3, <3>1 DEF ReadReturns, delivers
  <2>effect. \/ UNCHANGED <<sent, seen>>
         \/ /\ status[t] \notin ActiveStates /\ seen' = seen \cup {t}
            /\ sent' = [sent EXCEPT ![t] = TRUE]
    <3>1. CASE UNCHANGED <<noticeVars, seen>>
      BY <3>1
    <3>2. CASE delivers(t) /\ ~isCommandTaskActive(t)
      BY <3>2 DEF delivers, isCommandTaskActive
    <3> QED
      BY <1>3, <3>1, <3>2, Zenon DEF ReadReturns
  <2>1. \A u \in Tasks : u # t => Same(u)
    BY <2>rest, <2>effect DEF Same, TypeOK
  <2>2. StartInv(t)'
    BY <2>rest, <2>effect DEF StartInv, Fresh, ActiveStates
  <2>3. StopInv(t)'
    BY <2>rest DEF StopInv, Closed
  <2>4. EndInv(t)'
    BY <2>rest DEF EndInv, Closed
  <2>5. NoticeInv(t)'
    BY <2>rest, <2>effect DEF NoticeInv, Closed, TypeOK
  <2>6. PruneInv'
    BY <2>rest, PruneFrame
  <2> QED
    BY <2>1, <2>2, <2>3, <2>4, <2>5, <2>6, OneTask DEF TaskInv
<1>4. ASSUME ReadAborted(r) PROVE IInv'
  <2>0. PICK t \in Tasks : t = reader[r].task
    BY <1>4, ReaderTask DEF ReadAborted
  <2>inv. TaskInv(t)
    BY DEF IInv
  <2> USE <2>0, <2>inv DEF TaskInv
  <2>rest. UNCHANGED readVars
    BY <1>4 DEF ReadAborted
  <2>1. \A u \in Tasks : u # t => Same(u)
    <3>1. emitTerminalNotification(t) /\ seen' = seen
      BY <1>4 DEF ReadAborted, release
    <3>2. \A u \in Tasks : u # t => /\ sent'[u] = sent[u] /\ notices'[u] = notices[u]
                                   /\ notice'[u] = notice[u]
      BY <3>1, NoticeAt
    <3> QED
      BY <2>rest, <3>1, <3>2 DEF Same
  <2>2. StartInv(t)'
    <3>1. Fresh(t) => Fresh(t)'
      <4>1. Fresh(t) => ~persisted'[t]
        BY <2>rest DEF Fresh
      <4>2. Fresh(t) => notices'[t] = notices[t] /\ notice'[t] = notice[t]
        BY <1>4, <4>1, NoticeAt DEF ReadAborted, release
      <4> QED
        BY <1>4, <2>rest, <4>2 DEF Fresh, ReadAborted
    <3> QED
      BY <2>rest, <3>1 DEF StartInv
  <2>3. StopInv(t)'
    BY <2>rest DEF StopInv, Closed
  <2>4. EndInv(t)'
    BY <2>rest DEF EndInv, Closed
  <2>5. NoticeInv(t)'
    <3>1. emitTerminalNotification(t) /\ (t \in seen' <=> t \in seen)
      BY <1>4 DEF ReadAborted, release
    <3>2. Closed(t) => Closed(t)' /\ ~armed'[t] /\ stopReason'[t] = "none"
      BY <2>rest DEF Closed
    <3> QED
      BY <2>rest, <2>3, <3>1, <3>2, NoticeKept
  <2>6. PruneInv'
    BY <2>rest, PruneFrame
  <2> QED
    BY <2>1, <2>2, <2>3, <2>4, <2>5, <2>6, OneTask DEF TaskInv
<1>5. ASSUME ReadThrows(r) PROVE IInv'
  <2>0. PICK t \in Tasks : t = reader[r].task
    BY <1>5, ReaderTask DEF ReadThrows
  <2>inv. TaskInv(t)
    BY DEF IInv
  <2> USE <2>0, <2>inv DEF TaskInv
  <2>rest. UNCHANGED readVars
    BY <1>5 DEF ReadThrows
  <2>1. \A u \in Tasks : u # t => Same(u)
    <3>1. emitTerminalNotification(t) /\ seen' = seen
      BY <1>5 DEF ReadThrows, release
    <3>2. \A u \in Tasks : u # t => /\ sent'[u] = sent[u] /\ notices'[u] = notices[u]
                                   /\ notice'[u] = notice[u]
      BY <3>1, NoticeAt
    <3> QED
      BY <2>rest, <3>1, <3>2 DEF Same
  <2>2. StartInv(t)'
    <3>1. Fresh(t) => Fresh(t)'
      <4>1. Fresh(t) => ~persisted'[t]
        BY <2>rest DEF Fresh
      <4>2. Fresh(t) => notices'[t] = notices[t] /\ notice'[t] = notice[t]
        BY <1>5, <4>1, NoticeAt DEF ReadThrows, release
      <4> QED
        BY <1>5, <2>rest, <4>2 DEF Fresh, ReadThrows
    <3> QED
      BY <2>rest, <3>1 DEF StartInv
  <2>3. StopInv(t)'
    BY <2>rest DEF StopInv, Closed
  <2>4. EndInv(t)'
    BY <2>rest DEF EndInv, Closed
  <2>5. NoticeInv(t)'
    <3>1. emitTerminalNotification(t) /\ (t \in seen' <=> t \in seen)
      BY <1>5 DEF ReadThrows, release
    <3>2. Closed(t) => Closed(t)' /\ ~armed'[t] /\ stopReason'[t] = "none"
      BY <2>rest DEF Closed
    <3> QED
      BY <2>rest, <2>3, <3>1, <3>2, NoticeKept
  <2>6. PruneInv'
    BY <2>rest, PruneFrame
  <2> QED
    BY <2>1, <2>2, <2>3, <2>4, <2>5, <2>6, OneTask DEF TaskInv
<1> QED
  BY <1>1, <1>2, <1>3, <1>4, <1>5 DEF ReadNext

(* So does the removal of the session.                                      *)
LEMMA RemoveStep ==
  ASSUME IInv, TypeOK', RemoveSession
  PROVE  IInv'
<1> USE DEF RemoveSession, procVars, stopVars, finVars, fileVars, noticeVars
<1>1. ASSUME NEW t \in Tasks PROVE TaskInv(t)'
  <2> USE DEF TypeOK
  <2>0. TaskInv(t) /\ begun[t] # "persisting" /\ begun'[t] = "over" /\ disk'[t] = "none"
    BY DEF IInv
  <2> USE <2>0 DEF TaskInv
  <2>1. StartInv(t)'
    BY DEF StartInv
  <2>2. StopInv(t)'
    BY DEF StopInv, Closed
  <2>3. EndInv(t)'
    BY DEF EndInv, Closed
  <2>4. NoticeInv(t)'
    BY DEF NoticeInv, Closed
  <2> QED
    BY <2>1, <2>2, <2>3, <2>4
<1>2. PruneInv'
  BY DEF IInv, PruneInv
<1> QED
  BY <1>1, <1>2 DEF IInv

(* A new process knows what the manifests tell.                             *)
LEMMA RestartAt ==
  ASSUME TypeOK, Restart, NEW t \in Tasks
  PROVE  /\ proc'[t] = "none" /\ stopping'[t] = "none" /\ fin'[t] = "none"
         /\ ~armed'[t] /\ stopReason'[t] = "none" /\ saving'[t] = {} /\ removing'[t] = {}
         /\ begun'[t] = IF begun[t] = "unborn" THEN "unborn" ELSE "over"
         /\ persisted'[t] <=> disk[t] # "none"
         /\ disk[t] \in ActiveStates => status'[t] = "interrupted"
         /\ disk[t] = "none" => status'[t] = "running" /\ disk'[t] = "none"
         /\ disk[t] \notin ActiveStates \cup {"none"} => status'[t] = disk[t]
         /\ disk'[t] \in {status'[t], "none"}
         /\ t \in known' => disk[t] # "none" /\ disk'[t] = status'[t]
         /\ notices'[t] = notices[t] /\ notice'[t] = notice[t] /\ (t \in seen' <=> t \in seen)
<1> DEFINE found == {u \in Tasks : disk[u] # "none"}
           gone == Excess(found, [u \in Tasks |-> TRUE])
           loaded(u) == IF disk[u] \in ActiveStates THEN "interrupted" ELSE disk[u]
<1>1. /\ known' = found \ gone
      /\ status' = [u \in Tasks |-> IF u \in found THEN loaded(u) ELSE "running"]
      /\ disk' = [u \in Tasks |-> IF u \in found \ gone THEN loaded(u) ELSE "none"]
      /\ persisted' = [u \in Tasks |-> u \in found]
  BY DEF Restart
<1>2. /\ proc'[t] = "none" /\ stopping'[t] = "none" /\ fin'[t] = "none"
      /\ ~armed'[t] /\ stopReason'[t] = "none" /\ saving'[t] = {} /\ removing'[t] = {}
      /\ begun'[t] = IF begun[t] = "unborn" THEN "unborn" ELSE "over"
      /\ notices'[t] = notices[t] /\ notice'[t] = notice[t] /\ (t \in seen' <=> t \in seen)
  BY DEF Restart
<1> HIDE DEF gone
<1>3. /\ persisted'[t] <=> disk[t] # "none"
      /\ disk[t] \in ActiveStates => status'[t] = "interrupted"
      /\ disk[t] = "none" => status'[t] = "running" /\ disk'[t] = "none"
      /\ disk[t] \notin ActiveStates \cup {"none"} => status'[t] = disk[t]
  BY <1>1 DEF ActiveStates
<1>4. /\ disk'[t] \in {status'[t], "none"}
      /\ t \in known' => disk[t] # "none" /\ disk'[t] = status'[t]
  BY <1>1
<1> QED
  BY <1>2, <1>3, <1>4

(* A new process starts with the invariant.                                 *)
LEMMA RestartStep ==
  ASSUME IInv, TypeOK', Restart
  PROVE  IInv'
<1> USE DEF IInv
<1>1. ASSUME NEW t \in Tasks PROVE TaskInv(t)'
  <2> USE RestartAt DEF TaskInv
  <2>1. begun[t] # "unborn" => Closed(t)'
    BY DEF Closed
  <2>2. begun[t] = "unborn" => Fresh(t)'
    BY DEF StartInv, Fresh
  <2>3. StartInv(t)'
    BY <2>2 DEF StartInv
  <2>4. StopInv(t)'
    BY <2>1, <2>2 DEF StopInv, Fresh
  <2>5. EndInv(t)'
    BY <2>1, <2>2 DEF EndInv, Fresh, ActiveStates
  <2>6. NoticeInv(t)'
    <3>1. CASE begun[t] = "unborn"
      BY <2>2, <3>1 DEF Fresh, NoticeInv
    <3>2. CASE begun[t] # "unborn"
      <4>1. notice[t] # NoNotice
              => (persisted'[t] /\ status'[t] = notice[t].status) \/ disk'[t] = "none"
        BY DEF NoticeInv, EndInv, ActiveStates
      <4> QED
        BY <2>1, <3>2, <4>1 DEF NoticeInv
    <3> QED
      BY <3>1, <3>2
  <2> QED
    BY <2>3, <2>4, <2>5, <2>6
<1>2. PruneInv'
  BY RestartAt DEF PruneInv
<1> QED
  BY <1>1, <1>2

-----------------------------------------------------------------------------
(* The invariant and what follows from it.                                  *)
LEMMA InitInv == Init => IInv
<1> SUFFICES ASSUME Init PROVE IInv
  OBVIOUS
<1>1. ASSUME NEW t \in Tasks PROVE TaskInv(t)
  <2>1. Fresh(t) /\ begun[t] = "unborn"
    BY DEF Init, Fresh
  <2>2. finStatus[t] = "failed"
    BY DEF Init
  <2> QED
    BY <2>1, <2>2 DEF TaskInv, Fresh, StartInv, StopInv, EndInv, NoticeInv, ActiveStates
<1>2. PruneInv
  BY DEF Init, PruneInv
<1> QED
  BY <1>1, <1>2, TypeInit DEF IInv

(* Every step keeps the invariant.                                          *)
LEMMA Inductive == IInv /\ [Next]_vars => IInv'
<1> SUFFICES ASSUME IInv, [Next]_vars PROVE IInv'
  OBVIOUS
<1>0. TypeOK'
  BY TypeStep DEF IInv
<1>1. CASE \E t \in Tasks : StartNext(t)
  BY <1>0, <1>1, StartSteps
<1>2. CASE \E t \in Tasks : ProcessNext(t)
  BY <1>0, <1>2, ProcessSteps
<1>3. CASE \E t \in Tasks : StopNext(t) \/ \E why \in StopSources : Stop(t, why)
  BY <1>0, <1>3, StopSteps
<1>4. CASE \E t \in Tasks : FinishNext(t)
  BY <1>0, <1>4, FinishSteps
<1>5. CASE \E t \in Tasks : ArmNext(t)
  BY <1>0, <1>5, ArmSteps
<1>6. CASE \E r \in Readers : ReadNext(r)
  BY <1>0, <1>6, ReadSteps
<1>7. CASE RemoveSession
  BY <1>0, <1>7, RemoveStep
<1>8. CASE Restart
  BY <1>0, <1>8, RestartStep
<1>9. CASE UNCHANGED vars
  BY <1>9 DEF vars, IInv, TypeOK, TaskInv, StartInv, StopInv, EndInv, NoticeInv, PruneInv,
     Fresh, Closed
<1> QED
  BY <1>1, <1>2, <1>3, <1>4, <1>5, <1>6, <1>7, <1>8, <1>9 DEF Next

(* The inductive invariant holds in every reachable state: what memory, the   *)
(* writes in flight and the disk know of a task agree, as do its notifications.*)
THEOREM Invariant == Spec => []IInv
  BY InitInv, Inductive, PTL DEF Spec

(* No task wakes the model twice, whatever happens to its readers, its stop,  *)
(* its files and the application (emitTerminalNotification).                 *)
THEOREM NoticeOnce == Spec => []AtMostOneNotice
<1>1. IInv => AtMostOneNotice
  BY DEF IInv, TaskInv, NoticeInv, AtMostOneNotice
<1> QED
  BY <1>1, Invariant, PTL

(* What a notification says was durable when it was sent, and is never of a   *)
(* stop by the model or the application (finish, emitTerminalNotification).   *)
THEOREM NoticesTrue == Spec => []NoticeIsTrue
<1>1. IInv => NoticeIsTrue
  <2> SUFFICES ASSUME IInv, NEW t \in Tasks, notice[t] # NoNotice
               PROVE  /\ disk[t] \in {notice[t].status, "none"}
                      /\ notice[t].by \notin SilentSources
                      /\ notice[t].status = "stopped" => notice[t].by = "user"
    BY DEF NoticeIsTrue
  <2>1. EndInv(t) /\ NoticeInv(t)
    BY DEF IInv, TaskInv
  <2> QED
    BY <2>1 DEF EndInv, NoticeInv
<1> QED
  BY <1>1, Invariant, PTL

-----------------------------------------------------------------------------
(* What no step does: the three action properties the runs check.           *)

(* What a step may never do: the parts of the three action properties, for one task. *)
Final(t) == persisted[t] /\ t \in known \cap known'
              => status'[t] = status[t] /\ persisted'[t] /\ disk'[t] = disk[t]
Told(t) == notices'[t] > notices[t] => t \notin seen
Ended(t) == status'[t] \in {"completed", "stopped"} /\ status[t] # status'[t]
              => proc[t] \in {"exited", "closed"}

(* Most steps write no more than this of a task.                              *)
Quiet(t) == /\ persisted'[t] = persisted[t] /\ notices'[t] = notices[t]
            /\ persisted[t] => status'[t] = status[t]
            /\ status'[t] \in {status[t], "running", "stopping"}
            /\ persisted[t] /\ t \in known \cap known' => disk'[t] = disk[t]

(* Such a step does nothing of what the properties forbid.                  *)
LEMMA QuietStep ==
  ASSUME TypeOK, NEW t \in Tasks, Quiet(t)
  PROVE  Final(t) /\ Told(t) /\ Ended(t)
BY DEF Quiet, Final, Told, Ended, TypeOK

(* A notification is not of a task whose end has been read.                 *)
LEMMA ToldNow ==
  ASSUME TypeOK, NEW t \in Tasks, NEW u \in Tasks, emitTerminalNotification(t),
         u = t /\ u \in seen => sent[u] \/ (~armed'[u] /\ stopReason'[u] = "none")
  PROVE  Told(u)
<1>1. CASE u # t
  <2>1. notices'[u] = notices[u]
    BY <1>1, NoticeAt
  <2> QED
    BY <2>1 DEF Told, TypeOK
<1>2. CASE u = t /\ notices'[t] = notices[t]
  BY <1>2 DEF Told, TypeOK
<1>3. CASE u = t /\ ~sent[t] /\ (armed'[t] \/ stopReason'[t] = "user")
  BY <1>3 DEF Told
<1> QED
  BY <1>1, <1>2, <1>3, NoticeAt

(* No step does what the properties forbid.                                 *)
LEMMA Steps ==
  ASSUME IInv, [Next]_vars, NEW u \in Tasks
  PROVE  Final(u) /\ Told(u) /\ Ended(u)
<1> USE DEF procVars, stopVars, finVars, fileVars, noticeVars, readVars
<1>0. TypeOK /\ TaskInv(u) /\ PruneInv /\ \A t \in Tasks : TaskInv(t)
  BY DEF IInv
<1> USE <1>0 DEF TaskInv
<1>1. ASSUME NEW t \in Tasks, BeginStart(t) PROVE Quiet(u)
  BY <1>1 DEF BeginStart, Quiet, TypeOK, EndInv, ActiveStates
<1>2. ASSUME NEW t \in Tasks, OutputFileFails(t) PROVE Quiet(u)
  BY <1>2 DEF OutputFileFails, Quiet, TypeOK, EndInv, ActiveStates
<1>3. ASSUME NEW t \in Tasks, Spawn(t) PROVE Quiet(u)
  BY <1>3 DEF Spawn, trackFinish, Quiet, TypeOK, EndInv, ActiveStates
<1>4. ASSUME NEW t \in Tasks, Spawned(t) PROVE Quiet(u)
  BY <1>4 DEF Spawned, Quiet, TypeOK, EndInv, ActiveStates
<1>5. ASSUME NEW t \in Tasks, LaunchFails(t) PROVE Quiet(u)
  BY <1>5 DEF LaunchFails, trackFinish, Quiet, TypeOK, EndInv, ActiveStates
<1>6. ASSUME NEW t \in Tasks, StartSaved(t) PROVE Quiet(u)
  BY <1>6 DEF StartSaved, writeSettles, mayWrite, Quiet, TypeOK, EndInv, ActiveStates
<1>7. ASSUME NEW t \in Tasks, StartSaveFails(t) PROVE Quiet(u)
  <2>1. stopTask(t, "shutdown") /\ "shutdown" \in Sources
    BY <1>7 DEF StartSaveFails, Sources
  <2>2. status'[u] = status[u] \/ (status[u] \in ActiveStates /\ status'[u] = "stopping")
    <3>1. CASE u = t
      BY <2>1, <3>1, StopTaskAt
    <3>2. CASE u # t
      BY <2>1, <3>2, StopTaskAt
    <3> QED
      BY <3>1, <3>2
  <2> QED
    BY <1>7, <2>2 DEF StartSaveFails, Quiet, EndInv
<1>8. ASSUME NEW t \in Tasks, CleanedUp(t) PROVE Quiet(u)
  BY <1>8 DEF CleanedUp, Quiet, TypeOK, EndInv, ActiveStates
<1>9. ASSUME NEW t \in Tasks, Exit(t) PROVE Quiet(u)
  BY <1>9 DEF Exit, Quiet, TypeOK, EndInv, ActiveStates
<1>10. ASSUME NEW t \in Tasks, Close(t) PROVE Quiet(u)
  BY <1>10 DEF Close, finishFromClose, trackFinish, exitStatus, Quiet, TypeOK, EndInv,
     ActiveStates
<1>11. ASSUME NEW t \in Tasks, ProcessError(t) PROVE Quiet(u)
  BY <1>11 DEF ProcessError, trackFinish, Quiet, TypeOK, EndInv, ActiveStates
<1>12. ASSUME NEW t \in Tasks, OutputEnds(t) PROVE Quiet(u)
  BY <1>12 DEF OutputEnds, Quiet, TypeOK, EndInv, ActiveStates
<1>13. ASSUME NEW t \in Tasks, OutputFails(t) PROVE Quiet(u)
  <2>1. stopTask(t, "output-error") /\ "output-error" \in Sources
    BY <1>13 DEF OutputFails, Sources
  <2>2. status'[u] = status[u] \/ (status[u] \in ActiveStates /\ status'[u] = "stopping")
    <3>1. CASE u = t
      BY <2>1, <3>1, StopTaskAt
    <3>2. CASE u # t
      BY <2>1, <3>2, StopTaskAt
    <3> QED
      BY <3>1, <3>2
  <2> QED
    BY <1>13, <2>2 DEF OutputFails, Quiet, EndInv
<1>14. ASSUME NEW t \in Tasks, StopOvertaken(t) PROVE Quiet(u)
  BY <1>14 DEF StopOvertaken, isCommandTaskActive, Quiet, TypeOK, EndInv, ActiveStates
<1>15. ASSUME NEW t \in Tasks, StopUnconfirmed(t) PROVE Quiet(u)
  BY <1>15 DEF StopUnconfirmed, retractStop, isCommandTaskActive, stillThere, Quiet,
     TypeOK, EndInv, ActiveStates
<1>16. ASSUME NEW t \in Tasks, NEW confirmed \in BOOLEAN, StopSettles(t, confirmed) PROVE Quiet(u)
  BY <1>16 DEF StopSettles, isCommandTaskActive, stillThere, finishFromClose,
     trackFinish, exitStatus, stoppedStatus, Quiet, TypeOK, EndInv, ActiveStates
<1>17. ASSUME NEW t \in Tasks, StopAwaitedClose(t) PROVE Quiet(u)
  BY <1>17 DEF StopAwaitedClose, finishFromClose, trackFinish, exitStatus, Quiet, TypeOK,
     EndInv, ActiveStates
<1>18. ASSUME NEW t \in Tasks, StopDone(t) PROVE Quiet(u)
  BY <1>18 DEF StopDone, settled, Quiet, TypeOK, EndInv, ActiveStates
<1>19. ASSUME NEW t \in Tasks, FinishStatus(t) PROVE Final(u) /\ Told(u) /\ Ended(u)
  <2>1. Final(u) /\ Told(u)
    BY <1>19 DEF FinishStatus, Final, Told, TypeOK, EndInv, Closed
  <2>2. Ended(u)
    BY <1>19 DEF FinishStatus, Ended, TypeOK, StopInv
  <2> QED
    BY <2>1, <2>2
<1>20. ASSUME NEW t \in Tasks, FinishSaved(t) PROVE Final(u) /\ Told(u) /\ Ended(u)
  <2>1. status' = status /\ known' \subseteq known /\ fin[t] \in {"saving",
     "removing"} /\ persisted'[u] \in {persisted[u], TRUE}
    BY <1>20 DEF FinishSaved, TypeOK
  <2>2. persisted[u] /\ u \in known \cap known' => disk'[u] = disk[u]
    BY <1>20 DEF FinishSaved, TypeOK, EndInv, Closed, PruneInv
  <2>3. Told(u)
    <3>1. CASE emitTerminalNotification(t)
      <4>1. u = t => (u \in seen => sent[u])
        BY <2>1 DEF NoticeInv, Closed
      <4> QED
        BY <3>1, <4>1, ToldNow
    <3>2. CASE UNCHANGED noticeVars
      BY <3>2 DEF Told, TypeOK
    <3> QED
      BY <1>20, <3>1, <3>2 DEF FinishSaved
  <2> QED
    BY <2>1, <2>2, <2>3 DEF Final, Ended, TypeOK
<1>21. ASSUME NEW t \in Tasks, FinishSaveFails(t) PROVE Quiet(u)
  BY <1>21 DEF FinishSaveFails, writeSettles, mayWrite, Quiet, TypeOK, EndInv, ActiveStates
<1>22. ASSUME NEW t \in Tasks, FilesRemoved(t) PROVE Final(u) /\ Told(u) /\ Ended(u)
  <2>1. status' = status /\ known' \subseteq known /\ fin[t] \in {"saving",
     "removing"} /\ persisted'[u] \in {persisted[u], TRUE}
    BY <1>22 DEF FilesRemoved, TypeOK
  <2>2. persisted[u] /\ u \in known \cap known' => disk'[u] = disk[u]
    BY <1>22 DEF FilesRemoved, TypeOK, EndInv, Closed, PruneInv
  <2>3. Told(u)
    <3>1. CASE emitTerminalNotification(t)
      <4>1. u = t => (u \in seen => sent[u])
        BY <2>1 DEF NoticeInv, Closed
      <4> QED
        BY <3>1, <4>1, ToldNow
    <3>2. CASE UNCHANGED noticeVars
      BY <3>2 DEF Told, TypeOK
    <3> QED
      BY <1>22, <3>1, <3>2 DEF FilesRemoved
  <2> QED
    BY <2>1, <2>2, <2>3 DEF Final, Ended, TypeOK
<1>23. ASSUME NEW t \in Tasks, RemovalFails(t) PROVE Quiet(u)
  <2>1. u \in known => disk'[u] = disk[u]
    <3>1. CASE UNCHANGED disk
      BY <3>1
    <3>2. CASE disk' = [v \in Tasks |-> IF v \in removing[t] THEN "none" ELSE disk[v]]
      BY <3>2 DEF PruneInv
    <3> QED
      BY <1>23, <3>1, <3>2 DEF RemovalFails
  <2> QED
    BY <1>23, <2>1 DEF RemovalFails, Quiet
<1>24. ASSUME NEW t \in Tasks, Arm(t) PROVE Quiet(u)
  BY <1>24 DEF Arm, Quiet, TypeOK, EndInv, ActiveStates
<1>25. ASSUME NEW t \in Tasks, ArmSaved(t) PROVE Quiet(u)
  BY <1>25 DEF ArmSaved, writeSettles, mayWrite, Quiet, TypeOK, EndInv, ActiveStates
<1>26. ASSUME NEW t \in Tasks, ArmSaveFails(t) PROVE Quiet(u)
  BY <1>26 DEF ArmSaveFails, writeSettles, mayWrite, Quiet, TypeOK, EndInv, ActiveStates
<1>27. ASSUME NEW t \in Tasks, NEW why \in Sources, Stop(t, why) PROVE Quiet(u)
  <2>1. stopTask(t, why) /\ why \in Sources
    BY <1>27 DEF Stop, Sources
  <2>2. status'[u] = status[u] \/ (status[u] \in ActiveStates /\ status'[u] = "stopping")
    <3>1. CASE u = t
      BY <2>1, <3>1, StopTaskAt
    <3>2. CASE u # t
      BY <2>1, <3>2, StopTaskAt
    <3> QED
      BY <3>1, <3>2
  <2> QED
    BY <1>27, <2>2 DEF Stop, Quiet, EndInv
<1>28. ASSUME NEW r \in Readers, NEW t \in Tasks, ReadStart(r, t) PROVE Quiet(u)
  BY <1>28 DEF ReadStart, readVars, Idle, Quiet, TypeOK, EndInv, ActiveStates
<1>29. ASSUME NEW r \in Readers, ReadWakes(r) PROVE Quiet(u)
  BY <1>29 DEF ReadWakes, readVars, Idle, Quiet, TypeOK, EndInv, ActiveStates
<1>30. ASSUME NEW r \in Readers, ReadReturns(r) PROVE Quiet(u)
  <2>1. UNCHANGED readVars
    BY <1>30 DEF ReadReturns
  <2>2. UNCHANGED notices
    BY <1>30, Zenon DEF ReadReturns, delivers
  <2> QED
    BY <2>1, <2>2 DEF Quiet
<1>31. ASSUME NEW r \in Readers, ReadAborted(r) PROVE Final(u) /\ Told(u) /\ Ended(u)
  <2>0. PICK t \in Tasks : t = reader[r].task
    BY <1>0, <1>31, ReaderTask DEF ReadAborted
  <2>1. UNCHANGED readVars /\ emitTerminalNotification(t)
    BY <1>31, <2>0 DEF ReadAborted, release
  <2>2. Told(u)
    <3>1. Closed(u) => ~armed'[u] /\ stopReason'[u] = "none"
      BY <2>1 DEF Closed
    <3>2. u \in seen => sent[u] \/ (~armed'[u] /\ stopReason'[u] = "none")
      BY <3>1 DEF NoticeInv
    <3> QED
      BY <2>1, <3>2, ToldNow
  <2> QED
    BY <2>1, <2>2 DEF Final, Ended
<1>32. ASSUME NEW r \in Readers, ReadThrows(r) PROVE Final(u) /\ Told(u) /\ Ended(u)
  <2>0. PICK t \in Tasks : t = reader[r].task
    BY <1>0, <1>32, ReaderTask DEF ReadThrows
  <2>1. UNCHANGED readVars /\ emitTerminalNotification(t)
    BY <1>32, <2>0 DEF ReadThrows, release
  <2>2. Told(u)
    <3>1. Closed(u) => ~armed'[u] /\ stopReason'[u] = "none"
      BY <2>1 DEF Closed
    <3>2. u \in seen => sent[u] \/ (~armed'[u] /\ stopReason'[u] = "none")
      BY <3>1 DEF NoticeInv
    <3> QED
      BY <2>1, <3>2, ToldNow
  <2> QED
    BY <2>1, <2>2 DEF Final, Ended
<1>33. CASE RemoveSession
  BY <1>33 DEF RemoveSession, Final, Told, Ended, TypeOK
<1>34. CASE Restart
  <2>1. Final(u)
    BY <1>34, RestartAt DEF Final, EndInv, ActiveStates
  <2>2. Told(u)
    BY <1>34, RestartAt DEF Told, TypeOK
  <2>3. Ended(u)
    BY <1>34, RestartAt DEF Ended, EndInv, ActiveStates
  <2> QED
    BY <2>1, <2>2, <2>3
<1>35. CASE UNCHANGED vars
  BY <1>35 DEF vars, Final, Told, Ended, TypeOK
<1> QED
  BY <1>1, <1>2, <1>3, <1>4, <1>5, <1>6, <1>7, <1>8, <1>9, <1>10, <1>11, <1>12, <1>13,
     <1>14, <1>15, <1>16, <1>17, <1>18, <1>19, <1>20, <1>21, <1>22, <1>23, <1>24, <1>25,
        <1>26, <1>27, <1>28, <1>29, <1>30, <1>31, <1>32, <1>33, <1>34, <1>35, QuietStep,
     StopAssumption
  DEF Next, StartNext, ProcessNext, StopNext, FinishNext, ArmNext, ReadNext, Sources

(* A saved end is never rewritten, in memory or on disk (the checks in        *)
(* performStop, finish and armTerminalNotification that keep late events out). *)
THEOREM EndsAreFinal == Spec => TerminalIsFinal
<1>1. IInv /\ [Next]_vars =>
        [\A t \in Tasks : persisted[t] /\ t \in known \cap known' =>
           status'[t] = status[t] /\ persisted'[t] /\ disk'[t] = disk[t]]_vars
  BY Steps DEF Final
<1> QED
  BY <1>1, Invariant, PTL DEF Spec, TerminalIsFinal

(* No task wakes the model after a read has shown it the end (readOutput's     *)
(* terminalNotificationSent).                                              *)
THEOREM ReadsAreEnough == Spec => ReadIsEnough
<1>1. IInv /\ [Next]_vars =>
        [\A t \in Tasks : notices'[t] > notices[t] => t \notin seen]_vars
  BY Steps DEF Told
<1> QED
  BY <1>1, Invariant, PTL DEF Spec, ReadIsEnough

(* A task that becomes completed or stopped has no process left (performStop,  *)
(* finishFromClose): an unconfirmed stop invents no end.                      *)
THEOREM NoEndInvented == Spec => NoFabricatedEnd
<1>1. IInv /\ [Next]_vars =>
        [\A t \in Tasks : status'[t] \in {"completed", "stopped"} /\ status[t] # status'[t]
           => proc[t] \in {"exited", "closed"}]_vars
  BY Steps DEF Ended
<1> QED
  BY <1>1, Invariant, PTL DEF Spec, NoFabricatedEnd

-----------------------------------------------------------------------------
(* What the pruning leaves: of a set of tasks, those with fewer than           *)
(* MaxRetained newer ones are at most MaxRetained.                           *)
LEMMA NewestAreFew ==
  ASSUME NEW S \in SUBSET Tasks
  PROVE  Cardinality({t \in S : Cardinality({u \in S : u > t}) < MaxRetained}) <= MaxRetained
<1> DEFINE newer(t) == {u \in S : u > t}
           kept == {t \in S : Cardinality(newer(t)) < MaxRetained}
<1>1. IsFiniteSet(Tasks) /\ Tasks \subseteq Nat /\ MaxRetained \in Nat
  BY TaskCountAssumption, LimitsAssumption, FS_Interval DEF Tasks
<1>2. CASE kept = {}
  <2>1. Cardinality(kept) = 0
    <3> HIDE DEF kept
    <3> QED
      BY <1>2, FS_EmptySet
  <2> QED
    BY <1>1, <2>1
<1>3. CASE kept # {}
  <2>1. PICK m \in kept : \A t \in kept : m <= t
    <3>1. kept \subseteq Nat
      BY <1>1
    <3> HIDE DEF kept
    <3> QED
      BY <1>3, <3>1, Least
  <2>2. IsFiniteSet(newer(m)) /\ Cardinality(newer(m)) \in Nat
    <3>1. newer(m) \in SUBSET Tasks
      OBVIOUS
    <3> HIDE DEF newer
    <3> QED
      BY <1>1, <3>1, FS_Subset, FS_CardinalityType
  <2>3. Cardinality(newer(m)) < MaxRetained
    OBVIOUS
  <2>4. kept \in SUBSET (newer(m) \cup {m})
    <3>1. ASSUME NEW t \in kept PROVE t \in newer(m) \cup {m}
      <4>1. t \in S /\ m \in S /\ m <= t /\ t \in Nat /\ m \in Nat
        BY <1>1, <2>1
      <4> QED
        BY <4>1
    <3> QED
      BY <3>1
  <2> HIDE DEF newer, kept
  <2>5. /\ IsFiniteSet(newer(m) \cup {m})
        /\ Cardinality(newer(m) \cup {m}) \in Nat
        /\ Cardinality(newer(m) \cup {m}) <= Cardinality(newer(m)) + 1
    <3> DEFINE N == newer(m)
    <3>1. IsFiniteSet(N) /\ Cardinality(N) \in Nat
      BY <2>2
    <3> HIDE DEF N
    <3>2. /\ IsFiniteSet(N \cup {m})
          /\ Cardinality(N \cup {m}) = IF m \in N THEN Cardinality(N) ELSE Cardinality(N) + 1
      BY <3>1, FS_AddElement
    <3>3. Cardinality(N \cup {m}) \in Nat /\ Cardinality(N \cup {m}) <= Cardinality(N) + 1
      BY <3>1, <3>2
    <3> QED
      BY <3>2, <3>3 DEF N
  <2>6. /\ Cardinality(kept) \in Nat
        /\ Cardinality(kept) <= Cardinality(newer(m) \cup {m})
    BY <2>4, <2>5, FS_Subset, FS_CardinalityType
  <2>7. Cardinality(kept) <= MaxRetained
    BY <1>1, <2>2, <2>3, <2>5, <2>6
  <2> QED
    BY <2>7 DEF kept, newer
<1> QED
  BY <1>2, <1>3

(* What Excess leaves of a map holds at most MaxRetained finished tasks.      *)
LEMMA PruneKeepsFew ==
  ASSUME NEW map \in SUBSET Tasks, NEW flags \in [Tasks -> BOOLEAN]
  PROVE  Cardinality({t \in map \ Excess(map, flags) : flags[t]}) <= MaxRetained
<1> DEFINE S == {t \in map : flags[t]}
           newer(t) == {u \in S : u > t}
           left == {t \in map \ Excess(map, flags) : flags[t]}
<1>1. S \in SUBSET Tasks
  OBVIOUS
<1>2. ASSUME NEW t \in S
      PROVE  Cardinality(newer(t)) \in Nat /\ MaxRetained \in Nat
  <2>1. newer(t) \in SUBSET Tasks
    OBVIOUS
  <2>2. IsFiniteSet(Tasks)
    BY TaskCountAssumption, FS_Interval DEF Tasks
  <2> HIDE DEF newer
  <2> QED
    BY <2>1, <2>2, LimitsAssumption, FS_Subset, FS_CardinalityType
<1>3. \A t \in S : newer(t) = {u \in map : u > t /\ flags[u]}
  OBVIOUS
<1>4. \A t \in S : t \in Excess(map, flags) <=> Cardinality(newer(t)) >= MaxRetained
  BY <1>3 DEF Excess
<1>5. left = {t \in S : Cardinality(newer(t)) < MaxRetained}
  <2>1. left = {t \in S : t \notin Excess(map, flags)}
    OBVIOUS
  <2> HIDE DEF newer, left, S
  <2> QED
    BY <1>2, <1>4, <2>1
<1>6. Cardinality({t \in S : Cardinality(newer(t)) < MaxRetained}) <= MaxRetained
  <2> HIDE DEF S
  <2> QED
    BY <1>1, NewestAreFew
<1> QED
  BY <1>5, <1>6

(* The steps that prune: the map they leave is what Excess leaves.           *)
LEMMA PruneSteps ==
  ASSUME IInv, TypeOK', (\E t \in Tasks : BeginStart(t) \/ FinishSaved(t)) \/ Restart
  PROVE  RetentionKept'
<1>1. CASE \E t \in Tasks : BeginStart(t)
  <2>1. known' = known \ Excess(known, persisted) /\ persisted' = persisted
    BY <1>1 DEF BeginStart, finVars
  <2>2. known \in SUBSET Tasks /\ persisted \in [Tasks -> BOOLEAN]
    BY DEF IInv, TypeOK
  <2> QED
    BY <2>1, <2>2, PruneKeepsFew DEF RetentionKept
<1>2. CASE \E t \in Tasks : FinishSaved(t)
  <2>1. known' = known \ Excess(known, persisted')
    BY <1>2 DEF FinishSaved
  <2>2. known \in SUBSET Tasks /\ persisted' \in [Tasks -> BOOLEAN]
    BY DEF IInv, TypeOK
  <2> QED
    BY <2>1, <2>2, PruneKeepsFew DEF RetentionKept
<1>3. CASE Restart
  <2> DEFINE found == {t \in Tasks : disk[t] # "none"}
             all == [t \in Tasks |-> TRUE]
  <2>1. known' = found \ Excess(found, all) /\ persisted' = [t \in Tasks |-> t \in found]
    BY <1>3 DEF Restart
  <2>2. {t \in known' : persisted'[t]} = {t \in found \ Excess(found, all) : all[t]}
    <3>1. found \in SUBSET Tasks
      OBVIOUS
    <3> HIDE DEF found
    <3> QED
      BY <2>1, <3>1
  <2>3. Cardinality({t \in found \ Excess(found, all) : all[t]}) <= MaxRetained
    <3>1. found \in SUBSET Tasks /\ all \in [Tasks -> BOOLEAN]
      OBVIOUS
    <3> HIDE DEF found, all
    <3> QED
      BY <3>1, PruneKeepsFew
  <2> QED
    BY <2>2, <2>3 DEF RetentionKept
<1> QED
  BY <1>1, <1>2, <1>3

(* Every other step leaves the finished tasks of the map as they are, or drops *)
(* some: a task enters the map before it has been saved.                     *)
LEMMA FinishedStay ==
  ASSUME IInv, [Next]_vars,
         ~((\E t \in Tasks : BeginStart(t) \/ FinishSaved(t)) \/ Restart)
  PROVE  {t \in known' : persisted'[t]} \subseteq {t \in known : persisted[t]}
<1> DEFINE Goal == {t \in known' : persisted'[t]} \subseteq {t \in known : persisted[t]}
<1>0. ASSUME known' \subseteq known, persisted' = persisted PROVE Goal
  BY <1>0
<1>1. ASSUME NEW t \in Tasks, Spawn(t) PROVE Goal
  <2>1. ~persisted[t] /\ known' = known \cup {t} /\ persisted' = persisted
    BY <1>1 DEF IInv, TaskInv, StartInv, Fresh, Spawn
  <2> QED
    BY <2>1
<1>2. ASSUME NEW t \in Tasks, StartNext(t) PROVE Goal
  <2>1. CASE BeginStart(t) \/ Spawn(t)
    BY <1>1, <2>1
  <2>2. CASE OutputFileFails(t) \/ Spawned(t) \/ LaunchFails(t) \/ StartSaved(t) \/ StartSaveFails(t)
    BY <1>0, <2>2 DEF OutputFileFails, Spawned, LaunchFails, StartSaved, StartSaveFails, finVars
  <2>3. CASE CleanedUp(t)
    BY <1>0, <2>3 DEF CleanedUp, finVars
  <2> HIDE DEF Goal
  <2> QED
    BY <1>2, <2>1, <2>2, <2>3 DEF StartNext
<1>3. ASSUME NEW t \in Tasks, ProcessNext(t) PROVE Goal
  BY <1>0, <1>3 DEF ProcessNext, Exit, Close, ProcessError, OutputEnds, OutputFails, finVars
<1>4. ASSUME NEW t \in Tasks, StopNext(t) \/ (\E why \in StopSources : Stop(t, why)) PROVE Goal
  BY <1>0, <1>4 DEF StopNext, Stop, StopOvertaken, StopUnconfirmed, StopSettles,
     StopAwaitedClose, StopDone, finVars
<1>5. ASSUME NEW t \in Tasks, FinishNext(t) PROVE Goal
  <2>1. FinishStatus(t) \/ FinishSaveFails(t) \/ FilesRemoved(t) \/ RemovalFails(t)
    BY <1>5 DEF FinishNext
  <2> QED
    BY <1>0, <2>1 DEF FinishStatus, FinishSaveFails, FilesRemoved, RemovalFails
<1>6. ASSUME NEW t \in Tasks, ArmNext(t) PROVE Goal
  BY <1>0, <1>6 DEF ArmNext, Arm, ArmSaved, ArmSaveFails, finVars
<1>7. ASSUME NEW r \in Readers, ReadNext(r) PROVE Goal
  BY <1>0, <1>7 DEF ReadNext, ReadStart, ReadWakes, ReadReturns, ReadAborted, ReadThrows,
     readVars, finVars
<1>8. ASSUME RemoveSession PROVE Goal
  BY <1>8 DEF RemoveSession
<1>9. ASSUME UNCHANGED vars PROVE Goal
  BY <1>0, <1>9 DEF vars
<1> HIDE DEF Goal
<1>10. Goal
  <2>1. ASSUME NEW t \in Tasks,
               \/ StartNext(t) \/ ProcessNext(t) \/ StopNext(t) \/ FinishNext(t) \/ ArmNext(t)
               \/ \E why \in StopSources : Stop(t, why)
        PROVE  Goal
    BY <1>2, <1>3, <1>4, <1>5, <1>6, <2>1
  <2> QED
    BY <1>7, <1>8, <1>9, <2>1 DEF Next
<1> QED
  BY <1>10 DEF Goal

(* A session never keeps more finished tasks than MAX_RETAINED_TERMINAL_TASKS, *)
(* whatever starts, ends, is forgotten or is loaded again (pruneTerminalTasks).*)
THEOREM RetentionHolds == Spec => []RetentionKept
<1>1. Init => RetentionKept
  <2> SUFFICES ASSUME Init PROVE RetentionKept
    OBVIOUS
  <2>1. {t \in known : persisted[t]} = {}
    BY DEF Init
  <2> QED
    BY <2>1, FS_EmptySet, LimitsAssumption DEF RetentionKept
<1>2. IInv /\ IInv' /\ RetentionKept /\ [Next]_vars => RetentionKept'
  <2> SUFFICES ASSUME IInv, IInv', RetentionKept, [Next]_vars PROVE RetentionKept'
    OBVIOUS
  <2>1. CASE (\E t \in Tasks : BeginStart(t) \/ FinishSaved(t)) \/ Restart
    BY <2>1, PruneSteps DEF IInv
  <2>2. CASE ~((\E t \in Tasks : BeginStart(t) \/ FinishSaved(t)) \/ Restart)
    <3> DEFINE now == {t \in known : persisted[t]}
               next == {t \in known' : persisted'[t]}
    <3>1. next \in SUBSET now
      BY <2>2, FinishedStay
    <3>2. now \in SUBSET Tasks /\ IsFiniteSet(Tasks)
      <4>1. known \in SUBSET Tasks
        BY DEF IInv, TypeOK
      <4>2. IsFiniteSet(Tasks)
        BY TaskCountAssumption, FS_Interval DEF Tasks
      <4> QED
        BY <4>1, <4>2
    <3> HIDE DEF now, next
    <3>3. /\ Cardinality(now) \in Nat /\ Cardinality(next) \in Nat
          /\ Cardinality(next) <= Cardinality(now)
      BY <3>1, <3>2, FS_Subset, FS_CardinalityType
    <3>4. Cardinality(now) <= MaxRetained
      BY DEF RetentionKept, now
    <3>5. Cardinality(next) <= MaxRetained
      BY <3>3, <3>4, LimitsAssumption
    <3> QED
      BY <3>5 DEF RetentionKept, next
  <2> QED
    BY <2>1, <2>2
<1> QED
  BY <1>1, <1>2, Invariant, PTL DEF Spec
-----------------------------------------------------------------------------
(* The last one to leave sends.  Beyond the invariant above: finish() saves    *)
(* before it is done, and a due notification it has not sent is held back.     *)
Held(t) ==
  /\ fin[t] \in {"removing", "done"} => persisted[t]
  /\ Due(t) /\ fin[t] = "done" => hasReader(t)

(* A step that changes nothing about a task whose finish() is done.          *)
Calm(t) ==
  /\ fin'[t] \in {"removing", "done"}
       => fin[t] = fin'[t] /\ persisted'[t] = persisted[t] /\ status'[t] = status[t]
          /\ stopReason'[t] = stopReason[t] /\ (persisted[t] => armed'[t] = armed[t])
          /\ (sent[t] => sent'[t])
  /\ hasReader(t) => hasReader(t)'

(* Such a step keeps a notification held back.                              *)
LEMMA CalmKeeps ==
  ASSUME NEW t \in Tasks, Held(t), Calm(t)
  PROVE  Held(t)'
BY DEF Held, Calm, Due

(* What emitTerminalNotification leaves due is held back by a reader.         *)
LEMMA EmitSettles ==
  ASSUME TypeOK, NEW t \in Tasks, emitTerminalNotification(t), persisted'[t]
  PROVE  Due(t)' => hasReader(t)'
<1>1. CASE notifiable(t) /\ sent' = [sent EXCEPT ![t] = TRUE]
  BY <1>1 DEF TypeOK, Due
<1>2. CASE ~notifiable(t) /\ UNCHANGED noticeVars
  <2>1. sent'[t] = sent[t]
    BY <1>2 DEF noticeVars
  <2> QED
    BY <1>2, <2>1, Zenon DEF notifiable, Due
<1> QED
  BY <1>1, <1>2, Zenon DEF emitTerminalNotification

(* The steps of start, of the child, of a stop and of arming are calm.        *)
LEMMA OthersCalm ==
  ASSUME IInv, TypeOK', NEW t \in Tasks, NEW u \in Tasks,
         \/ StartNext(t) \/ ProcessNext(t) \/ StopNext(t) \/ ArmNext(t)
         \/ \E why \in StopSources : Stop(t, why)
  PROVE  Calm(u)
<1> USE DEF procVars, stopVars, finVars, fileVars, noticeVars
<1>0. TypeOK /\ StartInv(u) /\ StopInv(u) /\ EndInv(u)
  BY DEF IInv, TaskInv
<1>1. reader' = reader /\ sent' = sent /\ persisted' = persisted
  BY DEF StartNext, BeginStart, OutputFileFails, Spawn, Spawned, LaunchFails, StartSaved,
     StartSaveFails, CleanedUp, ProcessNext, Exit, Close, ProcessError, OutputEnds, OutputFails,
     StopNext, StopOvertaken, StopUnconfirmed, StopSettles, StopAwaitedClose, StopDone,
     ArmNext, Arm, ArmSaved, ArmSaveFails, Stop
<1>2. hasReader(u) => hasReader(u)'
  BY <1>1 DEF hasReader
<1>3. fin'[u] \in {"removing", "done"} => fin'[u] = fin[u]
  BY <1>0 DEF StartNext, BeginStart, OutputFileFails, Spawn, Spawned, LaunchFails, StartSaved,
     StartSaveFails, CleanedUp, ProcessNext, Exit, Close, ProcessError, OutputEnds, OutputFails,
     StopNext, StopOvertaken, StopUnconfirmed, StopSettles, StopAwaitedClose, StopDone,
     ArmNext, Arm, ArmSaved, ArmSaveFails, Stop, trackFinish, finishFromClose, TypeOK
<1>4. fin[u] \in {"removing", "done"} => status[u] \notin ActiveStates
  BY <1>0 DEF EndInv, ActiveStates, ModelStates
<1>5. fin[u] \in {"removing", "done"}
        => status'[u] = status[u] /\ stopReason'[u] = stopReason[u]
  <2>1. ASSUME NEW why, stopTask(t, why), fin[u] \in {"removing", "done"}
        PROVE  status'[u] = status[u] /\ stopReason'[u] = stopReason[u]
    <3>1. CASE UNCHANGED <<status, stopReason>>
      BY <3>1
    <3>2. CASE /\ stoppable(t) /\ stopReason' = [stopReason EXCEPT ![t] = why]
               /\ status' = [status EXCEPT ![t] = "stopping"]
      BY <1>0, <1>4, <2>1, <3>2 DEF stoppable, isCommandTaskActive, TypeOK
    <3> QED
      BY <2>1, <3>1, <3>2, Zenon DEF stopTask
  <2>2. ASSUME finishFromClose(t), fin[u] \in {"removing", "done"}
        PROVE  stopReason'[u] = stopReason[u]
    BY <1>0, <2>2 DEF finishFromClose, TypeOK
  <2>3. CASE StartNext(t)
    BY <2>1, <2>3 DEF StartNext, BeginStart, OutputFileFails, Spawn, Spawned, LaunchFails,
       StartSaved, StartSaveFails, CleanedUp
  <2>4. CASE ProcessNext(t)
    BY <2>1, <2>2, <2>4 DEF ProcessNext, Exit, Close, ProcessError, OutputEnds, OutputFails
  <2>5. CASE StopNext(t)
    <3>1. StopUnconfirmed(t) => t # u \/ fin[u] \notin {"removing", "done"}
      BY <1>4 DEF StopUnconfirmed, isCommandTaskActive
    <3>2. CASE StopUnconfirmed(t)
      BY <1>0, <3>1, <3>2 DEF StopUnconfirmed, retractStop, TypeOK
    <3> QED
      BY <2>2, <2>5, <3>2 DEF StopNext, StopOvertaken, StopSettles, StopAwaitedClose, StopDone
  <2>6. CASE ArmNext(t)
    BY <2>6 DEF ArmNext, Arm, ArmSaved, ArmSaveFails
  <2>7. CASE \E why \in StopSources : Stop(t, why)
    BY <2>1, <2>7 DEF Stop
  <2> QED
    BY <2>3, <2>4, <2>5, <2>6, <2>7
<1>6. fin[u] \in {"removing", "done"} /\ persisted[u] => armed'[u] = armed[u]
  BY <1>0, <1>4 DEF StartNext, BeginStart, OutputFileFails, Spawn, Spawned, LaunchFails,
     StartSaved, StartSaveFails, CleanedUp, ProcessNext, Exit, Close, ProcessError, OutputEnds,
     OutputFails, StopNext, StopOvertaken, StopUnconfirmed, StopSettles, StopAwaitedClose,
     StopDone, ArmNext, Arm, ArmSaved, ArmSaveFails, Stop, mayWrite, EndInv, ActiveStates, TypeOK
<1> QED
  BY <1>1, <1>2, <1>3, <1>5, <1>6 DEF Calm

(* The steps of finish(): the one that is done sends, or a reader holds back.  *)
LEMMA FinishHeld ==
  ASSUME IInv, TypeOK', NEW t \in Tasks, FinishNext(t), NEW u \in Tasks, Held(u)
  PROVE  Held(u)'
<1> USE DEF finVars, noticeVars
<1>0. TypeOK
  BY DEF IInv
<1>1. reader' = reader
  BY DEF FinishNext, FinishStatus, FinishSaved, FinishSaveFails, FilesRemoved, RemovalFails
<1>2. hasReader(u) => hasReader(u)'
  BY <1>1 DEF hasReader
<1>3. CASE u # t
  <2>1. /\ fin'[u] = fin[u] /\ persisted'[u] = persisted[u] /\ status'[u] = status[u]
        /\ stopReason' = stopReason /\ armed' = armed
    BY <1>0, <1>3 DEF FinishNext, FinishStatus, FinishSaved, FinishSaveFails, FilesRemoved,
       RemovalFails, TypeOK, stopVars
  <2>2. sent'[u] = sent[u]
    <3>1. CASE emitTerminalNotification(t)
      BY <1>0, <1>3, <3>1, NoticeAt
    <3>2. CASE UNCHANGED noticeVars
      BY <3>2
    <3> QED
      BY <3>1, <3>2 DEF FinishNext, FinishStatus, FinishSaved, FinishSaveFails, FilesRemoved,
         RemovalFails
  <2> QED
    BY <1>2, <2>1, <2>2, CalmKeeps DEF Calm
<1>4. CASE u = t
  <2>1. CASE FinishStatus(t) \/ FinishSaveFails(t) \/ RemovalFails(t)
    <3>1. fin'[t] \notin {"removing", "done"}
      BY <1>0, <2>1 DEF FinishStatus, FinishSaveFails, RemovalFails, TypeOK
    <3> QED
      BY <1>4, <3>1 DEF Held
  <2>2. CASE FinishSaved(t)
    <3>1. persisted'[t]
      BY <1>0, <2>2 DEF FinishSaved, TypeOK
    <3>2. CASE fin' = [fin EXCEPT ![t] = "done"] /\ emitTerminalNotification(t)
      BY <1>0, <1>4, <3>1, <3>2, EmitSettles DEF Held
    <3>3. CASE fin' = [fin EXCEPT ![t] = "removing"]
      BY <1>0, <1>4, <3>1, <3>3 DEF Held, TypeOK
    <3> QED
      BY <2>2, <3>2, <3>3 DEF FinishSaved
  <2>3. CASE FilesRemoved(t)
    <3>1. persisted'[t] /\ emitTerminalNotification(t)
      BY <1>4, <2>3 DEF FilesRemoved, Held
    <3> QED
      BY <1>0, <1>4, <3>1, EmitSettles DEF Held
  <2> QED
    BY <2>1, <2>2, <2>3 DEF FinishNext
<1> QED
  BY <1>3, <1>4

(* The steps of the readers: one that leaves without the end in its hands sends *)
(* what it held back, unless another one is left.                            *)
LEMMA ReadHeld ==
  ASSUME IInv, TypeOK', NEW r \in Readers, ReadNext(r), NEW u \in Tasks, Held(u)
  PROVE  Held(u)'
<1> USE DEF stopVars, finVars, noticeVars, readVars
<1>0. TypeOK /\ EndInv(u)
  BY DEF IInv, TaskInv
<1>1. UNCHANGED readVars
  BY DEF ReadNext, ReadStart, ReadWakes, ReadReturns, ReadAborted, ReadThrows
<1>2. \A q \in Readers : q # r => reader'[q] = reader[q]
  BY <1>0 DEF ReadNext, ReadStart, ReadWakes, ReadReturns, ReadAborted, ReadThrows, release,
     TypeOK
<1>3. reader[r].task # u => (hasReader(u) => hasReader(u)')
  BY <1>2 DEF hasReader
<1>4. CASE \E t \in Tasks : ReadStart(r, t)
  <2>1. reader[r] = Idle /\ sent' = sent
    BY <1>4 DEF ReadStart
  <2>2. hasReader(u) => hasReader(u)'
    BY <1>3, <2>1 DEF Idle, NoTask, Tasks
  <2> QED
    BY <1>1, <2>1, <2>2, CalmKeeps DEF Calm
<1>5. CASE ReadWakes(r)
  <2>1. sent' = sent /\ reader'[r] = [task |-> reader[r].task, stage |-> "file"]
    BY <1>0, <1>5 DEF ReadWakes, TypeOK
  <2>2. hasReader(u) => hasReader(u)'
    BY <1>2, <2>1 DEF hasReader
  <2> QED
    BY <1>1, <2>1, <2>2, CalmKeeps DEF Calm
<1>6. CASE ReadReturns(r)
  <2>1. CASE reader[r].task = u /\ ~isCommandTaskActive(u)
    <3>1. sent'[u]
      BY <1>0, <1>6, <2>1 DEF ReadReturns, delivers, TypeOK
    <3> QED
      BY <1>1, <3>1 DEF Held, Due
  <2>2. CASE reader[r].task # u \/ isCommandTaskActive(u)
    <3>1. sent[u] => sent'[u]
      BY <1>0, <1>6 DEF ReadReturns, delivers, TypeOK
    <3>2. isCommandTaskActive(u) => fin[u] \notin {"removing", "done"}
      BY <1>0 DEF isCommandTaskActive, EndInv, ActiveStates, ModelStates
    <3> QED
      BY <1>1, <1>3, <2>2, <3>1, <3>2 DEF Held, Due
  <2> QED
    BY <2>1, <2>2
<1>7. CASE ReadAborted(r) \/ ReadThrows(r)
  <2>1. PICK t \in Tasks : reader[r].task = t /\ emitTerminalNotification(t)
    BY <1>7 DEF ReadAborted, ReadThrows, release
  <2>2. CASE u = t
    <3>1. persisted'[t] => (Due(t)' => hasReader(t)')
      BY <1>0, <2>1, EmitSettles
    <3> QED
      BY <1>1, <2>2, <3>1 DEF Held
  <2>3. CASE u # t
    <3>1. sent'[u] = sent[u]
      BY <1>0, <2>1, <2>3, NoticeAt
    <3> QED
      BY <1>1, <1>3, <2>1, <2>3, <3>1, CalmKeeps DEF Calm
  <2> QED
    BY <2>2, <2>3
<1> QED
  BY <1>4, <1>5, <1>6, <1>7 DEF ReadNext

(* When finish() is done, a notification that is due and unsent is held back by *)
(* a reader that is still there: whoever leaves last sends it (release and     *)
(* emitTerminalNotification, manager.ts).                                  *)
THEOREM LastReaderSends == Spec => []HeldBack
<1>1. Init => \A t \in Tasks : Held(t)
  BY DEF Init, Held
<1>2. IInv /\ IInv' /\ (\A t \in Tasks : Held(t)) /\ [Next]_vars => (\A t \in Tasks : Held(t))'
  <2> SUFFICES ASSUME IInv, IInv', \A t \in Tasks : Held(t), [Next]_vars, NEW u \in Tasks
               PROVE  Held(u)'
    OBVIOUS
  <2>0. TypeOK'
    BY DEF IInv
  <2>1. CASE \E t \in Tasks : \/ StartNext(t) \/ ProcessNext(t) \/ StopNext(t) \/ ArmNext(t)
                              \/ \E why \in StopSources : Stop(t, why)
    BY <2>0, <2>1, OthersCalm, CalmKeeps
  <2>2. CASE \E t \in Tasks : FinishNext(t)
    BY <2>0, <2>2, FinishHeld
  <2>3. CASE \E r \in Readers : ReadNext(r)
    BY <2>0, <2>3, ReadHeld
  <2>4. CASE RemoveSession
    BY <2>4, CalmKeeps DEF RemoveSession, Calm, stopVars, finVars, noticeVars, hasReader
  <2>5. CASE Restart
    <3>1. TypeOK
      BY DEF IInv
    <3> QED
      BY <2>5, <3>1, RestartAt DEF Held
  <2>6. CASE UNCHANGED vars
    BY <2>6, CalmKeeps DEF vars, Calm, hasReader
  <2> QED
    BY <2>1, <2>2, <2>3, <2>4, <2>5, <2>6, Zenon DEF Next
<1>3. (\A t \in Tasks : Held(t)) => HeldBack
  BY DEF Held, HeldBack
<1> QED
  BY <1>1, <1>2, <1>3, Invariant, PTL DEF Spec
=============================================================================
