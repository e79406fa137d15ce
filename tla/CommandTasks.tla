---------------------------- MODULE CommandTasks ----------------------------
(***************************************************************************)
(* CommandSessionManager (packages/core/src/tools/background-command/      *)
(* manager.ts): the background commands of one session, their stops, their *)
(* manifests and logs on disk, and the one notification each may send to   *)
(* the model.                                                              *)
(*                                                                         *)
(* Tasks are numbered in the order of startedAt.  An action is the code    *)
(* between two awaits; the child process, its pipes and the file system    *)
(* are the environment.  Every file operation may fail.                    *)
(***************************************************************************)
EXTENDS Integers, FiniteSets

CONSTANTS TaskCount,    \* background commands started in a behaviour
          MaxRunning,   \* MAX_RUNNING_COMMANDS
          MaxRetained,  \* MAX_RETAINED_TERMINAL_TASKS
          Readers,      \* callers of readOutput
          StopSources   \* who may ask for a stop

ASSUME TaskCountAssumption == TaskCount \in Nat \ {0}
ASSUME LimitsAssumption == MaxRunning \in Nat /\ MaxRetained \in Nat
ASSUME StopAssumption == StopSources \subseteq {"model", "user", "timeout", "shutdown"}

Tasks == 1..TaskCount
NoTask == 0

ActiveStates == {"running", "stopping"}
ModelStates == {"completed", "failed", "stopped"}
Statuses == ActiveStates \cup ModelStates \cup {"interrupted"}
Sources == {"model", "user", "timeout", "shutdown", "output-error"}
SilentSources == {"model", "shutdown"}

VARIABLES
  known,      \* keys of this.tasks
  begun,      \* how far start() is: "up" when it has returned a running task,
              \* "handed" once RunCommand has armed it, "over" when it cannot
  status,     \* task.status
  proc,       \* the child: not there, alive, exited, closed
  code,       \* its exit code
  output,     \* outputDone: open, done, or done with task.outputError set
  stopReason, \* task.stopReason.source
  stopping,   \* performStop: awaiting the kill, the close or the finish
  fin,        \* finishPromise: where finish() is
  finStatus,  \* the status finish() was called with
  persisted,  \* task.terminalPersisted
  armed,      \* task.terminalNotification
  sent,       \* task.terminalNotificationSent
  saving,     \* manifest writes chained on persistTail
  removing,   \* tasks whose files the prune of finish() is removing
  disk,       \* the manifest file
  log,        \* tasks with a log file
  reader,     \* the calls of readOutput
  notices,    \* history: notifications sent for a task
  notice,     \* history: what the last of them said
  seen        \* history: tasks whose terminal state a read has returned

procVars == <<proc, code, output>>
stopVars == <<stopReason, stopping>>
finVars == <<fin, finStatus, persisted>>
fileVars == <<saving, removing, disk, log>>
noticeVars == <<sent, notices, notice>>
vars == <<known, begun, status, proc, code, output, stopReason, stopping, fin,
          finStatus, persisted, armed, sent, saving, removing, disk, log, reader,
          notices, notice, seen>>

NoNotice == [status |-> "none", by |-> "none"]
Idle == [task |-> NoTask, stage |-> "idle"]

TypeOK ==
  /\ known \in SUBSET Tasks
  /\ begun \in [Tasks -> {"unborn", "creating", "spawning", "persisting",
                          "cleanup", "up", "handed", "over"}]
  /\ status \in [Tasks -> Statuses]
  /\ proc \in [Tasks -> {"none", "alive", "exited", "closed"}]
  /\ code \in [Tasks -> {"zero", "nonzero"}]
  /\ output \in [Tasks -> {"open", "done", "error"}]
  /\ stopReason \in [Tasks -> Sources \cup {"none"}]
  /\ stopping \in [Tasks -> {"none", "kill", "close", "finish"}]
  /\ fin \in [Tasks -> {"none", "output", "saving", "removing", "done", "failed"}]
  /\ finStatus \in [Tasks -> ModelStates]
  /\ persisted \in [Tasks -> BOOLEAN]
  /\ armed \in [Tasks -> BOOLEAN]
  /\ sent \in [Tasks -> BOOLEAN]
  /\ saving \in [Tasks -> SUBSET {"start", "arm", "finish"}]
  /\ removing \in [Tasks -> SUBSET Tasks]
  /\ disk \in [Tasks -> Statuses \cup {"none"}]
  /\ log \in SUBSET Tasks
  /\ reader \in [Readers -> {Idle} \cup [task : Tasks, stage : {"wait", "file", "aborted"}]]
  /\ notices \in [Tasks -> Nat]
  /\ notice \in [Tasks -> [status : ModelStates \cup {"none"}, by : Sources \cup {"none"}]]
  /\ seen \in SUBSET Tasks

Init ==
  /\ known = {} /\ begun = [t \in Tasks |-> "unborn"]
  /\ status = [t \in Tasks |-> "running"] /\ proc = [t \in Tasks |-> "none"]
  /\ code = [t \in Tasks |-> "zero"] /\ output = [t \in Tasks |-> "open"]
  /\ stopReason = [t \in Tasks |-> "none"] /\ stopping = [t \in Tasks |-> "none"]
  /\ fin = [t \in Tasks |-> "none"] /\ finStatus = [t \in Tasks |-> "failed"]
  /\ persisted = [t \in Tasks |-> FALSE] /\ armed = [t \in Tasks |-> FALSE]
  /\ sent = [t \in Tasks |-> FALSE] /\ saving = [t \in Tasks |-> {}]
  /\ removing = [t \in Tasks |-> {}] /\ disk = [t \in Tasks |-> "none"] /\ log = {}
  /\ reader = [r \in Readers |-> Idle]
  /\ notices = [t \in Tasks |-> 0] /\ notice = [t \in Tasks |-> NoNotice] /\ seen = {}

-----------------------------------------------------------------------------
(* Helpers.                                                                *)

isCommandTaskActive(t) == status[t] \in ActiveStates
runningTasks == {t \in known : isCommandTaskActive(t)}
settled(t) == fin[t] \in {"none", "done", "failed"}

\* Variant: one task too many is kept.
BadExcess(map, isPersisted) ==
  {t \in map : /\ isPersisted[t]
               /\ Cardinality({u \in map : u > t /\ isPersisted[u]}) > MaxRetained}

\* Terminal tasks beyond the newest MaxRetained, in a map and its persisted flags.
Excess(map, isPersisted) ==
  {t \in map : /\ isPersisted[t]
               /\ Cardinality({u \in map : u > t /\ isPersisted[u]}) >= MaxRetained}

\* Variant: manifest writes of one task are not serialised.
BadMayWrite(t, kind) == kind \in saving[t]

\* Each write of a manifest waits for the ones asked for before it.
mayWrite(t, kind) ==
  /\ kind \in saving[t]
  /\ kind # "start" => "start" \notin saving[t]
  /\ kind = "finish" => "arm" \notin saving[t]
writeSettles(t, kind) == saving' = [saving EXCEPT ![t] = @ \ {kind}]

\* Read in the state the step leads to.
hasReader(t) == \E r \in Readers : reader[r].task = t /\ reader[r].stage \in {"wait", "file"}

\* Variants: a release may repeat a notification, or send it before the save.
BadNotifiableAgain(t) ==
  /\ persisted'[t] /\ ~hasReader(t)' /\ (armed'[t] \/ stopReason'[t] = "user")
  /\ status'[t] \in ModelStates /\ stopReason'[t] \notin SilentSources
BadNotifiableEarly(t) ==
  /\ ~sent[t] /\ ~hasReader(t)' /\ (armed'[t] \/ stopReason'[t] = "user")
  /\ status'[t] \in ModelStates /\ stopReason'[t] \notin SilentSources

notifiable(t) ==
  /\ ~sent[t] /\ persisted'[t] /\ ~hasReader(t)'
  /\ armed'[t] \/ stopReason'[t] = "user"
  /\ status'[t] \in ModelStates
  /\ stopReason'[t] \notin SilentSources

emitTerminalNotification(t) ==
  \/ /\ notifiable(t)
     /\ sent' = [sent EXCEPT ![t] = TRUE]
     /\ notices' = [notices EXCEPT ![t] = @ + 1]
     /\ notice' = [notice EXCEPT ![t] = [status |-> status'[t], by |-> stopReason'[t]]]
  \/ ~notifiable(t) /\ UNCHANGED noticeVars

\* trackFinish(finish(status)): only the first caller's finish runs.
trackFinish(t, to) ==
  /\ fin' = [fin EXCEPT ![t] = IF @ = "none" THEN "output" ELSE @]
  /\ finStatus' = [finStatus EXCEPT ![t] = IF fin[t] = "none" THEN to ELSE @]

\* Variant: a nonzero exit is recorded as an interruption.
BadExitStatus(t) == IF code[t] = "zero" THEN "completed" ELSE "interrupted"
exitStatus(t) == IF code[t] = "zero" THEN "completed" ELSE "failed"

\* trackFinish(finishFromClose): the process has told its own result.
finishFromClose(t) ==
  /\ trackFinish(t, exitStatus(t))
  /\ stopReason' = [stopReason EXCEPT ![t] = IF fin[t] = "none" THEN "none" ELSE @]

\* stopTask and the synchronous part of performStop.  A stop joins the one in
\* flight; it does nothing to a task that is over or never had a process.
stoppable(t) == stopping[t] = "none" /\ isCommandTaskActive(t) /\ proc[t] # "none"
stopTask(t, why) ==
  \/ ~stoppable(t) /\ UNCHANGED <<status, stopVars>>
  \/ /\ stoppable(t) /\ proc[t] = "alive"
     /\ stopReason' = [stopReason EXCEPT ![t] = why]
     /\ status' = [status EXCEPT ![t] = "stopping"]
     /\ stopping' = [stopping EXCEPT ![t] = "kill"]
  \/ /\ stoppable(t) /\ proc[t] # "alive"
     /\ stopping' = [stopping EXCEPT ![t] = "close"]
     /\ UNCHANGED <<status, stopReason>>

-----------------------------------------------------------------------------
(* start.                                                                  *)

BeginStart(t) ==
  /\ begun[t] = "unborn" /\ \A u \in Tasks : u < t => begun[u] # "unborn"
  /\ Cardinality(runningTasks) < MaxRunning
  /\ begun' = [begun EXCEPT ![t] = "creating"]
  /\ LET gone == Excess(known, persisted)
     IN  /\ known' = known \ gone /\ log' = log \ gone
         /\ disk' = [u \in Tasks |-> IF u \in gone THEN "none" ELSE disk[u]]
  /\ UNCHANGED <<status, procVars, stopVars, finVars, armed, saving, removing,
                 reader, noticeVars, seen>>

OutputFileFails(t) ==
  /\ begun[t] = "creating"
  /\ begun' = [begun EXCEPT ![t] = "over"]
  /\ UNCHANGED <<known, status, procVars, stopVars, finVars, armed, fileVars,
                 reader, noticeVars, seen>>

\* The task enters the map; spawn either returns a child or throws.
Spawn(t) ==
  /\ begun[t] = "creating"
  /\ known' = known \cup {t} /\ log' = log \cup {t}
  /\ \/ /\ proc' = [proc EXCEPT ![t] = "alive"]
        /\ begun' = [begun EXCEPT ![t] = "spawning"]
        /\ UNCHANGED <<fin, finStatus>>
     \/ /\ begun' = [begun EXCEPT ![t] = "over"]
        /\ trackFinish(t, "failed")
        /\ UNCHANGED proc
  /\ UNCHANGED <<status, code, output, stopVars, persisted, armed, saving, removing,
                 disk, reader, noticeVars, seen>>

Spawned(t) ==
  /\ begun[t] = "spawning"
  /\ begun' = [begun EXCEPT ![t] = "persisting"]
  /\ saving' = [saving EXCEPT ![t] = @ \cup {"start"}]
  /\ UNCHANGED <<known, status, procVars, stopVars, finVars, armed, removing, disk,
                 log, reader, noticeVars, seen>>

LaunchFails(t) ==
  /\ begun[t] = "spawning" /\ proc[t] = "alive"
  /\ begun' = [begun EXCEPT ![t] = "over"]
  /\ proc' = [proc EXCEPT ![t] = "closed"] /\ code' = [code EXCEPT ![t] = "nonzero"]
  /\ trackFinish(t, "failed")
  /\ UNCHANGED <<known, status, output, stopVars, persisted, armed, fileVars, reader,
                 noticeVars, seen>>

StartSaved(t) ==
  /\ begun[t] = "persisting" /\ mayWrite(t, "start")
  /\ writeSettles(t, "start")
  /\ disk' = [disk EXCEPT ![t] = "running"]
  /\ begun' = [begun EXCEPT ![t] = "up"]
  /\ UNCHANGED <<known, status, procVars, stopVars, finVars, armed, removing, log,
                 reader, noticeVars, seen>>

StartSaveFails(t) ==
  /\ begun[t] = "persisting" /\ mayWrite(t, "start")
  /\ writeSettles(t, "start")
  /\ begun' = [begun EXCEPT ![t] = "cleanup"]
  /\ stopTask(t, "shutdown")
  /\ UNCHANGED <<known, procVars, finVars, armed, removing, disk, log, reader,
                 noticeVars, seen>>

\* The stop has settled, well or badly: the task is forgotten with its files.
CleanedUp(t) ==
  /\ begun[t] = "cleanup" /\ stopping[t] = "none" /\ settled(t)
  /\ begun' = [begun EXCEPT ![t] = "over"]
  /\ known' = known \ {t} /\ log' = log \ {t}
  /\ disk' = [disk EXCEPT ![t] = "none"]
  /\ UNCHANGED <<status, procVars, stopVars, finVars, armed, saving, removing,
                 reader, noticeVars, seen>>

-----------------------------------------------------------------------------
(* The child process.                                                      *)

Exit(t) ==
  /\ proc[t] = "alive" /\ begun[t] # "spawning"
  /\ proc' = [proc EXCEPT ![t] = "exited"]
  /\ \E c \in {"zero", "nonzero"} : code' = [code EXCEPT ![t] = c]
  /\ UNCHANGED <<known, begun, status, output, stopVars, finVars, armed, fileVars,
                 reader, noticeVars, seen>>

\* The close handler leaves a task that is being stopped to performStop.
Close(t) ==
  /\ proc[t] = "exited"
  /\ proc' = [proc EXCEPT ![t] = "closed"]
  /\ \/ status[t] = "stopping" /\ UNCHANGED <<fin, finStatus, stopReason>>
     \/ status[t] # "stopping" /\ finishFromClose(t)
  /\ UNCHANGED <<known, begun, status, code, output, stopping, persisted, armed,
                 fileVars, reader, noticeVars, seen>>

\* An error event of the running child.
ProcessError(t) ==
  /\ proc[t] = "alive" /\ begun[t] \in {"persisting", "up", "handed"}
  /\ isCommandTaskActive(t)
  /\ trackFinish(t, "failed")
  /\ UNCHANGED <<known, begun, status, procVars, stopVars, persisted, armed, fileVars,
                 reader, noticeVars, seen>>

OutputEnds(t) ==
  /\ output[t] = "open"
  /\ proc[t] \in {"exited", "closed"} \/ (proc[t] = "none" /\ fin[t] = "output")
  /\ output' = [output EXCEPT ![t] = "done"]
  /\ UNCHANGED <<known, begun, status, proc, code, stopVars, finVars, armed, fileVars,
                 reader, noticeVars, seen>>

OutputFails(t) ==
  /\ output[t] = "open" /\ t \in known /\ (proc[t] # "none" \/ fin[t] = "output")
  /\ output' = [output EXCEPT ![t] = "error"]
  /\ stopTask(t, "output-error")
  /\ UNCHANGED <<known, begun, proc, code, finVars, armed, fileVars, reader,
                 noticeVars, seen>>

-----------------------------------------------------------------------------
(* stop, stopSession, shutdown and the timeout.                            *)

Stop(t, why) ==
  /\ t \in known /\ stoppable(t)
  /\ why = "timeout" => begun[t] \in {"up", "handed"}
  /\ stopTask(t, why)
  /\ UNCHANGED <<known, begun, procVars, finVars, armed, fileVars, reader, noticeVars, seen>>

\* Variant: a failed kill is taken for a stopped process.
BadStillThere(t) == FALSE
stillThere(t) == proc[t] = "alive"

\* Variant: a stop that failed leaves the task in "stopping".
BadRetractStop(t) ==
  UNCHANGED status /\ stopReason' = [stopReason EXCEPT ![t] = "none"]
retractStop(t) ==
  /\ status' = [status EXCEPT ![t] = "running"]
  /\ stopReason' = [stopReason EXCEPT ![t] = "none"]

\* The kill and the grace period are over: the task has ended by another way,
\* its process is still there and the stop is taken back, or the process is
\* gone; one that ended with code 0 without the kill has completed.
StopOvertaken(t) ==
  /\ stopping[t] = "kill" /\ ~isCommandTaskActive(t)
  /\ stopping' = [stopping EXCEPT ![t] = "finish"]
  /\ UNCHANGED <<known, begun, status, procVars, stopReason, finVars, armed, fileVars,
                 reader, noticeVars, seen>>

StopUnconfirmed(t) ==
  /\ stopping[t] = "kill" /\ isCommandTaskActive(t) /\ stillThere(t)
  /\ stopping' = [stopping EXCEPT ![t] = "none"]
  /\ retractStop(t)
  /\ UNCHANGED <<known, begun, procVars, finVars, armed, fileVars, reader, noticeVars, seen>>

stoppedStatus(t) ==
  IF stopReason[t] \in {"timeout", "output-error"} THEN "failed" ELSE "stopped"

StopSettles(t, confirmed) ==
  /\ stopping[t] = "kill" /\ isCommandTaskActive(t) /\ ~stillThere(t)
  /\ stopping' = [stopping EXCEPT ![t] = "finish"]
  /\ \/ ~confirmed /\ code[t] = "zero" /\ finishFromClose(t)
     \/ /\ confirmed \/ code[t] # "zero"
        /\ trackFinish(t, stoppedStatus(t)) /\ UNCHANGED stopReason
  /\ UNCHANGED <<known, begun, status, procVars, persisted, armed, fileVars, reader,
                 noticeVars, seen>>

\* The process had exited before the stop: its own result stands.
StopAwaitedClose(t) ==
  /\ stopping[t] = "close"
  /\ stopping' = [stopping EXCEPT ![t] = "finish"]
  /\ finishFromClose(t)
  /\ UNCHANGED <<known, begun, status, procVars, persisted, armed, fileVars, reader,
                 noticeVars, seen>>

StopDone(t) ==
  /\ stopping[t] = "finish" /\ settled(t)
  /\ stopping' = [stopping EXCEPT ![t] = "none"]
  /\ UNCHANGED <<known, begun, status, procVars, stopReason, finVars, armed, fileVars,
                 reader, noticeVars, seen>>

-----------------------------------------------------------------------------
(* finish.                                                                 *)

FinishStatus(t) ==
  /\ fin[t] = "output" /\ output[t] # "open"
  /\ status' = [status EXCEPT ![t] =
       IF output[t] = "error" /\ finStatus[t] = "completed" THEN "failed" ELSE finStatus[t]]
  /\ proc' = [proc EXCEPT ![t] = "none"] /\ code' = [code EXCEPT ![t] = "zero"]
  /\ fin' = [fin EXCEPT ![t] = "saving"]
  /\ saving' = [saving EXCEPT ![t] = @ \cup {"finish"}]
  /\ UNCHANGED <<known, begun, output, stopVars, finStatus, persisted, armed,
                 removing, disk, log, reader, noticeVars, seen>>

FinishSaved(t) ==
  /\ fin[t] = "saving" /\ mayWrite(t, "finish")
  /\ writeSettles(t, "finish")
  /\ disk' = [disk EXCEPT ![t] = status[t]]
  /\ persisted' = [persisted EXCEPT ![t] = TRUE]
  /\ UNCHANGED <<begun, status, procVars, stopVars, finStatus, armed, log, reader, seen>>
  /\ LET gone == Excess(known, persisted')
     IN  /\ known' = known \ gone
         /\ removing' = [removing EXCEPT ![t] = gone]
         /\ \/ /\ gone = {} /\ fin' = [fin EXCEPT ![t] = "done"]
               /\ emitTerminalNotification(t)
            \/ /\ gone # {} /\ fin' = [fin EXCEPT ![t] = "removing"]
               /\ UNCHANGED noticeVars

FinishSaveFails(t) ==
  /\ fin[t] = "saving" /\ mayWrite(t, "finish")
  /\ writeSettles(t, "finish")
  /\ fin' = [fin EXCEPT ![t] = "failed"]
  /\ UNCHANGED <<known, begun, status, procVars, stopVars, finStatus, persisted, armed,
                 removing, disk, log, reader, noticeVars, seen>>

\* The files of the pruned task are gone, or one of the two removals failed:
\* then finish is rejected before it notifies.
FilesRemoved(t) ==
  /\ fin[t] = "removing"
  /\ fin' = [fin EXCEPT ![t] = "done"]
  /\ removing' = [removing EXCEPT ![t] = {}]
  /\ disk' = [u \in Tasks |-> IF u \in removing[t] THEN "none" ELSE disk[u]]
  /\ log' = log \ removing[t]
  /\ UNCHANGED <<known, begun, status, procVars, stopVars, finStatus, persisted, armed,
                 saving, reader, seen>>
  /\ emitTerminalNotification(t)

RemovalFails(t) ==
  /\ fin[t] = "removing"
  /\ fin' = [fin EXCEPT ![t] = "failed"]
  /\ removing' = [removing EXCEPT ![t] = {}]
  /\ \/ log' = log \ removing[t] /\ UNCHANGED disk
     \/ /\ disk' = [u \in Tasks |-> IF u \in removing[t] THEN "none" ELSE disk[u]]
        /\ UNCHANGED log
  /\ UNCHANGED <<known, begun, status, procVars, stopVars, finStatus, persisted, armed,
                 saving, reader, noticeVars, seen>>

-----------------------------------------------------------------------------
(* armTerminalNotification and readOutput.                                 *)

Arm(t) ==
  /\ begun[t] = "up" /\ t \in known /\ status[t] = "running"
  /\ begun' = [begun EXCEPT ![t] = "handed"]
  /\ armed' = [armed EXCEPT ![t] = TRUE]
  /\ saving' = [saving EXCEPT ![t] = @ \cup {"arm"}]
  /\ UNCHANGED <<known, status, procVars, stopVars, finVars, removing, disk, log,
                 reader, noticeVars, seen>>

ArmSaved(t) ==
  /\ mayWrite(t, "arm")
  /\ writeSettles(t, "arm")
  /\ disk' = [disk EXCEPT ![t] = "running"]
  /\ UNCHANGED <<known, begun, status, procVars, stopVars, finVars, armed, removing, log,
                 reader, noticeVars, seen>>

ArmSaveFails(t) ==
  /\ mayWrite(t, "arm")
  /\ writeSettles(t, "arm")
  /\ armed' = [armed EXCEPT ![t] = FALSE]
  /\ UNCHANGED <<known, begun, status, procVars, stopVars, finVars, removing, disk, log,
                 reader, noticeVars, seen>>

readVars == <<known, begun, status, procVars, stopVars, finVars, armed, fileVars>>

ReadStart(r, t) ==
  /\ reader[r] = Idle /\ t \in known
  /\ \E stage \in {"wait", "file"} :
       /\ stage = "wait" => isCommandTaskActive(t)
       /\ reader' = [reader EXCEPT ![r] = [task |-> t, stage |-> stage]]
  /\ UNCHANGED <<readVars, noticeVars, seen>>

\* New output, the end of the task or the end of waitMs.
ReadWakes(r) ==
  /\ reader[r].stage = "wait"
  /\ reader' = [reader EXCEPT ![r] = [task |-> reader[r].task, stage |-> "file"]]
  /\ UNCHANGED <<readVars, noticeVars, seen>>

\* Variant: a terminal read does not count as delivery.
BadDelivers(t) == seen' = seen \cup {t} /\ UNCHANGED noticeVars
delivers(t) ==
  /\ sent' = [sent EXCEPT ![t] = TRUE]
  /\ seen' = seen \cup {t}
  /\ UNCHANGED <<notices, notice>>

\* A read that returns the terminal state has delivered it.
ReadReturns(r) ==
  LET t == reader[r].task
  IN  /\ reader[r].stage = "file" /\ t \in log
      /\ reader' = [reader EXCEPT ![r] = Idle]
      /\ UNCHANGED readVars
      /\ \/ isCommandTaskActive(t) /\ UNCHANGED <<noticeVars, seen>>
         \/ ~isCommandTaskActive(t) /\ delivers(t)

\* Variant: a reader leaves without looking at the notification it held back.
BadRelease(t, r, left) ==
  /\ reader[r].task = t
  /\ reader' = [reader EXCEPT ![r] = left] /\ UNCHANGED noticeVars

\* The reader leaves; the notice it held back is sent unless another one is left.
release(t, r, left) ==
  /\ reader[r].task = t
  /\ reader' = [reader EXCEPT ![r] = left]
  /\ emitTerminalNotification(t)

\* An abort releases the reader at once; the call itself unwinds later.
ReadAborted(r) ==
  /\ reader[r].stage \in {"wait", "file"}
  /\ UNCHANGED <<readVars, seen>>
  /\ \E t \in Tasks : release(t, r, [task |-> t, stage |-> "aborted"])

ReadThrows(r) ==
  /\ reader[r].stage \in {"file", "aborted"}
  /\ UNCHANGED <<readVars, seen>>
  /\ \E t \in Tasks : release(t, r, Idle)

-----------------------------------------------------------------------------
(* removeSession after a successful stopSession, when the host has closed the *)
(* session's runtime, and a new process.                                    *)

RemoveSession ==
  /\ known # {} /\ \A r \in Readers : reader[r] = Idle
  /\ \A t \in Tasks : begun[t] \in {"unborn", "up", "handed", "over"}
  /\ \A t \in known : /\ ~isCommandTaskActive(t) /\ stopping[t] = "none"
                      /\ fin[t] \in {"none", "done"} /\ saving[t] = {}
  /\ known' = {} /\ log' = {} /\ disk' = [t \in Tasks |-> "none"]
  /\ begun' = [t \in Tasks |-> "over"]
  /\ UNCHANGED <<status, procVars, stopVars, finVars, armed, saving, removing, reader,
                 noticeVars, seen>>

\* loadPersistedTasks: every manifest is loaded, an active one as interrupted.
Restart ==
  LET found == {t \in Tasks : disk[t] # "none"}
      gone == Excess(found, [t \in Tasks |-> TRUE])
      loaded(t) == IF disk[t] \in ActiveStates THEN "interrupted" ELSE disk[t]
  IN  /\ known' = found \ gone /\ log' = log \ gone
      /\ status' = [t \in Tasks |-> IF t \in found THEN loaded(t) ELSE "running"]
      /\ disk' = [t \in Tasks |-> IF t \in found \ gone THEN loaded(t) ELSE "none"]
      /\ persisted' = [t \in Tasks |-> t \in found]
      /\ begun' = [t \in Tasks |-> IF begun[t] = "unborn" THEN "unborn" ELSE "over"]
      /\ proc' = [t \in Tasks |-> "none"]
      /\ stopReason' = [t \in Tasks |-> "none"] /\ stopping' = [t \in Tasks |-> "none"]
      /\ fin' = [t \in Tasks |-> "none"] /\ armed' = [t \in Tasks |-> FALSE]
      /\ sent' = [t \in Tasks |-> FALSE] /\ saving' = [t \in Tasks |-> {}]
      /\ removing' = [t \in Tasks |-> {}] /\ reader' = [r \in Readers |-> Idle]
      /\ code' = [t \in Tasks |-> "zero"] /\ output' = [t \in Tasks |-> "open"]
      /\ finStatus' = [t \in Tasks |-> "failed"]
      /\ UNCHANGED <<notices, notice, seen>>

-----------------------------------------------------------------------------

StartNext(t) ==
  \/ BeginStart(t) \/ OutputFileFails(t) \/ Spawn(t) \/ Spawned(t) \/ LaunchFails(t)
  \/ StartSaved(t) \/ StartSaveFails(t) \/ CleanedUp(t)

ProcessNext(t) == Exit(t) \/ Close(t) \/ ProcessError(t) \/ OutputEnds(t) \/ OutputFails(t)

StopNext(t) ==
  \/ StopOvertaken(t) \/ StopUnconfirmed(t)
  \/ \E confirmed \in BOOLEAN : StopSettles(t, confirmed)
  \/ StopAwaitedClose(t) \/ StopDone(t)

FinishNext(t) ==
  FinishStatus(t) \/ FinishSaved(t) \/ FinishSaveFails(t) \/ FilesRemoved(t) \/ RemovalFails(t)

ArmNext(t) == Arm(t) \/ ArmSaved(t) \/ ArmSaveFails(t)

ReadNext(r) ==
  \/ \E t \in Tasks : ReadStart(r, t)
  \/ ReadWakes(r) \/ ReadReturns(r) \/ ReadAborted(r) \/ ReadThrows(r)

Next ==
  \/ \E t \in Tasks :
       \/ StartNext(t) \/ ProcessNext(t) \/ StopNext(t) \/ FinishNext(t) \/ ArmNext(t)
       \/ \E why \in StopSources : Stop(t, why)
  \/ \E r \in Readers : ReadNext(r)
  \/ RemoveSession \/ Restart

(* Promises settle: kills and grace periods end, the output of a process    *)
(* that has closed is drained, file operations succeed or fail, reads return   *)
(* or throw.  Nothing makes a process exit, and nothing makes a descendant of  *)
(* an exited one let go of its pipes: finish() awaits them without a timeout.  *)
Settling(t) ==
  \/ StopNext(t) \/ FinishNext(t) \/ (proc[t] # "exited" /\ OutputEnds(t))
  \/ StartSaved(t) \/ StartSaveFails(t) \/ ArmSaved(t) \/ ArmSaveFails(t)
Fairness ==
  /\ \A t \in Tasks : WF_vars(Settling(t))
  /\ \A r \in Readers : WF_vars(ReadWakes(r) \/ ReadReturns(r) \/ ReadThrows(r))

Spec == Init /\ [][Next]_vars /\ Fairness
-----------------------------------------------------------------------------
(* Properties.                                                             *)

(* A task wakes the model at most once in its life, whatever readers come    *)
(* and go, removals fail or the application restarts (emitTerminalNotification).*)
AtMostOneNotice == \A t \in Tasks : notices[t] <= 1

(* What a notification says was true and durable before it was sent: the      *)
(* manifest had the terminal state, no stop of the model or of the             *)
(* application is reported, and a stopped task was stopped by the user.       *)
NoticeIsTrue ==
  \A t \in Tasks : notice[t] # NoNotice =>
    /\ disk[t] \in {notice[t].status, "none"}
    /\ notice[t].by \notin SilentSources
    /\ notice[t].status = "stopped" => notice[t].by = "user"

(* A task whose terminal state a read has already returned to the model does  *)
(* not wake it as well.                                                     *)
ReadIsEnough == [][\A t \in Tasks : notices'[t] > notices[t] => t \notin seen]_vars

(* A terminal state that has been saved is final: no later stop, close, error  *)
(* event, arming or restart rewrites it in memory or on disk.                 *)
TerminalIsFinal ==
  [][\A t \in Tasks : persisted[t] /\ t \in known \cap known' =>
       status'[t] = status[t] /\ persisted'[t] /\ disk'[t] = disk[t]]_vars

(* A stop that could not be confirmed does not fabricate an end: a task becomes *)
(* completed or stopped only when its process is gone.                        *)
NoFabricatedEnd ==
  [][\A t \in Tasks : status'[t] \in {"completed", "stopped"} /\ status[t] # status'[t]
       => proc[t] \in {"exited", "closed"}]_vars

(* The session never keeps more than MaxRetained finished tasks.              *)
RetentionKept == Cardinality({t \in known : persisted[t]}) <= MaxRetained

(* A notification that is due: finish() has set the end of the task, which is   *)
(* armed or was stopped by the user, and its file work has not failed.         *)
Due(t) ==
  /\ fin[t] \in {"saving", "removing", "done"} /\ ~sent[t]
  /\ armed[t] \/ stopReason[t] = "user"
  /\ status[t] \in ModelStates /\ stopReason[t] \notin SilentSources

(* The last one to leave sends: when finish() is done, a notification that is   *)
(* still due is held back by a reader that has neither returned nor thrown.    *)
HeldBack == \A t \in Tasks : Due(t) /\ fin[t] = "done" => hasReader(t)

(* A notification that is due is sent, unless a read shows the end first,        *)
(* finish() cannot do its file work, the application restarts, or the readers    *)
(* of the task follow each other without a gap, each failing.                  *)
WakeDelivered == \A t \in Tasks : []<>~hasReader(t) => (Due(t) ~> ~Due(t))

(* A stop gets as far as the output of the task: it ends, runs on, or waits for  *)
(* a pipe that a descendant of the exited process still holds open.            *)
HeldOpen(t) == fin[t] = "output" /\ proc[t] = "exited" /\ output[t] = "open"
StopAnswered ==
  \A t \in Tasks : status[t] = "stopping" ~> status[t] # "stopping" \/ HeldOpen(t)

(* The model is told to read the output of the task that woke it: the log, if  *)
(* it was written without an error, is still there.                           *)
NoticeIsReadable ==
  [][\A t \in Tasks : notices'[t] > notices[t] /\ output[t] = "done"
       => t \in known' \cap log']_vars
=============================================================================
