# WhyCode: formal models

TLA+ models of the parts of WhyCode whose correctness depends on the order of
awaits, failed writes and restarts, with the TLC configurations that check them
on small instances and TLAPS proofs for every instance.

## 1. The system

WhyCode is an Electron desktop agent. The core (`packages/core`) runs one
AgentSession per conversation: a loop that sends the conversation to a model,
executes the tools it calls and goes on until the turn is over. The desktop
process (`apps/desktop/src/main`) routes the user's commands to sessions, keeps
background work alive across conversations and shows what happens. Everything is
JavaScript: a section between two awaits is atomic, and everything hard happens
at the awaits.

| Component | State | Operations | Hard behaviour | What makes it correct |
|---|---|---|---|---|
| AgentSession (`agent/session.ts`) | queue, urgent flags, automatic drain, notifications, abort controller, running / compacting / restoring, persistence failed | message, send now, edit, discard, stop, notification, compact, rollback, the turn loop | commands arrive at every await of the loop | no input lost, repeated or overtaken; a stop ends; an urgent input is seen |
| SessionJournal (`session/store.ts`, `chain.ts`) | transcript on disk, its image in memory, write queue | one record per fact, open, recover, fork | failed append with an unknown result, crash between records, torn tail | memory and disk agree on what is pending; recovery keeps every input once |
| Message routing (`user-message-routing.ts`, `queued-message-actions.ts`) | FIFO gate per session | reserve, classify, record, deliver | state read before an await and used after it | the record says what delivery does |
| Background commands (`tools/background-command`) | tasks, manifests and logs, finish and stop promises, readers | start, read, arm, stop, finish, prune, remove, reload | exit, close, error, stop and timeout race; every file operation can fail | one true and final end, at most one wake-up, bounded retention |
| TaskPlan (`tasks`) | active plan, step snapshot, interruption | create, update, resume, close, commit, discard, interrupt | mutations inside a step that may be discarded | unique ids, one item in progress, completed means evidence |
| Checkpoints (`checkpoints`) | manifests, blobs, the project's write lock | prepare, finalize, barrier, restore, edit of the last message, compensate | crash between resources, conflict with edits of someone else, callers aborted while they wait | what is taken back never happened; a restore is complete or undone; nobody else's text is overwritten |
| Consensus (`consensus`) | round, candidates, votes, score, shared queue | rounds, votes, execution | abort inside a round, queue handed over | one decision, nothing of the user's queue lost |
| Subagents (`subagents`, `subagent-service.ts`) | one manifest per subagent with its activations, run slots, preparations, activations in memory; the parent's announcements | launch, send or continue, stop, end, announce, load, confirm; Stop of the parent | every write of a manifest is a read, an await and a write; results arrive after, during or across their turn | a result is told once and none is lost; a turn waits for its subagents and wakes; Stop reaches all |
| Wake queue, registry, host scheduler | pending notifications; runtimes, timers, capacity; queues per project | enqueue, drain; reserve, unload; run, abort | resolution and reservation are awaited | nothing dropped, capacity kept, writes exclusive |
| Compaction, permissions, tools, MCP, providers, attachments, PDF, skills, worktrees, SSH, browser, renderer, `remote/main.go` | mostly I/O or pure data | | | see `PROJECT.json` |

Interactions: the host calls the session with the routing gate held (messages,
edits, discards, notifications) or without it (stop, compact); the session calls
the journal, whose writes run one at a time and whose results come back in a
later section; the command manager hands a finished command to the wake queue,
which delivers it to the session as a notification. Tools that write files and
rollbacks take the project's lock (host scheduler) and put checkpoint manifests
around what they do. A subagent is a session of its own; its service tells the
parent's loop of its end, or the next turn of the user finds the result on disk.

`PROJECT.json` lists every component and every hazard with its line.

## 2. Modules

| Module | Models | Runs, proofs |
|---|---|---|
| `Queues` | the filter of a list of inputs; used by `AgentSession` and `SessionState` | |
| `AgentSession` | queue, turn loop, user-input records, routing gate | `MCAgentSession*.cfg` |
| `AgentSession_proof` | its invariants and action properties | TLAPS |
| `CommandTasks` | CommandSessionManager, its files and processes | `MCCommandTasks*.cfg` |
| `CommandTasks_proof` | invariants and action properties of `CommandTasks` | TLAPS |
| `TaskPlan` | the plan controller and the step transaction around it | `MCTaskPlan.cfg` |
| `TaskPlan_proof` | its invariants and action properties | TLAPS |
| `SessionState` | what the operations of a session make of its state; used by the next two | |
| `Journal` | abstract specification: a session kept by records that succeed, fail or stay although they failed | implemented by `SessionJournal` |
| `SessionJournal` | the lines of the transcript, appends, repair and replay | `MCSessionJournal*.cfg` |
| `SessionJournal_proof` | its types, its refinement of `Journal`, `NoDouble` | TLAPS |
| `HostScheduler` | the queue of the project's write lock; extended by the next | |
| `Checkpoints` | manifests, tools, rollbacks and their compensation | `MCCheckpoints*.cfg` |
| `Checkpoints_proof` | its base invariant and what follows from it | TLAPS |
| `CheckpointsChain_proof` | what manifests tell of the past: chains and turns | TLAPS |
| `Subagents` | the subagent service and the loop that waits for it | `MCSubagents.cfg` |
| `Subagents_proof` | its types and safety invariants, and that a result is told once | TLAPS |
| `DataLemmas` | induction, least and greatest elements, folds; edits of sequences; used by the proofs of `AgentSession`, `CommandTasks`, `TaskPlan`, `Checkpoints` and `SessionJournal` | TLAPS |

An operator whose name begins with `Bad` is a wrong variant of the definition
below it. It is used by no specification; replacing the definition by it must
make TLC find a property violated, so that each property is known to depend on
the code it is about.

### 2.1 AgentSession

Inputs are numbered in the order the host accepts them. `journal` is what the
journal in memory knows of each input (root, queued, restored to the composer,
discarded, delivered) and `disk` what `SessionStore.open` would load. `writes` is
the journal's write queue: the owner of each write still in flight, served in
order. `queue`, `urgent`, `autoDrain` and `notes` are `this.queue`, the `urgent`
flags, `queueAutoDrain` and `taskNotifications`. `pc` is the place of `runLoop`
between awaits, `maint` a compaction or a rollback in progress, `op` the one
command that holds the routing gate.

| Code | Actions |
|---|---|
| `routeUserMessage`, `receiveUserInput` | `SendMessage`, `MessageRecorded`, `MessageRejected` |
| `restoreQueuedMessage`, `discardQueuedMessage` | `Edit`, `Discard`, `TakeBackRecorded`, `TakeBackConflict`, `TakeBackFailed` |
| `sendQueuedMessageNow`, `abort`, `handleTaskNotification` | `SendNow`, `Abort`, `Notify` |
| `compactNow`, `restoreCheckpoint` | `StartCompact`, `CompactSave`, `CompactWritten`, `CompactFails`; `StartRestore`, `RestoreEnds` |
| `runLoop`: start record | `TurnStarted`, `TurnStartFails` |
| `runLoop`: top of the loop, `injectQueuedMidTurn` | `LoopTop`, `Injected`, `InjectFails` |
| `runOneStep` and what follows it | `StepCommitted`, `StepEndsTurn`, `StepInterrupted`, `StepThrows`, `Boundary`, `Settle` |
| end of `runLoop` | `finishLoop`, `TurnEnds`, `UsageMeasured` |
| death of the process, `open`, `recoverInterruptedWork` | `Restart` |

A write can be lost, can fail although its record reached the disk, or, for the
start of a turn, can leave the first of its two lines (`StartCut`): the root of
that turn is then `"cut"`, named as delivered and shown nowhere, as `journal_root`
finds. A process that dies in a write is a write that fails and a `Restart` right
behind it. `NothingLost` names the cut root as its only exception.

Abstractions:
- A model step is one action with the ways it can end. A plan that is engaged
  and outstanding subagents appear as free choices at the places where
  `runLoop` asks for them; subagent results are not among the notifications.
- The marker and the terminal record of an aborted turn are one write.
- A rollback ends with the choice whether its snapshot reached the disk, and
  whether a pending question is back. Its last event and its `finally` block,
  which only microtasks separate, are one action.
- `recordTurnStart` also forgets a root input whose record is the journal's
  leaf. With the routing gate it is always the turn's own root, except after the
  situation `session_compact` exhibits; what follows that situation is not
  modelled further.
- Consensus rounds, message editing with `editingTurn`, the limits of the
  notification budget and skills are left out.

### 2.2 CommandTasks

Tasks are numbered by `startedAt`. For each: `status`, the child (`proc`, `code`,
`output`), the stop in flight (`stopReason`, `stopping`), `finish()` (`fin`,
`finStatus`, `persisted`), the manifest writes chained on `persistTail`
(`saving`), the manifest and the log on disk, and the notification (`armed`,
`sent`). `reader` holds the calls of `readOutput`. `notices`, `notice` and `seen`
are history.

| Code | Actions |
|---|---|
| `start` | `BeginStart`, `OutputFileFails`, `Spawn`, `Spawned`, `LaunchFails`, `StartSaved`, `StartSaveFails`, `CleanedUp` |
| child process and pipes | `Exit`, `Close`, `ProcessError`, `OutputEnds`, `OutputFails` |
| `stop`, `stopSession`, `shutdown`, timeout, `performStop` | `Stop`, `StopOvertaken`, `StopUnconfirmed`, `StopSettles`, `StopAwaitedClose`, `StopDone` |
| `finish`, `pruneTerminalTasks` | `FinishStatus`, `FinishSaved`, `FinishSaveFails`, `FilesRemoved`, `RemovalFails` |
| `armTerminalNotification` | `Arm`, `ArmSaved`, `ArmSaveFails` |
| `readOutput` | `ReadStart`, `ReadWakes`, `ReadReturns`, `ReadAborted`, `ReadThrows` |
| `removeSession`, `loadPersistedTasks` | `RemoveSession`, `Restart` |

Abstractions:
- The tasks of one session. Output has no content and stdin is left out.
- The files removed by one prune are removed in one step (a finish prunes at
  most one task more than the bound), or the removal of its manifest or of its
  log fails.
- Reloading at start is atomic and succeeds; the manifest write is the rename.
- A spawn that throws calls `finish()` outside `trackFinish`; as nobody else can
  finish that task, the model uses the same place for it.
- The output of a task ends at any time, or never: a descendant that outlives the
  process may hold its pipes. `finish()` awaits the output without a timeout
  (`manager.ts:459`), so that such a task stays in `stopping`; `RunCommand` destroys
  its output in the same situation, the manager does not.
- `RemoveSession` is enabled when `stopSession` would have succeeded and the
  host has closed the session's runtime, as `session-deletion.ts` does it.

### 2.3 TaskPlan

`state`, `snap`, `dirty` and `boundary` are the controller's `state`,
`stepSnapshot`, `stepDirty` and `stepBoundary`; `engaged` is
`planExecutionEngaged`, a local variable of `runLoop`; `claimed`, `durable` and
`resumed` belong to `runOneStep`. `disk` is the task state a restart would load,
with the open turn and the plan it executes; `shown` is the plan on the screen;
`cut` is history.

| Code | Actions |
|---|---|
| `runLoop`, `abort` | `StartTurn`, `Stop`, `LeaveLoop`, `MarkStopped`, `EndTurn` |
| `runOneStep`: request, compaction, failure | `BeginStep`, `Compact`, `StepDropped` |
| the response and each tool result | `ToolsBegin`, `CreateTool`, `ResumeTool`, `UpdateTool`, `CloseTool`, `OtherTool` |
| commit of the step | `ToolsEnd`, `TextEnds` |
| `restoreCheckpoint`, `recoverInterruptedWork` | `Rollback`, `Restart` |

The algorithms of the controller (`applyItemChange`, `addItem`, `editItem`,
`insertionIndex`, `applyTransition`, `buildPlan`) are operators of the same
names. A record is written while nobody else looks at the plan, so a write and
what follows it are one action with three outcomes: written, lost, or kept
although it was reported as failed. Abstractions: descriptions and evidence are
values of small sets; the loop-health checks, the answers that resume a plan, its
restoration after a consensus and after the edit of a message are left out.

### 2.4 Journal, SessionState and SessionJournal

`Journal` says what `SessionStore` promises: after each operation memory is the
state the operation yields, and what a restart loads is that state, or the one
before if the write failed, or, for an append of two records, a state in
between. It knows no lines. `SessionJournal` has the lines: records with parents,
the leaf, torn ends, and the replay that finds the active chain, the messages,
the pending inputs, the drafts and the root that was not delivered. `Chains`
gives, for each line, the records from the first one to it; the active chain is
that of the last line. `ReplayWith` goes through a chain record by record, with
the roots some turn has taken. Both are recursive functions of the code's loops,
not RECURSIVE operators, so that they can be reasoned about. Opening
cuts or completes the torn tail and appends what recovery records.
`Implements` is the refinement: the abstract disk is the replay of the lines.
It is promised until a torn line has been written over (`Damaged`): the host
goes on recording after a failed append, and a line glued to a torn one makes
the transcript unreadable or forgets a record.

| Code | Actions |
|---|---|
| `recordUserInputWithId`, `recordTurnStart`, `recordStep`, `recordTurnEnd`, `recordSnapshot` | `RecordUserInput`, `RecordTurnStart`, `RecordStep`, `RecordTurnEnd`, `Compact` |
| `recordTurnEditInput`, `markUserInputsRestored`, `markUserInputsDiscarded` | `EditTurn`, `MarkRestored`, `MarkDiscarded` |
| `restoreCheckpointUnshared` with its compensation | `Rollback`, `TakeBack`, `RollbackEnds` |
| `appendEntries`, failing or cut anywhere | `Record` inside each of these |
| death, `open`, `recoverInterruptedWork` | `Crash`, `Open`, `Recover` |

Abstractions: messages carry which input or answer they are and no text; view
events, questions by the way, consensus and model records, attachments and
skills are left out; the visible timeline, which decides whether an undelivered
root is shown as a draft, is replaced by "nothing else was said after it"; roots
filed while the session was busy are the subject of `session_compact` and are
excluded here.

### 2.5 HostScheduler and Checkpoints

`HostScheduler` is the promise chain of one project as a queue whose head runs;
`Checkpoints` composes it with the session's tools and rollbacks, operations of
other sessions, and writes by anyone at any time.

| Code | Actions |
|---|---|
| turns, a tool call, its abort while it waits | `StartTurn`, `EndTurn`, `CallTool`, `AbortCall` |
| the lock | `Enter`, `OtherCalls`, `OtherEnds` |
| `prepare`, `recordBarrier`, the tool, `finalize` | `Prepare`, `PutPending`, `PutBarrier`, `PutNothing`, `NotStarted`, `ToolWrites`, `ToolReturns`, `Finalize`, `FinalizeFails` |
| `restoreCheckpoint`, `restoreEditedTurns` | `RequestRestore`, `RequestEdit`, `Plan` |
| `ResourceRestoreTransaction` | `Validate`, `Apply`, `Verify`, `Undo`, `UndoFails` |
| `restorePlan` around it | `Invalidate`, `Commit`, `RestoreFails`, `PutBack`, `OutcomeUnknown`, `RestoreEnds` |
| someone else, death | `Outside`, `Crash`, `Compact` |

`start`, `broken` and `mixed` are history: what the files were when each turn
began, where a chain of manifests was broken from outside, and files someone
else wrote while a tool held them; `late` is the files someone else wrote after a
restore had checked them. `start` forgets a turn that is over and that nobody can
go back to (`Reachable`): no restore of a conversation reads it again. What a tool leaves and what only someone else
saves are different values. Limits of the code the properties name: what
someone saves while a tool is between capture and finalize is taken for the
tool's own; equal content is not told apart however it came about; a crash
leaves a pending manifest that a rollback of files and conversation skips; the
edit of a message restores only files that manifests track. `validate()` looks at
one file after the other, with an await for each, and the writes follow: what is
saved to a file behind its own check is overwritten (`late`), although docs/02
line 230 says that a rollback never does that. Only the last message of the user
can be edited, and the edit restores its turn and all that came after it without
a message; which turn of the conversation that is, the model leaves open
(`Roots`). The safety copies of a restore are taken in the step of `Plan`, a
tool captures its files in `Prepare` and the final comparison is `Verify`: these
three passes over the files are one step each. Previews, the changes shown for a
turn, the check before the confirmation and the storage of blobs are left out.

### 2.6 Subagents

`disk` holds the manifests: for each subagent its activations in order, each with
the turn that started it, whether it is open, pending or delivered, and the turn
it was delivered to. `count` is `activeCounts`, `active` the activation in memory,
`tool` the one call of the Subagent tool that runs (it is no read-only tool, so
calls are serial). The loop has `notes` (`taskNotifications`), the `batch` being
recorded and confirmed, `iter` (`pendingSubagentResults`: the subagents left to
look at and the results of the present one, taken in the order of its
activations), `delivered`, `outs` (the turn state it read for this step) and
`woken`. `told` is what the parent's
transcript contains.

| Code | Actions |
|---|---|
| `launch`, `send`, `continue`, `stop` | `CallLaunch`, `CallContinue`, `CallSend`, `SendGoesOn`, `CallStop`, `StopDone`, `CallAnswered` |
| their awaits and catch blocks | `ManifestWritten`, `Started`, `Undone` |
| `runActivation`, `finishActivation` | `ChildEnds`, `ChildSaves`, `ChildReleases`, `ChildSettles` |
| `pendingSettlements`, `loadPendingSubagentResults` | `LoadManifest`, `LoadResult` |
| `injectQueuedMidTurn`, `markSettlementDelivered` | `Drain`, `Recorded`, `MarkReads`, `MarkWrites`, `Confirmed` |
| `runLoop`, `waitForRunLoopWake` | `Start`, `Proceed`, `StateRead`, `Wakes`, `StepEnds`, `LoopBreaks`, `AbortNoticed`, `TurnEnds` |
| Stop: `beginParentAbort`, then `AgentSession.abort` | `Stop`, `SessionAborts` |
| death, `initialize` | `Restart` |

Abstractions: the kind and the text of an outcome; a batch is any nonempty prefix
of what waits (the code takes what fits its budget); the user's inputs are in
`AgentSession`; turn edits, plan continuations, protocol rounds, `close` and the
removal of a session are left out. The new manifest is written in one step with
the reads that precede it, because nobody else writes it meanwhile; marks and
outcomes are a read and a write, because they do meet. New subagents get their
numbers in order.

Three things the code does are named by history variables, and the properties
except exactly those:
- `crossed`: a turn reads a pending result from disk while the activation that
  produced it is still about to announce it; if the turn records it before the
  announcement arrives in a later turn, the model is told twice.
- `late`: a `send` that waits for the end of an activation, or a call the model
  makes between Stop reaching the subagents and Stop reaching the session, starts
  an activation nobody stops (docs/03 line 543 says Stop ends the unfinished ones).
- `orphans`: an outcome that was not saved, or was undone by a mark that had read
  the manifest before (`subagent-service.ts:304-319`). The activation stays open,
  the turn waits for it until Stop, and it cannot be continued before a restart.

## 3. Checks

| Run | Bounds | Shows |
|---|---|---|
| `session` | 2 inputs, 1 notification | `NoRedelivery`, `NothingLost`, `OneHolder`, `OrderKept`, `DrainNeedsConsent`, `StopEndsWork`, `UrgentHandled` |
| `session_compact` | same | violates `QueuedIsPending` |
| `session_interrupt` | same | violates `CompletedIsAnswered` |
| `commands` | 1 task, 2 readers, stops of model, user and timeout | `AtMostOneNotice`, `NoticeIsTrue`, `ReadIsEnough`, `TerminalIsFinal`, `NoFabricatedEnd`, `HeldBack`, `WakeDelivered`, `StopAnswered` |
| `commands_retention` | 2 tasks, room for 1 | `RetentionKept` |
| `commands_log` | same | violates `NoticeIsReadable` |
| `task_plan` | plans of 2 to 3 items, 2 plans, versions to 4, one item change per call | `PlanValid`, `ViewsAgree`, `EngagementIsRecorded`, `CutPlanWaits` |
| `journal` | 2 inputs, 7 lines | `NoDouble`, `Implements` |
| `journal_root` | same | violates `RootSurvives` |
| `checkpoints` | 2 files, 2 turns, 2 manifests, 1 act of someone else, 1 fault | `TurnUndone`, `AllOrNothing`, `ChainHolds`, `NoLateTool`, `ForeignKept` |
| `checkpoints_conflict` | 1 file, 1 turn, 1 manifest | violates `RefusalTouchesNothing` |
| `subagents` | 2 subagents, 3 activations, 2 slots, 2 turns, 1 trouble | `SlotsCounted`, `OpenIsRunning`, `DeliveredIsTold`, `ToldOnce`, `TurnWaits`, `StopReaches`, `WaitEnds` |

Why the bounds are enough. `session`: two inputs are the least with an order, a
pair of root and queued, a draft consumed by a later message, and an urgent one
that overtakes; the loop, the stops, the failures and the restarts are not
bounded at all. Three inputs (3.5 million states) were checked once for the
safety properties, with the same result. `commands`: the tasks of a session meet
only in the retention bound and in the limit of running commands, so one task
with all the actors is the interesting instance for everything else, and two
tasks with room for one for the retention. The second reader is what makes
"the last reader leaves" different from "a reader leaves". No counter is capped:
`notices` stays below two because `AtMostOneNotice` holds.

`task_plan`: three items are the least with work before, behind and beside the
one in progress; two plans let a plan be closed and another take its place;
version 4 allows a plan to be created and changed three times, across stops and
restarts. `journal`: two inputs are the least in which one consumes the draft of
the other; seven lines hold a recorded root, its turn with a step and a cut
append, a recovery and what follows. `checkpoints`: two turns and two manifests
make a range with a manifest in front of it and one within it; two files make a
restore that is half done or half checked; every fault and every act of someone
else happens at every place, one per behaviour. An edit takes a turn of its own,
so with two turns it edits the first one; edits over two turns were checked once,
with three turns, no fault and nobody else, and the proofs cover them. `subagents`: two subagents and three activations
give the second activation of one whose first is being delivered, beside another
one; two turns give a result that is delivered in a later one. There the limit
of slots is met only by a preparation beside two activations; three subagents
with two slots (4.1 million states), one slot, a prefetch of one and eight, and
two troubles were checked once for the safety properties, with the same result.

Three runs have `CHECK_DEADLOCK FALSE` for the bounds: `journal` (lines; and a
transcript that cannot be opened stays so), `checkpoints` (turns, manifests) and
`subagents` (turns). Their sessions may also rest for ever.

Fairness. `AgentSession` assumes weak fairness of the loop, of journal writes and
of maintenance: requests to the model have timeouts, file operations and
microtasks settle. Nothing is assumed of the user, of notifications or of
restarts. `CommandTasks` assumes that kills and grace periods end, the output of a process
that has closed is drained, file operations settle and reads return or throw.
Nothing makes a process exit, nothing makes a descendant let go of the pipes of a
process that has exited without closing, and nothing makes a reader arrive or
abort. So `StopAnswered` excepts a task whose pipes are held open (`HeldOpen`), and
`WakeDelivered` readers that follow each other without a gap, each of them failing:
together they hold a notification back for ever. `HeldBack` says without fairness
what the last of them does.
`Subagents` assumes of `Due` only: an activation ends and is wound up, a loop
that is woken goes on, and Stop reaches the session once the message being routed
is delivered. The parent's model need never answer. The other modules state no
liveness and assume nothing.

What the violations show:
- `session_compact`: `index.ts` starts a manual compaction without looking at the
  routing gate. A root message that is being recorded then finds the session
  busy and joins the queue, where the journal does not know it as queued.
- `session_interrupt`: an immediate input cuts the step; if it is withdrawn
  before the boundary, the turn ends as completed with no answer, and the queue
  runs on.
- `commands_log`: a command that outlives enough newer ones prunes itself when it
  finishes, then tells the model to read its output.

- `journal_root`: the record that starts a turn and its first messages are two
  lines of one append. When the append is cut between them, the root message
  counts as delivered because the first line names it, and is in no messages.
- `checkpoints_conflict`: a rollback captures copies of the files before it looks
  for conflicts. When it finds one and refuses, the compensation writes the
  copies back, over whatever was saved since.

Further disagreements were met that no run is spent on: `crossed`, `late` and
`orphans` above, the append behind a torn line (`Damaged`), and the save between
the check of a file and its restore (`late`), which docs/02 line 230 excludes like
the one of `checkpoints_conflict`.

## 4. Proofs

### 4.1 CommandTasks

For arbitrary `TaskCount`, `MaxRunning`, `MaxRetained`, `Readers` and
`StopSources` satisfying the assumptions named in `CommandTasks`.

| Theorem | Statement |
|---|---|
| `TypeCorrect` | `Spec => []TypeOK` |
| `Invariant` | `Spec => []IInv` |
| `NoticeOnce` | `Spec => []AtMostOneNotice` |
| `NoticesTrue` | `Spec => []NoticeIsTrue` |
| `EndsAreFinal` | `Spec => TerminalIsFinal` |
| `ReadsAreEnough` | `Spec => ReadIsEnough` |
| `NoEndInvented` | `Spec => NoFabricatedEnd` |
| `LastReaderSends` | `Spec => []HeldBack` |
| `RetentionHolds` | `Spec => []RetentionKept` |

The argument. `AtMostOneNotice` and `NoticeIsTrue` are not inductive: nothing in
them says that the flag `terminalNotificationSent`, which is lost in a restart,
cannot matter afterwards, or that no write in flight can still change the
manifest of a finished task. `IInv` adds, task by task:
- `StartInv`: a task whose creation has not reached the map is untouched, one that
  is being spawned is alive with no finish and no write in flight, and the first
  manifest write is in flight only while `start` awaits it;
- `StopInv`: a kill in flight on an active task has a reason and a process, a stop
  that awaits the close has an exited one, and a finish called with completed or
  stopped found the process gone, the latter by a stop that may stop it;
- `EndInv`: a terminal status goes with a `finish()` past its first await, or with
  a task of an earlier process (`Closed`: not restartable, never armed again); the
  disk has that status, an active one or nothing; a persisted end has no write in
  flight and is what the disk has, unless the files were removed;
- `NoticeInv`: a task with a notice has its flag set or is `Closed`, and its end is
  persisted with that status or its manifest is gone for good; a task whose end a
  read has returned has its flag set or is `Closed`;
- `PruneInv`: a removal in flight concerns only tasks that have left the map.

Every step changes one task, or only readers, or is a removal or a restart.
`OneTask` reduces a step of one task to that task; `StartSteps`, `ProcessSteps`,
`StopSteps`, `FinishSteps`, `ArmSteps` and `ReadSteps` have one step per action;
`RemoveStep` and `RestartStep` treat the two steps that concern all tasks. The
action properties follow from the invariant: most steps are `Quiet` for a task (they leave what is persisted and reported alone),
and `Steps` goes through the others once for all three properties.

`HeldBack` is inductive together with one fact (`Held`): when `finish()` removes
files or is done, the end is persisted, so that nothing but a reader can be what
keeps a notification from being sent. Most steps are `Calm` for a task; the others
are the end of `finish()` and the two ways in which a reader leaves.

`RetentionKept` counts. Of a set of tasks, those with fewer than `MaxRetained`
newer ones are at most `MaxRetained` (`NewestAreFew`: they are the oldest of them
and some of its newer ones). So `BeginStart`, `FinishSaved` and `Restart` leave few
enough (`PruneKeepsFew`); no other step adds a finished task, because a task that
enters the map has not been saved (`StartInv`).

### 4.2 Subagents

For arbitrary `MaxSubs`, `MaxActs`, `MaxRunning`, `Prefetch`, `MaxTurns` and
`MaxTroubles` satisfying `SubagentsAssumption`: any number of subagents, of
activations and of slots, and any number of Stops, restarts and failed reads and
writes, at any place.

| Theorem | Statement |
|---|---|
| `TypeCorrect` | `Spec => []TypeOK` |
| `SlotsAddUp` | `Spec => []SlotsCounted` |
| `OpenRuns` | `Spec => []OpenIsRunning` |
| `NoResultLost` | `Spec => []DeliveredIsTold` |
| `TurnsWait` | `Spec => []TurnWaits` |
| `StopReachesAll` | `Spec => []StopReaches` |
| `ResultsToldOnce` | `Spec => ToldOnce` |

The argument is in layers, each inductive given the ones below it.
- `Types` and `FitInv` (theorem `ServiceFits`): a manifest that was read and is
  about to be written back has the length of the one on disk, unless the tool has
  added an activation to it; a call is in progress only in a step with tools, and
  prepares an activation only of a subagent that has none; the batch exists only
  while it is recorded or confirmed. `Room`, that a new activation fits, is the
  one place where elements are counted.
- `StopInv`: not only the activations that run, but the start in preparation and
  the `send` that waits have been told, or are `late`; otherwise they would bring
  a subagent to life behind Stop.
- `ToldInv`: `DeliveredIsTold` of the manifests on disk is not inductive, because
  each write puts back a copy read before. It is stated of every copy (of the
  child that ends, of the tool, of the mark), and of what is being confirmed.
- `OpenInv`: only the last activation of a manifest or of a copy may be open, and
  then its child is running, the tool is starting it, or it is an orphan; a copy
  the tool writes back to undo a start has no open activation of its own.
- `WaitInv`: what the loop remembers of the subagents (`outs`) while it asks the
  model. No call can start an activation in a step without tools, so the answer
  that ends the turn sees what was true when it was read.
- `Holders`: the slots as a finite set, of which each step adds or removes one.
- `CopyInv`: a copy of the child or of the tool holds no mark that is not on disk,
  and the copy of the loop holds every mark that is, so no write confirms a result
  but `MarkWrites`. `QueueInv`: what waits to be told is not confirmed or has
  crossed, and is queued once. `FirmInv`: an activation that was told or queued is
  not undone, so its number is not given to another one. Together they are why
  `ToldOnce` holds with `crossed` as its only exception.

### 4.3 TaskPlan

For arbitrary `Outcomes` and `Evidences` and any `MinDraft`, `MinItems`,
`MaxItems`, `MaxChanges`, `MaxVersion` and `MaxPlans` satisfying the assumptions of
`TaskPlan`: plans of any length, and any number of changes in one call of `update`.

| Theorem | Statement |
|---|---|
| `EditsKeep` | what `update` makes of the items of a plan |
| `TypeCorrect` | `Spec => []TypeOK` |
| `PlansAreValid` | `Spec => []PlanValid` |
| `ViewsStayTogether` | `Spec => []ViewsAgree` |
| `EngagementIsKept` | `Spec => []EngagementIsRecorded` |
| `CutPlansWait` | `Spec => CutPlanWaits` |
| `CompletedMilestonesStay` | `Spec => CompletedStays` |

The argument. `EditsKeep` is about the data alone: `update` folds the changes
over the items, and each change keeps ids unique, at most one item in progress,
evidence for what is completed, and the completed items themselves; so does the
transition that follows. What a fold over any number of changes keeps is
`FoldType` of `DataLemmas`. On top of it the invariants come in three layers:
- `ValidInv`: `PlanValid` of the plans in memory, on disk and at the start of the
  turn is not inductive, because a failed step goes back to `snap` and a late one
  to `durable`; both are valid as well.
- `LoopInv`: while the loop runs, nothing has failed and the turn is on record;
  in a request the step would go back to what there is; what is shown differs
  from the plan only while a tool has changed it. With it go the marks of the
  execution: a plan that is executed is on record as such until the turn has
  ended and the plan waits (`EngagedInv`).
- `PlanInv`: plans get their ids once (`IdsInv`), and a plan that was cut waits in
  memory, and on disk unless a restart is still to find its turn (`CutInv`).
  `CutPlanWaits` and `CompletedStays` then hold of each step.

### 4.4 Checkpoints

For arbitrary `Paths`, `Texts`, `Saved` and bounds satisfying `BoundsAssumption`:
any number of files, manifests, turns, operations of other sessions, acts of
someone else, failures and crashes.

| Theorem | Statement |
|---|---|
| `BaseHolds` | `Spec => []BaseInv` |
| `TypeCorrect` | `Spec => []TypeOK` |
| `NoToolIsLate` | `Spec => []NoLateTool` |
| `ForeignTextsKept` | `Spec => []ForeignKept` |
| `RestoresAreWhole` | `Spec => []AllOrNothing` |
| `HistHolds` | `Spec => []HistInv` |
| `ChainsHold` | `Spec => []ChainHolds` |
| `TurnsAreUndone` | `Spec => []TurnUndone` |

The first layer, `BaseInv`, is about who may do what:
- `HostInv` is the lock: the operation at the head of the queue is the one in the
  critical section; at most one call of the session is in the queue that its step
  still waits for; while a restore is asked for, no turn runs. `NoLateTool` is
  the part of it that concerns a tool.
- `DataInv`: the manifests that are listed are ordered by their numbers as by
  their turns; what a queued restore asks for is there when its turn comes, in
  spite of compactions; what a tool has captured, and what a manifest tells, are
  texts of tools but for what someone else wrote in between (`mixed`).
- `RestInv`: how far a restore has got. `AllOrNothing` speaks of its end; the
  invariant says at each place which manifests of the range are still ready, which
  files are original and which as captured, and on which side the conversation is.

`ForeignKept` needs `CheckedInv` beside it: a file that was checked, and that the
restore has not written yet, holds what the last manifest of the range left there,
unless someone saved it after its check. What a manifest tells is a text of a tool
by `DataInv`, so a text of someone else in such a file is a late one.

The second layer, `HistInv`, is about the past. `ChainHolds` speaks of moments
when nothing runs and `TurnUndone` of the end of a restore; neither says what
holds while a tool has written half of its files, or while a restore has
invalidated half of its range. Three ideas carry both through these moments:
- `Base`: a file that a tool or a restore has in its hands is, for the manifests
  before, what the tool or the restore found in it. A tool hands it over to its
  own manifest (`finalize`), a restore to the end of the chain in front of its
  range, or back.
- `Known` and `Seen`: the manifests of the range count until the restore is over,
  whatever their status; then either all count again or none, by the first layer,
  or the restore was not clean and nothing is known of its files any more.
- `Lost`: what is written behind the back of the manifests breaks the chain and
  what is known of the turns at once. A tool that has not written a file yet finds
  it as captured, or it is lost (`TodoInv`); so it is for a restore (`MeddleInv`).
`ChatInv` says that the range of a rollback of the conversation is all there is
since its turn, and `OrderInv` that every range comes after what is left outside,
so that what is left of a chain ends where the range began. `EditedInv` is the
turn that begins with an edit.

### 4.5 AgentSession

For arbitrary `MaxInputs > 0` and any set `Notes`: any number of inputs, of
notifications, of failed writes and of restarts.

| Theorem | Statement |
|---|---|
| `Invariant` | `Spec => []IInv` |
| `TypeCorrect` | `Spec => []TypeOK` |
| `NeverRedelivered` | `Spec => []NoRedelivery` |
| `NeverLost` | `Spec => []NothingLost` |
| `OneHolderEach` | `Spec => []OneHolder` |
| `DrainsWithConsent` | `Spec => DrainNeedsConsent` |
| `OrderIsKept` | `Spec => OrderKept` |

The argument is in layers; each has one lemma for every kind of step (loop, user
command, maintenance, host, restart) and uses the ones before it.
- `Control`: the types; `WritesInv`, that a write in flight belongs to somebody who
  waits for it, so that a second one of the same owner is never asked for (without
  it `TypeOK` is not inductive); `LoopInv`, that a turn does not run during
  maintenance, holds inputs only while their delivery is written, and continues by
  itself only if the user sent something. The end of a turn that takes that
  consent back leaves automatic continuation on until the session is idle, and
  nothing drains in between.
- `HoldInv`: `OneHolder` says that a queued input has a holder. The converse is
  needed too: what is held is queued in the journal, or is a root input that was
  recorded for a turn another one opened first (`session_compact`); the root of
  a turn is held by nobody; a message being recorded is new to the journal, and
  the drafts it consumes are drafts until its record settles.
- `RecordInv`: what the model has is delivered in memory and on disk; only what the
  user took back is recorded as taken back, also by a record that was reported as
  failed; the disk knows every input the memory knows; inputs not accepted yet are
  unknown to both; a cut input is a root in memory or cut there too (`CutIsRoot`). `NoRedelivery` and `NothingLost` follow from the last two layers.

`Written`, `NotWritten` and `RecordStays` are the three ways in which a step treats
the journal, `Moves` and `Stays` those in which inputs change hands.
`Chosen` (module `Queues`), by which the injection of urgent inputs and a restart
filter a queue, is a fold; `ChosenIs` says what it keeps, from `ChosenHolds` of
`DataLemmas`.

### 4.6 SessionJournal

For any set `Inputs` of positive numbers and any `MaxLines > 0`: transcripts of any
length, with any number of failed, cut and torn appends, deaths and reopenings.

| Theorem | Statement |
|---|---|
| `Invariant` | `Spec => []IInv` |
| `TypesHold` | `Spec => []TypeOK` |
| `ImplementsHolds` | `Spec => Implements`, where `Implements` is `Promise!Spec` of `Journal` |
| `NoDoubleHolds` | `Spec => []NoDouble` |

The difficulty is that an operation changes memory directly, while a reopening
computes it again from the whole file. What `Chains` and `ReplayWith` compute is
known by induction along the lines (`InductionTo`, `ChainInduction`): both are what
their equations say, a chain depends only on the lines above its end (`ChainsKept`),
and the replay of a chain with one more record is one more step on the replay
before (`After`). One thing is not local: a `turn-start` anywhere in a chain decides
whether a root recorded before it was delivered. `RootsAside` says when
that makes no difference: a chain whose replay leaves no root undelivered replays
the same session when more roots are taken.

`IInv`, the inductive invariant, has four parts:
- `Types`: the lines are lines, memory and what is found are sessions.
- `FileInv`: the file begins with `session-start`, every record has its parent above
  it, every root a `turn-start` names was written above it (or the file is torn),
  and `found` is what loading these lines gives.
- `MemInv`: which root is undelivered at which place of the caller; a rollback that
  waits for its files holds the messages it would bring back, and only it does.
- `TruthInv`: as long as nothing was cut, the chain of the leaf replays exactly
  what is in memory; while a turn is being opened, that also holds with its root
  counted as taken, which is what its two records need.

Every operation has a lemma that gives `IInv'` together with the step of `Journal`
it is (`Write`, with the states between two records as `halves`). They share
`AttemptKeeps`: an append is done, cut anywhere, or cut by the death of the process;
in each case what loading finds is the session after all records, after the first,
or before. `SameOperations` says that the operators of `Journal` are those of
`SessionJournal` on the same session, so that the two sides compare the same terms.

`NoDouble` needs the whole history, because a rollback or a torn tail can bring any
earlier line back to the end of a chain. `SoundInv` therefore says of every line
above the first torn one: its chain replays no input twice, and only inputs
recorded in lines above it. An input that is written now is new to the whole
file, so no chain has it yet; a record that moves an input (delivered, restored,
discarded) takes it from one place to the other. `UndoInv` says the same of the
messages a rollback may put back: they are told and none of them waits.

### 4.7 DataLemmas

The library's induction theorems take a predicate as a parameter, which the
installed provers cannot instantiate. `DataLemmas` does without: `Least` gets a
least element of any set of naturals from the library's theorem that strict
subsets of finite sets are well founded (`FS_StrictSubsetOrderingWellFounded`,
`WFMin`, both without such parameters), with the intervals `1..x` in the place of
the numbers; `InductionTo` is induction with a set in the place of the predicate.
From it follow greatest elements of bounded sets and of functions, and that the
function by which the community module `Folds` defines a fold exists
(`FoldExists`), computes step by step (`FoldSteps`) and keeps what every step
keeps (`FoldType`). `AppendHolds`, `TailHolds`, `ConcatHolds`, `RemoveAtHolds` and
`InsertAtHolds` say what a sequence holds after an edit, and that it still holds
nothing twice; `ChosenHolds` says what a filter of a sequence keeps, in which
order, and `SeqEq` that sequences with the same elements are equal.

### 4.8 Only model-checked

`WakeDelivered`, `StopAnswered`, `WaitEnds`, `StopEndsWork` and `UrgentHandled`:
liveness under fairness is out of the prover's reach. Every invariant and every
action property of a passing run, and the refinement, are theorems. One property
is a theorem alone: `CompletedStays`.

## 5. Plan

1. `WakeQueue` with the runtime registry and the routing gate: delivery, capacity,
   idle unloading.
2. `Consensus`: rounds, votes, abort and the hand-over of the queue.
3. An abstract command (running, then one end, then at most one report) that
   `CommandTasks` implements; processes that outlive their task.
4. `AgentSession` composed with `Subagents`: per-input consent, message editing.

### Not modelled

Consensus, the wake queue and the runtime registry: planned, see above. Model
requests, MCP, SSH, browser, terminals, git and worktrees drive external
programs. Attachments, PDF, skills and prompts are data no property here tells
apart. Context compaction and permissions are pure functions of their input; the
place of a compaction in the session and in the transcript is modelled. The
renderer shows state that the main process owns. The models cover the code that
orders awaits, writes and failures; most of the repository is views, drivers and
tests, and that is why the map covers a small share of it.
