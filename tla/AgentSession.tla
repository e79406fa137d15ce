---------------------------- MODULE AgentSession ----------------------------
(***************************************************************************)
(* The input queue and the turn loop of one Main AgentSession              *)
(* (packages/core/src/agent/session.ts) together with the part of its      *)
(* SessionJournal that records user inputs (packages/core/src/session/     *)
(* store.ts) and the routing gate the desktop host puts in front of them   *)
(* (apps/desktop/src/main/user-message-routing.ts).                        *)
(*                                                                         *)
(* JavaScript runs one synchronous section at a time, so an action below   *)
(* is what happens between two awaits.  User inputs are numbered in the    *)
(* order in which the host accepts them; a journal write can succeed, fail *)
(* leaving nothing on disk, fail although its record did reach the disk, or *)
(* leave the first of its two lines.  A process that dies in a write is a   *)
(* write that fails and a Restart right behind it.                         *)
(***************************************************************************)
EXTENDS FiniteSets, Queues

CONSTANTS MaxInputs,    \* user inputs accepted in a behaviour
          Notes         \* command-task notifications the host may deliver

ASSUME InputsAssumption == MaxInputs \in Nat \ {0}

Inputs == 1..MaxInputs
NoInput == 0

VARIABLES
  journal,    \* what the SessionJournal in memory knows of every input
  disk,       \* what SessionStore.open would load if the process died now
  writes,     \* writeQueue: owners of the journal writes still in flight
  queue,      \* this.queue: ids of the inputs waiting for a turn
  urgent,     \* ids whose QueuedMessage.urgent flag is set
  autoDrain,  \* queueAutoDrain
  notes,      \* taskNotifications (of background commands)
  unsent,     \* notifications the host has not delivered to the session yet
  asking,     \* findPendingUserQuestion(messages) # null
  failed,     \* persistenceFailed
  pc,         \* where runLoop is; "idle" when this.running is false
  abortCtl,   \* opAbort: "none", "live" or "aborted"
  abortFin,   \* abortRequestedDuringFinalization
  stop,       \* stopReason of the turn that is ending
  batch,      \* inputs and notifications taken by the write in flight
  maint,      \* compacting / restoringCheckpointToolUseId
  op,         \* the user command holding the routing gate
  accepted,   \* inputs numbered so far
  exposed,    \* history: inputs that became part of the model's messages
  withdrawn,  \* history: inputs the user took back (discard, edit, resend)
  consent,    \* history: the user sent something after the last stop
  answered    \* history: the last step of the current turn was committed

journalVars == <<journal, disk>>
queueVars == <<queue, urgent, autoDrain, notes>>
hostVars == <<unsent, op, accepted>>
loopVars == <<pc, abortCtl, abortFin, stop, batch>>
histVars == <<exposed, withdrawn, consent, answered>>
vars == <<journal, disk, writes, queue, urgent, autoDrain, notes, unsent, asking,
          failed, pc, abortCtl, abortFin, stop, batch, maint, op, accepted,
          exposed, withdrawn, consent, answered>>

\* "cut": named by the start of a turn whose messages did not reach the file.
InputStates == {"absent", "root", "queued", "restored", "discarded", "delivered", "cut"}
StopReasons == {"completed", "aborted", "error", "waiting-user", "paused"}
PCs == {"idle", "start", "loop", "inject", "step", "cutStep", "textBoundary",
        "toolBoundary", "settle", "end", "usage"}
NoBatch == [ins |-> <<>>, root |-> NoInput, notes |-> {}, back |-> "loop"]
NoOp == [kind |-> "none", id |-> NoInput, starts |-> FALSE, urgent |-> FALSE,
         index |-> 0, drops |-> {}]

TypeOK ==
  /\ journal \in [Inputs -> InputStates]
  /\ disk \in [Inputs -> InputStates]
  /\ writes \in Seq({"loop", "op", "maint"}) /\ IsInjective(writes)
  /\ queue \in Seq(Inputs)
  /\ urgent \in SUBSET Inputs
  /\ notes \in SUBSET Notes
  /\ unsent \in SUBSET Notes
  /\ {autoDrain, asking, failed, abortFin, consent, answered} \subseteq BOOLEAN
  /\ pc \in PCs
  /\ abortCtl \in {"none", "live", "aborted"}
  /\ stop \in StopReasons
  /\ batch \in [ins : Seq(Inputs), root : Inputs \cup {NoInput},
                notes : SUBSET Notes, back : {"loop", "step"}]
  /\ maint \in {"none", "compact", "compactSave", "restore"}
  /\ op \in [kind : {"none", "message", "discard", "edit"},
             id : Inputs \cup {NoInput}, starts : BOOLEAN, urgent : BOOLEAN,
             index : Nat, drops : SUBSET Inputs]
  /\ accepted \in 0..MaxInputs
  /\ exposed \in SUBSET Inputs /\ withdrawn \in SUBSET Inputs

Init ==
  /\ journal = [i \in Inputs |-> "absent"] /\ disk = journal
  /\ writes = <<>> /\ queue = <<>> /\ urgent = {} /\ autoDrain = FALSE
  /\ notes = {} /\ unsent = Notes /\ asking = FALSE /\ failed = FALSE
  /\ pc = "idle" /\ abortCtl = "none" /\ abortFin = FALSE
  /\ stop = "completed" /\ batch = NoBatch /\ maint = "none"
  /\ op = NoOp /\ accepted = 0
  /\ exposed = {} /\ withdrawn = {} /\ consent = FALSE /\ answered = FALSE

-----------------------------------------------------------------------------
(* Queries of the session and of the journal.                              *)

isRunning == pc # "idle"
isBusy == isRunning \/ maint # "none"
aborted == abortCtl = "aborted"

hasPendingMessages == queue # <<>> \/ notes # {}
hasRunnablePendingMessages == (autoDrain /\ queue # <<>>) \/ (notes # {} /\ ~asking)
\* Variant: a step boundary looks for notifications only.
BadMidTurnInput == notes # {}
hasMidTurnInput == notes # {} \/ \E k \in DOMAIN queue : queue[k] \in urgent

Marked(f, ids, state) == [i \in Inputs |-> IF i \in ids THEN state ELSE f[i]]
PendingInputs(ids, state) == \A i \in ids : journal[i] = state
BatchIds == Range(batch.ins) \cup ({batch.root} \ {NoInput})

-----------------------------------------------------------------------------
(* Journal writes.  SessionJournal.enqueue runs them one at a time.  After *)
(* a failed append the memory is unchanged, but the record may have reached*)
(* the file behind the same parent: open would then follow it.             *)

writing(owner) == writes # <<>> /\ Head(writes) = owner
\* Variant: memory is published before the append has succeeded.
BadAppended(new) == journal' = new /\ disk' \in {disk, new}
appended(new) == journal' = new /\ disk' = new
appendFailed(new) == journal' = journal /\ disk' \in {disk, new}

\* persistRequired throws before it reaches the journal once it has failed.
persistRequired(owner, rest) == writes' = IF failed THEN rest ELSE Append(rest, owner)
notWriting(owner) == owner \notin Range(writes)

-----------------------------------------------------------------------------
(* Opening a turn, shared by every path that does it.                      *)

startTurn(ins, root, ns, rest) ==
  /\ pc' = "start" /\ abortCtl' = "live" /\ abortFin' = FALSE
  /\ batch' = [ins |-> ins, root |-> root, notes |-> ns, back |-> "loop"]
  /\ persistRequired("loop", rest)
  /\ answered' = FALSE

\* urg, drain: the flags after the caller's own change; rest: the writes left.
startPendingTurn(urg, drain, rest) ==
  LET hot == {k \in DOMAIN queue : queue[k] \in urg}
      next == IF hot = {} THEN 1 ELSE CHOOSE k \in hot : \A m \in hot : k <= m
      take == drain /\ queue # <<>>
  IN  /\ startTurn(IF take THEN <<queue[next]>> ELSE <<>>, NoInput, notes, rest)
      /\ queue' = IF take THEN RemoveAt(queue, next) ELSE queue
      /\ urgent' = IF take THEN urg \ {queue[next]} ELSE urg
      /\ notes' = {} /\ autoDrain' = drain

\* Variant: a stop leaves automatic continuation on.
BadPause(q) == urgent' = urgent \ Range(q) /\ UNCHANGED autoDrain
pauseQueuedInputs(q) == urgent' = urgent \ Range(q) /\ autoDrain' = FALSE

-----------------------------------------------------------------------------
(* Commands of the user; at most one holds the routing gate.               *)

\* Variant: messages are not serialised by the gate.
BadSendMessage(urg, drops) ==
  /\ accepted < MaxInputs /\ PendingInputs(drops, "restored")
  /\ accepted' = accepted + 1
  /\ op' = [NoOp EXCEPT !.kind = "message", !.id = accepted + 1,
                        !.starts = ~isBusy, !.urgent = urg, !.drops = drops]
  /\ writes' = Append(writes, "op")
  /\ UNCHANGED <<journalVars, queueVars, unsent, asking, failed, loopVars, maint, histVars>>

\* routeUserMessage: at the head of the gate the message is classified, then
\* its journal record is requested.  It may consume drafts taken back before.
SendMessage(urg, drops) ==
  /\ op.kind = "none" /\ accepted < MaxInputs
  /\ PendingInputs(drops, "restored")
  /\ accepted' = accepted + 1
  /\ op' = [NoOp EXCEPT !.kind = "message", !.id = accepted + 1,
                        !.starts = ~isBusy, !.urgent = urg, !.drops = drops]
  /\ writes' = Append(writes, "op")
  /\ UNCHANGED <<journalVars, queueVars, unsent, asking, failed, loopVars, maint, histVars>>

RecordedMessage ==
  [Marked(journal, op.drops, "discarded") EXCEPT
     ![op.id] = IF op.starts THEN "root" ELSE "queued"]

\* Variant: a new input overtakes the queue.
BadQueueInput(id) == queue' = <<id>> \o queue
queueInput(id) == queue' = Append(queue, id)

\* deliver -> receiveUserInput runs in the section that sees the record written.
MessageRecorded ==
  /\ op.kind = "message" /\ writing("op")
  /\ appended(RecordedMessage)
  /\ withdrawn' = withdrawn \cup op.drops
  /\ consent' = TRUE /\ autoDrain' = TRUE /\ op' = NoOp
  /\ UNCHANGED <<unsent, asking, failed, stop, maint, accepted, exposed>>
  /\ \/ /\ isBusy
        /\ queueInput(op.id)
        /\ urgent' = IF op.urgent THEN urgent \cup {op.id} ELSE urgent
        /\ pc' = IF op.urgent /\ pc = "step" THEN "cutStep" ELSE pc
        /\ writes' = Tail(writes)
        /\ UNCHANGED <<notes, abortCtl, abortFin, batch, answered>>
     \/ /\ ~isBusy
        /\ startTurn(IF op.starts THEN <<>> ELSE <<op.id>>,
                     IF op.starts THEN op.id ELSE NoInput, notes, Tail(writes))
        /\ notes' = {}
        /\ UNCHANGED <<queue, urgent>>

MessageRejected ==
  /\ op.kind = "message" /\ writing("op")
  /\ appendFailed(RecordedMessage)
  /\ writes' = Tail(writes) /\ op' = NoOp
  /\ UNCHANGED <<queueVars, unsent, asking, failed, loopVars, maint, accepted, histVars>>

\* discardQueuedMessage / restoreQueuedMessage take the input out of the queue
\* before they ask for the journal record.
takeQueuedMessage(kind, id, drops) ==
  \E k \in DOMAIN queue :
    /\ op.kind = "none" /\ ~failed
    /\ queue[k] = id /\ journal[id] = "queued"
    /\ queue' = RemoveAt(queue, k)
    /\ op' = [NoOp EXCEPT !.kind = kind, !.id = id, !.index = k, !.drops = drops]
    /\ writes' = Append(writes, "op")
    /\ UNCHANGED <<journalVars, urgent, autoDrain, notes, unsent, asking, failed,
                   loopVars, maint, accepted, histVars>>

Discard(id) == takeQueuedMessage("discard", id, {})

\* A draft in the composer may since have been consumed by another message.
Edit(id, drops) ==
  /\ \A i \in drops : journal[i] \in {"restored", "discarded"}
  /\ takeQueuedMessage("edit", id, drops)

putQueuedMessageBack ==
  queue' = InsertAt(queue, IF op.index <= Len(queue) THEN op.index ELSE Len(queue) + 1, op.id)

TakenBack ==
  [Marked(journal, op.drops, "discarded") EXCEPT
     ![op.id] = IF op.kind = "edit" THEN "restored" ELSE "discarded"]

TakeBackRecorded ==
  /\ op.kind \in {"discard", "edit"} /\ writing("op")
  /\ PendingInputs(op.drops, "restored")
  /\ appended(TakenBack)
  /\ withdrawn' = withdrawn \cup op.drops \cup {op.id}
  /\ writes' = Tail(writes) /\ op' = NoOp
  /\ UNCHANGED <<queueVars, unsent, asking, failed, loopVars, maint, accepted,
                 exposed, consent, answered>>

\* A RestoredDraftConflictError is reported without giving up persistence.
TakeBackConflict ==
  /\ op.kind = "edit" /\ writing("op")
  /\ ~PendingInputs(op.drops, "restored")
  /\ putQueuedMessageBack
  /\ writes' = Tail(writes) /\ op' = NoOp
  /\ UNCHANGED <<journalVars, urgent, autoDrain, notes, unsent, asking, failed,
                 loopVars, maint, accepted, histVars>>

TakeBackFailed ==
  /\ op.kind \in {"discard", "edit"} /\ writing("op")
  /\ PendingInputs(op.drops, "restored")
  /\ IF op.drops = {} THEN appendFailed(TakenBack) ELSE UNCHANGED journalVars
  /\ failed' = TRUE
  /\ putQueuedMessageBack
  /\ withdrawn' = withdrawn \cup {op.id}
  /\ writes' = Tail(writes) /\ op' = NoOp
  /\ UNCHANGED <<urgent, autoDrain, notes, unsent, asking, loopVars, maint, accepted,
                 exposed, consent, answered>>

SendNow(id) ==
  /\ op.kind = "none" /\ id \in Range(queue) /\ journal[id] = "queued"
  /\ consent' = TRUE
  /\ \/ /\ isBusy
        /\ autoDrain' = TRUE /\ urgent' = urgent \cup {id}
        /\ pc' = IF pc = "step" THEN "cutStep" ELSE pc
        /\ UNCHANGED <<writes, queue, notes, abortCtl, abortFin, batch, answered>>
     \/ ~isBusy /\ startPendingTurn(urgent \cup {id}, TRUE, writes)
  /\ UNCHANGED <<journalVars, unsent, asking, failed, stop, maint, op, accepted,
                 exposed, withdrawn>>

\* The stop button: AgentSession.abort.
Abort ==
  /\ isBusy
  /\ pauseQueuedInputs(queue)
  /\ consent' = FALSE
  /\ abortCtl' = IF abortCtl = "none" THEN "none" ELSE "aborted"
  /\ abortFin' = (abortFin \/ (abortCtl = "none" /\ isRunning))
  /\ UNCHANGED <<journalVars, writes, queue, notes, unsent, asking, failed, pc, stop,
                 batch, maint, op, accepted, exposed, withdrawn, answered>>

-----------------------------------------------------------------------------
(* Work that arrives from the host.                                        *)

\* handleTaskNotification, delivered while the host holds the routing gate.
Notify(n) ==
  /\ n \in unsent /\ op.kind = "none" /\ (isBusy \/ ~asking)
  /\ unsent' = unsent \ {n}
  /\ \/ /\ isBusy
        /\ notes' = notes \cup {n}
        /\ UNCHANGED <<writes, loopVars, answered>>
     \/ /\ ~isBusy
        /\ startTurn(<<>>, NoInput, {n}, writes)
        /\ UNCHANGED <<notes, stop>>
  /\ UNCHANGED <<journalVars, queue, urgent, autoDrain, asking, failed, maint, op,
                 accepted, exposed, withdrawn, consent>>

\* The compact command does not look at the routing gate.
StartCompact ==
  /\ ~isBusy /\ exposed # {}
  /\ maint' = "compact" /\ abortCtl' = "live"
  /\ UNCHANGED <<journalVars, writes, queueVars, hostVars, asking, failed, pc,
                 abortFin, stop, batch, histVars>>

CompactSave ==
  /\ maint = "compact" /\ ~aborted /\ ~failed
  /\ maint' = "compactSave" /\ writes' = Append(writes, "maint")
  /\ UNCHANGED <<journalVars, queueVars, hostVars, asking, failed, loopVars, histVars>>

compactEnds(completed, rest) ==
  /\ maint' = "none"
  /\ IF ~aborted /\ completed /\ hasRunnablePendingMessages
     THEN startPendingTurn(urgent, autoDrain, rest)
     ELSE /\ abortCtl' = "none" /\ writes' = rest
          /\ pauseQueuedInputs(queue)
          /\ UNCHANGED <<queue, notes, pc, abortFin, batch, answered>>
  /\ UNCHANGED <<hostVars, asking, stop, exposed, withdrawn, consent>>

CompactFails ==
  /\ maint = "compact"
  /\ compactEnds(FALSE, writes)
  /\ UNCHANGED <<journalVars, failed>>

\* recordSnapshot refuses while a root input waits for its turn; it carries the
\* pending inputs as they are.
CompactWritten ==
  /\ maint = "compactSave" /\ writing("maint")
  /\ \/ /\ \A i \in Inputs : journal[i] # "root"
        /\ appended(journal)
        /\ compactEnds(TRUE, Tail(writes))
        /\ UNCHANGED failed
     \/ /\ appendFailed(journal)
        /\ failed' = TRUE
        /\ compactEnds(FALSE, Tail(writes))

\* restore-checkpoint is refused while the gate is held; a rollback may bring a
\* question back.
StartRestore ==
  /\ ~isBusy /\ op.kind = "none" /\ exposed # {}
  /\ maint' = "restore"
  /\ UNCHANGED <<journalVars, writes, queueVars, hostVars, asking, failed, loopVars, histVars>>

RestoreEnds ==
  /\ maint = "restore"
  /\ maint' = "none"
  /\ asking' \in BOOLEAN
  /\ journal' = journal /\ disk' \in {disk, journal}
  /\ IF (autoDrain /\ queue # <<>>) \/ (notes # {} /\ ~asking')
     THEN startPendingTurn(urgent, autoDrain, writes)
     ELSE UNCHANGED <<writes, queue, urgent, autoDrain, notes, pc, abortCtl,
                      abortFin, batch, answered>>
  /\ UNCHANGED <<hostVars, failed, stop, exposed, withdrawn, consent>>

-----------------------------------------------------------------------------
(* runLoop.                                                                *)

loopElse == UNCHANGED <<hostVars, maint, withdrawn, consent>>

\* Variant: the root input's own delivery is not recorded.
BadDelivered == Marked(journal, Range(batch.ins), "delivered")
Delivered == Marked(journal, BatchIds, "delivered")

\* recordTurnStart and the injecting recordStep check the states of the inputs
\* they confirm before they append.
\* A turn without a root also forgets a root input recorded just before it; the
\* routing gate leaves none there, except after what QueuedIsPending forbids.
Confirmable == /\ PendingInputs(Range(batch.ins), "queued")
               /\ batch.root # NoInput => journal[batch.root] = "root"

ConfirmDelivery ==
  /\ Confirmable
  /\ appended(Delivered)
  /\ exposed' = exposed \cup BatchIds
  /\ batch' = NoBatch
  /\ writes' = Tail(writes)

\* recordTurnStart appends two lines.  Cut between them, the first one names the
\* root of the turn and the second one, with the messages and the delivered
\* inputs, is not there: replay takes the root for delivered and shows it nowhere.
StartCut ==
  /\ pc = "start"
  /\ journal' = journal /\ disk' = Marked(journal, {batch.root}, "cut")

DeliveryFails == appendFailed(Delivered) \/ StartCut

\* Variant: what was taken is dropped when the record fails.
BadLoseDelivery(rest, tried) ==
  /\ IF tried /\ Confirmable THEN DeliveryFails ELSE UNCHANGED journalVars
  /\ queue' = queue /\ notes' = notes \cup batch.notes /\ batch' = NoBatch
  /\ failed' = TRUE /\ writes' = rest

\* The record could not be confirmed: what was taken goes back to the front.
LoseDelivery(rest, tried) ==
  /\ IF tried /\ Confirmable THEN DeliveryFails ELSE UNCHANGED journalVars
  /\ queue' = batch.ins \o queue
  /\ notes' = notes \cup batch.notes
  /\ batch' = NoBatch
  /\ failed' = TRUE
  /\ writes' = rest

TurnStarted ==
  /\ pc = "start" /\ writing("loop")
  /\ ConfirmDelivery
  /\ asking' = (asking /\ BatchIds = {})
  /\ pc' = "loop"
  /\ UNCHANGED <<queueVars, failed, abortCtl, abortFin, stop, answered>>
  /\ loopElse

TurnStartFails ==
  /\ pc = "start"
  /\ \/ writing("loop") /\ LoseDelivery(Tail(writes), TRUE)
     \/ notWriting("loop") /\ LoseDelivery(writes, FALSE)
  /\ pc' = "idle" /\ abortCtl' = "none" /\ abortFin' = FALSE
  /\ pauseQueuedInputs(queue')
  /\ UNCHANGED <<asking, stop, exposed, answered>>
  /\ loopElse

\* Variant: opAbort outlives the loop body.
BadFinishLoop(reason, fin) ==
  /\ pc' = "end" /\ stop' = reason /\ abortFin' = fin /\ UNCHANGED abortCtl
  /\ persistRequired("loop", writes)

\* The loop body is over: opAbort is cleared and the terminal records are asked
\* for.  persist, unlike persistRequired, skips the write without an error.
finishLoop(reason, fin) ==
  /\ pc' = "end" /\ stop' = reason /\ abortCtl' = "none" /\ abortFin' = fin
  /\ persistRequired("loop", writes)

leaveLoop(reason, fin) ==
  /\ finishLoop(reason, fin)
  /\ UNCHANGED <<journalVars, queueVars, failed, asking, batch, exposed, answered>>
  /\ loopElse

\* injectQueuedMidTurn: all urgent inputs and all command notifications at once.
Inject(back) ==
  /\ hasMidTurnInput
  /\ batch' = [ins |-> Chosen(queue, urgent), root |-> NoInput,
               notes |-> notes, back |-> back]
  /\ queue' = Chosen(queue, Inputs \ urgent)
  /\ urgent' = urgent \ Range(queue)
  /\ notes' = {}
  /\ pc' = "inject"
  /\ persistRequired("loop", writes)
  /\ UNCHANGED <<journalVars, autoDrain, asking, failed, abortCtl, abortFin, stop,
                 exposed, answered>>
  /\ loopElse

goTo(where) ==
  /\ pc' = where
  /\ UNCHANGED <<journalVars, writes, queueVars, asking, failed, abortCtl, abortFin,
                 stop, batch, exposed, answered>>
  /\ loopElse

LoopTop ==
  /\ pc = "loop"
  /\ \/ aborted /\ leaveLoop("aborted", abortFin)
     \/ ~aborted /\ Inject("step")
     \/ ~aborted /\ ~hasMidTurnInput /\ goTo("step")

Injected ==
  /\ pc = "inject" /\ writing("loop")
  /\ ConfirmDelivery
  /\ asking' = (asking /\ BatchIds = {})
  /\ pc' = batch.back
  /\ UNCHANGED <<queueVars, failed, abortCtl, abortFin, stop, answered>>
  /\ loopElse

\* The failed write is thrown to runLoop, whose catch names the stop reason.
InjectFails ==
  /\ pc = "inject"
  /\ \/ writing("loop") /\ LoseDelivery(Tail(writes), TRUE)
     \/ notWriting("loop") /\ LoseDelivery(writes, FALSE)
  /\ urgent' = urgent \cup Range(batch.ins)
  /\ pc' = "end" /\ abortCtl' = "none"
  /\ stop' = IF aborted THEN "aborted" ELSE "error"
  /\ UNCHANGED <<autoDrain, asking, abortFin, exposed, answered>>
  /\ loopElse

inStep == pc \in {"step", "cutStep"}

\* The step ran to its end.  A stop with pending input ends the loop here: as
\* completed when the answer is out, unless a plan is engaged.
StepCommitted(tools) ==
  /\ inStep /\ ~failed
  /\ answered' = TRUE
  /\ appended(journal)
  /\ UNCHANGED <<queueVars, asking, failed, batch, exposed>>
  /\ loopElse
  /\ IF aborted /\ hasPendingMessages
     THEN \/ ~tools /\ finishLoop("completed", TRUE)
          \/ finishLoop("aborted", abortFin)
     ELSE /\ pc' = IF tools THEN "toolBoundary" ELSE "textBoundary"
          /\ UNCHANGED <<writes, abortCtl, abortFin, stop>>

\* AskUserQuestion and the other tools that end the turn.
StepEndsTurn(reason) ==
  /\ inStep /\ ~failed
  /\ answered' = TRUE
  /\ appended(journal)
  /\ asking' = (asking \/ reason = "waiting-user")
  /\ finishLoop(reason, abortFin \/ aborted)
  /\ UNCHANGED <<queueVars, failed, batch, exposed>>
  /\ loopElse

\* An immediate input cancelled the step: nothing of it is committed, and the
\* loop sees a step without tool calls.
StepInterrupted ==
  /\ pc = "cutStep"
  /\ answered' = FALSE
  /\ UNCHANGED <<journalVars, queueVars, asking, failed, batch, exposed>>
  /\ loopElse
  /\ IF aborted /\ hasPendingMessages
     THEN \/ finishLoop("completed", TRUE)
          \/ finishLoop("aborted", abortFin)
     ELSE /\ pc' = "textBoundary"
          /\ UNCHANGED <<writes, abortCtl, abortFin, stop>>

\* The model request, a tool or the step's own record failed, or the stop
\* cancelled it.
StepThrows ==
  /\ inStep
  /\ failed' \in {failed, TRUE}
  /\ finishLoop(IF aborted THEN "aborted" ELSE "error", abortFin)
  /\ UNCHANGED <<journalVars, queueVars, asking, batch, exposed, answered>>
  /\ loopElse

Boundary ==
  /\ pc \in {"textBoundary", "toolBoundary"}
  /\ \/ Inject("loop")
     \/ ~hasMidTurnInput /\ aborted /\ leaveLoop("aborted", abortFin)
     \/ ~hasMidTurnInput /\ (~aborted \/ pc = "textBoundary")
        /\ leaveLoop("paused", abortFin \/ aborted)
     \/ ~hasMidTurnInput /\ ~aborted
        /\ goTo(IF pc = "toolBoundary" THEN "loop" ELSE "settle")

\* The state of the turn's subagents has been read: wait for the outstanding
\* ones, leave the plan to a later turn, or finish naturally.
Settle ==
  /\ pc = "settle"
  /\ \/ aborted /\ leaveLoop("aborted", abortFin)
     \/ ~aborted /\ goTo("loop")
     \/ leaveLoop("paused", abortFin)
     \/ leaveLoop("completed", abortFin)

goIdle(rest) ==
  /\ pc' = "idle" /\ abortFin' = FALSE /\ writes' = rest
  /\ pauseQueuedInputs(queue)
  /\ UNCHANGED <<queue, notes, abortCtl, batch, answered>>

\* recordTurnEnd has settled.  Closing the browser may have failed meanwhile;
\* a model chosen during the turn is measured before the session goes idle.
turnEnded(reason, rest, persisted) ==
  /\ stop' = reason
  /\ failed' = ~persisted
  /\ consent' = (consent /\ reason = "completed")
  /\ IF /\ hasRunnablePendingMessages /\ reason = "completed"
        /\ ~abortFin /\ persisted
     THEN startPendingTurn(urgent, autoDrain, rest)
     ELSE \/ goIdle(rest)
          \/ /\ pc' = "usage" /\ writes' = rest
             /\ UNCHANGED <<queue, urgent, autoDrain, notes, abortCtl, abortFin,
                            batch, answered>>
  /\ UNCHANGED <<hostVars, asking, maint, exposed, withdrawn>>

TurnEnds ==
  /\ pc = "end"
  /\ \E reason \in {stop, "error"} :
       /\ stop = "aborted" => reason = "aborted"
       /\ \/ writing("loop") /\ appended(journal)
             /\ turnEnded(reason, Tail(writes), ~failed)
          \/ writing("loop") /\ appendFailed(journal)
             /\ turnEnded(reason, Tail(writes), FALSE)
          \/ notWriting("loop") /\ UNCHANGED journalVars
             /\ turnEnded(reason, writes, FALSE)

UsageMeasured ==
  /\ pc = "usage"
  /\ goIdle(writes)
  /\ UNCHANGED <<journalVars, asking, failed, stop, exposed>>
  /\ loopElse

-----------------------------------------------------------------------------
(* The process dies or quits; the session is opened and resumed again.     *)
(* recoverInterruptedWork closes the turn that was cut: its root input      *)
(* stays in the history, queued inputs stay queued, nothing runs by itself. *)

Recovered(loaded) == [i \in Inputs |-> IF loaded[i] = "root" THEN "delivered" ELSE loaded[i]]

Restart ==
  /\ LET now == Recovered(disk)
     IN  /\ appended(now)
         /\ queue' = Chosen([i \in Inputs |-> i], {i \in Inputs : now[i] = "queued"})
         /\ exposed' = exposed \cup {i \in Inputs : now[i] = "delivered"}
  /\ writes' = <<>> /\ urgent' = {} /\ autoDrain' = FALSE /\ notes' = {}
  /\ failed' = FALSE /\ pc' = "idle" /\ abortCtl' = "none" /\ abortFin' = FALSE
  /\ stop' = "completed" /\ batch' = NoBatch /\ maint' = "none" /\ op' = NoOp
  /\ consent' = FALSE /\ answered' = FALSE
  /\ UNCHANGED <<unsent, asking, accepted, withdrawn>>

-----------------------------------------------------------------------------

LoopNext ==
  \/ TurnStarted \/ TurnStartFails \/ LoopTop \/ Injected \/ InjectFails
  \/ \E tools \in BOOLEAN : StepCommitted(tools)
  \/ \E reason \in {"completed", "waiting-user"} : StepEndsTurn(reason)
  \/ StepInterrupted \/ StepThrows \/ Boundary \/ Settle \/ TurnEnds \/ UsageMeasured

CommandWrites ==
  \/ MessageRecorded \/ MessageRejected
  \/ TakeBackRecorded \/ TakeBackConflict \/ TakeBackFailed

MaintNext == CompactSave \/ CompactFails \/ CompactWritten \/ RestoreEnds

HostNext ==
  \/ \E urg \in BOOLEAN, drops \in SUBSET Inputs : SendMessage(urg, drops)
  \/ \E id \in Inputs : Discard(id) \/ SendNow(id)
  \/ \E id \in Inputs, drops \in SUBSET Inputs : Edit(id, drops)
  \/ Abort
  \/ \E n \in Notes : Notify(n)
  \/ StartCompact \/ StartRestore

Next == LoopNext \/ CommandWrites \/ MaintNext \/ HostNext \/ Restart

(* The run loop, the journal and the maintenance operations are driven by   *)
(* promises that settle; the user and the host promise nothing.             *)
Fairness == WF_vars(LoopNext) /\ WF_vars(CommandWrites) /\ WF_vars(MaintNext)

Spec == Init /\ [][Next]_vars /\ Fairness
-----------------------------------------------------------------------------
(* Properties.                                                             *)

Holder(i) == {h \in {"queue", "batch", "op"} :
                \/ h = "queue" /\ i \in Range(queue)
                \/ h = "batch" /\ i \in Range(batch.ins)
                \/ h = "op" /\ op.kind \in {"discard", "edit"} /\ op.id = i}

(* An input that became part of the model's context is never handed over a *)
(* second time: it is in no queue, in no write in flight, and neither the   *)
(* journal in memory nor the one a restart would load counts it as pending  *)
(* (persistRequired: delivery must not degrade to memory, or a crash would   *)
(* execute it again).                                                      *)
NoRedelivery ==
  \A i \in exposed : Holder(i) = {} /\ i # batch.root
                     /\ journal[i] = "delivered" /\ disk[i] = "delivered"

(* An accepted input is never lost: until the model has it or the user took *)
(* it back, a restart at this very moment would find it on disk.  There is   *)
(* one exception, the root of a turn whose start was cut between its lines;   *)
(* an input the journal counts as queued is never among them.                *)
NothingLost ==
  \A i \in Inputs : journal[i] # "absent" /\ i \notin exposed \cup withdrawn
    => \/ disk[i] \in {"root", "queued", "delivered"}
       \/ disk[i] = "cut" /\ journal[i] \in {"root", "cut"}

(* Every input the journal counts as queued is held by exactly one of the   *)
(* queue, the write that delivers it and the command that takes it back,     *)
(* and the queue holds nothing twice.                                       *)
OneHolder ==
  /\ \A i \in Inputs : journal[i] = "queued" => Cardinality(Holder(i)) = 1
  /\ IsInjective(queue)

(* Inputs wait in the order they were accepted.  While persistence works the *)
(* only one that can come to stand out of order is an input put back at its   *)
(* old index because the command that took it was refused.                   *)
InOrder(q) == \A j, k \in DOMAIN q : j < k => q[j] < q[k]
PutBack(q) == op.kind \in {"discard", "edit"} /\ op.id \in Range(q)
OrderKept ==
  [][InOrder(queue) /\ ~failed' /\ ~PutBack(queue') => InOrder(queue')]_vars

(* A waiting input is handed to a new turn only if the user sent something   *)
(* since the last stop, failed turn or restart: a paused queue is not        *)
(* consumed by recovery, compaction, rollback or a notification.             *)
DrainNeedsConsent ==
  [][/\ pc # "start" /\ pc' = "start" /\ Range(batch'.ins) \cap Range(queue) # {}
       => consent']_vars

(* Stop always ends the turn or the compaction it was pressed in.            *)
StopEndsWork == aborted ~> ~aborted

(* A running turn does not go on forever past an input sent for immediate     *)
(* delivery: the input leaves the queue or loses its urgency, or the turn is   *)
(* over (a refused take-back may put an urgent input back into an idle queue). *)
Pressing(i) == isRunning /\ i \in urgent \cap Range(queue)
UrgentHandled == \A i \in Inputs : Pressing(i) ~> ~Pressing(i)

(* A turn ends as completed by itself only after a committed answer: an       *)
(* immediate input cancels the current step, not the turn.                   *)
CompletedIsAnswered ==
  [][pc = "settle" /\ pc' = "end" /\ stop' = "completed" => answered]_vars

(* What the queue holds, the journal knows as queued: only then can its       *)
(* delivery be confirmed.                                                    *)
QueuedIsPending == \A k \in DOMAIN queue : journal[queue[k]] = "queued"
=============================================================================
