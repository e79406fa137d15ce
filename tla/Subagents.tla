------------------------------- MODULE Subagents -------------------------------
(***************************************************************************)
(* The subagents of one session: SubagentService (apps/desktop/src/main/   *)
(* subagent-service.ts), which starts, continues and ends their            *)
(* activations and keeps one manifest for each subagent, and the part of    *)
(* AgentSession.runLoop that hands their results to the model and waits for *)
(* them.  The interleaving is that of the awaits: the calls of the model's  *)
(* tool, the activations, the loop and Stop run between each other.         *)
(***************************************************************************)
EXTENDS Integers, Sequences, FiniteSets, SequencesExt

CONSTANTS
  MaxSubs,     \* bound: subagents that are ever launched
  MaxActs,     \* bound: activations in all the manifests
  MaxRunning,  \* MAX_CONCURRENT_SUBAGENTS_PER_PARENT, 8 in the code
  Prefetch,    \* results loaded ahead of the model, 8 in the code
  MaxTurns,    \* bound: turns of the parent
  MaxTroubles  \* bound: presses of Stop, restarts and failing reads and writes

ASSUME SubagentsAssumption ==
  /\ MaxSubs \in Nat \ {0} /\ MaxActs \in Nat \ {0}
  /\ MaxRunning \in Nat \ {0} /\ Prefetch \in Nat \ {0}
  /\ MaxTurns \in Nat /\ MaxTroubles \in Nat

Subs == 1..MaxSubs
Acts == Subs \X (1..MaxActs)

VARIABLES
  disk,       \* the manifests: for each subagent its activations [turn, st, to]
  count,      \* activeCounts of the session
  active,     \* the activation of each subagent that is in memory
  tool,       \* the call of the Subagent tool in progress
  pc,         \* where runLoop is
  last,       \* a step has called tools, or has ended without: none, tools, text
  turn,       \* the number of the turn
  aborted,    \* the turn's AbortSignal
  reason,     \* why the last turn ended
  notes,      \* taskNotifications that are results
  batch,      \* those taken out to be recorded and confirmed
  snap,       \* the manifest markSettlementDelivered has read
  iter,       \* pendingSubagentResults: [left, cur]
  delivered,  \* deliveredSubagentActivations
  outs,       \* the last read turn state had outstanding activations
  woken,      \* waitForRunLoopWake is resolved
  stopping,   \* Stop has reached the subagents and not yet the session
  halted,     \* Stop was pressed since the last turn was started
  told,       \* history: the results in the parent's transcript
  crossed,    \* history: results announced while or after they were told
  orphans,    \* history: activations whose end was not saved, or was undone
  troubles    \* the troubles so far

service == <<disk, count, active, tool, orphans>>
loop == <<pc, last, turn, aborted, reason, notes, batch, snap, iter, delivered,
          outs, woken>>
vars == <<service, loop, stopping, halted, told, crossed, troubles>>

(***************************************************************************)
(* Manifests.                                                              *)
(***************************************************************************)
Activation ==
  [turn : 1..MaxTurns, st : {"open", "pending", "delivered"}, to : 0..MaxTurns]
Known == {s \in Subs : disk[s] # <<>>}
Saved == {a \in Acts : a[2] <= Len(disk[a[1]])}
Status(a) == disk[a[1]][a[2]].st
OwnActs == {a \in Saved : disk[a[1]][a[2]].turn = turn}

(* hasOutstandingSubagentActivations over subagentTurnState: a result this  *)
(* turn has already taken over counts as delivered.                         *)
\* Variant: an activation that has ended counts as delivered.
BadOutstanding == \E a \in OwnActs : Status(a) = "open"
Outstanding == \E a \in OwnActs :
  Status(a) = "open" \/ (Status(a) = "pending" /\ a \notin delivered)

(* createSubagentActivation, completeSubagentManifest and                   *)
(* markSubagentSettlementDelivered.  The schema refuses a manifest with a   *)
(* delivered activation that has no outcome, so that nothing is written.    *)
WithNew(m) == Append(m, [turn |-> turn, st |-> "open", to |-> 0])
Completed(m, n) == [m EXCEPT ![n].st = "pending"]
Marked(m, n) ==
  IF m[n].st = "open" \/ m[n].to = turn THEN m
  ELSE [m EXCEPT ![n].st = "delivered", ![n].to = turn]

(* Stop, a restart, or a call of the storage that fails.                    *)
Trouble == troubles < MaxTroubles /\ troubles' = troubles + 1

(***************************************************************************)
(* Slots: reserve() and release().                                         *)
(***************************************************************************)
MayReserve == count < MaxRunning
Released == count' = IF count <= 1 THEN 0 ELSE count - 1

(***************************************************************************)
(* The tool.  It is no read-only tool, so one call runs at a time, and the *)
(* step does not end before it.                                            *)
(***************************************************************************)
NoTool == [op |-> "none", sub |-> 1, at |-> "none", cancelled |-> FALSE,
           late |-> FALSE, seen |-> <<>>]
NoActive == [n |-> 0, at |-> "none", cancel |-> FALSE, suppress |-> FALSE,
             late |-> FALSE, seen |-> <<>>]
Preparing == tool.at \in {"begin", "scratch", "undo"}
MayCall == pc = "step" /\ ~aborted /\ tool = NoTool
Call(op, s, at) ==
  tool' = [NoTool EXCEPT !.op = op, !.sub = s, !.at = at, !.late = halted]

(* A slot is taken and the preparation registered in one section.           *)
CanPrepare == MayReserve /\ Cardinality(Saved) < MaxActs
Prepares(op, s) ==
  /\ CanPrepare
  /\ count' = count + 1
  /\ Call(op, s, "begin")

(* launch(): the new id is that of no other subagent.                       *)
CallLaunch ==
  /\ MayCall
  /\ \E s \in Subs \ Known :
       /\ \A r \in Subs \ Known : s <= r
       /\ Prepares("launch", s)
  /\ last' = "tools"
  /\ UNCHANGED <<disk, active, orphans, pc, turn, aborted, reason, notes, batch,
       snap, iter, delivered, outs, woken, stopping, halted, told, crossed, troubles>>

(* send() to a subagent that is not active: continue().                     *)
CallContinue(s) ==
  /\ MayCall
  /\ s \in Known
  /\ active[s] = NoActive
  /\ Prepares("continue", s)
  /\ last' = "tools"
  /\ UNCHANGED <<disk, active, orphans, pc, turn, aborted, reason, notes, batch,
       snap, iter, delivered, outs, woken, stopping, halted, told, crossed, troubles>>

(* send() to one that does not take the message, because its last turn is    *)
(* over or about to be, waits until it is released.  One that works takes    *)
(* the message itself; one that has been told to stop refuses it             *)
(* (CallAnswered).                                                          *)
CallSend(s) ==
  /\ MayCall
  /\ active[s].at # "none" /\ ~active[s].cancel
  /\ Call("send", s, "done")
  /\ last' = "tools"
  /\ UNCHANGED <<disk, count, active, orphans, pc, turn, aborted, reason, notes,
       batch, snap, iter, delivered, outs, woken, stopping, halted, told, crossed,
       troubles>>

(* The activation is gone: send() goes on with continue(), whatever has     *)
(* happened meanwhile.                                                      *)
SendGoesOn ==
  /\ tool.op = "send" /\ active[tool.sub] = NoActive
  /\ IF CanPrepare
     THEN count' = count + 1 /\ tool' = [tool EXCEPT !.op = "continue", !.at = "begin"]
     ELSE tool' = NoTool /\ UNCHANGED count
  /\ UNCHANGED <<disk, active, orphans, loop, stopping, halted, told, crossed, troubles>>

(* stop() of one subagent.                                                  *)
CallStop(s) ==
  /\ MayCall
  /\ active[s] # NoActive
  /\ active' = [active EXCEPT ![s].cancel = @ \/ active[s].at = "run"]
  /\ Call("stop", s, "done")
  /\ last' = "tools"
  /\ UNCHANGED <<disk, count, orphans, pc, turn, aborted, reason, notes, batch,
       snap, iter, delivered, outs, woken, stopping, halted, told, crossed, troubles>>

StopDone ==
  /\ tool.op = "stop" /\ active[tool.sub] = NoActive
  /\ tool' = NoTool
  /\ UNCHANGED <<disk, count, active, orphans, loop, stopping, halted, told, crossed,
       troubles>>

(* A call that is answered at once: list, a refusal, a message to a running *)
(* subagent, another tool.                                                  *)
CallAnswered ==
  /\ MayCall
  /\ last' = "tools"
  /\ UNCHANGED <<service, pc, turn, aborted, reason, notes, batch, snap, iter,
       delivered, outs, woken, stopping, halted, told, crossed, troubles>>

(* launch() has created the transcript, continue() has read the manifest    *)
(* and the last activation has an outcome: the manifest with the new        *)
(* activation is written.  Nobody else writes it meanwhile, because the     *)
(* subagent is not active and the loop waits for the call.  In every other  *)
(* case the catch block is next.                                            *)
ManifestWritten ==
  LET s == tool.sub  m == disk[tool.sub]
      open == m # <<>> /\ Last(m).st = "open"
  IN
  /\ tool.at = "begin"
  /\ \/ /\ ~tool.cancelled /\ ~open
        /\ disk' = [disk EXCEPT ![s] = WithNew(m)]
        /\ tool' = [tool EXCEPT !.at = "scratch", !.seen = m]
        /\ UNCHANGED troubles
     \/ /\ IF tool.cancelled \/ open THEN UNCHANGED troubles ELSE Trouble
        /\ tool' = [tool EXCEPT !.at = "undo", !.seen = m]
        /\ UNCHANGED disk
  /\ UNCHANGED <<count, active, orphans, loop, stopping, halted, told, crossed>>

(* The scratch directory is there: startActivation().  The call is answered *)
(* when the state is published, which changes nothing here.                 *)
Started ==
  /\ tool.at = "scratch"
  /\ \/ /\ ~tool.cancelled
        /\ active' = [active EXCEPT ![tool.sub] =
             [NoActive EXCEPT !.n = Len(disk[tool.sub]), !.at = "run", !.late = tool.late]]
        /\ tool' = NoTool
        /\ UNCHANGED troubles
     \/ /\ IF tool.cancelled THEN UNCHANGED troubles ELSE Trouble
        /\ tool' = [tool EXCEPT !.at = "undo"]
        /\ UNCHANGED active
  /\ UNCHANGED <<disk, count, orphans, loop, stopping, halted, told, crossed>>

(* The catch blocks: the new subagent is removed, or the manifest as it was *)
(* read is written back; if that fails it stays.                            *)
\* Variant: the slot of an activation that was not started is not given back.
BadUndone ==
  /\ tool.at = "undo"
  /\ disk' = [disk EXCEPT ![tool.sub] = tool.seen]
  /\ tool' = NoTool
  /\ UNCHANGED <<count, active, orphans, loop, stopping, halted, told, crossed, troubles>>
\* Variant: what was written before the failure is left on disk.
BadUndoneLeft ==
  /\ tool.at = "undo"
  /\ Released
  /\ tool' = NoTool
  /\ UNCHANGED <<disk, active, orphans, loop, stopping, halted, told, crossed, troubles>>
Undone ==
  /\ tool.at = "undo"
  /\ \/ disk' = [disk EXCEPT ![tool.sub] = tool.seen] /\ UNCHANGED <<orphans, troubles>>
     \/ /\ disk[tool.sub] # tool.seen
        /\ Trouble
        /\ orphans' = orphans \cup {<<tool.sub, Len(disk[tool.sub])>>}
        /\ UNCHANGED disk
  /\ Released
  /\ tool' = NoTool
  /\ UNCHANGED <<active, loop, stopping, halted, told, crossed>>

(***************************************************************************)
(* An activation: runActivation() and finishActivation().                  *)
(***************************************************************************)
InMemory == <<disk, count, tool, orphans>>

(* The child's turn is over, in whatever way, and finishActivation() has    *)
(* read the manifest ...                                                    *)
ChildEnds(s) ==
  /\ active[s].at = "run"
  /\ active' = [active EXCEPT ![s] = [@ EXCEPT !.at = "read", !.seen = disk[s]]]
  /\ UNCHANGED <<InMemory, loop, stopping, halted, told, crossed, troubles>>

(* ... and writes it with the outcome; if that fails there is no result.    *)
ChildSaves(s) ==
  LET a == active[s] IN
  /\ a.at = "read"
  /\ \/ /\ disk' = [disk EXCEPT ![s] = Completed(a.seen, a.n)]
        /\ active' = [active EXCEPT ![s] = [@ EXCEPT !.at = "saved", !.seen = <<>>]]
        /\ UNCHANGED <<orphans, troubles>>
     \/ /\ Trouble
        /\ active' = [active EXCEPT ![s] = [@ EXCEPT !.at = "unsaved", !.seen = <<>>]]
        /\ orphans' = orphans \cup {<<s, a.n>>}
        /\ UNCHANGED disk
  /\ UNCHANGED <<count, tool, loop, stopping, halted, told, crossed>>

(* The timeline is flushed and the child's session disposed: the slot is    *)
(* free, the activation is still there.                                     *)
ChildReleases(s) ==
  /\ active[s].at \in {"saved", "unsaved"}
  /\ active' = [active EXCEPT ![s].at = IF @ = "saved" THEN "settle" ELSE "nothing"]
  /\ Released
  /\ UNCHANGED <<disk, tool, orphans, loop, stopping, halted, told, crossed, troubles>>

(* handleSubagentSettlement().                                              *)
Listens == pc \notin {"idle", "end"} /\ ~aborted
\* Variant: the results this turn has already taken over are not looked at.
BadAccepts(a) == Listens /\ a \notin Range(notes)
Accepts(a) == Listens /\ a \notin delivered /\ a \notin Range(notes)
Announce(a) ==
  IF Accepts(a)
  THEN /\ notes' = Append(notes, a)
       /\ woken' = (woken \/ pc = "wait")
  ELSE UNCHANGED <<notes, woken>>

(* The state is published: the result is announced to the session that is   *)
(* in memory, unless Stop has come in between.                              *)
ChildSettles(s) ==
  LET a == <<s, active[s].n>>  announced == active[s].at = "settle" /\ ~active[s].suppress
  IN
  /\ active[s].at \in {"settle", "nothing"}
  /\ IF announced THEN Announce(a) ELSE UNCHANGED <<notes, woken>>
  /\ active' = [active EXCEPT ![s] = NoActive]
  /\ crossed' = IF announced /\ a \notin delivered /\ a \in told \cup Range(batch)
                THEN crossed \cup {a} ELSE crossed
  /\ UNCHANGED <<disk, count, tool, orphans, pc, last, turn, aborted, reason, batch,
       snap, iter, delivered, outs, stopping, halted, told, troubles>>

(***************************************************************************)
(* The turn: runLoop().                                                    *)
(***************************************************************************)
NoIter == [left |-> {}, cur |-> {}]
Pending(s) == {a \in Saved : a[1] = s /\ Status(a) = "pending"}

(* The user's turn may load what is pending on disk; one that a command     *)
(* started may not.                                                         *)
Start(user) ==
  /\ pc = "idle" /\ turn < MaxTurns
  /\ pc' = "load" /\ last' = "none" /\ turn' = turn + 1
  /\ halted' = FALSE
  /\ iter' = [NoIter EXCEPT !.left = IF user THEN Known ELSE {}]
  /\ UNCHANGED <<service, aborted, reason, notes, batch, snap, delivered, outs, woken,
       stopping, told, crossed, troubles>>

Ends(why) == pc' = "end" /\ reason' = why /\ woken' = FALSE

(* loadPendingSubagentResults(): the next manifest is read, or the oldest    *)
(* pending result of the one that was read is queued.                       *)
MayLoad == pc = "load" /\ ~aborted /\ Len(notes) < Prefetch
LoadManifest(s) ==
  /\ MayLoad /\ iter.cur = {} /\ s \in iter.left
  /\ iter' = [left |-> iter.left \ {s}, cur |-> Pending(s)]
  /\ UNCHANGED <<service, pc, last, turn, aborted, reason, notes, batch, snap,
       delivered, outs, woken, stopping, halted, told, crossed, troubles>>
LoadResult ==
  /\ MayLoad
  /\ \E a \in iter.cur :
       /\ \A b \in iter.cur : a[2] <= b[2]
       /\ Announce(a)
       /\ iter' = [iter EXCEPT !.cur = @ \ {a}]
  /\ UNCHANGED <<service, pc, last, turn, aborted, reason, batch, snap, delivered,
       outs, stopping, halted, told, crossed, troubles>>
Loaded == Len(notes) >= Prefetch \/ iter = NoIter

(* injectQueuedMidTurn(): as many results as fit are taken.                 *)
Drain ==
  /\ pc = "load" /\ ~aborted /\ Loaded /\ notes # <<>>
  /\ \E k \in 1..Len(notes) :
       /\ batch' = SubSeq(notes, 1, k)
       /\ notes' = SubSeq(notes, k + 1, Len(notes))
  /\ pc' = "record"
  /\ UNCHANGED <<service, last, turn, aborted, reason, snap, iter, delivered, outs,
       woken, stopping, halted, told, crossed, troubles>>

(* The turn's activations are looked up and the model is asked.             *)
Asks == pc' = "step" /\ last' = "none" /\ outs' = Outstanding

(* Nothing to inject: after an answer without tools the question is whether *)
(* the turn is over, else the next request follows.                         *)
Proceed ==
  /\ pc = "load" /\ ~aborted /\ Loaded /\ notes = <<>>
  /\ IF last = "text" THEN pc' = "state" /\ UNCHANGED <<last, outs>> ELSE Asks
  /\ UNCHANGED <<service, turn, aborted, reason, notes, batch, snap, iter, delivered,
       woken, stopping, halted, told, crossed, troubles>>

(* recordStep of the batch: if it fails the batch is put back.              *)
\* Variant: the batch is confirmed although it could not be recorded.
BadUnrecorded == pc' = "mark" /\ UNCHANGED <<notes, batch, reason, woken>>
Unrecorded == notes' = batch \o notes /\ batch' = <<>> /\ Ends("other")
Recorded ==
  /\ pc = "record"
  /\ \/ /\ told' = told \cup Range(batch)
        /\ delivered' = delivered \cup Range(batch)
        /\ pc' = "mark"
        /\ UNCHANGED <<notes, batch, reason, woken, troubles>>
     \/ Trouble /\ Unrecorded /\ UNCHANGED <<told, delivered>>
  /\ UNCHANGED <<service, last, turn, aborted, snap, iter, outs, stopping, halted,
       crossed>>

(* markSettlementDelivered() reads the manifest of the first of the batch   *)
(* and writes it with the mark; an error leaves it as it is.                *)
MarkReads ==
  /\ pc = "mark" /\ batch # <<>> /\ snap = <<>>
  /\ snap' = disk[Head(batch)[1]]
  /\ UNCHANGED <<service, pc, last, turn, aborted, reason, notes, batch, iter,
       delivered, outs, woken, stopping, halted, told, crossed, troubles>>
MarkWrites ==
  LET a == Head(batch)  s == Head(batch)[1]  next == Marked(snap, Head(batch)[2]) IN
  /\ pc = "mark" /\ batch # <<>> /\ snap # <<>>
  /\ \/ /\ disk' = [disk EXCEPT ![s] = IF next = snap THEN @ ELSE next]
        /\ UNCHANGED troubles
     \/ Trouble /\ UNCHANGED disk
  /\ orphans' = orphans \cup {b \in Saved : b[1] = s /\ Status(b) # "open"
                                /\ disk'[s][b[2]].st = "open"}
  /\ batch' = Tail(batch) /\ snap' = <<>>
  /\ UNCHANGED <<count, active, tool, pc, last, turn, aborted, reason, notes, iter,
       delivered, outs, woken, stopping, halted, told, crossed>>

(* All are confirmed: what is injected before a request goes into it, what  *)
(* is injected after a step asks for another one.                           *)
Confirmed ==
  /\ pc = "mark" /\ batch = <<>>
  /\ IF last = "none" THEN Asks
     ELSE pc' = "load" /\ last' = "none" /\ UNCHANGED outs
  /\ UNCHANGED <<service, turn, aborted, reason, notes, batch, snap, iter, delivered,
       woken, stopping, halted, told, crossed, troubles>>

(* After an answer without tools the turn is over, or waits, unless          *)
(* something has arrived while the state was read.                           *)
\* Variant: what has arrived before the loop waits is not looked at.
BadMustNotWait == aborted
MustNotWait == notes # <<>> \/ aborted
StateRead ==
  /\ pc = "state"
  /\ IF Outstanding
     THEN pc' = "wait" /\ woken' = MustNotWait /\ UNCHANGED reason
     ELSE Ends("completed")
  /\ UNCHANGED <<service, last, turn, aborted, notes, batch, snap, iter, delivered,
       outs, stopping, halted, told, crossed, troubles>>

Wakes ==
  /\ pc = "wait" /\ woken
  /\ IF aborted THEN Ends("other") /\ UNCHANGED last
     ELSE pc' = "load" /\ last' = "none" /\ woken' = FALSE /\ UNCHANGED reason
  /\ UNCHANGED <<service, turn, aborted, notes, batch, snap, iter, delivered, outs,
       stopping, halted, told, crossed, troubles>>

(* ToolExecutionBatch.run() has waited for the calls it started.            *)
\* Variant: the step ends while a call runs.
BadStepOver == pc = "step"
StepOver == pc = "step" /\ tool = NoTool

(* runOneStep(): an answer with or without tools; only the latter makes the *)
(* loop ask whether the turn is over.                                       *)
StepEnds ==
  /\ StepOver /\ ~aborted
  /\ pc' = "load" /\ last' = IF last = "none" THEN "text" ELSE "none"
  /\ outs' = FALSE
  /\ UNCHANGED <<service, turn, aborted, reason, notes, batch, snap, iter, delivered,
       woken, stopping, halted, told, crossed, troubles>>

(* The turn ends at once: a question to the user, a pause, or an error in a   *)
(* step, in what the loop loads before it or in the state it reads.         *)
LoopBreaks ==
  /\ \/ StepOver /\ ~aborted /\ UNCHANGED troubles
     \/ pc \in {"load", "state"} /\ Trouble
  /\ Ends("other")
  /\ outs' = FALSE
  /\ UNCHANGED <<service, last, turn, aborted, notes, batch, snap, iter, delivered,
       stopping, halted, told, crossed>>

(* Stop is noticed.  A finished answer without tools still counts if inputs *)
(* wait and nothing was outstanding when the step began.                    *)
AbortNoticed ==
  /\ aborted
  /\ pc = "load" \/ StepOver
  /\ \/ Ends("other")
     \/ (pc = "step" /\ last = "none" /\ ~outs /\ Ends("completed"))
  /\ outs' = FALSE
  /\ UNCHANGED <<service, last, turn, aborted, notes, batch, snap, iter, delivered,
       stopping, halted, told, crossed, troubles>>

(* The turn's end is recorded: releaseSubagentResults().                    *)
TurnEnds ==
  /\ pc = "end"
  /\ pc' = "idle" /\ last' = "none" /\ reason' = "none"
  /\ aborted' = FALSE
  /\ notes' = <<>> /\ iter' = NoIter /\ delivered' = {}
  /\ UNCHANGED <<service, turn, batch, snap, outs, woken, stopping, halted,
       told, crossed, troubles>>

(***************************************************************************)
(* Stop and restart.                                                       *)
(***************************************************************************)
(* beginParentAbort(): preparations and running activations are told to     *)
(* stop, and no result is announced.                                        *)
\* Variant: a launch in preparation is not told.
BadPreparationCancelled == [tool EXCEPT !.late = @ \/ tool.op = "send"]
PreparationCancelled ==
  [tool EXCEPT !.cancelled = @ \/ Preparing, !.late = @ \/ tool.op = "send"]
Stop ==
  /\ Trouble
  /\ ~stopping
  /\ pc # "idle" \/ \E s \in Subs : active[s] # NoActive
  /\ tool' = PreparationCancelled
  /\ active' = [s \in Subs |->
       IF active[s] = NoActive THEN NoActive
       ELSE [active[s] EXCEPT !.suppress = TRUE, !.cancel = @ \/ active[s].at = "run"]]
  /\ stopping' = TRUE /\ halted' = TRUE
  /\ UNCHANGED <<disk, count, orphans, loop, told, crossed>>

(* AgentSession.abort(), once the input being routed is delivered.          *)
SessionAborts ==
  /\ stopping /\ stopping' = FALSE
  /\ aborted' = (aborted \/ pc \notin {"idle", "end"})
  /\ notes' = <<>>
  /\ woken' = (woken \/ pc = "wait")
  /\ UNCHANGED <<service, pc, last, turn, reason, batch, snap, iter, delivered, outs,
       halted, told, crossed, troubles>>

(* The application dies and initialize() runs: the last activation of a     *)
(* manifest, if it has no outcome, is over.                                 *)
Restart ==
  /\ Trouble
  /\ disk' = [s \in Subs |-> IF disk[s] # <<>> /\ Last(disk[s]).st = "open"
                             THEN Completed(disk[s], Len(disk[s])) ELSE disk[s]]
  /\ count' = 0 /\ tool' = NoTool /\ active' = [s \in Subs |-> NoActive]
  /\ orphans' = {}
  /\ pc' = "idle" /\ last' = "none" /\ reason' = "none" /\ aborted' = FALSE
  /\ notes' = <<>> /\ batch' = <<>> /\ snap' = <<>> /\ iter' = NoIter
  /\ delivered' = {} /\ outs' = FALSE /\ woken' = FALSE
  /\ stopping' = FALSE /\ halted' = FALSE
  /\ UNCHANGED <<turn, told, crossed>>

Init ==
  /\ disk = [s \in Subs |-> <<>>]
  /\ count = 0 /\ tool = NoTool /\ active = [s \in Subs |-> NoActive]
  /\ pc = "idle" /\ last = "none" /\ turn = 0 /\ aborted = FALSE /\ reason = "none"
  /\ notes = <<>> /\ batch = <<>> /\ snap = <<>> /\ iter = NoIter
  /\ delivered = {} /\ outs = FALSE /\ woken = FALSE
  /\ stopping = FALSE /\ halted = FALSE
  /\ told = {} /\ crossed = {} /\ orphans = {}
  /\ troubles = 0

ToolStep ==
  \/ CallLaunch \/ CallAnswered \/ SendGoesOn \/ StopDone
  \/ \E s \in Subs : CallContinue(s) \/ CallSend(s) \/ CallStop(s)
  \/ ManifestWritten \/ Started \/ Undone
ChildStep(s) ==
  ChildEnds(s) \/ ChildSaves(s) \/ ChildReleases(s) \/ ChildSettles(s)
LoopStep ==
  \/ \E s \in Subs : LoadManifest(s)
  \/ LoadResult \/ Drain \/ Proceed \/ Recorded \/ MarkReads \/ MarkWrites \/ Confirmed
  \/ StateRead \/ Wakes \/ StepEnds \/ LoopBreaks \/ AbortNoticed
  \/ TurnEnds

Next ==
  \/ ToolStep \/ LoopStep \/ Stop \/ SessionAborts \/ Restart
  \/ \E s \in Subs : ChildStep(s)
  \/ \E user \in BOOLEAN : Start(user)

(* What is due goes on: a child ends its turn sooner or later and is wound   *)
(* up, a loop that is woken continues, Stop reaches the session.             *)
Due == Wakes \/ SessionAborts \/ \E s \in Subs : ChildStep(s)
Fairness == WF_vars(Due)

Spec == Init /\ [][Next]_vars /\ Fairness

(***************************************************************************)
(* Properties.                                                             *)
(***************************************************************************)
TypeOK ==
  /\ \A s \in Subs : disk[s] \in Seq(Activation) /\ Len(disk[s]) <= MaxActs
  /\ count \in 0..MaxRunning
  /\ \A s \in Subs :
       /\ active[s].at \in {"none", "run", "read", "saved", "unsaved",
                            "settle", "nothing"}
       /\ active[s].n \in 0..Len(disk[s])
       /\ active[s] = NoActive <=> active[s].at = "none"
  /\ tool.op \in {"none", "launch", "send", "continue", "stop"} /\ tool.sub \in Subs
  /\ tool.at \in {"none", "begin", "scratch", "undo", "done"}
  /\ pc \in {"idle", "load", "record", "mark", "state", "step", "wait", "end"}
  /\ last \in {"none", "tools", "text"} /\ turn \in 0..MaxTurns
  /\ reason \in {"none", "completed", "other"}
  /\ Range(notes) \cup Range(batch) \cup iter.cur \cup delivered \cup told
       \cup crossed \cup orphans \subseteq Acts
  /\ iter.left \subseteq Subs
  /\ {aborted, outs, woken, stopping, halted} \subseteq BOOLEAN
  /\ tool # NoTool => pc = "step"
  /\ batch # <<>> => pc \in {"record", "mark"}

HoldsSlot(s) == active[s].at \in {"run", "read", "saved", "unsaved"}
Driven(a) ==
  \/ (active[a[1]].n = a[2] /\ active[a[1]].at \in {"run", "read"})
  \/ tool.sub = a[1] /\ tool.at \in {"scratch", "undo"}

(* subagent-service.ts:388, 462, 775: the slots taken are those of the      *)
(* activations that run and of the one in preparation.  None is lost or     *)
(* given back twice, on whichever of the failing paths a start ends.        *)
SlotsCounted ==
  count = Cardinality({s \in Subs : HoldsSlot(s)}) + (IF Preparing THEN 1 ELSE 0)

(* subagent-service.ts:438-451, 504-519: an activation that a manifest shows *)
(* as running is its last one and really runs or is being started, unless    *)
(* the write that was to say otherwise failed or was overwritten.  A turn    *)
(* waits for it until then (turn-context.ts:28).                             *)
OpenIsRunning ==
  \A a \in Saved : Status(a) = "open" =>
    a[2] = Len(disk[a[1]]) /\ (Driven(a) \/ a \in orphans)

(* session.ts:1636-1656: a result is marked as delivered only when it is in  *)
(* the parent's transcript, whatever fails, is stopped or dies in between;   *)
(* so no result is lost.                                                     *)
DeliveredIsTold == \A a \in Saved : Status(a) = "delivered" => a \in told

(* session.ts:1108-1110: a result reaches the model a second time only if    *)
(* the mark of the first time is not on disk, or if its announcement crossed *)
(* its delivery from disk.                                                   *)
ToldOnce == [][\A a \in Range(batch) :
  pc = "record" /\ pc' = "mark" /\ a \in told =>
    Status(a) # "delivered" \/ a \in crossed]_vars

(* session.ts:1910: a turn is completed only when the model has been told    *)
(* the end of every activation the turn has started.                         *)
TurnWaits == pc = "end" /\ reason = "completed" => OwnActs \subseteq told

(* subagent-service.ts:321: from Stop to the next turn every subagent that   *)
(* runs has been told to stop, also one whose start was under way.  The late *)
(* ones are those of a send that was waiting for the activation before, and  *)
(* of a call the model made before Stop reached the session.                 *)
StopReaches ==
  halted => \A s \in Subs : active[s].at = "run" => active[s].cancel \/ active[s].late

(* session.ts:1570: a turn that waits for its subagents does not sleep       *)
(* through the end of the last of them, unless that end is not on disk.      *)
WaitEnds ==
  pc = "wait" ~> (pc # "wait" \/ \E a \in OwnActs \cap orphans : Status(a) = "open")
=============================================================================
