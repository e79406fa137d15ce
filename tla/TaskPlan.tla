------------------------------ MODULE TaskPlan ------------------------------
(***************************************************************************)
(* TaskPlanController (packages/core/src/tasks/controller.ts) and the step *)
(* transaction AgentSession runs it in (agent/session.ts): one plan of     *)
(* milestones which the model changes by tools, the record of each change  *)
(* in the transcript, the right to execute the plan, which belongs to one  *)
(* turn, and what stop, failed writes, death of the process and rollback   *)
(* make of all that.                                                       *)
(*                                                                         *)
(* While a record is written nothing else looks at the plan, so the write  *)
(* and the code that follows it are one action with three outcomes.        *)
(***************************************************************************)
EXTENDS Integers, FiniteSets, Sequences, SequencesExt

CONSTANTS Outcomes,   \* descriptions of milestones
          Evidences,  \* evidence of a completion
          MinDraft,   \* items of a new plan (the code: 3 to MaxItems)
          MinItems,   \* items of any plan, at least (2)
          MaxItems,   \* items of any plan, at most (7)
          MaxChanges, \* bound: item changes in one call of update
          MaxVersion, \* bound: state.version
          MaxPlans    \* bound: plans created

ASSUME ItemsAssumption ==
  /\ MinDraft \in Nat /\ MinItems \in Nat /\ MaxItems \in Nat
  /\ 1 < MinItems /\ MinItems <= MinDraft /\ MinDraft <= MaxItems
ASSUME BoundsAssumption ==
  MaxChanges \in Nat /\ MaxVersion \in Nat /\ MaxPlans \in Nat
ASSUME EvidenceAssumption == "none" \notin Evidences

VARIABLES
  state,    \* TaskPlanController.state
  snap,     \* stepSnapshot
  dirty,    \* stepDirty
  boundary, \* stepBoundary
  engaged,  \* planExecutionEngaged of runLoop
  pc,       \* where the turn is
  aborted,  \* the turn's abort signal
  last,     \* what the last committed step was
  claimed,  \* tools the step has used: claimStepTool
  durable,  \* durableTaskState of the step
  resumed,  \* taskPlanEngagement of the step: a plan or NoId
  disk,     \* what SessionStore.open would load
  failed,   \* persistenceFailed, and what became of the failed record
  shown,    \* the plan the task-plan-updated events have shown
  plans,    \* bound: plans created so far
  cut       \* history: plan whose execution was cut short and not resumed

stepVars == <<snap, dirty, boundary, claimed, durable, resumed>>
vars == <<state, stepVars, engaged, pc, aborted, last, disk, failed, shown,
          plans, cut>>

NoId == 0
NoPlan == [id |-> NoId, items |-> <<>>]
EmptyState == [version |-> 0, plan |-> NoPlan, reason |-> "none"]

ResumeRequired(s) == s.reason # "none"
HasPlan(s) == s.plan # NoPlan

-----------------------------------------------------------------------------
(* The items of a plan.  An edit that cannot be made is Refused.            *)

Refused == <<>>

Ids(items) == {items[i].id : i \in DOMAIN items}
IndexOf(items, id) == SelectInSeq(items, LAMBDA it : it.id = id)
Verification(items) ==
  SelectInSeq(items, LAMBDA it : it.kind = "verification")

\* Variant: the evidence of a new item is missing.
BadNewItem(id, kind, outcome, status) ==
  [id |-> id, kind |-> kind, outcome |-> outcome, status |-> status]
NewItem(id, kind, outcome, status) ==
  [id |-> id, kind |-> kind, outcome |-> outcome, status |-> status,
   evidence |-> "none"]

(* taskItemsSchema and taskItemSchema.                                      *)
ItemsValid(items) ==
  /\ Len(items) \in MinItems..MaxItems
  /\ Cardinality(Ids(items)) = Len(items)
  /\ \A i \in DOMAIN items :
       /\ (items[i].kind = "verification") <=> (i = Len(items))
       /\ (items[i].status = "completed") <=> (items[i].evidence # "none")
  /\ \A i, j \in DOMAIN items :
       items[i].status = "in_progress" /\ items[j].status = "in_progress"
         => i = j

(* insertionIndex: 0 stands for its errors.                                 *)
InsertionIndex(items, after) ==
  LET reference == IndexOf(items, after)
  IN  IF after = NoId THEN Verification(items)
      ELSE IF reference = 0 \/ reference = Verification(items) THEN 0
      ELSE reference + 1

AddItem(items, outcome, after) ==
  LET at == InsertionIndex(items, after)
      next == 1 + CHOOSE n \in Ids(items) : \A m \in Ids(items) : m <= n
  IN  IF Len(items) >= MaxItems \/ at = 0 THEN Refused
      ELSE InsertAt(items, at, NewItem(next, "work", outcome, "pending"))

MoveItem(items, i, after) ==
  LET rest == RemoveAt(items, i)
      at == InsertionIndex(rest, after)
  IN  IF \/ items[i].kind = "verification"
         \/ items[i].status = "in_progress"
         \/ after = items[i].id
         \/ at = 0
      THEN Refused
      ELSE InsertAt(rest, at, items[i])

(* applyItemChange with editItem; outcome "keep" leaves the outcome alone.  *)
ApplyChange(items, c) ==
  LET i == IndexOf(items, c.id)
      edited == IF c.outcome = "keep" THEN items
                ELSE ReplaceAt(items, i, [items[i] EXCEPT !.outcome = c.outcome])
  IN  IF c.action = "add" THEN AddItem(items, c.outcome, c.after)
      ELSE IF i = 0 THEN Refused
      ELSE IF items[i].status = "completed" THEN Refused
      ELSE IF c.action = "edit"
           THEN IF c.after = NoId THEN edited ELSE MoveItem(edited, i, c.after)
      ELSE IF items[i].kind = "verification" THEN Refused
      ELSE RemoveAt(items, i)

(* applyTransition.                                                         *)
Start(items, i) ==
  IF items[i].status = "in_progress" THEN items
  ELSE IF \/ items[i].status = "completed"
          \/ \E j \in DOMAIN items : items[j].status = "in_progress"
       THEN Refused
  ELSE ReplaceAt(items, i, [items[i] EXCEPT !.status = "in_progress"])

Complete(items, i, evidence) ==
  LET done == ReplaceAt(items, i, [items[i] EXCEPT !.status = "completed",
                                                   !.evidence = evidence])
      next == SelectInSeq(done, LAMBDA it : it.status = "pending")
  IN  IF items[i].status = "completed" /\ items[i].evidence = evidence
      THEN items
      ELSE IF items[i].status # "in_progress" THEN Refused
      ELSE IF next = 0 THEN done
      ELSE ReplaceAt(done, next, [done[next] EXCEPT !.status = "in_progress"])

ApplyTransition(items, t) ==
  LET i == IndexOf(items, t.id)
  IN  IF i = 0 THEN Refused
      ELSE IF t.status = "in_progress" THEN Start(items, i)
      ELSE IF t.evidence = "none" THEN Refused
      ELSE Complete(items, i, t.evidence)

NoTransition == [id |-> NoId, status |-> "none", evidence |-> "none"]

(* The items update() arrives at on its copy of the plan.                   *)
EditedItems(items, changes, t) ==
  LET changed == FoldLeft(LAMBDA acc, c : IF acc = Refused THEN Refused
                                          ELSE ApplyChange(acc, c),
                          items, changes)
  IN  IF changed = Refused \/ t = NoTransition THEN changed
      ELSE ApplyTransition(changed, t)

(* What the model may ask for.  An id that is not in use is refused          *)
(* whatever is asked of it, so one request with such an id is enough.        *)
Changes(items) ==
  LET ids == Ids(items)
      C(action, id, outcomes, after) ==
        [action : {action}, id : id, outcome : outcomes, after : after]
  IN  C("add", {NoId}, Outcomes, ids \cup {NoId})
        \cup (C("edit", ids, Outcomes \cup {"keep"}, ids \cup {NoId})
                \ C("edit", ids, {"keep"}, {NoId}))
        \cup C("delete", ids \cup {NoId}, {"keep"}, {NoId})

Transitions(items) ==
  LET ids == Ids(items)
  IN  {NoTransition}
        \cup [id : ids, status : {"in_progress"}, evidence : {"none"}]
        \cup [id : ids, status : {"completed"}, evidence : Evidences \cup {"none"}]

(* buildPlan for drafts whose outcomes are given.                           *)
NewPlan(id, outcomes) ==
  [id |-> id,
   items |-> [i \in DOMAIN outcomes |->
      NewItem(i, IF i = Len(outcomes) THEN "verification" ELSE "work",
              outcomes[i], IF i = 1 THEN "in_progress" ELSE "pending")]]

(* Longer plans come about by adding items.                                 *)
Drafts == [1..MinDraft -> Outcomes]

(* interruptTaskPlanState.                                                  *)
Interrupted(s, reason) ==
  IF ~HasPlan(s) \/ s.reason = reason THEN s
  ELSE [s EXCEPT !.version = @ + 1, !.reason = reason]

-----------------------------------------------------------------------------
(* Records and steps.                                                       *)

Writes == {"ok", "lost", "kept"}

(* A record that makes disk become d: written, failed, or reported as       *)
(* failed although it is in the file.                                       *)
Write(w, d) ==
  /\ disk' = IF w = "lost" THEN disk ELSE d
  /\ failed' = IF w = "ok" THEN "no" ELSE w

(* persist() is skipped once persistence has failed.                        *)
WriteIfPossible(w, d) ==
  IF failed # "no" THEN w = "lost" /\ UNCHANGED <<disk, failed>> ELSE Write(w, d)

(* resetStep, and the end of the variables of runOneStep.                   *)
NoStep ==
  /\ snap' = EmptyState /\ dirty' = FALSE /\ boundary' = "none"
  /\ claimed' = "none" /\ durable' = EmptyState /\ resumed' = NoId

(* The catch blocks of runLoop.                                             *)
LoopLeft == pc' = IF aborted THEN "stopped" ELSE "over"

Init ==
  /\ state = EmptyState
  /\ snap = EmptyState /\ dirty = FALSE /\ boundary = "none"
  /\ claimed = "none" /\ durable = EmptyState /\ resumed = NoId
  /\ engaged = FALSE /\ pc = "idle" /\ aborted = FALSE /\ last = "none"
  /\ disk = [state |-> EmptyState, turn |-> FALSE, engaged |-> NoId,
             start |-> EmptyState, canRollBack |-> FALSE]
  /\ failed = "no" /\ shown = NoPlan /\ plans = 0 /\ cut = NoId

(* runLoop up to recordTurnStart.  e: the turn answers the question of the  *)
(* plan or carries a notification of its execution.                         *)
StartTurn(w, e) ==
  /\ pc = "idle" /\ failed = "no"
  /\ e => HasPlan(state) /\ ~ResumeRequired(state)
  /\ Write(w, [disk EXCEPT !.turn = TRUE, !.start = state, !.canRollBack = TRUE,
                           !.engaged = IF e THEN state.plan.id ELSE NoId])
  /\ IF w = "ok" THEN pc' = "turn" /\ engaged' = e ELSE UNCHANGED <<pc, engaged>>
  /\ aborted' = FALSE /\ last' = "none"
  /\ UNCHANGED <<state, stepVars, shown, plans, cut>>

(* The user stops the turn; opAbort is there until the loop is left.        *)
Stop ==
  /\ pc \in {"turn", "model", "tools"}
  /\ aborted' = TRUE
  /\ UNCHANGED <<state, stepVars, engaged, pc, last, disk, failed, shown,
                 plans, cut>>

(* runOneStep up to the request: beginStep.                                 *)
BeginStep ==
  /\ pc = "turn" /\ ~aborted
  /\ pc' = "model"
  /\ snap' = state /\ dirty' = FALSE /\ boundary' = "none"
  /\ claimed' = "none" /\ durable' = state /\ resumed' = NoId
  /\ UNCHANGED <<state, engaged, aborted, last, disk, failed, shown, plans, cut>>

(* A compaction before the request of a step; the schema of the snapshot    *)
(* refuses an engaged plan that is not the active one.                      *)
Compact(w) ==
  /\ pc = "model" /\ ~aborted
  /\ disk.engaged \in {NoId, state.plan.id}
  /\ Write(w, [disk EXCEPT !.state = state, !.start = EmptyState,
                           !.canRollBack = FALSE])
  /\ IF w = "ok" THEN UNCHANGED <<state, stepVars, pc>>
     ELSE state' = snap /\ NoStep /\ LoopLeft
  /\ UNCHANGED <<engaged, aborted, last, shown, plans, cut>>

(* The request fails or is cancelled before any tool: discardStep.  After a *)
(* cancellation by an immediate input the loop goes on.                     *)
StepDropped ==
  /\ pc = "model"
  /\ state' = IF dirty THEN snap ELSE state
  /\ \/ LoopLeft
     \/ ~aborted /\ pc' = "turn"
  /\ NoStep
  /\ UNCHANGED <<engaged, aborted, last, disk, failed, shown, plans, cut>>

(* The complete response with its tool calls is recorded.                   *)
ToolsBegin(w) ==
  /\ pc = "model" /\ ~aborted
  /\ Write(w, disk)
  /\ IF w = "ok"
     THEN pc' = "tools" /\ UNCHANGED <<state, stepVars>>
     ELSE state' = snap /\ NoStep /\ LoopLeft
  /\ UNCHANGED <<engaged, aborted, last, shown, plans, cut>>

-----------------------------------------------------------------------------
(* Tool calls.  Each ends with recordResult: the state if its version has   *)
(* changed, and the plan the turn executes.                                 *)

\* Variant: the record of a tool result leaves the engagement out.
BadResultRecord(s, plan) ==
  IF s.version # durable.version THEN [disk EXCEPT !.state = s] ELSE disk
ResultRecord(s, plan) ==
  IF s.version # durable.version
  THEN [disk EXCEPT !.state = s, !.engaged = s.plan.id]
  ELSE [disk EXCEPT !.engaged = IF plan = NoId THEN @ ELSE plan]

(* The catch block of runOneStep.                                           *)
\* Variant: a failed step goes back to where it began.
BadRestored == snap
Restored == durable

(* The tool leaves the state s; p is taskPlanEngagement.                    *)
ToolRecorded(w, s, p) ==
  /\ Write(w, ResultRecord(s, p))
  /\ IF w = "ok"
     THEN /\ state' = s /\ durable' = s /\ resumed' = p
          /\ dirty' = (dirty \/ s.version # state.version)
          /\ UNCHANGED <<pc, snap>>
     ELSE /\ state' = Restored /\ LoopLeft
          /\ snap' = EmptyState /\ dirty' = FALSE
          /\ durable' = EmptyState /\ resumed' = NoId

Claim(tool, b) ==
  IF failed' # "no" THEN claimed' = "none" /\ boundary' = "none"
  ELSE claimed' = tool /\ boundary' = b

ToolMayRun == pc = "tools" /\ ~aborted

(* A standalone tool is refused after any other, and any other after it.    *)
MayClaim(tool) ==
  IF tool = "standalone" THEN claimed = "none" ELSE claimed # "standalone"

CreateTool(w, outcomes) ==
  LET p == NewPlan(plans + 1, outcomes)
  IN  /\ ToolMayRun /\ MayClaim("standalone")
      /\ ~dirty /\ ~HasPlan(state)
      /\ plans < MaxPlans /\ state.version < MaxVersion
      /\ plans' = plans + 1
      /\ ToolRecorded(w, [version |-> state.version + 1, plan |-> p,
                          reason |-> "none"], resumed)
      /\ Claim("standalone", "create")
      /\ UNCHANGED <<engaged, aborted, last, shown, cut>>

(* resume() of the active plan; the callback sets taskPlanEngagement.       *)
ResumeTool(w) ==
  LET s == IF ResumeRequired(state)
           THEN [state EXCEPT !.version = @ + 1, !.reason = "none"] ELSE state
  IN  /\ ToolMayRun /\ MayClaim("standalone")
      /\ HasPlan(state) /\ state.version < MaxVersion
      /\ ToolRecorded(w, s, state.plan.id)
      /\ Claim("standalone", boundary)
      /\ cut' = IF disk'.state.plan.id = cut /\ ~ResumeRequired(disk'.state)
                THEN NoId ELSE cut
      /\ UNCHANGED <<engaged, aborted, last, shown, plans>>

(* UpdateTaskItem; a call that changes nothing is recorded as any other.    *)
\* Variant: the result is not parsed by the schema.
BadAccepted(items, edited) == edited # Refused /\ edited # items
Accepted(items, edited) ==
  edited # Refused /\ edited # items /\ ItemsValid(edited)

MayUpdate ==
  engaged /\ HasPlan(state) /\ boundary = "none" /\ ~ResumeRequired(state)

UpdateTool(w, changes, t) ==
  LET items == state.plan.items
      edited == EditedItems(items, changes, t)
  IN  /\ ToolMayRun /\ MayClaim("other")
      /\ MayUpdate /\ state.version < MaxVersion
      /\ changes # <<>> \/ t # NoTransition
      /\ IF Accepted(items, edited)
         THEN ToolRecorded(w, [state EXCEPT !.version = @ + 1,
                                            !.plan.items = edited], resumed)
         ELSE ToolRecorded(w, state, resumed)
      /\ Claim("other", boundary)
      /\ UNCHANGED <<engaged, aborted, last, shown, plans, cut>>

(* finish() of the controller: the plan is closed.                          *)
Closed(s) == [version |-> s.version + 1, plan |-> NoPlan, reason |-> "none"]

CloseTool(w) ==
  /\ ToolMayRun /\ MayClaim("standalone")
  /\ ~dirty /\ HasPlan(state) /\ state.version < MaxVersion
  /\ ToolRecorded(w, Closed(state), resumed)
  /\ Claim("standalone", "close")
  /\ UNCHANGED <<engaged, aborted, last, shown, plans, cut>>

OtherTool(w) ==
  /\ ToolMayRun /\ MayClaim("other")
  /\ ToolRecorded(w, state, resumed)
  /\ Claim("other", boundary)
  /\ UNCHANGED <<engaged, aborted, last, shown, plans, cut>>

-----------------------------------------------------------------------------
(* The end of a step.                                                       *)

(* engagementUpdate with the state of commitStep.                           *)
StepRecord(s, changed) ==
  IF changed THEN [disk EXCEPT !.state = s, !.engaged = s.plan.id]
  ELSE [disk EXCEPT !.engaged = IF resumed = NoId THEN @ ELSE resumed]

(* commitStep, the record of the step and what runLoop takes from it, for a *)
(* step that leaves the state s; kind is what the step was.                 *)
Commit(w, s, changed, kind) ==
  /\ Write(w, StepRecord(s, changed))
  /\ IF w = "ok"
     THEN /\ state' = s
          /\ shown' = IF changed THEN s.plan ELSE shown
          /\ engaged' = \/ IF changed THEN HasPlan(s) ELSE engaged
                        \/ resumed # NoId /\ resumed = s.plan.id
          /\ pc' = "turn" /\ last' = kind
     ELSE /\ state' = Restored
          /\ LoopLeft /\ UNCHANGED <<shown, engaged, last>>
  /\ NoStep
  /\ UNCHANGED <<aborted, plans, cut>>

(* All tools are done or left out; asks: the step ends with a question.     *)
ToolsEnd(w, asks) ==
  /\ pc = "tools"
  /\ asks => ~aborted
  /\ Commit(w, state, dirty, IF asks THEN "ask" ELSE "tools")

(* A final text.  closes: the plan ends with it, unless there is new input, *)
(* work of subagents or a task the plan still waits for.                    *)
TextEnds(w, closes) ==
  /\ pc = "model" /\ ~aborted
  /\ closes => engaged /\ HasPlan(state)
  /\ IF closes THEN Commit(w, Closed(state), TRUE, "text")
               ELSE Commit(w, state, FALSE, "text")

-----------------------------------------------------------------------------
(* The end of a turn.                                                       *)

(* The loop is left after a step.  A question ends the turn even when it is *)
(* stopped; so may a final text that leaves nothing to interrupt.           *)
LeaveLoop ==
  /\ pc = "turn"
  /\ \/ aborted /\ pc' = "stopped"
     \/ /\ last # "none" /\ (aborted => last = "ask" \/ (last = "text" /\ ~engaged))
        /\ pc' = "over"
  /\ UNCHANGED <<state, stepVars, engaged, aborted, last, disk, failed, shown,
                 plans, cut>>

(* The marker of a stopped turn, with the interruption of its plan.         *)
MarkStopped(w) ==
  LET s == IF engaged THEN Interrupted(state, "user-cancel") ELSE state
  IN  /\ pc = "stopped"
      /\ state' = s
      /\ WriteIfPossible(w, [disk EXCEPT !.state = IF s = state THEN @ ELSE s,
                                         !.engaged = NoId])
      /\ pc' = "over"
      /\ cut' = IF engaged /\ HasPlan(state) THEN state.plan.id ELSE cut
      /\ UNCHANGED <<stepVars, engaged, aborted, last, shown, plans>>

EndTurn(w) ==
  /\ pc = "over"
  /\ WriteIfPossible(w, [disk EXCEPT !.turn = FALSE, !.engaged = NoId])
  /\ pc' = "idle" /\ engaged' = FALSE /\ aborted' = FALSE /\ last' = "none"
  /\ UNCHANGED <<state, stepVars, shown, plans, cut>>

-----------------------------------------------------------------------------
(* Rollback and restart.                                                    *)

(* restoreCheckpoint of the last turn with the conversation: its snapshot   *)
(* carries the state of the turn's start.                                   *)
Rollback ==
  /\ pc = "idle" /\ failed = "no" /\ disk.canRollBack
  /\ state' = disk.start
  /\ disk' = [disk EXCEPT !.state = disk.start, !.canRollBack = FALSE,
                          !.start = EmptyState, !.engaged = NoId]
  /\ shown' = disk.start.plan
  /\ cut' = IF disk.start.plan.id = cut /\ ~ResumeRequired(disk.start)
            THEN NoId ELSE cut
  /\ UNCHANGED <<stepVars, engaged, pc, aborted, last, failed, plans>>

(* The process dies; the session is opened again and recoverInterruptedWork *)
(* closes the turn it finds open.                                           *)
\* Variant: recovery interrupts no plan.
BadRecovered == disk.state
Recovered ==
  IF disk.turn /\ HasPlan(disk.state) /\ disk.engaged = disk.state.plan.id
  THEN Interrupted(disk.state, "process-interruption") ELSE disk.state

Restart ==
  /\ state' = Recovered
  /\ disk' = [disk EXCEPT !.state = Recovered, !.turn = FALSE, !.engaged = NoId]
  /\ NoStep
  /\ engaged' = FALSE /\ pc' = "idle" /\ aborted' = FALSE /\ last' = "none"
  /\ failed' = "no" /\ shown' = Recovered.plan
  /\ cut' = IF engaged /\ HasPlan(state) THEN state.plan.id ELSE cut
  /\ UNCHANGED plans

Tools(w) ==
  \/ \E outcomes \in Drafts : CreateTool(w, outcomes)
  \/ ResumeTool(w)
  \/ \E changes \in UNION {[1..n -> Changes(state.plan.items)] : n \in 0..MaxChanges},
        t \in Transitions(state.plan.items) : UpdateTool(w, changes, t)
  \/ CloseTool(w)
  \/ OtherTool(w)

Next ==
  \/ \E w \in Writes :
       \/ \E e \in BOOLEAN : StartTurn(w, e)
       \/ Compact(w)
       \/ ToolsBegin(w)
       \/ Tools(w)
       \/ \E asks \in BOOLEAN : ToolsEnd(w, asks)
       \/ \E closes \in BOOLEAN : TextEnds(w, closes)
       \/ MarkStopped(w)
       \/ EndTurn(w)
  \/ Stop
  \/ BeginStep
  \/ StepDropped
  \/ LeaveLoop
  \/ Rollback
  \/ Restart

Spec == Init /\ [][Next]_vars

-----------------------------------------------------------------------------
(* Properties.                                                              *)

Items == [id : Nat, kind : {"work", "verification"}, outcome : Outcomes,
          status : {"pending", "in_progress", "completed"},
          evidence : Evidences \cup {"none"}]
States == [version : Nat, plan : [id : Nat, items : Seq(Items)],
           reason : {"none", "user-cancel", "process-interruption"}]

(* Every variable keeps its type.                                           *)
TypeOK ==
  /\ state \in States /\ snap \in States /\ durable \in States
  /\ dirty \in BOOLEAN /\ boundary \in {"none", "create", "close"}
  /\ engaged \in BOOLEAN /\ aborted \in BOOLEAN
  /\ pc \in {"idle", "turn", "model", "tools", "stopped", "over"}
  /\ last \in {"none", "ask", "tools", "text"}
  /\ claimed \in {"none", "other", "standalone"}
  /\ resumed \in Nat /\ failed \in {"no", "lost", "kept"}
  /\ disk \in [state : States, turn : BOOLEAN, engaged : Nat, start : States,
               canRollBack : BOOLEAN]
  /\ shown \in [id : Nat, items : Seq(Items)] /\ plans \in Nat /\ cut \in Nat

(* Whatever sequence of changes, failures and rollbacks has led to it, a    *)
(* task state in memory or in the transcript is one its own schema accepts: *)
(* the parse in create, finish, clone and open never throws (types.ts).     *)
StateValid(s) ==
  IF HasPlan(s) THEN ItemsValid(s.plan.items) ELSE ~ResumeRequired(s)
PlanValid == StateValid(state) /\ StateValid(disk.state) /\ StateValid(disk.start)

(* The controller, the transcript and the plan on the screen are the same at *)
(* every boundary of a step.  A step that fails after some of its tools were *)
(* recorded goes back to the last record and not to its beginning, so that   *)
(* memory and transcript stay together even then (session.ts 2866).          *)
ViewsAgree ==
  /\ failed = "no" => state = disk.state
  /\ failed = "lost" => state.plan = disk.state.plan
  /\ failed = "no" /\ pc # "tools" => shown = state.plan

(* The transcript knows which plan the turn executes whenever the loop does, *)
(* and names no plan but the active one: a restart interrupts the right plan *)
(* (store.ts 1444), and a snapshot is never refused (types.ts 421).          *)
EngagementIsRecorded ==
  /\ failed = "no" /\ pc = "turn" /\ engaged => disk.engaged = state.plan.id
  /\ disk.engaged \in {NoId, disk.state.plan.id}

(* A plan whose execution was cut short, by a stop or by the death of the    *)
(* process, asks to be resumed, and until it has been no later turn touches  *)
(* its milestones (session.ts 1717 and 1961, store.ts 1444).                 *)
CutPlanWaits ==
  /\ [](pc = "idle" /\ cut # NoId /\ state.plan.id = cut => ResumeRequired(state))
  /\ [][pc # "idle" /\ cut # NoId /\ cut' = cut /\ cut = state.plan.id
          /\ cut = state'.plan.id
        => state'.plan = state.plan]_vars

(* A milestone recorded as completed is never altered, removed or reopened   *)
(* while its plan lives, except by a rollback of the user.                   *)
Completed(s) == {it \in ToSet(s.plan.items) : it.status = "completed"}
CompletedStays ==
  [][\/ Rollback
     \/ disk'.state.plan.id # disk.state.plan.id
     \/ Completed(disk.state) \subseteq Completed(disk'.state)]_vars
=============================================================================
