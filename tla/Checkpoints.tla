------------------------------ MODULE Checkpoints ------------------------------
(***************************************************************************)
(* CheckpointManager and ResourceRestoreTransaction                        *)
(* (packages/core/src/checkpoints) as AgentSession uses them under the      *)
(* host's project lock: the manifest around each tool that writes files,    *)
(* the barrier in front of commands, the rollback of files with or without  *)
(* the conversation, the edit of the last message, and their compensation.  *)
(*                                                                         *)
(* Meanwhile others write to the same files at any time: the user, commands *)
(* in the background, sessions that share the project.                      *)
(***************************************************************************)
EXTENDS HostScheduler, FiniteSets

CONSTANTS Paths,        \* files
          Texts,        \* what the agent's tools leave in one, or that it is missing
          Saved,        \* what only someone else saves
          MaxTurns,     \* bound: turns
          MaxManifests, \* bound: manifests ever written
          MaxOthers,    \* bound: writes and operations of someone else
          MaxFaults     \* bound: aborts, failed reads and writes, crashes

ASSUME BoundsAssumption ==
  /\ MaxTurns \in Nat /\ MaxManifests \in Nat
  /\ MaxOthers \in Nat /\ MaxFaults \in Nat

VARIABLES
  files,      \* the workspace
  manifests,  \* in the order of their ids
  turn,       \* the turn that runs, or NoTurn
  call,       \* the step waits for a tool that writes
  chat,       \* turns the conversation can be taken back to: turnStarts
  tool,       \* the tool in the critical section
  rest,       \* the restore in the critical section
  start,      \* history: what the files were when each turn began
  broken,     \* history: <<m, p>> when p was changed behind m's back
  mixed,      \* history: files someone else wrote while a tool had captured them
  late,       \* history: files someone else wrote after the restore checked them
  others,     \* writes and operations of someone else so far
  faults      \* aborts, failures and crashes so far

hist == <<start, broken, mixed, late>>
count == <<others, faults>>
vars == <<queue, started, files, manifests, turn, call, chat, tool, rest, hist, count>>

NoTurn == 0
NoManifest == 0
Unknown == "unknown"
Idle == [pc |-> "idle"]
Contents == Texts \cup {Saved}

Fault == faults < MaxFaults /\ faults' = faults + 1 /\ UNCHANGED others

-----------------------------------------------------------------------------
(* Manifests.                                                               *)

(* CheckpointManifestStore.list(): what is there, by sequence.              *)
Listed == {m \in DOMAIN manifests : manifests[m].status # "removed"}
LastSequence ==
  IF Listed = {} THEN 0
  ELSE CHOOSE s \in {manifests[m].seq : m \in Listed} :
         \A m \in Listed : manifests[m].seq <= s

Ready == {m \in Listed : manifests[m].status = "ready"}
Complete == {m \in Ready : manifests[m].complete}

Touched(m) == DOMAIN manifests[m].before
PathsOf(M) == UNION {Touched(m) : m \in M}
In(M, p) == {m \in M : p \in Touched(m)}
First(M) == CHOOSE m \in M : \A n \in M : manifests[m].seq <= manifests[n].seq
Latest(M) == CHOOSE m \in M : \A n \in M : manifests[n].seq <= manifests[m].seq

NoFiles == [p \in {} |-> Unknown]
Barrier(s) ==
  [seq |-> s, turn |-> turn, status |-> "ready", complete |-> FALSE,
   before |-> NoFiles, after |-> NoFiles]
Pending(s, before) ==
  [seq |-> s, turn |-> turn, status |-> "pending", complete |-> TRUE,
   before |-> before, after |-> NoFiles]

-----------------------------------------------------------------------------
(* History.  P was changed by something no manifest tells of: its chain of  *)
(* manifests ends there, whether or not the restore that runs is completed. *)
RangeSet == IF rest.pc = "idle" THEN {} ELSE rest.range
Ends(p) == {Latest(M) : M \in {In(Complete \cup RangeSet, p), In(Complete \ RangeSet, p)} \ {{}}}
Breaks(P) == UNION {Ends(p) \X {p} : p \in P}
(* What the files were when the turns in T began is remembered, but for P.  *)
Remembered(T, P) ==
  [t \in DOMAIN start |->
     [p \in Paths |-> IF t \in T /\ p \notin P THEN start[t][p] ELSE Unknown]]
Unkept(P) == Remembered(DOMAIN start, P)
(* Once a turn is over, it matters only while someone can go back to it.     *)
Reachable == {t \in chat : \E m \in Complete : manifests[m].turn = t}

(* The restore has found in P what it expects there.                        *)
Checked(p) == rest.pc = "apply" \/ (rest.pc = "validate" /\ p \notin rest.todo)

(* Someone else writes.                                                     *)
Outside(p, c) ==
  /\ c # files[p] /\ others < MaxOthers
  /\ files' = [files EXCEPT ![p] = c]
  /\ others' = others + 1
  /\ broken' = broken \cup Breaks({p})
  /\ start' = Unkept({p})
  /\ mixed' = IF tool.pc \in {"put", "execute"} /\ p \in tool.scope THEN mixed \cup {p} ELSE mixed
  /\ late' = IF Checked(p) THEN late \cup {p} ELSE late
  /\ rest' = IF rest.pc \in {"idle", "plan"} THEN rest
             ELSE [rest EXCEPT !.meddled = @ \cup {p}]
  /\ UNCHANGED <<queue, started, manifests, turn, call, chat, tool, faults>>

-----------------------------------------------------------------------------
(* The turn.                                                                *)

Init ==
  /\ queue = <<>> /\ started = FALSE
  /\ files \in [Paths -> Texts]
  /\ manifests = <<>> /\ turn = NoTurn /\ call = FALSE /\ chat = {}
  /\ tool = Idle /\ rest = Idle
  /\ start = <<>> /\ broken = {} /\ mixed = {} /\ late = {}
  /\ others = 0 /\ faults = 0

Restoring == \E i \in DOMAIN queue : queue[i].op \in {"files", "chat", "edit"}

StartTurn ==
  /\ turn = NoTurn /\ ~Restoring /\ Len(start) < MaxTurns
  /\ turn' = Len(start) + 1
  /\ chat' = chat \cup {turn'}
  /\ start' = Append(start, files)
  /\ UNCHANGED <<queue, started, files, manifests, call, tool, rest, broken, mixed, late, count>>

EndTurn ==
  /\ turn # NoTurn /\ ~call
  /\ turn' = NoTurn
  /\ start' = Remembered(Reachable, {})
  /\ UNCHANGED <<queue, started, files, manifests, call, chat, tool, rest, broken, mixed,
                 late, count>>

(* The step dispatches one writing tool at a time (tool-execution.ts): one   *)
(* with a checkpointScope, or a command without.                            *)
CallTool(op, scope) ==
  /\ turn # NoTurn /\ ~call /\ Len(manifests) < MaxManifests
  /\ Enqueued([op |-> op, scope |-> scope, aborted |-> FALSE])
  /\ call' = TRUE
  /\ UNCHANGED <<started, files, manifests, turn, chat, tool, rest, hist, count>>

(* The step is aborted.                                                     *)
AbortCall ==
  /\ call /\ Fault
  /\ \E i \in DOMAIN queue :
       /\ queue[i].op \in {"tool", "command"} /\ ~queue[i].aborted
       /\ queue' = Aborted(i)
       /\ call' = ~Waits(i)
  /\ UNCHANGED <<started, files, manifests, turn, chat, tool, rest, hist>>

(* A compaction, between turns or between the steps of one: its snapshot     *)
(* keeps no turn to go back to.                                             *)
Compact ==
  /\ ~call /\ ~Restoring /\ chat # {}
  /\ chat' = {}
  /\ start' = Remembered({}, {})
  /\ UNCHANGED <<queue, started, files, manifests, turn, call, tool, rest, broken, mixed,
                 late, count>>

(* Another session of the project.                                          *)
OtherCalls ==
  /\ others < MaxOthers /\ others' = others + 1
  /\ Enqueued([op |-> "other", aborted |-> FALSE])
  /\ UNCHANGED <<started, files, manifests, turn, call, chat, tool, rest, hist, faults>>

OtherEnds ==
  /\ started /\ Head(queue).op = "other"
  /\ Finishes
  /\ UNCHANGED <<files, manifests, turn, call, chat, tool, rest, hist, count>>

(* An operation enters the critical section.                                *)
NewRestore(op) ==
  [pc |-> "plan", op |-> op.op, target |-> op.target, turn |-> NoTurn, range |-> {},
   safety |-> NoFiles, todo |-> {}, why |-> "none", clean |-> TRUE,
   meddled |-> {}]

Enter ==
  /\ Starts
  /\ IF ~started' THEN UNCHANGED <<tool, rest>>
     ELSE LET op == Head(queue) IN
       /\ tool' = IF op.op \in {"tool", "command"}
                  THEN [pc |-> "prepare", op |-> op.op, scope |-> op.scope,
                        id |-> NoManifest, seq |-> 0, before |-> NoFiles,
                        todo |-> op.scope, kept |-> FALSE]
                  ELSE tool
       /\ rest' = IF op.op \in {"files", "chat", "edit"} THEN NewRestore(op) ELSE rest
  /\ UNCHANGED <<files, manifests, turn, call, chat, hist, count>>

-----------------------------------------------------------------------------
(* A tool.                                                                  *)

(* prepare: the list is read and the files are captured; recordBarrier      *)
(* reads the list as well.                                                  *)
Prepare ==
  /\ tool.pc = "prepare"
  /\ tool' = [tool EXCEPT !.pc = "put", !.seq = LastSequence + 1,
                !.before = IF tool.op = "command" THEN NoFiles
                           ELSE [p \in tool.scope |-> files[p]]]
  /\ UNCHANGED <<queue, started, files, manifests, turn, call, chat, rest, hist, count>>

(* The manifest is put; when that fails a barrier; when that fails, nothing. *)
PutPending ==
  /\ tool.pc = "put" /\ tool.op = "tool"
  /\ manifests' = Append(manifests, Pending(tool.seq, tool.before))
  /\ tool' = [tool EXCEPT !.pc = "execute", !.id = Len(manifests) + 1, !.kept = TRUE]
  /\ UNCHANGED <<queue, started, files, turn, call, chat, rest, hist, count>>

PutBarrier ==
  /\ tool.pc = "put"
  /\ IF tool.op = "command" THEN UNCHANGED count ELSE Fault
  /\ manifests' = Append(manifests, Barrier(tool.seq))
  /\ tool' = [tool EXCEPT !.pc = "execute", !.kept = TRUE]
  /\ UNCHANGED <<queue, started, files, turn, call, chat, rest, hist>>

PutNothing ==
  /\ tool.pc = "put" /\ Fault
  /\ tool' = [tool EXCEPT !.pc = "execute"]
  /\ UNCHANGED <<queue, started, files, manifests, turn, call, chat, rest, hist>>

(* The operation returns to the step.                                       *)
ToolReturns == Finishes /\ call' = FALSE /\ tool' = Idle

(* Aborted, or its start cannot be recorded: it is not executed.             *)
NotStarted ==
  /\ tool.pc = "execute" /\ tool.todo = tool.scope
  /\ IF Head(queue).aborted THEN UNCHANGED count ELSE Fault
  /\ ToolReturns
  /\ UNCHANGED <<files, manifests, turn, chat, rest, hist>>

(* def.execute writes a file of its scope; a command, any file.             *)
ToolWrites(p, c) ==
  /\ tool.pc = "execute" /\ p \in tool.todo /\ c # files[p]
  /\ files' = [files EXCEPT ![p] = c]
  /\ tool' = [tool EXCEPT !.todo = @ \ {p}]
  /\ IF tool.id # NoManifest THEN UNCHANGED <<start, broken>>
     ELSE /\ broken' = broken \cup Breaks({p})
          /\ start' = IF tool.kept THEN start ELSE Unkept({p})
  /\ UNCHANGED <<queue, started, manifests, turn, call, chat, rest, mixed, late, count>>

(* finalize: the files that changed, or no manifest at all.                 *)
Changed == {p \in tool.scope : files[p] # tool.before[p]}

Finalize ==
  /\ tool.pc = "execute"
  /\ IF tool.id = NoManifest THEN UNCHANGED manifests
     ELSE manifests' = [manifests EXCEPT ![tool.id] =
               IF Changed = {} THEN [@ EXCEPT !.status = "removed", !.before = NoFiles]
               ELSE [@ EXCEPT !.status = "ready",
                              !.before = [p \in Changed |-> tool.before[p]],
                              !.after = [p \in Changed |-> files[p]]]]
  /\ ToolReturns
  /\ UNCHANGED <<files, turn, chat, rest, hist, count>>

(* It fails: the manifest becomes a barrier, or stays pending.              *)
FinalizeFails ==
  /\ tool.pc = "execute" /\ tool.id # NoManifest /\ Fault
  /\ broken' = broken \cup Breaks(Changed)
  /\ \/ /\ manifests' = [manifests EXCEPT ![tool.id] = Barrier(@.seq)]
        /\ UNCHANGED start
     \/ UNCHANGED manifests /\ start' = Unkept(Changed)
  /\ ToolReturns
  /\ UNCHANGED <<files, turn, chat, rest, mixed, late>>

-----------------------------------------------------------------------------
(* A restore.                                                               *)

(* restoreCheckpoint and prepareLatestTurnEdit; the session is busy until    *)
(* they are over.                                                           *)
RequestRestore(m, op) ==
  /\ turn = NoTurn /\ ~Restoring /\ m \in Complete
  /\ op = "chat" => manifests[m].turn \in chat
  /\ Enqueued([op |-> op, target |-> m, aborted |-> FALSE])
  /\ UNCHANGED <<started, files, manifests, turn, call, chat, tool, rest, hist, count>>

(* Only the last message of the user can be edited, and only while the       *)
(* conversation holds the turn it began.                                    *)
RequestEdit(withFiles) ==
  /\ turn = NoTurn /\ ~Restoring /\ Len(start) < MaxTurns
  /\ chat # {}
  /\ Enqueued([op |-> "edit", target |-> IF withFiles THEN 1 ELSE NoManifest,
               aborted |-> FALSE])
  /\ UNCHANGED <<started, files, manifests, turn, call, chat, tool, rest, hist, count>>

(* planRestore: from the chosen tool on, or from the first of its turn.      *)
From(m) == {n \in Ready : manifests[n].seq >= manifests[m].seq}
Scope(op, m) ==
  IF op = "files" THEN From(m)
  ELSE From(First({n \in Ready : manifests[n].turn = manifests[m].turn}))

(* restoreEditedTurns: the turn that message began and the ones that came    *)
(* after it without a message, of a notification or a hidden input.         *)
EditScope(first) == {n \in Complete : manifests[n].turn >= first}

(* The conversation is only taken back over what is known in full.           *)
\* Variant: what is not complete is only left out.
BadCovered(op, m) == m \in Complete
Covered(op, m) == m \in Complete /\ (op = "chat" => Scope(op, m) \subseteq Complete)

(* The range of the restore, or Refused.                                    *)
Refused == {NoManifest}
RangeOf(op, m, first) ==
  IF op = "edit" THEN (IF m = NoManifest THEN {} ELSE IF EditScope(first) = {} THEN Refused
                       ELSE EditScope(first))
  ELSE IF Covered(op, m) THEN Scope(op, m) \cap Complete ELSE Refused

(* The turns the conversation may go back to: which of them the last message *)
(* of the user began, the model leaves open.                                *)
Roots == IF rest.op = "edit" THEN chat ELSE {manifests[rest.target].turn}

\* Variant: only the last manifest of the range is validated.
BadValidated(range) == Touched(Latest(range))
Validated(range) == PathsOf(range)

(* restorePlan: captureSafety.                                              *)
Plan ==
  /\ rest.pc = "plan"
  /\ \E first \in Roots :
       LET range == RangeOf(rest.op, rest.target, first)
       IN  rest' =
             IF range = Refused THEN [rest EXCEPT !.pc = "done", !.why = "refused"]
             ELSE [rest EXCEPT
                     !.pc = IF range = {} THEN "commit" ELSE "validate",
                     !.turn = first, !.range = range,
                     !.safety = [p \in PathsOf(range) |-> files[p]],
                     !.todo = IF range = {} THEN {} ELSE Validated(range)]
  /\ UNCHANGED <<queue, started, files, manifests, turn, call, chat, tool, hist, count>>

(* compensate().                                                            *)
\* Variant: only the manifests are put back.
BadUndoing(why) == [rest EXCEPT !.pc = "undo", !.why = why, !.todo = {}]
Undoing(why) ==
  [rest EXCEPT !.pc = "undo", !.why = why, !.todo = DOMAIN rest.safety]

(* validate(): the last after of a file must be what is there.              *)
LastOf(p) == manifests[Latest(In(RangeSet, p))]
Expected(p) == LastOf(p).after[p]

(* What each manifest of the range found in each of its files.               *)
Writes == UNION {{m} \X Touched(m) : m \in RangeSet}

(* One file after the other, those of the last manifest first; someone else  *)
(* may write to any of them in between.                                     *)
Validate(p) ==
  /\ rest.pc = "validate" /\ p \in rest.todo
  /\ \A q \in rest.todo : LastOf(q).seq <= LastOf(p).seq
  /\ rest' = IF files[p] # Expected(p) THEN Undoing("conflict")
             ELSE IF rest.todo = {p} THEN [rest EXCEPT !.pc = "apply", !.todo = Writes]
             ELSE [rest EXCEPT !.todo = @ \ {p}]
  /\ UNCHANGED <<queue, started, files, manifests, turn, call, chat, tool, hist, count>>

(* applyReverse: restoreFileState of one resource of the last manifest that  *)
(* is not done.                                                             *)
Apply(m, p) ==
  /\ rest.pc = "apply" /\ <<m, p>> \in rest.todo
  /\ m = Latest({w[1] : w \in rest.todo})
  /\ files' = [files EXCEPT ![p] = manifests[m].before[p]]
  /\ rest' = [rest EXCEPT !.todo = @ \ {<<m, p>>}]
  /\ UNCHANGED <<queue, started, manifests, turn, call, chat, tool, hist, count>>

(* verifyFinal: the first before of each file.                              *)
Original(p) == manifests[First(In(RangeSet, p))].before[p]

Verify ==
  /\ rest.pc = "apply" /\ rest.todo = {}
  /\ rest' = IF \A p \in PathsOf(RangeSet) : files[p] = Original(p)
             THEN [rest EXCEPT !.pc = "invalidate", !.todo = rest.range]
             ELSE Undoing("error")
  /\ UNCHANGED <<queue, started, files, manifests, turn, call, chat, tool, hist, count>>

Invalidate ==
  /\ rest.pc = "invalidate"
  /\ IF rest.todo = {}
     THEN rest' = [rest EXCEPT !.pc = "commit"] /\ UNCHANGED manifests
     ELSE /\ manifests' = [manifests EXCEPT ![First(rest.todo)].status = "invalidated"]
          /\ rest' = [rest EXCEPT !.todo = @ \ {First(@)}]
  /\ UNCHANGED <<queue, started, files, turn, call, chat, tool, hist, count>>

(* hooks.commit: the conversation goes back to before the turn; the edited   *)
(* message is the root of a new one.                                        *)
Commit ==
  LET kept == {t \in chat : t < rest.turn}
  IN  /\ rest.pc = "commit"
      /\ rest' = [rest EXCEPT !.pc = "done"]
      /\ chat' = CASE rest.op = "files" -> chat
                   [] rest.op = "chat"  -> kept
                   [] rest.op = "edit"  -> kept \cup {Len(start) + 1}
      /\ start' = IF rest.op = "edit" THEN Append(start, files) ELSE start
      /\ UNCHANGED <<queue, started, files, manifests, turn, call, tool, broken, mixed,
                     late, count>>

(* A read, a write or the record of the conversation fails.                 *)
RestoreFails ==
  /\ rest.pc \in {"validate", "apply", "invalidate", "commit"}
  /\ rest.pc = "commit" => rest.op # "files"
  /\ Fault
  /\ rest' = Undoing("error")
  /\ UNCHANGED <<queue, started, files, manifests, turn, call, chat, tool, hist>>

Undo(p) ==
  /\ rest.pc = "undo" /\ p \in rest.todo
  /\ files' = [files EXCEPT ![p] = rest.safety[p]]
  /\ rest' = [rest EXCEPT !.todo = @ \ {p}]
  /\ UNCHANGED <<queue, started, manifests, turn, call, chat, tool, hist, count>>

UndoFails ==
  /\ rest.pc = "undo" /\ rest.todo # {} /\ Fault
  /\ rest' = [rest EXCEPT !.todo = {}, !.clean = FALSE]
  /\ UNCHANGED <<queue, started, files, manifests, turn, call, chat, tool, hist>>

(* The manifests are put as they were; lost are those that cannot.          *)
\* Variant: they stay as they are.
BadAsBefore(lost) == manifests
AsBefore(lost) ==
  [m \in DOMAIN manifests |->
     IF m \in RangeSet \ lost THEN [manifests[m] EXCEPT !.status = "ready"]
     ELSE manifests[m]]

PutBack ==
  /\ rest.pc = "undo" /\ rest.todo = {}
  /\ \E lost \in SUBSET RangeSet :
       /\ IF lost = {} THEN UNCHANGED count ELSE Fault
       /\ manifests' = AsBefore(lost)
       /\ rest' = [rest EXCEPT !.pc = "done", !.clean = @ /\ lost = {}]
  /\ UNCHANGED <<queue, started, files, turn, call, chat, tool, hist>>

(* A remote write whose outcome is unknown: nothing more is done.           *)
OutcomeUnknown(m, p) ==
  /\ rest.pc = "apply" /\ <<m, p>> \in rest.todo /\ Fault
  /\ m = Latest({w[1] : w \in rest.todo})
  /\ files' \in {files, [files EXCEPT ![p] = manifests[m].before[p]]}
  /\ rest' = [rest EXCEPT !.pc = "done", !.why = "unknown", !.clean = FALSE]
  /\ UNCHANGED <<queue, started, manifests, turn, call, chat, tool, hist>>

(* Nothing is known any more of the files of a restore that was left half   *)
(* done.                                                                    *)
HalfDone == IF rest.clean THEN {} ELSE PathsOf(RangeSet)

RestoreEnds ==
  /\ rest.pc = "done"
  /\ broken' = broken \cup ((DOMAIN manifests) \X HalfDone)
  /\ turn' = IF rest.op = "edit" /\ rest.why = "none" THEN Len(start) ELSE turn
  /\ start' = Remembered(Reachable \cup {turn'}, HalfDone)
  /\ rest' = Idle /\ late' = {}
  /\ Finishes
  /\ UNCHANGED <<files, manifests, call, chat, tool, mixed, count>>

(* The process dies; the session is opened again.                           *)
Crash ==
  LET wrote == IF tool.pc = "execute" /\ tool.id # NoManifest
               THEN tool.scope \ tool.todo ELSE {}
      half == IF rest.pc \in {"idle", "plan"} THEN {} ELSE PathsOf(RangeSet)
  IN  /\ (turn # NoTurn \/ queue # <<>>) /\ Fault
      /\ queue' = <<>> /\ started' = FALSE /\ turn' = NoTurn /\ call' = FALSE
      /\ tool' = Idle /\ rest' = Idle /\ late' = {}
      /\ broken' = broken \cup Breaks(wrote) \cup ((DOMAIN manifests) \X half)
      /\ start' = Remembered(Reachable, wrote \cup half)
      /\ UNCHANGED <<files, manifests, chat, mixed>>

-----------------------------------------------------------------------------
ToolNext ==
  \/ Prepare \/ PutPending \/ PutBarrier \/ PutNothing \/ NotStarted
  \/ \E p \in Paths, c \in Texts : ToolWrites(p, c)
  \/ Finalize \/ FinalizeFails

RestoreNext ==
  \/ Plan \/ Verify \/ Invalidate \/ Commit \/ RestoreFails
  \/ \E m \in RangeSet, p \in Paths : Apply(m, p) \/ OutcomeUnknown(m, p)
  \/ \E p \in Paths : Validate(p) \/ Undo(p)
  \/ UndoFails \/ PutBack \/ RestoreEnds

Next ==
  \/ StartTurn \/ EndTurn \/ AbortCall \/ Compact \/ OtherCalls \/ OtherEnds \/ Enter
  \/ \E scope \in SUBSET Paths \ {{}} : CallTool("tool", scope)
  \/ CallTool("command", Paths)
  \/ ToolNext
  \/ \E m \in DOMAIN manifests, op \in {"files", "chat"} : RequestRestore(m, op)
  \/ \E withFiles \in BOOLEAN : RequestEdit(withFiles)
  \/ RestoreNext
  \/ \E p \in Paths, c \in Contents : Outside(p, c)
  \/ Crash

Spec == Init /\ [][Next]_vars

-----------------------------------------------------------------------------
TypeOK ==
  /\ files \in [Paths -> Contents]
  /\ \A m \in DOMAIN manifests :
       /\ manifests[m].seq \in Nat /\ manifests[m].turn \in DOMAIN start
       /\ manifests[m].status \in {"pending", "ready", "invalidated", "removed"}
       /\ manifests[m].complete \in BOOLEAN
       /\ Touched(m) \subseteq Paths /\ DOMAIN manifests[m].after \subseteq Touched(m)
       /\ m \in Complete => DOMAIN manifests[m].after = Touched(m)
  /\ turn \in 0..Len(start) /\ call \in BOOLEAN /\ started \in BOOLEAN
  /\ chat \subseteq DOMAIN start
  /\ started => queue # <<>>
  /\ tool.pc \in {"idle", "prepare", "put", "execute"}
  /\ rest.pc \in {"idle", "plan", "validate", "apply", "invalidate", "commit", "undo", "done"}
  /\ broken \subseteq (DOMAIN manifests) \X Paths
  /\ Len(start) <= MaxTurns

(* session.ts:3307: after files and conversation were taken back to a turn,  *)
(* the turn never happened: every file is what it was when the turn began.  *)
(* What a manifest does not tell of (someone else's edit, a crash within a   *)
(* tool, a barrier that was lost) is the exception.                         *)
TurnUndone ==
  rest.pc = "done" /\ rest.op = "chat" /\ rest.why = "none" =>
    \A p \in Paths : start[rest.turn][p] \in {files[p], Unknown}

(* restore-transaction.ts:30, docs/02:230: a rollback does not write over     *)
(* what someone else saved.  When it comes to a file that holds a text of    *)
(* someone else, that was saved after the file's own check; a save while a   *)
(* tool was writing the file is taken for the tool's (manager.ts:154).       *)
ForeignKept ==
  rest.pc = "apply" =>
    \A p \in PathsOf(RangeSet) \ (mixed \cup late) :
      In(RangeSet, p) \X {p} \subseteq rest.todo => files[p] \in Texts

(* restorePlan: the files, the manifests and the conversation change         *)
(* together or not at all.                                                  *)
AllOrNothing ==
  rest.pc = "done" /\ rest.clean =>
    IF rest.why = "none"
    THEN /\ \A p \in PathsOf(RangeSet) \ rest.meddled : files[p] = Original(p)
         /\ \A m \in RangeSet : manifests[m].status = "invalidated"
         /\ rest.op # "files" => rest.turn \notin chat
    ELSE /\ \A p \in PathsOf(RangeSet) \ rest.meddled : files[p] = rest.safety[p]
         /\ RangeSet \subseteq Ready
         /\ rest.op # "files" /\ rest.turn # NoTurn => rest.turn \in chat

(* A rollback is refused only because someone else changed a file: while     *)
(* nothing runs, what each tracked tool left in a file is what the next one  *)
(* found there, and the last one is what is there now.                      *)
ChainHolds ==
  rest.pc = "idle" /\ tool.pc = "idle" =>
    \A m \in Complete : \A p \in Touched(m) :
      LET later == {n \in In(Complete, p) : manifests[n].seq > manifests[m].seq}
      IN  \/ <<m, p>> \in broken
          \/ manifests[m].after[p] =
               IF later = {} THEN files[p] ELSE manifests[First(later)].before[p]

(* host-operation-scheduler.ts:44: a tool whose step was told that it is     *)
(* cancelled never starts, even when its turn in the queue comes.           *)
NoLateTool == tool.pc # "idle" => call

(* restore-transaction.ts:39, docs/02:230: a rollback that is refused because *)
(* a file was changed leaves the files alone.                               *)
RefusalTouchesNothing ==
  [][rest.pc = "undo" /\ rest.why = "conflict" /\ rest' # rest => files' = files]_vars
=============================================================================
