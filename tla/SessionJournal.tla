---------------------------- MODULE SessionJournal ----------------------------
(***************************************************************************)
(* The transcript of a session (packages/core/src/session): records as     *)
(* lines of an append-only file, each with the record before it as its     *)
(* parent (store.ts), and the replay of these lines when the session is    *)
(* opened (chain.ts).  An append is one write of one or two lines; it may  *)
(* fail or the process may die after any part of it.                       *)
(*                                                                         *)
(* The id of a record is its line.  A line that is not JSON is Torn; two   *)
(* records without a line break between them are one such line.            *)
(***************************************************************************)
EXTENDS SessionState

CONSTANTS Inputs,   \* ids of user inputs
          MaxLines  \* bound: lines of the transcript

ASSUME InputsAssumption == Inputs \subseteq Nat \ {0}
ASSUME MaxLinesAssumption == MaxLines \in Nat \ {0}

VARIABLES
  lines,   \* the transcript
  ended,   \* it ends with a line break
  mem,     \* the fields of SessionJournal the records are about
  leaf,    \* leafUuid
  stage,   \* "down", "loaded" (opened, not yet recovered) or "up"
  caller,  \* what the session is doing: idle, opening a turn, turn, restoring
  failed,  \* persistenceFailed of the session
  undo,    \* originalMessages of a rollback
  found    \* derived: what open() would load

vars == <<lines, ended, mem, leaf, stage, caller, failed, undo, found>>

-----------------------------------------------------------------------------
(* Records.                                                                 *)

NoParent == 0
Torn == [type |-> "torn", parent |-> NoParent]
SessionStart == [type |-> "session-start", parent |-> NoParent]

UserInput(parent, i, startsTurn, consumed) ==
  [type |-> "user-input", parent |-> parent, id |-> i, startsTurn |-> startsTurn,
   consumed |-> consumed]
TurnStart(parent, t, root) ==
  [type |-> "turn-start", parent |-> parent, turn |-> t, root |-> root]
Messages(parent, t, msgs, delivered) ==
  [type |-> "messages", parent |-> parent, turn |-> t, msgs |-> msgs,
   delivered |-> delivered]
TurnEnd(parent, t) == [type |-> "turn-end", parent |-> parent, turn |-> t]
Withdrawn(type, parent, ids) == [type |-> type, parent |-> parent, ids |-> ids]
Snapshot(m) ==
  [type |-> "snapshot", parent |-> NoParent, msgs |-> m.msgs,
   pending |-> m.pending, turn |-> m.turn, starts |-> m.starts]

-----------------------------------------------------------------------------
(* open(): the repair of the tail and the replay.                           *)

(* parseTranscript leaves out a last line that is not JSON; open() cuts it. *)
Repaired(ls) == IF Last(ls) = Torn THEN Front(ls) ELSE ls

(* buildActiveChain: from a record, of which the last one is the active one, *)
(* to one without a parent.                                                 *)
Chains(ls) ==
  LET upTo[n \in 0..Len(ls)] ==
        IF n = 0 THEN <<>> ELSE Append(upTo[ls[n].parent], ls[n])
  IN  upTo
\* Variant: every record of the file counts.
BadActiveChain(ls) == ls
ActiveChain(ls) == Chains(ls)[Len(ls)]

(* What the replay refuses: collectPendingUserInputs.                       *)
Fits(m, e) ==
  CASE e.type = "user-input" ->
         /\ ToSet(e.consumed) \subseteq InState(m, "restored")
         /\ e.startsTurn \/ \A p \in ToSet(m.pending) : p.id # e.id
    [] e.type = "messages" -> ToSet(e.delivered) \subseteq InState(m, "queued")
    [] e.type = "user-input-restored" -> ToSet(e.ids) \subseteq InState(m, "queued")
    [] e.type = "user-input-discarded" ->
         ToSet(e.ids) \subseteq {p.id : p \in ToSet(m.pending)}
    [] OTHER -> TRUE

(* collectMessages, collectPendingUserInputs, collectTurnStarts and         *)
(* findInterruptedWork for one record; roots are those a turn has taken.    *)
Replayed(m, e, roots) ==
  CASE e.type = "user-input" ->
         LET open == e.startsTurn /\ e.id \notin roots
             queued == [id |-> e.id, state |-> "queued"]
         IN  [m EXCEPT
                !.pending = Without(@, e.consumed)
                              \o (IF e.startsTurn THEN <<>> ELSE <<queued>>),
                !.msgs = IF open THEN Append(@, e.id) ELSE @,
                !.undelivered = IF open THEN Append(@, e.id) ELSE @]
    [] e.type = "turn-start" ->
         [m EXCEPT !.turn = e.turn,
                   !.starts = Append(@, [turn |-> e.turn, at |-> Len(m.msgs),
                                         root |-> e.root])]
    [] e.type = "messages" ->
         [m EXCEPT !.msgs = @ \o e.msgs, !.pending = Without(@, e.delivered)]
    [] e.type = "turn-end" ->
         [m EXCEPT !.turn = IF @ = e.turn THEN NoTurn ELSE @]
    [] e.type = "user-input-restored" ->
         [m EXCEPT !.pending = [n \in DOMAIN @ |->
            IF @[n].id \in ToSet(e.ids) THEN [@[n] EXCEPT !.state = "restored"]
            ELSE @[n]]]
    [] e.type = "user-input-discarded" -> [m EXCEPT !.pending = Without(@, e.ids)]
    [] e.type = "snapshot" ->
         [msgs |-> e.msgs, pending |-> e.pending, undelivered |-> <<>>,
          turn |-> e.turn, starts |-> e.starts]
    [] OTHER -> m

(* findUndeliveredUserInputs.                                               *)
TakenRoots(chain) == {e.root : e \in {r \in ToSet(chain) : r.type = "turn-start"}}

After(m, e, roots) ==
  IF m = Nothing \/ ~Fits(m, e) THEN Nothing ELSE Replayed(m, e, roots)
ReplayWith(chain, roots) ==
  LET upTo[n \in 0..Len(chain)] ==
        IF n = 0 THEN EmptySession ELSE After(upTo[n - 1], chain[n], roots)
  IN  upTo[Len(chain)]
Replay(chain) == ReplayWith(chain, TakenRoots(chain))

(* parseTranscript and buildLoadedSession.                                  *)
Loaded(ls) ==
  LET whole == IF Last(ls) = Torn THEN Front(ls) ELSE ls
  IN  IF Torn \in ToSet(whole) THEN Nothing ELSE Replay(ActiveChain(whole))

-----------------------------------------------------------------------------
(* appendEntries and appendEdit.                                            *)

(* The line the next record is written on, which is also its id.            *)
\* Variant: the last line always has its end.
BadNextLine == Len(lines) + 1
NextLine == IF ended THEN Len(lines) + 1 ELSE Len(lines)

(* ls follows what is in the file, on its last line if that has no end.     *)
Followed(ls) ==
  IF ls = <<>> THEN lines
  ELSE IF ended THEN lines \o ls
  ELSE Append(Front(lines), Torn) \o Tail(ls)

(* Where a write can be cut: n records are complete and followed by nothing *)
(* else, by a part of the next, or by no line break.                        *)
Cuts(es) ==
  {c \in [n : 0..Len(es), rest : {"none", "part", "no-break"}] :
     /\ c.rest = "part" => c.n < Len(es)
     /\ c.rest = "no-break" => c.n > 0}

WriteCut(es, c) ==
  /\ lines' = Followed(SubSeq(es, 1, c.n) \o (IF c.rest = "part" THEN <<Torn>> ELSE <<>>))
  /\ ended' = IF c.n = 0 /\ c.rest = "none" THEN ended ELSE c.rest = "none"

Succeeds(es, m) ==
  /\ lines' = Followed(es) /\ ended' = TRUE
  /\ leaf' = NextLine + Len(es) - 1
  /\ mem' = m

(* The process goes on; of appendEdit, whose truncation may fail as well,   *)
(* the same is left behind in the worst case.                               *)
Fails(es) ==
  /\ \E c \in Cuts(es) : WriteCut(es, c)
  /\ UNCHANGED <<mem, leaf, stage>>

Dies ==
  /\ stage' = "down" /\ caller' = "idle" /\ failed' = FALSE /\ undo' = <<>>
  /\ UNCHANGED <<mem, leaf>>

(* What a rollback could go back to once the session is at c.               *)
Kept(c) ==
  IF c # "restoring" THEN <<>> ELSE IF caller = c THEN undo ELSE mem.msgs

(* An append of es which makes m of the session's state.  The session is at *)
(* next afterwards; when it fails, at other, with persistenceFailed = f.     *)
Record(es, m, next, other, f) ==
  /\ stage = "up" /\ Len(lines) + Len(es) <= MaxLines
  /\ \/ /\ Succeeds(es, m)
        /\ caller' = next /\ undo' = Kept(next) /\ UNCHANGED <<stage, failed>>
     \/ /\ Fails(es)
        /\ caller' = other /\ undo' = Kept(other) /\ failed' = f
     \/ (\E c \in Cuts(es) : WriteCut(es, c)) /\ Dies

(* The host records it; a failure does not stop the session.                *)
HostRecord(es, m, next) == Record(es, m, next, caller, failed)

(* persistRequired and persist.                                             *)
SessionRecord(es, m, next) == ~failed /\ Record(es, m, next, "idle", TRUE)

-----------------------------------------------------------------------------
(* The operations, as the host and the session call them.                   *)

Init ==
  /\ lines = <<SessionStart>> /\ ended = TRUE
  /\ mem = EmptySession /\ leaf = 1 /\ stage = "up"
  /\ caller = "idle" /\ failed = FALSE /\ undo = <<>>
  /\ found = Loaded(lines)

(* A new id.                                                                *)
Fresh(i) ==
  /\ \A n \in DOMAIN lines : lines[n].type = "user-input" => lines[n].id # i
  /\ i \notin ToSet(mem.undelivered) \cup ToSet(mem.msgs)
  /\ \A p \in ToSet(mem.pending) : p.id # i
IsNext(i) == Fresh(i) /\ \A j \in Inputs : j < i => ~Fresh(j)

(* recordUserInputWithId behind the routing gate; a root opens a turn.      *)
RecordUserInput(i, consumed) ==
  LET root == caller = "idle"
  IN  /\ IsNext(i)
      /\ HostRecord(<<UserInput(leaf, i, root, consumed)>>,
                    Received(mem, i, root, consumed),
                    IF root /\ ~failed THEN "opening" ELSE caller)

(* recordTurnStart: for a root, for the oldest queued input or for a        *)
(* notification.                                                            *)
RecordTurnStart(root, delivered) ==
  LET t == NextLine
  IN  /\ IF root # NoInput THEN caller = "opening" /\ root = Last(mem.undelivered)
                           ELSE caller = "idle"
      /\ SessionRecord(<<TurnStart(leaf, t, root),
                         Messages(t, t, Carried(root, delivered), delivered)>>,
                       Started(mem, t, root, delivered), "turn")

(* recordStep: a step of the model, or an input delivered at a boundary.    *)
RecordStep(delivered) ==
  /\ caller = "turn"
  /\ SessionRecord(<<Messages(leaf, mem.turn,
                              IF delivered = <<>> THEN <<Reply>> ELSE delivered,
                              delivered)>>,
                   Stepped(mem, delivered), "turn")

RecordTurnEnd ==
  /\ caller = "turn"
  /\ SessionRecord(<<TurnEnd(leaf, mem.turn)>>, Ended(mem), "idle")

(* recordSnapshot for a compaction, in a turn or by hand.                   *)
Compact ==
  /\ caller \in {"idle", "turn"} /\ mem.undelivered = <<>>
  /\ SessionRecord(<<Snapshot(Compacted(mem))>>, Compacted(mem), caller)

(* recordSnapshot for a rollback with the conversation.                     *)
Rollback(s) ==
  /\ caller = "idle" /\ mem.undelivered = <<>> /\ s.at < Len(mem.msgs)
  /\ HostRecord(<<Snapshot(RolledBack(mem, s))>>, RolledBack(mem, s), "restoring")

(* The rest of the restore succeeds, or fails and is compensated.           *)
RollbackEnds ==
  /\ caller = "restoring" /\ caller' = "idle" /\ undo' = <<>>
  /\ UNCHANGED <<lines, ended, mem, leaf, stage, failed>>

TakeBack ==
  /\ caller = "restoring"
  /\ Record(<<Snapshot(Replaced(mem, undo))>>, Replaced(mem, undo),
            "idle", "idle", failed)

(* recordTurnEditInput for the last turn with a root, if nothing else was    *)
(* said after it.                                                           *)
EditTurn(s, i) ==
  LET m == RolledBack(mem, s)
      said == {x \in ToSet(SubSeq(mem.msgs, s.at + 1, Len(mem.msgs))) : x \in Inputs}
  IN  /\ caller = "idle" /\ ~failed /\ IsNext(i)
      /\ mem.undelivered = <<>> /\ mem.pending = <<>> /\ mem.turn = NoTurn
      /\ s.root # NoInput /\ s.at < Len(mem.msgs) /\ said = {s.root}
      /\ HostRecord(<<Snapshot([m EXCEPT !.pending = <<>>]),
                      UserInput(NextLine, i, TRUE, <<>>)>>,
                    Edited(mem, s, i), "opening")

(* markUserInputsRestored: to the draft, in place of what was there.        *)
MarkRestored(i, replaced) ==
  LET first == Withdrawn("user-input-restored", leaf, <<i>>)
      second == Withdrawn("user-input-discarded", NextLine, replaced)
  IN  HostRecord(<<first>> \o (IF replaced = <<>> THEN <<>> ELSE <<second>>),
                 Discarded(Restored(mem, i), replaced), caller)

MarkDiscarded(i) ==
  HostRecord(<<Withdrawn("user-input-discarded", leaf, <<i>>)>>,
             Discarded(mem, <<i>>), caller)

Crash == stage # "down" /\ Dies /\ UNCHANGED <<lines, ended>>

Open ==
  /\ stage = "down" /\ found # Nothing
  /\ lines' = Repaired(lines) /\ ended' = TRUE
  /\ mem' = found /\ leaf' = Len(lines') /\ stage' = "loaded"
  /\ UNCHANGED <<caller, failed, undo>>

(* recoverInterruptedWork.  When it fails the host does not take the         *)
(* session up, which is as if the process had died.                         *)
Recover ==
  LET es == <<Snapshot(Recovered(mem))>>
  IN  /\ stage = "loaded"
      /\ IF ~Interrupted(mem)
         THEN stage' = "up" /\ UNCHANGED <<lines, ended, mem, leaf, caller, failed, undo>>
         ELSE /\ Len(lines) < MaxLines
              /\ \/ /\ Succeeds(es, Recovered(mem))
                    /\ stage' = "up" /\ UNCHANGED <<caller, failed, undo>>
                 \/ (\E c \in Cuts(es) : WriteCut(es, c)) /\ Dies

Drafts == {<<>>} \cup {<<c>> : c \in InState(mem, "restored")}
Queued == InState(mem, "queued")

Operations ==
  \/ \E i \in Inputs, consumed \in Drafts : RecordUserInput(i, consumed)
  \/ \E root \in ToSet(mem.undelivered) : RecordTurnStart(root, <<>>)
  \/ \E delivered \in {<<>>} \cup {<<q>> : q \in Queued} :
       \/ RecordTurnStart(NoInput, delivered)
       \/ RecordStep(delivered)
  \/ RecordTurnEnd
  \/ Compact
  \/ \E s \in ToSet(mem.starts) : Rollback(s) \/ \E i \in Inputs : EditTurn(s, i)
  \/ RollbackEnds
  \/ TakeBack
  \/ \E i \in Queued, replaced \in Drafts : MarkRestored(i, replaced)
  \/ \E i \in Queued : MarkDiscarded(i)
  \/ Crash
  \/ Open
  \/ Recover

Next == Operations /\ found' = Loaded(lines')

Spec == Init /\ [][Next]_vars

-----------------------------------------------------------------------------
(* Properties.                                                              *)

Ids(m) == m.undelivered \o [n \in DOMAIN m.pending |-> m.pending[n].id]

(* Every variable keeps its type; the leaf is a record of the file unless   *)
(* it was written behind a line without end.                                *)
TypeOK ==
  /\ Len(lines) \in 1..MaxLines /\ ended \in BOOLEAN
  /\ leaf \in DOMAIN lines /\ failed \in BOOLEAN
  /\ stage \in {"down", "loaded", "up"}
  /\ caller \in {"idle", "opening", "turn", "restoring"}
  /\ mem.turn \in 0..MaxLines /\ ToSet(Ids(mem)) \subseteq Inputs
  /\ \A n \in DOMAIN lines : lines[n].parent < n

(* The transcript keeps the promise of the journal: in spite of writes that *)
(* fail, are cut or are found although they failed, opening the session      *)
(* replays exactly the state the operations had built in memory.            *)
Damaged == stage = "up" /\ (~ended \/ Torn \in ToSet(lines))
Promise == INSTANCE Journal WITH
  saved <- found, damaged <- Damaged, Turns <- 1..MaxLines
Implements == Promise!Spec

(* No input is at two places in what a reopening finds: it would be          *)
(* answered twice (chain.ts 251).                                           *)
Single(m) ==
  /\ \A j, k \in DOMAIN m.msgs : m.msgs[j] = m.msgs[k] /\ m.msgs[j] \in Inputs => j = k
  /\ \A j, k \in DOMAIN m.pending : m.pending[j].id = m.pending[k].id => j = k
  /\ \A k \in DOMAIN m.pending : m.pending[k].id \notin ToSet(m.msgs)
NoDouble == Single(found)

(* A root message that was accepted and not yet taken by a turn is among the *)
(* messages when the session is opened again, whatever was cut by the death  *)
(* of the process (the test at store.test.ts 694).                          *)
RootSurvives ==
  stage = "down" /\ Torn \notin ToSet(Front(lines)) =>
    ToSet(mem.undelivered) \subseteq ToSet(found.msgs)
=============================================================================
