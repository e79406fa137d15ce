-------------------------------- MODULE Journal --------------------------------
(***************************************************************************)
(* What the journal of a session promises (SessionJournal in               *)
(* packages/core/src/session/store.ts): a session state in memory and the  *)
(* state a reopening would find.  An operation changes both or fails; a    *)
(* failed operation leaves memory alone and may or may not be found again. *)
(* SessionJournal.tla shows how lines of text keep this promise.           *)
(***************************************************************************)
EXTENDS SessionState

CONSTANTS Inputs,  \* ids of user inputs
          Turns    \* ids of turns

VARIABLES
  mem,      \* the fields of SessionJournal
  saved,    \* what SessionStore.open would load
  damaged,  \* a write has failed half way since the journal was opened
  stage,    \* "down", "loaded" (before recoverInterruptedWork) or "up"
  undo      \* messages before a rollback, while it may be taken back

vars == <<mem, saved, damaged, stage, undo>>

-----------------------------------------------------------------------------
Init ==
  /\ mem = EmptySession /\ saved = EmptySession
  /\ damaged = FALSE /\ stage = "up" /\ undo = <<>>

(* An operation that makes m of the session.  halves: what may be found if  *)
(* it is cut between its records.  Nothing is promised about what is found  *)
(* while operations go on after a write that failed half way.               *)
Write(m, halves, next) ==
  \/ /\ mem' = m /\ stage' = next /\ UNCHANGED damaged
     /\ damaged \/ saved' = Seen(m)
  \/ /\ UNCHANGED mem
     /\ damaged \/ saved' \in {saved, Seen(m)} \cup halves
     /\ \/ stage' = stage /\ damaged' \in {damaged, TRUE}
        \/ stage' = "down" /\ damaged' = FALSE

Up(m, halves) == stage = "up" /\ Write(m, halves, "up")

RecordUserInput ==
  \E i \in Inputs, startsTurn \in BOOLEAN,
     consumed \in {<<>>} \cup {<<c>> : c \in InState(mem, "restored")} :
       Up(Received(mem, i, startsTurn, consumed), {})

RecordTurnStart ==
  \E t \in Turns, root \in ToSet(mem.undelivered) \cup {NoInput},
     delivered \in {<<>>} \cup {<<q>> : q \in InState(mem, "queued")} :
       Up(Started(mem, t, root, delivered), {HalfStarted(mem, t, root)})

RecordStep ==
  \E delivered \in {<<>>} \cup {<<q>> : q \in InState(mem, "queued")} :
    Up(Stepped(mem, delivered), {})

RecordTurnEnd == Up(Ended(mem), {})

Compact == mem.undelivered = <<>> /\ Up(Compacted(mem), {})

EditTurn ==
  /\ mem.undelivered = <<>> /\ mem.pending = <<>> /\ mem.turn = NoTurn
  /\ \E s \in ToSet(mem.starts), i \in Inputs :
       Up(Edited(mem, s, i), {RolledBack(mem, s)})

MarkRestored ==
  \E i \in InState(mem, "queued"),
     old \in {<<>>} \cup {<<c>> : c \in InState(mem, "restored")} :
       Up(Discarded(Restored(mem, i), old), {Seen(Restored(mem, i))})

MarkDiscarded == \E i \in InState(mem, "queued") : Up(Discarded(mem, <<i>>), {})

Rollback ==
  /\ mem.undelivered = <<>>
  /\ \E s \in ToSet(mem.starts) : Up(RolledBack(mem, s), {})
  /\ undo' \in {undo, mem.msgs}

(* A rollback whose files could not follow is taken back.                   *)
TakeBack ==
  /\ mem.undelivered = <<>> /\ undo # <<>>
  /\ Up(Replaced(mem, undo), {})
  /\ undo' = <<>>

Crash ==
  /\ stage' = "down" /\ damaged' = FALSE /\ undo' = <<>>
  /\ UNCHANGED <<mem, saved>>

Open ==
  /\ stage = "down" /\ saved # Nothing
  /\ mem' = saved /\ stage' = "loaded" /\ UNCHANGED <<saved, damaged, undo>>

(* recoverInterruptedWork; when it fails the session stays closed.          *)
Recover ==
  /\ stage = "loaded" /\ UNCHANGED undo
  /\ IF Interrupted(mem) THEN Write(Recovered(mem), {}, "up") /\ stage' # "loaded"
     ELSE stage' = "up" /\ UNCHANGED <<mem, saved, damaged>>

Recording ==
  /\ \/ RecordUserInput \/ RecordTurnStart \/ RecordStep \/ RecordTurnEnd
     \/ Compact \/ EditTurn \/ MarkRestored \/ MarkDiscarded
  /\ undo' = IF stage' = "down" THEN <<>> ELSE undo

RollbackEnds == undo # <<>> /\ undo' = <<>> /\ UNCHANGED <<mem, saved, damaged, stage>>

Next ==
  Recording \/ Rollback \/ TakeBack \/ RollbackEnds \/ Crash \/ Open \/ Recover

Spec == Init /\ [][Next]_vars
=============================================================================
