----------------------------- MODULE SessionState -----------------------------
(***************************************************************************)
(* The state of a session's journal and what each of its operations makes  *)
(* of it: the fields of SessionJournal (packages/core/src/session/store.ts) *)
(* that the records of inputs, turns and snapshots are about.              *)
(*                                                                         *)
(* msgs are the messages of the model: ids of inputs, and other messages.  *)
(* pending are the inputs that wait in the queue or as a draft, in order.  *)
(* undelivered are the root inputs no turn has taken.  starts are the      *)
(* turns one can return to: their root input, and how many messages came   *)
(* before them.                                                            *)
(***************************************************************************)
EXTENDS FiniteSets, Queues

NoTurn == 0
NoInput == 0

(* Messages that are no inputs.                                             *)
Note == -1      \* a notification
Reply == -2     \* a step of the model
Summary == -3   \* of a compaction
Aborted == -4   \* the marker of an interrupted turn

EmptySession == [msgs |-> <<>>, pending |-> <<>>, undelivered |-> <<>>,
                 turn |-> NoTurn, starts |-> <<>>]

(* open() throws.                                                           *)
Nothing == [EmptySession EXCEPT !.turn = -1]

\* Variant: what has been delivered keeps waiting.
BadWithout(seq, ids) == seq
Without(seq, ids) == Chosen(seq, {p \in ToSet(seq) : p.id \notin ToSet(ids)})
InState(m, s) == {p.id : p \in {q \in ToSet(m.pending) : q.state = s}}

(* Loading puts roots that no turn has taken into the messages.             *)
Seen(m) == [m EXCEPT !.msgs = @ \o m.undelivered]

-----------------------------------------------------------------------------
(* What each operation makes of a session.                                  *)

Received(m, i, startsTurn, consumed) ==
  LET rest == Without(m.pending, consumed)
  IN  IF startsTurn
      THEN [m EXCEPT !.pending = rest, !.undelivered = Append(@, i)]
      ELSE [m EXCEPT !.pending = Append(rest, [id |-> i, state |-> "queued"])]

(* recordTurnStart; a turn without inputs is started by a notification.     *)
Carried(root, delivered) ==
  IF root # NoInput THEN <<root>> \o delivered
  ELSE IF delivered = <<>> THEN <<Note>> ELSE delivered

Started(m, t, root, delivered) ==
  [msgs |-> m.msgs \o Carried(root, delivered),
   pending |-> Without(m.pending, delivered),
   undelivered |-> Chosen(m.undelivered, ToSet(m.undelivered) \ {root}),
   turn |-> t,
   starts |-> Append(m.starts, [turn |-> t, at |-> Len(m.msgs), root |-> root])]

(* The turn-start record alone: its root counts as delivered.               *)
HalfStarted(m, t, root) ==
  LET others == Chosen(m.undelivered, ToSet(m.undelivered) \ {root})
      base == m.msgs \o others
  IN  [m EXCEPT !.msgs = base, !.undelivered = others, !.turn = t,
                !.starts = Append(@, [turn |-> t, at |-> Len(base), root |-> root])]

Stepped(m, delivered) ==
  [m EXCEPT !.msgs = @ \o (IF delivered = <<>> THEN <<Reply>> ELSE delivered),
            !.pending = Without(@, delivered)]

Ended(m) == [m EXCEPT !.turn = NoTurn]

(* turnStartsWithin.                                                        *)
StartsWithin(m, msgs) == Chosen(m.starts, {s \in ToSet(m.starts) : s.at < Len(msgs)})

Compacted(m) == [m EXCEPT !.msgs = <<Summary>>, !.starts = <<>>]

Replaced(m, msgs) ==
  [m EXCEPT !.msgs = msgs, !.turn = NoTurn, !.starts = StartsWithin(m, msgs)]

RolledBack(m, s) == Replaced(m, SubSeq(m.msgs, 1, s.at))

Edited(m, s, i) == [RolledBack(m, s) EXCEPT !.pending = <<>>, !.undelivered = <<i>>]

Restored(m, i) ==
  [m EXCEPT !.pending =
     [n \in DOMAIN @ |-> IF @[n].id = i THEN [@[n] EXCEPT !.state = "restored"]
                         ELSE @[n]]]
Discarded(m, ids) == [m EXCEPT !.pending = Without(@, ids)]

Interrupted(m) == m.turn # NoTurn \/ m.undelivered # <<>>
Recovered(m) ==
  LET msgs == Append(m.msgs, Aborted)
  IN  [Replaced(m, msgs) EXCEPT !.undelivered = <<>>]
=============================================================================
