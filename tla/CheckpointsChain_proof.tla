------------------------- MODULE CheckpointsChain_proof -------------------------
(***************************************************************************)
(* Proofs about what the manifests of Checkpoints tell of the past           *)
(* (HistInv): the chain of each file, and what each turn began with.  From    *)
(* them follow ChainHolds, that a rollback is refused only because of someone *)
(* else, and TurnUndone, that a turn that was taken back never happened.     *)
(*                                                                         *)
(* Both speak of moments when nothing runs, or when a restore is done.  The   *)
(* invariant follows them through every moment between: a file that a tool    *)
(* or a restore is writing is, for its manifests, what the tool or the        *)
(* restore found (Base); manifests that a restore has in its hands count      *)
(* whether or not they are invalidated already (Known, Seen); and whoever     *)
(* writes behind the back of both breaks the chain and what is known of the   *)
(* turns at once (Lost).                                                    *)
(***************************************************************************)
EXTENDS Checkpoints_proof

-----------------------------------------------------------------------------
(* What manifests tell of the past of a file: those that are complete, and   *)
(* those that a restore has in its hands; the others are only known to exist. *)
Known == Complete \cup RangeSet
Seen == Ready \cup RangeSet
Outer == Complete \ RangeSet
KnownOf(p) == In(Known, p)
OuterOf(p) == In(Outer, p)

(* What a file is for them: what the tool that writes it, or the restore,    *)
(* found in it.                                                             *)
Base(p) ==
  IF tool.pc = "execute" /\ tool.id # NoManifest /\ p \in tool.scope THEN tool.before[p]
  ELSE IF rest.pc # "idle" /\ p \in PathsOf(RangeSet) THEN rest.safety[p]
  ELSE files[p]

(* Each of them left in the file what the next one found, and the last one   *)
(* what the file is, unless the file was changed behind its back.           *)
ChainAt(p) ==
  \A m \in KnownOf(p) :
    \/ <<m, p>> \in broken
    \/ /\ (\A n \in KnownOf(p) : n <= m) => manifests[m].after[p] = Base(p)
       /\ \A n \in KnownOf(p) :
            m < n /\ (\A k \in KnownOf(p) : m < k => n <= k)
            => manifests[m].after[p] = manifests[n].before[p]
ChainInv == \A p \in Paths : ChainAt(p)

(* The turn t began with what the first manifest since then found, or with   *)
(* what the file is.                                                        *)
Since(t) == {n \in Seen : manifests[n].turn >= t}
SinceOf(t, p) == In(Since(t), p)
Tracked(t) == \A n \in Since(t) : manifests[n].complete
Needed(t) == t = turn \/ \E n \in Known : manifests[n].turn = t
UndoneAt(t, p) ==
  \/ start[t][p] = Unknown
  \/ /\ SinceOf(t, p) = {} => start[t][p] = Base(p)
     /\ \A m \in SinceOf(t, p) :
          (\A n \in SinceOf(t, p) : m <= n) => start[t][p] = manifests[m].before[p]
UndoneInv ==
  \A t \in DOMAIN start : Needed(t) /\ Tracked(t) => \A p \in Paths : UndoneAt(t, p)

(* What was written to the file behind the back of all of them.             *)
LastBroken(M, p) == \A m \in M : (\A n \in M : n <= m) => <<m, p>> \in broken
Lost(p) ==
  /\ LastBroken(KnownOf(p), p)
  /\ \A t \in DOMAIN start : Needed(t) /\ Tracked(t) => start[t][p] = Unknown

TodoInv ==
  tool.pc \in {"put", "execute"} /\ tool.op = "tool" =>
    \A p \in tool.todo : files[p] = tool.before[p] \/ Lost(p)
KeptInv ==
  tool.pc = "execute" =>
    /\ tool.id # NoManifest => tool.id = Len(manifests)
    /\ tool.kept /\ tool.id = NoManifest =>
         \E n \in Ready : ~manifests[n].complete /\ manifests[n].turn = turn
MeddleInv ==
  rest.pc # "idle" => \A p \in rest.meddled : Lost(p) /\ LastBroken(OuterOf(p), p)
OrderInv == \A m \in RangeSet, n \in Outer : n < m
EditedInv ==
  Committed /\ rest.op = "edit" =>
    /\ \A m \in DOMAIN manifests : manifests[m].turn < Len(start)
    /\ Len(start) > 0 /\ \A p \in Paths : start[Len(start)][p] \in {files[p], Unknown}
ChatInv ==
  rest.pc \notin {"idle", "plan"} /\ rest.op = "chat" /\ rest.why # "refused" =>
    /\ RangeSet = Since(rest.turn) /\ Tracked(rest.turn) /\ Needed(rest.turn)
    /\ rest.turn \in DOMAIN start

HistInv ==
  /\ ChainInv /\ UndoneInv /\ TodoInv /\ KeptInv /\ MeddleInv /\ OrderInv /\ EditedInv /\ ChatInv

-----------------------------------------------------------------------------
(* What most steps keep: the manifests that tell something, and the history  *)
(* apart from what becomes unknown.                                         *)
SameKnown ==
  /\ Known' = Known
  /\ \A m \in Known : /\ manifests'[m].before = manifests[m].before
                      /\ manifests'[m].after = manifests[m].after
                      /\ manifests'[m].turn = manifests[m].turn
SameManifests ==
  /\ Known' = Known /\ Seen' = Seen
  /\ \A m \in Seen : /\ manifests'[m].before = manifests[m].before
                     /\ manifests'[m].after = manifests[m].after
                     /\ manifests'[m].turn = manifests[m].turn
                     /\ manifests'[m].complete = manifests[m].complete
SameStarts ==
  /\ broken \subseteq broken'
  /\ \A t \in DOMAIN start : /\ t \in DOMAIN start'
                             /\ \A p \in Paths : start'[t][p] \in {start[t][p], Unknown}
SameNeeds ==
  \A t \in DOMAIN start' :
    Needed(t)' /\ Tracked(t)' => t \in DOMAIN start /\ Needed(t) /\ Tracked(t)

(* A manifest of Known is one of Seen.                                      *)
LEMMA KnownSeen == Known \subseteq Seen /\ Outer \subseteq Known
  BY DEF Known, Seen, Outer, Complete

(* What they know of each file is the same.                                 *)
LEMMA SameKnownOf ==
  ASSUME SameKnown
  PROVE  \A p : KnownOf(p)' = KnownOf(p)
  BY DEF SameKnown, KnownOf, In, Touched

(* So the manifests of each file are the same.                              *)
LEMMA SameOf ==
  ASSUME SameManifests
  PROVE  /\ SameKnown
         /\ \A t, p : SinceOf(t, p)' = SinceOf(t, p)
         /\ \A t : Tracked(t)' <=> Tracked(t)
<1>1. SameKnown
  BY KnownSeen DEF SameManifests, SameKnown
<1>2. \A t : Since(t)' = Since(t)
  BY DEF SameManifests, Since
<1>3. \A t, p : SinceOf(t, p)' = SinceOf(t, p)
  BY <1>2 DEF SameManifests, Since, SinceOf, In, Touched
<1>4. \A t : Tracked(t)' <=> Tracked(t)
  BY <1>2 DEF SameManifests, Since, Tracked
<1> QED BY <1>1, <1>3, <1>4

(* What is lost stays lost.                                                 *)
LEMMA LostKept ==
  ASSUME SameKnown, SameStarts, SameNeeds, NEW p \in Paths, Lost(p)
  PROVE  Lost(p)'
<1>1. LastBroken(KnownOf(p), p)'
  BY SameKnownOf DEF Lost, LastBroken, SameStarts
<1>2. ASSUME NEW t \in DOMAIN start', Needed(t)', Tracked(t)' PROVE start'[t][p] = Unknown
  BY <1>2 DEF Lost, SameNeeds, SameStarts
<1> QED BY <1>1, <1>2 DEF Lost

(* The chain holds on unless a file changes, and then its end is broken.     *)
LEMMA ChainKept ==
  ASSUME ChainInv, SameKnown, SameStarts,
         \A p \in Paths : Base(p)' = Base(p) \/ LastBroken(KnownOf(p), p)'
  PROVE  ChainInv'
<1> SUFFICES ASSUME NEW p \in Paths PROVE ChainAt(p)'
  BY DEF ChainInv
<1>0. KnownOf(p)' = KnownOf(p)
  BY SameKnownOf
<1> SUFFICES ASSUME NEW m \in KnownOf(p), <<m, p>> \notin broken'
             PROVE  /\ (\A n \in KnownOf(p) : n <= m) => manifests'[m].after[p] = Base(p)'
                    /\ \A n \in KnownOf(p) :
                         m < n /\ (\A k \in KnownOf(p) : m < k => n <= k)
                         => manifests'[m].after[p] = manifests'[n].before[p]
  BY <1>0 DEF ChainAt
<1>1. /\ <<m, p>> \notin broken /\ \A n \in KnownOf(p) : n \in Seen
      /\ (\A n \in KnownOf(p) : n <= m) => manifests[m].after[p] = Base(p)
      /\ \A n \in KnownOf(p) :
           m < n /\ (\A k \in KnownOf(p) : m < k => n <= k)
           => manifests[m].after[p] = manifests[n].before[p]
  BY KnownSeen DEF ChainInv, ChainAt, SameStarts, KnownOf, In
<1>2. \A n \in KnownOf(p) : /\ manifests'[n].after = manifests[n].after
                            /\ manifests'[n].before = manifests[n].before
  BY DEF SameKnown, KnownOf, In
<1>3. ASSUME \A n \in KnownOf(p) : n <= m PROVE Base(p)' = Base(p)
  BY <1>3, SameKnownOf DEF LastBroken
<1> QED BY <1>1, <1>2, <1>3

(* So do the turns.                                                         *)
LEMMA UndoneKept ==
  ASSUME UndoneInv, SameManifests, SameStarts,
         NEW t \in DOMAIN start, Needed(t), Tracked(t)',
         \A p \in Paths : Base(p)' = Base(p) \/ start'[t][p] = Unknown
  PROVE  \A p \in Paths : UndoneAt(t, p)'
<1> SUFFICES ASSUME NEW p \in Paths PROVE UndoneAt(t, p)'
  OBVIOUS
<1>1. UndoneAt(t, p)
  BY SameOf DEF UndoneInv
<1>2. \A m \in SinceOf(t, p) : manifests'[m].before = manifests[m].before
  BY DEF SameManifests, SinceOf, Since, In
<1>3. start'[t][p] \in {start[t][p], Unknown}
  BY DEF SameStarts
<1>4. SinceOf(t, p)' = SinceOf(t, p)
  BY SameOf
<1> QED BY <1>1, <1>2, <1>3, <1>4 DEF UndoneAt

(* Both, for a step that starts no turn.                                    *)
LEMMA Kept ==
  ASSUME ChainInv, UndoneInv, SameManifests, SameStarts, SameNeeds,
         \A p \in Paths : Base(p)' = Base(p) \/ Lost(p)'
  PROVE  ChainInv' /\ UndoneInv'
<1>1. ChainInv'
  BY SameOf, ChainKept DEF Lost
<1>2. ASSUME NEW t \in DOMAIN start', Needed(t)', Tracked(t)' PROVE \A p \in Paths : UndoneAt(t, p)'
  <2>1. t \in DOMAIN start /\ Needed(t)
    BY <1>2 DEF SameNeeds
  <2>2. \A p \in Paths : Base(p)' = Base(p) \/ start'[t][p] = Unknown
    BY <1>2 DEF Lost
  <2> QED BY <1>2, <2>1, <2>2, UndoneKept
<1> QED BY <1>1, <1>2 DEF UndoneInv

(* A step that writes no manifest and keeps the range.                      *)
LEMMA RangeSame ==
  ASSUME manifests' = manifests, RangeSet' = RangeSet
  PROVE  /\ SameManifests /\ SameKnown /\ Outer' = Outer /\ PathsOf(RangeSet)' = PathsOf(RangeSet)
         /\ Known' = Known /\ Ready' = Ready
<1>1. Ready' = Ready /\ Complete' = Complete
  BY DEF Ready, Complete, Listed
<1>2. Known' = Known /\ Seen' = Seen /\ Outer' = Outer
  BY <1>1 DEF Known, Seen, Outer
<1>3. PathsOf(RangeSet)' = PathsOf(RangeSet)
  BY DEF PathsOf, Touched
<1>4. SameManifests
  BY <1>2 DEF SameManifests
<1> QED BY <1>1, <1>2, <1>3, <1>4, SameOf

(* The turns that are needed are those of the manifests, and the one that    *)
(* runs.                                                                    *)
LEMMA NeedsSame ==
  ASSUME SameKnown
  PROVE  /\ turn' = turn => \A t : Needed(t)' <=> Needed(t)
         /\ turn' = NoTurn => \A t : t # NoTurn /\ Needed(t)' => Needed(t)
  BY DEF SameKnown, Needed

(* So no step that only ends a turn needs more of them.                     *)
LEMMA NeedsKept ==
  ASSUME BaseInv, SameManifests, DOMAIN start' = DOMAIN start, turn' = turn \/ turn' = NoTurn
  PROVE  SameNeeds
<1>1. NoTurn \notin DOMAIN start
  BY TypesAre DEF BaseInv, NoTurn
<1> QED BY <1>1, SameOf, NeedsSame DEF SameNeeds

(* A step of someone who is not the restore.                                *)
LEMMA RestSame ==
  ASSUME BaseInv, HistInv, SameManifests, SameKnown, SameStarts, SameNeeds, rest' = rest, turn' = turn,
         Outer' = Outer, RangeSet' = RangeSet, rest.pc # "idle" => manifests' = manifests,
         rest.pc # "idle" => files' = files /\ start' = start
  PROVE  MeddleInv' /\ OrderInv' /\ EditedInv' /\ ChatInv'
<1>1. MeddleInv'
  <2> SUFFICES ASSUME rest.pc # "idle", NEW p \in rest.meddled
               PROVE Lost(p)' /\ LastBroken(OuterOf(p), p)'
    BY DEF MeddleInv
  <2>1. p \in Paths
    BY TypesAre DEF BaseInv, RestTyped
  <2>2. Lost(p) /\ LastBroken(OuterOf(p), p)
    BY DEF HistInv, MeddleInv
  <2>3. Lost(p)'
    BY <2>1, <2>2, LostKept
  <2>4. OuterOf(p)' = OuterOf(p)
    BY DEF OuterOf, In, Touched
  <2> QED BY <2>2, <2>3, <2>4 DEF LastBroken, SameStarts
<1>2. OrderInv'
  BY DEF HistInv, OrderInv
<1>3. EditedInv'
  <2>1. CASE rest.pc = "idle"
    BY <2>1 DEF EditedInv, Committed
  <2>2. CASE rest.pc # "idle"
    BY <2>2 DEF HistInv, EditedInv, Committed
  <2> QED BY <2>1, <2>2
<1>4. ChatInv'
  <2> SUFFICES ASSUME rest.pc \notin {"idle", "plan"}, rest.op = "chat", rest.why # "refused"
               PROVE /\ RangeSet' = Since(rest.turn)' /\ Tracked(rest.turn)' /\ Needed(rest.turn)'
                     /\ rest.turn \in DOMAIN start'
    BY DEF ChatInv
  <2>1. /\ RangeSet = Since(rest.turn) /\ Tracked(rest.turn) /\ Needed(rest.turn)
        /\ rest.turn \in DOMAIN start
    BY DEF HistInv, ChatInv
  <2>2. Since(rest.turn)' = Since(rest.turn)
    BY DEF SameManifests, Since
  <2> QED BY <2>1, <2>2, NeedsSame, SameOf DEF SameStarts
<1> QED BY <1>1, <1>2, <1>3, <1>4

(* What the turns began with is forgotten, of some of them or of some files. *)
LEMMA RememberedIs ==
  ASSUME BaseInv, NEW T, NEW P, start' = Remembered(T, P), broken \subseteq broken'
  PROVE  /\ DOMAIN start' = DOMAIN start /\ SameStarts
         /\ \A t \in DOMAIN start : \A p \in Paths : p \in P => start'[t][p] = Unknown
<1>1. DOMAIN start' = DOMAIN start
  BY DEF Remembered
<1>2. \A t \in DOMAIN start : \A p \in Paths :
        start'[t][p] = IF t \in T /\ p \notin P THEN start[t][p] ELSE Unknown
  BY DEF Remembered
<1> QED BY <1>1, <1>2 DEF SameStarts

(* The queue, the compaction, the end of a turn: no file and no manifest is  *)
(* touched; turns are only forgotten.                                       *)
LEMMA HistQueueStep ==
  ASSUME BaseInv, HistInv, tool' = tool, rest' = rest,
         UNCHANGED <<files, manifests, broken>>,
         start' = start \/ (rest.pc = "idle" /\ \E T : start' = Remembered(T, {})),
         turn' = turn \/ (turn' = NoTurn /\ tool.pc = "idle" /\ rest.pc = "idle")
  PROVE  HistInv'
<1>1. RangeSet' = RangeSet
  BY DEF RangeSet
<1>2. SameManifests /\ SameKnown /\ Outer' = Outer /\ PathsOf(RangeSet)' = PathsOf(RangeSet) /\ Ready' = Ready
  BY <1>1, RangeSame
<1>3. SameStarts /\ DOMAIN start' = DOMAIN start
  <2>1. CASE start' = start
    BY <2>1 DEF SameStarts
  <2>2. CASE \E T : start' = Remembered(T, {})
    BY <2>2, RememberedIs
  <2> QED BY <2>1, <2>2
<1>4. SameNeeds
  BY <1>2, <1>3, NeedsKept
<1>5. \A p \in Paths : Base(p)' = Base(p)
  BY <1>2 DEF Base
<1>6. ChainInv' /\ UndoneInv'
  BY <1>2, <1>3, <1>4, <1>5, Kept DEF HistInv
<1>7. TodoInv'
  <2> SUFFICES ASSUME tool.pc \in {"put", "execute"}, tool.op = "tool", NEW p \in tool.todo
               PROVE files[p] = tool.before[p] \/ Lost(p)'
    BY DEF TodoInv
  <2>1. p \in Paths
    BY TypesAre, ToolIs DEF BaseInv
  <2> QED BY <1>2, <1>3, <1>4, <2>1, LostKept DEF HistInv, TodoInv
<1>8. KeptInv'
  BY <1>2 DEF HistInv, KeptInv
<1>9. MeddleInv' /\ OrderInv' /\ EditedInv' /\ ChatInv'
  <2>1. CASE turn' = turn /\ start' = start
    BY <1>1, <1>2, <1>3, <1>4, <2>1, RestSame
  <2>2. CASE rest.pc = "idle"
    BY <1>1, <1>2, <2>2 DEF MeddleInv, OrderInv, EditedInv, ChatInv, Committed, HistInv
  <2> QED BY <2>1, <2>2
<1> QED BY <1>6, <1>7, <1>8, <1>9 DEF HistInv

(* An operation enters the critical section.                                *)
LEMMA HistEnterStep ==
  ASSUME BaseInv, HistInv, Enter
  PROVE  HistInv'
<1>0. UNCHANGED <<files, manifests, start, broken, turn>>
  BY DEF Enter, hist
<1>1. CASE tool' = tool /\ rest' = rest
  BY <1>0, <1>1, HistQueueStep
<1>2. CASE ~(tool' = tool /\ rest' = rest)
  <2>1. ~started
    BY <1>2 DEF Enter, Starts
  <2>2. tool.pc = "idle" /\ rest.pc = "idle"
    BY <2>1 DEF BaseInv, HostInv, HeadInv
  <2>3. /\ tool' = tool \/ tool'.pc = "prepare"
        /\ rest' = rest \/ (rest'.pc = "plan" /\ rest'.range = {} /\ rest'.meddled = {})
    BY DEF Enter, NewRestore
  <2>4. RangeSet' = {} /\ RangeSet = {}
    BY <2>2, <2>3 DEF RangeSet
  <2>5. SameManifests /\ SameKnown /\ Outer' = Outer /\ PathsOf(RangeSet)' = PathsOf(RangeSet)
    BY <1>0, <2>4, RangeSame
  <2>6. SameStarts /\ SameNeeds
    BY <1>0, <2>5, NeedsKept DEF SameStarts
  <2>7. \A p \in Paths : Base(p)' = Base(p)
    BY <1>0, <2>2, <2>3, <2>4 DEF Base, PathsOf
  <2>8. ChainInv' /\ UndoneInv'
    BY <2>5, <2>6, <2>7, Kept DEF HistInv
  <2>9. TodoInv' /\ KeptInv'
    BY <2>2, <2>3 DEF TodoInv, KeptInv
  <2>10. MeddleInv' /\ OrderInv' /\ EditedInv' /\ ChatInv'
    BY <2>2, <2>3, <2>4 DEF MeddleInv, OrderInv, EditedInv, ChatInv, Committed
  <2> QED BY <2>8, <2>9, <2>10 DEF HistInv
<1> QED BY <1>1, <1>2

(* A turn begins: no manifest is from it.                                   *)
LEMMA HistStartStep ==
  ASSUME BaseInv, HistInv, StartTurn
  PROVE  HistInv'
<1>0. /\ UNCHANGED <<queue, started, files, manifests, tool, rest, broken>> /\ turn = NoTurn
      /\ start' = Append(start, files) /\ turn' = Len(start) + 1 /\ ~Restoring
  BY DEF StartTurn
<1>1. tool.pc = "idle" /\ rest.pc = "idle" /\ RangeSet = {} /\ RangeSet' = {}
  <2>1. tool.pc = "idle"
    BY <1>0, Exclusive DEF BaseInv
  <2>2. rest.pc = "idle"
    BY <1>0, Exclusive DEF BaseInv, HostInv, HeadInv, Restoring, RestoreOps
  <2> QED BY <1>0, <2>1, <2>2 DEF RangeSet
<1>2. /\ Len(start) \in Nat /\ DOMAIN start = 1..Len(start) /\ DOMAIN start' = 1..(Len(start) + 1)
      /\ start'[Len(start) + 1] = files /\ \A t \in 1..Len(start) : start'[t] = start[t]
  <2>1. start \in Seq([Paths -> Contents \cup {Unknown}]) /\ files \in [Paths -> Contents \cup {Unknown}]
    BY DEF BaseInv, Types
  <2> QED BY <1>0, <2>1
<1>3. SameManifests /\ SameKnown /\ Outer' = Outer /\ Seen \subseteq DOMAIN manifests
  BY <1>0, <1>1, RangeSame, TypesAre DEF BaseInv, Seen
<1>4. SameStarts
  BY <1>0, <1>2 DEF SameStarts
<1>5. \A p \in Paths : Base(p) = files[p] /\ Base(p)' = files[p]
  BY <1>0, <1>1 DEF Base
<1>6. ChainInv'
  BY <1>3, <1>4, <1>5, ChainKept DEF HistInv
<1>7. ASSUME NEW t \in DOMAIN start', Needed(t)', Tracked(t)', NEW p \in Paths
      PROVE UndoneAt(t, p)'
  <2>1. CASE t = Len(start) + 1
    <3>1. Since(t) = {}
      BY <1>2, <1>3, <2>1 DEF BaseInv, DataInv, BoundInv, Since
    <3>2. SinceOf(t, p)' = {}
      BY <1>3, <3>1, SameOf DEF SinceOf, In
    <3> QED BY <1>2, <1>5, <2>1, <3>2 DEF UndoneAt
  <2>2. CASE t # Len(start) + 1
    <3>1. t \in DOMAIN start
      BY <1>2, <2>2
    <3>2. Needed(t)
      BY <1>0, <1>3, <1>7, <2>2, NeedsSame DEF Needed, SameKnown
    <3> QED BY <1>3, <1>4, <1>5, <1>7, <3>1, <3>2, UndoneKept DEF HistInv
  <2> QED BY <2>1, <2>2
<1>8. TodoInv' /\ KeptInv' /\ MeddleInv' /\ EditedInv' /\ ChatInv' /\ OrderInv'
  BY <1>0, <1>1 DEF TodoInv, KeptInv, MeddleInv, EditedInv, ChatInv, OrderInv, Committed
<1> QED BY <1>6, <1>7, <1>8 DEF HistInv, UndoneInv

(* Every step of the turn and of the queue.                                 *)
LEMMA HistTurnSteps ==
  ASSUME BaseInv, HistInv, TurnStep
  PROVE  HistInv'
<1>1. CASE StartTurn
  BY <1>1, HistStartStep
<1>2. CASE Enter
  BY <1>2, HistEnterStep
<1>3. CASE EndTurn
  <2>1. tool.pc = "idle"
    BY <1>3, Exclusive DEF EndTurn, BaseInv
  <2>2. rest.pc = "idle"
    BY <1>3, Exclusive DEF EndTurn, BaseInv
  <2> QED BY <1>3, <2>1, <2>2, TurnKeeps, HistQueueStep DEF EndTurn
<1>4. CASE Compact
  <2>1. rest.pc # "idle" => 1 \in DOMAIN queue /\ queue[1].op \in RestoreOps
    BY Exclusive DEF BaseInv, HostInv, HeadInv
  <2>2. rest.pc = "idle"
    BY <1>4, <2>1 DEF Compact, Restoring, RestoreOps
  <2> QED BY <1>4, <2>2, HistQueueStep DEF Compact
<1>5. CASE ~StartTurn /\ ~Enter /\ ~EndTurn /\ ~Compact
  BY <1>5, TurnKeeps, HistQueueStep
<1> QED BY <1>1, <1>2, <1>3, <1>4, <1>5

-----------------------------------------------------------------------------
(* While a tool runs no restore does, and the last turn runs.               *)
LEMMA ToolRuns ==
  ASSUME BaseInv, HistInv, tool.pc # "idle", rest' = rest
  PROVE  /\ rest.pc = "idle" /\ rest'.pc = "idle" /\ RangeSet = {} /\ RangeSet' = {}
         /\ tool \in ToolTypes /\ turn = Len(start) /\ Len(start) \in Nat
         /\ DOMAIN start = 1..Len(start) /\ turn # NoTurn
         /\ Known = Complete /\ Seen = Ready /\ Known' = Complete' /\ Seen' = Ready'
         /\ MeddleInv' /\ OrderInv' /\ EditedInv' /\ ChatInv'
<1>1. /\ rest.pc = "idle" /\ rest'.pc = "idle" /\ RangeSet = {} /\ RangeSet' = {} /\ turn # NoTurn
  BY Exclusive DEF BaseInv, RangeSet
<1>2. tool \in ToolTypes /\ turn = Len(start) /\ Len(start) \in Nat /\ DOMAIN start = 1..Len(start)
  BY <1>1, TypesAre DEF BaseInv, DataInv, BoundInv
<1>3. Known = Complete /\ Seen = Ready /\ Known' = Complete' /\ Seen' = Ready'
  BY <1>1 DEF Known, Seen
<1>4. MeddleInv' /\ OrderInv' /\ EditedInv' /\ ChatInv'
  BY <1>1 DEF MeddleInv, OrderInv, EditedInv, ChatInv, Committed
<1> QED BY <1>1, <1>2, <1>3, <1>4

(* A step of the tool after which it still runs, and no manifest tells more. *)
LEMMA ToolKept ==
  ASSUME BaseInv, HistInv, tool.pc # "idle", rest' = rest, turn' = turn, SameManifests, SameKnown,
         SameStarts, DOMAIN start' = DOMAIN start,
         \A p \in Paths : Base(p)' = Base(p) \/ Lost(p) \/ Lost(p)',
         tool'.pc = "idle" \/ (TodoInv' /\ KeptInv')
  PROVE  HistInv'
<1>1. SameNeeds
  BY NeedsKept
<1>2. \A p \in Paths : Lost(p) => Lost(p)'
  BY <1>1, LostKept
<1>3. ChainInv' /\ UndoneInv'
  BY <1>1, <1>2, Kept DEF HistInv
<1>4. TodoInv' /\ KeptInv'
  BY DEF TodoInv, KeptInv
<1> QED BY <1>3, <1>4, ToolRuns DEF HistInv

(* prepare: the files are captured as they are.                             *)
LEMMA HistPrepareStep ==
  ASSUME BaseInv, HistInv, Prepare
  PROVE  HistInv'
<1>1. /\ tool.pc = "prepare" /\ UNCHANGED <<files, manifests, turn, rest, start, broken>>
      /\ tool'.pc = "put" /\ tool'.op = tool.op /\ tool'.todo = tool.todo
      /\ tool.op = "tool" => tool'.before = [p \in tool.scope |-> files[p]]
  <2>1. tool \in ToolTypes
    BY TypesAre DEF BaseInv, Prepare
  <2>2. /\ tool' = [tool EXCEPT !.pc = "put", !.seq = LastSequence + 1,
                   !.before = IF tool.op = "command" THEN NoFiles ELSE [p \in tool.scope |-> files[p]]]
        /\ tool.pc = "prepare" /\ UNCHANGED <<files, manifests, turn, rest, start, broken>>
    BY DEF Prepare, hist
  <2>3. tool'.pc = "put" /\ tool'.op = tool.op /\ tool'.todo = tool.todo
    BY <2>1, <2>2 DEF ToolTypes
  <2>4. tool.op = "tool" => tool'.before = [p \in tool.scope |-> files[p]]
    BY <2>1, <2>2 DEF ToolTypes
  <2> QED BY <2>2, <2>3, <2>4
<1>2. RangeSet' = RangeSet
  BY <1>1 DEF RangeSet
<1>3. SameManifests /\ SameKnown /\ PathsOf(RangeSet)' = PathsOf(RangeSet)
  BY <1>1, <1>2, RangeSame
<1>4. \A p \in Paths : Base(p)' = Base(p)
  BY <1>1, <1>2, <1>3 DEF Base
<1>5. TodoInv'
  BY <1>1 DEF TodoInv, BaseInv, DataInv, ToolInv
<1>6. KeptInv'
  BY <1>1 DEF KeptInv
<1>7. SameStarts
  BY <1>1 DEF SameStarts
<1> QED BY <1>1, <1>3, <1>4, <1>5, <1>6, <1>7, ToolKept

(* Nothing is put, or the tool writes: what is left to do is as it was.      *)
LEMMA TodoKept ==
  ASSUME BaseInv, HistInv, tool.pc # "idle", SameKnown, SameStarts, SameNeeds,
         tool.pc = "put" \/ tool'.pc = tool.pc,
         tool'.op = tool.op, tool'.before = tool.before, tool'.todo \subseteq tool.todo,
         tool.pc = "prepare" => tool'.pc = "prepare",
         \A p \in tool'.todo : files'[p] = files[p]
  PROVE  TodoInv'
<1> SUFFICES ASSUME tool'.pc \in {"put", "execute"}, tool.op = "tool", NEW p \in tool'.todo
             PROVE files'[p] = tool.before[p] \/ Lost(p)'
  BY DEF TodoInv
<1>1. tool \in ToolTypes
  BY TypesAre DEF BaseInv
<1>2. tool.pc \in {"put", "execute"} /\ p \in tool.todo /\ p \in Paths
  BY <1>1, ToolIs
<1>3. files[p] = tool.before[p] \/ Lost(p)
  BY <1>2 DEF HistInv, TodoInv
<1> QED BY <1>2, <1>3, LostKept

(* Nothing is put.                                                          *)
LEMMA HistPutNothingStep ==
  ASSUME BaseInv, HistInv, PutNothing
  PROVE  HistInv'
<1>1. /\ tool.pc = "put" /\ UNCHANGED <<files, manifests, turn, rest, start, broken>>
      /\ tool'.pc = "execute" /\ tool'.op = tool.op /\ tool'.todo = tool.todo
      /\ tool'.before = tool.before /\ tool'.id = NoManifest /\ ~tool'.kept
  <2>1. tool \in ToolTypes /\ tool.id = NoManifest /\ ~tool.kept
    BY TypesAre DEF BaseInv, PutNothing, DataInv, ToolInv
  <2>2. /\ tool' = [tool EXCEPT !.pc = "execute"]
        /\ tool.pc = "put" /\ UNCHANGED <<files, manifests, turn, rest, start, broken>>
    BY DEF PutNothing, hist
  <2>3. /\ tool'.pc = "execute" /\ tool'.op = tool.op /\ tool'.todo = tool.todo
        /\ tool'.before = tool.before /\ tool'.id = tool.id /\ tool'.kept = tool.kept
    BY <2>1, <2>2 DEF ToolTypes
  <2> QED BY <2>1, <2>2, <2>3
<1>2. RangeSet' = RangeSet
  BY <1>1 DEF RangeSet
<1>3. SameManifests /\ SameKnown /\ PathsOf(RangeSet)' = PathsOf(RangeSet)
  BY <1>1, <1>2, RangeSame
<1>4. \A p \in Paths : Base(p)' = Base(p)
  BY <1>1, <1>2, <1>3 DEF Base
<1>5. SameStarts
  BY <1>1 DEF SameStarts
<1>6. TodoInv' /\ KeptInv'
  BY <1>1, <1>3, <1>5, NeedsKept, TodoKept DEF KeptInv
<1> QED BY <1>1, <1>3, <1>4, <1>5, <1>6, ToolKept

(* One more manifest, which is not complete and ready.                      *)
LEMMA OneMore ==
  ASSUME BaseInv, tool.pc # "idle", rest' = rest, NEW M \in Manifests,
         manifests' = Append(manifests, M), M.status = "pending" \/ (M.status = "ready" /\ ~M.complete)
  PROVE  /\ Len(manifests') = Len(manifests) + 1 /\ Len(manifests) + 1 \in DOMAIN manifests'
         /\ manifests'[Len(manifests) + 1] = M
         /\ \A m \in DOMAIN manifests : m \in DOMAIN manifests' /\ manifests'[m] = manifests[m]
         /\ Complete' = Complete /\ SameKnown
         /\ M.status = "pending" => Ready' = Ready /\ SameManifests
         /\ M.status = "ready" => Len(manifests) + 1 \in Ready'
<1>0. manifests \in Seq(Manifests) /\ DOMAIN manifests = 1..Len(manifests) /\ Len(manifests) \in Nat
  BY TypesAre DEF BaseInv, Types
<1>1. /\ DOMAIN manifests' = 1..(Len(manifests) + 1)
      /\ Len(manifests') = Len(manifests) + 1 /\ manifests'[Len(manifests) + 1] = M
      /\ \A m \in DOMAIN manifests : m \in DOMAIN manifests' /\ manifests'[m] = manifests[m]
  BY <1>0
<1>2. \A m \in DOMAIN manifests' : m \in DOMAIN manifests \/ m = Len(manifests) + 1
  BY <1>0, <1>1
<1>3. Len(manifests) + 1 \in DOMAIN manifests' /\ Len(manifests) + 1 \notin DOMAIN manifests
  BY <1>0, <1>1
<1>4. /\ \A m : m \in Ready <=> m \in DOMAIN manifests /\ manifests[m].status = "ready"
      /\ \A m : m \in Ready' <=> m \in DOMAIN manifests' /\ manifests'[m].status = "ready"
  BY DEF Ready, Listed
<1>5. \A m \in Ready' : m \in Ready \/ m = Len(manifests) + 1
  BY <1>1, <1>2, <1>4
<1>6. Complete' = Complete
  <2>1. \A m : m \in Complete => m \in Complete'
    BY <1>1, <1>4 DEF Complete
  <2>2. ASSUME NEW m \in Complete' PROVE m \in Complete
    <3>1. m \in Ready' /\ manifests'[m].complete
      BY <2>2 DEF Complete
    <3>2. m # Len(manifests) + 1
      BY <1>1, <1>4, <3>1
    <3> QED BY <1>1, <1>4, <1>5, <3>1, <3>2 DEF Complete
  <2> QED BY <2>1, <2>2
<1>7. RangeSet = {} /\ RangeSet' = {}
  BY Exclusive DEF BaseInv, RangeSet
<1>8. SameKnown
  BY <1>1, <1>4, <1>6, <1>7 DEF SameKnown, Known, Complete
<1>9. ASSUME M.status = "pending" PROVE Ready' = Ready /\ SameManifests
  <2>1. Ready' = Ready
    <3>1. ASSUME NEW m \in Ready PROVE m \in Ready'
      BY <1>1, <1>4, <3>1
    <3>2. ASSUME NEW m \in Ready' PROVE m \in Ready
      <4>1. m # Len(manifests) + 1
        BY <1>1, <1>4, <1>9, <3>2
      <4> QED BY <1>5, <3>2, <4>1
    <3> QED BY <3>1, <3>2
  <2>2. Known' = Known /\ Seen' = Seen
    BY <1>6, <1>7, <2>1 DEF Seen, Known
  <2>3. \A m \in Seen : m \in DOMAIN manifests /\ manifests'[m] = manifests[m]
    BY <1>1, <1>4, <1>7 DEF Seen
  <2> QED BY <2>1, <2>2, <2>3 DEF SameManifests
<1>10. M.status = "ready" => Len(manifests) + 1 \in Ready'
  BY <1>1, <1>3, <1>4
<1> QED BY <1>1, <1>3, <1>6, <1>8, <1>9, <1>10

(* A pending manifest is put: it does not tell anything yet.                *)
LEMMA HistPutPendingStep ==
  ASSUME BaseInv, HistInv, PutPending
  PROVE  HistInv'
<1>0. tool \in ToolTypes /\ tool.pc = "put" /\ tool.op = "tool" /\ tool.todo = tool.scope
      /\ DOMAIN tool.before = tool.scope
  BY TypesAre DEF BaseInv, PutPending, DataInv, ToolInv
<1>1. /\ UNCHANGED <<files, turn, rest, start, broken>>
      /\ tool'.pc = "execute" /\ tool'.op = tool.op /\ tool'.todo = tool.todo
      /\ tool'.before = tool.before /\ tool'.id = Len(manifests) + 1 /\ tool'.scope = tool.scope
      /\ manifests' = Append(manifests, Pending(tool.seq, tool.before))
  BY <1>0 DEF PutPending, hist, ToolTypes
<1>2. /\ Pending(tool.seq, tool.before) \in Manifests /\ Pending(tool.seq, tool.before).status = "pending"
  BY <1>0, ToolIs, ManifestsTyped DEF BaseInv, Pending
<1>3. SameManifests /\ SameKnown /\ Len(manifests') = Len(manifests) + 1
  BY <1>0, <1>1, <1>2, OneMore
<1>4. SameStarts
  BY <1>1 DEF SameStarts
<1>5. SameNeeds
  BY <1>1, <1>3, NeedsKept
<1>6. \A p \in Paths : Base(p)' = Base(p) \/ Lost(p)
  <2> SUFFICES ASSUME NEW p \in Paths, ~Lost(p) PROVE Base(p)' = Base(p)
    OBVIOUS
  <2>1. Base(p) = files[p]
    BY <1>0, ToolRuns, <1>1 DEF Base
  <2>2. p \in tool.scope => tool.before[p] = files[p]
    BY <1>0 DEF HistInv, TodoInv
  <2>3. Base(p)' = IF p \in tool.scope /\ Len(manifests) + 1 # NoManifest THEN tool.before[p] ELSE files[p]
    BY <1>0, <1>1, ToolRuns DEF Base
  <2> QED BY <2>1, <2>2, <2>3
<1>7. TodoInv' /\ KeptInv'
  <2>1. TodoInv'
    BY <1>0, <1>1, <1>3, <1>4, <1>5, TodoKept
  <2>2. Len(manifests) + 1 # NoManifest
    BY TypesAre DEF BaseInv, NoManifest
  <2> QED BY <1>1, <1>3, <2>1, <2>2 DEF KeptInv
<1> QED BY <1>0, <1>1, <1>3, <1>4, <1>6, <1>7, ToolKept

(* While something that is not complete is ready, nothing is known of the    *)
(* turns before it.                                                         *)
LEMMA Untracked ==
  ASSUME BaseInv, turn # NoTurn, NEW n \in Seen, ~manifests[n].complete, manifests[n].turn = turn
  PROVE  \A t \in DOMAIN start : ~Tracked(t)
<1>1. DOMAIN start = 1..Len(start) /\ Len(start) \in Nat /\ turn = Len(start)
  BY TypesAre DEF BaseInv, DataInv, BoundInv
<1> QED BY <1>1 DEF Tracked, Since

(* The chain of a file ends where Breaks is told of it.                     *)
LEMMA BreaksLast ==
  ASSUME BaseInv, NEW P \in SUBSET Paths, NEW p \in P
  PROVE  /\ \A m \in KnownOf(p) : (\A n \in KnownOf(p) : n <= m) => <<m, p>> \in Breaks(P)
         /\ \A m \in OuterOf(p) : (\A n \in OuterOf(p) : n <= m) => <<m, p>> \in Breaks(P)
<1>1. /\ manifests \in Seq(Manifests) /\ InOrder(manifests, Listed)
      /\ KnownOf(p) \in SUBSET DOMAIN manifests /\ OuterOf(p) \in SUBSET DOMAIN manifests
      /\ KnownOf(p) \subseteq Listed /\ OuterOf(p) \subseteq Listed
  <2>1. RangeSet \subseteq Listed
    BY DEF BaseInv, RangeInv, RestInv, RestoreInv, Listed, RangeSet
  <2>2. Complete \subseteq Listed /\ Listed \subseteq DOMAIN manifests
    BY DEF Complete, Ready, Listed
  <2> QED BY <2>1, <2>2 DEF BaseInv, Types, DataInv, ManifestsInv, KnownOf, OuterOf, Known, Outer, In
<1>2. ASSUME NEW M \in {KnownOf(p), OuterOf(p)}, NEW m \in M, \A n \in M : n <= m
      PROVE m = Latest(M)
  <2> DEFINE f == Latest(M)
  <2>1. M \in SUBSET DOMAIN manifests /\ M # {} /\ InOrder(manifests, M)
    BY <1>1, <1>2 DEF InOrder
  <2>2. f = CHOOSE k \in M : \A n \in M : manifests[n].seq <= manifests[k].seq
    BY DEF Latest
  <2> HIDE DEF f
  <2>3. f \in M /\ \A n \in M : n <= f
    BY <1>1, <2>1, <2>2, LatestIs
  <2>4. f \in Nat /\ m \in Nat
    BY <1>1, <2>1, <2>3, ManifestIs
  <2>5. m = f
    BY <1>2, <2>3, <2>4
  <2> QED BY <2>5 DEF f
<1>3. ASSUME NEW M \in {KnownOf(p), OuterOf(p)}, NEW m \in M, \A n \in M : n <= m
      PROVE <<m, p>> \in Breaks(P)
  <2>1. M \in {In(Complete \cup RangeSet, p), In(Complete \ RangeSet, p)} \ {{}}
    BY <1>3 DEF KnownOf, OuterOf, Known, Outer
  <2>2. m \in Ends(p)
    BY <1>2, <1>3, <2>1 DEF Ends
  <2> QED BY <2>2 DEF Breaks
<1> QED BY <1>3

(* Nothing is known any more of the files of P.                             *)
LEMMA UnkeptIs ==
  ASSUME BaseInv, NEW P \in SUBSET Paths, start' = Unkept(P), broken \subseteq broken'
  PROVE  /\ DOMAIN start' = DOMAIN start /\ SameStarts
         /\ \A t \in DOMAIN start : \A p \in P : start'[t][p] = Unknown
         /\ \A t \in DOMAIN start : \A p \in Paths \ P : start'[t][p] = start[t][p]
<1>1. start' = Remembered(DOMAIN start, P)
  BY DEF Unkept
<1>2. \A t \in DOMAIN start : \A p \in Paths \ P : start'[t][p] = start[t][p]
  BY <1>1 DEF Remembered
<1> QED BY <1>1, <1>2, RememberedIs

(* A manifest that is not complete becomes ready.                           *)
LEMMA BarrierKept ==
  ASSUME BaseInv, BaseInv', HistInv, tool.pc # "idle", rest' = rest, turn' = turn, start' = start,
         SameKnown, broken \subseteq broken',
         NEW n \in Ready', ~manifests'[n].complete, manifests'[n].turn = turn,
         \A p \in Paths : Base(p)' = Base(p) \/ LastBroken(KnownOf(p), p) \/ LastBroken(KnownOf(p), p)',
         tool'.pc = "idle" \/ (TodoInv' /\ KeptInv')
  PROVE  HistInv'
<1>1. turn' # NoTurn /\ Seen' = Ready'
  BY ToolRuns
<1>2. \A t \in DOMAIN start' : ~Tracked(t)'
  <2>1. n \in Seen'
    BY <1>1
  <2>2. DOMAIN start = 1..Len(start) /\ Len(start) \in Nat /\ turn = Len(start)
    BY ToolRuns
  <2> QED BY <2>1, <2>2 DEF Tracked, Since
<1>3. UndoneInv'
  BY <1>2 DEF UndoneInv
<1>4. SameStarts
  BY DEF SameStarts
<1>5. \A p \in Paths : LastBroken(KnownOf(p), p) => LastBroken(KnownOf(p), p)'
  BY SameKnownOf DEF LastBroken
<1>6. ChainInv'
  BY <1>4, <1>5, ChainKept DEF HistInv
<1>7. TodoInv' /\ KeptInv'
  BY DEF TodoInv, KeptInv
<1> QED BY <1>3, <1>6, <1>7, ToolRuns DEF HistInv

(* A barrier is put: no turn before it can be taken back any more.          *)
LEMMA HistPutBarrierStep ==
  ASSUME BaseInv, BaseInv', HistInv, PutBarrier
  PROVE  HistInv'
<1>0. tool \in ToolTypes /\ tool.pc = "put" /\ tool.id = NoManifest
  BY TypesAre DEF BaseInv, PutBarrier, DataInv, ToolInv
<1>1. /\ UNCHANGED <<files, turn, rest, start, broken>>
      /\ tool'.pc = "execute" /\ tool'.op = tool.op /\ tool'.todo = tool.todo
      /\ tool'.before = tool.before /\ tool'.id = NoManifest /\ tool'.scope = tool.scope
      /\ manifests' = Append(manifests, Barrier(tool.seq))
  BY <1>0 DEF PutBarrier, hist, ToolTypes
<1>2. /\ Barrier(tool.seq) \in Manifests /\ Barrier(tool.seq).status = "ready"
      /\ ~Barrier(tool.seq).complete /\ Barrier(tool.seq).turn = turn
  BY <1>0, ToolIs, ManifestsTyped DEF BaseInv, Barrier
<1>3. /\ SameKnown /\ Len(manifests) + 1 \in Ready'
      /\ manifests'[Len(manifests) + 1] = Barrier(tool.seq)
  BY <1>0, <1>1, <1>2, OneMore
<1>4. \A p \in Paths : Base(p)' = Base(p)
  BY <1>0, <1>1, ToolRuns DEF Base
<1>5. SameStarts
  BY <1>1 DEF SameStarts
<1>6. SameNeeds
  <2>1. Len(manifests) + 1 \in Seen' /\ DOMAIN start = 1..Len(start) /\ Len(start) \in Nat /\ turn = Len(start)
    BY <1>0, <1>1, <1>3, ToolRuns
  <2>2. \A t \in DOMAIN start' : ~Tracked(t)'
    BY <1>1, <1>2, <1>3, <2>1 DEF Tracked, Since
  <2> QED BY <2>2 DEF SameNeeds
<1>7. TodoInv' /\ KeptInv'
  BY <1>0, <1>1, <1>2, <1>3, <1>5, <1>6, TodoKept DEF KeptInv
<1> QED BY <1>0, <1>1, <1>2, <1>3, <1>4, <1>7, BarrierKept

(* The tool writes: without a manifest of its own it breaks the chain.      *)
LEMMA HistWriteStep ==
  ASSUME BaseInv, HistInv, NEW p \in Paths, NEW c \in Texts, ToolWrites(p, c)
  PROVE  HistInv'
<1>0. tool \in ToolTypes /\ tool.pc = "execute" /\ p \in tool.todo /\ tool.todo \subseteq tool.scope
  BY TypesAre DEF BaseInv, ToolWrites, DataInv, ToolInv
<1>1. /\ UNCHANGED <<manifests, turn, rest>> /\ tool' = [tool EXCEPT !.todo = @ \ {p}]
      /\ files' = [files EXCEPT ![p] = c] /\ files \in [Paths -> Contents]
  BY DEF ToolWrites, BaseInv, Types
<1>2. /\ tool'.pc = "execute" /\ tool'.op = tool.op /\ tool'.before = tool.before
      /\ tool'.id = tool.id /\ tool'.scope = tool.scope /\ tool'.kept = tool.kept
      /\ tool'.todo = tool.todo \ {p}
  BY <1>0, <1>1 DEF ToolTypes
<1>3. RangeSet' = RangeSet
  BY <1>1 DEF RangeSet
<1>4. SameManifests /\ SameKnown /\ Ready' = Ready
  BY <1>1, <1>3, RangeSame
<1>5. \A q \in Paths : q # p => files'[q] = files[q]
  BY <1>1
<1>6. \A q \in Paths : q # p => Base(q)' = Base(q)
  BY <1>0, <1>1, <1>2, <1>5, ToolRuns DEF Base
<1>7. /\ SameStarts /\ DOMAIN start' = DOMAIN start
      /\ Base(p)' = Base(p) \/ Lost(p)'
  <2>1. CASE tool.id # NoManifest
    <3>1. start' = start /\ broken' = broken
      BY <2>1 DEF ToolWrites
    <3>2. Base(p)' = Base(p)
      BY <1>0, <1>2, <2>1 DEF Base
    <3> QED BY <3>1, <3>2 DEF SameStarts
  <2>2. CASE tool.id = NoManifest
    <3>1. broken' = broken \cup Breaks({p})
      BY <2>2 DEF ToolWrites
    <3>2. LastBroken(KnownOf(p), p)'
      <4>1. \A m \in KnownOf(p) : (\A n \in KnownOf(p) : n <= m) => <<m, p>> \in Breaks({p})
        BY BreaksLast
      <4>2. KnownOf(p)' = KnownOf(p)
        BY <1>4, SameKnownOf
      <4>3. \A m \in KnownOf(p) : (\A n \in KnownOf(p) : n <= m) => <<m, p>> \in broken'
        BY <3>1, <4>1
      <4> QED BY <4>2, <4>3 DEF LastBroken
    <3>3. CASE tool.kept
      <4>1. start' = start
        BY <2>2, <3>3 DEF ToolWrites
      <4>2. PICK n \in Ready : ~manifests[n].complete /\ manifests[n].turn = turn
        BY <1>0, <2>2, <3>3 DEF HistInv, KeptInv
      <4>3. \A t \in DOMAIN start : ~Tracked(t)
        BY <1>0, <1>1, <4>2, ToolRuns, Untracked
      <4>4. \A t \in DOMAIN start' : ~Tracked(t)'
        BY <1>4, <4>1, <4>3, SameOf
      <4> QED BY <3>1, <3>2, <4>1, <4>4 DEF Lost, SameStarts
    <3>4. CASE ~tool.kept
      <4>1. start' = Unkept({p})
        BY <2>2, <3>4 DEF ToolWrites
      <4>2. /\ DOMAIN start' = DOMAIN start /\ SameStarts
            /\ \A t \in DOMAIN start : \A q \in {p} : start'[t][q] = Unknown
        BY <3>1, <4>1, UnkeptIs
      <4> QED BY <3>2, <4>2 DEF Lost
    <3> QED BY <3>3, <3>4
  <2> QED BY <2>1, <2>2
<1>8. TodoInv'
  <2>1. SameNeeds
    BY <1>1, <1>4, <1>7, NeedsKept
  <2>2. \A q \in tool'.todo : files'[q] = files[q]
    BY <1>0, <1>2, <1>5, ToolIs
  <2>3. tool'.todo \subseteq tool.todo
    BY <1>2
  <2> QED BY <1>0, <1>2, <1>4, <1>7, <2>1, <2>2, <2>3, TodoKept
<1>9. KeptInv'
  BY <1>0, <1>1, <1>2, <1>4 DEF HistInv, KeptInv
<1> QED BY <1>0, <1>1, <1>4, <1>6, <1>7, <1>8, <1>9, ToolKept

(* What the tool found is what there is, but for what it has changed.        *)
LEMMA FoundIs ==
  ASSUME BaseInv, HistInv, tool.pc = "execute", NEW p \in Paths, p \notin Changed
  PROVE  Base(p) = files[p]
<1>1. rest.pc = "idle"
  BY Exclusive DEF BaseInv
<1> QED BY <1>1 DEF Base, Changed

(* The tool is not executed: it has written nothing.                        *)
LEMMA HistNotStartedStep ==
  ASSUME BaseInv, HistInv, NotStarted
  PROVE  HistInv'
<1>0. tool \in ToolTypes /\ tool.pc = "execute" /\ tool.todo = tool.scope
  BY TypesAre DEF BaseInv, NotStarted
<1>1. /\ UNCHANGED <<files, manifests, turn, rest, start, broken>> /\ tool'.pc = "idle"
  BY DEF NotStarted, ToolReturns, hist, Idle
<1>2. RangeSet' = RangeSet
  BY <1>1 DEF RangeSet
<1>3. SameManifests /\ SameKnown
  BY <1>1, <1>2, RangeSame
<1>4. \A p \in Paths : Base(p)' = Base(p) \/ Lost(p)
  <2> SUFFICES ASSUME NEW p \in Paths, ~Lost(p) PROVE Base(p)' = Base(p)
    OBVIOUS
  <2>1. Base(p)' = files[p]
    BY <1>0, <1>1, ToolRuns DEF Base
  <2>2. tool.id # NoManifest => tool.op = "tool"
    BY <1>0 DEF BaseInv, DataInv, ToolInv
  <2>3. tool.id # NoManifest /\ p \in tool.scope => files[p] = tool.before[p]
    BY <1>0, <2>2 DEF HistInv, TodoInv
  <2> QED BY <1>0, <2>1, <2>3, ToolRuns, <1>1 DEF Base
<1>5. SameStarts
  BY <1>1 DEF SameStarts
<1> QED BY <1>0, <1>1, <1>3, <1>4, <1>5, ToolKept

(* finalize fails: the chains of what changed end before it.                *)
LEMMA HistFinalizeFailsStep ==
  ASSUME BaseInv, BaseInv', HistInv, FinalizeFails
  PROVE  HistInv'
<1>0. tool \in ToolTypes /\ tool.pc = "execute" /\ tool.id # NoManifest /\ tool.scope \in SUBSET Paths
  BY TypesAre, ToolIs DEF BaseInv, FinalizeFails
<1>1. /\ UNCHANGED <<files, turn, rest>> /\ tool'.pc = "idle"
      /\ broken' = broken \cup Breaks(Changed) /\ Changed \in SUBSET Paths
  BY <1>0 DEF FinalizeFails, ToolReturns, hist, Idle, Changed
<1>2. ASSUME NEW p \in Paths, p \notin Changed PROVE Base(p)' = Base(p)
  <2>1. Base(p)' = files[p]
    BY <1>0, <1>1, ToolRuns DEF Base
  <2> QED BY <1>0, <1>2, <2>1, FoundIs
<1>3. \A p \in Changed : \A m \in KnownOf(p) : (\A n \in KnownOf(p) : n <= m) => <<m, p>> \in Breaks(Changed)
  BY <1>1, BreaksLast
<1>4. CASE manifests' = manifests /\ start' = Unkept(Changed)
  <2>1. RangeSet' = RangeSet
    BY <1>1 DEF RangeSet
  <2>2. SameManifests /\ SameKnown
    BY <1>4, <2>1, RangeSame
  <2>3. /\ DOMAIN start' = DOMAIN start /\ SameStarts
        /\ \A t \in DOMAIN start : \A p \in Changed : start'[t][p] = Unknown
    BY <1>1, <1>4, UnkeptIs
  <2>4. ASSUME NEW p \in Changed PROVE Lost(p)'
    <3>1. LastBroken(KnownOf(p), p)'
      BY <1>1, <1>3, <2>2, SameKnownOf DEF LastBroken
    <3> QED BY <2>3, <3>1 DEF Lost
  <2>5. \A p \in Paths : Base(p)' = Base(p) \/ Lost(p) \/ Lost(p)'
    BY <1>2, <2>4
  <2> QED BY <1>0, <1>1, <2>2, <2>3, <2>5, ToolKept
<1>5. CASE manifests' = [manifests EXCEPT ![tool.id] = Barrier(@.seq)] /\ start' = start
  <2>1. /\ tool.id \in DOMAIN manifests /\ manifests[tool.id].status = "pending"
    BY <1>0 DEF BaseInv, DataInv, ToolInv
  <2>2. /\ DOMAIN manifests' = DOMAIN manifests /\ \A m \in DOMAIN manifests : m # tool.id => manifests'[m] = manifests[m]
        /\ manifests'[tool.id] = Barrier(manifests[tool.id].seq)
    BY <1>5, <2>1
  <2>3. /\ manifests'[tool.id].status = "ready" /\ ~manifests'[tool.id].complete /\ manifests'[tool.id].turn = turn
    BY <2>2 DEF Barrier
  <2>4. tool.id \in Ready' /\ tool.id \notin Complete' /\ tool.id \notin Complete
    BY <2>1, <2>2, <2>3 DEF Ready, Listed, Complete
  <2>5. Complete' = Complete
    BY <2>2, <2>4 DEF Ready, Listed, Complete
  <2>6. SameKnown
    <3>1. Known = Complete /\ Known' = Complete
      BY <1>0, <1>1, <2>5, ToolRuns
    <3>2. Complete \subseteq DOMAIN manifests
      BY DEF Complete, Ready, Listed
    <3> QED BY <2>2, <2>4, <3>1, <3>2 DEF SameKnown
  <2>7. \A p \in Paths : Base(p)' = Base(p) \/ LastBroken(KnownOf(p), p)'
    BY <1>1, <1>2, <1>3, <2>6, SameKnownOf DEF LastBroken
  <2> QED BY <1>0, <1>1, <1>5, <2>3, <2>4, <2>6, <2>7, BarrierKept
<1> QED BY <1>4, <1>5 DEF FinalizeFails

(* The manifest of the tool is removed: it never told anything.             *)
LEMMA HistNothingChanged ==
  ASSUME BaseInv, HistInv, Finalize, tool.id = NoManifest \/ Changed = {}
  PROVE  HistInv'
<1>0. tool \in ToolTypes /\ tool.pc = "execute" /\ tool.scope \in SUBSET Paths
  BY TypesAre, ToolIs DEF BaseInv, Finalize
<1>1. /\ UNCHANGED <<files, turn, rest, start, broken>> /\ tool'.pc = "idle"
  BY DEF Finalize, ToolReturns, hist, Idle
<1>2. RangeSet' = RangeSet /\ RangeSet = {}
  BY <1>0, <1>1, ToolRuns DEF RangeSet
<1>3. SameManifests /\ SameKnown
  <2>1. CASE tool.id = NoManifest
    <3>1. manifests' = manifests
      BY <2>1 DEF Finalize
    <3> QED BY <1>2, <3>1, RangeSame
  <2>2. CASE tool.id # NoManifest /\ Changed = {}
    <3>1. /\ tool.id \in DOMAIN manifests /\ manifests[tool.id].status = "pending"
      BY <1>0, <2>2 DEF BaseInv, DataInv, ToolInv
    <3>2. manifests' = [manifests EXCEPT ![tool.id] = [@ EXCEPT !.status = "removed", !.before = NoFiles]]
      BY <2>2 DEF Finalize
    <3>3. manifests[tool.id] \in Manifests
      BY <3>1, ManifestIs DEF BaseInv, Types
    <3>4. manifests'[tool.id].status = "removed"
      BY <3>1, <3>2, <3>3 DEF Manifests
    <3>5. DOMAIN manifests' = DOMAIN manifests /\ \A m \in DOMAIN manifests : m # tool.id => manifests'[m] = manifests[m]
      BY <3>1, <3>2
    <3>6. tool.id \notin Ready /\ tool.id \notin Ready'
      BY <3>1, <3>4 DEF Ready
    <3>7. Ready' = Ready
      BY <3>5, <3>6 DEF Ready, Listed
    <3>8. Complete' = Complete /\ Ready \subseteq DOMAIN manifests
      BY <3>5, <3>6, <3>7 DEF Complete, Ready, Listed
    <3>9. SameManifests
      BY <1>2, <3>5, <3>6, <3>7, <3>8 DEF SameManifests, Known, Seen
    <3> QED BY <3>9, SameOf
  <2> QED BY <2>1, <2>2
<1>4. ASSUME NEW p \in Paths PROVE Base(p)' = Base(p)
  <2>1. Base(p)' = files[p]
    BY <1>0, <1>1, ToolRuns DEF Base
  <2>2. Base(p) = files[p]
    <3>1. CASE p \notin Changed
      BY <1>0, <3>1, FoundIs
    <3>2. CASE tool.id = NoManifest
      BY <1>0, <1>1, <3>2, ToolRuns DEF Base
    <3> QED BY <3>1, <3>2
  <2> QED BY <2>1, <2>2
<1>5. SameStarts
  BY <1>1 DEF SameStarts
<1> QED BY <1>0, <1>1, <1>3, <1>4, <1>5, ToolKept

(* The manifest of the tool becomes the last one.                           *)
LEMMA FinalizedIs ==
  ASSUME BaseInv, HistInv, Finalize, tool.id # NoManifest, Changed # {}
  PROVE  /\ UNCHANGED <<files, turn, rest, start, broken>> /\ tool'.pc = "idle"
         /\ tool.id \in Nat /\ Changed \in SUBSET Paths /\ Changed \subseteq tool.scope
         /\ Known \subseteq Seen /\ \A m \in Seen : m \in Nat /\ m < tool.id /\ m \in DOMAIN manifests
         /\ Known' = Known \cup {tool.id} /\ Seen' = Seen \cup {tool.id}
         /\ \A m \in Seen : manifests'[m] = manifests[m]
         /\ manifests'[tool.id].turn = turn /\ DOMAIN manifests'[tool.id].before = Changed
         /\ \A p \in Changed : /\ manifests'[tool.id].before[p] = tool.before[p]
                               /\ manifests'[tool.id].after[p] = files[p]
<1>0. tool \in ToolTypes /\ tool.pc = "execute" /\ tool.scope \in SUBSET Paths
  BY TypesAre, ToolIs DEF BaseInv, Finalize
<1>1. /\ UNCHANGED <<files, turn, rest, start, broken>> /\ tool'.pc = "idle"
      /\ Changed \in SUBSET Paths /\ Changed \subseteq tool.scope
  BY <1>0 DEF Finalize, ToolReturns, hist, Idle, Changed
<1>2. /\ tool.id \in DOMAIN manifests /\ manifests[tool.id].status = "pending"
      /\ manifests[tool.id].complete /\ manifests[tool.id].turn = turn
      /\ tool.id = Len(manifests) /\ DOMAIN manifests = 1..Len(manifests) /\ Len(manifests) \in Nat
  <2>1. tool.id = Len(manifests)
    BY <1>0 DEF HistInv, KeptInv
  <2> QED BY <1>0, <2>1, TypesAre DEF BaseInv, DataInv, ToolInv
<1>3. manifests' = [manifests EXCEPT ![tool.id] =
        [@ EXCEPT !.status = "ready", !.before = [p \in Changed |-> tool.before[p]],
                  !.after = [p \in Changed |-> files[p]]]]
  BY DEF Finalize
<1>4. manifests[tool.id] \in Manifests
  BY <1>2, ManifestIs DEF BaseInv, Types
<1>5. /\ manifests'[tool.id].status = "ready" /\ manifests'[tool.id].complete
      /\ manifests'[tool.id].turn = turn
      /\ manifests'[tool.id].before = [p \in Changed |-> tool.before[p]]
      /\ manifests'[tool.id].after = [p \in Changed |-> files[p]]
  BY <1>2, <1>3, <1>4 DEF Manifests
<1>6. DOMAIN manifests' = DOMAIN manifests /\ \A m \in DOMAIN manifests : m # tool.id => manifests'[m] = manifests[m]
  BY <1>2, <1>3
<1>7. /\ Known = Complete /\ Seen = Ready /\ Known' = Complete' /\ Seen' = Ready'
  BY <1>0, <1>1, ToolRuns
<1>8. Ready \subseteq DOMAIN manifests /\ Complete \subseteq Ready /\ tool.id \notin Ready
  BY <1>2 DEF Ready, Complete, Listed
<1>9. Ready' = Ready \cup {tool.id}
  BY <1>2, <1>5, <1>6, <1>8 DEF Ready, Listed
<1>10. Complete' = Complete \cup {tool.id}
  BY <1>2, <1>5, <1>6, <1>8, <1>9 DEF Complete
<1>11. \A m \in Ready : m \in Nat /\ m < tool.id /\ m \in DOMAIN manifests
  BY <1>2, <1>8
<1>12. \A m \in Ready : manifests'[m] = manifests[m]
  BY <1>6, <1>8
<1> QED BY <1>1, <1>2, <1>5, <1>7, <1>8, <1>9, <1>10, <1>11, <1>12

(* finalize: the manifest is the new end of the chains of its files.        *)
LEMMA HistFinalizeStep ==
  ASSUME BaseInv, HistInv, Finalize
  PROVE  HistInv'
<1>1. CASE tool.id = NoManifest \/ Changed = {}
  BY <1>1, HistNothingChanged
<1>2. CASE tool.id # NoManifest /\ Changed # {}
  <2> DEFINE id == tool.id
  <2>1. /\ UNCHANGED <<files, turn, rest, start, broken>> /\ tool'.pc = "idle"
        /\ id \in Nat /\ Changed \in SUBSET Paths /\ Changed \subseteq tool.scope
        /\ Known \subseteq Seen /\ \A m \in Seen : m \in Nat /\ m < id /\ m \in DOMAIN manifests
        /\ Known' = Known \cup {id} /\ Seen' = Seen \cup {id}
        /\ \A m \in Seen : manifests'[m] = manifests[m]
        /\ manifests'[id].turn = turn /\ DOMAIN manifests'[id].before = Changed
        /\ \A p \in Changed : /\ manifests'[id].before[p] = tool.before[p]
                              /\ manifests'[id].after[p] = files[p]
    BY <1>2, FinalizedIs
  <2>2. /\ tool.pc = "execute" /\ rest.pc = "idle" /\ rest'.pc = "idle" /\ turn = Len(start)
        /\ DOMAIN start = 1..Len(start) /\ Len(start) \in Nat
    BY <2>1, ToolRuns DEF Finalize
  <2>3. \A p \in Paths : Base(p)' = files[p]
    BY <2>1, <2>2 DEF Base
  <2>4. \A p \in Paths : p \notin Changed => Base(p) = files[p]
    BY <2>2, FoundIs
  <2>5. \A p \in Changed : Base(p) = tool.before[p]
    BY <1>2, <2>1, <2>2 DEF Base
  <2> HIDE DEF id
  <2>6. ASSUME NEW p
        PROVE KnownOf(p)' = IF p \in Changed THEN KnownOf(p) \cup {id} ELSE KnownOf(p)
    <3>1. \A m : m \in KnownOf(p)' <=> m \in Known' /\ p \in DOMAIN manifests'[m].before
      BY DEF KnownOf, In, Touched
    <3>2. \A m : m \in KnownOf(p) <=> m \in Known /\ p \in DOMAIN manifests[m].before
      BY DEF KnownOf, In, Touched
    <3> QED BY <2>1, <3>1, <3>2
  <2>7. ASSUME NEW t \in DOMAIN start, NEW p
        PROVE SinceOf(t, p)' = IF p \in Changed THEN SinceOf(t, p) \cup {id} ELSE SinceOf(t, p)
    <3>1. \A m : m \in SinceOf(t, p)' <=> m \in Seen' /\ manifests'[m].turn >= t /\ p \in DOMAIN manifests'[m].before
      BY DEF SinceOf, Since, In, Touched
    <3>2. \A m : m \in SinceOf(t, p) <=> m \in Seen /\ manifests[m].turn >= t /\ p \in DOMAIN manifests[m].before
      BY DEF SinceOf, Since, In, Touched
    <3>3. manifests'[id].turn >= t
      BY <2>1, <2>2
    <3> QED BY <2>1, <3>1, <3>2, <3>3
  <2>8. /\ \A p : \A m \in KnownOf(p) : m \in Nat /\ m < id /\ manifests'[m] = manifests[m]
        /\ \A t, p : \A m \in SinceOf(t, p) : m \in Nat /\ m < id /\ manifests'[m] = manifests[m]
    BY <2>1 DEF KnownOf, SinceOf, Since, In
  <2>9. ChainInv'
    <3> SUFFICES ASSUME NEW p \in Paths, NEW m \in KnownOf(p)', <<m, p>> \notin broken
                 PROVE  /\ (\A n \in KnownOf(p)' : n <= m) => manifests'[m].after[p] = files[p]
                        /\ \A n \in KnownOf(p)' :
                             m < n /\ (\A k \in KnownOf(p)' : m < k => n <= k)
                             => manifests'[m].after[p] = manifests'[n].before[p]
      BY <2>1, <2>3 DEF ChainInv, ChainAt
    <3>1. m \in KnownOf(p) =>
           /\ (\A n \in KnownOf(p) : n <= m) => manifests[m].after[p] = Base(p)
           /\ \A n \in KnownOf(p) :
                m < n /\ (\A k \in KnownOf(p) : m < k => n <= k)
                => manifests[m].after[p] = manifests[n].before[p]
      BY DEF HistInv, ChainInv, ChainAt
    <3>2. CASE p \notin Changed
      BY <2>4, <2>6, <2>8, <3>1, <3>2
    <3>3. CASE p \in Changed /\ m = id
      BY <2>1, <2>6, <2>8, <3>3
    <3>4. CASE p \in Changed /\ m # id
      <4>1. m \in KnownOf(p) /\ m < id /\ m \in Nat /\ manifests'[m] = manifests[m] /\ id \in KnownOf(p)' /\ id \in Nat
        BY <2>1, <2>6, <2>8, <3>4
      <4>2. ASSUME NEW n \in KnownOf(p)', m < n, \A k \in KnownOf(p)' : m < k => n <= k
            PROVE manifests'[m].after[p] = manifests'[n].before[p]
        <5>1. CASE n = id
          <6>1. ASSUME NEW k \in KnownOf(p) PROVE k <= m
            <7>1. k \in Nat /\ k < id /\ k \in KnownOf(p)'
              BY <2>6, <2>8, <3>4
            <7>2. m < k => id <= k
              BY <4>2, <5>1, <7>1
            <7> QED BY <4>1, <7>1, <7>2
          <6> QED BY <2>1, <2>5, <3>1, <3>4, <4>1, <5>1, <6>1
        <5>2. CASE n # id
          <6>1. n \in KnownOf(p) /\ \A k \in KnownOf(p) : m < k => n <= k
            BY <2>6, <3>4, <4>2, <5>2
          <6> QED BY <2>8, <3>1, <4>1, <4>2, <6>1
        <5> QED BY <5>1, <5>2
      <4>3. ~(\A n \in KnownOf(p)' : n <= m)
        BY <4>1
      <4> QED BY <4>2, <4>3
    <3> QED BY <3>2, <3>3, <3>4
  <2>10. UndoneInv'
    <3> SUFFICES ASSUME NEW t \in DOMAIN start, Needed(t)', Tracked(t)', NEW p \in Paths
                 PROVE UndoneAt(t, p)'
      BY <2>1 DEF UndoneInv
    <3>1. Needed(t)
      BY <2>1 DEF Needed
    <3>2. Tracked(t)
      BY <2>1 DEF Tracked, Since
    <3>3. UndoneAt(t, p)
      BY <3>1, <3>2 DEF HistInv, UndoneInv
    <3>4. CASE start[t][p] = Unknown
      BY <2>1, <3>4 DEF UndoneAt
    <3>5. CASE start[t][p] # Unknown /\ p \notin Changed
      BY <2>1, <2>3, <2>4, <2>7, <2>8, <3>3, <3>5 DEF UndoneAt
    <3>6. CASE start[t][p] # Unknown /\ p \in Changed
      <4>1. SinceOf(t, p)' = SinceOf(t, p) \cup {id}
        BY <2>7, <3>6
      <4>2. ASSUME NEW m \in SinceOf(t, p)', \A n \in SinceOf(t, p)' : m <= n
            PROVE start[t][p] = manifests'[m].before[p]
        <5>1. CASE m = id
          <6>1. SinceOf(t, p) = {}
            BY <2>1, <2>8, <4>1, <4>2, <5>1
          <6> QED BY <2>1, <2>5, <3>3, <3>6, <5>1, <6>1 DEF UndoneAt
        <5>2. CASE m # id
          <6>1. m \in SinceOf(t, p) /\ \A n \in SinceOf(t, p) : m <= n
            BY <4>1, <4>2, <5>2
          <6> QED BY <2>8, <3>3, <3>6, <6>1 DEF UndoneAt
        <5> QED BY <5>1, <5>2
      <4>3. SinceOf(t, p)' # {}
        BY <4>1
      <4> QED BY <2>1, <4>2, <4>3 DEF UndoneAt
    <3> QED BY <3>4, <3>5, <3>6
  <2>11. TodoInv' /\ KeptInv'
    BY <2>1 DEF TodoInv, KeptInv
  <2> QED BY <2>1, <2>2, <2>9, <2>10, <2>11, ToolRuns DEF HistInv
<1> QED BY <1>1, <1>2

(* Every step of a tool.                                                    *)
LEMMA HistToolSteps ==
  ASSUME BaseInv, BaseInv', HistInv, ToolNext
  PROVE  HistInv'
BY HistPrepareStep, HistPutPendingStep, HistPutBarrierStep, HistPutNothingStep, HistNotStartedStep,
   HistWriteStep, HistFinalizeStep, HistFinalizeFailsStep DEF ToolNext

-----------------------------------------------------------------------------
(* A step of the restore between its plan and its end: its range is as it    *)
(* was, whatever the status of its manifests, and it touches no other file.  *)
WithinRestore ==
  /\ rest.pc \notin {"idle", "plan"} /\ rest'.pc \notin {"idle", "plan"}
  /\ rest'.op = rest.op /\ rest'.turn = rest.turn /\ rest'.range = rest.range
  /\ rest'.safety = rest.safety /\ rest'.meddled = rest.meddled
  /\ rest'.why = "refused" => rest.why = "refused"
  /\ rest.why = "refused" => rest'.why = "refused"
  /\ UNCHANGED <<turn, tool, start, broken>>
  /\ \A p \in Paths \ PathsOf(RangeSet) : files'[p] = files[p]
  /\ DOMAIN manifests' = DOMAIN manifests
  /\ \A m \in DOMAIN manifests :
       /\ m \notin RangeSet => manifests'[m] = manifests[m]
       /\ manifests'[m].before = manifests[m].before /\ manifests'[m].after = manifests[m].after
       /\ manifests'[m].turn = manifests[m].turn /\ manifests'[m].complete = manifests[m].complete

(* So what the manifests tell stays.                                        *)
LEMMA WithinKept ==
  ASSUME BaseInv, HistInv, WithinRestore
  PROVE  /\ RangeSet' = RangeSet /\ SameManifests /\ SameKnown /\ Outer' = Outer
         /\ PathsOf(RangeSet)' = PathsOf(RangeSet) /\ \A p : OuterOf(p)' = OuterOf(p)
<1>1. RangeSet' = RangeSet /\ RangeSet \subseteq DOMAIN manifests
  BY RestoreRuns DEF RangeSet, WithinRestore
<1>2. \A m : m \notin RangeSet => (m \in Ready' <=> m \in Ready)
  BY DEF WithinRestore, Ready, Listed
<1>3. Seen' = Seen
  BY <1>1, <1>2 DEF Seen
<1>4. \A m : m \notin RangeSet => (m \in Complete' <=> m \in Complete)
  BY <1>2 DEF WithinRestore, Complete, Ready, Listed
<1>5. Known' = Known /\ Outer' = Outer
  BY <1>1, <1>4 DEF Known, Outer
<1>6. Seen \subseteq DOMAIN manifests
  BY <1>1 DEF Seen, Ready, Listed
<1>7. SameManifests
  BY <1>3, <1>5, <1>6 DEF SameManifests, WithinRestore
<1>8. PathsOf(RangeSet)' = PathsOf(RangeSet)
  BY <1>1 DEF PathsOf, Touched, WithinRestore
<1>9. \A p : OuterOf(p)' = OuterOf(p)
  <2>1. Outer \subseteq DOMAIN manifests
    BY DEF Outer, Complete, Ready, Listed
  <2> QED BY <1>5, <2>1 DEF OuterOf, In, Touched, WithinRestore
<1> QED BY <1>1, <1>5, <1>7, <1>8, <1>9, SameOf

(* Apart from the edited turn, which only Commit begins.                    *)
LEMMA HistWithin ==
  ASSUME BaseInv, HistInv, WithinRestore
  PROVE  EditedInv' => HistInv'
<1>1. /\ RangeSet' = RangeSet /\ SameManifests /\ SameKnown /\ Outer' = Outer
      /\ PathsOf(RangeSet)' = PathsOf(RangeSet) /\ \A p : OuterOf(p)' = OuterOf(p)
  BY WithinKept
<1>2. SameStarts
  BY DEF SameStarts, WithinRestore
<1>3. SameNeeds
  BY <1>1, NeedsKept DEF WithinRestore
<1>4. tool.pc = "idle" /\ tool'.pc = "idle"
  BY RestoreRuns DEF WithinRestore
<1>5. \A p \in Paths : Base(p)' = Base(p)
  BY <1>1, <1>4 DEF Base, WithinRestore
<1>6. ChainInv' /\ UndoneInv'
  BY <1>1, <1>2, <1>3, <1>5, Kept DEF HistInv
<1>7. TodoInv' /\ KeptInv'
  BY <1>4 DEF TodoInv, KeptInv
<1>8. MeddleInv'
  <2> SUFFICES ASSUME NEW p \in rest.meddled PROVE Lost(p)' /\ LastBroken(OuterOf(p), p)'
    BY DEF MeddleInv, WithinRestore
  <2>1. p \in Paths
    BY RestoreRuns DEF RestTyped, WithinRestore
  <2>2. Lost(p) /\ LastBroken(OuterOf(p), p)
    BY DEF HistInv, MeddleInv, WithinRestore
  <2> QED BY <1>1, <1>2, <1>3, <2>1, <2>2, LostKept DEF LastBroken, SameStarts
<1>9. OrderInv'
  BY <1>1 DEF HistInv, OrderInv
<1>10. ChatInv'
  <2> SUFFICES ASSUME rest.op = "chat", rest.why # "refused"
               PROVE /\ RangeSet' = Since(rest.turn)' /\ Tracked(rest.turn)' /\ Needed(rest.turn)'
                     /\ rest.turn \in DOMAIN start'
    BY DEF ChatInv, WithinRestore
  <2>1. /\ RangeSet = Since(rest.turn) /\ Tracked(rest.turn) /\ Needed(rest.turn)
        /\ rest.turn \in DOMAIN start
    BY DEF HistInv, ChatInv, WithinRestore
  <2>2. Since(rest.turn)' = Since(rest.turn)
    BY <1>1 DEF SameManifests, Since, WithinRestore
  <2> QED BY <1>1, <2>1, <2>2, NeedsSame, SameOf DEF WithinRestore
<1> QED BY <1>6, <1>7, <1>8, <1>9, <1>10 DEF HistInv

(* Steps that write no manifest.                                            *)
LEMMA WithinFields ==
  ASSUME BaseInv, rest.pc \notin {"idle", "plan"}, manifests' = manifests,
         UNCHANGED <<turn, tool, start, broken>>,
         \A p \in Paths \ PathsOf(RangeSet) : files'[p] = files[p],
         NEW pc \in {"validate", "apply", "invalidate", "commit", "undo", "done"},
         NEW why, why # "refused", NEW todo, NEW clean, rest.why # "refused",
         \/ rest' = [rest EXCEPT !.pc = pc]
         \/ rest' = [rest EXCEPT !.pc = pc, !.todo = todo]
         \/ rest' = [rest EXCEPT !.todo = todo]
         \/ rest' = [rest EXCEPT !.pc = pc, !.why = why, !.todo = todo]
         \/ rest' = [rest EXCEPT !.todo = todo, !.clean = clean]
         \/ rest' = [rest EXCEPT !.pc = pc, !.why = why, !.clean = clean]
  PROVE  WithinRestore /\ rest'.pc \in {rest.pc, pc} /\ rest'.why \in {rest.why, why}
<1>1. rest \in RestTypes
  BY RestoreRuns
<1>2. /\ rest'.op = rest.op /\ rest'.turn = rest.turn /\ rest'.range = rest.range
      /\ rest'.safety = rest.safety /\ rest'.meddled = rest.meddled
      /\ rest'.pc \in {rest.pc, pc} /\ rest'.why \in {rest.why, why}
  <2>1. CASE rest' = [rest EXCEPT !.pc = pc]
    BY <1>1, <2>1 DEF RestTypes
  <2>2. CASE rest' = [rest EXCEPT !.pc = pc, !.todo = todo]
    BY <1>1, <2>2 DEF RestTypes
  <2>3. CASE rest' = [rest EXCEPT !.todo = todo]
    BY <1>1, <2>3 DEF RestTypes
  <2>4. CASE rest' = [rest EXCEPT !.pc = pc, !.why = why, !.todo = todo]
    BY <1>1, <2>4 DEF RestTypes
  <2>5. CASE rest' = [rest EXCEPT !.todo = todo, !.clean = clean]
    BY <1>1, <2>5 DEF RestTypes
  <2>6. CASE rest' = [rest EXCEPT !.pc = pc, !.why = why, !.clean = clean]
    BY <1>1, <2>6 DEF RestTypes
  <2> QED BY <2>1, <2>2, <2>3, <2>4, <2>5, <2>6
<1> QED BY <1>2 DEF WithinRestore

(* validate.                                                                *)
LEMMA HistValidateStep ==
  ASSUME BaseInv, HistInv, NEW p \in Paths, Validate(p)
  PROVE  HistInv'
<1>1. /\ rest.pc = "validate" /\ UNCHANGED <<files, manifests, turn, tool, start, broken>>
      /\ \/ rest' = [rest EXCEPT !.pc = "apply", !.todo = Writes]
         \/ rest' = [rest EXCEPT !.todo = rest.todo \ {p}]
         \/ rest' = [rest EXCEPT !.pc = "undo", !.why = "conflict", !.todo = DOMAIN rest.safety]
  BY DEF Validate, hist, Undoing
<1>2. rest.why = "none"
  BY <1>1 DEF BaseInv, RestInv, RestoreInv
<1>3. WithinRestore /\ rest'.pc \in {"validate", "apply", "undo"}
  <2>1. CASE rest' = [rest EXCEPT !.pc = "apply", !.todo = Writes]
    BY <1>1, <1>2, <2>1, WithinFields
  <2>2. CASE rest' = [rest EXCEPT !.pc = "undo", !.why = "conflict", !.todo = DOMAIN rest.safety]
    BY <1>1, <1>2, <2>2, WithinFields
  <2>3. CASE rest' = [rest EXCEPT !.todo = rest.todo \ {p}]
    BY <1>1, <1>2, <2>3, WithinFields
  <2> QED BY <1>1, <2>1, <2>2, <2>3
<1> QED BY <1>3, HistWithin DEF EditedInv, Committed

(* applyReverse: only files of the range are written.                       *)
LEMMA HistApplyStep ==
  ASSUME BaseInv, HistInv, NEW m \in RangeSet, NEW p \in Paths, Apply(m, p)
  PROVE  HistInv'
<1>1. /\ rest.pc = "apply" /\ <<m, p>> \in rest.todo
      /\ UNCHANGED <<manifests, turn, tool, start, broken>>
      /\ rest' = [rest EXCEPT !.todo = rest.todo \ {<<m, p>>}]
      /\ files' = [files EXCEPT ![p] = manifests[m].before[p]]
  BY DEF Apply, hist
<1>2. rest.why = "none" /\ p \in PathsOf(RangeSet) /\ files \in [Paths -> Contents]
  <2>1. <<m, p>> \in Writes
    BY <1>1 DEF BaseInv, RangeInv
  <2> QED BY <1>1, <2>1, RestoreRuns DEF BaseInv, RestInv, RestoreInv, Writes
<1>3. \A q \in Paths \ PathsOf(RangeSet) : files'[q] = files[q]
  BY <1>1, <1>2
<1>4. WithinRestore /\ rest'.pc = "apply"
  <2> DEFINE todo == rest.todo \ {<<m, p>>}
  <2>1. rest' = [rest EXCEPT !.todo = todo]
    BY <1>1
  <2> HIDE DEF todo
  <2>2. WithinRestore /\ rest'.pc \in {rest.pc, "apply"}
    BY <1>1, <1>2, <1>3, <2>1, WithinFields
  <2> QED BY <1>1, <2>2
<1> QED BY <1>4, HistWithin DEF EditedInv, Committed

(* A write whose outcome is unknown.                                        *)
LEMMA HistOutcomeStep ==
  ASSUME BaseInv, HistInv, NEW m \in RangeSet, NEW p \in Paths, OutcomeUnknown(m, p)
  PROVE  HistInv'
<1>1. /\ rest.pc = "apply" /\ <<m, p>> \in rest.todo
      /\ UNCHANGED <<manifests, turn, tool, start, broken>>
      /\ rest' = [rest EXCEPT !.pc = "done", !.why = "unknown", !.clean = FALSE]
      /\ files' \in {files, [files EXCEPT ![p] = manifests[m].before[p]]}
  BY DEF OutcomeUnknown, hist
<1>2. rest.why = "none" /\ p \in PathsOf(RangeSet) /\ files \in [Paths -> Contents] /\ rest \in RestTypes
  <2>1. <<m, p>> \in Writes
    BY <1>1 DEF BaseInv, RangeInv
  <2> QED BY <1>1, <2>1, RestoreRuns DEF BaseInv, RestInv, RestoreInv, Writes
<1>3. \A q \in Paths \ PathsOf(RangeSet) : files'[q] = files[q]
  BY <1>1, <1>2
<1>4. WithinRestore
  BY <1>1, <1>2, <1>3, WithinFields
<1>5. rest'.why = "unknown"
  BY <1>1, <1>2 DEF RestTypes
<1> QED BY <1>4, <1>5, HistWithin DEF EditedInv, Committed

(* verifyFinal.                                                             *)
LEMMA HistVerifyStep ==
  ASSUME BaseInv, HistInv, Verify
  PROVE  HistInv'
<1>1. /\ rest.pc = "apply" /\ UNCHANGED <<files, manifests, turn, tool, start, broken>>
      /\ \/ rest' = [rest EXCEPT !.pc = "invalidate", !.todo = rest.range]
         \/ rest' = [rest EXCEPT !.pc = "undo", !.why = "error", !.todo = DOMAIN rest.safety]
  BY DEF Verify, hist, Undoing
<1>2. rest.why = "none"
  BY <1>1 DEF BaseInv, RestInv, RestoreInv
<1>3. WithinRestore /\ rest'.pc \in {"apply", "invalidate", "undo"}
  <2>1. CASE rest' = [rest EXCEPT !.pc = "invalidate", !.todo = rest.range]
    BY <1>1, <1>2, <2>1, WithinFields
  <2>2. CASE rest' = [rest EXCEPT !.pc = "undo", !.why = "error", !.todo = DOMAIN rest.safety]
    BY <1>1, <1>2, <2>2, WithinFields
  <2> QED BY <1>1, <2>1, <2>2
<1> QED BY <1>3, HistWithin DEF EditedInv, Committed

(* A failure: the restore is taken back.                                    *)
LEMMA HistRestoreFailsStep ==
  ASSUME BaseInv, HistInv, RestoreFails
  PROVE  HistInv'
<1>1. /\ rest.pc \in {"validate", "apply", "invalidate", "commit"}
      /\ UNCHANGED <<files, manifests, turn, tool, start, broken>>
      /\ rest' = [rest EXCEPT !.pc = "undo", !.why = "error", !.todo = DOMAIN rest.safety]
  BY DEF RestoreFails, hist, Undoing
<1>2. rest.why = "none"
  BY <1>1 DEF BaseInv, RestInv, RestoreInv
<1>3. WithinRestore /\ rest'.pc # "done"
  BY <1>1, <1>2, WithinFields
<1> QED BY <1>3, HistWithin DEF EditedInv, Committed

(* A file is put back.                                                      *)
LEMMA HistUndoStep ==
  ASSUME BaseInv, HistInv, NEW p \in Paths, Undo(p)
  PROVE  HistInv'
<1>1. /\ rest.pc = "undo" /\ p \in rest.todo
      /\ UNCHANGED <<manifests, turn, tool, start, broken>>
      /\ rest' = [rest EXCEPT !.todo = rest.todo \ {p}]
      /\ files' = [files EXCEPT ![p] = rest.safety[p]]
  BY DEF Undo, hist
<1>2. rest.why \in {"conflict", "error"} /\ p \in PathsOf(RangeSet) /\ files \in [Paths -> Contents]
  BY <1>1, RestoreRuns DEF BaseInv, RestInv, RestoreInv, RangeInv
<1>3. \A q \in Paths \ PathsOf(RangeSet) : files'[q] = files[q]
  BY <1>1, <1>2
<1>4. WithinRestore /\ rest'.pc \in {rest.pc, "undo"}
  <2> DEFINE todo == rest.todo \ {p}
  <2>1. rest' = [rest EXCEPT !.todo = todo]
    BY <1>1
  <2> HIDE DEF todo
  <2> QED BY <1>1, <1>2, <1>3, <2>1, WithinFields
<1> QED BY <1>1, <1>4, HistWithin DEF EditedInv, Committed

(* A file cannot be put back.                                               *)
LEMMA HistUndoFailsStep ==
  ASSUME BaseInv, HistInv, UndoFails
  PROVE  HistInv'
<1>1. /\ rest.pc = "undo" /\ UNCHANGED <<files, manifests, turn, tool, start, broken>>
      /\ rest' = [rest EXCEPT !.todo = {}, !.clean = FALSE]
  BY DEF UndoFails, hist
<1>2. rest.why \in {"conflict", "error"}
  BY <1>1 DEF BaseInv, RestInv, RestoreInv
<1>3. WithinRestore /\ rest'.pc \in {rest.pc, "undo"}
  BY <1>1, <1>2, WithinFields
<1> QED BY <1>1, <1>3, HistWithin DEF EditedInv, Committed

(* A manifest of the range is invalidated, and stays in the range.          *)
LEMMA HistInvalidateStep ==
  ASSUME BaseInv, HistInv, Invalidate
  PROVE  HistInv'
<1>1. rest.pc = "invalidate" /\ UNCHANGED <<files, turn, tool, start, broken>>
  BY DEF Invalidate, hist
<1>2. /\ rest \in RestTypes /\ rest.why = "none" /\ rest.range = RangeSet
      /\ manifests \in Seq(Manifests) /\ RangeSet \in SUBSET DOMAIN manifests /\ rest.todo \subseteq RangeSet
  BY <1>1, RestoreRuns DEF BaseInv, RestInv, RestoreInv, RangeInv
<1>3. CASE rest.todo = {}
  <2>1. manifests' = manifests /\ rest' = [rest EXCEPT !.pc = "commit"]
    BY <1>3 DEF Invalidate
  <2>2. WithinRestore /\ rest'.pc \in {rest.pc, "commit"}
    BY <1>1, <1>2, <2>1, WithinFields
  <2> QED BY <1>1, <2>2, HistWithin DEF EditedInv, Committed
<1>4. CASE rest.todo # {}
  <2> DEFINE f == First(rest.todo)
  <2>1. /\ manifests' = [manifests EXCEPT ![f].status = "invalidated"]
        /\ rest' = [rest EXCEPT !.todo = rest.todo \ {f}]
    BY <1>4 DEF Invalidate
  <2>2. f \in RangeSet /\ f \in DOMAIN manifests
    <3>1. rest.todo \in SUBSET DOMAIN manifests
      BY <1>2
    <3>2. \E m \in rest.todo : \A n \in rest.todo : manifests[m].seq <= manifests[n].seq
      BY <1>2, <1>4, <3>1, FirstOf
    <3>3. f \in rest.todo
      BY <3>2 DEF First
    <3> QED BY <1>2, <3>3
  <2> HIDE DEF f
  <2>3. /\ rest'.op = rest.op /\ rest'.turn = rest.turn /\ rest'.range = rest.range
        /\ rest'.safety = rest.safety /\ rest'.meddled = rest.meddled
        /\ rest'.pc = "invalidate" /\ rest'.why = rest.why
    BY <1>1, <1>2, <2>1 DEF RestTypes
  <2>4. manifests[f] \in Manifests
    BY <1>2, <2>2, ManifestIs
  <2> DEFINE w == [manifests[f] EXCEPT !.status = "invalidated"]
  <2>5. /\ w.turn = manifests[f].turn /\ w.complete = manifests[f].complete
        /\ w.before = manifests[f].before /\ w.after = manifests[f].after
    BY <2>4 DEF Manifests
  <2>6. manifests' = [manifests EXCEPT ![f] = w]
    BY <2>1
  <2> HIDE DEF w
  <2>7. /\ DOMAIN manifests' = DOMAIN manifests
        /\ \A m \in DOMAIN manifests : manifests'[m] = IF m = f THEN w ELSE manifests[m]
    BY <1>2, <2>2, <2>6
  <2>8. WithinRestore
    BY <1>1, <2>2, <2>3, <2>5, <2>7 DEF WithinRestore
  <2> QED BY <1>1, <2>3, <2>8, HistWithin DEF EditedInv, Committed
<1> QED BY <1>3, <1>4

(* The manifests are put back.                                              *)
LEMMA HistPutBackStep ==
  ASSUME BaseInv, HistInv, PutBack
  PROVE  HistInv'
<1>1. PICK lost \in SUBSET RangeSet :
        manifests' = AsBefore(lost) /\ rest' = [rest EXCEPT !.pc = "done", !.clean = @ /\ lost = {}]
  BY DEF PutBack
<1>2. rest.pc = "undo" /\ UNCHANGED <<files, turn, tool, start, broken>>
  BY DEF PutBack, hist
<1>3. /\ rest \in RestTypes /\ rest.why \in {"conflict", "error"} /\ rest.clean \in BOOLEAN
      /\ manifests \in Seq(Manifests) /\ RangeSet \in SUBSET DOMAIN manifests
  BY <1>2, RestoreRuns DEF BaseInv, RestInv, RestoreInv, RestTyped
<1> DEFINE b == rest.clean /\ lost = {}
<1>4. rest' = [rest EXCEPT !.pc = "done", !.clean = b]
  BY <1>1
<1> HIDE DEF b
<1>5. /\ rest'.op = rest.op /\ rest'.turn = rest.turn /\ rest'.range = rest.range
      /\ rest'.safety = rest.safety /\ rest'.meddled = rest.meddled
      /\ rest'.pc = "done" /\ rest'.why = rest.why
  BY <1>3, <1>4 DEF RestTypes
<1>6. /\ DOMAIN manifests' = DOMAIN manifests
      /\ \A m \in DOMAIN manifests :
           manifests'[m] = IF m \in RangeSet \ lost THEN [manifests[m] EXCEPT !.status = "ready"]
                           ELSE manifests[m]
  BY <1>1 DEF AsBefore
<1>7. \A M \in Manifests :
        LET w == [M EXCEPT !.status = "ready"] IN
          w.turn = M.turn /\ w.complete = M.complete /\ w.before = M.before /\ w.after = M.after
  BY DEF Manifests
<1>8. ASSUME NEW m \in DOMAIN manifests
      PROVE  /\ m \notin RangeSet => manifests'[m] = manifests[m]
             /\ manifests'[m].before = manifests[m].before /\ manifests'[m].after = manifests[m].after
             /\ manifests'[m].turn = manifests[m].turn /\ manifests'[m].complete = manifests[m].complete
  <2>1. manifests[m] \in Manifests
    BY <1>3, ManifestIs
  <2>2. CASE m \in RangeSet \ lost
    <3> DEFINE w == [manifests[m] EXCEPT !.status = "ready"]
    <3>1. /\ w.turn = manifests[m].turn /\ w.complete = manifests[m].complete
          /\ w.before = manifests[m].before /\ w.after = manifests[m].after
      BY <1>7, <2>1
    <3>2. manifests'[m] = w
      BY <1>6, <2>2
    <3> HIDE DEF w
    <3> QED BY <2>2, <3>1, <3>2
  <2>3. CASE m \notin RangeSet \ lost
    BY <1>6, <2>3
  <2> QED BY <2>2, <2>3
<1>9. WithinRestore
  BY <1>2, <1>3, <1>5, <1>6, <1>8 DEF WithinRestore
<1> QED BY <1>3, <1>5, <1>9, HistWithin DEF EditedInv, Committed

(* Someone else writes.                                                     *)
LEMMA HistOutsideStep ==
  ASSUME BaseInv, HistInv, NEW p \in Paths, NEW c \in Contents, Outside(p, c)
  PROVE  HistInv'
<1>1. /\ UNCHANGED <<manifests, turn, tool>>
      /\ files' = [files EXCEPT ![p] = c] /\ start' = Unkept({p}) /\ broken' = broken \cup Breaks({p})
  BY DEF Outside
<1>2. \A q \in Paths : q # p => files'[q] = files[q]
  BY <1>1 DEF BaseInv, Types
<1>3. /\ rest.pc \in {"idle", "plan"} => rest' = rest
      /\ rest.pc \notin {"idle", "plan"} =>
           /\ rest'.pc = rest.pc /\ rest'.op = rest.op /\ rest'.turn = rest.turn /\ rest'.range = rest.range
           /\ rest'.safety = rest.safety /\ rest'.why = rest.why /\ rest'.meddled = rest.meddled \cup {p}
  <2>1. rest.pc \in {"idle", "plan"} => rest' = rest
    BY DEF Outside
  <2>2. ASSUME rest.pc \notin {"idle", "plan"}
        PROVE  /\ rest'.pc = rest.pc /\ rest'.op = rest.op /\ rest'.turn = rest.turn /\ rest'.range = rest.range
               /\ rest'.safety = rest.safety /\ rest'.why = rest.why /\ rest'.meddled = rest.meddled \cup {p}
    <3>1. rest \in RestTypes /\ rest' = [rest EXCEPT !.meddled = rest.meddled \cup {p}]
      BY <2>2, TypesAre DEF BaseInv, Outside
    <3> QED BY <3>1 DEF RestTypes
  <2> QED BY <2>1, <2>2
<1>4. RangeSet' = RangeSet /\ rest'.pc = rest.pc
  BY <1>3 DEF RangeSet
<1>5. /\ SameManifests /\ SameKnown /\ Outer' = Outer /\ PathsOf(RangeSet)' = PathsOf(RangeSet)
      /\ Ready' = Ready
  BY <1>1, <1>4, RangeSame
<1>6. \A q : OuterOf(q)' = OuterOf(q)
  BY <1>1, <1>5 DEF OuterOf, In, Touched
<1>7. /\ DOMAIN start' = DOMAIN start /\ SameStarts
      /\ \A t \in DOMAIN start : start'[t][p] = Unknown
      /\ \A t \in DOMAIN start : \A q \in Paths \ {p} : start'[t][q] = start[t][q]
  <2>1. broken \subseteq broken'
    BY <1>1
  <2> QED BY <1>1, <2>1, UnkeptIs
<1>8. SameNeeds
  BY <1>1, <1>5, <1>7, NeedsKept
<1>9. Lost(p)' /\ LastBroken(OuterOf(p), p)'
  <2>1. /\ \A m \in KnownOf(p) : (\A n \in KnownOf(p) : n <= m) => <<m, p>> \in Breaks({p})
        /\ \A m \in OuterOf(p) : (\A n \in OuterOf(p) : n <= m) => <<m, p>> \in Breaks({p})
    BY BreaksLast
  <2>2. LastBroken(KnownOf(p), p)' /\ LastBroken(OuterOf(p), p)'
    <3>1. KnownOf(p)' = KnownOf(p) /\ OuterOf(p)' = OuterOf(p)
      BY <1>5, <1>6, SameKnownOf
    <3>2. LastBroken(KnownOf(p), p)'
      BY <1>1, <2>1, <3>1 DEF LastBroken
    <3>3. LastBroken(OuterOf(p), p)'
      BY <1>1, <2>1, <3>1 DEF LastBroken
    <3> QED BY <3>2, <3>3
  <2> QED BY <1>7, <2>2 DEF Lost
<1>10. ASSUME NEW q \in Paths, q # p PROVE Base(q)' = Base(q)
  <2>1. rest'.pc # "idle" => rest'.safety = rest.safety
    BY <1>3
  <2> QED BY <1>1, <1>2, <1>4, <1>5, <1>10, <2>1 DEF Base
<1>11. \A q \in Paths : Base(q)' = Base(q) \/ Lost(q)'
  BY <1>9, <1>10
<1>12. ChainInv' /\ UndoneInv'
  BY <1>5, <1>7, <1>8, <1>11, Kept DEF HistInv
<1>13. TodoInv'
  <2> SUFFICES ASSUME tool.pc \in {"put", "execute"}, tool.op = "tool", NEW q \in tool.todo
               PROVE files'[q] = tool.before[q] \/ Lost(q)'
    BY <1>1 DEF TodoInv
  <2>1. q \in Paths
    BY TypesAre, ToolIs DEF BaseInv
  <2>2. files[q] = tool.before[q] \/ Lost(q)
    BY DEF HistInv, TodoInv
  <2> QED BY <1>2, <1>5, <1>7, <1>8, <1>9, <2>1, <2>2, LostKept
<1>14. KeptInv'
  BY <1>1, <1>5 DEF HistInv, KeptInv
<1>15. MeddleInv'
  <2> SUFFICES ASSUME rest.pc # "idle", NEW q \in rest'.meddled
               PROVE Lost(q)' /\ LastBroken(OuterOf(q), q)'
    BY <1>4 DEF MeddleInv
  <2>1. CASE q = p
    BY <1>9, <2>1
  <2>2. CASE q \in rest.meddled
    <3>1. q \in Paths
      BY <2>2, RestoreRuns DEF RestTyped
    <3>2. Lost(q) /\ LastBroken(OuterOf(q), q)
      BY <2>2 DEF HistInv, MeddleInv
    <3> QED BY <1>5, <1>6, <1>7, <1>8, <3>1, <3>2, LostKept DEF LastBroken, SameStarts
  <2>3. q = p \/ q \in rest.meddled
    BY <1>3
  <2> QED BY <2>1, <2>2, <2>3
<1>16. OrderInv'
  BY <1>4, <1>5 DEF HistInv, OrderInv
<1>17. EditedInv'
  <2> SUFFICES ASSUME Committed', rest'.op = "edit"
               PROVE /\ \A m \in DOMAIN manifests : manifests[m].turn < Len(start')
                     /\ Len(start') > 0 /\ \A q \in Paths : start'[Len(start')][q] \in {files'[q], Unknown}
    BY <1>1 DEF EditedInv
  <2>1. Committed /\ rest.op = "edit"
    BY <1>3 DEF Committed
  <2>2. /\ \A m \in DOMAIN manifests : manifests[m].turn < Len(start)
        /\ Len(start) > 0 /\ \A q \in Paths : start[Len(start)][q] \in {files[q], Unknown}
    BY <2>1 DEF HistInv, EditedInv
  <2>3. Len(start') = Len(start) /\ DOMAIN start = 1..Len(start) /\ Len(start) \in Nat
    BY <1>1, BreaksTyped, TypesAre DEF BaseInv
  <2>4. Len(start) \in DOMAIN start
    BY <2>2, <2>3
  <2> QED BY <1>2, <1>7, <2>2, <2>3, <2>4
<1>18. ChatInv'
  <2> SUFFICES ASSUME rest.pc \notin {"idle", "plan"}, rest'.op = "chat", rest'.why # "refused"
               PROVE /\ RangeSet' = Since(rest.turn)' /\ Tracked(rest.turn)' /\ Needed(rest.turn)'
                     /\ rest.turn \in DOMAIN start
    BY <1>3, <1>4, <1>7 DEF ChatInv
  <2>1. rest.op = "chat" /\ rest.why # "refused" /\ rest'.turn = rest.turn
    BY <1>3
  <2>2. /\ RangeSet = Since(rest.turn) /\ Tracked(rest.turn) /\ Needed(rest.turn)
        /\ rest.turn \in DOMAIN start
    BY <2>1 DEF HistInv, ChatInv
  <2>3. Since(rest.turn)' = Since(rest.turn)
    BY <1>5, <2>1 DEF SameManifests, Since
  <2> QED BY <1>1, <1>4, <1>5, <2>1, <2>2, <2>3, NeedsSame, SameOf
<1> QED BY <1>12, <1>13, <1>14, <1>15, <1>16, <1>17, <1>18 DEF HistInv

(* The range of a restore is what is complete from some manifest on.        *)
LEMMA FromIs ==
  ASSUME BaseInv, NEW k \in DOMAIN manifests
  PROVE  \A m \in From(k), n \in Ready : n \notin From(k) => n < m
<1>1. /\ manifests \in Seq(Manifests) /\ InOrder(manifests, Listed)
      /\ Ready \subseteq Listed /\ Listed \subseteq DOMAIN manifests
  BY TypesAre DEF BaseInv, Types, DataInv, ManifestsInv
<1>2. \A m \in DOMAIN manifests : m \in Nat /\ manifests[m].seq \in Nat
  BY <1>1, ManifestIs
<1> SUFFICES ASSUME NEW m \in From(k), NEW n \in Ready, n \notin From(k) PROVE n < m
  OBVIOUS
<1>3. m \in Ready /\ manifests[m].seq >= manifests[k].seq /\ ~(manifests[n].seq >= manifests[k].seq)
  BY DEF From
<1>4. m \in Nat /\ n \in Nat /\ manifests[m].seq \in Nat /\ manifests[n].seq \in Nat /\ manifests[k].seq \in Nat
  BY <1>1, <1>2, <1>3
<1>5. m < n => manifests[m].seq < manifests[n].seq
  BY <1>1, <1>3 DEF InOrder
<1> QED BY <1>3, <1>4, <1>5

(* The range of an edit comes last too.                                     *)
LEMMA EditScopeIs ==
  ASSUME BaseInv
  PROVE  \A t \in Nat : \A m \in EditScope(t), n \in Complete \ EditScope(t) : n < m
<1>1. /\ manifests \in Seq(Manifests) /\ InOrder(manifests, Listed) /\ Len(start) \in Nat
      /\ Complete \subseteq Listed /\ Listed \subseteq DOMAIN manifests
  BY TypesAre DEF BaseInv, Types, DataInv, ManifestsInv
<1> SUFFICES ASSUME NEW t \in Nat, NEW m \in EditScope(t), NEW n \in Complete, n \notin EditScope(t)
             PROVE n < m
  OBVIOUS
<1>2. m \in Complete /\ manifests[m].turn >= t /\ ~(manifests[n].turn >= t)
  BY DEF EditScope
<1>3. /\ manifests[n].turn \in Nat /\ manifests[m].turn \in Nat /\ m \in Nat /\ n \in Nat
      /\ m # n
  BY <1>1, <1>2, ManifestIs DEF BaseInv, DataInv, BoundInv
<1>4. m < n => manifests[m].turn <= manifests[n].turn
  BY <1>1, <1>2 DEF InOrder
<1> QED BY <1>1, <1>2, <1>3, <1>4

(* From the first manifest of a turn on, they are of this turn or later.     *)
LEMMA TurnScopeIs ==
  ASSUME BaseInv, NEW m \in Ready
  PROVE  /\ First({n \in Ready : manifests[n].turn = manifests[m].turn}) \in DOMAIN manifests
         /\ From(First({n \in Ready : manifests[n].turn = manifests[m].turn}))
              = {n \in Ready : manifests[n].turn >= manifests[m].turn}
<1>1. /\ manifests \in Seq(Manifests) /\ InOrder(manifests, Listed)
      /\ Ready \subseteq Listed /\ Listed \subseteq DOMAIN manifests
  BY TypesAre DEF BaseInv, Types, DataInv, ManifestsInv
<1> DEFINE t == manifests[m].turn
           M == {n \in Ready : manifests[n].turn = t}
           f == First(M)
<1>2. M \in SUBSET DOMAIN manifests /\ m \in M /\ InOrder(manifests, M)
  BY <1>1 DEF InOrder
<1>3. f = CHOOSE k \in M : \A n \in M : manifests[k].seq <= manifests[n].seq
  BY DEF First
<1>4. t \in Nat /\ \A n \in M : n \in Ready /\ manifests[n].turn = t
  BY <1>1, ManifestIs
<1>5. \A n \in Ready : manifests[n].turn = t => n \in M
  OBVIOUS
<1> HIDE DEF t, M, f
<1>6. f \in M /\ \A n \in M : f <= n
  BY <1>1, <1>2, <1>3, FirstIs
<1>7. f \in Ready /\ f \in DOMAIN manifests /\ manifests[f].turn = t
  BY <1>1, <1>4, <1>6
<1>8. ASSUME NEW n \in Ready
      PROVE manifests[n].seq >= manifests[f].seq <=> manifests[n].turn >= t
  <2>1. /\ n \in Nat /\ f \in Nat /\ manifests[n].seq \in Nat /\ manifests[f].seq \in Nat
        /\ manifests[n].turn \in Nat
    BY <1>1, <1>7, ManifestIs
  <2>2. n < f => manifests[n].seq < manifests[f].seq /\ manifests[n].turn <= t
    BY <1>1, <1>7 DEF InOrder
  <2>3. f < n => manifests[f].seq < manifests[n].seq /\ t <= manifests[n].turn
    BY <1>1, <1>7 DEF InOrder
  <2>4. manifests[n].turn = t => f <= n
    BY <1>5, <1>6
  <2>5. CASE n < f
    <3>1. ~(f <= n)
      BY <2>1, <2>5
    <3>2. manifests[n].turn # t
      BY <2>4, <3>1
    <3> QED BY <1>4, <2>1, <2>2, <2>5, <3>2
  <2>6. CASE f < n
    BY <1>4, <2>1, <2>3, <2>6
  <2>7. CASE n = f
    BY <1>4, <1>7, <2>1, <2>7
  <2> QED BY <2>1, <2>5, <2>6, <2>7
<1>9. From(f) = {n \in Ready : manifests[n].turn >= t}
  BY <1>8 DEF From
<1> QED BY <1>7, <1>9 DEF t, M, f

(* What lies outside the range comes before it.                             *)
LEMMA RangeLast ==
  ASSUME BaseInv, rest.pc = "plan", NEW t \in Nat, RangeOf(rest.op, rest.target, t) # Refused
  PROVE  /\ \A m \in RangeOf(rest.op, rest.target, t) :
              \A n \in Complete \ RangeOf(rest.op, rest.target, t) : n < m
         /\ rest.op = "chat" =>
              /\ rest.target \in Complete
              /\ RangeOf(rest.op, rest.target, t) = {n \in Ready : manifests[n].turn >= manifests[rest.target].turn}
<1> DEFINE R == RangeOf(rest.op, rest.target, t)
<1>0. Complete \subseteq Ready /\ Ready \subseteq DOMAIN manifests /\ rest.op \in {"files", "chat", "edit"}
  BY TypesAre DEF BaseInv, RestTyped, RestoreOps
<1>1. CASE rest.op = "edit"
  <2>1. R = {} \/ R = EditScope(t)
    BY <1>1 DEF RangeOf
  <2> QED BY <1>1, <2>1, EditScopeIs
<1>2. CASE rest.op # "edit"
  <2>1. rest.target \in Complete /\ R = Scope(rest.op, rest.target) \cap Complete
        /\ (rest.op = "chat" => Scope(rest.op, rest.target) \subseteq Complete)
    BY <1>2 DEF RangeOf, Covered
  <2>2. CASE rest.op = "files"
    <3>1. R = From(rest.target) \cap Complete
      BY <2>1, <2>2 DEF Scope
    <3>2. \A m \in From(rest.target), n \in Ready : n \notin From(rest.target) => n < m
      BY <1>0, <2>1, FromIs
    <3> HIDE DEF R
    <3>3. \A m \in R : \A n \in Complete \ R : n < m
      BY <1>0, <3>1, <3>2
    <3> QED BY <2>2, <3>3 DEF R
  <2>3. CASE rest.op = "chat"
    <3> DEFINE f == First({n \in Ready : manifests[n].turn = manifests[rest.target].turn})
    <3>1. R = From(f)
      BY <2>1, <2>3 DEF Scope
    <3>2. /\ f \in DOMAIN manifests
          /\ From(f) = {n \in Ready : manifests[n].turn >= manifests[rest.target].turn}
      BY <1>0, <2>1, TurnScopeIs
    <3>3. \A m \in From(f), n \in Ready : n \notin From(f) => n < m
      BY <3>2, FromIs
    <3> HIDE DEF R, f
    <3>4. \A m \in R : \A n \in Complete \ R : n < m
      BY <1>0, <3>1, <3>3
    <3> QED BY <2>1, <3>1, <3>2, <3>4 DEF R
  <2> QED BY <1>0, <1>2, <2>2, <2>3
<1> QED BY <1>1, <1>2

(* planRestore: the range is what comes last.                               *)
LEMMA HistPlanStep ==
  ASSUME BaseInv, BaseInv', HistInv, Plan
  PROVE  HistInv'
<1>0. PICK t \in Roots :
        LET R == RangeOf(rest.op, rest.target, t)
        IN  rest' = IF R = Refused THEN [rest EXCEPT !.pc = "done", !.why = "refused"]
                    ELSE [rest EXCEPT !.pc = IF R = {} THEN "commit" ELSE "validate",
                            !.turn = t, !.range = R, !.safety = [p \in PathsOf(R) |-> files[p]],
                            !.todo = IF R = {} THEN {} ELSE Validated(R)]
  BY DEF Plan
<1> DEFINE R == RangeOf(rest.op, rest.target, t)
           s == [p \in PathsOf(R) |-> files[p]]
           d == IF R = {} THEN {} ELSE Validated(R)
<1>1. /\ rest.pc = "plan" /\ UNCHANGED <<files, manifests, turn, tool, start, broken>>
      /\ rest' = IF R = Refused THEN [rest EXCEPT !.pc = "done", !.why = "refused"]
                 ELSE [rest EXCEPT !.pc = IF R = {} THEN "commit" ELSE "validate",
                                   !.turn = t, !.range = R, !.safety = s, !.todo = d]
  BY <1>0 DEF Plan, hist
<1>2. /\ rest \in RestTypes /\ rest.range = {} /\ RangeSet = {} /\ rest.meddled = {} /\ rest.why = "none"
      /\ tool.pc = "idle"
  BY <1>1, RestoreRuns DEF BaseInv, RestInv, RestoreInv
<1>t. t \in Nat
  <2>1. CASE rest.op = "edit"
    BY <2>1 DEF Roots, BaseInv, Types
  <2>2. CASE rest.op # "edit"
    <3>1. rest.target \in DOMAIN manifests
      BY <1>1, <1>2, <2>2, RestoreRuns DEF BaseInv, RestInv, RestoreInv, DataInv, AskedInv, RestTyped, RestoreOps
    <3> QED BY <2>2, <3>1, ManifestIs DEF Roots, BaseInv, Types
  <2> QED BY <2>1, <2>2
<1>3. R # Refused => R \subseteq Complete
  BY RangeOfIs
<1>4. /\ rest'.pc \in {"done", "commit", "validate"} /\ rest'.meddled = {} /\ rest'.op = rest.op
      /\ R = Refused => rest'.range = {} /\ rest'.why = "refused" /\ rest'.pc = "done"
      /\ R # Refused => rest'.range = R /\ rest'.safety = s /\ rest'.turn = t /\ rest'.pc # "done"
  <2> HIDE DEF R, s, d
  <2>1. CASE R = Refused
    <3>1. rest' = [rest EXCEPT !.pc = "done", !.why = "refused"]
      BY <1>1, <2>1
    <3> QED BY <1>2, <2>1, <3>1 DEF RestTypes
  <2>2. CASE R # Refused
    <3> DEFINE pc == IF R = {} THEN "commit" ELSE "validate"
    <3>1. rest' = [rest EXCEPT !.pc = pc, !.turn = t, !.range = R, !.safety = s, !.todo = d]
      BY <1>1, <2>2
    <3>2. pc \in {"commit", "validate"}
      OBVIOUS
    <3> HIDE DEF pc
    <3> QED BY <1>2, <2>2, <3>1, <3>2 DEF RestTypes
  <2> QED BY <2>1, <2>2
<1>5. RangeSet' = IF R = Refused THEN {} ELSE R
  BY <1>4 DEF RangeSet
<1> HIDE DEF R, d
<1>6. RangeSet' \subseteq Complete
  BY <1>3, <1>5
<1>7. Ready' = Ready /\ Complete' = Complete /\ Complete \subseteq Ready
  BY <1>1 DEF Complete, Ready, Listed
<1>8. Known' = Known /\ Seen' = Seen /\ Known = Complete /\ Seen = Ready
  BY <1>2, <1>6, <1>7 DEF Known, Seen
<1>9. SameManifests /\ SameKnown
  BY <1>1, <1>8, SameOf DEF SameManifests
<1>10. SameStarts /\ SameNeeds
  BY <1>1, <1>9, NeedsKept DEF SameStarts
<1>11. \A p \in Paths : Base(p)' = Base(p)
  <2>1. \A p \in Paths : Base(p) = files[p]
    BY <1>1, <1>2 DEF Base, PathsOf
  <2>2. ASSUME NEW p \in Paths PROVE Base(p)' = files[p]
    <3>1. CASE R = Refused
      BY <1>1, <1>2, <1>5, <3>1 DEF Base, PathsOf
    <3>2. CASE R # Refused
      <4>1. PathsOf(RangeSet)' = PathsOf(R)
        BY <1>1, <1>5, <3>2 DEF PathsOf, Touched
      <4> QED BY <1>1, <1>2, <1>4, <3>2, <4>1 DEF Base
    <3> QED BY <3>1, <3>2
  <2> QED BY <2>1, <2>2
<1>12. ChainInv' /\ UndoneInv'
  BY <1>9, <1>10, <1>11, Kept DEF HistInv
<1>13. TodoInv' /\ KeptInv' /\ MeddleInv' /\ EditedInv'
  BY <1>1, <1>2, <1>4 DEF TodoInv, KeptInv, MeddleInv, EditedInv, Committed
<1>14. OrderInv'
  <2>1. CASE R = Refused
    BY <1>5, <2>1 DEF OrderInv
  <2>2. CASE R # Refused
    <3>1. RangeSet' = R /\ Outer' = Complete \ R
      BY <1>5, <1>7, <2>2 DEF Outer
    <3>2. \A m \in R : \A n \in Complete \ R : n < m
      BY <1>1, <1>t, <2>2, RangeLast DEF R
    <3> QED BY <3>1, <3>2 DEF OrderInv
  <2> QED BY <2>1, <2>2
<1>15. ChatInv'
  <2> SUFFICES ASSUME rest.op = "chat", R # Refused
               PROVE /\ RangeSet' = Since(rest.turn)' /\ Tracked(rest.turn)' /\ Needed(rest.turn)'
                     /\ rest'.turn \in DOMAIN start'
    BY <1>4 DEF ChatInv
  <2>r. R # Refused
    OBVIOUS
  <2>1. rest.target \in Complete /\ R = {n \in Ready : manifests[n].turn >= manifests[rest.target].turn}
    BY <1>1, <1>t, <2>r, RangeLast DEF R
  <2>2. rest'.turn = manifests[rest.target].turn
    BY <1>4 DEF Roots
  <2>3. Since(rest.turn)' = R
    BY <1>1, <1>8, <2>1, <2>2 DEF Since
  <2>4. Tracked(rest.turn)'
    BY <1>1, <1>3, <2>3 DEF Tracked, Complete
  <2>5. Needed(rest.turn)'
    BY <1>1, <1>8, <2>1, <2>2 DEF Needed
  <2>6. rest'.turn \in DOMAIN start'
    BY <1>1, <2>1, <2>2, TypesAre DEF BaseInv, DataInv, BoundInv
  <2> QED BY <1>5, <2>3, <2>4, <2>5, <2>6
<1> QED BY <1>12, <1>13, <1>14, <1>15 DEF HistInv

(* The conversation goes back; the edited message begins a turn.            *)
LEMMA HistCommitStep ==
  ASSUME BaseInv, HistInv, Commit
  PROVE  HistInv'
<1>1. /\ rest.pc = "commit" /\ UNCHANGED <<files, manifests, turn, tool, broken>>
      /\ rest' = [rest EXCEPT !.pc = "done"]
      /\ start' = IF rest.op = "edit" THEN Append(start, files) ELSE start
  BY DEF Commit
<1>2. rest \in RestTypes /\ rest.why = "none" /\ tool.pc = "idle" /\ turn = NoTurn /\ RangeSet = rest.range
  BY <1>1, RestoreRuns DEF BaseInv, RestInv, RestoreInv
<1>3. /\ rest'.op = rest.op /\ rest'.turn = rest.turn /\ rest'.range = rest.range
      /\ rest'.safety = rest.safety /\ rest'.meddled = rest.meddled
      /\ rest'.pc = "done" /\ rest'.why = rest.why
  BY <1>1, <1>2 DEF RestTypes
<1>4. RangeSet' = RangeSet
  BY <1>2, <1>3 DEF RangeSet
<1>5. /\ SameManifests /\ SameKnown /\ Outer' = Outer /\ PathsOf(RangeSet)' = PathsOf(RangeSet)
      /\ Known' = Known
  BY <1>1, <1>4, RangeSame
<1>6. \A p : OuterOf(p)' = OuterOf(p)
  BY <1>1, <1>5 DEF OuterOf, In, Touched
<1>7. /\ Len(start) \in Nat /\ DOMAIN start = 1..Len(start)
      /\ \A t \in DOMAIN start : t \in DOMAIN start' /\ start'[t] = start[t]
      /\ NoTurn \notin DOMAIN start'
      /\ rest.op = "edit" => Len(start') = Len(start) + 1 /\ start'[Len(start')] = files
  <2>1. start \in Seq([Paths -> Contents \cup {Unknown}]) /\ files \in [Paths -> Contents \cup {Unknown}]
    BY DEF BaseInv, Types
  <2>2. CASE rest.op = "edit"
    BY <1>1, <2>1, <2>2 DEF NoTurn
  <2>3. CASE rest.op # "edit"
    BY <1>1, <2>1, <2>3 DEF NoTurn
  <2> QED BY <2>2, <2>3
<1>8. SameStarts
  BY <1>1, <1>7 DEF SameStarts
<1>9. SameNeeds
  <2> SUFFICES ASSUME NEW t \in DOMAIN start', Needed(t)', Tracked(t)'
               PROVE t \in DOMAIN start /\ Needed(t) /\ Tracked(t)
    BY DEF SameNeeds
  <2>1. Needed(t) /\ Tracked(t)
    BY <1>1, <1>5, NeedsSame, SameOf
  <2>2. PICK n \in Known : manifests[n].turn = t
    BY <1>2, <1>7, <2>1 DEF Needed
  <2>3. n \in DOMAIN manifests
    BY <1>1, RestoreRuns, TypesAre DEF BaseInv, Known
  <2> QED BY <1>7, <2>1, <2>2, <2>3 DEF BaseInv, DataInv, BoundInv
<1>10. \A p \in Paths : Base(p)' = Base(p)
  BY <1>1, <1>2, <1>3, <1>5 DEF Base
<1>11. ChainInv' /\ UndoneInv'
  BY <1>5, <1>8, <1>9, <1>10, Kept DEF HistInv
<1>12. TodoInv' /\ KeptInv'
  BY <1>1, <1>2 DEF TodoInv, KeptInv
<1>13. MeddleInv'
  <2> SUFFICES ASSUME NEW p \in rest.meddled PROVE Lost(p)' /\ LastBroken(OuterOf(p), p)'
    BY <1>3 DEF MeddleInv
  <2>1. p \in Paths
    BY <1>1, RestoreRuns DEF RestTyped
  <2>2. Lost(p) /\ LastBroken(OuterOf(p), p)
    BY <1>1 DEF HistInv, MeddleInv
  <2> QED BY <1>5, <1>6, <1>8, <1>9, <2>1, <2>2, LostKept DEF LastBroken, SameStarts
<1>14. OrderInv'
  BY <1>4, <1>5 DEF HistInv, OrderInv
<1>15. EditedInv'
  <2> SUFFICES ASSUME rest.op = "edit"
               PROVE /\ \A m \in DOMAIN manifests : manifests[m].turn < Len(start')
                     /\ Len(start') > 0 /\ \A p \in Paths : start'[Len(start')][p] \in {files[p], Unknown}
    BY <1>1, <1>3 DEF EditedInv
  <2>1. \A m \in DOMAIN manifests : manifests[m].turn \in 1..Len(start)
    BY DEF BaseInv, DataInv, BoundInv
  <2> QED BY <1>7, <2>1
<1>16. ChatInv'
  <2> SUFFICES ASSUME rest.op = "chat", rest.why # "refused"
               PROVE /\ RangeSet' = Since(rest.turn)' /\ Tracked(rest.turn)' /\ Needed(rest.turn)'
                     /\ rest.turn \in DOMAIN start'
    BY <1>3 DEF ChatInv
  <2>1. /\ RangeSet = Since(rest.turn) /\ Tracked(rest.turn) /\ Needed(rest.turn)
        /\ rest.turn \in DOMAIN start
    BY <1>1 DEF HistInv, ChatInv
  <2>2. Since(rest.turn)' = Since(rest.turn)
    BY <1>3, <1>5 DEF SameManifests, Since
  <2> QED BY <1>1, <1>3, <1>4, <1>5, <1>7, <2>1, <2>2, NeedsSame, SameOf
<1> QED BY <1>11, <1>12, <1>13, <1>14, <1>15, <1>16 DEF HistInv

(* A file whose manifests are as they were.                                 *)
LEMMA ChainAtKept ==
  ASSUME ChainInv, SameStarts, NEW p \in Paths, KnownOf(p)' = KnownOf(p), manifests' = manifests,
         Base(p)' = Base(p) \/ LastBroken(KnownOf(p), p)'
  PROVE  ChainAt(p)'
<1> SUFFICES ASSUME NEW m \in KnownOf(p), <<m, p>> \notin broken'
             PROVE  /\ (\A n \in KnownOf(p) : n <= m) => manifests[m].after[p] = Base(p)'
                    /\ \A n \in KnownOf(p) :
                         m < n /\ (\A k \in KnownOf(p) : m < k => n <= k)
                         => manifests[m].after[p] = manifests[n].before[p]
  BY DEF ChainAt
<1>1. /\ (\A n \in KnownOf(p) : n <= m) => manifests[m].after[p] = Base(p)
      /\ \A n \in KnownOf(p) :
           m < n /\ (\A k \in KnownOf(p) : m < k => n <= k)
           => manifests[m].after[p] = manifests[n].before[p]
  BY DEF ChainInv, ChainAt, SameStarts
<1>2. ASSUME \A n \in KnownOf(p) : n <= m PROVE Base(p)' = Base(p)
  BY <1>2 DEF LastBroken
<1> QED BY <1>1, <1>2

(* Nor is there more to undo in it.                                         *)
LEMMA UndoneAtKept ==
  ASSUME UndoneInv, SameStarts, NEW t \in DOMAIN start, Needed(t), Tracked(t), NEW p \in Paths,
         SinceOf(t, p)' = SinceOf(t, p), manifests' = manifests,
         Base(p)' = Base(p) \/ start'[t][p] = Unknown
  PROVE  UndoneAt(t, p)'
<1>1. UndoneAt(t, p)
  BY DEF UndoneInv
<1>2. start'[t][p] \in {start[t][p], Unknown}
  BY DEF SameStarts
<1> QED BY <1>1, <1>2 DEF UndoneAt

(* The restore is over: its range tells as much as its status says, and that *)
(* is the same for the files it does not touch.                             *)
LEMMA RangeLeft ==
  ASSUME BaseInv, manifests' = manifests, rest'.pc = "idle"
  PROVE  /\ RangeSet' = {} /\ Known' = Complete /\ Seen' = Ready /\ Complete \subseteq Known
         /\ \A p \in Paths \ PathsOf(RangeSet) :
              KnownOf(p)' = KnownOf(p) /\ \A t : SinceOf(t, p)' = SinceOf(t, p)
         /\ \A t : Tracked(t)' => Tracked(t)
<1>1. /\ RangeSet' = {} /\ Ready' = Ready /\ Complete' = Complete /\ Complete \subseteq Ready
  BY DEF RangeSet, Complete, Ready, Listed
<1>2. Known' = Complete /\ Seen' = Ready /\ Complete \subseteq Known
  BY <1>1 DEF Known, Seen
<1>3. ASSUME NEW p \in Paths \ PathsOf(RangeSet)
      PROVE KnownOf(p)' = KnownOf(p) /\ \A t : SinceOf(t, p)' = SinceOf(t, p)
  <2>1. \A m \in RangeSet : p \notin Touched(m)
    BY <1>3 DEF PathsOf
  <2>2. KnownOf(p)' = KnownOf(p)
    BY <1>2, <2>1 DEF KnownOf, Known, In, Touched
  <2>3. ASSUME NEW t PROVE SinceOf(t, p)' = SinceOf(t, p)
    BY <1>2, <2>1 DEF SinceOf, Since, Seen, In, Touched
  <2> QED BY <2>2, <2>3
<1>4. ASSUME NEW t, Tracked(t)' PROVE Tracked(t)
  <2>1. \A m \in RangeSet : manifests[m].complete
    BY DEF BaseInv, RestInv, RestoreInv, RangeSet
  <2>2. \A n \in Ready : manifests[n].turn >= t => manifests[n].complete
    BY <1>2, <1>4 DEF Tracked, Since
  <2> QED BY <2>1, <2>2 DEF Tracked, Since, Seen
<1> QED BY <1>1, <1>2, <1>3, <1>4

(* The process dies.                                                        *)
LEMMA HistCrashStep ==
  ASSUME BaseInv, BaseInv', HistInv, Crash
  PROVE  HistInv'
<1> DEFINE wrote == IF tool.pc = "execute" /\ tool.id # NoManifest THEN tool.scope \ tool.todo ELSE {}
           half == PathsOf(RangeSet)
<1>1. /\ UNCHANGED <<files, manifests>> /\ tool' = Idle /\ rest' = Idle /\ turn' = NoTurn
      /\ broken' = broken \cup Breaks(wrote) \cup ((DOMAIN manifests) \X half)
      /\ start' = Remembered(Reachable, wrote \cup half)
  <2>1. rest.pc \in {"idle", "plan"} => half = {}
    BY DEF RangeSet, PathsOf, BaseInv, RestInv, RestoreInv
  <2>2. (IF rest.pc \in {"idle", "plan"} THEN {} ELSE PathsOf(RangeSet)) = half
    BY <2>1
  <2> HIDE DEF half
  <2> QED BY <2>2 DEF Crash
<1>2. tool'.pc = "idle" /\ rest'.pc = "idle"
  BY <1>1 DEF Idle
<1>3. half \in SUBSET Paths /\ wrote \in SUBSET Paths
  <2>1. half \in SUBSET Paths
    BY RestoreRuns DEF RangeSet, PathsOf
  <2>2. wrote \in SUBSET Paths
    BY TypesAre, ToolIs DEF BaseInv
  <2> QED BY <2>1, <2>2
<1>4. /\ RangeSet' = {} /\ Known' = Complete /\ Seen' = Ready /\ Complete \subseteq Known
      /\ \A p \in Paths \ half : KnownOf(p)' = KnownOf(p) /\ \A t : SinceOf(t, p)' = SinceOf(t, p)
      /\ \A t : Tracked(t)' => Tracked(t)
  BY <1>1, <1>2, RangeLeft
<1>5. /\ DOMAIN start' = DOMAIN start /\ SameStarts
      /\ \A t \in DOMAIN start : \A p \in wrote \cup half : start'[t][p] = Unknown
  <2>1. broken \subseteq broken'
    BY <1>1
  <2> HIDE DEF wrote, half
  <2>2. /\ DOMAIN start' = DOMAIN start /\ SameStarts
        /\ \A t \in DOMAIN start : \A p \in Paths : p \in wrote \cup half => start'[t][p] = Unknown
    <3>1. start' = Remembered(Reachable, wrote \cup half)
      BY <1>1
    <3> QED BY <2>1, <3>1, RememberedIs
  <2> QED BY <1>3, <2>2
<1>6. SameNeeds
  <2> SUFFICES ASSUME NEW t \in DOMAIN start', Needed(t)', Tracked(t)'
               PROVE t \in DOMAIN start /\ Needed(t) /\ Tracked(t)
    BY DEF SameNeeds
  <2>1. t # NoTurn
    BY <1>5, TypesAre DEF BaseInv, NoTurn
  <2> QED BY <1>1, <1>4, <1>5, <2>1 DEF Needed
<1>7. \A p \in wrote : LastBroken(KnownOf(p), p)' \/ p \in half
  <2>1. ASSUME NEW p \in wrote, p \notin half PROVE LastBroken(KnownOf(p), p)'
    <3>1. \A m \in KnownOf(p) : (\A n \in KnownOf(p) : n <= m) => <<m, p>> \in Breaks(wrote)
      <4> HIDE DEF wrote
      <4> QED BY <1>3, <2>1, BreaksLast
    <3>2. KnownOf(p)' = KnownOf(p)
      BY <1>3, <1>4, <2>1
    <3>3. \A x \in Breaks(wrote) : x \in broken'
      BY <1>1
    <3> QED BY <3>1, <3>2, <3>3 DEF LastBroken
  <2> QED BY <2>1
<1>8. ASSUME NEW p \in Paths, p \notin half, p \notin wrote
      PROVE Base(p)' = Base(p) \/ Lost(p)
  <2>1. Base(p)' = files[p]
    BY <1>1, <1>2 DEF Base
  <2>2. CASE tool.pc = "execute" /\ tool.id # NoManifest /\ p \in tool.scope
    <3>1. p \in tool.todo /\ Base(p) = tool.before[p]
      BY <1>8, <2>2 DEF Base
    <3>2. tool.op = "tool"
      BY <2>2 DEF BaseInv, DataInv, ToolInv
    <3>3. files[p] = tool.before[p] \/ Lost(p)
      BY <2>2, <3>1, <3>2 DEF HistInv, TodoInv
    <3> QED BY <2>1, <3>1, <3>3
  <2>3. CASE ~(tool.pc = "execute" /\ tool.id # NoManifest /\ p \in tool.scope)
    BY <1>8, <2>1, <2>3 DEF Base
  <2> QED BY <2>2, <2>3
<1>9. ASSUME NEW p \in Paths, p \notin half, Lost(p) PROVE LastBroken(KnownOf(p), p)'
  <2>1. KnownOf(p)' = KnownOf(p)
    BY <1>4, <1>9
  <2> QED BY <1>9, <2>1, <1>5 DEF Lost, LastBroken, SameStarts
<1> HIDE DEF wrote, half
<1>10. ChainInv'
  <2> SUFFICES ASSUME NEW p \in Paths PROVE ChainAt(p)'
    BY DEF ChainInv
  <2>1. CASE p \in half
    <3>1. KnownOf(p)' \subseteq DOMAIN manifests
      BY <1>4, TypesAre DEF BaseInv, KnownOf, In
    <3>2. \A m \in KnownOf(p)' : <<m, p>> \in broken'
      BY <1>1, <2>1, <3>1
    <3> QED BY <3>2 DEF ChainAt
  <2>2. CASE p \notin half
    <3>1. Base(p)' = Base(p) \/ LastBroken(KnownOf(p), p)'
      BY <1>7, <1>8, <1>9, <2>2
    <3>2. KnownOf(p)' = KnownOf(p)
      BY <1>4, <2>2
    <3> QED BY <1>1, <1>5, <3>1, <3>2, ChainAtKept DEF HistInv
  <2> QED BY <2>1, <2>2
<1>11. UndoneInv'
  <2> SUFFICES ASSUME NEW t \in DOMAIN start', Needed(t)', Tracked(t)', NEW p \in Paths
               PROVE UndoneAt(t, p)'
    BY DEF UndoneInv
  <2>1. t \in DOMAIN start /\ Needed(t) /\ Tracked(t)
    BY <1>6 DEF SameNeeds
  <2>2. CASE p \in wrote \cup half
    BY <1>5, <2>1, <2>2 DEF UndoneAt
  <2>3. CASE p \notin wrote \cup half
    <3>1. Base(p)' = Base(p) \/ start'[t][p] = Unknown
      <4>1. CASE Lost(p)
        <5>1. start[t][p] = Unknown
          BY <2>1, <4>1 DEF Lost
        <5> QED BY <1>5, <2>1, <5>1 DEF SameStarts
      <4> QED BY <1>8, <2>3, <4>1
    <3>2. SinceOf(t, p)' = SinceOf(t, p)
      BY <1>4, <2>3
    <3> QED BY <1>1, <1>5, <2>1, <3>1, <3>2, UndoneAtKept DEF HistInv
  <2> QED BY <2>2, <2>3
<1>12. TodoInv' /\ KeptInv' /\ MeddleInv' /\ EditedInv' /\ ChatInv' /\ OrderInv'
  BY <1>2, <1>4 DEF TodoInv, KeptInv, MeddleInv, EditedInv, ChatInv, OrderInv, Committed
<1> QED BY <1>10, <1>11, <1>12 DEF HistInv

(* A restore is over.                                                       *)
LEMMA EndIs ==
  ASSUME BaseInv, RestoreEnds
  PROVE  /\ rest.pc = "done" /\ UNCHANGED <<files, manifests>>
         /\ tool.pc = "idle" /\ tool'.pc = "idle" /\ rest'.pc = "idle" /\ turn = NoTurn
         /\ turn' = IF rest.op = "edit" /\ Committed THEN Len(start) ELSE turn
         /\ RangeSet' = {} /\ \A p : Base(p)' = files[p]
         /\ \A p \in Paths \ PathsOf(RangeSet) : Base(p) = files[p]
         /\ \A p \in PathsOf(RangeSet) : Base(p) = rest.safety[p]
<1>1. /\ rest.pc = "done" /\ UNCHANGED <<files, manifests, tool>> /\ rest' = Idle
      /\ turn' = IF rest.op = "edit" /\ Committed THEN Len(start) ELSE turn
  BY DEF RestoreEnds, Committed
<1>2. tool.pc = "idle" /\ turn = NoTurn /\ rest'.pc = "idle"
  BY <1>1, RestoreRuns DEF Idle
<1>3. RangeSet' = {}
  BY <1>2 DEF RangeSet
<1> QED BY <1>1, <1>2, <1>3 DEF Base

(* The edited turn has no manifest yet.                                     *)
LEMMA EditedTurn ==
  ASSUME BaseInv, HistInv, RestoreEnds, SameStarts, rest.op = "edit", Committed, NEW p \in Paths,
         NEW t, t = Len(start)
  PROVE  UndoneAt(t, p)'
<1>1. /\ \A m \in DOMAIN manifests : manifests[m].turn \in Nat /\ manifests[m].turn < t
      /\ t > 0 /\ start[t][p] \in {files[p], Unknown} /\ t \in Nat
      /\ DOMAIN start = 1..Len(start) /\ Ready \subseteq DOMAIN manifests
  BY TypesAre, ManifestIs DEF HistInv, EditedInv, BaseInv, Types
<1>2. start'[t][p] \in {start[t][p], Unknown}
  BY <1>1 DEF SameStarts
<1>3. UNCHANGED manifests /\ Base(p)' = files[p] /\ rest'.pc = "idle"
  BY EndIs
<1>4. Seen' = Ready
  BY <1>3, RangeLeft
<1>5. \A m \in Ready : ~(manifests[m].turn >= t)
  BY <1>1
<1>6. SinceOf(t, p)' = {}
  BY <1>3, <1>4, <1>5 DEF SinceOf, Since, In
<1> QED BY <1>1, <1>2, <1>3, <1>6 DEF UndoneAt

(* Half done: nothing is known any more of its files.                       *)
LEMMA HistHalfDone ==
  ASSUME BaseInv, HistInv, RestoreEnds, ~rest.clean
  PROVE  ChainInv' /\ UndoneInv'
<1> DEFINE half == PathsOf(RangeSet)
<1>1. /\ rest.pc = "done" /\ UNCHANGED <<files, manifests>> /\ rest'.pc = "idle" /\ turn = NoTurn
      /\ turn' = IF rest.op = "edit" /\ Committed THEN Len(start) ELSE turn
      /\ \A p : Base(p)' = files[p]
      /\ \A p \in Paths \ half : Base(p) = files[p]
  BY EndIs
<1>2. /\ broken' = broken \cup ((DOMAIN manifests) \X half)
      /\ start' = Remembered(Reachable \cup {turn'}, half)
  BY DEF RestoreEnds, HalfDone
<1>3. half \in SUBSET Paths
  BY <1>1, RestoreRuns
<1>4. /\ Known' = Complete /\ Seen' = Ready /\ Complete \subseteq Known
      /\ \A p \in Paths \ half : KnownOf(p)' = KnownOf(p) /\ \A t : SinceOf(t, p)' = SinceOf(t, p)
      /\ \A t : Tracked(t)' => Tracked(t)
  BY <1>1, RangeLeft
<1>5. /\ DOMAIN start' = DOMAIN start /\ SameStarts
      /\ \A t \in DOMAIN start : \A p \in half : start'[t][p] = Unknown
  <2>1. broken \subseteq broken'
    BY <1>2
  <2> HIDE DEF half
  <2>2. /\ DOMAIN start' = DOMAIN start /\ SameStarts
        /\ \A t \in DOMAIN start : \A p \in Paths : p \in half => start'[t][p] = Unknown
    <3>1. start' = Remembered(Reachable \cup {turn'}, half)
      BY <1>2
    <3> QED BY <2>1, <3>1, RememberedIs
  <2> QED BY <1>3, <2>2
<1> HIDE DEF half
<1>6. ChainInv'
  <2> SUFFICES ASSUME NEW p \in Paths PROVE ChainAt(p)'
    BY DEF ChainInv
  <2>1. CASE p \in half
    <3>1. KnownOf(p)' \subseteq DOMAIN manifests
      BY <1>4, TypesAre DEF BaseInv, KnownOf, In
    <3>2. \A m \in KnownOf(p)' : <<m, p>> \in broken'
      BY <1>2, <2>1, <3>1
    <3> QED BY <3>2 DEF ChainAt
  <2>2. CASE p \notin half
    <3>1. Base(p)' = Base(p) /\ KnownOf(p)' = KnownOf(p)
      BY <1>1, <1>4, <2>2
    <3> QED BY <1>1, <1>5, <3>1, ChainAtKept DEF HistInv
  <2> QED BY <2>1, <2>2
<1>7. UndoneInv'
  <2> SUFFICES ASSUME NEW t \in DOMAIN start, Needed(t)', Tracked(t)', NEW p \in Paths
               PROVE UndoneAt(t, p)'
    BY <1>5 DEF UndoneInv
  <2>1. t # NoTurn
    BY TypesAre DEF BaseInv, NoTurn
  <2>2. CASE rest.op = "edit" /\ Committed /\ t = Len(start)
    BY <1>5, <2>2, EditedTurn
  <2>3. CASE ~(rest.op = "edit" /\ Committed /\ t = Len(start))
    <3>1. Needed(t) /\ Tracked(t)
      BY <1>1, <1>4, <2>1, <2>3 DEF Needed
    <3>2. CASE p \in half
      BY <1>5, <3>2 DEF UndoneAt
    <3>3. CASE p \notin half
      <4>1. Base(p)' = Base(p) /\ SinceOf(t, p)' = SinceOf(t, p)
        BY <1>1, <1>4, <3>3
      <4> QED BY <1>1, <1>5, <3>1, <4>1, UndoneAtKept DEF HistInv
    <3> QED BY <3>2, <3>3
  <2> QED BY <2>2, <2>3
<1> QED BY <1>6, <1>7

(* A clean end forgets only turns.                                          *)
LEMMA EndForgets ==
  ASSUME BaseInv, RestoreEnds, rest.clean
  PROVE  DOMAIN start' = DOMAIN start /\ SameStarts /\ broken' = broken
<1>1. HalfDone = {}
  BY DEF HalfDone
<1>2. broken' = broken /\ start' = Remembered(Reachable \cup {turn'}, {})
  BY <1>1 DEF RestoreEnds
<1> QED BY <1>2, RememberedIs

(* Everything was put back as it was.                                       *)
LEMMA HistPutBackEnd ==
  ASSUME BaseInv, HistInv, RestoreEnds, rest.clean, ~Committed
  PROVE  ChainInv' /\ UndoneInv'
<1>1. /\ rest.pc = "done" /\ UNCHANGED <<files, manifests>> /\ rest'.pc = "idle" /\ turn' = turn
      /\ RangeSet' = {}
      /\ \A p : Base(p)' = files[p]
      /\ \A p \in Paths \ PathsOf(RangeSet) : Base(p) = files[p]
      /\ \A p \in PathsOf(RangeSet) : Base(p) = rest.safety[p]
  BY EndIs
<1>2. DOMAIN start' = DOMAIN start /\ SameStarts
  BY EndForgets
<1>3. RangeSet \subseteq Complete
  <2>1. \A m \in RangeSet : manifests[m].complete /\ manifests[m].status = "ready"
    BY <1>1 DEF BaseInv, RestInv, RestoreInv, UndoneManifests
  <2> QED BY <1>1, <2>1, RestoreRuns DEF Complete, Ready
<1>4. Known' = Known /\ Seen' = Seen
  <2>1. Known' = Complete /\ Seen' = Ready
    BY <1>1, RangeLeft
  <2> QED BY <1>3, <2>1 DEF Known, Seen, Complete
<1>5. SameManifests /\ SameKnown
  BY <1>1, <1>4, SameOf DEF SameManifests
<1>6. SameStarts /\ SameNeeds
  BY <1>1, <1>2, <1>5, NeedsKept
<1>7. ASSUME NEW p \in Paths PROVE Base(p)' = Base(p) \/ Lost(p)'
  <2>1. CASE p \notin PathsOf(RangeSet)
    BY <1>1, <2>1
  <2>2. CASE p \in rest.meddled
    <3>1. Lost(p)
      BY <1>1, <2>2 DEF HistInv, MeddleInv
    <3> QED BY <1>5, <1>6, <3>1, LostKept
  <2>3. CASE p \in PathsOf(RangeSet) \ rest.meddled
    <3>1. files[p] = rest.safety[p]
      BY <1>1, <2>3 DEF BaseInv, RestInv, UndoneFiles
    <3> QED BY <1>1, <2>3, <3>1
  <2> QED BY <2>1, <2>2, <2>3
<1> QED BY <1>5, <1>6, <1>7, Kept DEF HistInv

(* The first manifest of the range that touched a file: nothing that is left *)
(* comes after it.                                                          *)
LEMMA FirstOfRange ==
  ASSUME BaseInv, HistInv, rest.pc = "done", Committed, NEW p \in PathsOf(RangeSet)
  PROVE  \E f \in In(RangeSet, p) :
           /\ \A n \in In(RangeSet, p) : f <= n
           /\ p \notin rest.meddled => files[p] = manifests[f].before[p]
<1> DEFINE M == In(RangeSet, p)
           f == First(M)
<1>1. /\ manifests \in Seq(Manifests) /\ RangeSet \in SUBSET DOMAIN manifests
      /\ InOrder(manifests, RangeSet)
  BY RestoreRuns
<1>2. M \in SUBSET DOMAIN manifests /\ M # {} /\ M \subseteq RangeSet /\ InOrder(manifests, M)
  BY <1>1 DEF In, PathsOf, InOrder
<1>3. f = CHOOSE x \in M : \A n \in M : manifests[x].seq <= manifests[n].seq
  BY DEF First
<1>4. f \in M /\ \A n \in M : f <= n
  <2> HIDE DEF M, f
  <2> QED BY <1>1, <1>2, <1>3, FirstIs
<1>5. f \in RangeSet /\ p \in Touched(f) /\ FirstTouch(f, p)
  BY <1>4 DEF In, FirstTouch
<1>6. p \notin rest.meddled => files[p] = manifests[f].before[p]
  BY <1>5 DEF BaseInv, RestInv, UndoneFiles
<1> QED BY <1>4, <1>6

(* What is left once the files and the manifests were taken back.           *)
LEMMA LeftIs ==
  ASSUME BaseInv, HistInv, RestoreEnds, Committed
  PROVE  /\ Known' = Outer /\ Known = Outer \cup RangeSet
         /\ Seen' = Ready /\ Seen = Ready \cup RangeSet /\ \A m \in RangeSet : m \notin Ready
         /\ Outer = Complete /\ Outer \subseteq Ready /\ Ready \subseteq DOMAIN manifests
         /\ RangeSet \subseteq DOMAIN manifests
         /\ \A m \in RangeSet, n \in Outer : n < m /\ manifests[n].turn <= manifests[m].turn
         /\ \A m \in DOMAIN manifests : m \in Nat /\ manifests[m].turn \in Nat
<1>1. rest.pc = "done" /\ UNCHANGED manifests /\ rest'.pc = "idle"
  BY EndIs
<1>2. \A m \in RangeSet : m \notin Ready /\ m \in DOMAIN manifests
  <2>1. \A m \in RangeSet : manifests[m].status = "invalidated"
    BY <1>1 DEF BaseInv, RestInv, UndoneManifests
  <2> QED BY <1>1, <2>1, RestoreRuns DEF Ready
<1>3. /\ Known' = Complete /\ Seen' = Ready /\ Complete \subseteq Ready /\ Ready \subseteq Listed
      /\ Listed \subseteq DOMAIN manifests /\ RangeSet \subseteq Listed
  BY <1>1, RangeLeft, TypesAre, RestoreRuns DEF BaseInv
<1>4. Outer = Complete
  BY <1>2, <1>3 DEF Outer
<1>5. \A m \in DOMAIN manifests : m \in Nat /\ manifests[m].turn \in Nat
  BY ManifestIs DEF BaseInv, Types
<1>6. ASSUME NEW m \in RangeSet, NEW n \in Outer PROVE n < m /\ manifests[n].turn <= manifests[m].turn
  <2>1. n < m
    BY DEF HistInv, OrderInv
  <2>2. m \in Listed /\ n \in Listed
    BY <1>3, <1>4
  <2> QED BY <2>1, <2>2 DEF BaseInv, DataInv, ManifestsInv, InOrder
<1>7. Known = Outer \cup RangeSet /\ Seen = Ready \cup RangeSet
  BY <1>4 DEF Known, Seen
<1> QED BY <1>2, <1>3, <1>4, <1>5, <1>6, <1>7

(* The files were taken back: what is left of each chain ends in what is    *)
(* there.                                                                   *)
LEMMA HistCommittedEnd ==
  ASSUME BaseInv, HistInv, RestoreEnds, rest.clean, Committed
  PROVE  ChainInv' /\ UndoneInv'
<1>1. /\ rest.pc = "done" /\ UNCHANGED <<files, manifests>> /\ rest'.pc = "idle" /\ turn = NoTurn
      /\ turn' = IF rest.op = "edit" THEN Len(start) ELSE turn
      /\ \A p : Base(p)' = files[p]
      /\ \A p \in Paths \ PathsOf(RangeSet) : Base(p) = files[p]
  BY EndIs
<1>2. DOMAIN start' = DOMAIN start /\ SameStarts /\ broken' = broken
  BY EndForgets
<1>3. /\ Known' = Outer /\ Known = Outer \cup RangeSet
      /\ Seen' = Ready /\ Seen = Ready \cup RangeSet /\ \A m \in RangeSet : m \notin Ready
      /\ Outer = Complete /\ Outer \subseteq Ready /\ Ready \subseteq DOMAIN manifests
      /\ RangeSet \subseteq DOMAIN manifests
      /\ \A m \in RangeSet, n \in Outer : n < m /\ manifests[n].turn <= manifests[m].turn
      /\ \A m \in DOMAIN manifests : m \in Nat /\ manifests[m].turn \in Nat
  BY LeftIs
<1>4. ASSUME NEW p PROVE KnownOf(p)' = OuterOf(p) /\ KnownOf(p) = OuterOf(p) \cup In(RangeSet, p)
  BY <1>1, <1>3 DEF KnownOf, OuterOf, In, Touched
<1>5. /\ \A p : \A m \in OuterOf(p) : m \in Outer /\ m \in Nat
      /\ \A p : \A m \in In(RangeSet, p) : m \in RangeSet /\ m \in Nat
  BY <1>3 DEF OuterOf, In
<1>6. ASSUME NEW p \in Paths
      PROVE  \/ In(RangeSet, p) = {} /\ Base(p) = files[p]
             \/ /\ p \in rest.meddled
                /\ LastBroken(OuterOf(p), p)
                /\ \A t \in DOMAIN start : Needed(t) /\ Tracked(t) => start[t][p] = Unknown
             \/ \E f \in In(RangeSet, p) :
                  (\A n \in In(RangeSet, p) : f <= n) /\ files[p] = manifests[f].before[p]
  <2>1. CASE p \notin PathsOf(RangeSet)
    BY <1>1, <2>1 DEF PathsOf, In
  <2>2. CASE p \in rest.meddled
    BY <1>1, <2>2 DEF HistInv, MeddleInv, Lost
  <2>3. CASE p \in PathsOf(RangeSet) \ rest.meddled
    BY <1>1, <2>3, FirstOfRange
  <2> QED BY <2>1, <2>2, <2>3
<1>7. ChainInv'
  <2> SUFFICES ASSUME NEW p \in Paths PROVE ChainAt(p)'
    BY DEF ChainInv
  <2>0. KnownOf(p)' = OuterOf(p) /\ Base(p)' = files[p]
    BY <1>1, <1>4
  <2> SUFFICES ASSUME NEW m \in OuterOf(p), <<m, p>> \notin broken
               PROVE  /\ (\A n \in OuterOf(p) : n <= m) => manifests[m].after[p] = files[p]
                      /\ \A n \in OuterOf(p) :
                           m < n /\ (\A k \in OuterOf(p) : m < k => n <= k)
                           => manifests[m].after[p] = manifests[n].before[p]
    BY <1>1, <1>2, <2>0 DEF ChainAt
  <2>1. /\ (\A n \in KnownOf(p) : n <= m) => manifests[m].after[p] = Base(p)
        /\ \A n \in KnownOf(p) :
             m < n /\ (\A k \in KnownOf(p) : m < k => n <= k)
             => manifests[m].after[p] = manifests[n].before[p]
    BY <1>4 DEF HistInv, ChainInv, ChainAt
  <2>2. ASSUME \A n \in OuterOf(p) : n <= m PROVE manifests[m].after[p] = files[p]
    <3>1. CASE In(RangeSet, p) = {} /\ Base(p) = files[p]
      BY <1>4, <2>1, <2>2, <3>1
    <3>2. CASE LastBroken(OuterOf(p), p)
      BY <2>2, <3>2 DEF LastBroken
    <3>3. CASE \E f \in In(RangeSet, p) :
                 (\A n \in In(RangeSet, p) : f <= n) /\ files[p] = manifests[f].before[p]
      <4>1. PICK f \in In(RangeSet, p) :
              (\A n \in In(RangeSet, p) : f <= n) /\ files[p] = manifests[f].before[p]
        BY <3>3
      <4>2. m < f /\ f \in KnownOf(p)
        BY <1>3, <1>4, <1>5
      <4>3. ASSUME NEW k \in KnownOf(p), m < k PROVE f <= k
        <5>1. CASE k \in In(RangeSet, p)
          BY <4>1, <5>1
        <5>2. CASE k \in OuterOf(p)
          <6>1. k <= m /\ k \in Nat /\ m \in Nat
            BY <1>5, <2>2, <5>2
          <6> QED BY <4>3, <6>1
        <5> QED BY <1>4, <5>1, <5>2
      <4> QED BY <2>1, <4>1, <4>2, <4>3
    <3> QED BY <1>6, <3>1, <3>2, <3>3
  <2>3. ASSUME NEW n \in OuterOf(p), m < n, \A k \in OuterOf(p) : m < k => n <= k
        PROVE manifests[m].after[p] = manifests[n].before[p]
    <3>1. ASSUME NEW k \in KnownOf(p), m < k PROVE n <= k
      <4>1. CASE k \in OuterOf(p)
        BY <2>3, <3>1, <4>1
      <4>2. CASE k \in In(RangeSet, p)
        <5>1. n < k /\ n \in Nat /\ k \in Nat
          BY <1>3, <1>5, <4>2
        <5> QED BY <5>1
      <4> QED BY <1>4, <4>1, <4>2
    <3>2. n \in KnownOf(p)
      BY <1>4
    <3> QED BY <2>1, <2>3, <3>1, <3>2
  <2> QED BY <2>2, <2>3
<1>8. UndoneInv'
  <2> SUFFICES ASSUME NEW t \in DOMAIN start, Needed(t)', Tracked(t)', NEW p \in Paths
               PROVE UndoneAt(t, p)'
    BY <1>2 DEF UndoneInv
  <2>1. t # NoTurn /\ t \in Nat
    BY TypesAre DEF BaseInv, NoTurn
  <2>2. start'[t][p] \in {start[t][p], Unknown}
    BY <1>2 DEF SameStarts
  <2>3. CASE rest.op = "edit" /\ t = Len(start)
    BY <1>2, <2>3, EditedTurn
  <2>4. CASE ~(rest.op = "edit" /\ t = Len(start))
    <3>1. PICK o \in Outer : manifests[o].turn = t
      BY <1>1, <1>3, <2>1, <2>4 DEF Needed
    <3>2. Needed(t) /\ Tracked(t)
      BY <1>1, <1>3, <3>1, RangeLeft DEF Needed
    <3>3. UndoneAt(t, p)
      BY <3>2 DEF HistInv, UndoneInv
    <3>4. \A m \in RangeSet : m \in Since(t)
      BY <1>3, <3>1 DEF Since
    <3>5. SinceOf(t, p) = SinceOf(t, p)' \cup In(RangeSet, p)
      <4>1. \A m : m \in SinceOf(t, p) <=> m \in Seen /\ manifests[m].turn >= t /\ p \in Touched(m)
        BY DEF SinceOf, Since, In
      <4>2. \A m : m \in SinceOf(t, p)' <=> m \in Ready /\ manifests[m].turn >= t /\ p \in Touched(m)
        BY <1>1, <1>3 DEF SinceOf, Since, In, Touched
      <4>3. \A m : m \in In(RangeSet, p) <=> m \in RangeSet /\ manifests[m].turn >= t /\ p \in Touched(m)
        BY <3>4 DEF In, Since
      <4> QED BY <1>3, <4>1, <4>2, <4>3
    <3>6. \A m \in SinceOf(t, p)' : m \in Outer /\ m \in Nat
      <4>1. ASSUME NEW m \in SinceOf(t, p)' PROVE m \in Outer
        <5>1. m \in Since(t)' /\ m \in Ready
          BY <1>3, <4>1 DEF SinceOf, Since, In
        <5>2. manifests[m].complete
          BY <1>1, <2>4, <5>1 DEF Tracked
        <5> QED BY <1>3, <5>1, <5>2 DEF Complete
      <4> QED BY <1>3, <4>1
    <3>7. ASSUME NEW m \in SinceOf(t, p)', \A n \in SinceOf(t, p)' : m <= n
          PROVE \A n \in SinceOf(t, p) : m <= n
      <4>1. \A n \in In(RangeSet, p) : m < n /\ m \in Nat /\ n \in Nat
        BY <1>3, <1>5, <3>6, <3>7
      <4>2. \A n \in In(RangeSet, p) : m <= n
        BY <4>1
      <4> QED BY <3>5, <3>7, <4>2
    <3>8. CASE start'[t][p] = Unknown
      BY <3>8 DEF UndoneAt
    <3>9. CASE start'[t][p] = start[t][p] /\ start[t][p] # Unknown
      <4>1. \A m \in SinceOf(t, p)' :
              (\A n \in SinceOf(t, p)' : m <= n) => start[t][p] = manifests[m].before[p]
        BY <3>3, <3>5, <3>7, <3>9 DEF UndoneAt
      <4>2. ASSUME SinceOf(t, p)' = {} PROVE start[t][p] = files[p]
        <5>1. SinceOf(t, p) = In(RangeSet, p)
          BY <3>5, <4>2
        <5>2. CASE In(RangeSet, p) = {} /\ Base(p) = files[p]
          BY <3>3, <3>9, <5>1, <5>2 DEF UndoneAt
        <5>3. CASE \A u \in DOMAIN start : Needed(u) /\ Tracked(u) => start[u][p] = Unknown
          BY <3>2, <3>9, <5>3
        <5>4. CASE \E f \in In(RangeSet, p) :
                     (\A n \in In(RangeSet, p) : f <= n) /\ files[p] = manifests[f].before[p]
          BY <3>3, <3>9, <5>1, <5>4 DEF UndoneAt
        <5> QED BY <1>6, <5>2, <5>3, <5>4
      <4> QED BY <1>1, <3>9, <4>1, <4>2 DEF UndoneAt
    <3> QED BY <2>2, <3>8, <3>9
  <2> QED BY <2>3, <2>4
<1> QED BY <1>7, <1>8

(* The restore leaves the critical section.                                 *)
LEMMA HistRestoreEndsStep ==
  ASSUME BaseInv, HistInv, RestoreEnds
  PROVE  HistInv'
<1>1. ChainInv' /\ UndoneInv'
  BY HistHalfDone, HistPutBackEnd, HistCommittedEnd
<1>2. tool'.pc = "idle" /\ rest'.pc = "idle" /\ RangeSet' = {}
  BY EndIs
<1>3. TodoInv' /\ KeptInv' /\ MeddleInv' /\ EditedInv' /\ ChatInv' /\ OrderInv'
  BY <1>2 DEF TodoInv, KeptInv, MeddleInv, EditedInv, ChatInv, OrderInv, Committed
<1> QED BY <1>1, <1>3 DEF HistInv

(* At first there is no manifest and no turn.                               *)
LEMMA HistStart ==
  ASSUME Init
  PROVE  HistInv
<1>1. /\ manifests = <<>> /\ start = <<>> /\ tool.pc = "idle" /\ rest.pc = "idle"
      /\ DOMAIN manifests = {} /\ DOMAIN start = {}
  BY DEF Init, Idle
<1>2. RangeSet = {} /\ Known = {}
  BY <1>1 DEF RangeSet, Known, Complete, Ready, Listed
<1>3. ChainInv /\ UndoneInv
  BY <1>1, <1>2 DEF ChainInv, ChainAt, KnownOf, In, UndoneInv
<1>4. TodoInv /\ KeptInv /\ MeddleInv /\ EditedInv /\ ChatInv /\ OrderInv
  BY <1>1, <1>2 DEF TodoInv, KeptInv, MeddleInv, EditedInv, ChatInv, OrderInv, Committed
<1> QED BY <1>3, <1>4 DEF HistInv

(* Every step of a restore.                                                 *)
LEMMA HistRestoreSteps ==
  ASSUME BaseInv, BaseInv', HistInv, RestoreNext
  PROVE  HistInv'
BY HistPlanStep, HistValidateStep, HistVerifyStep, HistInvalidateStep, HistCommitStep, HistRestoreFailsStep,
   HistApplyStep, HistOutcomeStep, HistUndoStep, HistUndoFailsStep, HistPutBackStep, HistRestoreEndsStep
   DEF RestoreNext

(* Every step.                                                              *)
LEMMA HistStep ==
  ASSUME BaseInv, HistInv, [Next]_vars
  PROVE  HistInv'
<1>0. BaseInv'
  BY BaseStep
<1>1. CASE TurnStep
  BY <1>1, HistTurnSteps
<1>2. CASE ToolNext
  BY <1>0, <1>2, HistToolSteps
<1>3. CASE RestoreNext
  BY <1>0, <1>3, HistRestoreSteps
<1>4. CASE \E p \in Paths, c \in Contents : Outside(p, c)
  BY <1>4, HistOutsideStep
<1>5. CASE Crash
  BY <1>0, <1>5, HistCrashStep
<1>6. CASE UNCHANGED vars
  BY <1>6, HistQueueStep DEF vars, hist
<1> QED BY <1>1, <1>2, <1>3, <1>4, <1>5, <1>6 DEF Next, TurnStep

(* The chains of the manifests, what each turn can be taken back to, and    *)
(* what a tool, a restore and an edit in progress make of them, hold in     *)
(* every state.                                                             *)
THEOREM HistHolds == Spec => []HistInv
<1>1. Init => BaseInv /\ HistInv
  BY BaseStart, HistStart
<1>2. BaseInv /\ HistInv /\ [Next]_vars => (BaseInv /\ HistInv)'
  BY BaseStep, HistStep
<1> QED BY <1>1, <1>2, PTL DEF Spec

(* ChainHolds: a rollback is refused only because someone else changed a    *)
(* file.                                                                    *)
THEOREM ChainsHold == Spec => []ChainHolds
<1>1. ASSUME BaseInv, HistInv PROVE ChainHolds
  <2> SUFFICES ASSUME rest.pc = "idle", tool.pc = "idle", NEW m \in Complete, NEW p \in Touched(m),
                      <<m, p>> \notin broken
               PROVE  LET later == {n \in In(Complete, p) : manifests[n].seq > manifests[m].seq}
                      IN  manifests[m].after[p] =
                            IF later = {} THEN files[p] ELSE manifests[First(later)].before[p]
    BY DEF ChainHolds
  <2> DEFINE later == {n \in In(Complete, p) : manifests[n].seq > manifests[m].seq}
             f == First(later)
  <2>1. /\ manifests \in Seq(Manifests) /\ Complete \subseteq DOMAIN manifests /\ p \in Paths
        /\ Complete \subseteq Listed /\ InOrder(manifests, Listed)
    BY <1>1, TypesAre, PathsAre DEF BaseInv, Types, DataInv, ManifestsInv
  <2>2. KnownOf(p) = In(Complete, p) /\ m \in KnownOf(p) /\ Base(p) = files[p]
    BY DEF KnownOf, Known, RangeSet, In, Base
  <2>3. /\ (\A n \in KnownOf(p) : n <= m) => manifests[m].after[p] = files[p]
        /\ \A n \in KnownOf(p) :
             m < n /\ (\A k \in KnownOf(p) : m < k => n <= k)
             => manifests[m].after[p] = manifests[n].before[p]
    BY <1>1, <2>1, <2>2 DEF HistInv, ChainInv, ChainAt
  <2>4. ASSUME NEW n \in KnownOf(p) PROVE n \in later <=> m < n
    <3>1. n \in Nat /\ m \in Nat /\ manifests[n].seq \in Nat /\ manifests[m].seq \in Nat
      BY <2>1, <2>2, ManifestIs DEF In
    <3>2. n \in Listed /\ m \in Listed
      BY <2>1, <2>2 DEF In
    <3>3. /\ m < n => manifests[m].seq < manifests[n].seq
          /\ n < m => manifests[n].seq < manifests[m].seq
      BY <2>1, <3>2 DEF InOrder
    <3> QED BY <2>2, <3>1, <3>3
  <2>5. CASE later = {}
    <3>1. \A n \in KnownOf(p) : n <= m
      <4>1. ASSUME NEW n \in KnownOf(p) PROVE n <= m
        <5>1. ~(m < n)
          BY <2>4, <2>5
        <5>2. n \in Nat /\ m \in Nat
          BY <2>1, <2>2, ManifestIs DEF In
        <5> QED BY <5>1, <5>2
      <4> QED BY <4>1
    <3> QED BY <2>3, <2>5, <3>1
  <2>6. CASE later # {}
    <3>1. later \in SUBSET DOMAIN manifests /\ InOrder(manifests, later) /\ later \subseteq KnownOf(p)
      BY <2>1, <2>2 DEF In, InOrder
    <3>2. f = CHOOSE x \in later : \A n \in later : manifests[x].seq <= manifests[n].seq
      BY DEF First
    <3>3. f \in later /\ \A n \in later : f <= n
      <4> HIDE DEF later, f
      <4> QED BY <2>1, <2>6, <3>1, <3>2, FirstIs
    <3> HIDE DEF later, f
    <3>4. f \in KnownOf(p) /\ m < f /\ \A k \in KnownOf(p) : m < k => f <= k
      BY <2>4, <3>1, <3>3
    <3>5. manifests[m].after[p] = manifests[f].before[p]
      BY <2>3, <3>4
    <3> QED BY <2>6, <3>5 DEF f, later
  <2> QED BY <2>5, <2>6
<1>2. BaseInv /\ HistInv => ChainHolds
  BY <1>1
<1> QED BY <1>2, BaseHolds, HistHolds, PTL

(* TurnUndone: after files and conversation were taken back to a turn,      *)
(* every file is what it was when the turn began.                           *)
THEOREM TurnsAreUndone == Spec => []TurnUndone
<1>1. ASSUME BaseInv, HistInv PROVE TurnUndone
  <2> SUFFICES ASSUME rest.pc = "done", rest.op = "chat", rest.why = "none", NEW p \in Paths
               PROVE  start[rest.turn][p] \in {files[p], Unknown}
    BY DEF TurnUndone
  <2> DEFINE t == rest.turn
  <2>1. Committed /\ tool.pc = "idle"
    BY <1>1, RestoreRuns DEF Committed
  <2>2. RangeSet = Since(t) /\ Tracked(t) /\ Needed(t) /\ t \in DOMAIN start
    BY <1>1 DEF HistInv, ChatInv
  <2>3. UndoneAt(t, p) /\ SinceOf(t, p) = In(RangeSet, p)
    BY <1>1, <2>2 DEF HistInv, UndoneInv, SinceOf
  <2> HIDE DEF t
  <2>4. CASE p \notin PathsOf(RangeSet)
    <3>1. In(RangeSet, p) = {} /\ Base(p) = files[p]
      BY <2>1, <2>4 DEF In, PathsOf, Base
    <3>2. start[t][p] = Unknown \/ start[t][p] = files[p]
      BY <2>3, <3>1 DEF UndoneAt
    <3> QED BY <3>2 DEF t
  <2>5. CASE p \in rest.meddled
    <3>1. start[t][p] = Unknown
      BY <1>1, <2>2, <2>5 DEF HistInv, MeddleInv, Lost
    <3> QED BY <3>1 DEF t
  <2>6. CASE p \in PathsOf(RangeSet) \ rest.meddled
    <3>1. PICK f \in In(RangeSet, p) :
            (\A n \in In(RangeSet, p) : f <= n) /\ files[p] = manifests[f].before[p]
      BY <1>1, <2>1, <2>6, FirstOfRange
    <3>2. start[t][p] = Unknown \/ start[t][p] = files[p]
      BY <2>3, <3>1 DEF UndoneAt
    <3> QED BY <3>2 DEF t
  <2> QED BY <2>4, <2>5, <2>6
<1>2. BaseInv /\ HistInv => TurnUndone
  BY <1>1
<1> QED BY <1>2, BaseHolds, HistHolds, PTL
=============================================================================
