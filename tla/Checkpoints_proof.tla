--------------------------- MODULE Checkpoints_proof ---------------------------
(***************************************************************************)
(* Proofs about Checkpoints: the base that every step keeps (BaseInv), and   *)
(* what follows from it: the types, that an aborted tool never starts, that  *)
(* a rollback does not write over what someone else saved, and that files,   *)
(* manifests and conversation change together or not at all.                *)
(*                                                                         *)
(* BaseInv is kept by every step because its parts lean on each other:       *)
(* HostInv (the lock) says which of the others a step can disturb, DataInv    *)
(* what manifests, requests and the tool that runs promise, and RestInv how  *)
(* far a restore has got.  The long part of the proof is one lemma per step. *)
(***************************************************************************)
EXTENDS Checkpoints, DataLemmas

(* The types of the records.                                                *)
FileMaps == UNION {[P -> Contents] : P \in SUBSET Paths}
ToolOps == {"tool", "command"}
RestoreOps == {"files", "chat", "edit"}
Ops == [op : ToolOps, scope : SUBSET Paths, aborted : BOOLEAN]
         \cup [op : RestoreOps, target : Nat, aborted : BOOLEAN]
         \cup [op : {"other"}, aborted : BOOLEAN]
Manifests ==
  [seq : Nat, turn : Nat, status : {"pending", "ready", "invalidated", "removed"},
   complete : BOOLEAN, before : FileMaps, after : FileMaps]
ToolTypes ==
  [pc : {"prepare", "put", "execute"}, op : ToolOps, scope : SUBSET Paths, id : Nat,
   seq : Nat, before : FileMaps, todo : SUBSET Paths, kept : BOOLEAN]
Todos == (SUBSET (Nat \X Paths)) \cup (SUBSET Nat) \cup (SUBSET Paths)
RestTypes ==
  [pc : {"plan", "validate", "apply", "invalidate", "commit", "undo", "done"},
   op : RestoreOps, target : Nat, turn : Nat, range : SUBSET Nat, safety : FileMaps,
   todo : Todos, why : {"none", "refused", "conflict", "error", "unknown"},
   clean : BOOLEAN, meddled : SUBSET Paths]

Types ==
  /\ queue \in Seq(Ops) /\ started \in BOOLEAN
  /\ files \in [Paths -> Contents] /\ manifests \in Seq(Manifests)
  /\ turn \in Nat /\ call \in BOOLEAN /\ chat \in SUBSET Nat
  /\ tool \in {Idle} \cup ToolTypes /\ rest \in {Idle} \cup RestTypes
  /\ start \in Seq([Paths -> Contents \cup {Unknown}])
  /\ broken \in SUBSET (Nat \X Paths) /\ mixed \in SUBSET Paths

-----------------------------------------------------------------------------
(* First and latest manifests.                                              *)

(* What the files of some paths can be captured as; nothing is one of them. *)
LEMMA FileMapsAre ==
  /\ \A f \in FileMaps : f \in [DOMAIN f -> Contents] /\ DOMAIN f \in SUBSET Paths
  /\ \A P \in SUBSET Paths : \A f \in [P -> Contents] : f \in FileMaps
  /\ NoFiles \in FileMaps /\ DOMAIN NoFiles = {}
<1>1. \A P \in SUBSET Paths : \A f \in [P -> Contents] : f \in FileMaps
  BY DEF FileMaps
<1>2. ASSUME NEW f \in FileMaps
      PROVE f \in [DOMAIN f -> Contents] /\ DOMAIN f \in SUBSET Paths
  <2>1. PICK P \in SUBSET Paths : f \in [P -> Contents]
    BY DEF FileMaps
  <2> QED BY <2>1
<1>3. NoFiles \in [{} -> Contents] /\ DOMAIN NoFiles = {}
  BY DEF NoFiles
<1> QED BY <1>1, <1>2, <1>3

(* The fields of a manifest.                                                *)
LEMMA ManifestIs ==
  ASSUME NEW ms \in Seq(Manifests), NEW m \in DOMAIN ms
  PROVE  /\ m \in Nat /\ ms[m] \in Manifests /\ DOMAIN ms = 1..Len(ms) /\ Len(ms) \in Nat
         /\ ms[m].seq \in Nat /\ ms[m].turn \in Nat /\ ms[m].complete \in BOOLEAN
         /\ ms[m].status \in {"pending", "ready", "invalidated", "removed"}
         /\ ms[m].before \in FileMaps /\ ms[m].after \in FileMaps
<1>1. m \in 1..Len(ms) /\ ms[m] \in Manifests
  OBVIOUS
<1> QED BY <1>1 DEF Manifests

(* Some manifests have one of the least sequence.                           *)
LEMMA FirstOf ==
  ASSUME NEW ms \in Seq(Manifests), NEW M \in SUBSET DOMAIN ms, M # {}
  PROVE  \E m \in M : \A n \in M : ms[m].seq <= ms[n].seq
<1> DEFINE T == {ms[m].seq : m \in M}
<1>1. T \subseteq Nat /\ T # {}
  BY ManifestIs
<1>2. \E x \in T : \A y \in T : x <= y
  <2> HIDE DEF T
  <2> QED BY <1>1, Least
<1> QED BY <1>2

(* They have one of the greatest.                                           *)
LEMMA LatestOf ==
  ASSUME NEW ms \in Seq(Manifests), NEW M \in SUBSET DOMAIN ms, M # {}
  PROVE  \E m \in M : \A n \in M : ms[n].seq <= ms[m].seq
<1> DEFINE T == {ms[m].seq : m \in M}
           f == [i \in 1..Len(ms) |-> ms[i].seq]
<1>1. T \subseteq Nat /\ T # {} /\ Len(ms) \in Nat /\ DOMAIN ms = 1..Len(ms)
  BY ManifestIs
<1>2. \A i \in 1..Len(ms) : f[i] \in Nat
  BY <1>1, ManifestIs
<1>3. PICK b \in Nat : \A i \in 1..Len(ms) : f[i] <= b
  <2> HIDE DEF f
  <2> QED BY <1>1, <1>2, Bounded
<1>4. \A x \in T : x <= b
  BY <1>1, <1>3
<1>5. \E x \in T : \A y \in T : y <= x
  <2> HIDE DEF T
  <2> QED BY <1>1, <1>4, Greatest
<1> QED BY <1>5

(* The manifests that are listed are ordered by their index as by their      *)
(* number, and their turns do not go back.                                  *)
InOrder(ms, M) ==
  \A m, n \in M : m < n => ms[m].seq < ms[n].seq /\ ms[m].turn <= ms[n].turn

(* First: of manifests whose ids are in the order of their sequences.       *)
LEMMA FirstIs ==
  ASSUME NEW ms \in Seq(Manifests), NEW M \in SUBSET DOMAIN ms, M # {}, InOrder(ms, M),
         NEW f, f = CHOOSE m \in M : \A n \in M : ms[m].seq <= ms[n].seq
  PROVE  f \in M /\ \A n \in M : f <= n
<1>1. f \in M /\ \A n \in M : ms[f].seq <= ms[n].seq
  BY FirstOf
<1>2. \A n \in M : n \in Nat /\ ms[n].seq \in Nat
  BY ManifestIs
<1>3. ASSUME NEW n \in M PROVE f <= n
  BY <1>1, <1>2, SMTT(30) DEF InOrder
<1> QED BY <1>1, <1>3

(* Latest, of such manifests.                                               *)
LEMMA LatestIs ==
  ASSUME NEW ms \in Seq(Manifests), NEW M \in SUBSET DOMAIN ms, M # {}, InOrder(ms, M),
         NEW f, f = CHOOSE m \in M : \A n \in M : ms[n].seq <= ms[m].seq
  PROVE  f \in M /\ \A n \in M : n <= f
<1>1. f \in M /\ \A n \in M : ms[n].seq <= ms[f].seq
  BY LatestOf
<1>2. \A n \in M : n \in Nat /\ ms[n].seq \in Nat
  BY ManifestIs
<1>3. ASSUME NEW n \in M PROVE n <= f
  BY <1>1, <1>2, SMTT(30) DEF InOrder
<1> QED BY <1>1, <1>3

(* LastSequence is no less than any sequence that is listed.                *)
LEMMA LastSequenceIs ==
  ASSUME manifests \in Seq(Manifests)
  PROVE  LastSequence \in Nat /\ \A m \in Listed : manifests[m].seq <= LastSequence
<1>1. CASE Listed = {}
  BY <1>1 DEF LastSequence
<1>2. CASE Listed # {}
  <2>1. PICK m \in Listed : \A n \in Listed : manifests[n].seq <= manifests[m].seq
    BY <1>2, LatestOf DEF Listed
  <2>2. LastSequence \in {manifests[n].seq : n \in Listed}
        /\ \A n \in Listed : manifests[n].seq <= LastSequence
    BY <1>2, <2>1 DEF LastSequence
  <2>3. \A n \in Listed : manifests[n].seq \in Nat
    BY ManifestIs DEF Listed
  <2> QED BY <2>2, <2>3
<1> QED BY <1>1, <1>2

(* The range of a restore and what it still has to do.                      *)
RangeInv ==
  rest.pc # "idle" =>
    /\ RangeSet \subseteq DOMAIN manifests
    /\ DOMAIN rest.safety = PathsOf(RangeSet)
    /\ rest.pc = "validate" => rest.todo \subseteq PathsOf(RangeSet)
    /\ rest.pc = "apply" => rest.todo \subseteq Writes
    /\ rest.pc = "invalidate" => rest.todo \subseteq RangeSet
    /\ rest.pc = "undo" => rest.todo \subseteq DOMAIN rest.safety

RestTyped(r) ==
  /\ r.pc \in {"plan", "validate", "apply", "invalidate", "commit", "undo", "done"}
  /\ r.op \in RestoreOps /\ r.target \in Nat /\ r.turn \in Nat /\ r.range \in SUBSET Nat
  /\ r.safety \in FileMaps /\ r.todo \in Todos /\ r.clean \in BOOLEAN
  /\ r.why \in {"none", "refused", "conflict", "error", "unknown"} /\ r.meddled \in SUBSET Paths

(* What the types say of the records that run and of the sequences.         *)
LEMMA TypesAre ==
  ASSUME Types
  PROVE  /\ tool.pc # "idle" => tool \in ToolTypes
         /\ rest.pc # "idle" => rest \in RestTypes /\ RestTyped(rest)
         /\ RangeSet \in SUBSET Nat
         /\ DOMAIN manifests = 1..Len(manifests) /\ Len(manifests) \in Nat
         /\ DOMAIN start = 1..Len(start) /\ Len(start) \in Nat
         /\ Complete \subseteq Ready /\ Ready \subseteq Listed /\ Listed \subseteq DOMAIN manifests
<1>1. tool.pc # "idle" => tool \in ToolTypes
  BY DEF Types, Idle
<1>2. rest.pc # "idle" => rest \in RestTypes
  BY DEF Types, Idle
<1>3. rest.pc # "idle" => RestTyped(rest)
  BY <1>2 DEF RestTypes, RestTyped
<1>4. RangeSet \in SUBSET Nat
  BY <1>3 DEF RangeSet, RestTyped
<1>5. Complete \subseteq Ready /\ Ready \subseteq Listed /\ Listed \subseteq DOMAIN manifests
  BY DEF Complete, Ready, Listed
<1> QED BY <1>1, <1>2, <1>3, <1>4, <1>5 DEF Types

(* What is remembered of the turns, whatever is forgotten.                  *)
LEMMA RememberedTyped ==
  ASSUME Types, NEW T, NEW P
  PROVE  /\ Remembered(T, P) \in Seq([Paths -> Contents \cup {Unknown}])
         /\ Len(Remembered(T, P)) = Len(start)
<1>1. start \in Seq([Paths -> Contents \cup {Unknown}])
  BY DEF Types
<1>2. ASSUME NEW t \in 1..Len(start)
      PROVE  [p \in Paths |-> IF t \in T /\ p \notin P THEN start[t][p] ELSE Unknown]
               \in [Paths -> Contents \cup {Unknown}]
  BY <1>1
<1> QED BY <1>1, <1>2 DEF Remembered

(* Breaks and Unkept of any set of files.                                   *)
LEMMA BreaksTyped ==
  ASSUME Types, RangeInv, NEW P \in SUBSET Paths
  PROVE  /\ Breaks(P) \in SUBSET (Nat \X Paths) /\ Breaks(P) \subseteq (DOMAIN manifests) \X Paths
         /\ Unkept(P) \in Seq([Paths -> Contents \cup {Unknown}])
         /\ Len(Unkept(P)) = Len(start)
<1>1. /\ RangeSet \subseteq DOMAIN manifests /\ Complete \subseteq DOMAIN manifests
      /\ manifests \in Seq(Manifests)
  BY TypesAre DEF RangeInv, RangeSet, Types
<1>2. ASSUME NEW p \in P, NEW m \in Ends(p) PROVE m \in Nat /\ m \in DOMAIN manifests
  <2>1. PICK M \in {In(Complete \cup RangeSet, p), In(Complete \ RangeSet, p)} \ {{}} :
          m = Latest(M)
    BY DEF Ends
  <2>2. M \in SUBSET DOMAIN manifests /\ M # {}
    BY <1>1, <2>1 DEF In
  <2>3. m \in M
    BY <1>1, <2>1, <2>2, LatestOf DEF Latest
  <2> QED BY <1>1, <2>2, <2>3, ManifestIs
<1>3. Breaks(P) \in SUBSET (Nat \X Paths) /\ Breaks(P) \subseteq (DOMAIN manifests) \X Paths
  BY <1>2 DEF Breaks
<1>4. /\ Unkept(P) \in Seq([Paths -> Contents \cup {Unknown}])
      /\ Len(Unkept(P)) = Len(start)
  BY RememberedTyped DEF Unkept
<1> QED BY <1>3, <1>4

(* The queue.                                                               *)
LEMMA QueueTypes ==
  ASSUME Types, NEW o \in Ops
  PROVE  /\ Append(queue, o) \in Seq(Ops)
         /\ queue # <<>> => Head(queue) \in Ops /\ Tail(queue) \in Seq(Ops)
         /\ \A i \in DOMAIN queue : Aborted(i) \in Seq(Ops)
<1>1. queue \in Seq(Ops)
  BY DEF Types
<1>2. ASSUME NEW i \in DOMAIN queue PROVE Aborted(i) \in Seq(Ops)
  <2>1. queue[i] \in Ops
    BY <1>1
  <2>2. [queue[i] EXCEPT !.aborted = TRUE] \in Ops
    BY <2>1 DEF Ops, ToolOps, RestoreOps
  <2> QED BY <1>1, <2>2 DEF Aborted
<1> QED BY <1>1, <1>2

-----------------------------------------------------------------------------
(* The lock.  A tool whose step waits for it is the only one that is still   *)
(* going to run or runs; a restore is the only one and no turn runs beside   *)
(* it; what is in the critical section is the head of the queue.            *)
Live(i) == queue[i].op \in ToolOps /\ (~queue[i].aborted \/ (i = 1 /\ started))

LiveInv ==
  /\ \A i \in DOMAIN queue : Live(i) => call
  /\ \A i, j \in DOMAIN queue : Live(i) /\ Live(j) => i = j
AloneInv ==
  /\ \A i \in DOMAIN queue : queue[i].op \in RestoreOps => turn = NoTurn
  /\ \A i, j \in DOMAIN queue : queue[i].op \in RestoreOps /\ queue[j].op \in RestoreOps => i = j
HeadInv ==
  /\ started => queue # <<>>
  /\ tool.pc # "idle" <=> (started /\ queue[1].op \in ToolOps)
  /\ rest.pc # "idle" <=> (started /\ queue[1].op \in RestoreOps)
  /\ call => turn # NoTurn
HostInv == LiveInv /\ AloneInv /\ HeadInv

(* The operations are of three kinds, each with its fields.                 *)
LEMMA OpIs ==
  ASSUME NEW o \in Ops
  PROVE  /\ o.op \in ToolOps \cup RestoreOps \cup {"other"} /\ o.aborted \in BOOLEAN
         /\ o.op \in ToolOps => o.scope \in SUBSET Paths
         /\ o.op \in RestoreOps => o.target \in Nat
         /\ ~(o.op \in ToolOps /\ o.op \in RestoreOps)
  BY DEF Ops, ToolOps, RestoreOps

(* A queue, one more behind it, and the rest of it without its head.        *)
LEMMA QueueIs ==
  ASSUME NEW q \in Seq(Ops)
  PROVE  /\ DOMAIN q = 1..Len(q) /\ Len(q) \in Nat /\ \A i \in 1..Len(q) : q[i] \in Ops
         /\ \A o \in Ops : /\ DOMAIN Append(q, o) = 1..(Len(q) + 1)
                           /\ Append(q, o)[Len(q) + 1] = o
                           /\ \A i \in 1..Len(q) : Append(q, o)[i] = q[i]
         /\ q # <<>> => /\ Len(q) > 0 /\ Head(q) = q[1]
                        /\ DOMAIN Tail(q) = 1..(Len(q) - 1)
                        /\ \A i \in 1..(Len(q) - 1) : Tail(q)[i] = q[i + 1]
  OBVIOUS

(* One more operation waits.                                                *)
LEMMA Queued ==
  ASSUME Types, HostInv, NEW o \in Ops, ~o.aborted, queue' = Append(queue, o), started' = started,
         turn' = turn, tool' = tool, rest' = rest,
         \/ o.op = "other" /\ call' = call
         \/ o.op \in ToolOps /\ turn # NoTurn /\ ~call /\ call' = TRUE
         \/ o.op \in RestoreOps /\ turn = NoTurn /\ ~Restoring /\ call' = call
  PROVE  HostInv'
<1>0. queue \in Seq(Ops) /\ started \in BOOLEAN /\ Len(queue) \in Nat /\ DOMAIN queue = 1..Len(queue)
  BY QueueIs DEF Types
<1>1. /\ DOMAIN queue' = 1..(Len(queue) + 1) /\ queue'[Len(queue) + 1] = o
      /\ \A i \in 1..Len(queue) : queue'[i] = queue[i]
  BY <1>0, QueueIs
<1>2. ~(o.op \in ToolOps /\ o.op \in RestoreOps) /\ (o.op = "other" => o.op \notin ToolOps \cup RestoreOps)
  BY OpIs DEF ToolOps, RestoreOps
<1>3. LiveInv'
  BY <1>0, <1>1, <1>2 DEF HostInv, LiveInv, HeadInv, Live
<1>4. AloneInv'
  BY <1>0, <1>1, <1>2 DEF HostInv, AloneInv, Restoring, RestoreOps
<1>5. HeadInv'
  <2>1. started => queue'[1] = queue[1]
    BY <1>0, <1>1 DEF HostInv, HeadInv
  <2>2. queue' # <<>>
    BY <1>0, <1>1
  <2> QED BY <2>1, <2>2 DEF HostInv, HeadInv
<1> QED BY <1>3, <1>4, <1>5 DEF HostInv

(* The head of the queue is over, or is skipped.                            *)
LEMMA Dequeued ==
  ASSUME Types, HostInv, queue # <<>>, queue' = Tail(queue), started' = FALSE,
         tool'.pc = "idle", rest'.pc = "idle",
         \/ call' = call /\ turn' = turn
         \/ started /\ queue[1].op \in ToolOps /\ ~call' /\ turn' = turn
         \/ started /\ queue[1].op \in RestoreOps /\ call' = call /\ turn = NoTurn
  PROVE  HostInv'
<1>0. queue \in Seq(Ops) /\ started \in BOOLEAN /\ Len(queue) \in Nat /\ DOMAIN queue = 1..Len(queue)
  BY QueueIs DEF Types
<1>1. /\ Len(queue) > 0 /\ DOMAIN queue' = 1..(Len(queue) - 1)
      /\ \A i \in 1..(Len(queue) - 1) : queue'[i] = queue[i + 1]
  BY <1>0, QueueIs
<1>2. ASSUME NEW i \in DOMAIN queue'
      PROVE  /\ i + 1 \in DOMAIN queue /\ 1 \in DOMAIN queue /\ i + 1 # 1 /\ i \in Nat
             /\ Live(i)' => Live(i + 1)
             /\ queue'[i] = queue[i + 1]
  BY <1>0, <1>1 DEF Live
<1>3. LiveInv'
  <2>1. ASSUME NEW i \in DOMAIN queue', Live(i)' PROVE call'
    <3>1. CASE started /\ queue[1].op \in ToolOps
      <4>1. Live(1)
        BY <3>1 DEF Live
      <4> QED BY <1>2, <2>1, <4>1 DEF HostInv, LiveInv
    <3> QED BY <1>2, <2>1, <3>1 DEF HostInv, LiveInv
  <2>2. ASSUME NEW i \in DOMAIN queue', NEW j \in DOMAIN queue', Live(i)', Live(j)' PROVE i = j
    <3>1. i + 1 = j + 1
      BY <1>2, <2>2 DEF HostInv, LiveInv
    <3> QED BY <1>2, <3>1
  <2> QED BY <2>1, <2>2 DEF LiveInv
<1>4. AloneInv'
  <2>1. ASSUME NEW i \in DOMAIN queue', queue'[i].op \in RestoreOps PROVE turn' = NoTurn
    BY <1>2, <2>1 DEF HostInv, AloneInv
  <2>2. ASSUME NEW i \in DOMAIN queue', NEW j \in DOMAIN queue', queue'[i].op \in RestoreOps,
               queue'[j].op \in RestoreOps PROVE i = j
    <3>1. i + 1 = j + 1
      BY <1>2, <2>2 DEF HostInv, AloneInv
    <3> QED BY <1>2, <3>1
  <2> QED BY <2>1, <2>2 DEF AloneInv
<1>5. HeadInv'
  <2>1. call' => turn' # NoTurn
    BY DEF HostInv, HeadInv, AloneInv
  <2> QED BY <2>1 DEF HeadInv
<1> QED BY <1>3, <1>4, <1>5 DEF HostInv

(* A step of the tool or the restore that runs.                             *)
LEMMA Within ==
  ASSUME HostInv, UNCHANGED <<queue, started, turn, call>>,
         tool'.pc = "idle" <=> tool.pc = "idle", rest'.pc = "idle" <=> rest.pc = "idle"
  PROVE  HostInv'
  BY DEF HostInv, LiveInv, AloneInv, HeadInv, Live

(* The turn: it starts only when nobody restores, and calls one tool at a   *)
(* time.                                                                    *)
LEMMA HostTurnStep ==
  ASSUME Types, HostInv, StartTurn \/ EndTurn \/ AbortCall \/ Enter \/ Crash
  PROVE  HostInv'
<1>0. queue \in Seq(Ops) /\ started \in BOOLEAN /\ Len(queue) \in Nat /\ DOMAIN queue = 1..Len(queue)
      /\ \A i \in DOMAIN queue : queue[i] \in Ops
  BY QueueIs DEF Types
<1>1. CASE StartTurn
  <2>1. turn' # NoTurn /\ call' = call /\ UNCHANGED <<queue, started, tool, rest>> /\ ~Restoring
    BY <1>1, TypesAre DEF StartTurn, NoTurn
  <2>2. \A i \in DOMAIN queue : queue[i].op \notin RestoreOps
    BY <2>1 DEF Restoring, RestoreOps
  <2> QED BY <2>1, <2>2 DEF HostInv, LiveInv, AloneInv, HeadInv, Live
<1>2. CASE EndTurn
  BY <1>2 DEF EndTurn, HostInv, LiveInv, AloneInv, HeadInv, Live
<1>3. CASE AbortCall
  <2>1. PICK i \in DOMAIN queue :
          /\ queue[i].op \in ToolOps /\ ~queue[i].aborted
          /\ queue' = [queue EXCEPT ![i].aborted = TRUE] /\ call' = ~(i > 1 \/ ~started)
    BY <1>3 DEF AbortCall, Aborted, Waits, ToolOps
  <2>2. UNCHANGED <<started, turn, tool, rest>>
    BY <1>3 DEF AbortCall
  <2>3. /\ DOMAIN queue' = DOMAIN queue /\ i \in Nat /\ i >= 1 /\ Live(i) /\ call
        /\ \A j \in DOMAIN queue : queue'[j].op = queue[j].op
                                   /\ (j # i => queue'[j] = queue[j])
        /\ queue'[i].aborted
    <3>1. [queue[i] EXCEPT !.aborted = TRUE].op = queue[i].op /\ [queue[i] EXCEPT !.aborted = TRUE].aborted
      BY <1>0 DEF Ops, ToolOps, RestoreOps
    <3>2. queue' = [queue EXCEPT ![i] = [queue[i] EXCEPT !.aborted = TRUE]]
      BY <2>1
    <3> QED BY <1>0, <2>1, <3>1, <3>2 DEF Live, HostInv, LiveInv
  <2>4. LiveInv'
    <3>1. ASSUME NEW j \in DOMAIN queue', Live(j)' PROVE j = i /\ i = 1 /\ started
      BY <2>2, <2>3, <3>1 DEF Live, HostInv, LiveInv
    <3>2. ASSUME i = 1, started PROVE call'
      <4>1. ~(i > 1 \/ ~started)
        BY <3>2
      <4>2. call' = ~(i > 1 \/ ~started)
        BY <2>1
      <4> QED BY <4>1, <4>2, Zenon
    <3>3. \A j \in DOMAIN queue' : Live(j)' => call' /\ j = i
      BY <3>1, <3>2
    <3> QED BY <3>3 DEF LiveInv
  <2>5. AloneInv'
    BY <2>2, <2>3 DEF HostInv, AloneInv
  <2>6. HeadInv'
    BY <1>0, <2>2, <2>3 DEF HostInv, HeadInv
  <2> QED BY <2>4, <2>5, <2>6 DEF HostInv
<1>4. CASE Enter
  <2>1. queue # <<>> /\ ~started /\ 1 \in DOMAIN queue /\ Head(queue) = queue[1] /\ queue[1] \in Ops
    BY <1>0, <1>4, QueueIs DEF Enter, Starts
  <2>2. tool.pc = "idle" /\ rest.pc = "idle" /\ UNCHANGED <<turn, call>>
    BY <1>4, <2>1 DEF Enter, HostInv, HeadInv
  <2>3. CASE ~queue[1].aborted
    <3>1. started' = TRUE /\ queue' = queue
      BY <1>4, <2>1, <2>3 DEF Enter, Starts, MayRun
    <3>2. /\ tool'.pc # "idle" <=> queue[1].op \in ToolOps
          /\ rest'.pc # "idle" <=> queue[1].op \in RestoreOps
      <4>1. queue[1].op \in ToolOps => tool'.pc = "prepare" /\ rest' = rest
        BY <1>4, <2>1, <3>1 DEF Enter, ToolOps
      <4>2. queue[1].op \in RestoreOps => tool' = tool /\ rest' = NewRestore(queue[1])
        BY <1>4, <2>1, <3>1 DEF Enter, RestoreOps
      <4>3. queue[1].op \notin ToolOps \cup RestoreOps => tool' = tool /\ rest' = rest
        BY <1>4, <2>1, <3>1 DEF Enter, ToolOps, RestoreOps
      <4>4. NewRestore(queue[1]).pc = "plan"
        BY DEF NewRestore
      <4> QED BY <2>1, <2>2, <4>1, <4>2, <4>3, <4>4, OpIs
    <3> QED BY <2>1, <2>2, <2>3, <3>1, <3>2 DEF HostInv, LiveInv, AloneInv, HeadInv, Live
  <2>4. CASE queue[1].aborted
    <3>1. started' = FALSE /\ queue' = Tail(queue)
      BY <1>4, <2>1, <2>4 DEF Enter, Starts, MayRun
    <3>2. tool' = tool /\ rest' = rest
      BY <1>4, <3>1 DEF Enter
    <3> QED BY <2>1, <2>2, <3>1, <3>2, Dequeued
  <2>5. queue[1].aborted \in BOOLEAN
    BY <2>1, OpIs
  <2> QED BY <2>3, <2>4, <2>5
<1>5. CASE Crash
  <2>1. queue' = <<>> /\ started' = FALSE /\ call' = FALSE /\ tool'.pc = "idle" /\ rest'.pc = "idle"
    BY <1>5 DEF Crash, Idle
  <2> QED BY <2>1 DEF HostInv, LiveInv, AloneInv, HeadInv, Live
<1> QED BY <1>1, <1>2, <1>3, <1>4, <1>5

(* A tool leaves the critical section with its last step only.              *)
LEMMA HostToolStep ==
  ASSUME Types, HostInv, ToolNext
  PROVE  HostInv'
<1>0. tool.pc # "idle" => tool \in ToolTypes
  BY TypesAre
<1>1. ASSUME tool.pc # "idle", ToolReturns, UNCHANGED <<turn, rest>> PROVE HostInv'
  <2>1. started /\ queue # <<>> /\ queue[1].op \in ToolOps /\ rest.pc = "idle"
    <3>1. queue \in Seq(Ops)
      BY DEF Types
    <3>2. started /\ queue # <<>> /\ queue[1].op \in ToolOps
      BY <1>1 DEF HostInv, HeadInv
    <3> QED BY <3>1, <3>2, QueueIs, OpIs DEF HostInv, HeadInv
  <2> QED BY <1>1, <2>1, Dequeued DEF ToolReturns, Finishes, Idle
<1>2. CASE Prepare
  BY <1>0, <1>2, Within DEF Prepare, ToolTypes
<1>3. CASE PutPending
  BY <1>0, <1>3, Within DEF PutPending, ToolTypes
<1>4. CASE PutBarrier
  BY <1>0, <1>4, Within DEF PutBarrier, ToolTypes
<1>5. CASE PutNothing
  BY <1>0, <1>5, Within DEF PutNothing, ToolTypes
<1>6. CASE NotStarted
  BY <1>1, <1>6 DEF NotStarted
<1>7. ASSUME NEW p \in Paths, NEW c \in Texts, ToolWrites(p, c) PROVE HostInv'
  BY <1>0, <1>7, Within DEF ToolWrites, ToolTypes
<1>8. CASE Finalize
  BY <1>1, <1>8 DEF Finalize
<1>9. CASE FinalizeFails
  BY <1>1, <1>9 DEF FinalizeFails
<1> QED BY <1>2, <1>3, <1>4, <1>5, <1>6, <1>7, <1>8, <1>9 DEF ToolNext

(* What a step of the restore other than the last may change of rest.       *)
LEMMA HostRestoreStep ==
  ASSUME Types, HostInv, RestoreNext
  PROVE  HostInv'
<1>0. rest.pc # "idle" => rest \in RestTypes
  BY TypesAre
<1>1. ASSUME RestoreEnds PROVE HostInv'
  <2>1. started /\ queue # <<>> /\ queue[1].op \in RestoreOps /\ tool.pc = "idle" /\ turn = NoTurn
    <3>1. queue \in Seq(Ops)
      BY DEF Types
    <3>2. started /\ queue # <<>> /\ queue[1].op \in RestoreOps
      BY <1>1 DEF RestoreEnds, HostInv, HeadInv
    <3> QED BY <3>1, <3>2, QueueIs, OpIs DEF HostInv, HeadInv, AloneInv
  <2>2. queue' = Tail(queue) /\ started' = FALSE /\ tool' = tool /\ rest'.pc = "idle" /\ call' = call
    BY <1>1 DEF RestoreEnds, Finishes, Idle
  <2> QED BY <2>1, <2>2, Dequeued
<1>2. CASE Plan
  BY <1>0, <1>2, Within DEF Plan, RestTypes
<1>3. ASSUME NEW p \in Paths, Validate(p) PROVE HostInv'
  BY <1>0, <1>3, Within DEF Validate, RestTypes, Undoing
<1>4. CASE Verify
  BY <1>0, <1>4, Within DEF Verify, RestTypes, Undoing
<1>5. CASE Invalidate
  BY <1>0, <1>5, Within DEF Invalidate, RestTypes
<1>6. CASE Commit
  BY <1>0, <1>6, Within DEF Commit, RestTypes
<1>7. CASE RestoreFails
  BY <1>0, <1>7, Within DEF RestoreFails, RestTypes, Undoing
<1>8. ASSUME NEW m \in RangeSet, NEW p \in Paths, Apply(m, p) PROVE HostInv'
  BY <1>0, <1>8, Within DEF Apply, RestTypes
<1>9. ASSUME NEW m \in RangeSet, NEW p \in Paths, OutcomeUnknown(m, p) PROVE HostInv'
  BY <1>0, <1>9, Within DEF OutcomeUnknown, RestTypes
<1>10. ASSUME NEW p \in Paths, Undo(p) PROVE HostInv'
  BY <1>0, <1>10, Within DEF Undo, RestTypes
<1>11. CASE UndoFails
  BY <1>0, <1>11, Within DEF UndoFails, RestTypes
<1>12. CASE PutBack
  BY <1>0, <1>12, Within DEF PutBack, RestTypes
<1> QED BY <1>1, <1>2, <1>3, <1>4, <1>5, <1>6, <1>7, <1>8, <1>9, <1>10, <1>11, <1>12 DEF RestoreNext

(* The lock holds what it promises in every step.                           *)
LEMMA HostStep ==
  ASSUME Types, HostInv, [Next]_vars
  PROVE  HostInv'
<1>0. rest.pc # "idle" => rest \in RestTypes
  BY TypesAre
<1>1. ASSUME NEW scope \in SUBSET Paths, NEW op \in ToolOps, CallTool(op, scope) PROVE HostInv'
  <2>1. [op |-> op, scope |-> scope, aborted |-> FALSE] \in Ops
    BY DEF Ops
  <2> QED BY <1>1, <2>1, Queued DEF CallTool, Enqueued
<1>2. CASE Compact
  BY <1>2, Within DEF Compact
<1>3. CASE OtherCalls
  <2>1. [op |-> "other", aborted |-> FALSE] \in Ops
    BY DEF Ops
  <2> QED BY <1>3, <2>1, Queued DEF OtherCalls, Enqueued
<1>4. CASE OtherEnds
  <2>1. started /\ Head(queue).op = "other" /\ queue # <<>>
    BY <1>4 DEF OtherEnds, HostInv, HeadInv
  <2>2. queue[1].op = "other"
    BY <2>1, QueueIs DEF Types
  <2>3. tool.pc = "idle" /\ rest.pc = "idle"
    BY <2>2 DEF HostInv, HeadInv, ToolOps, RestoreOps
  <2> QED BY <1>4, <2>1, <2>3, Dequeued DEF OtherEnds, Finishes
<1>5. ASSUME NEW m \in DOMAIN manifests, NEW op \in {"files", "chat"}, RequestRestore(m, op)
      PROVE HostInv'
  <2>1. [op |-> op, target |-> m, aborted |-> FALSE] \in Ops
    BY TypesAre DEF Ops, RestoreOps
  <2> QED BY <1>5, <2>1, Queued DEF RequestRestore, Enqueued, RestoreOps
<1>6. ASSUME NEW b \in BOOLEAN, RequestEdit(b) PROVE HostInv'
  <2>1. [op |-> "edit", target |-> IF b THEN 1 ELSE NoManifest, aborted |-> FALSE] \in Ops
    BY DEF Ops, RestoreOps, NoManifest
  <2> QED BY <1>6, <2>1, Queued DEF RequestEdit, Enqueued, RestoreOps
<1>7. ASSUME NEW p \in Paths, NEW c \in Contents, Outside(p, c) PROVE HostInv'
  BY <1>0, <1>7, Within DEF Outside, RestTypes
<1>8. CASE UNCHANGED vars
  BY <1>8, Within DEF vars
<1> QED BY <1>1, <1>2, <1>3, <1>4, <1>5, <1>6, <1>7, <1>8,
           HostTurnStep, HostToolStep, HostRestoreStep DEF Next, ToolOps

(* What is written in the place of a manifest, or behind the last, is one.  *)
LEMMA ManifestsTyped ==
  ASSUME Types
  PROVE  /\ \A s \in Nat : Barrier(s) \in Manifests
         /\ \A s \in Nat, b \in FileMaps : Pending(s, b) \in Manifests
         /\ \A M \in Manifests : Append(manifests, M) \in Seq(Manifests)
         /\ \A m \in DOMAIN manifests, M \in Manifests : [manifests EXCEPT ![m] = M] \in Seq(Manifests)
<1>1. NoFiles \in FileMaps
  BY FileMapsAre
<1>2. manifests \in Seq(Manifests) /\ turn \in Nat
  BY DEF Types
<1>3. \A s \in Nat : Barrier(s) \in Manifests
  BY <1>1, <1>2 DEF Barrier, Manifests
<1>4. \A s \in Nat, b \in FileMaps : Pending(s, b) \in Manifests
  BY <1>1, <1>2 DEF Pending, Manifests
<1> HIDE DEF Manifests
<1>5. \A M \in Manifests : Append(manifests, M) \in Seq(Manifests)
  BY <1>2
<1>6. \A m \in DOMAIN manifests, M \in Manifests : [manifests EXCEPT ![m] = M] \in Seq(Manifests)
  BY <1>2
<1> QED BY <1>3, <1>4, <1>5, <1>6

(* The steps of the turn and of the queue keep the types.                   *)
LEMMA TurnTypes ==
  ASSUME Types, HostInv, StartTurn \/ EndTurn \/ AbortCall \/ Compact \/ OtherCalls \/ OtherEnds \/ Enter
                \/ (\E scope \in SUBSET Paths \ {{}} : CallTool("tool", scope))
                \/ CallTool("command", Paths)
                \/ (\E m \in DOMAIN manifests, op \in {"files", "chat"} : RequestRestore(m, op))
                \/ (\E withFiles \in BOOLEAN : RequestEdit(withFiles))
  PROVE  Types'
<1>0. NoFiles \in FileMaps /\ {} \in Todos /\ DOMAIN manifests \subseteq Nat
  BY FileMapsAre DEF Todos, Types
<1>a. \A o \in Ops : Append(queue, o) \in Seq(Ops)
  BY QueueTypes
<1>b. queue # <<>> => Head(queue) \in Ops /\ Tail(queue) \in Seq(Ops)
  BY DEF Types
<1>1. CASE StartTurn
  <2>1. Append(start, files) \in Seq([Paths -> Contents \cup {Unknown}])
    BY DEF Types
  <2>2. turn' \in Nat /\ chat' \in SUBSET Nat
    <3>1. Len(start) \in Nat /\ chat \in SUBSET Nat
      BY TypesAre DEF Types
    <3>2. turn' = Len(start) + 1 /\ chat' = chat \cup {turn'}
      BY <1>1 DEF StartTurn
    <3>3. turn' \in Nat
      BY <3>1, <3>2
    <3>4. \A t \in chat' : t \in Nat
      BY <3>1, <3>2, <3>3
    <3> QED BY <3>3, <3>4
  <2> QED BY <1>1, <2>1, <2>2 DEF StartTurn, Types, count
<1>2. CASE EndTurn
  BY <1>2, RememberedTyped DEF EndTurn, Types, count, NoTurn
<1>3. CASE AbortCall
  <2>1. PICK i \in DOMAIN queue : queue' = Aborted(i) /\ call' = ~Waits(i)
    BY <1>3 DEF AbortCall
  <2>2. [op |-> "other", aborted |-> FALSE] \in Ops
    BY DEF Ops
  <2>3. queue' \in Seq(Ops)
    BY <2>1, <2>2, QueueTypes
  <2>4. call' \in BOOLEAN
    BY <1>3, <2>1 DEF AbortCall, Waits
  <2> QED BY <1>3, <2>3, <2>4 DEF AbortCall, Types, hist
<1>4. CASE Compact
  BY <1>4, RememberedTyped DEF Compact, Types, count
<1>5. CASE OtherCalls
  <2>1. [op |-> "other", aborted |-> FALSE] \in Ops
    BY DEF Ops
  <2>2. queue' \in Seq(Ops)
    BY <1>5, <1>a, <2>1 DEF OtherCalls, Enqueued
  <2> QED BY <1>5, <2>2 DEF OtherCalls, Types, hist
<1>6. CASE OtherEnds
  <2>1. queue' \in Seq(Ops) /\ started' \in BOOLEAN
    <3>1. queue # <<>>
      BY <1>6 DEF OtherEnds, HostInv, HeadInv
    <3> QED BY <1>6, <1>b, <3>1 DEF OtherEnds, Finishes
  <2> QED BY <1>6, <2>1 DEF OtherEnds, Types, hist, count
<1>7. CASE Enter
  <2>1. queue # <<>> /\ queue' \in Seq(Ops) /\ started' \in BOOLEAN /\ Head(queue) \in Ops
    BY <1>7, <1>b DEF Enter, Starts, Types
  <2>2. tool' \in {Idle} \cup ToolTypes
    <3>1. CASE started' /\ Head(queue).op \in ToolOps
      <4>1. Head(queue).scope \in SUBSET Paths
        BY <2>1, <3>1, OpIs
      <4>2. tool' = [pc |-> "prepare", op |-> Head(queue).op, scope |-> Head(queue).scope,
                     id |-> NoManifest, seq |-> 0, before |-> NoFiles,
                     todo |-> Head(queue).scope, kept |-> FALSE]
        BY <1>7, <3>1 DEF Enter, ToolOps
      <4>3. tool' \in ToolTypes
        BY <1>0, <3>1, <4>1, <4>2 DEF ToolTypes, NoManifest
      <4> QED BY <4>3
    <3>2. CASE ~(started' /\ Head(queue).op \in ToolOps)
      BY <1>7, <3>2 DEF Enter, Types, ToolOps
    <3> QED BY <3>1, <3>2
  <2>3. rest' \in {Idle} \cup RestTypes
    <3>1. CASE started' /\ Head(queue).op \in RestoreOps
      <4>1. Head(queue).target \in Nat
        BY <2>1, <3>1, OpIs
      <4>2. rest' = NewRestore(Head(queue))
        BY <1>7, <3>1 DEF Enter, RestoreOps
      <4>3. NewRestore(Head(queue)) \in RestTypes
        BY <1>0, <3>1, <4>1 DEF RestTypes, NewRestore, NoTurn
      <4> QED BY <4>2, <4>3
    <3>2. CASE ~(started' /\ Head(queue).op \in RestoreOps)
      BY <1>7, <3>2 DEF Enter, Types, RestoreOps
    <3> QED BY <3>1, <3>2
  <2> QED BY <1>7, <2>1, <2>2, <2>3 DEF Enter, Types, hist
<1>8. ASSUME NEW scope \in SUBSET Paths, NEW op \in ToolOps, CallTool(op, scope) PROVE Types'
  <2>1. [op |-> op, scope |-> scope, aborted |-> FALSE] \in Ops
    BY DEF Ops
  <2>2. queue' \in Seq(Ops)
    BY <1>8, <1>a, <2>1 DEF CallTool, Enqueued
  <2> QED BY <1>8, <2>2 DEF CallTool, Types, hist
<1>9. ASSUME NEW m \in DOMAIN manifests, NEW op \in {"files", "chat"}, RequestRestore(m, op)
      PROVE Types'
  <2>1. [op |-> op, target |-> m, aborted |-> FALSE] \in Ops
    BY <1>0 DEF Ops, RestoreOps
  <2>2. queue' \in Seq(Ops)
    BY <1>9, <1>a, <2>1 DEF RequestRestore, Enqueued
  <2> QED BY <1>9, <2>2 DEF RequestRestore, Types, hist
<1>10. ASSUME NEW b \in BOOLEAN, RequestEdit(b) PROVE Types'
  <2>1. [op |-> "edit", target |-> IF b THEN 1 ELSE NoManifest, aborted |-> FALSE] \in Ops
    BY DEF Ops, RestoreOps, NoManifest
  <2>2. queue' \in Seq(Ops)
    BY <1>10, <1>a, <2>1 DEF RequestEdit, Enqueued
  <2> QED BY <1>10, <2>2 DEF RequestEdit, Types, hist
<1> QED BY <1>1, <1>2, <1>3, <1>4, <1>5, <1>6, <1>7, <1>8, <1>9, <1>10 DEF ToolOps

-----------------------------------------------------------------------------
(* The invariants of the single variables.                                  *)
Committed == rest.pc = "done" /\ rest.why = "none"

BoundInv ==
  /\ Len(start) <= MaxTurns /\ turn \in {NoTurn, Len(start)} /\ chat \subseteq 1..Len(start)
  /\ \A m \in DOMAIN manifests : manifests[m].turn \in 1..Len(start)
  /\ broken \subseteq (DOMAIN manifests) \X Paths

AskedInv ==
  \A i \in DOMAIN queue :
    /\ queue[i].op \in {"files", "chat"} => queue[i].target \in DOMAIN manifests
    /\ queue[i].op = "chat" /\ ~Committed => manifests[queue[i].target].turn \in chat
    /\ queue[i].op = "edit" /\ ~Committed => Len(start) < MaxTurns

(* What the manifest M tells; X are the files someone else wrote as well.    *)
Told(M, X) ==
  /\ M.status = "pending" => DOMAIN M.after = {}
  /\ M.status # "pending" => DOMAIN M.after = DOMAIN M.before
  /\ \A p \in DOMAIN M.after : p \in X \/ M.after[p] \in Texts
ManifestsInv ==
  InOrder(manifests, Listed) /\ \A m \in DOMAIN manifests : Told(manifests[m], mixed)

ToolInv ==
  tool.pc # "idle" =>
    /\ tool.todo \subseteq tool.scope
    /\ tool.pc \in {"prepare", "put"} => tool.id = NoManifest /\ ~tool.kept /\ tool.todo = tool.scope
    /\ tool.pc # "prepare" /\ tool.op = "tool" =>
         /\ DOMAIN tool.before = tool.scope
         /\ \A p \in tool.scope : \/ p \in mixed \/ files[p] = tool.before[p]
                                  \/ files[p] \in Texts
    /\ tool.pc = "put" => \A m \in Listed : manifests[m].seq < tool.seq
    /\ tool.id # NoManifest =>
         /\ tool.op = "tool" /\ tool.id \in DOMAIN manifests
         /\ manifests[tool.id].status = "pending" /\ manifests[tool.id].complete
         /\ manifests[tool.id].before = tool.before
         /\ manifests[tool.id].turn = turn

(* A restore: its range, and how far the manifests, the files and the        *)
(* conversation have gone.                                                  *)
FirstTouch(m, p) == \A n \in RangeSet : p \in Touched(n) => m <= n
RestoreInv ==
  rest.pc # "idle" =>
    /\ rest.op = queue[1].op /\ rest.target = queue[1].target
    /\ \A m \in RangeSet : manifests[m].complete /\ manifests[m].status \in {"ready", "invalidated"}
    /\ rest.pc = "plan" => rest.range = {} /\ rest.meddled = {} /\ rest.turn = NoTurn
    /\ rest.pc \in {"plan", "validate", "apply", "invalidate", "commit"} =>
         rest.why = "none" /\ rest.clean
    /\ rest.pc = "undo" => rest.why \in {"conflict", "error"}
    /\ rest.why = "unknown" => ~rest.clean
    /\ rest.why = "refused" => rest.range = {} /\ rest.turn = NoTurn
    /\ rest.pc \in {"validate", "apply", "invalidate", "commit"} \/ Committed => rest.turn # NoTurn
UndoneManifests ==
  rest.pc # "idle" =>
    /\ rest.pc \in {"validate", "apply"} => \A m \in RangeSet : manifests[m].status = "ready"
    /\ rest.pc = "invalidate" =>
         \A m \in RangeSet : manifests[m].status = "invalidated" \/ m \in rest.todo
    /\ rest.pc = "commit" \/ Committed => \A m \in RangeSet : manifests[m].status = "invalidated"
    /\ rest.pc = "done" /\ ~Committed /\ rest.clean =>
         \A m \in RangeSet : manifests[m].status = "ready"
UndoneFiles ==
  rest.pc # "idle" =>
    /\ rest.pc \in {"invalidate", "commit"} \/ Committed =>
         \A m \in RangeSet : \A p \in Touched(m) \ rest.meddled :
           FirstTouch(m, p) => files[p] = manifests[m].before[p]
    /\ rest.pc = "undo" /\ rest.clean =>
         \A p \in PathsOf(RangeSet) \ rest.meddled : p \in rest.todo \/ files[p] = rest.safety[p]
    /\ rest.pc = "done" /\ ~Committed /\ rest.clean =>
         \A p \in PathsOf(RangeSet) \ rest.meddled : files[p] = rest.safety[p]
UndoneChat ==
  rest.pc # "idle" /\ rest.op # "files" /\ rest.turn # NoTurn =>
    IF Committed THEN rest.turn \notin chat ELSE rest.turn \in chat

RestInv == RestoreInv /\ UndoneManifests /\ UndoneFiles /\ UndoneChat
DataInv == BoundInv /\ AskedInv /\ ManifestsInv /\ ToolInv
BaseInv == Types /\ RangeInv /\ HostInv /\ DataInv /\ RestInv

(* Only one of them is in the critical section.                             *)
LEMMA Exclusive ==
  ASSUME Types, HostInv
  PROVE  /\ tool.pc # "idle" => /\ rest.pc = "idle" /\ call /\ turn # NoTurn /\ RangeSet = {}
                                /\ \A i \in DOMAIN queue : queue[i].op \notin RestoreOps
         /\ rest.pc # "idle" => tool.pc = "idle" /\ turn = NoTurn /\ ~call
         /\ started => queue # <<>> /\ 1 \in DOMAIN queue /\ queue[1] \in Ops
<1>0. queue \in Seq(Ops)
  BY DEF Types
<1>1. started => queue # <<>> /\ 1 \in DOMAIN queue /\ queue[1] \in Ops
  BY <1>0, QueueIs DEF HostInv, HeadInv
<1>2. ASSUME tool.pc # "idle"
      PROVE  /\ rest.pc = "idle" /\ call /\ turn # NoTurn /\ RangeSet = {}
             /\ \A i \in DOMAIN queue : queue[i].op \notin RestoreOps
  <2>1. started /\ queue[1].op \in ToolOps
    BY <1>2 DEF HostInv, HeadInv
  <2>2. rest.pc = "idle"
    BY <1>1, <2>1, OpIs DEF HostInv, HeadInv
  <2>3. Live(1)
    BY <2>1 DEF Live
  <2>4. call
    BY <1>1, <2>1, <2>3 DEF HostInv, LiveInv
  <2> QED BY <2>2, <2>4 DEF HostInv, HeadInv, RangeSet, AloneInv
<1>3. ASSUME rest.pc # "idle" PROVE tool.pc = "idle" /\ turn = NoTurn /\ ~call
  <2>1. started /\ queue[1].op \in RestoreOps
    BY <1>3 DEF HostInv, HeadInv
  <2> QED BY <1>1, <2>1, OpIs DEF HostInv, HeadInv, AloneInv
<1> QED BY <1>1, <1>2, <1>3

(* A manifest is put by the tool that runs.                                 *)
LEMMA Appended ==
  ASSUME BaseInv, tool.pc = "put", NEW M \in Manifests, M.seq = tool.seq, M.turn = turn,
         M.after = NoFiles, M.status = "pending" \/ M.before = NoFiles,
         manifests' = Append(manifests, M), UNCHANGED <<start, turn, chat, broken, mixed>>
  PROVE  /\ manifests' \in Seq(Manifests) /\ BoundInv' /\ ManifestsInv'
         /\ Len(manifests') = Len(manifests) + 1 /\ manifests'[Len(manifests) + 1] = M
         /\ \A m \in DOMAIN manifests : m \in DOMAIN manifests' /\ manifests'[m] = manifests[m]
<1> USE DEF BaseInv, DataInv
<1>0. /\ manifests \in Seq(Manifests) /\ Len(manifests) \in Nat
      /\ DOMAIN manifests = 1..Len(manifests) /\ Len(start) \in Nat /\ start' = start
      /\ turn \in Nat /\ turn # NoTurn
  BY TypesAre, Exclusive DEF Types
<1>1. /\ manifests' \in Seq(Manifests) /\ DOMAIN manifests' = 1..(Len(manifests) + 1)
      /\ Len(manifests') = Len(manifests) + 1 /\ manifests'[Len(manifests) + 1] = M
      /\ \A m \in DOMAIN manifests : m \in DOMAIN manifests' /\ manifests'[m] = manifests[m]
  <2> HIDE DEF Manifests
  <2> QED BY <1>0
<1>2. \A m \in DOMAIN manifests' : m \in DOMAIN manifests \/ m = Len(manifests) + 1
  BY <1>0, <1>1
<1>3. turn = Len(start) /\ turn \in 1..Len(start)
  BY <1>0 DEF BoundInv, NoTurn
<1>4. BoundInv'
  BY <1>0, <1>1, <1>2, <1>3 DEF BoundInv
<1>5. InOrder(manifests', Listed')
  <2>1. ASSUME NEW m \in Listed', NEW n \in Listed', m < n
        PROVE manifests'[m].seq < manifests'[n].seq /\ manifests'[m].turn <= manifests'[n].turn
    <3>1. m \in DOMAIN manifests' /\ n \in DOMAIN manifests'
      BY DEF Listed
    <3>2. m \in DOMAIN manifests /\ m \in Listed
      BY <1>0, <1>1, <1>2, <2>1, <3>1 DEF Listed
    <3>3. CASE n \in DOMAIN manifests
      <4>1. n \in Listed
        BY <1>1, <3>3 DEF Listed
      <4> QED BY <1>1, <2>1, <3>2, <3>3, <4>1 DEF ManifestsInv, InOrder
    <3>4. CASE n = Len(manifests) + 1
      <4>1. manifests[m].seq < tool.seq
        BY <3>2, Exclusive DEF ToolInv
      <4>2. manifests[m].turn <= turn
        BY <1>3, <3>2 DEF BoundInv
      <4> QED BY <1>1, <3>2, <3>4, <4>1, <4>2
    <3> QED BY <1>2, <3>1, <3>3, <3>4
  <2> QED BY <2>1 DEF InOrder
<1>6. ManifestsInv'
  <2>1. DOMAIN NoFiles = {}
    BY FileMapsAre
  <2>2. ASSUME NEW m \in DOMAIN manifests' PROVE Told(manifests'[m], mixed')
    <3>1. CASE m \in DOMAIN manifests
      BY <1>1, <3>1 DEF ManifestsInv
    <3>2. CASE m = Len(manifests) + 1
      BY <1>1, <2>1, <3>2 DEF Told
    <3> QED BY <1>2, <3>1, <3>2
  <2> QED BY <1>5, <2>2 DEF ManifestsInv
<1> QED BY <1>1, <1>4, <1>6

(* Manifests are written again, in their places.                            *)
LEMMA Rewritten ==
  ASSUME BaseInv, manifests' \in Seq(Manifests), DOMAIN manifests' = DOMAIN manifests,
         \A m \in DOMAIN manifests : manifests'[m].seq = manifests[m].seq
                                     /\ manifests'[m].turn = manifests[m].turn,
         Listed' \subseteq Listed
  PROVE  InOrder(manifests', Listed')
         /\ \A m \in DOMAIN manifests' : manifests'[m].turn \in 1..Len(start)
<1>1. Listed \subseteq DOMAIN manifests
  BY DEF Listed
<1> QED BY <1>1 DEF BaseInv, DataInv, ManifestsInv, InOrder, BoundInv

(* What a step of the tool leaves alone as a whole.                         *)
LEMMA ToolFrame ==
  ASSUME BaseInv, tool.pc # "idle", rest' = rest,
         queue' = queue \/ (queue # <<>> /\ queue' = Tail(queue))
  PROVE  RangeInv' /\ RestInv' /\ AskedInv' /\ queue' \in Seq(Ops)
<1>0. queue \in Seq(Ops) /\ rest.pc = "idle" /\ \A i \in DOMAIN queue : queue[i].op \notin RestoreOps
  BY Exclusive DEF BaseInv, Types
<1>1. RangeInv' /\ RestInv'
  BY <1>0 DEF RangeInv, RestInv, RestoreInv, UndoneManifests, UndoneFiles, UndoneChat
<1>2. queue' \in Seq(Ops) /\ \A i \in DOMAIN queue' : queue'[i].op \notin RestoreOps
  <2>1. CASE queue # <<>> /\ queue' = Tail(queue)
    <3>1. \A i \in 1..(Len(queue) - 1) : queue'[i] = queue[i + 1] /\ i + 1 \in DOMAIN queue
      BY <1>0, <2>1, QueueIs
    <3>2. DOMAIN queue' = 1..(Len(queue) - 1) /\ queue' \in Seq(Ops)
      BY <1>0, <2>1, QueueIs
    <3> QED BY <1>0, <3>1, <3>2
  <2> QED BY <1>0, <2>1
<1>3. AskedInv'
  BY <1>2 DEF AskedInv, RestoreOps
<1> QED BY <1>1, <1>2, <1>3

(* The files before and after a tool.                                       *)
LEMMA Captures ==
  ASSUME Types
  PROVE  /\ \A P \in SUBSET Paths : [p \in P |-> files[p]] \in FileMaps
         /\ \A P \in SUBSET Paths, f \in FileMaps : P \subseteq DOMAIN f => [p \in P |-> f[p]] \in FileMaps
<1>1. ASSUME NEW P \in SUBSET Paths PROVE [p \in P |-> files[p]] \in FileMaps
  <2>1. [p \in P |-> files[p]] \in [P -> Contents]
    BY DEF Types
  <2> QED BY <2>1, FileMapsAre
<1>2. ASSUME NEW P \in SUBSET Paths, NEW f \in FileMaps, P \subseteq DOMAIN f
      PROVE [p \in P |-> f[p]] \in FileMaps
  <2>1. f \in [DOMAIN f -> Contents]
    BY FileMapsAre
  <2>2. [p \in P |-> f[p]] \in [P -> Contents]
    BY <1>2, <2>1
  <2> QED BY <2>2, FileMapsAre
<1> QED BY <1>1, <1>2

(* The fields of the tool.                                                  *)
LEMMA ToolIs ==
  ASSUME NEW t \in ToolTypes
  PROVE  /\ t.pc \in {"prepare", "put", "execute"} /\ t.op \in ToolOps /\ t.scope \in SUBSET Paths
         /\ t.id \in Nat /\ t.seq \in Nat /\ t.before \in FileMaps /\ t.todo \in SUBSET Paths
         /\ t.kept \in BOOLEAN
         /\ \A i \in Nat : \A s \in Nat : \A b \in FileMaps : \A d \in SUBSET Paths :
              /\ [t EXCEPT !.pc = "put", !.seq = s, !.before = b] \in ToolTypes
              /\ [t EXCEPT !.pc = "execute", !.id = i, !.kept = TRUE] \in ToolTypes
              /\ [t EXCEPT !.pc = "execute", !.kept = TRUE] \in ToolTypes
              /\ [t EXCEPT !.pc = "execute"] \in ToolTypes
              /\ [t EXCEPT !.todo = d] \in ToolTypes
  BY DEF ToolTypes

(* prepare and recordBarrier: the list is read, the files are captured.     *)
LEMMA PrepareStep ==
  ASSUME BaseInv, Prepare
  PROVE  Types' /\ DataInv'
<1>0. tool \in ToolTypes /\ tool.pc = "prepare"
  BY TypesAre DEF BaseInv, Prepare
<1> DEFINE b == IF tool.op = "command" THEN NoFiles ELSE [p \in tool.scope |-> files[p]]
           s == LastSequence + 1
<1>1. LastSequence \in Nat /\ \A m \in Listed : manifests[m].seq <= LastSequence /\ manifests[m].seq \in Nat
  <2>1. manifests \in Seq(Manifests)
    BY DEF BaseInv, Types
  <2> QED BY <2>1, LastSequenceIs, ManifestIs DEF Listed
<1>2. b \in FileMaps
  BY <1>0, FileMapsAre, ToolIs, Captures DEF BaseInv
<1>3. tool' = [tool EXCEPT !.pc = "put", !.seq = s, !.before = b]
  BY DEF Prepare
<1>4. s \in Nat /\ \A m \in Listed : manifests[m].seq < s
  BY <1>1
<1>5. tool.op # "command" => DOMAIN b = tool.scope /\ \A p \in tool.scope : b[p] = files[p]
  OBVIOUS
<1> HIDE DEF b, s
<1>6. tool' \in ToolTypes
  BY <1>0, <1>2, <1>3, <1>4, ToolIs
<1>7. /\ tool'.pc = "put" /\ tool'.seq = s /\ tool'.before = b /\ tool'.op = tool.op
      /\ tool'.scope = tool.scope /\ tool'.id = tool.id /\ tool'.todo = tool.todo
      /\ tool'.kept = tool.kept
  BY <1>0, <1>3 DEF ToolTypes
<1>8. UNCHANGED <<queue, started, files, manifests, turn, call, chat, rest, start, broken, mixed>>
  BY DEF Prepare, hist
<1>9. Types'
  BY <1>6, <1>8 DEF BaseInv, Types
<1>10. ToolInv'
  <2>1. ToolInv /\ tool.id = NoManifest /\ ~tool.kept /\ tool.todo = tool.scope
    BY <1>0 DEF BaseInv, DataInv, ToolInv
  <2>2. Listed' = Listed
    BY <1>8 DEF Listed
  <2> QED BY <1>4, <1>5, <1>7, <1>8, <2>1, <2>2 DEF ToolInv
<1>11. BoundInv' /\ ManifestsInv'
  BY <1>8 DEF BaseInv, DataInv, BoundInv, ManifestsInv, InOrder, Listed, Touched
<1>12. AskedInv'
  BY <1>0, <1>8, ToolFrame
<1> QED BY <1>9, <1>10, <1>11, <1>12 DEF DataInv

(* The manifest is put, or the barrier, or nothing.                         *)
LEMMA PutStep ==
  ASSUME BaseInv, PutPending \/ PutBarrier \/ PutNothing
  PROVE  Types' /\ DataInv'
<1>0. tool \in ToolTypes /\ tool.pc = "put"
  BY TypesAre DEF BaseInv, PutPending, PutBarrier, PutNothing
<1>1. /\ tool.id = NoManifest /\ ~tool.kept /\ tool.todo = tool.scope /\ ToolInv
      /\ tool.op = "tool" => DOMAIN tool.before = tool.scope
  BY <1>0 DEF BaseInv, DataInv, ToolInv
<1>2. UNCHANGED <<queue, started, files, turn, call, chat, rest, start, broken, mixed>>
  BY DEF PutPending, PutBarrier, PutNothing, hist
<1>3. AskedInv' /\ queue' \in Seq(Ops)
  BY <1>0, <1>2, ToolFrame
<1>4. /\ tool.seq \in Nat /\ tool.before \in FileMaps
      /\ Len(manifests) \in Nat /\ manifests \in Seq(Manifests) /\ DOMAIN manifests = 1..Len(manifests)
  BY <1>0, ToolIs, TypesAre DEF BaseInv, Types
<1>5. CASE PutPending
  <2> DEFINE M == Pending(tool.seq, tool.before)
  <2>1. M \in Manifests
    BY <1>4, ManifestsTyped DEF BaseInv
  <2>2. /\ M.seq = tool.seq /\ M.turn = turn /\ M.after = NoFiles /\ M.status = "pending"
        /\ M.complete /\ M.before = tool.before
    BY DEF Pending
  <2>3. manifests' = Append(manifests, M)
    BY <1>5 DEF PutPending
  <2> HIDE DEF M
  <2>4. /\ manifests' \in Seq(Manifests) /\ BoundInv' /\ ManifestsInv'
        /\ Len(manifests') = Len(manifests) + 1 /\ manifests'[Len(manifests) + 1] = M
    BY <1>0, <1>2, <2>1, <2>2, <2>3, Appended
  <2>5. /\ tool' \in ToolTypes /\ tool'.pc = "execute" /\ tool'.id = Len(manifests) + 1
        /\ tool'.op = "tool" /\ tool'.scope = tool.scope /\ tool'.before = tool.before
        /\ tool'.todo = tool.todo
    <3>1. tool' = [tool EXCEPT !.pc = "execute", !.id = Len(manifests) + 1, !.kept = TRUE]
      BY <1>5 DEF PutPending
    <3>2. tool' \in ToolTypes
      <4>1. Len(manifests) + 1 \in Nat
        BY <1>4
      <4> QED BY <1>0, <3>1, <4>1, ToolIs
    <3> QED BY <1>0, <1>5, <3>1, <3>2 DEF ToolTypes, PutPending
  <2>6. Types'
    BY <1>2, <1>3, <2>4, <2>5 DEF BaseInv, Types
  <2>7. ToolInv'
    <3>1. DOMAIN manifests' = 1..(Len(manifests) + 1)
      BY <2>4
    <3>2. tool'.id \in DOMAIN manifests' /\ manifests'[tool'.id] = M
      BY <1>4, <2>4, <2>5, <3>1
    <3>3. tool.op = "tool"
      BY <1>5 DEF PutPending
    <3>4. \A p \in tool.scope : p \in mixed \/ files[p] = tool.before[p] \/ files[p] \in Texts
      BY <1>0, <1>1, <3>3 DEF ToolInv
    <3> QED BY <1>1, <1>2, <2>2, <2>5, <3>2, <3>3, <3>4 DEF ToolInv
  <2> QED BY <1>3, <2>4, <2>6, <2>7 DEF DataInv
<1>6. CASE PutBarrier
  <2> DEFINE M == Barrier(tool.seq)
  <2>1. M \in Manifests
    BY <1>4, ManifestsTyped DEF BaseInv
  <2>2. M.seq = tool.seq /\ M.turn = turn /\ M.after = NoFiles /\ M.before = NoFiles
    BY DEF Barrier
  <2>3. manifests' = Append(manifests, M)
    BY <1>6 DEF PutBarrier
  <2> HIDE DEF M
  <2>4. manifests' \in Seq(Manifests) /\ BoundInv' /\ ManifestsInv'
    BY <1>0, <1>2, <2>1, <2>2, <2>3, Appended
  <2>5. /\ tool' \in ToolTypes /\ tool'.pc = "execute" /\ tool'.id = tool.id
        /\ tool'.op = tool.op /\ tool'.scope = tool.scope /\ tool'.before = tool.before
        /\ tool'.todo = tool.todo
    <3>1. tool' = [tool EXCEPT !.pc = "execute", !.kept = TRUE]
      BY <1>6 DEF PutBarrier
    <3>2. tool' \in ToolTypes
      BY <1>0, <3>1, ToolIs
    <3> QED BY <1>0, <3>1, <3>2 DEF ToolTypes
  <2>6. Types'
    BY <1>2, <1>3, <2>4, <2>5 DEF BaseInv, Types
  <2>7. ToolInv'
    BY <1>0, <1>1, <1>2, <2>5 DEF ToolInv
  <2> QED BY <1>3, <2>4, <2>6, <2>7 DEF DataInv
<1>7. CASE PutNothing
  <2>1. manifests' = manifests
    BY <1>7 DEF PutNothing
  <2>2. BoundInv' /\ ManifestsInv'
    BY <1>2, <2>1 DEF BaseInv, DataInv, BoundInv, ManifestsInv, InOrder, Listed, Touched
  <2>3. /\ tool' \in ToolTypes /\ tool'.pc = "execute" /\ tool'.id = tool.id
        /\ tool'.op = tool.op /\ tool'.scope = tool.scope /\ tool'.before = tool.before
        /\ tool'.todo = tool.todo
    <3>1. tool' = [tool EXCEPT !.pc = "execute"]
      BY <1>7 DEF PutNothing
    <3>2. tool' \in ToolTypes
      BY <1>0, <3>1, ToolIs
    <3> QED BY <1>0, <3>1, <3>2 DEF ToolTypes
  <2>4. Types'
    BY <1>2, <1>3, <2>1, <2>3 DEF BaseInv, Types
  <2>5. ToolInv'
    BY <1>0, <1>1, <1>2, <2>3 DEF ToolInv
  <2> QED BY <1>3, <2>2, <2>4, <2>5 DEF DataInv
<1> QED BY <1>5, <1>6, <1>7

(* The tool writes one file.                                                *)
LEMMA WriteStep ==
  ASSUME BaseInv, NEW p \in Paths, NEW c \in Texts, ToolWrites(p, c)
  PROVE  Types' /\ DataInv'
<1>0. tool \in ToolTypes /\ tool.pc = "execute" /\ files \in [Paths -> Contents]
  BY TypesAre DEF BaseInv, ToolWrites, Types
<1>1. UNCHANGED <<queue, started, manifests, turn, call, chat, rest, mixed>>
  BY DEF ToolWrites
<1>2. files' = [files EXCEPT ![p] = c]
  BY DEF ToolWrites
<1>3. AskedInv' /\ queue' \in Seq(Ops)
  BY <1>0, <1>1, ToolFrame
<1>4. /\ tool' \in ToolTypes /\ tool'.pc = "execute" /\ tool'.id = tool.id
      /\ tool'.op = tool.op /\ tool'.scope = tool.scope /\ tool'.before = tool.before
      /\ tool'.todo = tool.todo \ {p}
  <2>1. tool' = [tool EXCEPT !.todo = tool.todo \ {p}]
    BY DEF ToolWrites
  <2>2. tool.todo \ {p} \in SUBSET Paths
    BY <1>0, ToolIs
  <2>3. tool' \in ToolTypes
    BY <1>0, <2>1, <2>2, ToolIs
  <2> QED BY <1>0, <2>1, <2>3 DEF ToolTypes
<1>5. /\ broken' \in SUBSET (Nat \X Paths) /\ start' \in Seq([Paths -> Contents \cup {Unknown}])
      /\ Len(start') = Len(start) /\ broken' \subseteq (DOMAIN manifests) \X Paths
  <2>1. {p} \in SUBSET Paths
    OBVIOUS
  <2>2. /\ Breaks({p}) \in SUBSET (Nat \X Paths) /\ Breaks({p}) \subseteq (DOMAIN manifests) \X Paths
        /\ Unkept({p}) \in Seq([Paths -> Contents \cup {Unknown}])
        /\ Len(Unkept({p})) = Len(start)
    BY <2>1, BreaksTyped DEF BaseInv
  <2>3. broken' = broken \/ broken' = broken \cup Breaks({p})
    BY DEF ToolWrites
  <2>4. start' = start \/ start' = Unkept({p})
    BY DEF ToolWrites
  <2> QED BY <2>2, <2>3, <2>4 DEF BaseInv, DataInv, Types, BoundInv
<1>6. files' \in [Paths -> Contents]
  BY <1>0, <1>2 DEF Contents
<1>7. Types'
  BY <1>1, <1>3, <1>4, <1>5, <1>6 DEF BaseInv, Types
<1>8. BoundInv' /\ ManifestsInv'
  BY <1>1, <1>5 DEF BaseInv, DataInv, BoundInv, ManifestsInv, InOrder, Listed, Touched
<1>9. ToolInv'
  <2>1. \A q \in Paths : files'[q] = files[q] \/ files'[q] \in Texts
    BY <1>0, <1>2
  <2>2. tool.scope \in SUBSET Paths
    BY <1>0, ToolIs
  <2> QED BY <1>0, <1>1, <1>4, <2>1, <2>2 DEF BaseInv, DataInv, ToolInv
<1> QED BY <1>3, <1>7, <1>8, <1>9 DEF DataInv

(* The tool returns; manifests were at most written again.                  *)
LEMMA Returned ==
  ASSUME BaseInv, tool.pc # "idle", ToolReturns, UNCHANGED <<files, turn, chat, rest, mixed>>,
         manifests' \in Seq(Manifests), DOMAIN manifests' = DOMAIN manifests,
         \A m \in DOMAIN manifests :
           /\ manifests'[m].seq = manifests[m].seq /\ manifests'[m].turn = manifests[m].turn
           /\ Told(manifests'[m], mixed),
         Listed' \subseteq Listed,
         start' \in Seq([Paths -> Contents \cup {Unknown}]), Len(start') = Len(start),
         broken' \subseteq (DOMAIN manifests) \X Paths
  PROVE  Types' /\ DataInv'
<1>1. queue # <<>> /\ DOMAIN manifests \subseteq Nat
  BY Exclusive, TypesAre DEF BaseInv, HostInv, HeadInv
<1>2. queue' = Tail(queue) /\ started' = FALSE /\ call' = FALSE /\ tool' = Idle
  BY DEF ToolReturns, Finishes
<1>3. AskedInv' /\ queue' \in Seq(Ops)
  BY <1>1, <1>2, ToolFrame
<1>4. broken' \in SUBSET (Nat \X Paths)
  BY <1>1
<1>5. Types'
  BY <1>2, <1>3, <1>4 DEF BaseInv, Types
<1>6. InOrder(manifests', Listed') /\ \A m \in DOMAIN manifests' : manifests'[m].turn \in 1..Len(start)
  BY Rewritten
<1>7. BoundInv'
  BY <1>6 DEF BaseInv, DataInv, BoundInv
<1>8. ManifestsInv'
  BY <1>6 DEF ManifestsInv
<1>9. ToolInv'
  BY <1>2 DEF ToolInv, Idle
<1> QED BY <1>3, <1>5, <1>7, <1>8, <1>9 DEF DataInv

(* A tool that is not executed.                                             *)
LEMMA NotStartedStep ==
  ASSUME BaseInv, NotStarted
  PROVE  Types' /\ DataInv'
<1>1. tool.pc # "idle" /\ ToolReturns /\ UNCHANGED <<files, manifests, turn, chat, rest, start, broken, mixed>>
  BY DEF NotStarted, hist
<1>2. Listed' = Listed
  BY <1>1 DEF Listed
<1>3. \A m \in DOMAIN manifests : Told(manifests[m], mixed)
  BY DEF BaseInv, DataInv, ManifestsInv
<1> QED BY <1>1, <1>2, <1>3, Returned DEF BaseInv, DataInv, BoundInv, Types

(* The manifest of the tool is written again as v.                          *)
LEMMA Finalized ==
  ASSUME BaseInv, tool.pc = "execute", tool.id # NoManifest, NEW v \in Manifests,
         v.seq = manifests[tool.id].seq, v.turn = turn, v.status # "pending",
         Told(v, mixed),
         manifests' = [manifests EXCEPT ![tool.id] = v]
  PROVE  /\ manifests' \in Seq(Manifests) /\ DOMAIN manifests' = DOMAIN manifests
         /\ \A m \in DOMAIN manifests :
           /\ manifests'[m].seq = manifests[m].seq /\ manifests'[m].turn = manifests[m].turn
           /\ Told(manifests'[m], mixed)
         /\ Listed' \subseteq Listed
<1>1. /\ tool.id \in DOMAIN manifests /\ manifests[tool.id].turn = turn
      /\ manifests[tool.id].status = "pending"
  BY DEF BaseInv, DataInv, ToolInv
<1>2. manifests \in Seq(Manifests)
  BY DEF BaseInv, Types
<1>3. manifests' \in Seq(Manifests) /\ DOMAIN manifests' = DOMAIN manifests
  BY <1>1, <1>2, ManifestsTyped DEF BaseInv
<1>4. \A m \in DOMAIN manifests : manifests'[m] = IF m = tool.id THEN v ELSE manifests[m]
  BY <1>1
<1>5. Listed' \subseteq Listed
  BY <1>1, <1>3, <1>4 DEF Listed
<1>6. ASSUME NEW m \in DOMAIN manifests
      PROVE /\ manifests'[m].seq = manifests[m].seq /\ manifests'[m].turn = manifests[m].turn
            /\ Told(manifests'[m], mixed)
  <2>1. CASE m = tool.id
    BY <1>1, <1>4, <2>1
  <2>2. CASE m # tool.id
    BY <1>4, <2>2 DEF BaseInv, DataInv, ManifestsInv
  <2> QED BY <2>1, <2>2
<1> QED BY <1>3, <1>5, <1>6

(* finalize: the manifest tells what changed, or is removed.                *)
LEMMA FinalizeStep ==
  ASSUME BaseInv, Finalize
  PROVE  Types' /\ DataInv'
<1>1. /\ tool.pc = "execute" /\ ToolReturns
      /\ UNCHANGED <<files, turn, chat, rest, start, broken, mixed>> /\ tool \in ToolTypes
  BY TypesAre DEF Finalize, hist, BaseInv
<1>2. /\ start' \in Seq([Paths -> Contents \cup {Unknown}]) /\ Len(start') = Len(start)
      /\ broken' \subseteq (DOMAIN manifests) \X Paths /\ manifests \in Seq(Manifests)
  BY <1>1 DEF BaseInv, DataInv, BoundInv, Types
<1>3. CASE tool.id = NoManifest
  <2>1. manifests' = manifests
    BY <1>3 DEF Finalize
  <2>2. Listed' = Listed
    BY <2>1 DEF Listed
  <2>3. \A m \in DOMAIN manifests : Told(manifests[m], mixed)
    BY DEF BaseInv, DataInv, ManifestsInv
  <2> QED BY <1>1, <1>2, <2>1, <2>2, <2>3, Returned
<1>4. CASE tool.id # NoManifest
  <2> DEFINE old == manifests[tool.id]
             b == [p \in Changed |-> tool.before[p]]
             a == [p \in Changed |-> files[p]]
             v == IF Changed = {} THEN [old EXCEPT !.status = "removed", !.before = NoFiles]
                  ELSE [old EXCEPT !.status = "ready", !.before = b, !.after = a]
  <2>1. /\ tool.id \in DOMAIN manifests /\ old.turn = turn /\ old.status = "pending"
        /\ tool.op = "tool" /\ DOMAIN tool.before = tool.scope
        /\ \A p \in tool.scope : p \in mixed \/ files[p] = tool.before[p] \/ files[p] \in Texts
        /\ DOMAIN old.after = {} /\ old.before = tool.before
    BY <1>1, <1>4 DEF BaseInv, DataInv, ToolInv, ManifestsInv, Told
  <2>2. old \in Manifests /\ Changed \in SUBSET tool.scope /\ tool.scope \in SUBSET Paths
        /\ tool.before \in FileMaps
    BY <1>1, <1>2, <2>1, ManifestIs, ToolIs DEF Changed
  <2>3. a \in FileMaps /\ b \in FileMaps /\ NoFiles \in FileMaps
    BY <2>1, <2>2, Captures, FileMapsAre DEF BaseInv
  <2>4. DOMAIN a = Changed /\ DOMAIN b = Changed /\ \A p \in Changed : a[p] = files[p]
    OBVIOUS
  <2>5. \A p \in Changed : p \in mixed \/ files[p] \in Texts
    BY <2>1 DEF Changed
  <2>6. manifests' = [manifests EXCEPT ![tool.id] = v]
    BY <1>4 DEF Finalize
  <2>7. CASE Changed # {}
    <3> DEFINE w == [old EXCEPT !.status = "ready", !.before = b, !.after = a]
    <3>1. v = w
      BY <2>7
    <3> HIDE DEF a, b, old, v
    <3>2. /\ w \in Manifests /\ w.seq = old.seq /\ w.turn = old.turn /\ w.status = "ready"
          /\ w.before = b /\ w.after = a
      BY <2>2, <2>3 DEF Manifests
    <3> HIDE DEF w
    <3>3. Told(w, mixed)
      BY <2>4, <2>5, <3>2 DEF Told
    <3> QED BY <1>1, <1>2, <1>4, <2>1, <2>4, <2>6, <3>1, <3>2, <3>3, Finalized, Returned DEF old
  <2>8. CASE Changed = {}
    <3> DEFINE w == [old EXCEPT !.status = "removed", !.before = NoFiles]
    <3>1. v = w
      BY <2>8
    <3> HIDE DEF a, b, v
    <3>2. DOMAIN NoFiles = {} /\ NoFiles \in FileMaps
      BY FileMapsAre
    <3>3. /\ w \in Manifests /\ w.seq = old.seq /\ w.turn = old.turn /\ w.status = "removed"
          /\ w.before = NoFiles /\ w.after = old.after
      <4> HIDE DEF old
      <4> QED BY <2>2, <3>2 DEF Manifests
    <3>4. Told(w, mixed)
      BY <2>1, <3>2, <3>3 DEF Told
    <3> HIDE DEF w
    <3> QED BY <1>1, <1>2, <1>4, <2>1, <2>6, <3>1, <3>3, <3>4, Finalized, Returned
  <2> QED BY <2>7, <2>8
<1> QED BY <1>3, <1>4

(* finalize fails: the manifest becomes a barrier, or stays pending.        *)
LEMMA FinalizeFailsStep ==
  ASSUME BaseInv, FinalizeFails
  PROVE  Types' /\ DataInv'
<1>1. /\ tool.pc = "execute" /\ tool.id # NoManifest /\ ToolReturns
      /\ UNCHANGED <<files, turn, chat, rest, mixed>> /\ tool \in ToolTypes
  BY TypesAre DEF FinalizeFails, BaseInv
<1>2. Changed \in SUBSET Paths
  BY <1>1, ToolIs DEF Changed
<1>3. /\ Breaks(Changed) \subseteq (DOMAIN manifests) \X Paths
      /\ Unkept(Changed) \in Seq([Paths -> Contents \cup {Unknown}]) /\ Len(Unkept(Changed)) = Len(start)
      /\ manifests \in Seq(Manifests) /\ start \in Seq([Paths -> Contents \cup {Unknown}])
      /\ broken \subseteq (DOMAIN manifests) \X Paths
  BY <1>2, BreaksTyped DEF BaseInv, DataInv, BoundInv, Types
<1>4. broken' \subseteq (DOMAIN manifests) \X Paths
  BY <1>3 DEF FinalizeFails
<1>5. start' = start \/ start' = Unkept(Changed)
  BY DEF FinalizeFails
<1>6. start' \in Seq([Paths -> Contents \cup {Unknown}]) /\ Len(start') = Len(start)
  BY <1>3, <1>5
<1>7. CASE manifests' = manifests
  <2>1. Listed' = Listed
    BY <1>7 DEF Listed
  <2>2. \A m \in DOMAIN manifests : Told(manifests[m], mixed)
    BY DEF BaseInv, DataInv, ManifestsInv
  <2> QED BY <1>1, <1>3, <1>4, <1>6, <1>7, <2>1, <2>2, Returned
<1>8. CASE manifests' = [manifests EXCEPT ![tool.id] = Barrier(@.seq)]
  <2> DEFINE v == Barrier(manifests[tool.id].seq)
  <2>1. tool.id \in DOMAIN manifests
    BY <1>1 DEF BaseInv, DataInv, ToolInv
  <2>2. v \in Manifests
    BY <1>3, <2>1, ManifestIs, ManifestsTyped DEF BaseInv
  <2>3. v.seq = manifests[tool.id].seq /\ v.turn = turn /\ v.status = "ready" /\ Told(v, mixed)
    BY FileMapsAre DEF Barrier, Told
  <2>4. manifests' = [manifests EXCEPT ![tool.id] = v]
    BY <1>8
  <2> HIDE DEF v
  <2> QED BY <1>1, <1>3, <1>4, <1>6, <2>2, <2>3, <2>4, Finalized, Returned
<1> QED BY <1>7, <1>8 DEF FinalizeFails

(* Every step of a tool.                                                    *)
LEMMA ToolStep ==
  ASSUME BaseInv, ToolNext
  PROVE  BaseInv'
<1>1. HostInv'
  BY HostToolStep DEF BaseInv
<1>2. Types' /\ DataInv'
  BY PrepareStep, PutStep, NotStartedStep, WriteStep, FinalizeStep, FinalizeFailsStep DEF ToolNext
<1>3. tool.pc # "idle" /\ rest' = rest
  BY DEF ToolNext, Prepare, PutPending, PutBarrier, PutNothing, NotStarted, ToolWrites, Finalize,
         FinalizeFails
<1>4. queue' = queue \/ (queue # <<>> /\ queue' = Tail(queue))
  <2>1. queue # <<>>
    BY <1>3, Exclusive DEF BaseInv, HostInv, HeadInv
  <2> QED BY <2>1 DEF ToolNext, Prepare, PutPending, PutBarrier, PutNothing, NotStarted, ToolWrites,
                      Finalize, FinalizeFails, ToolReturns, Finishes
<1>5. RangeInv' /\ RestInv'
  BY <1>3, <1>4, ToolFrame
<1> QED BY <1>1, <1>2, <1>5 DEF BaseInv

-----------------------------------------------------------------------------
(* The turn and the queue.                                                  *)
TurnStep ==
  \/ StartTurn \/ EndTurn \/ AbortCall \/ Compact \/ OtherCalls \/ OtherEnds \/ Enter
  \/ (\E scope \in SUBSET Paths \ {{}} : CallTool("tool", scope))
  \/ CallTool("command", Paths)
  \/ (\E m \in DOMAIN manifests, op \in {"files", "chat"} : RequestRestore(m, op))
  \/ (\E withFiles \in BOOLEAN : RequestEdit(withFiles))

(* The turn and the queue write no file and no manifest.                    *)
LEMMA TurnKeeps ==
  ASSUME TurnStep
  PROVE  /\ UNCHANGED <<files, manifests, broken, mixed>>
         /\ Enter \/ (tool' = tool /\ rest' = rest)
         /\ StartTurn \/ start' = start \/ \E T : start' = Remembered(T, {})
         /\ StartTurn \/ EndTurn \/ Compact \/ start' = start
         /\ StartTurn \/ Compact \/ chat' = chat
         /\ StartTurn \/ EndTurn \/ turn' = turn
         /\ (StartTurn \/ EndTurn \/ Compact) => queue' = queue
  BY DEF TurnStep, StartTurn, EndTurn, AbortCall, Compact, OtherCalls, OtherEnds, Enter, CallTool,
         RequestRestore, RequestEdit, hist

(* The turns that have begun are as many as before.                         *)
LEMMA TurnStarts ==
  ASSUME Types, TurnStep, ~StartTurn
  PROVE  Len(start') = Len(start)
  BY TurnKeeps, RememberedTyped

(* What a step of the turn makes of the queue: an operation is added that    *)
(* may be asked for, the head leaves it, or one is aborted.                 *)
LEMMA TurnQueue ==
  ASSUME BaseInv, TurnStep
  PROVE  \/ queue' = queue
         \/ queue # <<>> /\ queue' = Tail(queue) /\ tool.pc = "idle" /\ rest.pc = "idle"
         \/ \E i \in DOMAIN queue : queue' = Aborted(i)
         \/ \E o \in Ops :
              /\ queue' = Append(queue, o)
              /\ o.op \in {"files", "chat"} => o.target \in DOMAIN manifests
              /\ o.op = "chat" => manifests[o.target].turn \in chat
              /\ o.op = "edit" => Len(start) < MaxTurns
<1>1. CASE StartTurn \/ EndTurn \/ Compact
  BY <1>1 DEF StartTurn, EndTurn, Compact
<1>2. CASE AbortCall
  BY <1>2 DEF AbortCall
<1>3. CASE OtherCalls
  <2>1. [op |-> "other", aborted |-> FALSE] \in Ops
    BY DEF Ops
  <2> QED BY <1>3, <2>1 DEF OtherCalls, Enqueued
<1>4. CASE OtherEnds
  <2>1. started /\ Head(queue).op = "other" /\ queue # <<>>
    BY <1>4 DEF OtherEnds, BaseInv, HostInv, HeadInv
  <2>2. queue[1].op = "other"
    BY <2>1, QueueIs DEF BaseInv, Types
  <2>3. tool.pc = "idle" /\ rest.pc = "idle"
    BY <2>2 DEF BaseInv, HostInv, HeadInv, ToolOps, RestoreOps
  <2> QED BY <1>4, <2>1, <2>3 DEF OtherEnds, Finishes
<1>5. CASE Enter
  BY <1>5 DEF Enter, Starts, BaseInv, HostInv, HeadInv
<1>6. ASSUME NEW scope \in SUBSET Paths, NEW op \in ToolOps, CallTool(op, scope)
      PROVE  \E o \in Ops : queue' = Append(queue, o) /\ o.op \notin {"files", "chat", "edit"}
  <2>1. [op |-> op, scope |-> scope, aborted |-> FALSE] \in Ops
    BY DEF Ops
  <2> QED BY <1>6, <2>1 DEF CallTool, Enqueued, ToolOps
<1>7. ASSUME NEW m \in DOMAIN manifests, NEW op \in {"files", "chat"}, RequestRestore(m, op)
      PROVE  \E o \in Ops :
               /\ queue' = Append(queue, o) /\ o.target \in DOMAIN manifests /\ o.op # "edit"
               /\ o.op = "chat" => manifests[o.target].turn \in chat
  <2>1. [op |-> op, target |-> m, aborted |-> FALSE] \in Ops
    BY TypesAre DEF Ops, RestoreOps, BaseInv
  <2> QED BY <1>7, <2>1 DEF RequestRestore, Enqueued
<1>8. ASSUME NEW b \in BOOLEAN, RequestEdit(b)
      PROVE  \E o \in Ops : queue' = Append(queue, o) /\ o.op = "edit"
                            /\ Len(start) < MaxTurns
  <2>1. [op |-> "edit", target |-> IF b THEN 1 ELSE NoManifest, aborted |-> FALSE] \in Ops
    BY DEF Ops, RestoreOps, NoManifest
  <2> QED BY <1>8, <2>1 DEF RequestEdit, Enqueued
<1>9. CASE \/ \E scope \in SUBSET Paths \ {{}} : CallTool("tool", scope)
           \/ CallTool("command", Paths)
  <2>1. \E o \in Ops : queue' = Append(queue, o) /\ o.op \notin {"files", "chat", "edit"}
    BY <1>6, <1>9 DEF ToolOps
  <2> QED BY <2>1
<1>10. CASE \E m \in DOMAIN manifests, op \in {"files", "chat"} : RequestRestore(m, op)
  <2>1. \E o \in Ops :
               /\ queue' = Append(queue, o) /\ o.target \in DOMAIN manifests /\ o.op # "edit"
               /\ o.op = "chat" => manifests[o.target].turn \in chat
    BY <1>7, <1>10
  <2> QED BY <2>1
<1>11. CASE \E withFiles \in BOOLEAN : RequestEdit(withFiles)
  <2>1. \E o \in Ops : queue' = Append(queue, o) /\ o.op = "edit"
                            /\ Len(start) < MaxTurns
    BY <1>8, <1>11
  <2> QED BY <2>1
<1> QED BY <1>1, <1>2, <1>3, <1>4, <1>5, <1>9, <1>10, <1>11 DEF TurnStep

(* An operation that is aborted only gets a mark.                           *)
LEMMA AbortedIs ==
  ASSUME NEW q \in Seq(Ops), NEW i \in DOMAIN q
  PROVE  LET r == [q EXCEPT ![i].aborted = TRUE] IN
         /\ DOMAIN r = DOMAIN q
         /\ \A j \in DOMAIN q : r[j].op = q[j].op
                                /\ (q[j].op \in RestoreOps => r[j].target = q[j].target)
<1>1. q[i] \in Ops
  OBVIOUS
<1>2. /\ [q[i] EXCEPT !.aborted = TRUE].op = q[i].op
      /\ q[i].op \in RestoreOps => [q[i] EXCEPT !.aborted = TRUE].target = q[i].target
  BY <1>1 DEF Ops, ToolOps, RestoreOps
<1>3. [q EXCEPT ![i].aborted = TRUE] = [q EXCEPT ![i] = [q[i] EXCEPT !.aborted = TRUE]]
  OBVIOUS
<1> QED BY <1>2, <1>3

(* What a restore in the queue asks for is still there.                     *)
LEMMA TurnAsked ==
  ASSUME BaseInv, TurnStep
  PROVE  AskedInv'
<1>0. queue \in Seq(Ops) /\ AskedInv /\ (rest.pc = "idle" => ~Committed)
  BY DEF BaseInv, Types, DataInv, Committed
<1>1. CASE StartTurn \/ Compact
  <2>1. queue' = queue /\ \A i \in DOMAIN queue : queue[i].op \notin RestoreOps
    BY <1>1 DEF StartTurn, Compact, Restoring, RestoreOps
  <2> QED BY <2>1 DEF AskedInv, RestoreOps
<1>2. CASE ~(StartTurn \/ Compact)
  <2>1. UNCHANGED <<manifests, chat>> /\ Len(start') = Len(start)
    BY <1>2, TurnKeeps, TurnStarts DEF BaseInv
  <2>2. Committed' => Committed
    <3>1. CASE rest' = rest
      BY <3>1 DEF Committed
    <3>2. CASE rest' # rest
      <4>1. Enter /\ rest'.pc = "plan"
        BY <3>2, TurnKeeps DEF Enter, NewRestore
      <4> QED BY <4>1 DEF Committed
    <3> QED BY <3>1, <3>2
  <2>a. Committed => Committed'
    <3>1. Enter => rest.pc = "idle"
      BY Exclusive DEF Enter, Starts, BaseInv, HostInv, HeadInv
    <3>2. CASE Enter
      BY <1>0, <3>1, <3>2
    <3>3. CASE ~Enter
      BY <3>3, TurnKeeps DEF Committed
    <3> QED BY <3>2, <3>3
  <2>3. CASE queue' = queue
    BY <1>0, <2>1, <2>a, <2>3 DEF AskedInv
  <2>4. CASE queue # <<>> /\ queue' = Tail(queue) /\ tool.pc = "idle" /\ rest.pc = "idle"
    <3>1. \A i \in DOMAIN queue' : i + 1 \in DOMAIN queue /\ queue'[i] = queue[i + 1]
      BY <1>0, <2>4, QueueIs
    <3> QED BY <1>0, <2>1, <2>a, <3>1 DEF AskedInv
  <2>5. ASSUME NEW i \in DOMAIN queue, queue' = Aborted(i) PROVE AskedInv'
    <3>1. /\ DOMAIN queue' = DOMAIN queue
          /\ \A j \in DOMAIN queue : queue'[j].op = queue[j].op
                                /\ (queue[j].op \in RestoreOps => queue'[j].target = queue[j].target)
      BY <1>0, <2>5, AbortedIs DEF Aborted
    <3> QED BY <1>0, <2>1, <2>a, <3>1 DEF AskedInv, RestoreOps
  <2>6. ASSUME NEW o \in Ops, queue' = Append(queue, o),
               o.op \in {"files", "chat"} => o.target \in DOMAIN manifests,
               o.op = "chat" => manifests[o.target].turn \in chat,
               o.op = "edit" => Len(start) < MaxTurns
        PROVE  AskedInv'
    <3>1. /\ DOMAIN queue = 1..Len(queue) /\ DOMAIN queue' = 1..(Len(queue) + 1) /\ Len(queue) \in Nat
          /\ queue'[Len(queue) + 1] = o /\ \A i \in DOMAIN queue : queue'[i] = queue[i]
      BY <1>0, <2>6, QueueIs
    <3>2. \A i \in DOMAIN queue' : i \in DOMAIN queue \/ queue'[i] = o
      BY <3>1
    <3> QED BY <1>0, <2>1, <2>6, <2>a, <3>1, <3>2 DEF AskedInv
  <2> QED BY <2>3, <2>4, <2>5, <2>6, TurnQueue
<1> QED BY <1>1, <1>2

(* The turn and the queue keep the invariants of the data.                  *)
LEMMA TurnData ==
  ASSUME BaseInv, TurnStep
  PROVE  DataInv'
<1>0. start \in Seq([Paths -> Contents \cup {Unknown}]) /\ Len(start) \in Nat /\ files \in [Paths -> Contents]
  BY TypesAre DEF BaseInv, Types
<1>1. UNCHANGED <<files, manifests, broken, mixed>>
  BY TurnKeeps
<1>2. BoundInv'
  <2>1. CASE StartTurn
    <3>1. Len(start') = Len(start) + 1
      <4>1. files \in [Paths -> Contents \cup {Unknown}]
        BY <1>0
      <4> QED BY <1>0, <2>1, <4>1 DEF StartTurn
    <3>2. turn' = Len(start) + 1 /\ chat' = chat \cup {turn'} /\ Len(start) < MaxTurns
      BY <2>1 DEF StartTurn
    <3>3. MaxTurns \in Nat
      BY BoundsAssumption
    <3>4. Len(start') <= MaxTurns /\ turn' \in {NoTurn, Len(start')}
      BY <1>0, <3>1, <3>2, <3>3
    <3>5. \A t \in 1..Len(start) : t \in 1..Len(start')
      BY <1>0, <3>1
    <3>6. turn' \in 1..Len(start')
      BY <1>0, <3>1, <3>2
    <3>7. chat' \subseteq 1..Len(start')
      BY <3>2, <3>5, <3>6 DEF BaseInv, DataInv, BoundInv
    <3>8. \A m \in DOMAIN manifests' : manifests'[m].turn \in 1..Len(start')
      BY <1>1, <3>5 DEF BaseInv, DataInv, BoundInv
    <3>9. broken' \subseteq (DOMAIN manifests') \X Paths
      BY <1>1 DEF BaseInv, DataInv, BoundInv
    <3> QED BY <3>4, <3>7, <3>8, <3>9 DEF BoundInv
  <2>2. CASE ~StartTurn
    <3>1. turn' = turn \/ turn' = NoTurn
      BY <2>2, TurnKeeps DEF EndTurn
    <3>2. chat' = chat \/ chat' = {}
      BY <2>2, TurnKeeps DEF Compact
    <3> QED BY <1>1, <2>2, <3>1, <3>2, TurnStarts DEF BaseInv, DataInv, BoundInv
  <2> QED BY <2>1, <2>2
<1>3. ManifestsInv'
  BY <1>1 DEF BaseInv, DataInv, ManifestsInv, InOrder, Listed, Told
<1>4. ToolInv'
  <2>1. CASE Enter
    <3>1. tool.pc = "idle" /\ turn' = turn
      BY <2>1, Exclusive DEF Enter, Starts, BaseInv, HostInv, HeadInv
    <3>2. tool' = tool \/ (tool'.pc = "prepare" /\ tool'.id = NoManifest /\ ~tool'.kept
                             /\ tool'.todo = tool'.scope)
      BY <2>1 DEF Enter
    <3> QED BY <3>1, <3>2 DEF ToolInv
  <2>2. CASE StartTurn \/ EndTurn
    <3>1. tool.pc = "idle"
      BY <2>2, Exclusive DEF StartTurn, EndTurn, BaseInv
    <3>2. tool' = tool
      BY <2>2 DEF StartTurn, EndTurn
    <3> QED BY <3>1, <3>2 DEF ToolInv
  <2>3. CASE ~(StartTurn \/ EndTurn \/ Enter)
    <3>1. UNCHANGED <<tool, turn>> /\ Listed' = Listed
      BY <1>1, <2>3, TurnKeeps DEF Listed
    <3> QED BY <1>1, <3>1 DEF BaseInv, DataInv, ToolInv
  <2> QED BY <2>1, <2>2, <2>3
<1> QED BY <1>2, <1>3, <1>4, TurnAsked DEF DataInv

(* The restore that runs sees none of these steps.                          *)
LEMMA TurnRest ==
  ASSUME BaseInv, TurnStep
  PROVE  RangeInv' /\ RestInv'
<1>0. UNCHANGED <<files, manifests>> /\ DOMAIN NoFiles = {} /\ queue \in Seq(Ops)
  BY TurnKeeps, FileMapsAre DEF BaseInv, Types
<1>1. CASE rest'.pc = "idle"
  BY <1>1 DEF RangeInv, RestInv, RestoreInv, UndoneManifests, UndoneFiles, UndoneChat
<1>2. CASE rest'.pc # "idle" /\ rest' = rest
  <2>1. rest.pc # "idle" /\ 1 \in DOMAIN queue /\ started /\ queue[1].op \in RestoreOps
    BY <1>2, Exclusive DEF BaseInv, HostInv, HeadInv
  <2>2. ~(StartTurn \/ Compact)
    BY <2>1 DEF StartTurn, Compact, Restoring, RestoreOps
  <2>3. chat' = chat
    BY <2>2, TurnKeeps
  <2>4. queue'[1].op = queue[1].op /\ queue'[1].target = queue[1].target
    <3>1. ASSUME NEW i \in DOMAIN queue, queue' = Aborted(i)
          PROVE queue'[1].op = queue[1].op /\ queue'[1].target = queue[1].target
      BY <1>0, <2>1, <3>1, AbortedIs DEF Aborted
    <3>2. ASSUME NEW o \in Ops, queue' = Append(queue, o) PROVE queue'[1] = queue[1]
      BY <1>0, <2>1, <3>2, QueueIs
    <3> QED BY <2>1, <3>1, <3>2, TurnQueue
  <2>5. RangeSet' = RangeSet
    BY <1>2 DEF RangeSet
  <2>6. RangeInv'
    BY <1>0, <1>2, <2>1, <2>5 DEF BaseInv, RangeInv, Writes, PathsOf, Touched
  <2>7. RestoreInv' /\ UndoneManifests' /\ UndoneChat'
    BY <1>0, <1>2, <2>1, <2>3, <2>4, <2>5
       DEF BaseInv, RestInv, RestoreInv, UndoneManifests, UndoneChat, Committed
  <2>8. UndoneFiles'
    BY <1>0, <1>2, <2>1, <2>5
       DEF BaseInv, RestInv, UndoneFiles, Committed, FirstTouch, PathsOf, Touched
  <2> QED BY <2>6, <2>7, <2>8 DEF RestInv
<1>3. CASE rest' # rest
  <2>1. Enter
    BY <1>3, TurnKeeps
  <2>2. /\ rest' = NewRestore(Head(queue)) /\ started' /\ queue # <<>> /\ Head(queue).op \in RestoreOps
        /\ ~started
    BY <1>3, <2>1 DEF Enter, Starts, RestoreOps
  <2>3. queue' = queue
    BY <2>1, <2>2 DEF Enter, Starts
  <2>4. Head(queue) = queue'[1]
    BY <1>0, <2>2, <2>3, QueueIs
  <2>5. /\ rest'.pc = "plan" /\ rest'.op = queue'[1].op /\ rest'.target = queue'[1].target
        /\ rest'.turn = NoTurn /\ rest'.range = {} /\ rest'.safety = NoFiles /\ rest'.why = "none"
        /\ rest'.clean /\ rest'.meddled = {}
    BY <2>2, <2>4 DEF NewRestore
  <2>6. RangeSet' = {}
    BY <2>5 DEF RangeSet
  <2>7. RangeInv'
    BY <1>0, <2>5, <2>6 DEF RangeInv, PathsOf
  <2>8. RestInv'
    BY <2>5, <2>6
       DEF RestInv, RestoreInv, UndoneManifests, UndoneFiles, UndoneChat, Committed
  <2> QED BY <2>7, <2>8
<1> QED BY <1>1, <1>2, <1>3

(* Every step of the turn and of the queue.                                 *)
LEMMA TurnSteps ==
  ASSUME BaseInv, TurnStep
  PROVE  BaseInv'
<1>1. Types'
  BY TurnTypes DEF BaseInv, TurnStep
<1>2. HostInv'
  BY HostStep DEF BaseInv, Next, TurnStep
<1> QED BY <1>1, <1>2, TurnData, TurnRest DEF BaseInv

-----------------------------------------------------------------------------
(* Someone else.                                                            *)
LEMMA PathsAre ==
  ASSUME Types, NEW M \in SUBSET DOMAIN manifests
  PROVE  /\ PathsOf(M) \in SUBSET Paths
         /\ \A m \in M : Touched(m) \in SUBSET Paths /\ Touched(m) \subseteq PathsOf(M)
<1>1. ASSUME NEW m \in M PROVE Touched(m) \in SUBSET Paths
  BY ManifestIs, FileMapsAre DEF Types, Touched
<1> QED BY <1>1 DEF PathsOf

(* The fields of the restore.                                               *)
LEMMA RestIs ==
  ASSUME NEW r \in RestTypes
  PROVE  /\ \A P \in SUBSET Paths : [r EXCEPT !.meddled = P] \in RestTypes
         /\ \A d \in Todos :
              /\ [r EXCEPT !.todo = d] \in RestTypes
              /\ [r EXCEPT !.pc = "apply", !.todo = d] \in RestTypes
              /\ [r EXCEPT !.pc = "invalidate", !.todo = d] \in RestTypes
         /\ \A d \in Todos, w \in {"conflict", "error"} :
              [r EXCEPT !.pc = "undo", !.why = w, !.todo = d] \in RestTypes
         /\ \A d \in Todos, b \in BOOLEAN : [r EXCEPT !.todo = d, !.clean = b] \in RestTypes
         /\ \A b \in BOOLEAN :
              /\ [r EXCEPT !.pc = "done", !.why = "unknown", !.clean = b] \in RestTypes
              /\ [r EXCEPT !.pc = "done", !.clean = b] \in RestTypes
         /\ [r EXCEPT !.pc = "done", !.why = "refused"] \in RestTypes
         /\ [r EXCEPT !.pc = "commit"] \in RestTypes /\ [r EXCEPT !.pc = "done"] \in RestTypes
         /\ \A pc \in {"commit", "validate"}, t \in Nat, R \in SUBSET Nat, f \in FileMaps, d \in Todos :
              [r EXCEPT !.pc = pc, !.turn = t, !.range = R, !.safety = f, !.todo = d] \in RestTypes
<1> USE DEF RestTypes
<1>1. \A P \in SUBSET Paths : [r EXCEPT !.meddled = P] \in RestTypes
  OBVIOUS
<1>2. \A d \in Todos :
        /\ [r EXCEPT !.todo = d] \in RestTypes
        /\ [r EXCEPT !.pc = "apply", !.todo = d] \in RestTypes
        /\ [r EXCEPT !.pc = "invalidate", !.todo = d] \in RestTypes
  OBVIOUS
<1>3. \A d \in Todos, w \in {"conflict", "error"} :
        [r EXCEPT !.pc = "undo", !.why = w, !.todo = d] \in RestTypes
  OBVIOUS
<1>4. \A d \in Todos, b \in BOOLEAN : [r EXCEPT !.todo = d, !.clean = b] \in RestTypes
  OBVIOUS
<1>5. \A b \in BOOLEAN :
        /\ [r EXCEPT !.pc = "done", !.why = "unknown", !.clean = b] \in RestTypes
        /\ [r EXCEPT !.pc = "done", !.clean = b] \in RestTypes
  OBVIOUS
<1>6. /\ [r EXCEPT !.pc = "done", !.why = "refused"] \in RestTypes
      /\ [r EXCEPT !.pc = "commit"] \in RestTypes /\ [r EXCEPT !.pc = "done"] \in RestTypes
  OBVIOUS
<1>7. \A pc \in {"commit", "validate"}, t \in Nat, R \in SUBSET Nat, f \in FileMaps, d \in Todos :
        [r EXCEPT !.pc = pc, !.turn = t, !.range = R, !.safety = f, !.todo = d] \in RestTypes
  OBVIOUS
<1> HIDE DEF RestTypes
<1> QED BY <1>1, <1>2, <1>3, <1>4, <1>5, <1>6, <1>7

(* Someone else writes a file: the restore that runs is told.               *)
LEMMA OutsideStep ==
  ASSUME BaseInv, NEW p \in Paths, NEW c \in Contents, Outside(p, c)
  PROVE  BaseInv'
<1>1. /\ UNCHANGED <<queue, started, manifests, turn, call, chat, tool>>
      /\ files' = [files EXCEPT ![p] = c] /\ start' = Unkept({p}) /\ broken' = broken \cup Breaks({p})
  BY DEF Outside
<1>2. /\ Breaks({p}) \in SUBSET (Nat \X Paths) /\ Breaks({p}) \subseteq (DOMAIN manifests) \X Paths
      /\ start' \in Seq([Paths -> Contents \cup {Unknown}]) /\ Len(start') = Len(start)
  BY <1>1, BreaksTyped DEF BaseInv
<1>3. files' \in [Paths -> Contents] /\ \A q \in Paths : q # p => files'[q] = files[q]
  BY <1>1 DEF BaseInv, Types
<1>4. mixed' \in SUBSET Paths /\ mixed \subseteq mixed'
      /\ (tool.pc \in {"put", "execute"} /\ p \in tool.scope => p \in mixed')
  BY DEF Outside, BaseInv, Types
<1>5. HostInv'
  BY HostStep DEF BaseInv, Next
<1>6. /\ rest.pc \in {"idle", "plan"} => rest' = rest
      /\ rest.pc \notin {"idle", "plan"} =>
           /\ rest' \in RestTypes /\ rest \in RestTypes
           /\ rest' = [rest EXCEPT !.meddled = rest.meddled \cup {p}]
  <2>1. rest.pc \in {"idle", "plan"} => rest' = rest
    BY DEF Outside
  <2>2. ASSUME rest.pc \notin {"idle", "plan"}
        PROVE  /\ rest' \in RestTypes /\ rest \in RestTypes
               /\ rest' = [rest EXCEPT !.meddled = rest.meddled \cup {p}]
    <3>1. rest \in RestTypes
      BY <2>2, TypesAre DEF BaseInv
    <3>2. rest' = [rest EXCEPT !.meddled = rest.meddled \cup {p}]
      BY <2>2 DEF Outside
    <3>3. rest.meddled \cup {p} \in SUBSET Paths
      BY <3>1 DEF RestTypes
    <3> QED BY <3>1, <3>2, <3>3, RestIs
  <2> QED BY <2>1, <2>2
<1>7. Types'
  BY <1>1, <1>2, <1>3, <1>4, <1>6 DEF BaseInv, Types
<1>8. Committed' = Committed
  BY <1>6 DEF Committed, RestTypes
<1>9. BoundInv' /\ AskedInv'
  BY <1>1, <1>2, <1>8 DEF BaseInv, DataInv, BoundInv, AskedInv
<1>10. ManifestsInv'
  BY <1>1, <1>4 DEF BaseInv, DataInv, ManifestsInv, InOrder, Listed, Told
<1>11. ToolInv'
  <2>1. tool.pc # "idle" => tool.scope \in SUBSET Paths /\ tool.pc \in {"prepare", "put", "execute"}
    BY ToolIs, TypesAre DEF BaseInv
  <2>2. Listed' = Listed
    BY <1>1 DEF Listed
  <2> QED BY <1>1, <1>3, <1>4, <2>1, <2>2 DEF BaseInv, DataInv, ToolInv
<1>12. RangeInv' /\ RestInv'
  <2>1. CASE rest.pc = "idle"
    <3>1. rest'.pc = "idle"
      BY <1>6, <2>1
    <3> QED BY <3>1 DEF RangeInv, RestInv, RestoreInv, UndoneManifests, UndoneFiles, UndoneChat
  <2>2. CASE rest.pc = "plan"
    <3>1. rest' = rest /\ RangeSet' = RangeSet /\ RangeSet = {}
      BY <1>6, <2>2 DEF RangeSet, BaseInv, RestInv, RestoreInv
    <3>2. RangeInv'
      BY <1>1, <2>2, <3>1 DEF BaseInv, RangeInv, PathsOf
    <3> QED BY <1>1, <2>2, <3>1, <3>2
            DEF BaseInv, RestInv, RestoreInv, UndoneManifests, UndoneFiles, UndoneChat, Committed
  <2>3. CASE rest.pc \notin {"idle", "plan"}
    <3>1. /\ rest'.pc = rest.pc /\ rest'.op = rest.op /\ rest'.target = rest.target
          /\ rest'.turn = rest.turn /\ rest'.range = rest.range /\ rest'.safety = rest.safety
          /\ rest'.todo = rest.todo /\ rest'.why = rest.why /\ rest'.clean = rest.clean
          /\ rest'.meddled = rest.meddled \cup {p}
      BY <1>6, <2>3 DEF RestTypes
    <3>2. RangeSet' = RangeSet /\ RangeSet \subseteq DOMAIN manifests
      BY <2>3, <3>1 DEF RangeSet, BaseInv, RangeInv
    <3>3. RangeInv'
      BY <1>1, <2>3, <3>1, <3>2 DEF BaseInv, RangeInv, Writes, PathsOf, Touched
    <3>4. RestoreInv' /\ UndoneManifests' /\ UndoneChat'
      BY <1>1, <2>3, <3>1, <3>2
         DEF BaseInv, RestInv, RestoreInv, UndoneManifests, UndoneChat, Committed
    <3>5. \A m \in RangeSet : Touched(m) \in SUBSET Paths
      BY <3>2, PathsAre DEF BaseInv
    <3>6. PathsOf(RangeSet) \in SUBSET Paths /\ PathsOf(RangeSet)' = PathsOf(RangeSet)
      BY <1>1, <3>2, PathsAre DEF BaseInv, PathsOf, Touched
    <3>7. UndoneFiles'
      <4>1. \A m \in RangeSet : Touched(m)' = Touched(m) /\ manifests'[m] = manifests[m]
        BY <1>1 DEF Touched
      <4>2. \A m \in RangeSet, q \in Paths : FirstTouch(m, q)' => FirstTouch(m, q)
        BY <3>2, <4>1 DEF FirstTouch
      <4> QED BY <1>1, <1>3, <1>8, <2>3, <3>1, <3>2, <3>5, <3>6, <4>1, <4>2
              DEF BaseInv, RestInv, UndoneFiles
    <3> QED BY <3>3, <3>4, <3>7 DEF RestInv
  <2> QED BY <2>1, <2>2, <2>3
<1> QED BY <1>5, <1>7, <1>9, <1>10, <1>11, <1>12 DEF BaseInv, DataInv

(* The process dies: nobody is in the critical section any more.            *)
LEMMA CrashStep ==
  ASSUME BaseInv, Crash
  PROVE  BaseInv'
<1> DEFINE wrote == IF tool.pc = "execute" /\ tool.id # NoManifest
               THEN tool.scope \ tool.todo ELSE {}
           half == IF rest.pc \in {"idle", "plan"} THEN {} ELSE PathsOf(RangeSet)
<1>1. /\ queue' = <<>> /\ started' = FALSE /\ turn' = NoTurn /\ call' = FALSE
      /\ tool' = Idle /\ rest' = Idle
      /\ broken' = broken \cup Breaks(wrote) \cup ((DOMAIN manifests) \X half)
      /\ start' = Remembered(Reachable, wrote \cup half)
      /\ UNCHANGED <<files, manifests, chat, mixed>>
  BY DEF Crash
<1>2. wrote \in SUBSET Paths
  BY ToolIs, TypesAre DEF BaseInv
<1>3. half \in SUBSET Paths
  <2>1. RangeSet \subseteq DOMAIN manifests
    BY DEF RangeSet, BaseInv, RangeInv
  <2> QED BY <2>1, PathsAre DEF BaseInv
<1> HIDE DEF wrote, half
<1>4. /\ start' \in Seq([Paths -> Contents \cup {Unknown}]) /\ Len(start') = Len(start)
      /\ Breaks(wrote) \subseteq (DOMAIN manifests) \X Paths
  BY <1>1, <1>2, RememberedTyped, BreaksTyped DEF BaseInv
<1>5. broken' \subseteq (DOMAIN manifests) \X Paths /\ DOMAIN manifests \subseteq Nat
  BY <1>1, <1>3, <1>4, TypesAre DEF BaseInv, DataInv, BoundInv
<1>6. Types'
  <2>1. broken' \in SUBSET (Nat \X Paths)
    BY <1>5
  <2>2. <<>> \in Seq(Ops) /\ NoTurn \in Nat
    BY DEF NoTurn
  <2> QED BY <1>1, <1>4, <2>1, <2>2 DEF BaseInv, Types
<1>7. HostInv'
  BY HostStep DEF BaseInv, Next
<1>8. BoundInv'
  BY <1>1, <1>4, <1>5 DEF BaseInv, DataInv, BoundInv
<1>9. ManifestsInv' /\ AskedInv' /\ ToolInv'
  BY <1>1 DEF BaseInv, DataInv, ManifestsInv, InOrder, Listed, Told, AskedInv, ToolInv, Idle
<1>10. RangeInv' /\ RestInv'
  BY <1>1 DEF RangeInv, RestInv, RestoreInv, UndoneManifests, UndoneFiles, UndoneChat, Idle
<1> QED BY <1>6, <1>7, <1>8, <1>9, <1>10 DEF BaseInv, DataInv

-----------------------------------------------------------------------------
(* The restore.                                                             *)
LEMMA RestoreRuns ==
  ASSUME BaseInv, rest.pc # "idle"
  PROVE  /\ rest \in RestTypes /\ RestTyped(rest) /\ tool.pc = "idle" /\ turn = NoTurn /\ ~call
         /\ queue \in Seq(Ops) /\ 1 \in DOMAIN queue /\ queue[1].op \in RestoreOps /\ queue # <<>>
         /\ RangeSet = rest.range /\ RangeSet \in SUBSET DOMAIN manifests /\ RangeSet \subseteq Listed
         /\ PathsOf(RangeSet) \in SUBSET Paths /\ InOrder(manifests, RangeSet)
         /\ \A m \in RangeSet : Touched(m) \in SUBSET Paths /\ Touched(m) \subseteq PathsOf(RangeSet)
         /\ manifests \in Seq(Manifests) /\ files \in [Paths -> Contents]
         /\ DOMAIN manifests = 1..Len(manifests) /\ Len(manifests) \in Nat
         /\ DOMAIN rest.safety = PathsOf(RangeSet) /\ rest.safety \in [PathsOf(RangeSet) -> Contents]
<1>1. /\ rest \in RestTypes /\ RestTyped(rest) /\ tool.pc = "idle" /\ turn = NoTurn /\ ~call
      /\ manifests \in Seq(Manifests) /\ files \in [Paths -> Contents]
      /\ DOMAIN manifests = 1..Len(manifests) /\ Len(manifests) \in Nat /\ queue \in Seq(Ops)
  BY TypesAre, Exclusive DEF BaseInv, Types
<1>2. 1 \in DOMAIN queue /\ queue[1].op \in RestoreOps /\ queue # <<>>
  BY Exclusive DEF BaseInv, HostInv, HeadInv
<1>3. RangeSet = rest.range /\ RangeSet \in SUBSET DOMAIN manifests
  BY DEF RangeSet, BaseInv, RangeInv
<1>4. RangeSet \subseteq Listed
  BY <1>3 DEF Listed, BaseInv, RestInv, RestoreInv
<1>5. InOrder(manifests, RangeSet)
  BY <1>4 DEF InOrder, BaseInv, DataInv, ManifestsInv
<1>6. /\ PathsOf(RangeSet) \in SUBSET Paths
      /\ \A m \in RangeSet : Touched(m) \in SUBSET Paths /\ Touched(m) \subseteq PathsOf(RangeSet)
  BY <1>3, PathsAre DEF BaseInv
<1>7. DOMAIN rest.safety = PathsOf(RangeSet)
  BY DEF BaseInv, RangeInv
<1>8. rest.safety \in [PathsOf(RangeSet) -> Contents]
  BY <1>1, <1>7, FileMapsAre DEF RestTyped
<1> QED BY <1>1, <1>2, <1>3, <1>4, <1>5, <1>6, <1>7, <1>8

(* Steps that leave the manifests and the conversation alone.               *)
LEMMA RestFrame ==
  ASSUME BaseInv, rest.pc # "idle", rest.pc # "done", rest' \in RestTypes,
         files' \in [Paths -> Contents],
         UNCHANGED <<queue, started, manifests, turn, call, chat, tool, start, broken, mixed>>
  PROVE  Types' /\ DataInv'
<1>1. ~Committed /\ tool.pc = "idle"
  BY RestoreRuns DEF Committed
<1>2. Types'
  BY DEF BaseInv, Types
<1>3. AskedInv'
  BY <1>1 DEF BaseInv, DataInv, AskedInv
<1>4. BoundInv' /\ ManifestsInv'
  BY DEF BaseInv, DataInv, BoundInv, ManifestsInv, InOrder, Listed, Told
<1>5. ToolInv'
  BY <1>1 DEF ToolInv
<1> QED BY <1>2, <1>3, <1>4, <1>5 DEF DataInv

(* What a restore still has to do keeps its type.                           *)
LEMMA TodosAre ==
  ASSUME BaseInv, rest.pc # "idle"
  PROVE  /\ Writes \in Todos /\ RangeSet \in Todos /\ DOMAIN rest.safety \in Todos /\ {} \in Todos
         /\ rest.todo \in Todos
         /\ rest.pc = "validate" => \A w : rest.todo \ {w} \in Todos
         /\ rest.pc = "apply" => \A w : rest.todo \ {w} \in Todos
         /\ rest.pc = "invalidate" => \A w : rest.todo \ {w} \in Todos
         /\ rest.pc = "undo" => \A w : rest.todo \ {w} \in Todos
<1>1. Writes \in SUBSET (Nat \X Paths)
  BY RestoreRuns DEF Writes
<1>2. RangeSet \in SUBSET Nat /\ DOMAIN rest.safety \in SUBSET Paths
  BY RestoreRuns
<1>3. rest.todo \in Todos
  BY RestoreRuns DEF RestTyped
<1>4. /\ rest.pc = "validate" => rest.todo \subseteq DOMAIN rest.safety
      /\ rest.pc = "apply" => rest.todo \subseteq Writes
      /\ rest.pc = "invalidate" => rest.todo \subseteq RangeSet
      /\ rest.pc = "undo" => rest.todo \subseteq DOMAIN rest.safety
  BY DEF BaseInv, RangeInv
<1> HIDE DEF Writes
<1>5. rest.pc = "apply" => \A w : rest.todo \ {w} \in SUBSET (Nat \X Paths)
  BY <1>1, <1>4
<1>6. rest.pc = "invalidate" => \A w : rest.todo \ {w} \in SUBSET Nat
  BY <1>2, <1>4
<1>7. rest.pc \in {"validate", "undo"} => \A w : rest.todo \ {w} \in SUBSET Paths
  BY <1>2, <1>4
<1>8. /\ \A x \in SUBSET (Nat \X Paths) : x \in Todos
      /\ \A x \in SUBSET Nat : x \in Todos
      /\ \A x \in SUBSET Paths : x \in Todos
  BY DEF Todos
<1>9. {} \in Todos
  BY <1>8
<1> QED BY <1>1, <1>2, <1>3, <1>5, <1>6, <1>7, <1>8, <1>9

(* The plan.                                                                *)
LEMMA RangeOfIs ==
  ASSUME NEW op, NEW m, NEW first
  PROVE  RangeOf(op, m, first) = Refused \/ RangeOf(op, m, first) \subseteq Complete
  BY DEF RangeOf, EditScope

(* planRestore and captureSafety.                                           *)
LEMMA PlanStep ==
  ASSUME BaseInv, Plan
  PROVE  Types' /\ DataInv' /\ RangeInv' /\ RestInv'
<1>0. PICK t \in Roots :
        LET R == RangeOf(rest.op, rest.target, t)
        IN  rest' = IF R = Refused THEN [rest EXCEPT !.pc = "done", !.why = "refused"]
                    ELSE [rest EXCEPT !.pc = IF R = {} THEN "commit" ELSE "validate",
                            !.turn = t, !.range = R, !.safety = [p \in PathsOf(R) |-> files[p]],
                            !.todo = IF R = {} THEN {} ELSE Validated(R)]
  BY DEF Plan
<1> DEFINE R == RangeOf(rest.op, rest.target, t)
           s == [p \in PathsOf(R) |-> files[p]]
           d == IF R = {} THEN {} ELSE Validated(R)
<1>1. /\ rest.pc = "plan" /\ UNCHANGED <<queue, started, files, manifests, turn, call, chat, tool,
                                       start, broken, mixed>>
      /\ rest' = IF R = Refused THEN [rest EXCEPT !.pc = "done", !.why = "refused"]
                 ELSE [rest EXCEPT !.pc = IF R = {} THEN "commit" ELSE "validate",
                                   !.turn = t, !.range = R, !.safety = s, !.todo = d]
  BY <1>0 DEF Plan, hist
<1>2. /\ rest \in RestTypes /\ files \in [Paths -> Contents]
      /\ RangeSet = rest.range /\ RestTyped(rest) /\ rest.range = {} /\ rest.meddled = {} /\ rest.turn = NoTurn
      /\ rest.why = "none" /\ rest.clean /\ rest.op = queue[1].op /\ rest.target = queue[1].target
      /\ 1 \in DOMAIN queue /\ ~Committed
  BY <1>1, RestoreRuns DEF BaseInv, RestInv, RestoreInv, Committed
<1>3. R # Refused => R \subseteq Complete
  BY RangeOfIs
<1>4. (rest.op # "files" => t \in chat) /\ t \in Nat /\ t # NoTurn
  <2>1. CASE rest.op = "edit"
    <3>1. t \in chat /\ chat \subseteq 1..Len(start) /\ Len(start) \in Nat
      BY <2>1, TypesAre DEF BaseInv, DataInv, BoundInv, Roots
    <3> QED BY <2>1, <3>1 DEF NoTurn
  <2>2. CASE rest.op # "edit"
    <3>1. rest.op \in {"files", "chat"}
      BY <1>2, <2>2 DEF RestTyped, RestoreOps
    <3>2. rest.target \in DOMAIN manifests
      BY <1>2, <3>1 DEF BaseInv, DataInv, AskedInv
    <3>3. manifests[rest.target].turn \in 1..Len(start)
      BY <3>2 DEF BaseInv, DataInv, BoundInv
    <3>4. rest.op = "chat" => manifests[rest.target].turn \in chat
      BY <1>2 DEF BaseInv, DataInv, AskedInv
    <3> QED BY <2>2, <3>1, <3>3, <3>4 DEF NoTurn, Roots
  <2> QED BY <2>1, <2>2
<1> HIDE DEF R
<1>5. CASE R = Refused
  <2>1. rest' = [rest EXCEPT !.pc = "done", !.why = "refused"]
    BY <1>1, <1>5
  <2>2. rest' \in RestTypes
    BY <1>2, <2>1, RestIs
  <2>3. /\ rest'.pc = "done" /\ rest'.op = rest.op /\ rest'.target = rest.target /\ rest'.turn = rest.turn
        /\ rest'.range = {} /\ rest'.safety = rest.safety /\ rest'.todo = rest.todo
        /\ rest'.why = "refused" /\ rest'.clean /\ rest'.meddled = {}
    BY <1>2, <2>1 DEF RestTypes
  <2>4. Types' /\ DataInv'
    BY <1>1, <1>2, <2>2, RestFrame
  <2>5. RangeSet' = {} /\ RangeSet = {}
    BY <1>2, <2>3 DEF RangeSet
  <2>6. RangeInv'
    BY <1>1, <2>3, <2>5 DEF BaseInv, RangeInv, PathsOf
  <2>7. RestInv'
    BY <1>1, <1>2, <2>3, <2>5
       DEF RestInv, RestoreInv, UndoneManifests, UndoneFiles, UndoneChat, Committed, PathsOf
  <2> QED BY <2>4, <2>6, <2>7
<1>6. CASE R # Refused
  <2> DEFINE pc == IF R = {} THEN "commit" ELSE "validate"
  <2>0. R \subseteq Complete
    BY <1>3, <1>6
  <2>1. rest' = [rest EXCEPT !.pc = pc, !.turn = t, !.range = R, !.safety = s, !.todo = d]
    BY <1>1, <1>6
  <2>2. pc \in {"commit", "validate"} /\ (pc = "commit" => R = {}) /\ pc # "done" /\ pc # "idle"
    OBVIOUS
  <2>3. R \in SUBSET DOMAIN manifests /\ R \in SUBSET Nat
    BY <2>0, TypesAre DEF BaseInv
  <2>4. s \in FileMaps /\ DOMAIN s = PathsOf(R) /\ d \in Todos /\ d \subseteq PathsOf(R)
    <3>1. PathsOf(R) \in SUBSET Paths
      BY <2>3, PathsAre DEF BaseInv
    <3>2. d \in SUBSET Paths /\ d \subseteq PathsOf(R)
      BY <3>1 DEF Validated
    <3>3. s \in FileMaps /\ DOMAIN s = PathsOf(R)
      BY <3>1, Captures DEF BaseInv
    <3> QED BY <3>2, <3>3 DEF Todos
  <2> HIDE DEF pc, s, d
  <2>5. rest' \in RestTypes
    BY <1>2, <1>4, <2>1, <2>2, <2>3, <2>4, RestIs
  <2>6. /\ rest'.pc = pc /\ rest'.op = rest.op /\ rest'.target = rest.target /\ rest'.turn = t
        /\ rest'.range = R /\ rest'.safety = s /\ rest'.todo = d
        /\ rest'.why = "none" /\ rest'.clean /\ rest'.meddled = {}
    BY <1>2, <2>1 DEF RestTypes
  <2>7. Types' /\ DataInv'
    BY <1>1, <1>2, <2>5, RestFrame
  <2>8. RangeSet' = R
    BY <2>2, <2>6 DEF RangeSet
  <2>9. RangeInv'
    BY <1>1, <2>2, <2>3, <2>4, <2>6, <2>8 DEF RangeInv, PathsOf, Touched
  <2>10. \A m \in R : manifests[m].complete /\ manifests[m].status = "ready"
    BY <2>0 DEF Complete, Ready
  <2>11. RestoreInv' /\ UndoneManifests'
    BY <1>1, <1>2, <1>4, <2>2, <2>6, <2>8, <2>10 DEF RestoreInv, UndoneManifests, Committed
  <2>12. UndoneFiles'
    BY <2>2, <2>6, <2>8 DEF UndoneFiles, Committed
  <2>13. UndoneChat'
    BY <1>1, <1>4, <2>2, <2>6 DEF UndoneChat, Committed
  <2> QED BY <2>7, <2>9, <2>11, <2>12, <2>13 DEF RestInv
<1> QED BY <1>5, <1>6

(* What stays when a step changes the place of the restore, what it still    *)
(* has to do and files, but no manifest.                                    *)
LEMMA RangeKept ==
  ASSUME BaseInv, rest.pc # "idle", rest'.pc # "idle", rest'.range = rest.range,
         rest'.safety = rest.safety, manifests' = manifests,
         rest'.pc = "validate" => rest'.todo \subseteq PathsOf(RangeSet),
         rest'.pc = "apply" => rest'.todo \subseteq Writes,
         rest'.pc = "invalidate" => rest'.todo \subseteq RangeSet,
         rest'.pc = "undo" => rest'.todo \subseteq DOMAIN rest.safety
  PROVE  /\ RangeInv' /\ RangeSet' = RangeSet /\ PathsOf(RangeSet)' = PathsOf(RangeSet)
         /\ \A m \in RangeSet : Touched(m)' = Touched(m) /\ manifests'[m] = manifests[m]
         /\ \A m \in RangeSet, p \in Paths : FirstTouch(m, p)' <=> FirstTouch(m, p)
<1>1. RangeSet' = RangeSet
  BY RestoreRuns DEF RangeSet
<1>2. \A m : Touched(m)' = Touched(m)
  BY DEF Touched
<1>3. PathsOf(RangeSet)' = PathsOf(RangeSet) /\ Writes' = Writes
  BY <1>1, <1>2 DEF PathsOf, Writes
<1>4. RangeInv'
  BY <1>1, <1>3 DEF BaseInv, RangeInv
<1>5. \A m \in RangeSet, p \in Paths : FirstTouch(m, p)' <=> FirstTouch(m, p)
  BY <1>1, <1>2 DEF FirstTouch
<1> QED BY <1>1, <1>2, <1>3, <1>4, <1>5

(* validate: nothing is written yet.                                        *)
LEMMA ValidateStep ==
  ASSUME BaseInv, NEW p \in Paths, Validate(p)
  PROVE  Types' /\ DataInv' /\ RangeInv' /\ RestInv'
<1>1. /\ rest.pc = "validate" /\ UNCHANGED <<queue, started, files, manifests, turn, call, chat, tool,
                                           start, broken, mixed>>
      /\ \/ rest' = [rest EXCEPT !.pc = "apply", !.todo = Writes]
         \/ rest' = [rest EXCEPT !.todo = rest.todo \ {p}]
         \/ rest' = [rest EXCEPT !.pc = "undo", !.why = "conflict", !.todo = DOMAIN rest.safety]
  BY DEF Validate, hist, Undoing
<1>2. rest \in RestTypes /\ files \in [Paths -> Contents] /\ rest.why = "none" /\ rest.clean
  BY <1>1, RestoreRuns DEF BaseInv, RestInv, RestoreInv
<1>3. rest' \in RestTypes
  <2>1. Writes \in Todos /\ rest.todo \ {p} \in Todos /\ DOMAIN rest.safety \in Todos
    BY <1>1, <1>2, TodosAre
  <2>2. /\ [rest EXCEPT !.pc = "apply", !.todo = Writes] \in RestTypes
        /\ [rest EXCEPT !.todo = rest.todo \ {p}] \in RestTypes
        /\ [rest EXCEPT !.pc = "undo", !.why = "conflict", !.todo = DOMAIN rest.safety] \in RestTypes
    BY <1>2, <2>1, RestIs
  <2> QED BY <1>1, <2>2
<1>4. Types' /\ DataInv'
  BY <1>1, <1>2, <1>3, RestFrame
<1>5. /\ rest'.op = rest.op /\ rest'.target = rest.target /\ rest'.turn = rest.turn
      /\ rest'.range = rest.range /\ rest'.safety = rest.safety /\ rest'.meddled = rest.meddled /\ rest'.clean
      /\ \/ rest'.pc = "apply" /\ rest'.why = "none" /\ rest'.todo = Writes
         \/ rest'.pc = "validate" /\ rest'.why = "none" /\ rest'.todo = rest.todo \ {p}
         \/ rest'.pc = "undo" /\ rest'.why = "conflict" /\ rest'.todo = DOMAIN rest.safety
  BY <1>1, <1>2 DEF RestTypes
<1>6. /\ RangeInv' /\ RangeSet' = RangeSet /\ PathsOf(RangeSet)' = PathsOf(RangeSet)
      /\ \A m \in RangeSet : manifests'[m] = manifests[m]
      /\ DOMAIN rest.safety = PathsOf(RangeSet)
  <2>1. rest.todo \subseteq PathsOf(RangeSet)
    BY <1>1 DEF BaseInv, RangeInv
  <2> QED BY <1>1, <1>5, <2>1, RangeKept, RestoreRuns
<1>7. RestoreInv' /\ UndoneManifests' /\ UndoneChat'
  BY <1>1, <1>5, <1>6
     DEF BaseInv, RestInv, RestoreInv, UndoneManifests, UndoneChat, Committed
<1>8. UndoneFiles'
  BY <1>1, <1>5, <1>6 DEF UndoneFiles, Committed
<1> QED BY <1>4, <1>6, <1>7, <1>8 DEF RestInv

(* applyReverse: one file of the last manifest that is not done.            *)
LEMMA ApplyStep ==
  ASSUME BaseInv, NEW m \in RangeSet, NEW p \in Paths, Apply(m, p)
  PROVE  Types' /\ DataInv' /\ RangeInv' /\ RestInv'
<1>1. /\ rest.pc = "apply" /\ <<m, p>> \in rest.todo
      /\ UNCHANGED <<queue, started, manifests, turn, call, chat, tool, start, broken, mixed>>
      /\ rest' = [rest EXCEPT !.todo = rest.todo \ {<<m, p>>}]
      /\ files' = [files EXCEPT ![p] = manifests[m].before[p]]
  BY DEF Apply, hist
<1>2. /\ rest \in RestTypes /\ files \in [Paths -> Contents] /\ manifests \in Seq(Manifests)
      /\ RangeSet \in SUBSET DOMAIN manifests /\ rest.why = "none"
  BY <1>1, RestoreRuns DEF BaseInv, RestInv, RestoreInv
<1>3. rest' \in RestTypes
  BY <1>1, <1>2, RestIs, TodosAre
<1>4. files' \in [Paths -> Contents]
  <2>1. <<m, p>> \in Writes
    BY <1>1 DEF BaseInv, RangeInv
  <2>2. p \in Touched(m)
    BY <2>1 DEF Writes
  <2>3. manifests[m].before \in FileMaps
    BY <1>2, ManifestIs
  <2>4. manifests[m].before[p] \in Contents
    BY <2>2, <2>3, FileMapsAre DEF Touched
  <2> QED BY <1>1, <1>2, <2>4
<1>5. Types' /\ DataInv'
  BY <1>1, <1>3, <1>4, RestFrame
<1>6. /\ rest'.op = rest.op /\ rest'.target = rest.target /\ rest'.turn = rest.turn
      /\ rest'.range = rest.range /\ rest'.safety = rest.safety /\ rest'.meddled = rest.meddled
      /\ rest'.pc = "apply" /\ rest'.why = rest.why /\ rest'.clean = rest.clean
      /\ rest'.todo = rest.todo \ {<<m, p>>}
  BY <1>1, <1>2 DEF RestTypes
<1>7. rest'.todo \subseteq Writes
  BY <1>1, <1>6 DEF BaseInv, RangeInv
<1>8. /\ RangeInv' /\ RangeSet' = RangeSet
      /\ \A n \in RangeSet : manifests'[n] = manifests[n]
  BY <1>1, <1>6, <1>7, RangeKept
<1>9. RestoreInv' /\ UndoneManifests' /\ UndoneChat'
  BY <1>1, <1>6, <1>8
     DEF BaseInv, RestInv, RestoreInv, UndoneManifests, UndoneChat, Committed
<1>10. UndoneFiles'
  BY <1>6 DEF UndoneFiles, Committed
<1> QED BY <1>5, <1>8, <1>9, <1>10 DEF RestInv

(* The first manifest of the range that touched a file tells its original.  *)
LEMMA FirstTouchIs ==
  ASSUME BaseInv, rest.pc # "idle", NEW m \in RangeSet, NEW p \in Touched(m), FirstTouch(m, p)
  PROVE  First(In(RangeSet, p)) = m
<1>1. /\ manifests \in Seq(Manifests) /\ RangeSet \in SUBSET DOMAIN manifests /\ InOrder(manifests, RangeSet)
      /\ DOMAIN manifests \subseteq Nat
  BY RestoreRuns
<1> DEFINE M == In(RangeSet, p)
           f == First(M)
<1>2. M \in SUBSET DOMAIN manifests /\ m \in M /\ M \subseteq RangeSet /\ InOrder(manifests, M)
      /\ \A n \in M : p \in Touched(n)
  BY <1>1 DEF In, InOrder
<1>3. f = CHOOSE x \in M : \A n \in M : manifests[x].seq <= manifests[n].seq
  BY DEF First
<1> HIDE DEF M, f
<1>4. f \in M /\ \A n \in M : f <= n
  BY <1>1, <1>2, <1>3, FirstIs
<1>5. m <= f /\ f <= m /\ m \in Nat /\ f \in Nat
  BY <1>1, <1>2, <1>4 DEF FirstTouch
<1>6. f = m
  BY <1>5
<1> QED BY <1>6 DEF f, M

(* verifyFinal: every file is its original, or the restore is taken back.   *)
LEMMA VerifyStep ==
  ASSUME BaseInv, Verify
  PROVE  Types' /\ DataInv' /\ RangeInv' /\ RestInv'
<1>1. /\ rest.pc = "apply" /\ UNCHANGED <<queue, started, files, manifests, turn, call, chat, tool,
                                           start, broken, mixed>>
      /\ \/ /\ \A p \in PathsOf(RangeSet) : files[p] = Original(p)
            /\ rest' = [rest EXCEPT !.pc = "invalidate", !.todo = rest.range]
         \/ rest' = [rest EXCEPT !.pc = "undo", !.why = "error", !.todo = DOMAIN rest.safety]
  BY DEF Verify, hist, Undoing
<1>2. /\ rest \in RestTypes /\ files \in [Paths -> Contents] /\ rest.why = "none" /\ rest.clean
      /\ rest.range = RangeSet
  BY <1>1, RestoreRuns DEF BaseInv, RestInv, RestoreInv
<1>3. rest' \in RestTypes
  <2>1. rest.range \in Todos /\ DOMAIN rest.safety \in Todos
    BY <1>1, <1>2, TodosAre
  <2>2. /\ [rest EXCEPT !.pc = "invalidate", !.todo = rest.range] \in RestTypes
        /\ [rest EXCEPT !.pc = "undo", !.why = "error", !.todo = DOMAIN rest.safety] \in RestTypes
    BY <1>2, <2>1, RestIs
  <2> QED BY <1>1, <2>2
<1>4. Types' /\ DataInv'
  BY <1>1, <1>2, <1>3, RestFrame
<1>5. /\ rest'.op = rest.op /\ rest'.target = rest.target /\ rest'.turn = rest.turn
      /\ rest'.range = rest.range /\ rest'.safety = rest.safety /\ rest'.meddled = rest.meddled /\ rest'.clean
      /\ \/ /\ rest'.pc = "invalidate" /\ rest'.why = "none" /\ rest'.todo = RangeSet
            /\ \A p \in PathsOf(RangeSet) : files[p] = Original(p)
         \/ rest'.pc = "undo" /\ rest'.why = "error" /\ rest'.todo = DOMAIN rest.safety
  BY <1>1, <1>2 DEF RestTypes
<1>6. /\ RangeInv' /\ RangeSet' = RangeSet /\ PathsOf(RangeSet)' = PathsOf(RangeSet)
      /\ \A m \in RangeSet : Touched(m)' = Touched(m) /\ manifests'[m] = manifests[m]
      /\ \A m \in RangeSet, p \in Paths : FirstTouch(m, p)' <=> FirstTouch(m, p)
      /\ DOMAIN rest.safety = PathsOf(RangeSet)
  BY <1>1, <1>5, RangeKept, RestoreRuns
<1>7. RestoreInv' /\ UndoneManifests' /\ UndoneChat'
  BY <1>1, <1>5, <1>6
     DEF BaseInv, RestInv, RestoreInv, UndoneManifests, UndoneChat, Committed
<1>8. UndoneFiles'
  <2>1. ASSUME NEW m \in RangeSet, NEW p \in Touched(m), FirstTouch(m, p), rest'.pc = "invalidate"
        PROVE  files[p] = manifests[m].before[p]
    <3>1. First(In(RangeSet, p)) = m
      BY <1>1, <2>1, FirstTouchIs
    <3>2. p \in PathsOf(RangeSet)
      BY DEF PathsOf
    <3> QED BY <1>5, <2>1, <3>1, <3>2 DEF Original
  <2>2. \A m \in RangeSet : Touched(m) \in SUBSET Paths
    BY <1>1, RestoreRuns
  <2> QED BY <1>1, <1>5, <1>6, <2>1, <2>2 DEF UndoneFiles, Committed
<1> QED BY <1>4, <1>6, <1>7, <1>8 DEF RestInv

(* The manifests of the range are written with another status.              *)
LEMMA StatusWritten ==
  ASSUME BaseInv, rest.pc # "idle", rest.pc # "done", rest'.pc # "idle", rest' \in RestTypes,
         rest'.range = rest.range, rest'.safety = rest.safety,
         rest'.pc = "invalidate" => rest'.todo \subseteq RangeSet,
         rest'.pc \notin {"validate", "apply", "undo"},
         UNCHANGED <<queue, started, files, turn, call, chat, tool, start, broken, mixed>>,
         DOMAIN manifests' = DOMAIN manifests, manifests' \in Seq(Manifests),
         \A m \in DOMAIN manifests \ RangeSet : manifests'[m] = manifests[m],
         \A m \in RangeSet : /\ manifests'[m].status \in {"ready", "invalidated"}
                             /\ manifests'[m].seq = manifests[m].seq
                             /\ manifests'[m].turn = manifests[m].turn
                             /\ manifests'[m].complete = manifests[m].complete
                             /\ manifests'[m].before = manifests[m].before
                             /\ manifests'[m].after = manifests[m].after
  PROVE  /\ Types' /\ DataInv' /\ RangeInv' /\ RangeSet' = RangeSet
         /\ PathsOf(RangeSet)' = PathsOf(RangeSet)
         /\ \A m \in RangeSet : Touched(m)' = Touched(m)
         /\ \A m \in RangeSet, p \in Paths : FirstTouch(m, p)' <=> FirstTouch(m, p)
<1>0. /\ RangeSet \in SUBSET DOMAIN manifests /\ RangeSet \subseteq Listed /\ tool.pc = "idle"
      /\ RangeSet = rest.range
      /\ \A m \in RangeSet : manifests[m].status \in {"ready", "invalidated"}
  BY RestoreRuns DEF BaseInv, RestInv, RestoreInv
<1>1. RangeSet' = RangeSet
  BY <1>0 DEF RangeSet
<1>2. Types'
  BY DEF BaseInv, Types
<1>3. Listed' = Listed
  BY <1>0 DEF Listed
<1>4. \A m \in DOMAIN manifests : manifests'[m].seq = manifests[m].seq /\ manifests'[m].turn = manifests[m].turn
  OBVIOUS
<1>5. InOrder(manifests', Listed') /\ \A m \in DOMAIN manifests' : manifests'[m].turn \in 1..Len(start)
  BY <1>3, <1>4, Rewritten
<1>6. BoundInv'
  BY <1>5 DEF BaseInv, DataInv, BoundInv
<1>7. ManifestsInv'
  <2>1. \A m \in RangeSet : Told(manifests'[m], mixed)
    BY <1>0 DEF BaseInv, DataInv, ManifestsInv, Told
  <2>2. \A m \in DOMAIN manifests \ RangeSet : Told(manifests'[m], mixed)
    BY DEF BaseInv, DataInv, ManifestsInv
  <2> QED BY <1>5, <2>1, <2>2 DEF ManifestsInv
<1>8. AskedInv'
  BY <1>4 DEF BaseInv, DataInv, AskedInv, Committed
<1>9. ToolInv'
  BY <1>0 DEF ToolInv
<1>10. \A m \in RangeSet : Touched(m)' = Touched(m)
  BY DEF Touched
<1>11. PathsOf(RangeSet)' = PathsOf(RangeSet)
  BY <1>1, <1>10 DEF PathsOf
<1>12. \A m \in RangeSet, p \in Paths : FirstTouch(m, p)' <=> FirstTouch(m, p)
  BY <1>1, <1>10 DEF FirstTouch
<1>13. RangeInv'
  BY <1>0, <1>1, <1>11 DEF BaseInv, RangeInv
<1> QED BY <1>1, <1>2, <1>6, <1>7, <1>8, <1>9, <1>10, <1>11, <1>12, <1>13 DEF DataInv

(* The manifests of the range are invalidated, one by one.                  *)
LEMMA InvalidateStep ==
  ASSUME BaseInv, Invalidate
  PROVE  Types' /\ DataInv' /\ RangeInv' /\ RestInv'
<1>1. /\ rest.pc = "invalidate"
      /\ UNCHANGED <<queue, started, files, turn, call, chat, tool, start, broken, mixed>>
  BY DEF Invalidate, hist
<1>2. /\ rest \in RestTypes /\ files \in [Paths -> Contents] /\ rest.why = "none" /\ rest.clean
      /\ rest.range = RangeSet /\ manifests \in Seq(Manifests) /\ RangeSet \in SUBSET DOMAIN manifests
      /\ rest.todo \subseteq RangeSet /\ rest.turn \in Nat
  BY <1>1, RestoreRuns DEF BaseInv, RestInv, RestoreInv, RangeInv, RestTyped
<1>3. CASE rest.todo = {}
  <2>1. manifests' = manifests /\ rest' = [rest EXCEPT !.pc = "commit"]
    BY <1>3 DEF Invalidate
  <2>2. rest' \in RestTypes
    BY <1>2, <2>1, RestIs
  <2>3. Types' /\ DataInv'
    BY <1>1, <1>2, <2>1, <2>2, RestFrame
  <2>4. /\ rest'.op = rest.op /\ rest'.target = rest.target /\ rest'.turn = rest.turn
        /\ rest'.range = rest.range /\ rest'.safety = rest.safety /\ rest'.meddled = rest.meddled
        /\ rest'.clean = rest.clean /\ rest'.pc = "commit" /\ rest'.why = rest.why /\ rest'.todo = rest.todo
    BY <1>2, <2>1 DEF RestTypes
  <2>5. /\ RangeInv' /\ RangeSet' = RangeSet
        /\ \A m \in RangeSet : Touched(m)' = Touched(m) /\ manifests'[m] = manifests[m]
        /\ \A m \in RangeSet, p \in Paths : FirstTouch(m, p)' <=> FirstTouch(m, p)
    BY <1>1, <2>1, <2>4, RangeKept
  <2>6. rest.turn # NoTurn
    BY <1>1 DEF BaseInv, RestInv, RestoreInv
  <2>7. UndoneManifests'
    BY <1>1, <1>3, <2>4, <2>5 DEF BaseInv, RestInv, UndoneManifests, Committed
  <2>8. UndoneChat'
    BY <1>1, <2>4 DEF BaseInv, RestInv, UndoneChat, Committed
  <2>9. RestoreInv'
    BY <1>1, <1>2, <2>4, <2>5, <2>6 DEF BaseInv, RestInv, RestoreInv, Committed
  <2>10. UndoneFiles'
    <3>1. \A m \in RangeSet : Touched(m) \in SUBSET Paths
      BY <1>1, RestoreRuns
    <3> QED BY <1>1, <2>4, <2>5, <3>1 DEF BaseInv, RestInv, UndoneFiles, Committed
  <2> QED BY <2>3, <2>5, <2>7, <2>8, <2>9, <2>10 DEF RestInv
<1>4. CASE rest.todo # {}
  <2> DEFINE f == First(rest.todo)
  <2>1. /\ manifests' = [manifests EXCEPT ![f].status = "invalidated"]
        /\ rest' = [rest EXCEPT !.todo = rest.todo \ {f}]
    BY <1>4 DEF Invalidate
  <2>2. f \in rest.todo /\ f \in RangeSet /\ f \in DOMAIN manifests
    <3>1. rest.todo \in SUBSET DOMAIN manifests
      BY <1>2
    <3>2. \E m \in rest.todo : \A n \in rest.todo : manifests[m].seq <= manifests[n].seq
      BY <1>2, <1>4, <3>1, FirstOf
    <3>3. f \in rest.todo
      BY <3>2 DEF First
    <3> QED BY <1>2, <3>3
  <2> HIDE DEF f
  <2>3. rest' \in RestTypes
    BY <1>1, <1>2, <2>1, RestIs, TodosAre
  <2>4. /\ rest'.op = rest.op /\ rest'.target = rest.target /\ rest'.turn = rest.turn
        /\ rest'.range = rest.range /\ rest'.safety = rest.safety /\ rest'.meddled = rest.meddled
        /\ rest'.clean = rest.clean /\ rest'.pc = "invalidate" /\ rest'.why = rest.why
        /\ rest'.todo = rest.todo \ {f}
    BY <1>1, <1>2, <2>1 DEF RestTypes
  <2>5. /\ manifests[f] \in Manifests
        /\ \A m \in RangeSet : manifests[m].status \in {"ready", "invalidated"}
    BY <1>1, <1>2, <2>2, ManifestIs DEF BaseInv, RestInv, RestoreInv
  <2> DEFINE w == [manifests[f] EXCEPT !.status = "invalidated"]
  <2>6. /\ w \in Manifests /\ w.status = "invalidated" /\ w.seq = manifests[f].seq
        /\ w.turn = manifests[f].turn /\ w.complete = manifests[f].complete
        /\ w.before = manifests[f].before /\ w.after = manifests[f].after
    BY <2>5 DEF Manifests
  <2>7. manifests' = [manifests EXCEPT ![f] = w]
    BY <2>1
  <2> HIDE DEF w
  <2>8. /\ DOMAIN manifests' = DOMAIN manifests
        /\ \A m \in DOMAIN manifests : manifests'[m] = IF m = f THEN w ELSE manifests[m]
    BY <1>2, <2>2, <2>7
  <2>9. manifests' \in Seq(Manifests)
    BY <2>2, <2>6, <2>7, ManifestsTyped DEF BaseInv
  <2>10. \A m \in DOMAIN manifests \ RangeSet : manifests'[m] = manifests[m]
    BY <2>2, <2>8
  <2>11. \A m \in RangeSet : /\ manifests'[m].status \in {"ready", "invalidated"}
                             /\ manifests'[m].seq = manifests[m].seq
                             /\ manifests'[m].turn = manifests[m].turn
                             /\ manifests'[m].complete = manifests[m].complete
                             /\ manifests'[m].before = manifests[m].before
                             /\ manifests'[m].after = manifests[m].after
    BY <1>2, <2>5, <2>6, <2>8
  <2>12. rest'.todo \subseteq RangeSet
    BY <1>2, <2>4
  <2>13. /\ Types' /\ DataInv' /\ RangeInv' /\ RangeSet' = RangeSet
         /\ \A m \in RangeSet : Touched(m)' = Touched(m)
         /\ \A m \in RangeSet, p \in Paths : FirstTouch(m, p)' <=> FirstTouch(m, p)
    BY <1>1, <2>3, <2>4, <2>8, <2>9, <2>10, <2>11, <2>12, StatusWritten
  <2>14. RestoreInv'
    BY <1>1, <2>4, <2>11, <2>13 DEF BaseInv, RestInv, RestoreInv, Committed
  <2>15. UndoneManifests'
    BY <1>1, <1>2, <2>2, <2>4, <2>6, <2>8, <2>13 DEF BaseInv, RestInv, UndoneManifests, Committed
  <2>16. UndoneChat'
    BY <1>1, <2>4 DEF BaseInv, RestInv, UndoneChat, Committed
  <2>17. UndoneFiles'
    <3>1. \A m \in RangeSet : Touched(m) \in SUBSET Paths
      BY <1>1, RestoreRuns
    <3> QED BY <1>1, <2>4, <2>11, <2>13, <3>1 DEF BaseInv, RestInv, UndoneFiles, Committed
  <2> QED BY <2>13, <2>14, <2>15, <2>16, <2>17 DEF RestInv
<1> QED BY <1>3, <1>4

(* The conversation goes back, the last step that can fail.                 *)
LEMMA CommitStep ==
  ASSUME BaseInv, Commit
  PROVE  Types' /\ DataInv' /\ RangeInv' /\ RestInv'
<1>1. /\ rest.pc = "commit" /\ rest' = [rest EXCEPT !.pc = "done"]
      /\ UNCHANGED <<queue, started, files, manifests, turn, call, tool, broken, mixed>>
      /\ start' = IF rest.op = "edit" THEN Append(start, files) ELSE start
  BY DEF Commit
<1>2. /\ rest \in RestTypes /\ files \in [Paths -> Contents] /\ rest.why = "none" /\ rest.clean
      /\ rest.range = RangeSet /\ rest.op = queue[1].op /\ 1 \in DOMAIN queue /\ turn = NoTurn
      /\ tool.pc = "idle" /\ rest.op \in RestoreOps /\ rest.turn # NoTurn /\ ~Committed
  BY <1>1, RestoreRuns DEF BaseInv, RestInv, RestoreInv, RestTyped, Committed
<1>3. /\ start \in Seq([Paths -> Contents \cup {Unknown}]) /\ Len(start) \in Nat
      /\ chat \subseteq 1..Len(start) /\ rest.turn \in Nat
  BY <1>1, TypesAre, RestoreRuns DEF BaseInv, Types, DataInv, BoundInv, RestTyped
<1>4. /\ rest.op = "files" => chat' = chat
      /\ rest.op # "files" => rest.turn \notin chat'
      /\ chat' \subseteq chat \cup {Len(start) + 1}
      /\ rest.op # "edit" => chat' \subseteq chat
  <2> DEFINE kept == {t \in chat : t < rest.turn}
  <2>1. /\ rest.op = "files" => chat' = chat
        /\ rest.op = "chat" => chat' = kept
        /\ rest.op = "edit" => chat' = kept \cup {Len(start) + 1}
    BY DEF Commit
  <2>2. rest.turn \notin kept /\ kept \subseteq chat
    BY <1>3
  <2>3. rest.op # "files" => rest.turn \in 1..Len(start)
    BY <1>1, <1>2, <1>3 DEF BaseInv, RestInv, UndoneChat
  <2>4. rest.op # "files" => rest.turn # Len(start) + 1
    BY <1>3, <2>3
  <2> HIDE DEF kept
  <2> QED BY <1>2, <2>1, <2>2, <2>4 DEF RestoreOps
<1>5. /\ rest'.op = rest.op /\ rest'.target = rest.target /\ rest'.turn = rest.turn
      /\ rest'.range = rest.range /\ rest'.safety = rest.safety /\ rest'.meddled = rest.meddled
      /\ rest'.clean = rest.clean /\ rest'.pc = "done" /\ rest'.why = rest.why /\ rest'.todo = rest.todo
      /\ rest' \in RestTypes
  <2>1. rest' \in RestTypes
    BY <1>1, <1>2, RestIs
  <2> QED BY <1>1, <1>2, <2>1 DEF RestTypes
<1>6. Committed'
  BY <1>2, <1>5 DEF Committed
<1>7. /\ start' \in Seq([Paths -> Contents \cup {Unknown}])
      /\ \/ rest.op # "edit" /\ Len(start') = Len(start)
         \/ rest.op = "edit" /\ Len(start') = Len(start) + 1 /\ Len(start) < MaxTurns
  <2>1. CASE rest.op = "edit"
    <3>1. Len(start) < MaxTurns
      BY <1>2, <2>1 DEF BaseInv, DataInv, AskedInv
    <3>2. files \in [Paths -> Contents \cup {Unknown}]
      BY <1>2
    <3> QED BY <1>1, <1>3, <2>1, <3>1, <3>2
  <2>2. CASE rest.op # "edit"
    BY <1>1, <1>3, <2>2
  <2> QED BY <2>1, <2>2
<1>8. \A t \in 1..Len(start) : t \in 1..Len(start')
  BY <1>3, <1>7
<1>9. chat' \subseteq 1..Len(start')
  <2>1. rest.op = "edit" => Len(start) + 1 \in 1..Len(start')
    BY <1>3, <1>7
  <2> QED BY <1>3, <1>4, <1>8, <2>1
<1>10. Types'
  <2>1. chat' \in SUBSET Nat
    BY <1>9
  <2> QED BY <1>1, <1>5, <1>7, <2>1 DEF BaseInv, Types
<1>11. BoundInv'
  <2>1. Len(start') <= MaxTurns
    BY <1>3, <1>7, BoundsAssumption DEF BaseInv, DataInv, BoundInv
  <2>2. \A m \in DOMAIN manifests' : manifests'[m].turn \in 1..Len(start')
    BY <1>1, <1>8 DEF BaseInv, DataInv, BoundInv
  <2> QED BY <1>1, <1>2, <1>9, <2>1, <2>2 DEF BaseInv, DataInv, BoundInv
<1>12. AskedInv' /\ ManifestsInv' /\ ToolInv'
  BY <1>1, <1>2, <1>6 DEF BaseInv, DataInv, AskedInv, ManifestsInv, InOrder, Listed, Told, ToolInv
<1>13. /\ RangeInv' /\ RangeSet' = RangeSet
       /\ \A m \in RangeSet : Touched(m)' = Touched(m) /\ manifests'[m] = manifests[m]
       /\ \A m \in RangeSet, p \in Paths : FirstTouch(m, p)' <=> FirstTouch(m, p)
  BY <1>1, <1>5, RangeKept
<1>14. RestoreInv' /\ UndoneManifests'
  BY <1>1, <1>2, <1>5, <1>6, <1>13 DEF BaseInv, RestInv, RestoreInv, UndoneManifests, Committed
<1>15. UndoneChat'
  BY <1>4, <1>5, <1>6 DEF UndoneChat
<1>16. UndoneFiles'
  <2>1. \A m \in RangeSet : Touched(m) \in SUBSET Paths
    BY <1>1, RestoreRuns
  <2> QED BY <1>1, <1>2, <1>5, <1>6, <1>13, <2>1 DEF BaseInv, RestInv, UndoneFiles, Committed
<1> QED BY <1>10, <1>11, <1>12, <1>13, <1>14, <1>15, <1>16 DEF DataInv, RestInv

(* A failure before: the restore is taken back.                             *)
LEMMA RestoreFailsStep ==
  ASSUME BaseInv, RestoreFails
  PROVE  Types' /\ DataInv' /\ RangeInv' /\ RestInv'
<1>1. /\ rest.pc \in {"validate", "apply", "invalidate", "commit"}
      /\ rest' = [rest EXCEPT !.pc = "undo", !.why = "error", !.todo = DOMAIN rest.safety]
      /\ UNCHANGED <<queue, started, files, manifests, turn, call, chat, tool, start, broken, mixed>>
  BY DEF RestoreFails, Undoing, hist
<1>2. rest \in RestTypes /\ files \in [Paths -> Contents] /\ rest.why = "none" /\ rest.clean
      /\ DOMAIN rest.safety = PathsOf(RangeSet)
  BY <1>1, RestoreRuns DEF BaseInv, RestInv, RestoreInv
<1>3. rest' \in RestTypes
  BY <1>1, <1>2, RestIs, TodosAre
<1>4. Types' /\ DataInv'
  BY <1>1, <1>2, <1>3, RestFrame
<1>5. /\ rest'.op = rest.op /\ rest'.target = rest.target /\ rest'.turn = rest.turn
      /\ rest'.range = rest.range /\ rest'.safety = rest.safety /\ rest'.meddled = rest.meddled
      /\ rest'.clean = rest.clean /\ rest'.pc = "undo" /\ rest'.why = "error"
      /\ rest'.todo = DOMAIN rest.safety
  BY <1>1, <1>2 DEF RestTypes
<1>6. /\ RangeInv' /\ RangeSet' = RangeSet /\ PathsOf(RangeSet)' = PathsOf(RangeSet)
      /\ \A m \in RangeSet : manifests'[m] = manifests[m]
  BY <1>1, <1>5, RangeKept
<1>7. RestoreInv' /\ UndoneManifests' /\ UndoneChat'
  BY <1>1, <1>5, <1>6
     DEF BaseInv, RestInv, RestoreInv, UndoneManifests, UndoneChat, Committed
<1>8. UndoneFiles'
  BY <1>2, <1>5, <1>6 DEF UndoneFiles, Committed
<1> QED BY <1>4, <1>6, <1>7, <1>8 DEF RestInv

(* A write whose outcome is unknown: the restore is over and not clean.     *)
LEMMA OutcomeStep ==
  ASSUME BaseInv, NEW m \in RangeSet, NEW p \in Paths, OutcomeUnknown(m, p)
  PROVE  Types' /\ DataInv' /\ RangeInv' /\ RestInv'
<1>1. /\ rest.pc = "apply" /\ <<m, p>> \in rest.todo
      /\ UNCHANGED <<queue, started, manifests, turn, call, chat, tool, start, broken, mixed>>
      /\ rest' = [rest EXCEPT !.pc = "done", !.why = "unknown", !.clean = FALSE]
      /\ files' \in {files, [files EXCEPT ![p] = manifests[m].before[p]]}
  BY DEF OutcomeUnknown, hist
<1>2. /\ rest \in RestTypes /\ files \in [Paths -> Contents] /\ manifests \in Seq(Manifests)
      /\ RangeSet \in SUBSET DOMAIN manifests
  BY <1>1, RestoreRuns
<1>3. rest' \in RestTypes
  BY <1>1, <1>2, RestIs
<1>4. files' \in [Paths -> Contents]
  <2>1. <<m, p>> \in Writes
    BY <1>1 DEF BaseInv, RangeInv
  <2>2. p \in Touched(m)
    BY <2>1 DEF Writes
  <2>3. manifests[m].before \in FileMaps
    BY <1>2, ManifestIs
  <2>4. manifests[m].before[p] \in Contents
    BY <2>2, <2>3, FileMapsAre DEF Touched
  <2> QED BY <1>1, <1>2, <2>4
<1>5. Types' /\ DataInv'
  BY <1>1, <1>3, <1>4, RestFrame
<1>6. /\ rest'.op = rest.op /\ rest'.target = rest.target /\ rest'.turn = rest.turn
      /\ rest'.range = rest.range /\ rest'.safety = rest.safety /\ rest'.meddled = rest.meddled
      /\ rest'.pc = "done" /\ rest'.why = "unknown" /\ ~rest'.clean
  BY <1>1, <1>2 DEF RestTypes
<1>7. /\ RangeInv' /\ RangeSet' = RangeSet
      /\ \A n \in RangeSet : manifests'[n] = manifests[n]
  BY <1>1, <1>6, RangeKept
<1>8. RestoreInv' /\ UndoneManifests' /\ UndoneChat'
  BY <1>1, <1>6, <1>7
     DEF BaseInv, RestInv, RestoreInv, UndoneManifests, UndoneChat, Committed
<1>9. UndoneFiles'
  BY <1>6 DEF UndoneFiles, Committed
<1> QED BY <1>5, <1>7, <1>8, <1>9 DEF RestInv

(* A file is put back as it was captured.                                   *)
LEMMA UndoStep ==
  ASSUME BaseInv, NEW p \in Paths, Undo(p)
  PROVE  Types' /\ DataInv' /\ RangeInv' /\ RestInv'
<1>1. /\ rest.pc = "undo" /\ p \in rest.todo
      /\ UNCHANGED <<queue, started, manifests, turn, call, chat, tool, start, broken, mixed>>
      /\ rest' = [rest EXCEPT !.todo = rest.todo \ {p}]
      /\ files' = [files EXCEPT ![p] = rest.safety[p]]
  BY DEF Undo, hist
<1>2. /\ rest \in RestTypes /\ files \in [Paths -> Contents] /\ PathsOf(RangeSet) \in SUBSET Paths
      /\ rest.safety \in [PathsOf(RangeSet) -> Contents] /\ rest.todo \subseteq DOMAIN rest.safety
      /\ DOMAIN rest.safety = PathsOf(RangeSet) /\ rest.why # "none"
  BY <1>1, RestoreRuns DEF BaseInv, RangeInv, RestInv, RestoreInv
<1>3. rest' \in RestTypes
  BY <1>1, <1>2, RestIs, TodosAre
<1>4. files' \in [Paths -> Contents]
  <2>1. rest.safety[p] \in Contents
    BY <1>1, <1>2
  <2> QED BY <1>1, <1>2, <2>1
<1>5. Types' /\ DataInv'
  BY <1>1, <1>3, <1>4, RestFrame
<1>6. /\ rest'.op = rest.op /\ rest'.target = rest.target /\ rest'.turn = rest.turn
      /\ rest'.range = rest.range /\ rest'.safety = rest.safety /\ rest'.meddled = rest.meddled
      /\ rest'.clean = rest.clean /\ rest'.pc = "undo" /\ rest'.why = rest.why
      /\ rest'.todo = rest.todo \ {p}
  BY <1>1, <1>2 DEF RestTypes
<1>7. rest'.todo \subseteq DOMAIN rest.safety
  BY <1>2, <1>6
<1>8. /\ RangeInv' /\ RangeSet' = RangeSet /\ PathsOf(RangeSet)' = PathsOf(RangeSet)
      /\ \A n \in RangeSet : manifests'[n] = manifests[n]
  BY <1>1, <1>6, <1>7, RangeKept
<1>9. RestoreInv' /\ UndoneManifests' /\ UndoneChat'
  BY <1>1, <1>2, <1>6, <1>8
     DEF BaseInv, RestInv, RestoreInv, UndoneManifests, UndoneChat, Committed
<1>10. UndoneFiles'
  <2>1. \A q \in Paths : files'[q] = IF q = p THEN rest.safety[p] ELSE files[q]
    BY <1>1, <1>2
  <2> QED BY <1>1, <1>2, <1>6, <1>8, <2>1 DEF BaseInv, RestInv, UndoneFiles, Committed
<1> QED BY <1>5, <1>8, <1>9, <1>10 DEF RestInv

(* A file cannot be put back: the restore is not clean.                     *)
LEMMA UndoFailsStep ==
  ASSUME BaseInv, UndoFails
  PROVE  Types' /\ DataInv' /\ RangeInv' /\ RestInv'
<1>1. /\ rest.pc = "undo" /\ rest' = [rest EXCEPT !.todo = {}, !.clean = FALSE]
      /\ UNCHANGED <<queue, started, files, manifests, turn, call, chat, tool, start, broken, mixed>>
  BY DEF UndoFails, hist
<1>2. rest \in RestTypes /\ files \in [Paths -> Contents] /\ rest.why # "none"
  BY <1>1, RestoreRuns DEF BaseInv, RestInv, RestoreInv
<1>3. rest' \in RestTypes
  BY <1>1, <1>2, RestIs, TodosAre
<1>4. Types' /\ DataInv'
  BY <1>1, <1>2, <1>3, RestFrame
<1>5. /\ rest'.op = rest.op /\ rest'.target = rest.target /\ rest'.turn = rest.turn
      /\ rest'.range = rest.range /\ rest'.safety = rest.safety /\ rest'.meddled = rest.meddled
      /\ ~rest'.clean /\ rest'.pc = "undo" /\ rest'.why = rest.why /\ rest'.todo = {}
  BY <1>1, <1>2 DEF RestTypes
<1>6. /\ RangeInv' /\ RangeSet' = RangeSet
      /\ \A m \in RangeSet : manifests'[m] = manifests[m]
  BY <1>1, <1>5, RangeKept
<1>7. RestoreInv' /\ UndoneManifests' /\ UndoneChat'
  BY <1>1, <1>2, <1>5, <1>6
     DEF BaseInv, RestInv, RestoreInv, UndoneManifests, UndoneChat, Committed
<1>8. UndoneFiles'
  BY <1>2, <1>5 DEF UndoneFiles, Committed
<1> QED BY <1>4, <1>6, <1>7, <1>8 DEF RestInv

(* The manifests are put back; one that cannot makes the restore not clean. *)
LEMMA PutBackStep ==
  ASSUME BaseInv, PutBack
  PROVE  Types' /\ DataInv' /\ RangeInv' /\ RestInv'
<1>1. PICK lost \in SUBSET RangeSet :
        manifests' = AsBefore(lost) /\ rest' = [rest EXCEPT !.pc = "done", !.clean = @ /\ lost = {}]
  BY DEF PutBack
<1>2. /\ rest.pc = "undo" /\ rest.todo = {}
      /\ UNCHANGED <<queue, started, files, turn, call, chat, tool, start, broken, mixed>>
  BY DEF PutBack, hist
<1>3. /\ rest \in RestTypes /\ files \in [Paths -> Contents] /\ rest.why \in {"conflict", "error"}
      /\ rest.clean \in BOOLEAN /\ manifests \in Seq(Manifests) /\ RangeSet \in SUBSET DOMAIN manifests
      /\ DOMAIN manifests = 1..Len(manifests) /\ Len(manifests) \in Nat
      /\ \A m \in RangeSet : manifests[m].status \in {"ready", "invalidated"}
  BY <1>2, RestoreRuns DEF BaseInv, RestInv, RestoreInv, RestTyped
<1> DEFINE b == rest.clean /\ lost = {}
<1>4. b \in BOOLEAN /\ rest' = [rest EXCEPT !.pc = "done", !.clean = b]
  BY <1>1
<1>5. b => rest.clean /\ lost = {}
  OBVIOUS
<1> HIDE DEF b
<1>6. rest' \in RestTypes
  BY <1>3, <1>4, RestIs
<1>7. /\ rest'.op = rest.op /\ rest'.target = rest.target /\ rest'.turn = rest.turn
      /\ rest'.range = rest.range /\ rest'.safety = rest.safety /\ rest'.meddled = rest.meddled
      /\ rest'.clean = b /\ rest'.pc = "done" /\ rest'.why = rest.why /\ rest'.todo = {}
  BY <1>2, <1>3, <1>4 DEF RestTypes
<1>8. /\ DOMAIN manifests' = DOMAIN manifests
      /\ \A m \in DOMAIN manifests :
           manifests'[m] = IF m \in RangeSet \ lost THEN [manifests[m] EXCEPT !.status = "ready"]
                           ELSE manifests[m]
  BY <1>1 DEF AsBefore
<1>9. \A M \in Manifests :
        LET w == [M EXCEPT !.status = "ready"] IN
          /\ w \in Manifests /\ w.status = "ready" /\ w.seq = M.seq /\ w.turn = M.turn
          /\ w.complete = M.complete /\ w.before = M.before /\ w.after = M.after
  BY DEF Manifests
<1>10. \A m \in DOMAIN manifests : manifests[m] \in Manifests
  BY <1>3, ManifestIs
<1>11. ASSUME NEW m \in DOMAIN manifests
       PROVE  /\ manifests'[m] \in Manifests
              /\ m \notin RangeSet => manifests'[m] = manifests[m]
              /\ m \in RangeSet =>
                             /\ manifests'[m].status \in {"ready", "invalidated"}
                             /\ lost = {} => manifests'[m].status = "ready"
                             /\ manifests'[m].seq = manifests[m].seq
                             /\ manifests'[m].turn = manifests[m].turn
                             /\ manifests'[m].complete = manifests[m].complete
                             /\ manifests'[m].before = manifests[m].before
                             /\ manifests'[m].after = manifests[m].after
  <2>1. CASE m \in RangeSet \ lost
    <3> DEFINE w == [manifests[m] EXCEPT !.status = "ready"]
    <3>1. /\ w \in Manifests /\ w.status = "ready" /\ w.seq = manifests[m].seq
          /\ w.turn = manifests[m].turn /\ w.complete = manifests[m].complete
          /\ w.before = manifests[m].before /\ w.after = manifests[m].after
      BY <1>9, <1>10
    <3>2. manifests'[m] = w
      BY <1>8, <2>1
    <3> HIDE DEF w
    <3> QED BY <2>1, <3>1, <3>2
  <2>2. CASE m \notin RangeSet \ lost
    BY <1>3, <1>8, <1>10, <2>2
  <2> QED BY <2>1, <2>2
<1>12. manifests' \in Seq(Manifests)
  <2>1. manifests' \in [1..Len(manifests) -> Manifests]
    <3>1. manifests' = [m \in 1..Len(manifests) |-> manifests'[m]]
      BY <1>1, <1>3 DEF AsBefore
    <3> QED BY <1>3, <1>11, <3>1
  <2> HIDE DEF Manifests
  <2> QED BY <1>3, <2>1
<1>13. /\ Types' /\ DataInv' /\ RangeInv' /\ RangeSet' = RangeSet
       /\ PathsOf(RangeSet)' = PathsOf(RangeSet)
  BY <1>2, <1>3, <1>6, <1>7, <1>8, <1>11, <1>12, StatusWritten
<1>14. RestoreInv'
  BY <1>2, <1>3, <1>7, <1>11, <1>13 DEF BaseInv, RestInv, RestoreInv, Committed
<1>15. UndoneManifests'
  BY <1>3, <1>5, <1>7, <1>11, <1>13 DEF UndoneManifests, Committed
<1>16. UndoneChat'
  BY <1>2, <1>3, <1>7 DEF BaseInv, RestInv, UndoneChat, Committed
<1>17. UndoneFiles'
  BY <1>2, <1>3, <1>5, <1>7, <1>13 DEF BaseInv, RestInv, UndoneFiles, Committed
<1> QED BY <1>13, <1>14, <1>15, <1>16, <1>17 DEF RestInv

(* The restore leaves the critical section.                                 *)
LEMMA RestoreEndsStep ==
  ASSUME BaseInv, RestoreEnds
  PROVE  Types' /\ DataInv' /\ RangeInv' /\ RestInv'
<1>1. /\ rest.pc = "done" /\ rest' = Idle /\ queue' = Tail(queue) /\ started' = FALSE
      /\ UNCHANGED <<files, manifests, call, chat, tool, mixed>>
      /\ turn' = turn \/ turn' = Len(start)
      /\ broken' = broken \cup ((DOMAIN manifests) \X HalfDone)
      /\ start' = Remembered(Reachable \cup {turn'}, HalfDone)
      /\ HalfDone \subseteq PathsOf(RangeSet)
  BY DEF RestoreEnds, Finishes, HalfDone
<1>2. /\ tool.pc = "idle" /\ turn = NoTurn /\ queue \in Seq(Ops) /\ queue # <<>>
      /\ 1 \in DOMAIN queue /\ queue[1].op \in RestoreOps /\ PathsOf(RangeSet) \in SUBSET Paths
  BY <1>1, RestoreRuns
<1>3. /\ start' \in Seq([Paths -> Contents \cup {Unknown}]) /\ Len(start') = Len(start)
      /\ Len(start) \in Nat
  BY <1>1, RememberedTyped, TypesAre DEF BaseInv, Types
<1>4. broken' \subseteq (DOMAIN manifests) \X Paths /\ DOMAIN manifests \subseteq Nat
  BY <1>1, <1>2, TypesAre DEF BaseInv, DataInv, BoundInv
<1>5. /\ queue' \in Seq(Ops) /\ \A i \in DOMAIN queue' : queue'[i].op \notin RestoreOps
  <2>1. /\ DOMAIN queue' = 1..(Len(queue) - 1) /\ queue' \in Seq(Ops) /\ DOMAIN queue = 1..Len(queue)
        /\ Len(queue) \in Nat /\ \A i \in 1..(Len(queue) - 1) : queue'[i] = queue[i + 1]
    BY <1>1, <1>2, QueueIs
  <2>2. ASSUME NEW i \in DOMAIN queue', queue'[i].op \in RestoreOps PROVE FALSE
    <3>1. i + 1 \in DOMAIN queue /\ i + 1 # 1 /\ queue[i + 1].op \in RestoreOps
      BY <2>1, <2>2
    <3> QED BY <1>2, <3>1 DEF BaseInv, HostInv, AloneInv
  <2> QED BY <2>1, <2>2
<1>6. Types'
  <2>1. turn' \in Nat /\ broken' \in SUBSET (Nat \X Paths)
    BY <1>1, <1>2, <1>3, <1>4 DEF NoTurn
  <2> QED BY <1>1, <1>3, <1>5, <2>1 DEF BaseInv, Types
<1>7. BoundInv'
  BY <1>1, <1>2, <1>3, <1>4 DEF BaseInv, DataInv, BoundInv
<1>8. AskedInv'
  BY <1>5 DEF AskedInv, RestoreOps
<1>9. ManifestsInv' /\ ToolInv'
  BY <1>1, <1>2 DEF BaseInv, DataInv, ManifestsInv, InOrder, Listed, Told, ToolInv
<1>10. RangeInv' /\ RestInv'
  BY <1>1 DEF RangeInv, RestInv, RestoreInv, UndoneManifests, UndoneFiles, UndoneChat, Idle
<1> QED BY <1>6, <1>7, <1>8, <1>9, <1>10 DEF DataInv

(* It holds at first.                                                       *)
LEMMA BaseStart ==
  ASSUME Init
  PROVE  BaseInv
<1>1. Types
  <2>1. \A f \in [Paths -> Texts] : f \in [Paths -> Contents]
    BY DEF Contents
  <2>2. <<>> \in Seq(Ops) /\ <<>> \in Seq(Manifests) /\ <<>> \in Seq([Paths -> Contents \cup {Unknown}])
    OBVIOUS
  <2>3. queue = <<>> /\ manifests = <<>> /\ start = <<>> /\ started = FALSE /\ call = FALSE
        /\ turn = 0 /\ chat = {} /\ tool = Idle /\ rest = Idle /\ broken = {} /\ mixed = {}
        /\ files \in [Paths -> Contents]
    BY <2>1 DEF Init, NoTurn
  <2> HIDE DEF Ops, Manifests
  <2> QED BY <2>2, <2>3 DEF Types
<1>2. HostInv
  BY DEF Init, HostInv, LiveInv, AloneInv, HeadInv, Live, Idle
<1>3. DataInv
  <2>1. BoundInv
    BY BoundsAssumption DEF Init, BoundInv
  <2>2. AskedInv /\ ToolInv
    BY DEF Init, AskedInv, ToolInv, Idle
  <2>3. ManifestsInv
    BY DEF Init, ManifestsInv, InOrder, Listed
  <2> QED BY <2>1, <2>2, <2>3 DEF DataInv
<1>4. RangeInv /\ RestInv
  BY DEF Init, RangeInv, RestInv, RestoreInv, UndoneManifests, UndoneFiles, UndoneChat, Idle
<1> QED BY <1>1, <1>2, <1>3, <1>4 DEF BaseInv

(* It is about these variables alone.                                       *)
LEMMA BaseKept ==
  ASSUME BaseInv, UNCHANGED vars
  PROVE  BaseInv'
<1>1. /\ UNCHANGED <<queue, started, files, manifests, turn, call, chat, tool, rest, start, broken, mixed>>
      /\ RangeSet' = RangeSet /\ \A m : Touched(m)' = Touched(m)
  BY DEF vars, hist, RangeSet, Touched
<1>2. Types' /\ HostInv'
  BY <1>1 DEF BaseInv, Types, HostInv, LiveInv, AloneInv, HeadInv, Live
<1>3. DataInv'
  BY <1>1 DEF BaseInv, DataInv, BoundInv, AskedInv, ManifestsInv, ToolInv, InOrder, Listed, Told,
              Committed
<1>4. PathsOf(RangeSet)' = PathsOf(RangeSet) /\ Writes' = Writes
  BY <1>1 DEF PathsOf, Writes
<1>5. RangeInv'
  BY <1>1, <1>4 DEF BaseInv, RangeInv
<1>6. RestoreInv' /\ UndoneManifests' /\ UndoneChat'
  BY <1>1 DEF BaseInv, RestInv, RestoreInv, UndoneManifests, UndoneChat, Committed
<1>7. UndoneFiles'
  BY <1>1, <1>4 DEF BaseInv, RestInv, UndoneFiles, FirstTouch, Committed
<1> QED BY <1>2, <1>3, <1>5, <1>6, <1>7 DEF BaseInv, RestInv

(* Every step of a restore.                                                 *)
LEMMA RestoreStep ==
  ASSUME BaseInv, RestoreNext
  PROVE  BaseInv'
<1>1. HostInv'
  BY HostRestoreStep DEF BaseInv
<1>2. Types' /\ DataInv' /\ RangeInv' /\ RestInv'
  BY PlanStep, ValidateStep, VerifyStep, InvalidateStep, CommitStep, RestoreFailsStep, ApplyStep,
     OutcomeStep, UndoStep, UndoFailsStep, PutBackStep, RestoreEndsStep DEF RestoreNext
<1> QED BY <1>1, <1>2 DEF BaseInv

(* Every step.                                                              *)
LEMMA BaseStep ==
  ASSUME BaseInv, [Next]_vars
  PROVE  BaseInv'
<1>1. CASE TurnStep
  BY <1>1, TurnSteps
<1>2. CASE ToolNext
  BY <1>2, ToolStep
<1>3. CASE RestoreNext
  BY <1>3, RestoreStep
<1>4. CASE (\E p \in Paths, c \in Contents : Outside(p, c)) \/ Crash
  BY <1>4, OutsideStep, CrashStep
<1>5. CASE UNCHANGED vars
  BY <1>5, BaseKept
<1> QED BY <1>1, <1>2, <1>3, <1>4, <1>5 DEF Next, TurnStep

(* The base of all that follows: the types, who is in the critical section,  *)
(* what is asked for and still there when its turn comes, what a manifest    *)
(* tells, and how far a tool or a restore has got.                          *)
THEOREM BaseHolds == Spec => []BaseInv
<1>1. Init => BaseInv
  BY BaseStart
<1>2. BaseInv /\ [Next]_vars => BaseInv'
  BY BaseStep
<1> QED BY <1>1, <1>2, PTL DEF Spec

(* The variables of the lock, the tools and the restores keep their types,   *)
(* for any files, turns, manifests and faults.                              *)
THEOREM TypeCorrect == Spec => []TypeOK
<1>1. ASSUME BaseInv PROVE TypeOK
  <2> USE <1>1 DEF BaseInv
  <2>1. /\ files \in [Paths -> Contents] /\ call \in BOOLEAN /\ started \in BOOLEAN
        /\ Len(start) \in Nat /\ DOMAIN start = 1..Len(start) /\ manifests \in Seq(Manifests)
    BY TypesAre DEF Types
  <2>2. Len(start) <= MaxTurns /\ turn \in 0..Len(start) /\ chat \subseteq DOMAIN start
        /\ broken \subseteq (DOMAIN manifests) \X Paths
    <3>1. Len(start) <= MaxTurns /\ turn \in {0, Len(start)} /\ chat \subseteq 1..Len(start)
      BY DEF DataInv, BoundInv, NoTurn
    <3>2. broken \subseteq (DOMAIN manifests) \X Paths
      BY DEF DataInv, BoundInv
    <3>3. turn \in 0..Len(start)
      <4>1. \A n \in Nat : 0 \in 0..n /\ n \in 0..n
        OBVIOUS
      <4>2. CASE turn = 0
        BY <2>1, <4>1, <4>2
      <4>3. CASE turn = Len(start)
        BY <2>1, <4>1, <4>3
      <4> QED BY <3>1, <4>2, <4>3
    <3> QED BY <2>1, <3>1, <3>2, <3>3
  <2>3. /\ started => queue # <<>>
        /\ tool.pc \in {"idle", "prepare", "put", "execute"}
        /\ rest.pc \in {"idle", "plan", "validate", "apply", "invalidate", "commit", "undo", "done"}
    BY TypesAre, ToolIs DEF HostInv, HeadInv, RestTyped
  <2>4. ASSUME NEW m \in DOMAIN manifests
        PROVE  /\ manifests[m].seq \in Nat /\ manifests[m].turn \in DOMAIN start
               /\ manifests[m].status \in {"pending", "ready", "invalidated", "removed"}
               /\ manifests[m].complete \in BOOLEAN
               /\ Touched(m) \subseteq Paths /\ DOMAIN manifests[m].after \subseteq Touched(m)
               /\ m \in Complete => DOMAIN manifests[m].after = Touched(m)
    <3>1. /\ manifests[m].seq \in Nat /\ manifests[m].complete \in BOOLEAN
          /\ manifests[m].status \in {"pending", "ready", "invalidated", "removed"}
          /\ Touched(m) \subseteq Paths
      BY <2>1, ManifestIs, FileMapsAre DEF Touched
    <3>2. manifests[m].turn \in DOMAIN start
      BY <2>1 DEF DataInv, BoundInv
    <3>3. Told(manifests[m], mixed)
      BY DEF DataInv, ManifestsInv
    <3>4. m \in Complete => manifests[m].status = "ready"
      BY DEF Complete, Ready
    <3> QED BY <3>1, <3>2, <3>3, <3>4 DEF Told, Touched
  <2> QED BY <2>1, <2>2, <2>3, <2>4 DEF TypeOK
<1> QED BY <1>1, BaseHolds, PTL

(* A tool whose caller was aborted while it waited for the project's lock    *)
(* never starts: onAbort and the check of the signal when its turn comes     *)
(* (host-operation-scheduler.ts 44 and 60).                                 *)
THEOREM NoToolIsLate == Spec => []NoLateTool
<1>1. BaseInv => NoLateTool
  BY Exclusive DEF BaseInv, NoLateTool
<1> QED BY <1>1, BaseHolds, PTL

(* The last manifest of the range that touched a file tells what is         *)
(* expected.                                                                *)
LEMMA LastTouchIs ==
  ASSUME BaseInv, rest.pc # "idle", NEW p \in PathsOf(RangeSet)
  PROVE  Latest(In(RangeSet, p)) \in RangeSet /\ p \in Touched(Latest(In(RangeSet, p)))
<1>1. manifests \in Seq(Manifests) /\ RangeSet \in SUBSET DOMAIN manifests
  BY RestoreRuns
<1> DEFINE M == In(RangeSet, p)
<1>2. M \in SUBSET DOMAIN manifests /\ M # {}
  BY <1>1 DEF In, PathsOf
<1>3. \E m \in M : \A n \in M : manifests[n].seq <= manifests[m].seq
  <2> HIDE DEF M
  <2> QED BY <1>1, <1>2, LatestOf
<1>4. Latest(M) \in M
  BY <1>3 DEF Latest
<1> QED BY <1>4 DEF In

(* A file that was checked holds what the last manifest expects there until   *)
(* the rollback writes it, but for who saved after that file's own check.    *)
Untouched(p) == rest.pc = "apply" => In(RangeSet, p) \X {p} \subseteq rest.todo
CheckedInv ==
  \A p \in PathsOf(RangeSet) \ late : Checked(p) /\ Untouched(p) => files[p] = Expected(p)

(* What is expected of the files of a range.                                *)
LEMMA ExpectedKept ==
  ASSUME RangeSet' = RangeSet, manifests' = manifests
  PROVE  /\ PathsOf(RangeSet)' = PathsOf(RangeSet) /\ \A p : In(RangeSet, p)' = In(RangeSet, p)
         /\ \A p : Expected(p)' = Expected(p)
<1>1. \A p : In(RangeSet, p)' = In(RangeSet, p)
  BY DEF In, Touched
<1>2. PathsOf(RangeSet)' = PathsOf(RangeSet)
  BY DEF PathsOf, Touched
<1>3. ASSUME NEW p PROVE Latest(In(RangeSet, p))' = Latest(In(RangeSet, p))
  BY <1>1 DEF Latest
<1>4. \A p : Expected(p)' = Expected(p)
  BY <1>3 DEF Expected, LastOf
<1> QED BY <1>1, <1>2, <1>4

(* The checks of the files, one after the other, and the writes.            *)
LEMMA CheckedRestore ==
  ASSUME BaseInv, CheckedInv, RestoreNext
  PROVE  CheckedInv'
<1>r. rest.pc # "idle" => rest \in RestTypes
  BY RestoreRuns
<1>o. ASSUME rest'.pc \notin {"validate", "apply"} PROVE CheckedInv'
  BY <1>o DEF CheckedInv, Checked
<1>1. CASE Plan
  <2>1. PICK t \in Roots :
          LET R == RangeOf(rest.op, rest.target, t)
          IN  rest' = IF R = Refused THEN [rest EXCEPT !.pc = "done", !.why = "refused"]
                      ELSE [rest EXCEPT !.pc = IF R = {} THEN "commit" ELSE "validate",
                              !.turn = t, !.range = R, !.safety = [p \in PathsOf(R) |-> files[p]],
                              !.todo = IF R = {} THEN {} ELSE Validated(R)]
    BY <1>1 DEF Plan
  <2> DEFINE R == RangeOf(rest.op, rest.target, t)
             s == [p \in PathsOf(R) |-> files[p]]
  <2>2. rest.pc = "plan" /\ manifests' = manifests /\ rest \in RestTypes
    BY <1>r, <1>1 DEF Plan
  <2>3. CASE R = Refused
    <3>1. rest' = [rest EXCEPT !.pc = "done", !.why = "refused"]
      BY <2>1, <2>3
    <3> QED BY <1>o, <2>2, <3>1 DEF RestTypes
  <2>4. CASE R = {}
    <3> HIDE DEF s
    <3>1. rest' = [rest EXCEPT !.pc = "commit", !.turn = t, !.range = R, !.safety = s, !.todo = {}]
      BY <2>1, <2>4 DEF Refused, s
    <3> QED BY <1>o, <2>2, <3>1 DEF RestTypes
  <2>5. CASE R # {} /\ R # Refused
    <3>1. rest' = [rest EXCEPT !.pc = "validate", !.turn = t, !.range = R, !.safety = s,
                               !.todo = PathsOf(R)]
      BY <2>1, <2>5 DEF Validated
    <3> HIDE DEF R, s
    <3>2. rest'.pc = "validate" /\ rest'.range = R /\ rest'.todo = PathsOf(R)
      BY <2>2, <3>1 DEF RestTypes
    <3>3. RangeSet' = R /\ PathsOf(RangeSet)' = PathsOf(R)
      BY <2>2, <3>2 DEF RangeSet, PathsOf, Touched
    <3> QED BY <3>2, <3>3 DEF CheckedInv, Checked
  <2> QED BY <2>3, <2>4, <2>5
<1>2. ASSUME NEW p \in Paths, Validate(p) PROVE CheckedInv'
  <2>1. rest.pc = "validate" /\ UNCHANGED <<files, manifests, late>> /\ rest \in RestTypes
    BY <1>r, <1>2 DEF Validate, hist
  <2>2. CASE files[p] # Expected(p)
    <3>1. rest' = Undoing("conflict")
      BY <1>2, <2>2 DEF Validate
    <3> QED BY <1>o, <2>1, <3>1 DEF Undoing, RestTypes
  <2>3. CASE files[p] = Expected(p)
    <3>1. \/ rest' = [rest EXCEPT !.pc = "apply", !.todo = Writes] /\ rest.todo = {p}
          \/ rest' = [rest EXCEPT !.todo = rest.todo \ {p}]
      BY <1>2, <2>3 DEF Validate
    <3>2. /\ rest'.range = rest.range /\ rest'.pc \in {"validate", "apply"}
          /\ rest'.pc = "validate" => rest'.todo = rest.todo \ {p}
          /\ rest'.pc = "apply" => rest.todo = {p}
      BY <2>1, <3>1 DEF RestTypes
    <3>3. RangeSet' = RangeSet
      BY <2>1, <3>2 DEF RangeSet
    <3>4. \A q : Checked(q)' => Checked(q) \/ q = p
      BY <2>1, <3>2 DEF Checked
    <3>5. \A q : Untouched(q)
      BY <2>1 DEF Untouched
    <3> QED BY <2>1, <2>3, <3>3, <3>4, <3>5, ExpectedKept DEF CheckedInv
  <2> QED BY <2>2, <2>3
<1>3. ASSUME NEW m \in RangeSet, NEW p \in Paths, Apply(m, p) PROVE CheckedInv'
  <2>1. /\ rest.pc = "apply" /\ UNCHANGED <<manifests, late>> /\ rest \in RestTypes
        /\ rest' = [rest EXCEPT !.todo = rest.todo \ {<<m, p>>}] /\ <<m, p>> \in rest.todo
        /\ files' = [files EXCEPT ![p] = manifests[m].before[p]]
    BY <1>r, <1>3 DEF Apply, hist
  <2>2. rest'.range = rest.range /\ rest'.pc = "apply" /\ rest'.todo = rest.todo \ {<<m, p>>}
    BY <2>1 DEF RestTypes
  <2>3. RangeSet' = RangeSet
    BY <2>1, <2>2 DEF RangeSet
  <2>4. m \in In(RangeSet, p)
    <3>1. <<m, p>> \in Writes
      BY <2>1 DEF BaseInv, RangeInv
    <3> QED BY <3>1 DEF Writes, In
  <2>5. ~Untouched(p)'
    BY <2>2, <2>3, <2>1, <2>4, ExpectedKept DEF Untouched
  <2>6. ASSUME NEW q, q # p PROVE (Untouched(q)' => Untouched(q)) /\ (Checked(q)' <=> Checked(q))
    BY <2>1, <2>2, <2>3, ExpectedKept DEF Untouched, Checked
  <2>7. \A q \in PathsOf(RangeSet) : q # p => files'[q] = files[q]
    <3>1. PathsOf(RangeSet) \subseteq Paths /\ files \in [Paths -> Contents]
      BY <2>1, RestoreRuns DEF BaseInv, Types, RangeInv, RestTyped
    <3> QED BY <2>1, <3>1
  <2> QED BY <2>1, <2>3, <2>5, <2>6, <2>7, ExpectedKept DEF CheckedInv
<1>4. CASE Verify \/ Invalidate \/ Commit \/ RestoreFails
  BY <1>r, <1>o, <1>4 DEF Verify, Invalidate, Commit, RestoreFails, Undoing, RestTypes
<1>5. CASE UndoFails \/ PutBack \/ RestoreEnds
  <2>1. CASE UndoFails
    BY <1>r, <1>o, <2>1 DEF UndoFails, RestTypes
  <2>2. CASE PutBack
    <3>1. PICK clean \in BOOLEAN : rest' = [rest EXCEPT !.pc = "done", !.clean = clean]
      <4>1. rest.pc = "undo"
        BY <2>2 DEF PutBack
      <4>2. rest.clean \in BOOLEAN
        BY <1>r, <4>1 DEF RestTypes
      <4> QED BY <2>2, <4>2 DEF PutBack
    <3>2. rest.pc # "idle"
      BY <2>2 DEF PutBack
    <3> QED BY <1>r, <1>o, <3>1, <3>2 DEF RestTypes
  <2>3. CASE RestoreEnds
    <3>1. rest' = Idle
      BY <2>3 DEF RestoreEnds
    <3> QED BY <1>o, <3>1 DEF Idle
  <2> QED BY <1>5, <2>1, <2>2, <2>3
<1>6. ASSUME NEW m \in RangeSet, NEW p \in Paths, OutcomeUnknown(m, p) \/ Undo(p) PROVE CheckedInv'
  BY <1>r, <1>o, <1>6 DEF OutcomeUnknown, Undo, RestTypes
<1>7. ASSUME NEW p \in Paths, Undo(p) PROVE CheckedInv'
  BY <1>r, <1>o, <1>7 DEF Undo, RestTypes
<1> QED BY <1>1, <1>2, <1>3, <1>4, <1>5, <1>6, <1>7 DEF RestoreNext

(* Whoever else writes does so before the check of the file, or is late.    *)
LEMMA CheckedStep ==
  ASSUME BaseInv, CheckedInv, [Next]_vars
  PROVE  CheckedInv'
<1>o. ASSUME rest'.pc \notin {"validate", "apply"} PROVE CheckedInv'
  BY <1>o DEF CheckedInv, Checked
<1>k. ASSUME rest' = rest, UNCHANGED <<files, manifests, late>> PROVE CheckedInv'
  <2>1. RangeSet' = RangeSet
    BY <1>k DEF RangeSet
  <2> QED BY <1>k, <2>1, ExpectedKept DEF CheckedInv, Checked, Untouched
<1>1. CASE TurnStep
  <2>1. CASE Enter
    <3>1. rest.pc = "idle"
      BY <2>1, Exclusive DEF Enter, Starts, BaseInv, HostInv, HeadInv
    <3>2. rest' = rest \/ rest'.pc = "plan"
      BY <2>1 DEF Enter, NewRestore
    <3> QED BY <1>o, <3>1, <3>2
  <2>2. CASE ~Enter
    <3>1. rest' = rest /\ UNCHANGED <<files, manifests>>
      BY <1>1, <2>2, TurnKeeps
    <3>2. late' = late
      BY <1>1, <2>2 DEF TurnStep, StartTurn, EndTurn, AbortCall, Compact, OtherCalls, OtherEnds, CallTool,
            RequestRestore, RequestEdit, hist
    <3> QED BY <1>k, <3>1, <3>2
  <2> QED BY <2>1, <2>2
<1>2. CASE ToolNext
  <2>1. tool.pc # "idle"
    BY <1>2 DEF ToolNext, Prepare, PutPending, PutBarrier, PutNothing, NotStarted, ToolWrites,
            Finalize, FinalizeFails
  <2>2. rest.pc = "idle"
    BY <2>1, Exclusive DEF BaseInv
  <2>3. rest' = rest
    BY <1>2 DEF ToolNext, Prepare, PutPending, PutBarrier, PutNothing, NotStarted, ToolWrites,
            Finalize, FinalizeFails
  <2> QED BY <1>o, <2>2, <2>3
<1>3. CASE RestoreNext
  BY <1>3, CheckedRestore
<1>4. ASSUME NEW p \in Paths, NEW c \in Contents, Outside(p, c) PROVE CheckedInv'
  <2>1. /\ files' = [files EXCEPT ![p] = c] /\ manifests' = manifests
        /\ late' = IF Checked(p) THEN late \cup {p} ELSE late
        /\ rest' = rest \/ rest' = [rest EXCEPT !.meddled = rest.meddled \cup {p}]
    BY <1>4 DEF Outside
  <2>2. CASE rest.pc \in {"validate", "apply"}
    <3>1. rest \in RestTypes /\ PathsOf(RangeSet) \subseteq Paths /\ files \in [Paths -> Contents]
      BY <2>2, RestoreRuns DEF BaseInv, Types, RangeInv, RestTyped
    <3>2. rest'.pc = rest.pc /\ rest'.range = rest.range /\ rest'.todo = rest.todo
      BY <2>1, <3>1 DEF RestTypes
    <3>3. RangeSet' = RangeSet
      BY <3>2 DEF RangeSet
    <3>4. \A q : (Checked(q)' <=> Checked(q)) /\ (Untouched(q)' <=> Untouched(q))
      BY <2>1, <3>2, <3>3, ExpectedKept DEF Checked, Untouched
    <3>5. \A q \in Paths : q # p => files'[q] = files[q]
      BY <2>1, <3>1
    <3>6. late \subseteq late' /\ (Checked(p) => p \in late')
      BY <2>1
    <3> QED BY <2>1, <3>1, <3>3, <3>4, <3>5, <3>6, ExpectedKept DEF CheckedInv
  <2>3. CASE rest.pc \notin {"validate", "apply"}
    <3>1. rest'.pc \notin {"validate", "apply"}
      <4>1. CASE rest.pc = "idle"
        BY <1>4, <4>1 DEF Outside
      <4>2. CASE rest.pc # "idle"
        <5>1. rest \in RestTypes
          BY <4>2, RestoreRuns
        <5> QED BY <2>1, <2>3, <5>1 DEF RestTypes
      <4> QED BY <4>1, <4>2
    <3> QED BY <1>o, <3>1
  <2> QED BY <2>2, <2>3
<1>5. CASE Crash
  BY <1>o, <1>5 DEF Crash, Idle
<1>6. CASE UNCHANGED vars
  BY <1>k, <1>6 DEF vars, hist
<1> QED BY <1>1, <1>2, <1>3, <1>4, <1>5, <1>6 DEF Next, TurnStep

(* A rollback writes over no text that was in a file when that file was      *)
(* checked and that no tool left there: validate() refuses it              *)
(* (restore-transaction.ts 29 to 43).  What is saved behind the check of a    *)
(* file, while the others are still checked or written, it does not see; a   *)
(* save in the middle of a tool it takes for the tool's.                    *)
THEOREM ForeignTextsKept == Spec => []ForeignKept
<1>1. Init => BaseInv /\ CheckedInv
  <2> SUFFICES ASSUME Init PROVE BaseInv /\ CheckedInv
    OBVIOUS
  <2>1. rest.pc = "idle"
    BY DEF Init, Idle
  <2> QED BY BaseStart, <2>1 DEF CheckedInv, Checked
<1>2. BaseInv /\ CheckedInv /\ [Next]_vars => BaseInv' /\ CheckedInv'
  BY BaseStep, CheckedStep
<1>3. ASSUME BaseInv, CheckedInv PROVE ForeignKept
  <2> SUFFICES ASSUME rest.pc = "apply", NEW p \in PathsOf(RangeSet) \ (mixed \cup late),
                      In(RangeSet, p) \X {p} \subseteq rest.todo
               PROVE  files[p] \in Texts
    BY DEF ForeignKept
  <2>1. files[p] = Expected(p)
    BY <1>3 DEF CheckedInv, Checked, Untouched
  <2> DEFINE l == Latest(In(RangeSet, p))
  <2>2. l \in RangeSet /\ p \in Touched(l)
    BY <1>3, LastTouchIs
  <2>3. l \in DOMAIN manifests /\ manifests[l].status = "ready"
    BY <1>3, <2>2, RestoreRuns DEF BaseInv, RestInv, UndoneManifests
  <2>4. Told(manifests[l], mixed)
    BY <1>3, <2>3 DEF BaseInv, DataInv, ManifestsInv
  <2> QED BY <2>1, <2>2, <2>3, <2>4 DEF Told, Touched, Expected, LastOf
<1> QED BY <1>1, <1>2, <1>3, PTL DEF Spec

(* A restore is complete or undone, whichever step failed and whatever others *)
(* wrote in the meantime: the manifests, the files and the conversation go    *)
(* together (manager.ts 263 to 305).                                        *)
THEOREM RestoresAreWhole == Spec => []AllOrNothing
<1>1. ASSUME BaseInv, rest.pc = "done", rest.clean, rest.why = "none"
      PROVE  /\ \A p \in PathsOf(RangeSet) \ rest.meddled : files[p] = Original(p)
             /\ \A m \in RangeSet : manifests[m].status = "invalidated"
             /\ rest.op # "files" => rest.turn \notin chat
  <2>1. Committed /\ rest.turn # NoTurn
    BY <1>1 DEF Committed, BaseInv, RestInv, RestoreInv
  <2>2. \A m \in RangeSet : manifests[m].status = "invalidated"
    BY <1>1, <2>1 DEF BaseInv, RestInv, UndoneManifests
  <2>3. rest.op # "files" => rest.turn \notin chat
    BY <1>1, <2>1 DEF BaseInv, RestInv, UndoneChat
  <2>4. ASSUME NEW p \in PathsOf(RangeSet) \ rest.meddled PROVE files[p] = Original(p)
    <3> DEFINE M == In(RangeSet, p)
               f == First(M)
    <3>1. /\ manifests \in Seq(Manifests) /\ RangeSet \in SUBSET DOMAIN manifests
          /\ InOrder(manifests, RangeSet)
      BY <1>1, RestoreRuns
    <3>2. M \in SUBSET DOMAIN manifests /\ M # {} /\ M \subseteq RangeSet /\ InOrder(manifests, M)
      BY <3>1 DEF In, PathsOf, InOrder
    <3>3. f = CHOOSE x \in M : \A n \in M : manifests[x].seq <= manifests[n].seq
      BY DEF First
    <3>4. f \in M /\ \A n \in M : f <= n
      <4> HIDE DEF M, f
      <4> QED BY <3>1, <3>2, <3>3, FirstIs
    <3>5. f \in RangeSet /\ p \in Touched(f) /\ FirstTouch(f, p)
      BY <3>4 DEF In, FirstTouch
    <3>6. files[p] = manifests[f].before[p]
      BY <1>1, <2>1, <2>4, <3>5 DEF BaseInv, RestInv, UndoneFiles
    <3> QED BY <3>6 DEF Original
  <2> QED BY <2>2, <2>3, <2>4
<1>2. ASSUME BaseInv, rest.pc = "done", rest.clean, rest.why # "none"
      PROVE  /\ \A p \in PathsOf(RangeSet) \ rest.meddled : files[p] = rest.safety[p]
             /\ RangeSet \subseteq Ready
             /\ rest.op # "files" /\ rest.turn # NoTurn => rest.turn \in chat
  <2>1. ~Committed
    BY <1>2 DEF Committed
  <2>2. \A p \in PathsOf(RangeSet) \ rest.meddled : files[p] = rest.safety[p]
    BY <1>2, <2>1 DEF BaseInv, RestInv, UndoneFiles
  <2>3. RangeSet \subseteq Ready
    BY <1>2, <2>1, RestoreRuns DEF BaseInv, RestInv, UndoneManifests, Ready
  <2>4. rest.op # "files" /\ rest.turn # NoTurn => rest.turn \in chat
    BY <1>2, <2>1 DEF BaseInv, RestInv, UndoneChat
  <2> QED BY <2>2, <2>3, <2>4
<1>3. BaseInv => AllOrNothing
  BY <1>1, <1>2 DEF AllOrNothing
<1> QED BY <1>3, BaseHolds, PTL
=============================================================================
