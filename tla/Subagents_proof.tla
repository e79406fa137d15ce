----------------------------- MODULE Subagents_proof -----------------------------
(***************************************************************************)
(* Proofs about Subagents, for any number of subagents, activations, slots *)
(* and turns.                                                              *)
(***************************************************************************)
EXTENDS Subagents, FiniteSetTheorems, FunctionTheorems, SequenceTheorems, TLAPS

(* The records of a subagent's activation and of a tool call.               *)
InFlight ==
  [n : Nat,
   at : {"none", "run", "read", "saved", "unsaved", "settle", "nothing"},
   cancel : BOOLEAN, suppress : BOOLEAN, late : BOOLEAN, seen : Seq(Activation)]
Calls ==
  [op : {"none", "launch", "send", "continue", "stop"}, sub : Subs,
   at : {"none", "begin", "scratch", "undo", "done"},
   cancelled : BOOLEAN, late : BOOLEAN, seen : Seq(Activation)]

ServiceTypes ==
  /\ disk \in [Subs -> Seq(Activation)]
  /\ count \in 0..MaxRunning
  /\ active \in [Subs -> InFlight]
  /\ tool \in Calls
  /\ orphans \subseteq Acts
LoopTypes ==
  /\ pc \in {"idle", "load", "record", "mark", "state", "step", "wait", "end"}
  /\ last \in {"none", "tools", "text"}
  /\ turn \in 0..MaxTurns
  /\ pc # "idle" => turn \in 1..MaxTurns
  /\ reason \in {"none", "completed", "other"}
  /\ notes \in Seq(Acts) /\ batch \in Seq(Acts) /\ snap \in Seq(Activation)
  /\ iter \in [left : SUBSET Subs, cur : SUBSET Acts]
  /\ delivered \subseteq Acts /\ told \subseteq Acts /\ crossed \subseteq Acts
  /\ {aborted, outs, woken, stopping, halted} \subseteq BOOLEAN

Alike(m, n) == Len(m) = Len(n) /\ \A i \in 1..Len(m) : m[i].turn = n[i].turn

(* How activations in memory and manifests fit together.                    *)
ActiveInv(s) ==
  /\ Len(disk[s]) <= MaxActs
  /\ active[s] = NoActive <=> active[s].at = "none"
  /\ active[s].at # "none" => active[s].n \in 1..Len(disk[s])
  /\ active[s].at = "read" => Alike(active[s].seen, disk[s])

(* How the call in progress fits to them.                                   *)
ToolInv ==
  /\ tool = NoTool <=> tool.at = "none"
  /\ tool # NoTool => pc = "step" /\ last = "tools"
  /\ Preparing => active[tool.sub] = NoActive /\ tool.op \in {"launch", "continue"}
  /\ tool.at = "begin" => Len(disk[tool.sub]) < MaxActs
  /\ tool.at = "scratch" => Len(disk[tool.sub]) = Len(tool.seen) + 1
  /\ tool.at = "undo" =>
       disk[tool.sub] = tool.seen \/ Len(disk[tool.sub]) = Len(tool.seen) + 1

(* What is taken out to be recorded and confirmed.                          *)
BatchInv ==
  /\ batch # <<>> => pc \in {"record", "mark"}
  /\ snap # <<>> =>
       pc = "mark" /\ batch # <<>> /\ Alike(snap, disk[Head(batch)[1]])

(* The service's part of the invariant and the loop's.                      *)
FitInv == (\A s \in Subs : ActiveInv(s)) /\ ToolInv /\ BatchInv
Types == ServiceTypes /\ LoopTypes

USE SubagentsAssumption

LEMMA NoneTypes == NoActive \in InFlight /\ NoTool \in Calls
BY DEF NoActive, NoTool, InFlight, Calls, Subs

(* The manifests a step makes of one keep its type; only a new activation   *)
(* makes it longer.                                                         *)
LEMMA NoEntry ==
  ASSUME NEW m \in Seq(Activation), NEW n, n \notin 1..Len(m), NEW e
  PROVE  [m EXCEPT ![n] = e] = m
<1>1. m \in [1..Len(m) -> Activation] /\ DOMAIN m = 1..Len(m)
  BY LenProperties
<1> QED
  BY <1>1
LEMMA CompletedManifest ==
  ASSUME NEW m \in Seq(Activation), NEW n
  PROVE  /\ Completed(m, n) \in Seq(Activation)
         /\ Alike(Completed(m, n), m)
<1> DEFINE e == [m[n] EXCEPT !.st = "pending"]
<1>1. CASE n \in 1..Len(m)
  <2>1. m[n] \in Activation /\ e \in Activation /\ e.turn = m[n].turn
    <3>1. m[n] \in Activation
      BY <1>1, ElementOfSeq
    <3> QED
      BY <3>1 DEF Activation
  <2>2. /\ [m EXCEPT ![n] = e] \in Seq(Activation)
        /\ Len([m EXCEPT ![n] = e]) = Len(m)
        /\ \A j \in 1..Len(m) : [m EXCEPT ![n] = e][j] = IF j = n THEN e ELSE m[j]
    BY <1>1, <2>1, ExceptSeq
  <2> HIDE DEF e
  <2>3. Completed(m, n) = [m EXCEPT ![n] = e]
    BY DEF Completed, e
  <2> QED
    BY <2>1, <2>2, <2>3 DEF Alike
<1>2. CASE n \notin 1..Len(m)
  <2>1. Completed(m, n) = m
    BY <1>2, NoEntry DEF Completed
  <2> QED
    BY <2>1 DEF Alike
<1> QED
  BY <1>1, <1>2
LEMMA MarkedManifest ==
  ASSUME NEW m \in Seq(Activation), NEW n, turn \in 0..MaxTurns
  PROVE  Marked(m, n) \in Seq(Activation) /\ Alike(Marked(m, n), m)
<1> DEFINE e == [m[n] EXCEPT !.st = "delivered", !.to = turn]
<1>1. CASE n \in 1..Len(m) /\ ~(m[n].st = "open" \/ m[n].to = turn)
  <2>1. m[n] \in Activation /\ e \in Activation /\ e.turn = m[n].turn
    <3>1. m[n] \in Activation
      BY <1>1, ElementOfSeq
    <3> QED
      BY <3>1 DEF Activation
  <2>2. /\ [m EXCEPT ![n] = e] \in Seq(Activation)
        /\ Len([m EXCEPT ![n] = e]) = Len(m)
        /\ \A j \in 1..Len(m) : [m EXCEPT ![n] = e][j] = IF j = n THEN e ELSE m[j]
    BY <1>1, <2>1, ExceptSeq
  <2> HIDE DEF e
  <2>3. Marked(m, n) = [m EXCEPT ![n] = e]
    BY <1>1 DEF Marked, e
  <2> QED
    BY <2>1, <2>2, <2>3 DEF Alike
<1>2. CASE n \notin 1..Len(m)
  <2>1. Marked(m, n) = m
    BY <1>2, NoEntry DEF Marked
  <2> QED
    BY <2>1 DEF Alike
<1>3. CASE m[n].st = "open" \/ m[n].to = turn
  BY <1>3 DEF Marked, Alike
<1> QED
  BY <1>1, <1>2, <1>3
LEMMA NewManifest ==
  ASSUME NEW m \in Seq(Activation), turn \in 1..MaxTurns
  PROVE  WithNew(m) \in Seq(Activation) /\ Len(WithNew(m)) = Len(m) + 1
BY DEF WithNew, Activation

LEMMA CallMade ==
  ASSUME NEW op \in {"launch", "send", "continue", "stop"}, NEW s \in Subs,
         NEW at \in {"begin", "done"}, halted \in BOOLEAN, Call(op, s, at)
  PROVE  /\ tool' \in Calls
         /\ tool'.op = op /\ tool'.sub = s /\ tool'.at = at /\ tool'.seen = <<>>
         /\ ~tool'.cancelled /\ tool'.late = halted
BY NoneTypes DEF Call, Calls, NoTool

LEMMA Ended ==
  ASSUME NEW e \in InFlight, NEW b \in BOOLEAN
  PROVE  /\ [e EXCEPT !.cancel = @ \/ b] \in InFlight
         /\ [e EXCEPT !.cancel = @ \/ b].cancel <=> e.cancel \/ b
         /\ [e EXCEPT !.cancel = @ \/ b].late = e.late
         /\ [e EXCEPT !.cancel = @ \/ b].at = e.at
         /\ [e EXCEPT !.cancel = @ \/ b].n = e.n
         /\ [e EXCEPT !.cancel = @ \/ b].seen = e.seen
BY DEF InFlight

-----------------------------------------------------------------------------
(* What each action makes of the activations in memory.                     *)
Others(s) ==
  active' \in [Subs -> InFlight] /\ \A r \in Subs \ {s} : active'[r] = active[r]

LEMMA StopMade ==
  ASSUME Types, NEW s \in Subs, CallStop(s)
  PROVE  /\ Others(s)
         /\ active'[s].at = active[s].at /\ active'[s].n = active[s].n
         /\ active'[s].seen = active[s].seen /\ active'[s].late = active[s].late
         /\ active[s].cancel => active'[s].cancel
<1> DEFINE b == active[s].at = "run"
           e == [active[s] EXCEPT !.cancel = @ \/ b]
<1>0. b \in BOOLEAN
  OBVIOUS
<1>1. active \in [Subs -> InFlight] /\ active[s] \in InFlight
  BY DEF Types, ServiceTypes
<1>2. active' = [active EXCEPT ![s] = e]
  BY DEF CallStop
<1> HIDE DEF b
<1>3. /\ e \in InFlight /\ e.at = active[s].at /\ e.n = active[s].n
      /\ e.seen = active[s].seen /\ e.late = active[s].late
      /\ active[s].cancel => e.cancel
  BY <1>0, <1>1, Ended
<1> HIDE DEF e
<1> QED
  BY <1>1, <1>2, <1>3 DEF Others

LEMMA EndMade ==
  ASSUME Types, NEW s \in Subs, ChildEnds(s)
  PROVE  /\ Others(s)
         /\ active[s].at = "run" /\ active'[s].at = "read"
         /\ active'[s].n = active[s].n /\ active'[s].seen = disk[s]
<1> DEFINE e == [active[s] EXCEPT !.at = "read", !.seen = disk[s]]
<1>1. active' = [active EXCEPT ![s] = e] /\ active \in [Subs -> InFlight]
      /\ active[s] \in InFlight /\ active[s].at = "run" /\ disk[s] \in Seq(Activation)
  BY DEF Types, ServiceTypes, ChildEnds
<1>2. e \in InFlight /\ e.at = "read" /\ e.n = active[s].n /\ e.seen = disk[s]
  BY <1>1 DEF InFlight
<1> HIDE DEF e
<1> QED
  BY <1>1, <1>2 DEF Others

LEMMA SaveMade ==
  ASSUME Types, NEW s \in Subs, ChildSaves(s)
  PROVE  /\ Others(s)
         /\ active[s].at = "read" /\ active'[s].at \in {"saved", "unsaved"}
         /\ active'[s].n = active[s].n /\ active'[s].seen = <<>>
<1>1. PICK w \in {"saved", "unsaved"} :
        active' = [active EXCEPT ![s] = [active[s] EXCEPT !.at = w, !.seen = <<>>]]
  BY DEF ChildSaves
<1>2. active[s].at = "read"
  BY DEF ChildSaves
<1>3. active \in [Subs -> InFlight] /\ <<>> \in Seq(Activation)
  BY DEF Types, ServiceTypes
<1>4. [active[s] EXCEPT !.at = w, !.seen = <<>>] \in InFlight
  BY <1>3 DEF InFlight
<1> QED
  BY <1>1, <1>2, <1>3, <1>4 DEF InFlight, Others

LEMMA ReleaseMade ==
  ASSUME Types, NEW s \in Subs, ChildReleases(s)
  PROVE  /\ Others(s)
         /\ active[s].at \in {"saved", "unsaved"}
         /\ active'[s].at \in {"settle", "nothing"}
         /\ active'[s].n = active[s].n /\ active'[s].seen = active[s].seen
<1> DEFINE w == IF active[s].at = "saved" THEN "settle" ELSE "nothing"
       e == [active[s] EXCEPT !.at = w]
<1>1. /\ active' = [active EXCEPT ![s] = e] /\ w \in {"settle", "nothing"}
      /\ active[s].at \in {"saved", "unsaved"}
  BY DEF ChildReleases
<1>2. active \in [Subs -> InFlight] /\ active[s] \in InFlight
  BY DEF Types, ServiceTypes
<1> HIDE DEF w
<1>3. e \in InFlight /\ e.at = w /\ e.n = active[s].n /\ e.seen = active[s].seen
  BY <1>1, <1>2 DEF InFlight
<1> HIDE DEF e
<1> QED
  BY <1>1, <1>2, <1>3 DEF Others

LEMMA SettleMade ==
  ASSUME Types, NEW s \in Subs, ChildSettles(s)
  PROVE  /\ Others(s)
         /\ active[s].at \in {"settle", "nothing"} /\ active'[s] = NoActive
BY NoneTypes DEF Types, ServiceTypes, ChildSettles, Others

(* A step of the service leaves the manifests of the others alone.          *)
LEMMA SameActive ==
  ASSUME NEW r, ActiveInv(r), active'[r] = active[r], disk'[r] = disk[r]
  PROVE  ActiveInv(r)'
BY DEF ActiveInv

LEMMA LikeActive ==
  ASSUME Types, NEW r \in Subs, ActiveInv(r), active'[r] = active[r],
         disk'[r] \in Seq(Activation), Alike(disk'[r], disk[r])
  PROVE  ActiveInv(r)'
BY DEF ActiveInv, Types, ServiceTypes, InFlight, Alike

(* As long as the bound on the activations is not reached, every manifest   *)
(* has room for another one.                                                *)
LEMMA Room ==
  ASSUME Types, Cardinality(Saved) < MaxActs, NEW s \in Subs
  PROVE  Len(disk[s]) < MaxActs
<1> DEFINE row == {a \in Acts : a[1] = s}
<1>1. disk[s] \in Seq(Activation) /\ Len(disk[s]) \in Nat
  BY LenProperties DEF Types, ServiceTypes
<1>2. IsFiniteSet(Acts) /\ IsFiniteSet(Saved)
  <2>1. IsFiniteSet(Subs) /\ IsFiniteSet(1..MaxActs)
    BY FS_Interval DEF Subs
  <2>2. IsFiniteSet(Acts)
    BY <2>1, FS_Product DEF Acts
  <2> QED
    BY <2>2, FS_Subset DEF Saved
<1>3. SUFFICES ASSUME Len(disk[s]) >= MaxActs
               PROVE  Cardinality(Saved) >= MaxActs
  BY <1>1, <1>2, FS_CardinalityType
<1>4. row \subseteq Saved
  <2>1. ASSUME NEW a \in row PROVE a \in Saved
    <3>1. a[2] \in 1..MaxActs /\ a[1] = s /\ a \in Acts
      BY DEF Acts
    <3> QED
      BY <1>1, <1>3, <3>1 DEF Saved
  <2> QED
    BY <2>1
<1>5. Cardinality(row) = MaxActs
  <2> DEFINE f == [i \in 1..MaxActs |-> <<s, i>>]
  <2>1. f \in Bijection(1..MaxActs, row)
    <3>1. \A i \in 1..MaxActs : f[i] \in row
      BY DEF Acts
    <3>2. \A i, j \in 1..MaxActs : f[i] = f[j] => i = j
      OBVIOUS
    <3>3. \A a \in row : \E i \in 1..MaxActs : f[i] = a
      BY DEF Acts
    <3> HIDE DEF row
    <3>4. f \in Injection(1..MaxActs, row)
      BY <3>1, <3>2, Fun_IsInj
    <3>5. f \in Surjection(1..MaxActs, row)
      BY <3>1, <3>3, Fun_IsSurj
    <3> QED
      BY <3>4, <3>5 DEF Bijection
  <2>2. IsFiniteSet(1..MaxActs) /\ Cardinality(1..MaxActs) = MaxActs
    BY FS_Interval
  <2> HIDE DEF f, row
  <2> QED
    BY <2>1, <2>2, FS_Bijection DEF ExistsBijection
<1> QED
  BY <1>2, <1>4, <1>5, FS_Subset, FS_CardinalityType

-----------------------------------------------------------------------------
(* Types and fit: the calls of the tool.                                    *)
Kept == Types' /\ FitInv'

(* A step of the loop or of the tool that leaves the subagents alone.       *)
LEMMA SameSubs ==
  ASSUME FitInv, UNCHANGED <<disk, active>>
  PROVE  \A s \in Subs : ActiveInv(s)'
BY SameActive DEF FitInv

LEMMA SameBatch ==
  ASSUME FitInv, UNCHANGED <<pc, batch, snap, disk>>
  PROVE  BatchInv'
BY DEF FitInv, BatchInv, Alike

LEMMA LaunchKeeps ==
  ASSUME Types, FitInv, CallLaunch
  PROVE  Kept
<1>1. PICK s \in Subs : Prepares("launch", s) /\ disk[s] = <<>>
  BY DEF CallLaunch, Known
<1>2. /\ tool' \in Calls /\ tool'.op = "launch" /\ tool'.sub = s /\ tool'.at = "begin"
      /\ Len(disk[s]) < MaxActs /\ count' = count + 1 /\ count < MaxRunning
  BY <1>1, CallMade, Room DEF Prepares, CanPrepare, MayReserve, Types, LoopTypes
<1>3. pc = "step" /\ tool = NoTool /\ pc' = pc /\ last' = "tools" /\ UNCHANGED <<disk, active, batch, snap>>
  BY DEF CallLaunch, MayCall
<1>4. active[s] = NoActive
  BY <1>1 DEF FitInv, ActiveInv
<1>5. ToolInv'
  BY <1>2, <1>3, <1>4 DEF ToolInv, Preparing, NoTool
<1>6. Types'
  BY <1>2 DEF CallLaunch, Types, ServiceTypes, LoopTypes
<1> QED
  BY <1>3, <1>5, <1>6, SameSubs, SameBatch DEF Kept, FitInv

LEMMA ContinueKeeps ==
  ASSUME Types, FitInv, NEW s \in Subs, CallContinue(s)
  PROVE  Kept
<1>1. /\ tool' \in Calls /\ tool'.op = "continue" /\ tool'.sub = s /\ tool'.at = "begin"
      /\ Len(disk[s]) < MaxActs /\ count' = count + 1 /\ count < MaxRunning
  BY CallMade, Room DEF CallContinue, Prepares, CanPrepare, MayReserve, Types, LoopTypes
<1>2. /\ pc = "step" /\ tool = NoTool /\ pc' = pc /\ last' = "tools"
      /\ active[s] = NoActive /\ UNCHANGED <<disk, active, batch, snap>>
  BY DEF CallContinue, MayCall
<1>3. ToolInv'
  BY <1>1, <1>2 DEF ToolInv, Preparing, NoTool
<1>4. Types'
  BY <1>1 DEF CallContinue, Types, ServiceTypes, LoopTypes
<1> QED
  BY <1>2, <1>3, <1>4, SameSubs, SameBatch DEF Kept, FitInv

LEMMA SendKeeps ==
  ASSUME Types, FitInv, NEW s \in Subs, CallSend(s)
  PROVE  Kept
<1>1. tool' \in Calls /\ tool'.at = "done"
  BY CallMade DEF CallSend, Types, LoopTypes
<1>2. /\ pc = "step" /\ pc' = pc /\ last' = "tools"
      /\ UNCHANGED <<disk, active, batch, snap>>
  BY DEF CallSend, MayCall
<1>3. ToolInv'
  BY <1>1, <1>2 DEF ToolInv, Preparing, NoTool
<1>4. Types'
  BY <1>1 DEF CallSend, Types, ServiceTypes, LoopTypes
<1> QED
  BY <1>2, <1>3, <1>4, SameSubs, SameBatch DEF Kept, FitInv

LEMMA GoesOnKeeps ==
  ASSUME Types, FitInv, SendGoesOn
  PROVE  Kept
<1>0. tool \in Calls /\ active[tool.sub] = NoActive /\ tool.op = "send"
      /\ UNCHANGED <<disk, active, orphans, loop, stopping, halted, told, crossed>>
  BY DEF SendGoesOn, Types, ServiceTypes
<1>1. CASE CanPrepare /\ count' = count + 1
           /\ tool' = [tool EXCEPT !.op = "continue", !.at = "begin"]
  <2>1. /\ tool' \in Calls /\ tool'.op = "continue" /\ tool'.sub = tool.sub
        /\ tool'.at = "begin" /\ tool.sub \in Subs
    BY <1>0, <1>1 DEF Calls
  <2>2. Len(disk[tool.sub]) < MaxActs /\ count < MaxRunning
    BY <1>1, <2>1, Room DEF CanPrepare, MayReserve
  <2>3. ToolInv'
    BY <1>0, <2>1, <2>2 DEF ToolInv, FitInv, Preparing, NoTool, loop
  <2>4. Types'
    <3>1. count' \in 0..MaxRunning
      BY <1>1, <2>2 DEF Types, ServiceTypes
    <3>2. ServiceTypes'
      BY <1>0, <2>1, <3>1 DEF Types, ServiceTypes
    <3>3. LoopTypes'
      BY <1>0 DEF Types, LoopTypes, loop
    <3> QED BY <3>2, <3>3 DEF Types
  <2>5. (\A s \in Subs : ActiveInv(s)') /\ BatchInv'
    BY <1>0, SameSubs, SameBatch DEF loop
  <2> QED
    BY <2>3, <2>4, <2>5 DEF Kept, FitInv
<1>2. CASE tool' = NoTool /\ UNCHANGED count
  <2>1. ToolInv'
    BY <1>0, <1>2 DEF ToolInv, Preparing, NoTool
  <2>2. Types'
    BY <1>0, <1>2, NoneTypes DEF Types, ServiceTypes, LoopTypes, loop
  <2> QED
    BY <1>0, <2>1, <2>2, SameSubs, SameBatch DEF Kept, FitInv, loop
<1> QED
  BY <1>1, <1>2 DEF SendGoesOn

LEMMA StopKeeps ==
  ASSUME Types, FitInv, NEW s \in Subs, CallStop(s)
  PROVE  Kept
<1>1. tool' \in Calls /\ tool'.at = "done"
  BY CallMade DEF CallStop, Types, LoopTypes
<1>2. /\ pc = "step" /\ pc' = pc /\ last' = "tools" /\ active[s] # NoActive
      /\ UNCHANGED <<disk, batch, snap>>
  BY DEF CallStop, MayCall
<1>3. ToolInv'
  BY <1>1, <1>2 DEF ToolInv, Preparing, NoTool
<1>4. Types'
  BY <1>1, StopMade DEF CallStop, Types, ServiceTypes, LoopTypes, Others
<1>5. ASSUME NEW r \in Subs PROVE ActiveInv(r)'
  <2>1. CASE r # s
    BY <1>2, <2>1, StopMade, SameActive DEF Others, FitInv
  <2>2. CASE r = s
    <3>1. active[s].at # "none"
      BY <1>2 DEF FitInv, ActiveInv
    <3>2. active'[s] # NoActive
      BY <3>1, StopMade DEF NoActive
    <3> QED
      BY <1>2, <2>2, <3>1, <3>2, StopMade DEF FitInv, ActiveInv
  <2> QED
    BY <2>1, <2>2
<1> QED
  BY <1>2, <1>3, <1>4, <1>5, SameBatch DEF Kept, FitInv

LEMMA StopDoneKeeps ==
  ASSUME Types, FitInv, StopDone
  PROVE  Kept
<1>1. tool' = NoTool /\ UNCHANGED <<disk, active, pc, batch, snap>>
  BY DEF StopDone, loop
<1>2. ToolInv'
  BY <1>1 DEF ToolInv, Preparing, NoTool
<1>3. Types'
  BY NoneTypes DEF StopDone, loop, Types, ServiceTypes, LoopTypes
<1> QED
  BY <1>1, <1>2, <1>3, SameSubs, SameBatch DEF Kept, FitInv

LEMMA AnsweredKeeps ==
  ASSUME Types, FitInv, CallAnswered
  PROVE  Kept
<1>1. tool = NoTool /\ UNCHANGED <<disk, active, tool, pc, batch, snap>>
  BY DEF CallAnswered, MayCall, service
<1>2. ToolInv'
  BY <1>1 DEF ToolInv, Preparing, FitInv
<1>3. Types'
  BY DEF CallAnswered, service, Types, ServiceTypes, LoopTypes
<1> QED
  BY <1>1, <1>2, <1>3, SameSubs, SameBatch DEF Kept, FitInv

LEMMA WrittenKeeps ==
  ASSUME Types, FitInv, ManifestWritten
  PROVE  Kept
<1> DEFINE s == tool.sub  m == disk[s]
<1>0. /\ tool \in Calls /\ s \in Subs /\ m \in Seq(Activation) /\ tool.at = "begin"
      /\ pc = "step" /\ last = "tools" /\ turn \in 1..MaxTurns /\ active[s] = NoActive
      /\ Len(m) < MaxActs /\ tool # NoTool
      /\ disk \in [Subs -> Seq(Activation)] /\ tool.op \in {"launch", "continue"}
  BY DEF ManifestWritten, Types, ServiceTypes, LoopTypes, FitInv, ToolInv, Calls,
         Preparing, NoTool
<1>1. UNCHANGED <<count, active, orphans, loop, stopping, halted, told, crossed>>
  BY DEF ManifestWritten
<1>2. CASE disk' = [disk EXCEPT ![s] = WithNew(m)]
           /\ tool' = [tool EXCEPT !.at = "scratch", !.seen = m]
  <2>1. WithNew(m) \in Seq(Activation) /\ Len(WithNew(m)) = Len(m) + 1
    BY <1>0, NewManifest
  <2>2. /\ disk' \in [Subs -> Seq(Activation)] /\ disk'[s] = WithNew(m)
        /\ \A r \in Subs \ {s} : disk'[r] = disk[r]
    BY <1>0, <1>2, <2>1
  <2>3. /\ tool' \in Calls /\ tool'.at = "scratch" /\ tool'.seen = m
        /\ tool'.sub = s /\ tool'.op = tool.op
    BY <1>0, <1>2 DEF Calls
  <2>4. ToolInv'
    BY <1>0, <1>1, <2>1, <2>2, <2>3 DEF ToolInv, Preparing, NoTool, loop
  <2>5. Types'
    BY <1>1, <2>2, <2>3 DEF Types, ServiceTypes, LoopTypes, loop
  <2>6. ASSUME NEW r \in Subs PROVE ActiveInv(r)'
    <3>1. CASE r # s
      BY <1>1, <2>2, <3>1, SameActive DEF FitInv
    <3>2. CASE r = s
      <4>1. active'[s] = NoActive /\ NoActive.at = "none"
        BY <1>0, <1>1 DEF NoActive
      <4>2. Len(disk'[s]) <= MaxActs
        BY <1>0, <2>1, <2>2, LenProperties
      <4> QED
        BY <3>2, <4>1, <4>2 DEF ActiveInv
    <3> QED
      BY <3>1, <3>2
  <2>7. BatchInv'
    BY <1>0, <1>1, <2>2 DEF FitInv, BatchInv, loop
  <2> QED
    BY <2>4, <2>5, <2>6, <2>7 DEF Kept, FitInv
<1>3. CASE tool' = [tool EXCEPT !.at = "undo", !.seen = m] /\ UNCHANGED disk
  <2>1. /\ tool' \in Calls /\ tool'.at = "undo" /\ tool'.seen = m
        /\ tool'.sub = s /\ tool'.op = tool.op
    BY <1>0, <1>3 DEF Calls
  <2>2. ToolInv'
    BY <1>0, <1>1, <1>3, <2>1 DEF ToolInv, Preparing, NoTool, loop
  <2>3. Types'
    BY <1>1, <1>3, <2>1 DEF Types, ServiceTypes, LoopTypes, loop
  <2> QED
    BY <1>1, <1>3, <2>2, <2>3, SameSubs, SameBatch DEF Kept, FitInv, loop
<1> QED
  BY <1>2, <1>3 DEF ManifestWritten

LEMMA StartedKeeps ==
  ASSUME Types, FitInv, Started
  PROVE  Kept
<1> DEFINE s == tool.sub
<1>0. /\ tool \in Calls /\ s \in Subs /\ disk[s] \in Seq(Activation) /\ tool.at = "scratch"
      /\ pc = "step" /\ last = "tools" /\ active[s] = NoActive /\ tool # NoTool
      /\ Len(disk[s]) = Len(tool.seen) + 1 /\ Len(disk[s]) \in Nat /\ Len(tool.seen) \in Nat
      /\ active \in [Subs -> InFlight] /\ tool.op \in {"launch", "continue"}
  BY LenProperties DEF Started, Types, ServiceTypes, FitInv, ToolInv, Calls, Preparing, NoTool
<1>1. UNCHANGED <<disk, count, orphans, loop, stopping, halted, told, crossed>>
  BY DEF Started
<1>2. CASE /\ active' = [active EXCEPT ![s] =
                 [NoActive EXCEPT !.n = Len(disk[s]), !.at = "run", !.late = tool.late]]
           /\ tool' = NoTool
  <2> DEFINE e == [NoActive EXCEPT !.n = Len(disk[s]), !.at = "run", !.late = tool.late]
  <2>1. e \in InFlight /\ e.at = "run" /\ e.n = Len(disk[s])
    BY <1>0, NoneTypes DEF InFlight, NoActive, Calls
  <2>2. /\ active' \in [Subs -> InFlight] /\ active'[s].at = "run"
        /\ active'[s].n = Len(disk[s]) /\ \A r \in Subs \ {s} : active'[r] = active[r]
    <3> HIDE DEF e
    <3> QED
      BY <1>0, <1>2, <2>1 DEF e
  <2>3. ToolInv'
    BY <1>2 DEF ToolInv, Preparing, NoTool
  <2>4. Types'
    BY <1>1, <1>2, <2>2, NoneTypes DEF Types, ServiceTypes, LoopTypes, loop
  <2>5. ASSUME NEW r \in Subs PROVE ActiveInv(r)'
    <3>1. CASE r # s
      BY <1>1, <2>2, <3>1, SameActive DEF FitInv
    <3>2. CASE r = s
      BY <1>0, <1>1, <2>2, <3>2 DEF ActiveInv, FitInv, NoActive
    <3> QED
      BY <3>1, <3>2
  <2> QED
    BY <1>1, <2>3, <2>4, <2>5, SameBatch DEF Kept, FitInv, loop
<1>3. CASE tool' = [tool EXCEPT !.at = "undo"] /\ UNCHANGED active
  <2>1. /\ tool' \in Calls /\ tool'.at = "undo" /\ tool'.seen = tool.seen
        /\ tool'.sub = s /\ tool'.op = tool.op
    BY <1>0, <1>3 DEF Calls
  <2>2. ToolInv'
    BY <1>0, <1>1, <1>3, <2>1 DEF ToolInv, Preparing, NoTool, loop
  <2>3. Types'
    BY <1>1, <1>3, <2>1 DEF Types, ServiceTypes, LoopTypes, loop
  <2> QED
    BY <1>1, <1>3, <2>2, <2>3, SameSubs, SameBatch DEF Kept, FitInv, loop
<1> QED
  BY <1>2, <1>3 DEF Started

LEMMA UndoneKeeps ==
  ASSUME Types, FitInv, Undone
  PROVE  Kept
<1> DEFINE s == tool.sub
<1>0. /\ tool \in Calls /\ s \in Subs /\ disk[s] \in Seq(Activation) /\ tool.at = "undo"
      /\ pc = "step" /\ active[s] = NoActive
      /\ (disk[s] = tool.seen \/ Len(disk[s]) = Len(tool.seen) + 1)
      /\ Len(disk[s]) \in Nat /\ Len(tool.seen) \in Nat /\ Len(disk[s]) <= MaxActs
      /\ tool.seen \in Seq(Activation) /\ disk \in [Subs -> Seq(Activation)]
  <2>1. tool \in Calls /\ tool.at = "undo" /\ tool # NoTool
    BY DEF Undone, Types, ServiceTypes, NoTool
  <2>2. s \in Subs /\ tool.seen \in Seq(Activation)
    BY <2>1 DEF Calls
  <2>3. ActiveInv(s)
    BY <2>2 DEF FitInv
  <2> QED
    BY <2>1, <2>2, <2>3, LenProperties
    DEF Types, ServiceTypes, FitInv, ToolInv, Preparing, ActiveInv
<1>1. /\ UNCHANGED <<active, loop, stopping, halted, told, crossed>>
      /\ tool' = NoTool /\ count' \in 0..MaxRunning
  BY DEF Undone, Released, Types, ServiceTypes
<1>2. ToolInv'
  BY <1>1 DEF ToolInv, Preparing, NoTool
<1>3. CASE disk' = [disk EXCEPT ![s] = tool.seen] /\ UNCHANGED orphans
  <2>1. /\ disk' \in [Subs -> Seq(Activation)] /\ disk'[s] = tool.seen
        /\ \A r \in Subs \ {s} : disk'[r] = disk[r]
    BY <1>0, <1>3
  <2>2. Types'
    BY <1>1, <1>3, <2>1, NoneTypes DEF Types, ServiceTypes, LoopTypes, loop
  <2>3. ASSUME NEW r \in Subs PROVE ActiveInv(r)'
    <3>1. CASE r # s
      BY <1>1, <2>1, <3>1, SameActive DEF FitInv
    <3>2. CASE r = s
      <4>1. active'[s] = NoActive /\ NoActive.at = "none"
        BY <1>0, <1>1 DEF NoActive
      <4>2. Len(disk'[s]) <= MaxActs
        BY <1>0, <2>1
      <4> QED
        BY <3>2, <4>1, <4>2 DEF ActiveInv
    <3> QED
      BY <3>1, <3>2
  <2>4. BatchInv'
    BY <1>0, <1>1 DEF FitInv, BatchInv, loop
  <2> QED
    BY <1>2, <2>2, <2>3, <2>4 DEF Kept, FitInv
<1>4. CASE /\ disk[s] # tool.seen /\ UNCHANGED disk
           /\ orphans' = orphans \cup {<<s, Len(disk[s])>>}
  <2>1. <<s, Len(disk[s])>> \in Acts
    BY <1>0, <1>4 DEF Acts
  <2>2. Types'
    BY <1>1, <1>4, <2>1, NoneTypes DEF Types, ServiceTypes, LoopTypes, loop
  <2> QED
    BY <1>1, <1>2, <1>4, <2>2, SameSubs, SameBatch DEF Kept, FitInv, loop
<1> QED
  BY <1>3, <1>4 DEF Undone

-----------------------------------------------------------------------------
(* Types and fit: the activations.                                          *)
LEMMA EndsKeeps ==
  ASSUME Types, FitInv, NEW s \in Subs, ChildEnds(s)
  PROVE  Kept
<1>1. UNCHANGED <<InMemory, loop, stopping, halted, told, crossed>>
  BY DEF ChildEnds
<1>2. Types'
  BY <1>1, EndMade DEF InMemory, loop, Others, Types, ServiceTypes, LoopTypes
<1>3. ASSUME NEW r \in Subs PROVE ActiveInv(r)'
  <2>1. CASE r # s
    BY <1>1, <2>1, EndMade, SameActive DEF Others, FitInv, InMemory
  <2>2. CASE r = s
    <3>1. ActiveInv(s) /\ active[s] # NoActive /\ active'[s] # NoActive
      BY EndMade DEF FitInv, NoActive
    <3> QED
      BY <1>1, <2>2, <3>1, EndMade DEF ActiveInv, Alike, InMemory
  <2> QED
    BY <2>1, <2>2
<1>4. ToolInv'
  <2>1. active[s] # NoActive
    BY EndMade DEF NoActive
  <2>2. tool \in Calls /\ (Preparing => tool.sub # s)
    BY <2>1 DEF FitInv, ToolInv, Types, ServiceTypes
  <2>3. Preparing => active'[tool.sub] = active[tool.sub]
    BY <2>2, EndMade DEF Others, Calls
  <2> QED
    BY <1>1, <2>3 DEF ToolInv, FitInv, Preparing, InMemory, loop
<1> QED
  BY <1>1, <1>2, <1>3, <1>4, SameBatch DEF Kept, FitInv, InMemory, loop

(* The end of an activation leaves the shape of every manifest alone.       *)
LEMMA SavedManifests ==
  ASSUME Types, FitInv, NEW s \in Subs, ChildSaves(s)
  PROVE  /\ disk' \in [Subs -> Seq(Activation)]
         /\ Alike(disk'[s], disk[s])
         /\ \A r \in Subs \ {s} : disk'[r] = disk[r]
<1> DEFINE a == active[s]
<1>1. /\ a.seen \in Seq(Activation) /\ Alike(a.seen, disk[s])
      /\ disk \in [Subs -> Seq(Activation)]
  BY SaveMade DEF Types, ServiceTypes, InFlight, FitInv, ActiveInv
<1>2. CASE disk' = [disk EXCEPT ![s] = Completed(a.seen, a.n)]
  <2>1. Completed(a.seen, a.n) \in Seq(Activation) /\ Alike(Completed(a.seen, a.n), a.seen)
    BY <1>1, CompletedManifest
  <2>2. Alike(Completed(a.seen, a.n), disk[s])
    BY <1>1, <2>1 DEF Alike
  <2> QED
    BY <1>1, <1>2, <2>1, <2>2
<1>3. CASE UNCHANGED disk
  BY <1>1, <1>3 DEF Alike
<1> QED
  BY <1>2, <1>3 DEF ChildSaves

LEMMA SavesKeeps ==
  ASSUME Types, FitInv, NEW s \in Subs, ChildSaves(s)
  PROVE  Kept
<1> DEFINE a == active[s]
<1>0. /\ a \in InFlight /\ a.at = "read" /\ a.n \in 1..Len(disk[s]) /\ Len(disk[s]) <= MaxActs
      /\ a.seen \in Seq(Activation) /\ Alike(a.seen, disk[s]) /\ disk[s] \in Seq(Activation)
      /\ Len(disk[s]) \in Nat /\ disk \in [Subs -> Seq(Activation)]
  BY SaveMade, LenProperties DEF Types, ServiceTypes, InFlight, FitInv, ActiveInv
<1>1. UNCHANGED <<count, tool, loop, stopping, halted, told, crossed>>
  BY DEF ChildSaves
<1>2. orphans' \subseteq Acts
  <2>1. <<s, a.n>> \in Acts
    BY <1>0 DEF Acts
  <2> QED
    BY <2>1 DEF ChildSaves, Types, ServiceTypes
<1>3. /\ disk' \in [Subs -> Seq(Activation)] /\ Alike(disk'[s], disk[s])
      /\ \A r \in Subs \ {s} : disk'[r] = disk[r]
  BY SavedManifests
<1>4. Types'
  BY <1>1, <1>2, <1>3, SaveMade DEF loop, Others, Types, ServiceTypes, LoopTypes
<1>5. ASSUME NEW r \in Subs PROVE ActiveInv(r)'
  <2>1. CASE r # s
    BY <1>3, <2>1, SaveMade, SameActive DEF Others, FitInv
  <2>2. CASE r = s
    <3>1. active'[s] # NoActive /\ active'[s].at \notin {"none", "read"}
      BY SaveMade DEF NoActive
    <3> QED
      BY <1>0, <1>3, <2>2, <3>1, SaveMade DEF ActiveInv, Alike
  <2> QED
    BY <2>1, <2>2
<1>6. ToolInv'
  <2>1. active[s] # NoActive
    BY SaveMade DEF NoActive
  <2>2. tool \in Calls /\ (Preparing => tool.sub # s)
    BY <2>1 DEF FitInv, ToolInv, Types, ServiceTypes
  <2>3. Preparing => active'[tool.sub] = active[tool.sub] /\ disk'[tool.sub] = disk[tool.sub]
    BY <1>3, <2>2, SaveMade DEF Others, Calls
  <2> QED
    BY <1>1, <2>3 DEF ToolInv, FitInv, Preparing, loop
<1>7. BatchInv'
  <2>1. CASE snap = <<>>
    BY <1>1, <2>1 DEF FitInv, BatchInv, loop
  <2>2. CASE snap # <<>>
    <3>1. batch # <<>> /\ Head(batch)[1] \in Subs
      BY <2>2 DEF FitInv, BatchInv, Types, LoopTypes, Acts
    <3>2. Alike(disk'[Head(batch)[1]], disk[Head(batch)[1]])
      BY <1>3, <3>1 DEF Alike
    <3> QED
      BY <1>1, <2>2, <3>2 DEF FitInv, BatchInv, Alike, loop
  <2> QED
    BY <2>1, <2>2
<1> QED
  BY <1>4, <1>5, <1>6, <1>7 DEF Kept, FitInv

LEMMA ReleasesKeeps ==
  ASSUME Types, FitInv, NEW s \in Subs, ChildReleases(s)
  PROVE  Kept
<1>1. UNCHANGED <<disk, tool, orphans, loop, stopping, halted, told, crossed>>
  BY DEF ChildReleases
<1>2. Types'
  <2>1. count' \in 0..MaxRunning
    BY DEF ChildReleases, Released, Types, ServiceTypes
  <2> QED
    BY <1>1, <2>1, ReleaseMade DEF loop, Others, Types, ServiceTypes, LoopTypes
<1>3. ASSUME NEW r \in Subs PROVE ActiveInv(r)'
  <2>1. CASE r # s
    BY <1>1, <2>1, ReleaseMade, SameActive DEF Others, FitInv
  <2>2. CASE r = s
    <3>1. ActiveInv(s) /\ active[s] # NoActive /\ active'[s] # NoActive
          /\ active'[s].at \notin {"none", "read"}
      BY ReleaseMade DEF FitInv, NoActive
    <3> QED
      BY <1>1, <2>2, <3>1, ReleaseMade DEF ActiveInv, Alike
  <2> QED
    BY <2>1, <2>2
<1>4. ToolInv'
  <2>1. active[s] # NoActive
    BY ReleaseMade DEF NoActive
  <2>2. tool \in Calls /\ (Preparing => tool.sub # s)
    BY <2>1 DEF FitInv, ToolInv, Types, ServiceTypes
  <2>3. Preparing => active'[tool.sub] = active[tool.sub]
    BY <2>2, ReleaseMade DEF Others, Calls
  <2> QED
    BY <1>1, <2>3 DEF ToolInv, FitInv, Preparing, loop
<1> QED
  BY <1>1, <1>2, <1>3, <1>4, SameBatch DEF Kept, FitInv, loop

LEMMA Announced ==
  ASSUME Types, NEW a \in Acts, Announce(a)
  PROVE  notes' \in Seq(Acts) /\ woken' \in BOOLEAN
<1>1. notes \in Seq(Acts) /\ woken \in BOOLEAN
  BY DEF Types, LoopTypes
<1>2. CASE Accepts(a)
  <2>1. notes' = Append(notes, a) /\ woken' = (woken \/ pc = "wait")
    BY <1>2 DEF Announce
  <2>2. woken' \in BOOLEAN
    BY <2>1
  <2> QED
    BY <1>1, <2>1, <2>2
<1>3. CASE ~Accepts(a)
  BY <1>1, <1>3 DEF Announce
<1> QED
  BY <1>2, <1>3

LEMMA SettlesKeeps ==
  ASSUME Types, FitInv, NEW s \in Subs, ChildSettles(s)
  PROVE  Kept
<1>1. /\ UNCHANGED <<disk, count, tool, orphans, pc, last, turn, aborted, reason, batch,
             snap, iter, delivered, outs, stopping, halted, told>>
  BY DEF ChildSettles
<1>2. <<s, active[s].n>> \in Acts
  <2>1. ActiveInv(s) /\ disk[s] \in Seq(Activation)
    BY DEF FitInv, Types, ServiceTypes
  <2> QED
    BY <2>1, SettleMade, LenProperties DEF ActiveInv, Acts
<1>3. notes' \in Seq(Acts) /\ woken' \in BOOLEAN /\ crossed' \subseteq Acts
  BY <1>2, Announced DEF ChildSettles, Types, LoopTypes
<1>4. Types'
  BY <1>1, <1>3, SettleMade DEF Others, Types, ServiceTypes, LoopTypes
<1>5. ASSUME NEW r \in Subs PROVE ActiveInv(r)'
  <2>1. CASE r # s
    BY <1>1, <2>1, SettleMade, SameActive DEF Others, FitInv
  <2>2. CASE r = s
    BY <1>1, <2>2, SettleMade DEF ActiveInv, FitInv, NoActive
  <2> QED
    BY <2>1, <2>2
<1>6. ToolInv'
  <2>1. active[s] # NoActive
    BY SettleMade DEF NoActive
  <2>2. tool \in Calls /\ (Preparing => tool.sub # s)
    BY <2>1 DEF FitInv, ToolInv, Types, ServiceTypes
  <2>3. Preparing => active'[tool.sub] = active[tool.sub]
    BY <2>2, SettleMade DEF Others, Calls
  <2> QED
    BY <1>1, <2>3 DEF ToolInv, FitInv, Preparing
<1> QED
  BY <1>1, <1>4, <1>5, <1>6, SameBatch DEF Kept, FitInv

-----------------------------------------------------------------------------
(* Types and fit: the turn.                                                 *)
LEMMA LoopKeeps ==
  ASSUME Types, FitInv, UNCHANGED service, LoopTypes', BatchInv',
         tool = NoTool \/ UNCHANGED <<pc, last>>
  PROVE  Kept
<1>1. ToolInv'
  BY DEF FitInv, ToolInv, Preparing, service, NoTool
<1>2. ServiceTypes'
  BY DEF Types, ServiceTypes, service
<1>3. UNCHANGED <<disk, active>>
  BY DEF service
<1> QED
  BY <1>1, <1>2, <1>3, SameSubs DEF Kept, Types, FitInv

(* Outside of record and mark nothing is taken out; outside of step no call *)
(* is in progress.                                                          *)
LEMMA NoBatch ==
  ASSUME FitInv, pc \notin {"record", "mark"}
  PROVE  batch = <<>> /\ snap = <<>>
BY DEF FitInv, BatchInv
LEMMA NoCall ==
  ASSUME FitInv, pc # "step"
  PROVE  tool = NoTool
BY DEF FitInv, ToolInv
LEMMA EmptyBatch ==
  ASSUME batch' = <<>>, snap' = <<>>
  PROVE  BatchInv'
BY DEF BatchInv

LEMMA OutsTypes == Outstanding \in BOOLEAN /\ Outstanding' \in BOOLEAN
BY DEF Outstanding

LEMMA StartKeeps ==
  ASSUME Types, FitInv, NEW user \in BOOLEAN, Start(user)
  PROVE  Kept
<1>1. UNCHANGED service /\ tool = NoTool /\ batch' = <<>> /\ snap' = <<>>
  BY NoBatch, NoCall DEF Start
<1>2. iter' \in [left : SUBSET Subs, cur : SUBSET Acts]
  BY DEF Start, NoIter, Known
<1>3. /\ pc' = "load" /\ last' = "none" /\ turn' = turn + 1 /\ turn < MaxTurns
      /\ halted' = FALSE
      /\ UNCHANGED <<aborted, reason, notes, batch, snap, delivered, outs, woken,
             stopping, told, crossed>>
  BY DEF Start
<1>4. turn' \in 1..MaxTurns
  BY <1>3 DEF Types, LoopTypes
<1>5. LoopTypes'
  <2>1. {aborted, outs, woken, stopping, halted}' \subseteq BOOLEAN
    BY <1>3 DEF Types, LoopTypes
  <2> QED
    BY <1>2, <1>3, <1>4, <2>1 DEF Types, LoopTypes
<1> QED
  BY <1>1, <1>5, LoopKeeps, EmptyBatch

LEMMA ManifestKeeps ==
  ASSUME Types, FitInv, NEW s \in Subs, LoadManifest(s)
  PROVE  Kept
<1>1. UNCHANGED service /\ UNCHANGED <<pc, last, batch, snap>> /\ pc = "load"
  BY DEF LoadManifest, MayLoad
<1>2. iter' \in [left : SUBSET Subs, cur : SUBSET Acts]
  BY DEF LoadManifest, Pending, Saved, Types, LoopTypes
<1>3. LoopTypes'
  BY <1>2 DEF LoadManifest, Types, LoopTypes
<1> QED
  BY <1>1, <1>3, LoopKeeps, SameBatch DEF service

LEMMA ResultKeeps ==
  ASSUME Types, FitInv, LoadResult
  PROVE  Kept
<1>1. UNCHANGED service /\ UNCHANGED <<pc, last, batch, snap>> /\ pc = "load"
  BY DEF LoadResult, MayLoad
<1>2. PICK a \in iter.cur : Announce(a) /\ iter' = [iter EXCEPT !.cur = @ \ {a}]
  BY DEF LoadResult
<1>3. /\ a \in Acts /\ iter' \in [left : SUBSET Subs, cur : SUBSET Acts]
      /\ notes' \in Seq(Acts) /\ woken' \in BOOLEAN
  BY <1>2, Announced DEF Types, LoopTypes
<1>4. LoopTypes'
  BY <1>3 DEF LoadResult, Types, LoopTypes
<1> QED
  BY <1>1, <1>4, LoopKeeps, SameBatch DEF service

LEMMA DrainKeeps ==
  ASSUME Types, FitInv, Drain
  PROVE  Kept
<1>1. UNCHANGED service /\ tool = NoTool /\ snap' = <<>> /\ pc' = "record"
  BY NoBatch, NoCall DEF Drain
<1>2. PICK k \in 1..Len(notes) :
        batch' = SubSeq(notes, 1, k) /\ notes' = SubSeq(notes, k + 1, Len(notes))
  BY DEF Drain
<1>3. batch' \in Seq(Acts) /\ notes' \in Seq(Acts)
  <2>1. notes \in Seq(Acts) /\ Len(notes) \in Nat
    BY LenProperties DEF Types, LoopTypes
  <2> QED
    BY <1>2, <2>1
<1>4. LoopTypes'
  BY <1>3 DEF Drain, Types, LoopTypes
<1>5. BatchInv'
  BY <1>1 DEF BatchInv
<1> QED
  BY <1>1, <1>4, <1>5, LoopKeeps

LEMMA ProceedKeeps ==
  ASSUME Types, FitInv, Proceed
  PROVE  Kept
<1>1. UNCHANGED service /\ tool = NoTool /\ batch' = <<>> /\ snap' = <<>>
  BY NoBatch, NoCall DEF Proceed
<1>2. outs' \in BOOLEAN
  BY OutsTypes DEF Proceed, Asks, Types, LoopTypes
<1>3. LoopTypes'
  BY <1>2 DEF Proceed, Asks, Types, LoopTypes
<1> QED
  BY <1>1, <1>3, LoopKeeps, EmptyBatch

LEMMA RecordedKeeps ==
  ASSUME Types, FitInv, Recorded
  PROVE  Kept
<1>1. UNCHANGED service /\ tool = NoTool /\ snap = <<>> /\ snap' = snap
  BY NoCall DEF Recorded, FitInv, BatchInv
<1>2. BatchInv'
  BY <1>1 DEF BatchInv, Recorded, Unrecorded
<1>3. Range(batch) \subseteq Acts
  <2>1. batch \in [1..Len(batch) -> Acts]
    BY LenProperties DEF Types, LoopTypes
  <2> QED
    BY <2>1 DEF Range
<1>4. notes' \in Seq(Acts) /\ batch' \in Seq(Acts)
  <2>1. notes \in Seq(Acts) /\ batch \in Seq(Acts)
    BY DEF Types, LoopTypes
  <2>2. UNCHANGED <<notes, batch>> \/ (notes' = batch \o notes /\ batch' = <<>>)
    BY DEF Recorded, Unrecorded
  <2>3. batch \o notes \in Seq(Acts) /\ <<>> \in Seq(Acts)
    BY <2>1, ConcatProperties, EmptySeq
  <2> QED
    BY <2>1, <2>2, <2>3
<1>5. woken' \in BOOLEAN
  BY DEF Recorded, Unrecorded, Ends, Types, LoopTypes
<1>6. LoopTypes'
  BY <1>3, <1>4, <1>5 DEF Recorded, Unrecorded, Ends, Types, LoopTypes
<1> QED
  BY <1>1, <1>2, <1>6, LoopKeeps

LEMMA ReadsKeeps ==
  ASSUME Types, FitInv, MarkReads
  PROVE  Kept
<1>1. UNCHANGED service /\ tool = NoTool /\ pc' = "mark" /\ batch # <<>> /\ batch' = batch
  BY NoCall DEF MarkReads
<1>2. batch[1] \in Acts /\ Head(batch) = batch[1] /\ Head(batch)[1] \in Subs
  BY <1>1 DEF Types, LoopTypes, Acts
<1>3. disk[Head(batch)[1]] \in Seq(Activation)
  BY <1>2 DEF Types, ServiceTypes
<1>4. LoopTypes'
  BY <1>3 DEF MarkReads, Types, LoopTypes
<1>5. BatchInv'
  BY <1>1 DEF MarkReads, BatchInv, Alike, service
<1> QED
  BY <1>1, <1>4, <1>5, LoopKeeps

LEMMA ConfirmedKeeps ==
  ASSUME Types, FitInv, Confirmed
  PROVE  Kept
<1>1. /\ UNCHANGED service /\ tool = NoTool /\ batch' = <<>> /\ snap' = <<>>
  BY NoCall DEF Confirmed, FitInv, BatchInv
<1>2. outs' \in BOOLEAN
  BY OutsTypes DEF Confirmed, Asks, Types, LoopTypes
<1>3. LoopTypes'
  BY <1>2 DEF Confirmed, Asks, Types, LoopTypes
<1> QED
  BY <1>1, <1>3, LoopKeeps, EmptyBatch

LEMMA StateReadKeeps ==
  ASSUME Types, FitInv, StateRead
  PROVE  Kept
<1>1. UNCHANGED service /\ tool = NoTool /\ batch' = <<>> /\ snap' = <<>>
  BY NoBatch, NoCall DEF StateRead
<1>2. MustNotWait \in BOOLEAN
  BY DEF MustNotWait, Types, LoopTypes
<1>3. woken' \in BOOLEAN
  BY <1>2 DEF StateRead, Ends
<1>4. LoopTypes'
  BY <1>3 DEF StateRead, Ends, Types, LoopTypes
<1> QED
  BY <1>1, <1>4, LoopKeeps, EmptyBatch

LEMMA WakesKeeps ==
  ASSUME Types, FitInv, Wakes
  PROVE  Kept
<1>1. UNCHANGED service /\ tool = NoTool /\ batch' = <<>> /\ snap' = <<>>
  BY NoBatch, NoCall DEF Wakes
<1>2. LoopTypes'
  BY DEF Wakes, Ends, Types, LoopTypes
<1> QED
  BY <1>1, <1>2, LoopKeeps, EmptyBatch

LEMMA StepKeeps ==
  ASSUME Types, FitInv, StepEnds \/ LoopBreaks
  PROVE  Kept
<1>1. UNCHANGED service /\ tool = NoTool /\ batch' = <<>> /\ snap' = <<>>
  BY NoBatch, NoCall DEF StepEnds, LoopBreaks, StepOver
<1>2. LoopTypes'
  BY DEF StepEnds, LoopBreaks, StepOver, Ends, Types, LoopTypes
<1> QED
  BY <1>1, <1>2, LoopKeeps, EmptyBatch

LEMMA AbortKeeps ==
  ASSUME Types, FitInv, AbortNoticed
  PROVE  Kept
<1>1. UNCHANGED service /\ tool = NoTool /\ batch' = <<>> /\ snap' = <<>>
  BY NoBatch, NoCall DEF AbortNoticed, StepOver
<1>2. LoopTypes'
  BY DEF AbortNoticed, StepOver, Ends, Types, LoopTypes
<1> QED
  BY <1>1, <1>2, LoopKeeps, EmptyBatch

LEMMA TurnEndsKeeps ==
  ASSUME Types, FitInv, TurnEnds
  PROVE  Kept
<1>1. UNCHANGED service /\ tool = NoTool /\ batch' = <<>> /\ snap' = <<>>
  BY NoBatch, NoCall DEF TurnEnds
<1>2. LoopTypes'
  <2>1. /\ iter' \in [left : SUBSET Subs, cur : SUBSET Acts]
        /\ notes' \in Seq(Acts) /\ delivered' \subseteq Acts
    BY DEF TurnEnds, NoIter
  <2>2. UNCHANGED <<turn, batch, snap, outs, woken, stopping, halted, told, crossed>>
        /\ pc' = "idle" /\ last' = "none" /\ reason' = "none" /\ aborted' = FALSE
    BY DEF TurnEnds
  <2> QED
    BY <2>1, <2>2 DEF Types, LoopTypes
<1> QED
  BY <1>1, <1>2, LoopKeeps, EmptyBatch

(* So does the mark of a delivery.                                          *)
LEMMA MarkedManifests ==
  ASSUME Types, FitInv, MarkWrites
  PROVE  /\ disk' \in [Subs -> Seq(Activation)]
         /\ \A r \in Subs : Alike(disk'[r], disk[r])
<1> DEFINE s == Head(batch)[1]  next == Marked(snap, Head(batch)[2])
<1>1. /\ s \in Subs
      /\ disk \in [Subs -> Seq(Activation)] /\ disk[s] \in Seq(Activation)
      /\ snap \in Seq(Activation)
  <2>1. batch \in Seq(Acts) /\ disk \in [Subs -> Seq(Activation)] /\ snap \in Seq(Activation)
    BY DEF Types, ServiceTypes, LoopTypes
  <2>2. Head(batch) \in Acts
    BY <2>1, HeadTailProperties DEF MarkWrites
  <2> QED
    BY <2>1, <2>2 DEF Acts
<1>2. next \in Seq(Activation) /\ Alike(next, disk[s])
  <2>1. Alike(snap, disk[s])
    BY DEF MarkWrites, FitInv, BatchInv
  <2>2. next \in Seq(Activation) /\ Alike(next, snap)
    BY <1>1, MarkedManifest DEF Types, LoopTypes
  <2> QED
    BY <2>1, <2>2 DEF Alike
<1>3. /\ disk' \in [Subs -> Seq(Activation)]
      /\ \A r \in Subs : Alike(disk'[r], disk[r])
  <2>1. PICK m \in {disk[s], next} : disk' = [disk EXCEPT ![s] = m]
    BY <1>1 DEF MarkWrites
  <2>2. m \in Seq(Activation) /\ Alike(m, disk[s])
    BY <1>1, <1>2 DEF Alike
  <2> HIDE DEF next
  <2> QED
    BY <1>1, <2>1, <2>2 DEF Alike
<1> QED
  BY <1>3

LEMMA WritesKeeps ==
  ASSUME Types, FitInv, MarkWrites
  PROVE  Kept
<1>0. /\ pc = "mark" /\ batch # <<>> /\ tool = NoTool /\ tool' = NoTool
      /\ UNCHANGED <<count, active, tool, pc, last, turn, aborted, reason, notes, iter,
             delivered, outs, woken, stopping, halted, told, crossed>>
      /\ batch' = Tail(batch) /\ snap' = <<>>
  BY NoCall DEF MarkWrites
<1>1. batch' \in Seq(Acts)
  BY <1>0, HeadTailProperties DEF Types, LoopTypes
<1>3. /\ disk' \in [Subs -> Seq(Activation)]
      /\ \A r \in Subs : disk'[r] \in Seq(Activation) /\ Alike(disk'[r], disk[r])
  BY MarkedManifests
<1>4. orphans' \subseteq Acts
  BY DEF MarkWrites, Saved, Types, ServiceTypes
<1>5. Types'
  BY <1>0, <1>1, <1>3, <1>4, EmptySeq DEF Types, ServiceTypes, LoopTypes
<1>6. \A r \in Subs : ActiveInv(r)'
  BY <1>0, <1>3, LikeActive DEF FitInv
<1>7. ToolInv'
  BY <1>0 DEF ToolInv, Preparing, NoTool
<1>8. BatchInv'
  BY <1>0 DEF BatchInv
<1> QED
  BY <1>5, <1>6, <1>7, <1>8 DEF Kept, FitInv

(* What Stop tells the call in progress and the activations.                *)
LEMMA CallTold ==
  ASSUME Types, Stop
  PROVE  /\ tool' \in Calls
         /\ tool'.op = tool.op /\ tool'.sub = tool.sub /\ tool'.at = tool.at
         /\ tool'.seen = tool.seen
         /\ tool'.cancelled = (tool.cancelled \/ Preparing)
         /\ tool'.late = (tool.late \/ tool.op = "send")
<1> DEFINE c == tool.cancelled \/ Preparing  l == tool.late \/ tool.op = "send"
<1>1. tool \in Calls /\ tool' = [tool EXCEPT !.cancelled = c, !.late = l]
  BY DEF Stop, PreparationCancelled, Types, ServiceTypes
<1>2. c \in BOOLEAN /\ l \in BOOLEAN
  OBVIOUS
<1> HIDE DEF c, l
<1>3. /\ tool' \in Calls /\ tool'.op = tool.op /\ tool'.sub = tool.sub
      /\ tool'.at = tool.at /\ tool'.seen = tool.seen /\ tool'.cancelled = c /\ tool'.late = l
  BY <1>1, <1>2 DEF Calls
<1> QED
  BY <1>3 DEF c, l

LEMMA SubTold ==
  ASSUME Types, Stop, NEW s \in Subs
  PROVE  /\ active'[s] \in InFlight
         /\ active[s] = NoActive => active'[s] = NoActive
         /\ active'[s].at = active[s].at /\ active'[s].n = active[s].n
         /\ active'[s].seen = active[s].seen
         /\ active[s] # NoActive /\ active[s].at = "run" => active'[s].cancel
<1> DEFINE c == active[s].cancel \/ active[s].at = "run"
<1>1. active[s] \in InFlight
  BY DEF Types, ServiceTypes
<1>2. CASE active[s] = NoActive
  BY <1>1, <1>2 DEF Stop
<1>3. CASE active[s] # NoActive
  <2>1. active'[s] = [active[s] EXCEPT !.suppress = TRUE, !.cancel = c]
    BY <1>3 DEF Stop
  <2>2. c \in BOOLEAN /\ (active[s].at = "run" => c)
    OBVIOUS
  <2> HIDE DEF c
  <2> QED
    BY <1>1, <1>3, <2>1, <2>2 DEF InFlight
<1> QED
  BY <1>2, <1>3

LEMMA PressedKeeps ==
  ASSUME Types, FitInv, Stop
  PROVE  Kept
<1>1. /\ UNCHANGED <<disk, count, orphans, loop, told, crossed>>
      /\ stopping' = TRUE /\ halted' = TRUE
  BY DEF Stop
<1>2. active' \in [Subs -> InFlight]
  <2>1. active' = [r \in Subs |-> active'[r]]
    BY DEF Stop
  <2> QED
    BY <2>1, SubTold
<1>3. Types'
  BY <1>1, <1>2, CallTold DEF Types, ServiceTypes, LoopTypes, loop
<1>4. ASSUME NEW s \in Subs PROVE ActiveInv(s)'
  <2>1. CASE active[s] = NoActive
    BY <1>1, <2>1, SubTold, SameActive DEF FitInv
  <2>2. CASE active[s] # NoActive
    <3>1. active[s].at # "none" /\ ActiveInv(s)
      BY <2>2 DEF FitInv, ActiveInv
    <3>2. active'[s].at # "none" /\ active'[s] # NoActive
      BY <3>1, SubTold DEF NoActive
    <3> QED
      BY <1>1, <3>1, <3>2, SubTold DEF ActiveInv, Alike
  <2> QED
    BY <2>1, <2>2
<1>5. ToolInv'
  <2>1. CASE tool = NoTool
    <3>1. /\ tool.op = "none" /\ tool.at = "none" /\ tool.late = FALSE
          /\ tool.cancelled = FALSE /\ tool.sub = 1 /\ tool.seen = <<>>
      BY <2>1 DEF NoTool
    <3>2. tool' = tool
      <4>1. /\ tool'.op = "none" /\ tool'.sub = 1 /\ tool'.at = "none"
            /\ tool'.seen = <<>> /\ tool' \in Calls
        BY <3>1, CallTold
      <4>2. tool'.cancelled = FALSE /\ tool'.late = FALSE
        BY <3>1, CallTold DEF Preparing
      <4> QED
        BY <2>1, <4>1, <4>2 DEF NoTool, Calls
    <3> QED
      BY <1>1, <2>1, <3>2 DEF ToolInv, Preparing, NoTool, loop
  <2>2. CASE tool # NoTool
    <3>1. ToolInv /\ tool.at # "none" /\ tool'.at # "none" /\ tool' # NoTool
      BY <2>2, CallTold DEF FitInv, ToolInv, NoTool
    <3>2. tool.sub \in Subs
      BY DEF Types, ServiceTypes, Calls
    <3> QED
      BY <1>1, <2>2, <3>1, <3>2, CallTold, SubTold DEF ToolInv, Preparing, loop
  <2> QED
    BY <2>1, <2>2
<1> QED
  BY <1>1, <1>3, <1>4, <1>5, SameBatch DEF Kept, FitInv, loop

LEMMA AbortsKeeps ==
  ASSUME Types, FitInv, SessionAborts
  PROVE  Kept
<1>1. /\ UNCHANGED service /\ UNCHANGED <<pc, last, turn, reason, batch, snap, iter,
             delivered, outs, halted, told, crossed>>
      /\ notes' = <<>> /\ stopping' = FALSE
  BY DEF SessionAborts
<1>2. aborted' \in BOOLEAN /\ woken' \in BOOLEAN
  <2>1. /\ aborted' = (aborted \/ pc \notin {"idle", "end"})
        /\ woken' = (woken \/ pc = "wait")
    BY DEF SessionAborts
  <2> QED
    BY <2>1
<1>3. LoopTypes'
  BY <1>1, <1>2, EmptySeq DEF Types, LoopTypes
<1> QED
  BY <1>1, <1>3, LoopKeeps, SameBatch DEF service

LEMMA RestartKeeps ==
  ASSUME Types, FitInv, Restart
  PROVE  Kept
<1>1. /\ count' = 0 /\ tool' = NoTool /\ active' = [s \in Subs |-> NoActive]
      /\ orphans' = {}
      /\ pc' = "idle" /\ last' = "none" /\ reason' = "none" /\ aborted' = FALSE
      /\ notes' = <<>> /\ batch' = <<>> /\ snap' = <<>> /\ iter' = NoIter
      /\ delivered' = {} /\ outs' = FALSE /\ woken' = FALSE
      /\ stopping' = FALSE /\ halted' = FALSE
      /\ UNCHANGED <<turn, told, crossed>>
  BY DEF Restart
<1>2. disk' = [s \in Subs |-> disk'[s]]
  BY DEF Restart
<1>3. ASSUME NEW s \in Subs
      PROVE  disk'[s] \in Seq(Activation) /\ Len(disk'[s]) <= MaxActs
  <2>1. disk[s] \in Seq(Activation) /\ Len(disk[s]) <= MaxActs
    BY DEF Types, ServiceTypes, FitInv, ActiveInv
  <2>2. disk'[s] \in {disk[s], Completed(disk[s], Len(disk[s]))}
    BY DEF Restart
  <2> QED
    BY <2>1, <2>2, CompletedManifest DEF Alike
<1>4. disk' \in [Subs -> Seq(Activation)]
  BY <1>2, <1>3
<1>5. Types'
  <2>1. iter' \in [left : SUBSET Subs, cur : SUBSET Acts] /\ count' \in 0..MaxRunning
    BY <1>1 DEF NoIter
  <2>2. active' \in [Subs -> InFlight] /\ tool' \in Calls
    BY <1>1, NoneTypes
  <2> QED
    BY <1>1, <1>4, <2>1, <2>2, EmptySeq DEF Types, ServiceTypes, LoopTypes
<1>6. \A s \in Subs : ActiveInv(s)'
  BY <1>1, <1>3 DEF ActiveInv, NoActive
<1>7. ToolInv'
  BY <1>1 DEF ToolInv, Preparing, NoTool
<1> QED
  BY <1>1, <1>5, <1>6, <1>7, EmptyBatch DEF Kept, FitInv

-----------------------------------------------------------------------------
LEMMA InitFits == Init => Types /\ FitInv
<1> SUFFICES ASSUME Init PROVE Types /\ FitInv
  OBVIOUS
<1>1. Types
  <2>1. iter \in [left : SUBSET Subs, cur : SUBSET Acts] /\ count \in 0..MaxRunning
    BY DEF Init, NoIter
  <2>2. active \in [Subs -> InFlight] /\ tool \in Calls /\ disk \in [Subs -> Seq(Activation)]
    BY NoneTypes, EmptySeq DEF Init
  <2>3. ServiceTypes
    BY <2>1, <2>2 DEF Init, ServiceTypes
  <2>4. turn \in 0..MaxTurns
    BY DEF Init
  <2>5. {aborted, outs, woken, stopping, halted} \subseteq BOOLEAN
    BY DEF Init
  <2>6. LoopTypes
    BY <2>1, <2>4, <2>5, EmptySeq DEF Init, LoopTypes
  <2> QED
    BY <2>3, <2>6 DEF Types
<1>2. \A s \in Subs : ActiveInv(s)
  BY DEF Init, ActiveInv, NoActive
<1>3. ToolInv /\ BatchInv
  BY DEF Init, ToolInv, Preparing, NoTool, BatchInv
<1> QED
  BY <1>1, <1>2, <1>3 DEF FitInv

LEMMA StepFits == Types /\ FitInv /\ [Next]_vars => Types' /\ FitInv'
<1> SUFFICES ASSUME Types, FitInv, [Next]_vars PROVE Kept
  BY DEF Kept
<1>1. CASE ToolStep
  BY <1>1, LaunchKeeps, ContinueKeeps, SendKeeps, GoesOnKeeps, StopKeeps, StopDoneKeeps,
     AnsweredKeeps, WrittenKeeps, StartedKeeps, UndoneKeeps DEF ToolStep
<1>2. CASE LoopStep
  BY <1>2, ManifestKeeps, ResultKeeps, DrainKeeps, ProceedKeeps, RecordedKeeps,
     ReadsKeeps, WritesKeeps, ConfirmedKeeps, StateReadKeeps, WakesKeeps, StepKeeps,
     AbortKeeps, TurnEndsKeeps DEF LoopStep
<1>3. CASE Stop \/ SessionAborts \/ Restart
  BY <1>3, PressedKeeps, AbortsKeeps, RestartKeeps
<1>4. ASSUME NEW s \in Subs, ChildStep(s) PROVE Kept
  BY <1>4, EndsKeeps, SavesKeeps, ReleasesKeeps, SettlesKeeps DEF ChildStep
<1>5. ASSUME NEW user \in BOOLEAN, Start(user) PROVE Kept
  BY <1>5, StartKeeps
<1>6. CASE UNCHANGED vars
  <2>1. UNCHANGED service /\ UNCHANGED <<pc, last, batch, snap, disk>>
    BY <1>6 DEF vars, service, loop
  <2>2. LoopTypes'
    BY <1>6 DEF vars, loop, Types, LoopTypes
  <2> QED
    BY <2>1, <2>2, LoopKeeps, SameBatch
<1> QED
  BY <1>1, <1>2, <1>3, <1>4, <1>5, <1>6 DEF Next

(* In every state the variables have their types and fit together.          *)
THEOREM ServiceFits == Spec => [](Types /\ FitInv)
BY InitFits, StepFits, PTL DEF Spec

(* Every reachable state has the types the check states (all of             *)
(* subagent-service.ts and of the loop).                                    *)
THEOREM TypeCorrect == Spec => []TypeOK
<1>1. Types /\ FitInv => TypeOK
  <2> SUFFICES ASSUME Types, FitInv PROVE TypeOK
    OBVIOUS
  <2>1. ASSUME NEW s \in Subs
        PROVE  /\ disk[s] \in Seq(Activation) /\ Len(disk[s]) <= MaxActs
               /\ active[s].at \in {"none", "run", "read", "saved", "unsaved",
                                    "settle", "nothing"}
               /\ active[s].n \in 0..Len(disk[s])
               /\ active[s] = NoActive <=> active[s].at = "none"
    <3>1. ActiveInv(s) /\ active[s] \in InFlight /\ disk[s] \in Seq(Activation)
          /\ Len(disk[s]) \in Nat
      BY LenProperties DEF Types, ServiceTypes, FitInv
    <3>2. active[s].at = "none" => active[s].n = 0
      BY <3>1 DEF ActiveInv, NoActive
    <3> QED
      BY <3>1, <3>2 DEF ActiveInv, InFlight
  <2>2. Range(notes) \subseteq Acts /\ Range(batch) \subseteq Acts
    <3>1. notes \in [1..Len(notes) -> Acts] /\ batch \in [1..Len(batch) -> Acts]
      BY LenProperties DEF Types, LoopTypes
    <3> QED
      BY <3>1 DEF Range
  <2>3. tool \in Calls /\ ToolInv /\ BatchInv /\ orphans \subseteq Acts /\ LoopTypes
    BY DEF Types, ServiceTypes, FitInv
  <2> QED
    BY <2>1, <2>2, <2>3 DEF TypeOK, Calls, ToolInv, BatchInv, LoopTypes, Types, ServiceTypes
<1> QED
  BY <1>1, ServiceFits, PTL

(***************************************************************************)
(* The safety properties, from the types and the fit of the variables       *)
(* established above, and at the end, from these, that a result is told to  *)
(* the model once.                                                          *)
(***************************************************************************)

USE SubagentsAssumption

(* What a step of the tool leaves of the call in progress.                  *)
LEMMA WrittenMade ==
  ASSUME Types, ManifestWritten
  PROVE  /\ tool'.op = tool.op /\ tool'.sub = tool.sub /\ tool'.late = tool.late
         /\ tool'.cancelled = tool.cancelled
         /\ tool.at = "begin" /\ tool'.at \in {"scratch", "undo"}
         /\ tool'.seen = disk[tool.sub]
BY DEF Types, ServiceTypes, ManifestWritten, Calls

LEMMA GoneOn ==
  ASSUME Types, SendGoesOn, tool' # NoTool
  PROVE  /\ tool.op = "send" /\ tool'.op = "continue" /\ tool'.at = "begin"
         /\ tool'.sub = tool.sub /\ tool'.late = tool.late
         /\ tool'.cancelled = tool.cancelled /\ active[tool.sub] = NoActive
BY DEF Types, ServiceTypes, SendGoesOn, Calls

LEMMA StartMade ==
  ASSUME Types, Started
  PROVE  /\ tool.at = "scratch" /\ tool.sub \in Subs
         /\ \/ /\ tool' = NoTool /\ ~tool.cancelled /\ Others(tool.sub)
               /\ active'[tool.sub].at = "run"
               /\ active'[tool.sub].n = Len(disk[tool.sub])
               /\ active'[tool.sub].late = tool.late
            \/ /\ UNCHANGED active
               /\ tool'.at = "undo" /\ tool'.sub = tool.sub /\ tool'.op = tool.op
               /\ tool'.seen = tool.seen
               /\ tool'.late = tool.late /\ tool'.cancelled = tool.cancelled
<1> DEFINE s == tool.sub
           e == [NoActive EXCEPT !.n = Len(disk[s]), !.at = "run", !.late = tool.late]
<1>1. tool \in Calls /\ s \in Subs /\ active \in [Subs -> InFlight] /\ Len(disk[s]) \in Nat
      /\ tool.at = "scratch"
  BY LenProperties DEF Types, ServiceTypes, Calls, Started
<1>2. e \in InFlight /\ e.at = "run" /\ e.n = Len(disk[s]) /\ e.late = tool.late
  BY <1>1, NoneTypes DEF InFlight, NoActive, Calls
<1>3. CASE active' = [active EXCEPT ![s] = e] /\ tool' = NoTool /\ ~tool.cancelled
  <2> HIDE DEF e
  <2> QED
    BY <1>1, <1>2, <1>3 DEF Others
<1>4. CASE UNCHANGED active /\ tool' = [tool EXCEPT !.at = "undo"]
  BY <1>1, <1>4 DEF Calls
<1> QED
  BY <1>3, <1>4 DEF Started

-----------------------------------------------------------------------------
(* Stop reaches every subagent: what it has to have told to those that run  *)
(* and to the call that is about to start one.                              *)
Told(s) == active[s].at = "run" => active[s].cancel \/ active[s].late
CallStops == Preparing \/ tool.op = "send" => tool.cancelled \/ tool.late
StopInv == halted => (\A s \in Subs : Told(s)) /\ CallStops

LEMMA CallsStop ==
  ASSUME Types, StopInv, NEW op \in {"launch", "send", "continue", "stop"},
         NEW s \in Subs, NEW at \in {"begin", "done"}, Call(op, s, at),
         UNCHANGED halted
  PROVE  halted' => CallStops'
<1>1. tool'.late = halted
  BY CallMade DEF Types, LoopTypes
<1> QED
  BY <1>1 DEF CallStops, Preparing

LEMMA ToolStops ==
  ASSUME Types, FitInv, StopInv, ToolStep
  PROVE  StopInv'
<1>0. UNCHANGED halted
  BY DEF ToolStep, CallLaunch, CallContinue, CallSend, CallStop, CallAnswered,
         SendGoesOn, StopDone, ManifestWritten, Started, Undone
<1>1. SUFFICES ASSUME halted PROVE (\A s \in Subs : Told(s)') /\ CallStops'
  BY <1>0 DEF StopInv
<1>2. (\A s \in Subs : Told(s)) /\ CallStops
  BY <1>1 DEF StopInv
<1>3. CASE CallLaunch
  BY <1>0, <1>1, <1>2, <1>3, CallsStop DEF CallLaunch, Prepares, Told
<1>4. ASSUME NEW s \in Subs, CallContinue(s) \/ CallSend(s)
      PROVE  (\A r \in Subs : Told(r)') /\ CallStops'
  BY <1>0, <1>1, <1>2, <1>4, CallsStop DEF CallContinue, CallSend, Prepares, Told
<1>5. ASSUME NEW s \in Subs, CallStop(s)
      PROVE  (\A r \in Subs : Told(r)') /\ CallStops'
  <2>1. CallStops'
    BY <1>0, <1>1, <1>5, CallsStop DEF CallStop
  <2>2. \A r \in Subs : Told(r)'
    BY <1>2, <1>5, StopMade DEF Told, Others
  <2> QED
    BY <2>1, <2>2
<1>6. CASE CallAnswered
  BY <1>2, <1>6 DEF CallAnswered, service, Told, CallStops, Preparing
<1>7. CASE SendGoesOn
  BY <1>2, <1>7, GoneOn DEF SendGoesOn, Told, CallStops, Preparing, NoTool
<1>8. CASE StopDone
  BY <1>2, <1>8 DEF StopDone, Told, CallStops, Preparing, NoTool
<1>9. CASE ManifestWritten
  <2>1. UNCHANGED active
    BY <1>9 DEF ManifestWritten
  <2> QED
    BY <1>2, <1>9, <2>1, WrittenMade DEF Told, CallStops, Preparing
<1>10. CASE Started
  <2>1. tool.cancelled \/ tool.late
    BY <1>2, <1>10, StartMade DEF CallStops, Preparing
  <2> QED
    BY <1>2, <1>10, <2>1, StartMade DEF Told, Others, CallStops, Preparing, NoTool
<1>11. CASE Undone
  BY <1>2, <1>11 DEF Undone, Told, CallStops, Preparing, NoTool
<1> QED
  BY <1>3, <1>4, <1>5, <1>6, <1>7, <1>8, <1>9, <1>10, <1>11 DEF ToolStep

LEMMA ChildStops ==
  ASSUME Types, StopInv, NEW s \in Subs, ChildStep(s)
  PROVE  StopInv'
<1>1. UNCHANGED <<tool, halted>>
  BY DEF ChildStep, ChildEnds, ChildSaves, ChildReleases, ChildSettles, InMemory
<1>2. Others(s) /\ active'[s].at # "run"
  BY EndMade, SaveMade, ReleaseMade, SettleMade DEF ChildStep, NoActive
<1> QED
  BY <1>1, <1>2 DEF StopInv, Told, CallStops, Preparing, Others

LEMMA LoopStops ==
  ASSUME StopInv, LoopStep \/ SessionAborts
  PROVE  StopInv'
<1>1. UNCHANGED <<tool, active, halted>>
  BY DEF LoopStep, LoadManifest, LoadResult, Drain, Proceed, Recorded, MarkReads,
         MarkWrites, Confirmed, StateRead, Wakes, StepEnds, LoopBreaks, AbortNoticed,
         TurnEnds, SessionAborts, service
<1> QED
  BY <1>1 DEF StopInv, Told, CallStops, Preparing

LEMMA PressedStops ==
  ASSUME Types, FitInv, Stop
  PROVE  StopInv'
<1>1. ASSUME NEW s \in Subs PROVE Told(s)'
  BY SubTold DEF Told, NoActive
<1>2. CallStops'
  BY CallTold DEF CallStops, Preparing
<1> QED
  BY <1>1, <1>2 DEF StopInv

LEMMA StepStops == Types /\ FitInv /\ StopInv /\ [Next]_vars => StopInv'
<1> SUFFICES ASSUME Types, FitInv, StopInv, [Next]_vars PROVE StopInv'
  OBVIOUS
<1>1. CASE Restart
  BY <1>1 DEF Restart, StopInv
<1>2. ASSUME NEW user \in BOOLEAN, Start(user) PROVE StopInv'
  BY <1>2 DEF Start, StopInv
<1>3. CASE UNCHANGED vars
  BY <1>3 DEF vars, service, StopInv, Told, CallStops, Preparing
<1> QED
  BY <1>1, <1>2, <1>3, ToolStops, ChildStops, LoopStops, PressedStops DEF Next

(* subagent-service.ts:321: from Stop to the next turn every subagent that  *)
(* runs has been told to stop, also one that was being started (the late    *)
(* ones excepted, see StopReaches), for any number of subagents.            *)
THEOREM StopReachesAll == Spec => []StopReaches
<1>1. Init => StopInv
  BY DEF Init, StopInv
<1>2. StopInv => StopReaches
  BY DEF StopInv, StopReaches, Told
<1> QED
  BY <1>1, <1>2, StepStops, ServiceFits, PTL DEF Spec

-----------------------------------------------------------------------------
(* A manifest says delivered only of what is in the parent's transcript, on *)
(* disk and wherever one that was read is about to be written back.         *)
TellsTruth(m, s) == \A i \in 1..Len(m) : m[i].st = "delivered" => <<s, i>> \in told
ToldInv ==
  /\ \A s \in Subs : TellsTruth(disk[s], s)
  /\ \A s \in Subs : active[s].at = "read" => TellsTruth(active[s].seen, s)
  /\ tool.at \in {"scratch", "undo"} => TellsTruth(tool.seen, tool.sub)
  /\ snap # <<>> => TellsTruth(snap, Head(batch)[1])
  /\ pc = "mark" => Range(batch) \subseteq told
  /\ delivered \subseteq told

(* The manifests a step writes tell the truth when those it has read do.    *)
LEMMA CompletedTruth ==
  ASSUME NEW m \in Seq(Activation), NEW n, NEW s, TellsTruth(m, s)
  PROVE  TellsTruth(Completed(m, n), s)
<1>1. Len(Completed(m, n)) = Len(m)
  BY CompletedManifest DEF Alike
<1>2. ASSUME NEW i \in 1..Len(m), Completed(m, n)[i].st = "delivered"
      PROVE  m[i].st = "delivered"
  <2>1. m \in [1..Len(m) -> Activation] /\ m[i] \in Activation
    BY LenProperties, ElementOfSeq
  <2>2. CASE n = i
    <3>1. Completed(m, n)[i] = [m[i] EXCEPT !.st = "pending"]
      BY <2>1, <2>2 DEF Completed
    <3> QED
      BY <1>2, <2>1, <3>1 DEF Activation
  <2>3. CASE n # i
    <3>1. Completed(m, n)[i] = m[i]
      BY <2>1, <2>3 DEF Completed
    <3> QED
      BY <1>2, <3>1
  <2> QED
    BY <2>2, <2>3
<1> QED
  BY <1>1, <1>2 DEF TellsTruth

LEMMA MarkedTruth ==
  ASSUME NEW m \in Seq(Activation), NEW n, NEW s, turn \in 0..MaxTurns,
         TellsTruth(m, s), <<s, n>> \in told
  PROVE  TellsTruth(Marked(m, n), s)
<1>1. Len(Marked(m, n)) = Len(m)
  BY MarkedManifest DEF Alike
<1>2. ASSUME NEW i \in 1..Len(m), Marked(m, n)[i].st = "delivered", i # n
      PROVE  m[i].st = "delivered"
  <2>1. m \in [1..Len(m) -> Activation]
    BY LenProperties
  <2>2. Marked(m, n)[i] = m[i]
    BY <1>2, <2>1 DEF Marked
  <2> QED
    BY <1>2, <2>2
<1> QED
  BY <1>1, <1>2 DEF TellsTruth

LEMMA NewTruth ==
  ASSUME NEW m \in Seq(Activation), NEW s, turn \in 1..MaxTurns, TellsTruth(m, s)
  PROVE  TellsTruth(WithNew(m), s)
<1>1. Len(WithNew(m)) = Len(m) + 1 /\ Len(m) \in Nat
  BY NewManifest, LenProperties
<1>2. WithNew(m)[Len(m) + 1].st = "open"
  BY DEF WithNew
<1>3. \A i \in 1..Len(m) : WithNew(m)[i] = m[i]
  BY DEF WithNew
<1> QED
  BY <1>1, <1>2, <1>3 DEF TellsTruth

(* Nothing that was told is ever taken back.                                *)
LEMMA StaysTrue ==
  ASSUME NEW m, NEW s, TellsTruth(m, s), told \subseteq told'
  PROVE  \A i \in 1..Len(m) : m[i].st = "delivered" => <<s, i>> \in told'
BY DEF TellsTruth

LEMMA TruthKept ==
  ASSUME ToldInv, UNCHANGED <<disk, pc, batch, snap, delivered, told>>,
         \A s \in Subs : active'[s].at = "read" =>
           active[s].at = "read" /\ active'[s].seen = active[s].seen,
         tool'.at \in {"scratch", "undo"} =>
           /\ tool.at \in {"scratch", "undo"}
           /\ tool'.seen = tool.seen /\ tool'.sub = tool.sub
  PROVE  ToldInv'
BY DEF ToldInv, TellsTruth

LEMMA ToolTruth ==
  ASSUME Types, FitInv, ToldInv, ToolStep
  PROVE  ToldInv'
<1>0. UNCHANGED <<pc, batch, snap, delivered, told>>
  BY DEF ToolStep, CallLaunch, CallContinue, CallSend, CallStop, CallAnswered,
         SendGoesOn, StopDone, ManifestWritten, Started, Undone, loop
<1>1. ASSUME NEW s \in Subs,
             CallLaunch \/ CallContinue(s) \/ CallSend(s) \/ CallStop(s)
      PROVE  ToldInv'
  <2>1. tool'.at \in {"begin", "done"} /\ UNCHANGED disk
    BY <1>1, CallMade DEF CallLaunch, CallContinue, CallSend, CallStop, Prepares, Types,
       LoopTypes
  <2>2. \A r \in Subs : active'[r].at = "read" =>
          active[r].at = "read" /\ active'[r].seen = active[r].seen
    BY <1>1, StopMade DEF CallLaunch, CallContinue, CallSend, Others
  <2> QED
    BY <1>0, <2>1, <2>2, TruthKept
<1>2. CASE CallAnswered \/ SendGoesOn \/ StopDone
  <2>1. UNCHANGED <<disk, active>>
    BY <1>2 DEF CallAnswered, SendGoesOn, StopDone, service
  <2>2. UNCHANGED tool \/ tool' = NoTool \/ tool'.at = "begin"
    BY <1>2, GoneOn DEF CallAnswered, StopDone, service
  <2> QED
    BY <1>0, <2>1, <2>2, TruthKept DEF NoTool
<1>3. CASE ManifestWritten
  <2> DEFINE s == tool.sub  m == disk[s]
  <2>1. s \in Subs /\ m \in Seq(Activation) /\ disk \in [Subs -> Seq(Activation)]
        /\ turn \in 1..MaxTurns /\ TellsTruth(m, s)
    BY <1>3 DEF Types, ServiceTypes, LoopTypes, FitInv, ToolInv, Calls, ToldInv, NoTool,
       ManifestWritten
  <2>2. /\ UNCHANGED active /\ tool'.seen = m /\ tool'.sub = s
        /\ disk' \in {disk, [disk EXCEPT ![s] = WithNew(m)]}
    BY <1>3, WrittenMade DEF ManifestWritten
  <2>3. TellsTruth(WithNew(m), s)
    BY <2>1, NewTruth
  <2>4. \A r \in Subs : TellsTruth(disk'[r], r)
    BY <2>1, <2>2, <2>3 DEF ToldInv
  <2> QED
    BY <1>0, <2>1, <2>2, <2>4 DEF ToldInv, TellsTruth
<1>4. CASE Started
  <2>1. UNCHANGED disk
    BY <1>4 DEF Started
  <2>2. \A r \in Subs : active'[r].at = "read" =>
          active[r].at = "read" /\ active'[r].seen = active[r].seen
    BY <1>4, StartMade DEF Others
  <2>3. tool'.at \in {"scratch", "undo"} =>
          /\ tool.at \in {"scratch", "undo"}
          /\ tool'.seen = tool.seen /\ tool'.sub = tool.sub
    BY <1>4, StartMade DEF NoTool
  <2> QED
    BY <1>0, <2>1, <2>2, <2>3, TruthKept
<1>5. CASE Undone
  <2>1. tool.sub \in Subs /\ disk \in [Subs -> Seq(Activation)]
        /\ TellsTruth(tool.seen, tool.sub)
    BY <1>5 DEF Types, ServiceTypes, Calls, ToldInv, Undone
  <2>2. UNCHANGED active /\ tool' = NoTool
        /\ disk' \in {disk, [disk EXCEPT ![tool.sub] = tool.seen]}
    BY <1>5 DEF Undone
  <2>3. \A r \in Subs : TellsTruth(disk'[r], r)
    BY <2>1, <2>2 DEF ToldInv
  <2> QED
    BY <1>0, <2>2, <2>3 DEF ToldInv, TellsTruth, NoTool
<1> QED
  BY <1>1, <1>2, <1>3, <1>4, <1>5 DEF ToolStep, CallLaunch

LEMMA ChildTruth ==
  ASSUME Types, FitInv, ToldInv, NEW s \in Subs, ChildStep(s)
  PROVE  ToldInv'
<1>0. UNCHANGED <<tool, pc, batch, snap, delivered, told>>
  BY DEF ChildStep, ChildEnds, ChildSaves, ChildReleases, ChildSettles, InMemory, loop
<1>1. CASE ChildEnds(s)
  <2>1. UNCHANGED disk
    BY <1>1 DEF ChildEnds, InMemory
  <2>2. ASSUME NEW r \in Subs, active'[r].at = "read"
        PROVE  TellsTruth(active'[r].seen, r)
    <3>1. CASE r = s
      BY <1>1, <3>1, EndMade DEF ToldInv
    <3>2. CASE r # s
      BY <1>1, <2>2, <3>2, EndMade DEF ToldInv, Others
    <3> QED BY <3>1, <3>2
  <2> QED
    BY <1>0, <2>1, <2>2 DEF ToldInv, TellsTruth
<1>2. CASE ChildSaves(s)
  <2> DEFINE m == Completed(active[s].seen, active[s].n)
  <2>1. active[s].at = "read" /\ active[s].seen \in Seq(Activation)
        /\ disk \in [Subs -> Seq(Activation)]
    BY <1>2 DEF ChildSaves, Types, ServiceTypes, InFlight
  <2>2. TellsTruth(m, s)
    BY <2>1, CompletedTruth DEF ToldInv
  <2>3. disk' \in {disk, [disk EXCEPT ![s] = m]}
    BY <1>2 DEF ChildSaves
  <2> HIDE DEF m
  <2>4. \A r \in Subs : TellsTruth(disk'[r], r)
    BY <2>1, <2>2, <2>3 DEF ToldInv
  <2> QED
    BY <1>0, <1>2, <2>4, SaveMade DEF ToldInv, TellsTruth, Others
<1>3. CASE ChildReleases(s) \/ ChildSettles(s)
  <2>1. UNCHANGED disk
    BY <1>3 DEF ChildReleases, ChildSettles
  <2>2. Others(s) /\ active'[s].at # "read"
    BY <1>3, ReleaseMade, SettleMade DEF NoActive
  <2> QED
    BY <1>0, <2>1, <2>2, TruthKept DEF Others
<1> QED
  BY <1>1, <1>2, <1>3 DEF ChildStep

LEMMA LoopTruth ==
  ASSUME Types, FitInv, ToldInv, LoopStep \/ SessionAborts
  PROVE  ToldInv'
<1>1. CASE \/ \E s \in Subs : LoadManifest(s)
           \/ LoadResult \/ StepEnds \/ LoopBreaks \/ AbortNoticed \/ Wakes
           \/ StateRead \/ Proceed \/ SessionAborts
  <2>1. /\ UNCHANGED <<disk, active, tool, batch, snap, delivered, told>>
        /\ pc' = "mark" => pc = "mark"
    BY <1>1 DEF LoadManifest, LoadResult, StepEnds, LoopBreaks, AbortNoticed, Wakes,
       StateRead, Proceed, SessionAborts, Ends, Asks, service
  <2> QED
    BY <2>1 DEF ToldInv, TellsTruth
<1>2. CASE Drain
  <2>1. UNCHANGED <<disk, active, tool, delivered, told>> /\ pc' = "record" /\ snap' = <<>>
    BY <1>2, NoBatch DEF Drain, service
  <2> QED
    BY <2>1 DEF ToldInv, TellsTruth
<1>3. CASE Recorded
  <2>1. /\ UNCHANGED <<disk, active, tool>> /\ snap' = <<>>
        /\ \/ /\ told' = told \cup Range(batch) /\ batch' = batch
              /\ delivered' = delivered \cup Range(batch)
           \/ UNCHANGED <<told, delivered>> /\ pc' = "end"
    BY <1>3 DEF Recorded, Unrecorded, Ends, service, FitInv, BatchInv
  <2>2. told \subseteq told' /\ delivered' \subseteq told'
        /\ (pc' = "mark" => Range(batch') \subseteq told')
    BY <2>1 DEF ToldInv
  <2> QED
    BY <2>1, <2>2 DEF ToldInv, TellsTruth
<1>4. CASE MarkReads
  <2>1. /\ UNCHANGED <<disk, active, tool, batch, delivered, told, pc>>
        /\ snap' = disk[Head(batch)[1]] /\ batch # <<>> /\ batch \in Seq(Acts)
    BY <1>4 DEF MarkReads, service, Types, LoopTypes
  <2>2. Head(batch)[1] \in Subs
    BY <2>1, HeadTailProperties DEF Acts
  <2> QED
    BY <2>1, <2>2 DEF ToldInv, TellsTruth
<1>5. CASE MarkWrites
  <2> DEFINE a == Head(batch)  s == a[1]  next == Marked(snap, a[2])
  <2>1. /\ UNCHANGED <<active, tool, delivered, told, pc>> /\ batch' = Tail(batch)
        /\ pc = "mark" /\ snap' = <<>> /\ batch # <<>> /\ snap # <<>>
    BY <1>5 DEF MarkWrites
  <2>2. /\ batch \in Seq(Acts) /\ snap \in Seq(Activation) /\ turn \in 0..MaxTurns
        /\ disk \in [Subs -> Seq(Activation)]
    BY DEF Types, ServiceTypes, LoopTypes
  <2>3. a \in Acts /\ a \in Range(batch) /\ Range(batch') \subseteq Range(batch)
    <3>1. /\ a = batch[1] /\ Len(batch) \in Nat \ {0} /\ DOMAIN batch = 1..Len(batch)
          /\ a \in Acts /\ Tail(batch) \in Seq(Acts) /\ Len(Tail(batch)) = Len(batch) - 1
          /\ \A i \in 1..Len(Tail(batch)) : Tail(batch)[i] = batch[i + 1]
      BY <2>1, <2>2, HeadTailProperties, EmptySeq, LenProperties
    <3>2. DOMAIN Tail(batch) = 1..(Len(batch) - 1)
      BY <3>1, LenProperties
    <3>3. \A i \in DOMAIN Tail(batch) : i + 1 \in DOMAIN batch
      BY <3>1, <3>2
    <3> QED
      BY <2>1, <3>1, <3>2, <3>3 DEF Range
  <2>4. TellsTruth(snap, s) /\ <<s, a[2]>> \in told /\ s \in Subs
    <3>1. a = <<s, a[2]>> /\ s \in Subs
      BY <2>3 DEF Acts
    <3> QED
      BY <2>1, <2>3, <3>1 DEF ToldInv
  <2>5. TellsTruth(next, s)
    BY <2>2, <2>4, MarkedTruth
  <2>6. disk' \in {disk, [disk EXCEPT ![s] = next]}
    <3>1. PICK m \in {disk[s], next} : disk' = [disk EXCEPT ![s] = m] \/ disk' = disk
      BY <1>5 DEF MarkWrites
    <3> HIDE DEF next
    <3> QED
      BY <2>2, <3>1
  <2> HIDE DEF next
  <2>7. \A r \in Subs : TellsTruth(disk'[r], r)
    BY <2>2, <2>4, <2>5, <2>6 DEF ToldInv
  <2> QED
    BY <2>1, <2>3, <2>7 DEF ToldInv, TellsTruth
<1>6. CASE Confirmed \/ TurnEnds
  <2>1. /\ UNCHANGED <<disk, active, tool, told, snap>> /\ snap = <<>> /\ pc' # "mark"
        /\ delivered' \subseteq delivered
    BY <1>6, NoBatch DEF Confirmed, TurnEnds, Asks, service, FitInv, BatchInv
  <2> QED
    BY <2>1 DEF ToldInv, TellsTruth
<1> QED
  BY <1>1, <1>2, <1>3, <1>4, <1>5, <1>6 DEF LoopStep

LEMMA OtherTruth ==
  ASSUME Types, FitInv, ToldInv, NEW user \in BOOLEAN, Stop \/ Restart \/ Start(user)
  PROVE  ToldInv'
<1>1. CASE Stop
  <2>1. UNCHANGED <<disk, pc, batch, snap, delivered, told>>
    BY <1>1 DEF Stop, loop
  <2> QED
    BY <1>1, <2>1, SubTold, CallTold, TruthKept
<1>2. CASE Restart
  <2>1. ASSUME NEW s \in Subs PROVE TellsTruth(disk'[s], s)
    <3>1. disk[s] \in Seq(Activation) /\ TellsTruth(disk[s], s)
      BY DEF Types, ServiceTypes, ToldInv
    <3>2. disk'[s] \in {disk[s], Completed(disk[s], Len(disk[s]))}
      BY <1>2 DEF Restart
    <3> QED
      BY <3>1, <3>2, CompletedTruth
  <2>2. /\ UNCHANGED told /\ \A s \in Subs : active'[s] = NoActive
        /\ tool' = NoTool /\ snap' = <<>> /\ delivered' = {} /\ pc' = "idle"
    BY <1>2 DEF Restart
  <2> QED
    BY <2>1, <2>2 DEF ToldInv, TellsTruth, NoActive, NoTool
<1>3. CASE Start(user)
  <2>1. UNCHANGED <<disk, active, tool, batch, snap, delivered, told>> /\ pc' = "load"
    BY <1>3 DEF Start, service
  <2> QED
    BY <2>1 DEF ToldInv, TellsTruth
<1> QED
  BY <1>1, <1>2, <1>3

LEMMA StepTruth == Types /\ FitInv /\ ToldInv /\ [Next]_vars => ToldInv'
<1> SUFFICES ASSUME Types, FitInv, ToldInv, [Next]_vars PROVE ToldInv'
  OBVIOUS
<1>1. CASE UNCHANGED vars
  BY <1>1 DEF vars, service, loop, ToldInv, TellsTruth
<1> QED
  BY <1>1, ToolTruth, ChildTruth, LoopTruth, OtherTruth DEF Next

LEMMA InitTruth == Init => ToldInv
BY DEF Init, ToldInv, TellsTruth, NoActive, NoTool

(* session.ts:1636-1656: whatever fails, is stopped or dies in between, a   *)
(* manifest marks as delivered only what is in the parent's transcript.     *)
THEOREM NoResultLost == Spec => []DeliveredIsTold
<1>1. Types /\ ToldInv => DeliveredIsTold
  <2> SUFFICES ASSUME Types, ToldInv, NEW a \in Saved, Status(a) = "delivered"
               PROVE  a \in told
    BY DEF DeliveredIsTold
  <2>1. a = <<a[1], a[2]>> /\ a[1] \in Subs /\ a[2] \in 1..Len(disk[a[1]])
    BY LenProperties DEF Saved, Acts, Types, ServiceTypes
  <2> QED
    BY <2>1 DEF ToldInv, TellsTruth, Status
<1> QED
  BY <1>1, InitTruth, StepTruth, ServiceFits, PTL DEF Spec

-----------------------------------------------------------------------------
(* An activation a manifest shows as running is its last one, on disk and   *)
(* wherever a manifest is held to be written back, and somebody will say    *)
(* when it is over, unless the write that was to say so is already lost.    *)
OnlyLast(m) == \A i \in 1..Len(m) : m[i].st = "open" => i = Len(m)
LastOpen(m) == m # <<>> /\ m[Len(m)].st = "open"
Accounted(s) ==
  LastOpen(disk[s]) =>
    \/ active[s].at \in {"run", "read"}
    \/ tool.sub = s /\ tool.at \in {"scratch", "undo"}
    \/ <<s, Len(disk[s])>> \in orphans
OpenActive(s) ==
  /\ active[s].at # "none" => active[s].n = Len(disk[s])
  /\ active[s].at = "read" => OnlyLast(active[s].seen)
OpenTool ==
  /\ tool.at \in {"scratch", "undo"} => OnlyLast(tool.seen)
  /\ tool.at = "scratch" => ~LastOpen(tool.seen)
  /\ tool.at = "undo" /\ LastOpen(tool.seen) => <<tool.sub, Len(tool.seen)>> \in orphans
OpenInv ==
  /\ \A s \in Subs : OnlyLast(disk[s]) /\ Accounted(s) /\ OpenActive(s)
  /\ OpenTool
  /\ snap # <<>> => OnlyLast(snap)

(* What the manifests a step makes of one show as running.                  *)
LEMMA CompletedStatus ==
  ASSUME NEW m \in Seq(Activation), NEW n, NEW i \in 1..Len(m)
  PROVE  Completed(m, n)[i].st = IF i = n THEN "pending" ELSE m[i].st
<1>1. m \in [1..Len(m) -> Activation] /\ m[i] \in Activation
  BY LenProperties, ElementOfSeq
<1>2. CASE n = i
  <2>1. Completed(m, n)[i] = [m[i] EXCEPT !.st = "pending"]
    BY <1>1, <1>2 DEF Completed
  <2> QED
    BY <1>1, <1>2, <2>1 DEF Activation
<1>3. CASE n # i
  <2>1. Completed(m, n)[i] = m[i]
    BY <1>1, <1>3 DEF Completed
  <2> QED
    BY <1>3, <2>1
<1> QED
  BY <1>2, <1>3

LEMMA MarkedStatus ==
  ASSUME NEW m \in Seq(Activation), NEW n, NEW i \in 1..Len(m), turn \in 0..MaxTurns
  PROVE  Marked(m, n)[i].st = "open" => m[i].st = "open"
<1>1. m \in [1..Len(m) -> Activation] /\ m[i] \in Activation
  BY LenProperties, ElementOfSeq
<1>2. CASE m[n].st = "open" \/ m[n].to = turn
  BY <1>2 DEF Marked
<1>3. CASE ~(m[n].st = "open" \/ m[n].to = turn)
  <2> DEFINE e == [m[n] EXCEPT !.st = "delivered", !.to = turn]
  <2>1. Marked(m, n) = [m EXCEPT ![n] = e]
    BY <1>3 DEF Marked
  <2>2. CASE i = n
    <3>1. e.st = "delivered"
      BY <1>1, <2>2 DEF Activation
    <3> HIDE DEF e
    <3>2. Marked(m, n)[i] = e
      BY <1>1, <2>1, <2>2
    <3> QED
      BY <3>1, <3>2
  <2>3. CASE i # n
    <3> HIDE DEF e
    <3> QED
      BY <1>1, <2>1, <2>3
  <2> QED
    BY <2>2, <2>3
<1> QED
  BY <1>2, <1>3

LEMMA CompletedOpen ==
  ASSUME NEW m \in Seq(Activation), OnlyLast(m)
  PROVE  /\ OnlyLast(Completed(m, Len(m))) /\ ~LastOpen(Completed(m, Len(m)))
<1>1. Len(Completed(m, Len(m))) = Len(m) /\ Len(m) \in Nat
      /\ Completed(m, Len(m)) \in Seq(Activation)
  BY CompletedManifest, LenProperties DEF Alike
<1>2. OnlyLast(Completed(m, Len(m)))
  BY <1>1, CompletedStatus DEF OnlyLast
<1>3. ASSUME LastOpen(Completed(m, Len(m))) PROVE FALSE
  <2>1. Len(m) \in 1..Len(m)
    BY <1>1, <1>3, EmptySeq DEF LastOpen
  <2> QED
    BY <1>1, <1>3, <2>1, CompletedStatus DEF LastOpen
<1> QED
  BY <1>2, <1>3

LEMMA MarkedOpen ==
  ASSUME NEW m \in Seq(Activation), NEW n, turn \in 0..MaxTurns, OnlyLast(m)
  PROVE  OnlyLast(Marked(m, n))
<1>1. Len(Marked(m, n)) = Len(m)
  BY MarkedManifest DEF Alike
<1> QED
  BY <1>1, MarkedStatus DEF OnlyLast

LEMMA NewOpen ==
  ASSUME NEW m \in Seq(Activation), turn \in 1..MaxTurns, OnlyLast(m), ~LastOpen(m)
  PROVE  OnlyLast(WithNew(m))
<1>1. Len(WithNew(m)) = Len(m) + 1 /\ Len(m) \in Nat
      /\ \A i \in 1..Len(m) : WithNew(m)[i] = m[i]
  BY NewManifest, LenProperties DEF WithNew
<1>2. ASSUME NEW i \in 1..Len(m), m[i].st = "open" PROVE FALSE
  BY <1>2, EmptySeq DEF OnlyLast, LastOpen
<1> QED
  BY <1>1, <1>2 DEF OnlyLast

LEMMA OpenKept ==
  ASSUME OpenInv, UNCHANGED <<disk, orphans>>,
         snap' = snap \/ snap' = <<>>,
         \A s \in Subs :
           /\ active'[s].at # "none" => active[s].at # "none" /\ active'[s].n = active[s].n
           /\ active'[s].at = "read" => active'[s].seen = active[s].seen /\ active[s].at = "read"
           /\ active[s].at \in {"run", "read"} => active'[s].at \in {"run", "read"},
         tool'.at \in {"scratch", "undo"} =>
           tool'.seen = tool.seen /\ tool'.at = tool.at,
         tool.at \in {"scratch", "undo"} =>
           tool'.sub = tool.sub /\ tool'.at = tool.at
  PROVE  OpenInv'
<1>1. \A s \in Subs : (OnlyLast(disk[s]) /\ Accounted(s) /\ OpenActive(s))'
  BY DEF OpenInv, OnlyLast, LastOpen, Accounted, OpenActive
<1>2. OpenTool'
  BY DEF OpenInv, OpenTool, OnlyLast, LastOpen
<1> QED
  BY <1>1, <1>2 DEF OpenInv, OnlyLast

LEMMA CallsOpen ==
  ASSUME Types, FitInv, OpenInv, NEW s \in Subs,
         \/ CallLaunch \/ CallContinue(s) \/ CallSend(s) \/ CallStop(s)
         \/ CallAnswered \/ SendGoesOn \/ StopDone
  PROVE  OpenInv'
<1>1. UNCHANGED <<disk, orphans, snap>>
  BY DEF CallLaunch, CallContinue, CallSend, CallStop, CallAnswered, SendGoesOn, StopDone,
     service, loop
<1>2. ASSUME NEW r \in Subs
      PROVE  /\ active'[r].at = active[r].at /\ active'[r].n = active[r].n
             /\ active'[r].seen = active[r].seen
  BY <1>2, StopMade DEF CallLaunch, CallContinue, CallSend, CallAnswered, SendGoesOn,
     StopDone, service, Others
<1>3. tool.at \notin {"scratch", "undo"}
  BY DEF CallLaunch, CallContinue, CallSend, CallStop, CallAnswered, SendGoesOn, StopDone,
     MayCall, NoTool, FitInv, ToolInv, Preparing
<1>4. CASE CallLaunch \/ CallContinue(s) \/ CallSend(s) \/ CallStop(s)
  <2>1. tool'.at \in {"begin", "done"}
    BY <1>4, CallMade DEF CallLaunch, CallContinue, CallSend, CallStop, Prepares, Types,
       LoopTypes
  <2> QED
    BY <1>1, <1>2, <1>3, <2>1, OpenKept
<1>5. CASE CallAnswered \/ SendGoesOn \/ StopDone
  <2>1. UNCHANGED tool \/ tool' = NoTool \/ tool'.at = "begin"
    BY <1>5, GoneOn DEF CallAnswered, StopDone, service
  <2> QED
    BY <1>1, <1>2, <1>3, <2>1, OpenKept DEF NoTool
<1> QED
  BY <1>4, <1>5

LEMMA WrittenOpen ==
  ASSUME Types, FitInv, OpenInv, ManifestWritten
  PROVE  OpenInv'
<1> DEFINE s == tool.sub  m == disk[s]
<1>1. /\ s \in Subs /\ m \in Seq(Activation) /\ disk \in [Subs -> Seq(Activation)]
      /\ turn \in 1..MaxTurns /\ OnlyLast(m) /\ Accounted(s) /\ active[s] = NoActive
      /\ Len(m) \in Nat /\ (m # <<>> => Len(m) # 0)
  BY LenProperties, EmptySeq DEF Types, ServiceTypes, LoopTypes, FitInv, ToolInv, Calls,
     OpenInv, NoTool, ManifestWritten, Preparing
<1>2. /\ UNCHANGED <<active, orphans, snap>> /\ tool.at = "begin"
      /\ tool'.seen = m /\ tool'.sub = s
  BY WrittenMade DEF ManifestWritten, loop
<1>3. LastOpen(m) <=> m # <<>> /\ Last(m).st = "open"
  BY DEF LastOpen, Last
<1>4. CASE /\ ~LastOpen(m) /\ disk' = [disk EXCEPT ![s] = WithNew(m)]
           /\ tool'.at = "scratch"
  <2>1. OnlyLast(WithNew(m))
    BY <1>1, <1>4, NewOpen
  <2>2. disk'[s] = WithNew(m) /\ \A r \in Subs \ {s} : disk'[r] = disk[r]
    BY <1>1, <1>4
  <2>3. ASSUME NEW r \in Subs PROVE (OnlyLast(disk[r]) /\ Accounted(r) /\ OpenActive(r))'
    <3>1. CASE r = s
      <4>1. OnlyLast(disk[r])'
        BY <2>1, <2>2, <3>1 DEF OnlyLast
      <4>2. Accounted(r)'
        BY <1>2, <1>4, <3>1 DEF Accounted
      <4>3. OpenActive(r)'
        BY <1>1, <1>2, <3>1 DEF OpenActive, NoActive
      <4> QED
        BY <3>1, <4>1, <4>2, <4>3
    <3>2. CASE r # s
      BY <1>2, <2>2, <3>2 DEF OpenInv, OnlyLast, LastOpen, Accounted, OpenActive
    <3> QED
      BY <3>1, <3>2
  <2>4. OpenTool'
    BY <1>1, <1>2, <1>4 DEF OpenTool, OnlyLast, LastOpen
  <2> QED
    BY <1>2, <2>3, <2>4 DEF OpenInv, OnlyLast
<1>5. CASE UNCHANGED disk /\ tool'.at = "undo"
  <2>1. LastOpen(m) => <<s, Len(m)>> \in orphans
    BY <1>1, <1>2 DEF Accounted, NoActive
  <2>2. ASSUME NEW r \in Subs PROVE (OnlyLast(disk[r]) /\ Accounted(r) /\ OpenActive(r))'
    BY <1>2, <1>5 DEF OpenInv, OnlyLast, LastOpen, Accounted, OpenActive
  <2>3. OpenTool'
    BY <1>1, <1>2, <1>5, <2>1 DEF OpenTool, OnlyLast, LastOpen
  <2> QED
    BY <1>2, <2>2, <2>3 DEF OpenInv, OnlyLast
<1>6. \/ /\ ~(m # <<>> /\ Last(m).st = "open")
         /\ disk' = [disk EXCEPT ![s] = WithNew(m)]
         /\ tool' = [tool EXCEPT !.at = "scratch", !.seen = m]
      \/ UNCHANGED disk /\ tool' = [tool EXCEPT !.at = "undo", !.seen = m]
  BY DEF ManifestWritten
<1>7. tool \in Calls
  BY DEF Types, ServiceTypes
<1> QED
  BY <1>3, <1>4, <1>5, <1>6, <1>7 DEF Calls

LEMMA StartedOpen ==
  ASSUME Types, FitInv, OpenInv, Started
  PROVE  OpenInv'
<1> DEFINE s == tool.sub
<1>1. UNCHANGED <<disk, orphans, snap>> /\ tool.at = "scratch" /\ s \in Subs
  BY StartMade DEF Started, loop
<1>2. CASE /\ tool' = NoTool /\ Others(s) /\ active'[s].at = "run"
           /\ active'[s].n = Len(disk[s])
  <2>1. ASSUME NEW r \in Subs PROVE (OnlyLast(disk[r]) /\ Accounted(r) /\ OpenActive(r))'
    BY <1>1, <1>2 DEF OpenInv, OnlyLast, LastOpen, Accounted, OpenActive, Others
  <2>2. OpenTool'
    BY <1>2 DEF OpenTool, NoTool
  <2> QED
    BY <1>1, <2>1, <2>2 DEF OpenInv, OnlyLast
<1>3. CASE /\ UNCHANGED active /\ tool'.at = "undo" /\ tool'.sub = s
           /\ tool'.seen = tool.seen
  <2>1. ASSUME NEW r \in Subs PROVE (OnlyLast(disk[r]) /\ Accounted(r) /\ OpenActive(r))'
    BY <1>1, <1>3 DEF OpenInv, OnlyLast, LastOpen, Accounted, OpenActive
  <2>2. OpenTool'
    BY <1>1, <1>3 DEF OpenInv, OpenTool, OnlyLast, LastOpen
  <2> QED
    BY <1>1, <2>1, <2>2 DEF OpenInv, OnlyLast
<1> QED
  BY <1>2, <1>3, StartMade

LEMMA UndoneOpen ==
  ASSUME Types, FitInv, OpenInv, Undone
  PROVE  OpenInv'
<1> DEFINE s == tool.sub
<1>1. /\ UNCHANGED <<active, snap>> /\ tool.at = "undo" /\ tool' = NoTool /\ s \in Subs
      /\ disk \in [Subs -> Seq(Activation)] /\ active[s] = NoActive
  BY DEF Undone, loop, Types, ServiceTypes, Calls, FitInv, ToolInv, Preparing
<1>2. OnlyLast(tool.seen) /\ (LastOpen(tool.seen) => <<s, Len(tool.seen)>> \in orphans)
  BY <1>1 DEF OpenInv, OpenTool
<1>3. CASE disk' = [disk EXCEPT ![s] = tool.seen] /\ UNCHANGED orphans
  <2>1. disk'[s] = tool.seen /\ \A r \in Subs \ {s} : disk'[r] = disk[r]
    BY <1>1, <1>3
  <2>2. ASSUME NEW r \in Subs PROVE (OnlyLast(disk[r]) /\ Accounted(r) /\ OpenActive(r))'
    <3>1. CASE r = s
      <4>1. disk'[r] = tool.seen /\ active'[r].at = "none"
        BY <1>1, <2>1, <3>1 DEF NoActive
      <4>2. OnlyLast(disk[r])' /\ Accounted(r)'
        BY <1>2, <1>3, <3>1, <4>1 DEF OnlyLast, LastOpen, Accounted
      <4> QED
        BY <4>1, <4>2 DEF OpenActive
    <3>2. CASE r # s
      BY <1>1, <1>3, <2>1, <3>2 DEF OpenInv, OnlyLast, LastOpen, Accounted, OpenActive
    <3> QED
      BY <3>1, <3>2
  <2> QED
    BY <1>1, <2>2 DEF OpenInv, OpenTool, OnlyLast, NoTool
<1>4. CASE UNCHANGED disk /\ orphans' = orphans \cup {<<s, Len(disk[s])>>}
  <2>1. ASSUME NEW r \in Subs PROVE (OnlyLast(disk[r]) /\ Accounted(r) /\ OpenActive(r))'
    BY <1>1, <1>4 DEF OpenInv, OnlyLast, LastOpen, Accounted, OpenActive
  <2> QED
    BY <1>1, <2>1 DEF OpenInv, OpenTool, OnlyLast, NoTool
<1> QED
  BY <1>3, <1>4 DEF Undone

LEMMA ChildOpen ==
  ASSUME Types, FitInv, OpenInv, NEW s \in Subs, ChildStep(s)
  PROVE  OpenInv'
<1>0. UNCHANGED <<tool, snap>>
  BY DEF ChildStep, ChildEnds, ChildSaves, ChildReleases, ChildSettles, InMemory, loop
<1>1. CASE ChildEnds(s)
  <2>1. UNCHANGED <<disk, orphans>>
    BY <1>1 DEF ChildEnds, InMemory
  <2>2. ASSUME NEW r \in Subs PROVE (OnlyLast(disk[r]) /\ Accounted(r) /\ OpenActive(r))'
    BY <1>0, <1>1, <2>1, EndMade
    DEF OpenInv, OnlyLast, LastOpen, Accounted, OpenActive, Others
  <2>3. OpenTool'
    BY <1>0, <2>1 DEF OpenInv, OpenTool, OnlyLast, LastOpen
  <2> QED
    BY <1>0, <2>2, <2>3 DEF OpenInv, OnlyLast
<1>2. CASE ChildSaves(s)
  <2> DEFINE m == active[s].seen  c == Completed(m, active[s].n)
  <2>1. /\ active[s].at = "read" /\ m \in Seq(Activation) /\ OnlyLast(m)
        /\ active[s].n = Len(m) /\ active[s].n = Len(disk[s])
        /\ disk \in [Subs -> Seq(Activation)]
    BY <1>2 DEF ChildSaves, Types, ServiceTypes, InFlight, OpenInv, OpenActive, FitInv,
       ActiveInv, Alike
  <2>2. OnlyLast(c) /\ ~LastOpen(c) /\ Len(c) = Len(disk[s])
    BY <2>1, CompletedOpen, CompletedManifest DEF Alike
  <2>3. /\ orphans \subseteq orphans'
        /\ \/ disk' = [disk EXCEPT ![s] = c]
           \/ UNCHANGED disk /\ <<s, active[s].n>> \in orphans'
    BY <1>2 DEF ChildSaves
  <2> HIDE DEF c
  <2>4. \A r \in Subs \ {s} : disk'[r] = disk[r] /\ active'[r] = active[r]
    BY <1>2, <2>1, <2>3, SaveMade DEF Others
  <2>5. ASSUME NEW r \in Subs PROVE (OnlyLast(disk[r]) /\ Accounted(r) /\ OpenActive(r))'
    <3>1. CASE r = s
      <4>1. disk'[s] = c \/ (disk'[s] = disk[s] /\ <<s, Len(disk[s])>> \in orphans')
        BY <2>1, <2>3
      <4>2. OnlyLast(disk[s])' /\ Accounted(s)'
        BY <2>2, <4>1 DEF OpenInv, OnlyLast, LastOpen, Accounted
      <4>3. OpenActive(s)'
        BY <1>2, <2>1, <2>2, <4>1, SaveMade DEF OpenActive
      <4> QED
        BY <3>1, <4>2, <4>3
    <3>2. CASE r # s
      BY <1>0, <2>3, <2>4, <3>2 DEF OpenInv, OnlyLast, LastOpen, Accounted, OpenActive
    <3> QED
      BY <3>1, <3>2
  <2>6. OpenTool'
    BY <1>0, <2>3 DEF OpenInv, OpenTool, OnlyLast, LastOpen
  <2> QED
    BY <1>0, <2>5, <2>6 DEF OpenInv, OnlyLast
<1>3. CASE ChildReleases(s) \/ ChildSettles(s)
  <2>1. UNCHANGED <<disk, orphans>>
    BY <1>3 DEF ChildReleases, ChildSettles
  <2>2. /\ Others(s) /\ active[s].at \notin {"none", "run", "read"}
        /\ active'[s].at # "read" /\ (active'[s].at # "none" => active'[s].n = active[s].n)
    BY <1>3, ReleaseMade, SettleMade DEF NoActive
  <2> QED
    BY <1>0, <2>1, <2>2, OpenKept DEF Others
<1> QED
  BY <1>1, <1>2, <1>3 DEF ChildStep

LEMMA LoopOpen ==
  ASSUME Types, FitInv, OpenInv, LoopStep \/ SessionAborts
  PROVE  OpenInv'
<1>1. CASE \/ \E s \in Subs : LoadManifest(s)
           \/ LoadResult \/ Drain \/ Proceed \/ Recorded \/ Confirmed \/ StateRead \/ Wakes
           \/ StepEnds \/ LoopBreaks \/ AbortNoticed \/ TurnEnds \/ SessionAborts
  <2>1. UNCHANGED <<disk, orphans, active, tool, snap>>
    BY <1>1 DEF LoadManifest, LoadResult, Drain, Proceed, Recorded, Confirmed, StateRead,
       Wakes, StepEnds, LoopBreaks, AbortNoticed, TurnEnds, SessionAborts, service
  <2> QED
    BY <2>1, OpenKept
<1>2. CASE MarkReads
  <2>1. /\ UNCHANGED <<disk, orphans, active, tool>> /\ batch # <<>> /\ batch \in Seq(Acts)
        /\ snap' = disk[Head(batch)[1]]
    BY <1>2 DEF MarkReads, service, Types, LoopTypes
  <2>2. Head(batch)[1] \in Subs
    BY <2>1, HeadTailProperties DEF Acts
  <2>3. ASSUME NEW r \in Subs PROVE (OnlyLast(disk[r]) /\ Accounted(r) /\ OpenActive(r))'
    BY <2>1 DEF OpenInv, OnlyLast, LastOpen, Accounted, OpenActive
  <2>4. OpenTool'
    BY <2>1 DEF OpenInv, OpenTool, OnlyLast, LastOpen
  <2> QED
    BY <2>1, <2>2, <2>3, <2>4 DEF OpenInv, OnlyLast
<1>3. CASE MarkWrites
  <2> DEFINE s == Head(batch)[1]  next == Marked(snap, Head(batch)[2])
  <2>1. /\ UNCHANGED <<active, tool>> /\ snap' = <<>> /\ batch # <<>> /\ snap # <<>>
        /\ orphans' = orphans \cup {b \in Saved : b[1] = s /\ Status(b) # "open"
                                      /\ disk'[s][b[2]].st = "open"}
    BY <1>3 DEF MarkWrites
  <2>2. /\ batch \in Seq(Acts) /\ snap \in Seq(Activation) /\ turn \in 0..MaxTurns
        /\ disk \in [Subs -> Seq(Activation)] /\ OnlyLast(snap) /\ s \in Subs
        /\ Alike(snap, disk[s]) /\ disk[s] \in Seq(Activation) /\ Len(disk[s]) <= MaxActs
    <3>1. /\ batch \in Seq(Acts) /\ snap \in Seq(Activation) /\ turn \in 0..MaxTurns
          /\ disk \in [Subs -> Seq(Activation)]
      BY DEF Types, ServiceTypes, LoopTypes
    <3>2. s \in Subs
      BY <2>1, <3>1, HeadTailProperties DEF Acts
    <3> QED
      BY <2>1, <3>1, <3>2 DEF OpenInv, FitInv, BatchInv, ActiveInv
  <2>3. OnlyLast(next) /\ Len(next) = Len(disk[s])
    BY <2>2, MarkedOpen, MarkedManifest DEF Alike
  <2>4. disk' \in {disk, [disk EXCEPT ![s] = next]}
    <3>1. PICK m \in {disk[s], next} : disk' = [disk EXCEPT ![s] = m] \/ disk' = disk
      BY <1>3 DEF MarkWrites
    <3> HIDE DEF next
    <3> QED
      BY <2>2, <3>1
  <2> HIDE DEF next
  <2>5. \A r \in Subs \ {s} : disk'[r] = disk[r]
    BY <2>2, <2>4
  <2>6. OnlyLast(disk'[s]) /\ Len(disk'[s]) = Len(disk[s])
    BY <2>2, <2>3, <2>4 DEF OpenInv
  <2>7. ASSUME NEW r \in Subs, r = s PROVE Accounted(r)'
    <3>1. SUFFICES ASSUME LastOpen(disk'[s]) PROVE Accounted(r)'
      BY <2>7 DEF Accounted, LastOpen
    <3>2. CASE LastOpen(disk[s])
      BY <2>1, <2>2, <2>6, <2>7, <3>2 DEF OpenInv, Accounted
    <3>3. CASE ~LastOpen(disk[s])
      <4> DEFINE b == <<s, Len(disk[s])>>
      <4>1. Len(disk[s]) \in 1..MaxActs
        <5>1. Len(disk[s]) \in Nat /\ Len(disk[s]) # 0
          <6>1. disk'[s] \in Seq(Activation) /\ disk'[s] # <<>>
            BY <3>1, WritesKeeps, <1>3, <2>2 DEF LastOpen, Kept, Types, ServiceTypes
          <6> QED
            BY <2>6, <6>1, EmptySeq
        <5> QED
          BY <2>2, <5>1
      <4>2. b \in Saved /\ b[1] = s /\ b[2] = Len(disk[s])
        BY <2>2, <4>1 DEF Saved, Acts
      <4>3. Status(b) # "open"
        BY <2>2, <3>3, <4>1 DEF Status, LastOpen
      <4>4. disk'[s][b[2]].st = "open"
        BY <2>6, <3>1 DEF LastOpen
      <4>5. b \in orphans'
        BY <2>1, <4>2, <4>3, <4>4
      <4> QED
        BY <2>6, <2>7, <4>5 DEF Accounted
    <3> QED
      BY <3>2, <3>3
  <2>8. ASSUME NEW r \in Subs PROVE (OnlyLast(disk[r]) /\ Accounted(r) /\ OpenActive(r))'
    <3>1. CASE r = s
      <4>1. OnlyLast(disk[r])'
        BY <2>6, <3>1 DEF OnlyLast
      <4>2. OpenActive(r)'
        BY <2>1, <2>2, <2>6, <3>1 DEF OpenInv, OpenActive, OnlyLast
      <4> QED
        BY <2>7, <3>1, <4>1, <4>2
    <3>2. CASE r # s
      BY <2>1, <2>5, <3>2 DEF OpenInv, OnlyLast, LastOpen, Accounted, OpenActive
    <3> QED
      BY <3>1, <3>2
  <2>9. OpenTool'
    BY <2>1 DEF OpenInv, OpenTool, OnlyLast, LastOpen
  <2> QED
    BY <2>1, <2>8, <2>9 DEF OpenInv, OnlyLast
<1> QED
  BY <1>1, <1>2, <1>3 DEF LoopStep

LEMMA OtherOpen ==
  ASSUME Types, FitInv, OpenInv, NEW user \in BOOLEAN, Stop \/ Restart \/ Start(user)
  PROVE  OpenInv'
<1>1. CASE Stop
  <2>1. UNCHANGED <<disk, orphans, snap>>
    BY <1>1 DEF Stop, loop
  <2> QED
    BY <1>1, <2>1, SubTold, CallTold, OpenKept
<1>2. CASE Restart
  <2>1. ASSUME NEW s \in Subs PROVE OnlyLast(disk'[s]) /\ ~LastOpen(disk'[s])
    <3>1. disk[s] \in Seq(Activation) /\ OnlyLast(disk[s])
      BY DEF Types, ServiceTypes, OpenInv
    <3>2. disk'[s] = IF LastOpen(disk[s]) THEN Completed(disk[s], Len(disk[s])) ELSE disk[s]
      BY <1>2 DEF Restart, LastOpen, Last
    <3> QED
      BY <3>1, <3>2, CompletedOpen
  <2>2. /\ \A s \in Subs : active'[s] = NoActive
        /\ tool' = NoTool /\ snap' = <<>>
    BY <1>2 DEF Restart
  <2>3. ASSUME NEW r \in Subs PROVE (OnlyLast(disk[r]) /\ Accounted(r) /\ OpenActive(r))'
    BY <2>1, <2>2 DEF OnlyLast, LastOpen, Accounted, OpenActive, NoActive
  <2> QED
    BY <2>2, <2>3 DEF OpenInv, OpenTool, OnlyLast, NoTool
<1>3. CASE Start(user)
  BY <1>3, OpenKept DEF Start, service
<1> QED
  BY <1>1, <1>2, <1>3

LEMMA StepOpen == Types /\ FitInv /\ OpenInv /\ [Next]_vars => OpenInv'
<1> SUFFICES ASSUME Types, FitInv, OpenInv, [Next]_vars PROVE OpenInv'
  OBVIOUS
<1>1. CASE ToolStep
  <2>1. 1 \in Subs
    BY DEF Subs
  <2> QED
    BY <1>1, <2>1, CallsOpen, WrittenOpen, StartedOpen, UndoneOpen DEF ToolStep
<1>2. CASE UNCHANGED vars
  BY <1>2, OpenKept DEF vars, service, loop
<1> QED
  BY <1>1, <1>2, ChildOpen, LoopOpen, OtherOpen DEF Next

LEMMA InitOpen == Init => OpenInv
BY DEF Init, OpenInv, OpenTool, OnlyLast, LastOpen, Accounted, OpenActive, NoActive, NoTool

(* subagent-service.ts:438-451, 504-519: an activation that a manifest shows *)
(* as running is its last one, and it runs or is being started unless the    *)
(* write that was to say otherwise failed or was overwritten.                *)
THEOREM OpenRuns == Spec => []OpenIsRunning
<1>1. Types /\ OpenInv => OpenIsRunning
  <2> SUFFICES ASSUME Types, OpenInv, NEW a \in Saved, Status(a) = "open"
               PROVE  a[2] = Len(disk[a[1]]) /\ (Driven(a) \/ a \in orphans)
    BY DEF OpenIsRunning
  <2>1. /\ a = <<a[1], a[2]>> /\ a[1] \in Subs /\ a[2] \in 1..Len(disk[a[1]])
        /\ disk[a[1]] \in Seq(Activation)
    BY LenProperties DEF Saved, Acts, Types, ServiceTypes
  <2>2. a[2] = Len(disk[a[1]])
    BY <2>1 DEF OpenInv, OnlyLast, Status
  <2>3. LastOpen(disk[a[1]])
    BY <2>1, <2>2, EmptySeq DEF LastOpen, Status
  <2>4. OpenActive(a[1]) /\ Accounted(a[1])
    BY <2>1 DEF OpenInv
  <2> QED
    BY <2>1, <2>2, <2>3, <2>4 DEF OpenActive, Accounted, Driven
<1> QED
  BY <1>1, InitOpen, StepOpen, ServiceFits, PTL DEF Spec

-----------------------------------------------------------------------------
(* A turn waits for what it has started: it is completed when nothing was   *)
(* outstanding, or when nothing was as its last step began and the step has *)
(* called no tools.                                                         *)
WaitInv ==
  /\ pc = "end" /\ reason = "completed" => OwnActs \subseteq told
  /\ pc = "step" /\ last = "none" /\ ~outs => OwnActs \subseteq told

LEMMA OwnTold ==
  ASSUME Types, ToldInv, ~Outstanding
  PROVE  OwnActs \subseteq told
<1> SUFFICES ASSUME NEW a \in OwnActs PROVE a \in told
  OBVIOUS
<1>1. /\ a = <<a[1], a[2]>> /\ a[1] \in Subs /\ a[2] \in 1..Len(disk[a[1]])
      /\ disk[a[1]] \in Seq(Activation)
  BY LenProperties DEF OwnActs, Saved, Acts, Types, ServiceTypes
<1>2. Status(a) \in {"open", "pending", "delivered"}
  <2>1. disk[a[1]][a[2]] \in Activation
    BY <1>1, ElementOfSeq
  <2> QED
    BY <2>1 DEF Status, Activation
<1>3. Status(a) = "delivered" \/ a \in delivered
  BY <1>2 DEF Outstanding
<1> QED
  BY <1>1, <1>3 DEF ToldInv, TellsTruth, Status

LEMMA OwnKept ==
  ASSUME Types, UNCHANGED turn, \A r \in Subs : Alike(disk'[r], disk[r])
  PROVE  OwnActs' \subseteq OwnActs
<1> SUFFICES ASSUME NEW a \in OwnActs' PROVE a \in OwnActs
  OBVIOUS
<1>1. /\ a \in Acts /\ a[1] \in Subs /\ a[2] \in 1..MaxActs /\ a[2] <= Len(disk'[a[1]])
      /\ disk'[a[1]][a[2]].turn = turn
  BY DEF OwnActs, Saved, Acts
<1>2. Alike(disk'[a[1]], disk[a[1]]) /\ Len(disk[a[1]]) \in Nat
  BY <1>1, LenProperties DEF Types, ServiceTypes
<1>3. a[2] <= Len(disk[a[1]]) /\ a[2] \in 1..Len(disk'[a[1]])
  BY <1>1, <1>2 DEF Alike
<1>4. disk[a[1]][a[2]].turn = turn
  BY <1>1, <1>2, <1>3 DEF Alike
<1> QED
  BY <1>1, <1>3, <1>4 DEF OwnActs, Saved

LEMMA StepWaits ==
  Types /\ FitInv /\ ToldInv /\ WaitInv /\ [Next]_vars => WaitInv'
<1> SUFFICES ASSUME Types, FitInv, ToldInv, WaitInv, [Next]_vars PROVE WaitInv'
  OBVIOUS
<1>0. ASSUME UNCHANGED <<turn, pc, last, reason, outs, told>>,
             \A r \in Subs : Alike(disk'[r], disk[r])
      PROVE  WaitInv'
  BY <1>0, OwnKept DEF WaitInv
<1>1. CASE ToolStep
  <2>1. pc' = "step" /\ last' = "tools"
    BY <1>1 DEF ToolStep, CallLaunch, CallContinue, CallSend, CallStop, CallAnswered,
       SendGoesOn, StopDone, ManifestWritten, Started, Undone, MayCall, loop, FitInv,
       ToolInv, NoTool
  <2> QED
    BY <2>1 DEF WaitInv
<1>2. ASSUME NEW s \in Subs, ChildStep(s) PROVE WaitInv'
  <2>1. UNCHANGED <<turn, pc, last, reason, outs, told>>
    BY <1>2 DEF ChildStep, ChildEnds, ChildSaves, ChildReleases, ChildSettles, loop
  <2>2. \A r \in Subs : Alike(disk'[r], disk[r])
    BY <1>2, SavedManifests
    DEF ChildStep, ChildEnds, ChildReleases, ChildSettles, InMemory, Alike
  <2> QED
    BY <1>0, <2>1, <2>2
<1>3. CASE LoopStep
  <2>1. CASE \/ \E s \in Subs : LoadManifest(s)
             \/ LoadResult \/ Drain \/ Recorded \/ MarkReads \/ MarkWrites \/ Wakes
             \/ StepEnds \/ LoopBreaks \/ TurnEnds
    <3>1. pc' # "step" /\ (pc' = "end" => reason' = "other")
      BY <2>1 DEF LoadManifest, LoadResult, MayLoad, Drain, Recorded, Unrecorded, MarkReads,
         MarkWrites, Wakes, StepEnds, LoopBreaks, TurnEnds, Ends
    <3> QED
      BY <3>1 DEF WaitInv
  <2>2. CASE Proceed \/ Confirmed
    <3>1. UNCHANGED <<disk, turn, told>> /\ pc' # "end"
          /\ (pc' = "step" => outs' = Outstanding)
      BY <2>2 DEF Proceed, Confirmed, Asks, service
    <3>2. OwnActs' = OwnActs
      BY <3>1 DEF OwnActs, Saved
    <3> QED
      BY <3>1, <3>2, OwnTold DEF WaitInv
  <2>3. CASE StateRead
    <3>1. UNCHANGED <<disk, turn, told>> /\ pc' \in {"wait", "end"}
          /\ (pc' = "end" => ~Outstanding)
      BY <2>3 DEF StateRead, Ends, service
    <3>2. OwnActs' = OwnActs
      BY <3>1 DEF OwnActs, Saved
    <3> QED
      BY <3>1, <3>2, OwnTold DEF WaitInv
  <2>4. CASE AbortNoticed
    <3>1. /\ UNCHANGED <<disk, turn, told>> /\ pc' = "end"
          /\ reason' = "completed" => pc = "step" /\ last = "none" /\ ~outs
      BY <2>4 DEF AbortNoticed, Ends, service
    <3>2. OwnActs' = OwnActs
      BY <3>1 DEF OwnActs, Saved
    <3> QED
      BY <3>1, <3>2 DEF WaitInv
  <2> QED
    BY <1>3, <2>1, <2>2, <2>3, <2>4 DEF LoopStep
<1>4. CASE Stop \/ SessionAborts \/ UNCHANGED vars
  <2>1. UNCHANGED <<disk, turn, pc, last, reason, outs, told>>
    BY <1>4 DEF Stop, SessionAborts, vars, service, loop
  <2> QED
    BY <1>0, <2>1 DEF Alike
<1>5. ASSUME NEW user \in BOOLEAN, Restart \/ Start(user) PROVE WaitInv'
  BY <1>5 DEF Restart, Start, WaitInv
<1> QED
  BY <1>1, <1>2, <1>3, <1>4, <1>5 DEF Next

(* session.ts:1910: a turn is completed only when the model has been told   *)
(* the end of every activation the turn has started.                        *)
THEOREM TurnsWait == Spec => []TurnWaits
<1>1. Init => WaitInv
  BY DEF Init, WaitInv
<1>2. WaitInv => TurnWaits
  BY DEF WaitInv, TurnWaits
<1> QED
  BY <1>1, <1>2, InitTruth, StepTruth, StepWaits, ServiceFits, PTL DEF Spec

-----------------------------------------------------------------------------
(* The slots taken are those of the activations that run and of the one in  *)
(* preparation.                                                             *)
Holders == {s \in Subs : HoldsSlot(s)}
LEMMA HoldersFinite == IsFiniteSet(Holders) /\ Cardinality(Holders) \in Nat
<1>1. IsFiniteSet(Subs)
  BY FS_Interval DEF Subs
<1> QED
  BY <1>1, FS_Subset, FS_CardinalityType DEF Holders

LEMMA SameHolders ==
  ASSUME \A s \in Subs : active'[s].at = active[s].at
  PROVE  Holders' = Holders
BY DEF Holders, HoldsSlot

LEMMA ToolCounts ==
  ASSUME Types, FitInv, SlotsCounted, ToolStep
  PROVE  SlotsCounted'
<1>0. count \in Nat /\ count = Cardinality(Holders) + (IF Preparing THEN 1 ELSE 0)
  BY DEF Types, ServiceTypes, SlotsCounted, Holders
<1>1. ASSUME NEW s \in Subs, CallLaunch \/ CallContinue(s) PROVE SlotsCounted'
  <2>1. ~Preparing /\ UNCHANGED active
    BY <1>1 DEF CallLaunch, CallContinue, MayCall, Preparing, NoTool
  <2>2. tool'.at = "begin" /\ count' = count + 1
    BY <1>1, CallMade DEF CallLaunch, CallContinue, Prepares, Types, LoopTypes
  <2>3. Preparing' /\ Holders' = Holders
    BY <2>1, <2>2, SameHolders DEF Preparing
  <2> QED
    BY <1>0, <2>1, <2>2, <2>3, HoldersFinite DEF SlotsCounted, Holders
<1>2. ASSUME NEW s \in Subs, CallSend(s) \/ CallStop(s) PROVE SlotsCounted'
  <2>1. ~Preparing /\ count' = count
    BY <1>2 DEF CallSend, CallStop, MayCall, Preparing, NoTool
  <2>2. tool'.at = "done"
    BY <1>2, CallMade DEF CallSend, CallStop, Types, LoopTypes
  <2>3. Holders' = Holders
    BY <1>2, StopMade, SameHolders DEF CallSend, Others
  <2> QED
    BY <1>0, <2>1, <2>2, <2>3 DEF SlotsCounted, Holders, Preparing
<1>3. CASE CallAnswered
  <2>1. UNCHANGED <<count, active, tool>>
    BY <1>3 DEF CallAnswered, service
  <2> QED
    BY <2>1 DEF SlotsCounted, HoldsSlot, Preparing
<1>4. CASE SendGoesOn \/ StopDone
  <2>1. ~Preparing /\ Holders' = Holders
    BY <1>4, SameHolders DEF SendGoesOn, StopDone, FitInv, ToolInv
  <2>2. \/ count' = count + 1 /\ tool'.at = "begin"
        \/ count' = count /\ tool' = NoTool
    BY <1>4, GoneOn DEF SendGoesOn, StopDone, NoTool
  <2>3. count' = Cardinality(Holders) + (IF Preparing' THEN 1 ELSE 0)
    BY <1>0, <2>1, <2>2, HoldersFinite DEF Preparing, NoTool
  <2> QED
    BY <2>1, <2>3 DEF SlotsCounted, Holders
<1>5. CASE ManifestWritten
  <2>1. UNCHANGED <<count, active>> /\ Preparing /\ Preparing'
    BY <1>5, WrittenMade DEF ManifestWritten, Preparing
  <2> QED
    BY <2>1, SameHolders DEF SlotsCounted, Holders
<1>6. CASE Started
  <2> DEFINE t == tool.sub
  <2>1. UNCHANGED count /\ Preparing /\ t \in Subs /\ active[t] = NoActive
    BY <1>6, StartMade DEF Started, Preparing, FitInv, ToolInv
  <2>2. CASE tool' = NoTool /\ Others(t) /\ active'[t].at = "run"
    <3>1. Holders' = Holders \cup {t} /\ t \notin Holders
      BY <2>1, <2>2 DEF Others, Holders, HoldsSlot, NoActive
    <3>2. Cardinality(Holders') = Cardinality(Holders) + 1
      BY <3>1, HoldersFinite, FS_AddElement
    <3> QED
      BY <1>0, <2>1, <2>2, <3>2 DEF SlotsCounted, Holders, Preparing, NoTool
  <2>3. CASE UNCHANGED active /\ tool'.at = "undo"
    BY <2>1, <2>3, SameHolders DEF SlotsCounted, Holders, Preparing
  <2> QED
    BY <1>6, <2>2, <2>3, StartMade
<1>7. CASE Undone
  <2>1. Preparing /\ UNCHANGED active /\ tool' = NoTool /\ Released
    BY <1>7 DEF Undone, Preparing
  <2>2. count' = Cardinality(Holders)
    <3>1. count = Cardinality(Holders) + 1
      BY <1>0, <2>1
    <3> QED
      BY <2>1, <3>1, HoldersFinite DEF Released
  <2>3. Holders' = Holders /\ ~Preparing'
    BY <2>1, SameHolders DEF Preparing, NoTool
  <2>4. count' = Cardinality(Holders') + (IF Preparing' THEN 1 ELSE 0)
    BY <2>2, <2>3, HoldersFinite
  <2> QED
    BY <2>4 DEF SlotsCounted, Holders
<1> QED
  BY <1>1, <1>2, <1>3, <1>4, <1>5, <1>6, <1>7 DEF ToolStep, CallLaunch

LEMMA ChildCounts ==
  ASSUME Types, FitInv, SlotsCounted, NEW s \in Subs, ChildStep(s)
  PROVE  SlotsCounted'
<1>0. count \in Nat /\ count = Cardinality(Holders) + (IF Preparing THEN 1 ELSE 0)
  BY DEF Types, ServiceTypes, SlotsCounted, Holders
<1>1. UNCHANGED tool
  BY DEF ChildStep, ChildEnds, ChildSaves, ChildReleases, ChildSettles, InMemory
<1>2. CASE ChildEnds(s) \/ ChildSaves(s) \/ ChildSettles(s)
  <2>1. UNCHANGED count
    BY <1>2 DEF ChildEnds, ChildSaves, ChildSettles, InMemory
  <2>2. Others(s) /\ (HoldsSlot(s)' <=> HoldsSlot(s))
    BY <1>2, EndMade, SaveMade, SettleMade DEF HoldsSlot, NoActive
  <2>3. Holders' = Holders
    BY <2>2 DEF Holders, HoldsSlot, Others
  <2> QED
    BY <1>0, <1>1, <2>1, <2>3 DEF SlotsCounted, Holders, Preparing
<1>3. CASE ChildReleases(s)
  <2>1. Released /\ Others(s) /\ HoldsSlot(s) /\ ~HoldsSlot(s)'
    BY <1>3, ReleaseMade DEF ChildReleases, HoldsSlot
  <2>2. Holders' = Holders \ {s} /\ s \in Holders
    BY <2>1 DEF Holders, HoldsSlot, Others
  <2>3. Cardinality(Holders') = Cardinality(Holders) - 1 /\ Cardinality(Holders') \in Nat
    BY <2>2, HoldersFinite, FS_RemoveElement, FS_CardinalityType
  <2>4. count' = Cardinality(Holders') + (IF Preparing THEN 1 ELSE 0)
    <3> DEFINE k == Cardinality(Holders)  p == IF Preparing THEN 1 ELSE 0
    <3>1. k \in Nat /\ k - 1 \in Nat /\ p \in {0, 1} /\ count = k + p
      BY <1>0, <2>3, HoldersFinite
    <3> HIDE DEF k, p
    <3>2. count' = count - 1
      BY <2>1, <3>1 DEF Released
    <3>3. count' = k - 1 + p
      BY <3>1, <3>2
    <3> QED
      BY <2>3, <3>3 DEF k, p
  <2> QED
    BY <1>1, <2>4 DEF SlotsCounted, Holders, Preparing
<1> QED
  BY <1>2, <1>3 DEF ChildStep

LEMMA StepCounts == Types /\ FitInv /\ SlotsCounted /\ [Next]_vars => SlotsCounted'
<1> SUFFICES ASSUME Types, FitInv, SlotsCounted, [Next]_vars PROVE SlotsCounted'
  OBVIOUS
<1>1. ASSUME UNCHANGED <<count, active, tool>> PROVE SlotsCounted'
  BY <1>1 DEF SlotsCounted, HoldsSlot, Preparing
<1>2. CASE LoopStep \/ SessionAborts \/ UNCHANGED vars \/ \E user \in BOOLEAN : Start(user)
  <2>1. UNCHANGED <<count, active, tool>>
    BY <1>2 DEF LoopStep, LoadManifest, LoadResult, Drain, Proceed, Recorded, MarkReads,
       MarkWrites, Confirmed, StateRead, Wakes, StepEnds, LoopBreaks, AbortNoticed,
       TurnEnds, SessionAborts, Start, vars, service
  <2> QED
    BY <1>1, <2>1
<1>3. CASE Stop
  <2>1. UNCHANGED count /\ (Preparing' <=> Preparing) /\ Holders' = Holders
    BY <1>3, CallTold, SubTold, SameHolders DEF Stop, Preparing
  <2> QED
    BY <2>1 DEF SlotsCounted, Holders
<1>4. CASE Restart
  <2>1. count' = 0 /\ tool' = NoTool /\ \A s \in Subs : active'[s] = NoActive
    BY <1>4 DEF Restart
  <2>2. Holders' = {} /\ ~Preparing'
    BY <2>1 DEF Holders, HoldsSlot, NoActive, Preparing, NoTool
  <2> QED
    BY <2>1, <2>2, FS_EmptySet DEF SlotsCounted, Holders
<1> QED
  BY <1>2, <1>3, <1>4, ToolCounts, ChildCounts DEF Next

(* subagent-service.ts:388, 462, 775: whichever of the failing paths a      *)
(* start ends on, no slot is lost and none is given back twice.             *)
THEOREM SlotsAddUp == Spec => []SlotsCounted
<1>1. Init => SlotsCounted
  <2> SUFFICES ASSUME Init PROVE SlotsCounted
    OBVIOUS
  <2>1. {s \in Subs : HoldsSlot(s)} = {} /\ ~Preparing /\ count = 0
    BY DEF Init, HoldsSlot, NoActive, Preparing, NoTool
  <2> QED
    BY <2>1, FS_EmptySet DEF SlotsCounted
<1> QED
  BY <1>1, StepCounts, ServiceFits, PTL DEF Spec

-----------------------------------------------------------------------------
(* A result is told to the model once (ToldOnce).                           *)

(* What a manifest, the one on disk and the one that is about to be written *)
(* back say to be delivered.                                                *)
Marks(m, i) == i \in 1..Len(m) /\ m[i].st = "delivered"
OnDisk(a) == Marks(disk[a[1]], a[2])
InSnap(a) == snap # <<>> /\ Head(batch)[1] = a[1] /\ Marks(snap, a[2])
Confirms(a) == OnDisk(a) \/ InSnap(a)

(* A copy that is about to be written back knows of every mark on disk when *)
(* it is the loop's, and of none that is not on disk when it is a child's   *)
(* or the tool's.                                                           *)
CopyInv ==
  /\ \A a \in Acts :
       active[a[1]].at = "read" /\ Marks(active[a[1]].seen, a[2]) => OnDisk(a)
  /\ \A a \in Acts :
       tool.at \in {"scratch", "undo"} /\ tool.sub = a[1] /\ Marks(tool.seen, a[2])
         => OnDisk(a)
  /\ \A a \in Acts :
       snap # <<>> /\ Head(batch)[1] = a[1] /\ OnDisk(a) => Marks(snap, a[2])
  /\ pc = "mark" => Range(batch) \subseteq delivered

(* What waits to be told again is confirmed nowhere, unless it has crossed. *)
Waiting == Range(notes) \cup IF pc = "record" THEN Range(batch) ELSE {}
QueueInv ==
  /\ \A a \in iter.cur : Confirms(a) => a \in delivered
  /\ pc # "end" => (\A a \in Waiting : Confirms(a) => a \in crossed) /\ IsInjective(notes)
  /\ pc \in {"record", "mark"} => Range(notes) \cap Range(batch) \subseteq crossed
  /\ pc = "idle" => notes = <<>> /\ iter.cur = {}

(* No step but a mark confirms anything new.                                *)
Grows == \A a \in Acts : Confirms(a)' => Confirms(a) \/ (pc = "mark" /\ a \in Range(batch))

LEMMA CompletedMarks ==
  ASSUME NEW m \in Seq(Activation), NEW n, NEW i, Marks(Completed(m, n), i)
  PROVE  Marks(m, i)
<1>1. Len(Completed(m, n)) = Len(m)
  BY CompletedManifest DEF Alike
<1> QED
  BY <1>1, CompletedStatus DEF Marks

LEMMA MarkedMarks ==
  ASSUME NEW m \in Seq(Activation), NEW n, NEW i, turn \in 0..MaxTurns
  PROVE  /\ Marks(Marked(m, n), i) => Marks(m, i) \/ i = n
         /\ Marks(m, i) => Marks(Marked(m, n), i)
<1>1. Len(Marked(m, n)) = Len(m) /\ m \in [1..Len(m) -> Activation]
  BY MarkedManifest, LenProperties DEF Alike
<1>2. CASE m[n].st = "open" \/ m[n].to = turn
  BY <1>2 DEF Marked
<1>3. CASE ~(m[n].st = "open" \/ m[n].to = turn)
  <2> DEFINE e == [m[n] EXCEPT !.st = "delivered", !.to = turn]
  <2>1. Marked(m, n) = [m EXCEPT ![n] = e]
    BY <1>3 DEF Marked
  <2>2. i \in 1..Len(m) /\ i = n => e.st = "delivered"
    BY <1>1 DEF Activation
  <2> HIDE DEF e
  <2> QED
    BY <1>1, <2>1, <2>2 DEF Marks
<1> QED
  BY <1>2, <1>3

LEMMA NewMarks ==
  ASSUME NEW m \in Seq(Activation), NEW i, turn \in 1..MaxTurns
  PROVE  Marks(WithNew(m), i) <=> Marks(m, i)
<1>1. /\ Len(WithNew(m)) = Len(m) + 1 /\ Len(m) \in Nat
      /\ \A j \in 1..Len(m) : WithNew(m)[j] = m[j]
      /\ WithNew(m)[Len(m) + 1].st = "open"
  BY NewManifest, LenProperties DEF WithNew
<1> QED
  BY <1>1 DEF Marks

-----------------------------------------------------------------------------
(* The copies, and what a step confirms.                                    *)
Copied == CopyInv' /\ Grows

LEMMA CopiesKept ==
  ASSUME CopyInv, UNCHANGED <<disk, snap, batch, pc, delivered>>,
         \A s \in Subs : active'[s].at = "read" =>
           active[s].at = "read" /\ active'[s].seen = active[s].seen,
         tool'.at \in {"scratch", "undo"} =>
           /\ tool.at \in {"scratch", "undo"}
           /\ tool'.seen = tool.seen /\ tool'.sub = tool.sub
  PROVE  Copied
<1>1. \A a \in Acts : (OnDisk(a)' <=> OnDisk(a)) /\ (Confirms(a)' <=> Confirms(a))
  BY DEF OnDisk, InSnap, Confirms, Marks
<1>2. \A a \in Acts : a[1] \in Subs
  BY DEF Acts
<1>3. ASSUME NEW a \in Acts, active'[a[1]].at = "read", Marks(active'[a[1]].seen, a[2])
      PROVE  OnDisk(a)'
  BY <1>1, <1>2, <1>3 DEF CopyInv
<1>4. ASSUME NEW a \in Acts, tool'.at \in {"scratch", "undo"}, tool'.sub = a[1],
             Marks(tool'.seen, a[2])
      PROVE  OnDisk(a)'
  BY <1>1, <1>4 DEF CopyInv
<1>5. CopyInv'
  BY <1>1, <1>3, <1>4 DEF CopyInv, Marks
<1> QED
  BY <1>1, <1>5 DEF Copied, Grows

LEMMA ToolCopies ==
  ASSUME Types, FitInv, CopyInv, ToolStep
  PROVE  Copied
<1>0. UNCHANGED <<pc, batch, snap, delivered>>
  BY DEF ToolStep, CallLaunch, CallContinue, CallSend, CallStop, CallAnswered,
         SendGoesOn, StopDone, ManifestWritten, Started, Undone, loop
<1>1. ASSUME NEW s \in Subs,
             CallLaunch \/ CallContinue(s) \/ CallSend(s) \/ CallStop(s)
      PROVE  Copied
  <2>1. tool'.at \in {"begin", "done"} /\ UNCHANGED disk
    BY <1>1, CallMade DEF CallLaunch, CallContinue, CallSend, CallStop, Prepares, Types,
       LoopTypes
  <2>2. \A r \in Subs : active'[r].at = "read" =>
          active[r].at = "read" /\ active'[r].seen = active[r].seen
    BY <1>1, StopMade DEF CallLaunch, CallContinue, CallSend, Others
  <2> QED
    BY <1>0, <2>1, <2>2, CopiesKept
<1>2. CASE CallAnswered \/ SendGoesOn \/ StopDone
  <2>1. UNCHANGED <<disk, active>>
    BY <1>2 DEF CallAnswered, SendGoesOn, StopDone, service
  <2>2. UNCHANGED tool \/ tool' = NoTool \/ tool'.at = "begin"
    BY <1>2, GoneOn DEF CallAnswered, StopDone, service
  <2> QED
    BY <1>0, <2>1, <2>2, CopiesKept DEF NoTool
<1>3. CASE Started
  <2>1. UNCHANGED disk
    BY <1>3 DEF Started
  <2>2. \A r \in Subs : active'[r].at = "read" =>
          active[r].at = "read" /\ active'[r].seen = active[r].seen
    BY <1>3, StartMade DEF Others
  <2>3. tool'.at \in {"scratch", "undo"} =>
          /\ tool.at \in {"scratch", "undo"}
          /\ tool'.seen = tool.seen /\ tool'.sub = tool.sub
    BY <1>3, StartMade DEF NoTool
  <2> QED
    BY <1>0, <2>1, <2>2, <2>3, CopiesKept
<1>4. CASE ManifestWritten \/ Undone
  <2> DEFINE s == tool.sub  m == disk[s]
  <2>1. /\ s \in Subs /\ m \in Seq(Activation) /\ disk \in [Subs -> Seq(Activation)]
        /\ turn \in 1..MaxTurns /\ pc = "step" /\ snap = <<>> /\ active[s] = NoActive
        /\ UNCHANGED active
    BY <1>4, NoBatch DEF Types, ServiceTypes, LoopTypes, FitInv, ToolInv, Calls, NoTool,
       ManifestWritten, Undone, Preparing
  <2>2. \/ tool'.seen = m /\ disk' \in {disk, [disk EXCEPT ![s] = WithNew(m)]}
           /\ tool'.sub = s
        \/ /\ tool.at = "undo" /\ tool' = NoTool
           /\ disk' \in {disk, [disk EXCEPT ![s] = tool.seen]}
    BY <1>4, WrittenMade DEF ManifestWritten, Undone
  <2>3. \A i : Marks(WithNew(m), i) <=> Marks(m, i)
    BY <2>1, NewMarks
  <2>4. \A r \in Subs \ {s} : disk'[r] = disk[r]
    BY <2>1, <2>2
  <2>5. ASSUME NEW a \in Acts, OnDisk(a)' PROVE OnDisk(a)
    <3>1. CASE a[1] # s
      BY <2>4, <2>5, <3>1 DEF OnDisk, Acts
    <3>2. CASE a[1] = s
      <4>1. disk'[s] = m \/ disk'[s] = WithNew(m) \/ (tool.at = "undo" /\ disk'[s] = tool.seen)
        BY <2>1, <2>2
      <4> QED
        BY <2>3, <2>5, <3>2, <4>1 DEF OnDisk, CopyInv
    <3> QED
      BY <3>1, <3>2
  <2>6. ASSUME NEW a \in Acts, active'[a[1]].at = "read", Marks(active'[a[1]].seen, a[2])
        PROVE  OnDisk(a)'
    <3>1. a[1] # s /\ a[1] \in Subs
      BY <2>1, <2>6 DEF NoActive, Acts
    <3> QED
      BY <2>1, <2>4, <2>6, <3>1 DEF CopyInv, OnDisk
  <2>7. ASSUME NEW a \in Acts, tool'.at \in {"scratch", "undo"}, tool'.sub = a[1],
               Marks(tool'.seen, a[2])
        PROVE  OnDisk(a)'
    <3>1. tool'.seen = m /\ a[1] = s /\ disk'[s] \in {m, WithNew(m)}
      BY <2>1, <2>2, <2>7 DEF NoTool
    <3> QED
      BY <2>3, <2>7, <3>1 DEF OnDisk
  <2>8. CopyInv'
    BY <1>0, <2>1, <2>6, <2>7 DEF CopyInv
  <2> QED
    BY <1>0, <2>1, <2>5, <2>8 DEF Copied, Grows, Confirms, InSnap
<1> QED
  BY <1>1, <1>2, <1>3, <1>4 DEF ToolStep, CallLaunch

LEMMA ChildCopies ==
  ASSUME Types, FitInv, CopyInv, NEW s \in Subs, ChildStep(s)
  PROVE  Copied
<1>0. UNCHANGED <<tool, pc, batch, snap, delivered>>
  BY DEF ChildStep, ChildEnds, ChildSaves, ChildReleases, ChildSettles, InMemory, loop
<1>1. CASE ChildEnds(s)
  <2>1. UNCHANGED disk
    BY <1>1 DEF ChildEnds, InMemory
  <2>2. \A a \in Acts : (OnDisk(a)' <=> OnDisk(a)) /\ (Confirms(a)' <=> Confirms(a))
    BY <1>0, <2>1 DEF OnDisk, InSnap, Confirms, Marks
  <2>3. ASSUME NEW a \in Acts, active'[a[1]].at = "read", Marks(active'[a[1]].seen, a[2])
        PROVE  OnDisk(a)'
    <3>1. CASE a[1] = s
      BY <1>1, <2>1, <2>3, <3>1, EndMade DEF OnDisk
    <3>2. CASE a[1] # s
      BY <1>1, <2>2, <2>3, <3>2, EndMade DEF CopyInv, Others, Acts
    <3> QED
      BY <3>1, <3>2
  <2>4. CopyInv'
    BY <1>0, <2>2, <2>3 DEF CopyInv, Marks
  <2> QED
    BY <2>2, <2>4 DEF Copied, Grows
<1>2. CASE ChildSaves(s)
  <2> DEFINE m == active[s].seen  c == Completed(m, active[s].n)
  <2>1. active[s].at = "read" /\ m \in Seq(Activation) /\ active[s] # NoActive
        /\ disk \in [Subs -> Seq(Activation)]
    BY <1>2 DEF ChildSaves, Types, ServiceTypes, InFlight, NoActive
  <2>2. disk' \in {disk, [disk EXCEPT ![s] = c]}
    BY <1>2 DEF ChildSaves
  <2>3. \A i : Marks(c, i) => Marks(m, i)
    BY <2>1, CompletedMarks
  <2> HIDE DEF c
  <2>4. \A r \in Subs \ {s} : disk'[r] = disk[r] /\ active'[r] = active[r]
    BY <1>2, <2>1, <2>2, SaveMade DEF Others
  <2>5. ASSUME NEW a \in Acts, OnDisk(a)' PROVE OnDisk(a)
    <3>1. CASE a[1] # s
      BY <2>4, <2>5, <3>1 DEF OnDisk, Acts
    <3>2. CASE a[1] = s
      <4>1. disk'[s] \in {disk[s], c}
        BY <2>1, <2>2
      <4> QED
        BY <2>1, <2>3, <2>5, <3>2, <4>1 DEF OnDisk, CopyInv
    <3> QED
      BY <3>1, <3>2
  <2>6. ASSUME NEW a \in Acts, active'[a[1]].at = "read", Marks(active'[a[1]].seen, a[2])
        PROVE  OnDisk(a)'
    <3>1. a[1] # s /\ a[1] \in Subs
      BY <1>2, <2>6, SaveMade DEF Acts
    <3> QED
      BY <2>4, <2>6, <3>1 DEF CopyInv, OnDisk
  <2>7. ASSUME NEW a \in Acts, tool.at \in {"scratch", "undo"}, tool.sub = a[1],
               Marks(tool.seen, a[2])
        PROVE  OnDisk(a)'
    <3>1. a[1] # s /\ a[1] \in Subs
      BY <2>1, <2>7 DEF FitInv, ToolInv, Preparing, Acts
    <3> QED
      BY <2>4, <2>7, <3>1 DEF CopyInv, OnDisk
  <2>8. CopyInv'
    BY <1>0, <2>5, <2>6, <2>7 DEF CopyInv
  <2> QED
    BY <1>0, <2>5, <2>8 DEF Copied, Grows, Confirms, InSnap
<1>3. CASE ChildReleases(s) \/ ChildSettles(s)
  <2>1. UNCHANGED disk
    BY <1>3 DEF ChildReleases, ChildSettles
  <2>2. Others(s) /\ active'[s].at # "read"
    BY <1>3, ReleaseMade, SettleMade DEF NoActive
  <2> QED
    BY <1>0, <2>1, <2>2, CopiesKept DEF Others
<1> QED
  BY <1>1, <1>2, <1>3 DEF ChildStep

(* The first of the batch, and the rest of it.                              *)
LEMMA FirstOfBatch ==
  ASSUME Types, batch # <<>>
  PROVE  /\ Head(batch) \in Acts /\ Head(batch) \in Range(batch)
         /\ Range(Tail(batch)) \subseteq Range(batch)
<1>1. batch \in Seq(Acts)
  BY DEF Types, LoopTypes
<1>2. /\ Head(batch) = batch[1] /\ Len(batch) \in Nat \ {0}
      /\ DOMAIN batch = 1..Len(batch) /\ Head(batch) \in Acts
      /\ Tail(batch) \in Seq(Acts) /\ Len(Tail(batch)) = Len(batch) - 1
      /\ \A i \in 1..Len(Tail(batch)) : Tail(batch)[i] = batch[i + 1]
  BY <1>1, HeadTailProperties, EmptySeq, LenProperties
<1>3. DOMAIN Tail(batch) = 1..(Len(batch) - 1)
  BY <1>2, LenProperties
<1>4. \A i \in DOMAIN Tail(batch) : i + 1 \in DOMAIN batch
  BY <1>2, <1>3
<1> QED
  BY <1>2, <1>3, <1>4 DEF Range

LEMMA LoopCopies ==
  ASSUME Types, FitInv, CopyInv, NEW user \in BOOLEAN,
         LoopStep \/ SessionAborts \/ Stop \/ Start(user)
  PROVE  Copied
<1>1. CASE \/ \E s \in Subs : LoadManifest(s)
           \/ LoadResult \/ Drain \/ Proceed \/ Recorded \/ Confirmed \/ StateRead \/ Wakes
           \/ StepEnds \/ LoopBreaks \/ AbortNoticed \/ TurnEnds \/ SessionAborts
           \/ Start(user)
  <2>1. UNCHANGED <<disk, active, tool, snap>>
    BY <1>1 DEF LoadManifest, LoadResult, Drain, Proceed, Recorded, Confirmed, StateRead,
       Wakes, StepEnds, LoopBreaks, AbortNoticed, TurnEnds, SessionAborts, Start, service
  <2>2. snap = <<>> \/ UNCHANGED batch
    BY <1>1, NoBatch DEF LoadManifest, LoadResult, Drain, Proceed, Recorded, Confirmed,
       StateRead, Wakes, StepEnds, LoopBreaks, AbortNoticed, TurnEnds, SessionAborts, Start,
       MayLoad, FitInv, BatchInv
  <2>3. \A a \in Acts : (OnDisk(a)' <=> OnDisk(a)) /\ (Confirms(a)' <=> Confirms(a))
    BY <2>1, <2>2 DEF OnDisk, InSnap, Confirms, Marks
  <2>4. pc' = "mark" => Range(batch') \subseteq delivered'
    <3>1. CASE Recorded
      BY <3>1 DEF Recorded, Unrecorded, Ends
    <3>2. CASE SessionAborts
      BY <3>2 DEF SessionAborts, CopyInv
    <3>3. CASE ~Recorded /\ ~SessionAborts
      BY <1>1, <3>3 DEF LoadManifest, LoadResult, MayLoad, Drain, Proceed, Confirmed,
         StateRead, Wakes, StepEnds, LoopBreaks, AbortNoticed, TurnEnds, Start, Asks, Ends
    <3> QED
      BY <3>1, <3>2, <3>3
  <2>5. CopyInv'
    BY <2>1, <2>2, <2>3, <2>4 DEF CopyInv, Marks
  <2> QED
    BY <2>3, <2>5 DEF Copied, Grows
<1>2. CASE Stop
  <2>1. UNCHANGED <<disk, pc, batch, snap, delivered>>
    BY <1>2 DEF Stop, loop
  <2> QED
    BY <1>2, <2>1, SubTold, CallTold, CopiesKept
<1>3. CASE MarkReads
  <2>1. /\ UNCHANGED <<disk, active, tool, batch, delivered, pc>> /\ snap = <<>>
        /\ snap' = disk[Head(batch)[1]]
    BY <1>3 DEF MarkReads, service
  <2>2. \A a \in Acts : (OnDisk(a)' <=> OnDisk(a)) /\ (InSnap(a)' => OnDisk(a))
    BY <2>1 DEF OnDisk, InSnap, Marks
  <2>3. CopyInv'
    BY <2>1, <2>2 DEF CopyInv, OnDisk, Marks
  <2> QED
    BY <2>2, <2>3 DEF Copied, Grows, Confirms
<1>4. CASE MarkWrites
  <2> DEFINE h == Head(batch)  s == h[1]  next == Marked(snap, h[2])
  <2>1. /\ UNCHANGED <<active, tool, delivered, pc>> /\ batch' = Tail(batch)
        /\ pc = "mark" /\ snap' = <<>> /\ batch # <<>> /\ snap # <<>>
    BY <1>4 DEF MarkWrites
  <2>2. /\ snap \in Seq(Activation) /\ turn \in 0..MaxTurns
        /\ disk \in [Subs -> Seq(Activation)]
        /\ h \in Acts /\ h \in Range(batch) /\ Range(batch') \subseteq Range(batch)
        /\ h = <<s, h[2]>> /\ s \in Subs
    <3>1. h \in Acts /\ h \in Range(batch) /\ Range(batch') \subseteq Range(batch)
      BY <2>1, FirstOfBatch
    <3>2. h = <<s, h[2]>> /\ s \in Subs
      BY <3>1 DEF Acts
    <3> QED
      BY <3>1, <3>2 DEF Types, ServiceTypes, LoopTypes
  <2>3. disk' \in {disk, [disk EXCEPT ![s] = next]}
    <3>1. PICK m \in {disk[s], next} : disk' = [disk EXCEPT ![s] = m] \/ disk' = disk
      BY <1>4 DEF MarkWrites
    <3> HIDE DEF next
    <3> QED
      BY <2>2, <3>1
  <2>4. \A i : /\ Marks(next, i) => Marks(snap, i) \/ i = h[2]
               /\ Marks(snap, i) => Marks(next, i)
    BY <2>2, MarkedMarks
  <2> HIDE DEF next
  <2>5. disk'[s] \in {disk[s], next} /\ \A r \in Subs \ {s} : disk'[r] = disk[r]
    BY <2>2, <2>3
  <2>6. ASSUME NEW a \in Acts, OnDisk(a) PROVE OnDisk(a)'
    <3>1. CASE a[1] # s
      BY <2>5, <2>6, <3>1 DEF OnDisk, Acts
    <3>2. CASE a[1] = s
      <4>1. Marks(next, a[2])
        BY <2>1, <2>4, <2>6, <3>2 DEF CopyInv
      <4> QED
        BY <2>5, <2>6, <3>2, <4>1 DEF OnDisk
    <3> QED
      BY <3>1, <3>2
  <2>7. ASSUME NEW a \in Acts, OnDisk(a)' PROVE Confirms(a) \/ a \in Range(batch)
    <3>1. CASE a[1] # s
      BY <2>5, <2>7, <3>1 DEF OnDisk, Acts, Confirms
    <3>2. CASE a[1] = s
      <4>1. a = <<s, a[2]>>
        BY <3>2 DEF Acts
      <4>2. Marks(disk[s], a[2]) \/ Marks(snap, a[2]) \/ a[2] = h[2]
        BY <2>4, <2>5, <2>7, <3>2 DEF OnDisk
      <4>3. a[2] = h[2] => a \in Range(batch)
        BY <2>2, <4>1
      <4> QED
        BY <2>1, <3>2, <4>2, <4>3 DEF Confirms, OnDisk, InSnap
    <3> QED
      BY <3>1, <3>2
  <2>8. CopyInv'
    BY <2>1, <2>2, <2>6 DEF CopyInv
  <2> QED
    BY <2>1, <2>7, <2>8 DEF Copied, Grows, Confirms, InSnap
<1> QED
  BY <1>1, <1>2, <1>3, <1>4 DEF LoopStep

LEMMA StepCopies ==
  Types /\ FitInv /\ CopyInv /\ [Next]_vars => CopyInv' /\ (Restart \/ Grows)
<1> SUFFICES ASSUME Types, FitInv, CopyInv, [Next]_vars PROVE CopyInv' /\ (Restart \/ Grows)
  OBVIOUS
<1>1. CASE Restart
  <2>1. /\ \A s \in Subs : active'[s] = NoActive
        /\ tool' = NoTool /\ snap' = <<>> /\ pc' = "idle"
    BY <1>1 DEF Restart
  <2> QED
    BY <1>1, <2>1 DEF CopyInv, NoActive, NoTool, Acts
<1>2. CASE UNCHANGED vars
  BY <1>2, CopiesKept DEF vars, service, loop, Copied
<1> QED
  BY <1>1, <1>2, ToolCopies, ChildCopies, LoopCopies DEF Next, Copied

-----------------------------------------------------------------------------
(* What waits to be told.                                                   *)
LEMMA QueueKept ==
  ASSUME Types, CopyInv, QueueInv, Grows, UNCHANGED <<pc, notes>>,
         iter'.cur \subseteq iter.cur, Range(batch') \subseteq Range(batch),
         delivered \subseteq delivered', crossed \subseteq crossed'
  PROVE  QueueInv'
<1>1. iter.cur \subseteq Acts /\ Waiting \subseteq Acts
  <2>1. notes \in [1..Len(notes) -> Acts] /\ batch \in [1..Len(batch) -> Acts]
        /\ iter.cur \subseteq Acts
    BY LenProperties DEF Types, LoopTypes
  <2> QED
    BY <2>1 DEF Waiting, Range
<1>2. \A a \in iter'.cur : Confirms(a)' => a \in delivered'
  BY <1>1 DEF QueueInv, Grows, CopyInv
<1>3. Waiting' \subseteq Waiting
  BY DEF Waiting
<1>4. ASSUME pc # "end", NEW a \in Waiting', Confirms(a)' PROVE a \in crossed'
  <2>1. a \in Waiting /\ a \in Acts
    BY <1>1, <1>3, <1>4
  <2>2. CASE Confirms(a)
    BY <1>4, <2>1, <2>2 DEF QueueInv
  <2>3. CASE pc = "mark" /\ a \in Range(batch)
    <3>1. a \in Range(notes)
      BY <2>1, <2>3 DEF Waiting
    <3> QED
      BY <2>3, <3>1 DEF QueueInv
  <2> QED
    BY <1>4, <2>1, <2>2, <2>3 DEF Grows
<1> QED
  BY <1>2, <1>4 DEF QueueInv

(* Nothing is held outside of record and mark, so that only the manifests   *)
(* on disk confirm anything.                                                *)
LEMMA SameConfirmed ==
  ASSUME UNCHANGED disk, snap = <<>>, snap' = <<>>
  PROVE  \A a : Confirms(a)' <=> Confirms(a)
BY DEF Confirms, OnDisk, InSnap, Marks

LEMMA NoWaiting == pc # "record" => Waiting = Range(notes)
BY DEF Waiting

(* A step of the loop that takes nothing out and queues nothing.            *)
LEMMA QueueMoves ==
  ASSUME QueueInv, UNCHANGED <<disk, notes, crossed>>, snap = <<>>, snap' = <<>>,
         pc \notin {"idle", "end"}, pc' \notin {"idle", "record"},
         pc' = "mark" => pc = "record" /\ UNCHANGED batch,
         iter' = iter, delivered \subseteq delivered'
  PROVE  QueueInv'
<1>1. \A a : Confirms(a)' <=> Confirms(a)
  BY SameConfirmed
<1>2. Waiting' \subseteq Waiting
  BY DEF Waiting
<1> QED
  BY <1>1, <1>2 DEF QueueInv

LEMMA Appended ==
  ASSUME NEW q \in Seq(Acts), NEW a
  PROVE  /\ Range(Append(q, a)) = Range(q) \cup {a}
         /\ IsInjective(q) /\ a \notin Range(q) => IsInjective(Append(q, a))
<1>1. Len(q) \in Nat /\ DOMAIN q = 1..Len(q)
  BY LenProperties
<1>2. /\ DOMAIN Append(q, a) = 1..(Len(q) + 1) /\ Append(q, a)[Len(q) + 1] = a
      /\ \A i \in 1..Len(q) : Append(q, a)[i] = q[i]
  BY <1>1
<1> QED
  BY <1>1, <1>2 DEF Range, IsInjective

LEMMA SettleQueues ==
  ASSUME Types, FitInv, ToldInv, CopyInv, QueueInv, Grows,
         NEW s \in Subs, ChildSettles(s)
  PROVE  QueueInv'
<1> DEFINE a == <<s, active[s].n>>
<1>1. UNCHANGED <<disk, pc, batch, snap, iter, delivered>> /\ crossed \subseteq crossed'
  BY DEF ChildSettles
<1>2. CASE UNCHANGED notes
  BY <1>1, <1>2, QueueKept
<1>3. CASE /\ notes' = Append(notes, a) /\ Accepts(a)
           /\ a \in told \cup Range(batch) => a \in crossed'
  <2>1. \A b : Confirms(b)' <=> Confirms(b)
    BY <1>1 DEF Confirms, OnDisk, InSnap, Marks
  <2>2. /\ Range(notes') = Range(notes) \cup {a} /\ a \notin Range(notes)
        /\ IsInjective(notes) => IsInjective(notes')
    BY <1>3, Appended DEF Accepts, Types, LoopTypes
  <2>3. pc \notin {"idle", "end"}
    BY <1>3 DEF Accepts, Listens
  <2>4. Confirms(a) => a \in told
    BY DEF Confirms, OnDisk, InSnap, Marks, ToldInv, TellsTruth
  <2>5. Waiting' \subseteq Waiting \cup {a}
    BY <1>1, <2>2 DEF Waiting
  <2> HIDE DEF a
  <2>6. ASSUME NEW b \in Waiting', Confirms(b)' PROVE b \in crossed'
    BY <1>1, <1>3, <2>1, <2>3, <2>4, <2>5, <2>6 DEF QueueInv
  <2>7. pc \in {"record", "mark"} => Range(notes') \cap Range(batch') \subseteq crossed'
    BY <1>1, <1>3, <2>2 DEF QueueInv
  <2> QED
    BY <1>1, <2>1, <2>2, <2>3, <2>6, <2>7 DEF QueueInv
<1> QED
  BY <1>2, <1>3 DEF ChildSettles, Announce, Accepts

LEMMA ResultQueues ==
  ASSUME Types, FitInv, QueueInv, LoadResult
  PROVE  QueueInv'
<1>1. /\ UNCHANGED <<disk, pc, batch, snap, delivered, crossed>> /\ pc = "load"
      /\ batch = <<>> /\ snap = <<>>
  BY NoBatch DEF LoadResult, MayLoad, service
<1>2. PICK a \in iter.cur : Announce(a) /\ iter' = [iter EXCEPT !.cur = @ \ {a}]
  BY DEF LoadResult
<1>3. iter'.cur = iter.cur \ {a}
  BY <1>2 DEF Types, LoopTypes
<1>4. \A b : Confirms(b)' <=> Confirms(b)
  BY <1>1, SameConfirmed
<1>5. CASE UNCHANGED notes
  BY <1>1, <1>3, <1>4, <1>5 DEF QueueInv, Waiting
<1>6. CASE notes' = Append(notes, a) /\ Accepts(a)
  <2>1. /\ Range(notes') = Range(notes) \cup {a}
        /\ IsInjective(notes) => IsInjective(notes')
    BY <1>6, Appended DEF Accepts, Types, LoopTypes
  <2>2. ~Confirms(a)
    BY <1>2, <1>6 DEF QueueInv, Accepts
  <2> QED
    BY <1>1, <1>3, <1>4, <2>1, <2>2 DEF QueueInv, Waiting
<1> QED
  BY <1>2, <1>5, <1>6 DEF Announce

LEMMA ManifestQueues ==
  ASSUME Types, FitInv, QueueInv, NEW s \in Subs, LoadManifest(s)
  PROVE  QueueInv'
<1>1. /\ UNCHANGED <<disk, pc, notes, batch, snap, delivered, crossed>> /\ pc = "load"
      /\ batch = <<>> /\ snap = <<>> /\ iter'.cur = Pending(s)
  BY NoBatch DEF LoadManifest, MayLoad, service
<1>2. \A b : Confirms(b)' <=> Confirms(b)
  BY <1>1, SameConfirmed
<1>3. ASSUME NEW a \in Pending(s) PROVE ~Confirms(a)
  BY <1>1 DEF Pending, Status, Confirms, OnDisk, InSnap, Marks
<1> QED
  BY <1>1, <1>2, <1>3 DEF QueueInv, Waiting

(* What is taken out, and what is left, was queued.                          *)
LEMMA Taken ==
  ASSUME Types, Drain
  PROVE  Range(batch') \cup Range(notes') \subseteq Range(notes)
<1>1. PICK k \in 1..Len(notes) :
        batch' = SubSeq(notes, 1, k) /\ notes' = SubSeq(notes, k + 1, Len(notes))
  BY DEF Drain
<1>2. notes \in Seq(Acts) /\ Len(notes) \in Nat /\ DOMAIN notes = 1..Len(notes) /\ k \in Nat
      /\ k <= Len(notes) /\ k >= 1
  BY LenProperties DEF Types, LoopTypes
<1>3. /\ DOMAIN batch' = 1..k /\ \A i \in 1..k : batch'[i] = notes[i]
      /\ DOMAIN notes' = 1..(Len(notes) - k)
      /\ \A i \in 1..(Len(notes) - k) : notes'[i] = notes[k + i]
  BY <1>1, <1>2
<1>4. ASSUME NEW i \in DOMAIN batch' PROVE batch'[i] \in Range(notes)
  <2>1. i \in DOMAIN notes /\ batch'[i] = notes[i]
    BY <1>2, <1>3
  <2> QED
    BY <2>1 DEF Range
<1>5. ASSUME NEW i \in DOMAIN notes' PROVE notes'[i] \in Range(notes)
  <2>1. k + i \in DOMAIN notes /\ notes'[i] = notes[k + i]
    BY <1>2, <1>3
  <2> QED
    BY <2>1 DEF Range
<1> QED
  BY <1>4, <1>5 DEF Range

LEMMA DrainQueues ==
  ASSUME Types, FitInv, QueueInv, Drain
  PROVE  QueueInv'
<1>1. /\ UNCHANGED <<disk, snap, iter, delivered, crossed>> /\ pc = "load"
      /\ pc' = "record" /\ snap = <<>>
  BY NoBatch DEF Drain, service
<1>2. PICK k \in 1..Len(notes) :
        batch' = SubSeq(notes, 1, k) /\ notes' = SubSeq(notes, k + 1, Len(notes))
  BY DEF Drain
<1>3. \A b : Confirms(b)' <=> Confirms(b)
  BY <1>1, SameConfirmed
<1>4. notes \in Seq(Acts) /\ Len(notes) \in Nat /\ DOMAIN notes = 1..Len(notes) /\ k \in Nat
      /\ k <= Len(notes) /\ k >= 1
  BY LenProperties DEF Types, LoopTypes
<1>5. /\ DOMAIN batch' = 1..k /\ \A i \in 1..k : batch'[i] = notes[i]
      /\ DOMAIN notes' = 1..(Len(notes) - k)
      /\ \A i \in 1..(Len(notes) - k) : notes'[i] = notes[k + i]
  BY <1>2, <1>4
<1>6. Range(batch') \cup Range(notes') \subseteq Range(notes)
  BY Taken
<1>7. IsInjective(notes)
  BY <1>1 DEF QueueInv
<1>8. IsInjective(notes')
  <2> SUFFICES ASSUME NEW i \in DOMAIN notes', NEW j \in DOMAIN notes', notes'[i] = notes'[j]
               PROVE  i = j
    BY DEF IsInjective
  <2>1. /\ k + i \in DOMAIN notes /\ k + j \in DOMAIN notes /\ i \in Nat /\ j \in Nat
        /\ notes[k + i] = notes[k + j]
    BY <1>4, <1>5
  <2>2. k + i = k + j
    BY <1>7, <2>1 DEF IsInjective
  <2> QED
    BY <1>4, <2>1, <2>2
<1>9. Range(notes') \cap Range(batch') = {}
  <2> SUFFICES ASSUME NEW i \in DOMAIN notes', NEW j \in DOMAIN batch',
                      notes'[i] = batch'[j]
               PROVE  FALSE
    BY DEF Range
  <2>1. /\ k + i \in DOMAIN notes /\ j \in DOMAIN notes /\ i >= 1 /\ j <= k /\ i \in Nat
        /\ j \in Nat /\ notes[k + i] = notes[j]
    BY <1>4, <1>5
  <2>2. k + i = j
    BY <1>7, <2>1 DEF IsInjective
  <2> QED
    BY <1>4, <2>1, <2>2
<1>10. Waiting' \subseteq Waiting
  BY <1>1, <1>6 DEF Waiting
<1> QED
  BY <1>1, <1>3, <1>8, <1>9, <1>10 DEF QueueInv

LEMMA EmptyQueue ==
  ASSUME notes' = <<>>, iter'.cur = {}, pc' \notin {"record", "mark"}
  PROVE  QueueInv'
<1>1. Range(notes') = {} /\ IsInjective(notes')
  BY DEF Range, IsInjective
<1> QED
  BY <1>1 DEF QueueInv, Waiting

LEMMA LoopQueues ==
  ASSUME Types, FitInv, CopyInv, QueueInv, Grows, LoopStep
  PROVE  QueueInv'
<1>1. CASE \/ Proceed \/ StateRead \/ Wakes \/ StepEnds \/ LoopBreaks \/ AbortNoticed
           \/ Confirmed
  <2>1. /\ UNCHANGED <<disk, notes, crossed, snap, iter, delivered>>
        /\ pc \notin {"idle", "end"} /\ pc' \notin {"idle", "record", "mark"}
    BY <1>1 DEF Proceed, StateRead, Wakes, StepEnds, LoopBreaks, AbortNoticed, Confirmed,
       StepOver, Asks, Ends, service
  <2>2. snap = <<>>
    BY <1>1 DEF FitInv, BatchInv, Proceed, StateRead, Wakes, StepEnds, LoopBreaks,
       AbortNoticed, Confirmed, StepOver
  <2> QED
    BY <2>1, <2>2, QueueMoves
<1>2. CASE Recorded
  <2>1. /\ UNCHANGED <<disk, crossed, snap, iter>> /\ pc = "record" /\ snap = <<>>
        /\ \/ /\ UNCHANGED <<notes, batch>> /\ pc' = "mark" /\ delivered \subseteq delivered'
           \/ UNCHANGED delivered /\ pc' = "end"
    BY <1>2 DEF Recorded, Unrecorded, Ends, service, FitInv, BatchInv
  <2>2. CASE pc' = "mark"
    BY <2>1, <2>2, QueueMoves
  <2>3. CASE pc' = "end" /\ UNCHANGED delivered
    BY <2>1, <2>3, SameConfirmed DEF QueueInv
  <2> QED
    BY <2>1, <2>2, <2>3
<1>3. CASE MarkReads
  BY <1>3, QueueKept DEF MarkReads
<1>4. CASE MarkWrites
  <2>1. batch # <<>> /\ batch' = Tail(batch)
        /\ UNCHANGED <<pc, notes, iter, delivered, crossed>>
    BY <1>4 DEF MarkWrites
  <2> QED
    BY <2>1, FirstOfBatch, QueueKept
<1>5. CASE TurnEnds
  BY <1>5, EmptyQueue DEF TurnEnds, NoIter
<1> QED
  BY <1>1, <1>2, <1>3, <1>4, <1>5, ManifestQueues, ResultQueues, DrainQueues DEF LoopStep

LEMMA AbortQueues ==
  ASSUME Types, CopyInv, QueueInv, Grows, SessionAborts
  PROVE  QueueInv'
<1>1. /\ UNCHANGED <<disk, snap, batch, iter, delivered, crossed, pc>> /\ notes' = <<>>
  BY DEF SessionAborts, service
<1>2. \A b : Confirms(b)' <=> Confirms(b)
  BY <1>1 DEF Confirms, OnDisk, InSnap, Marks
<1>3. Range(notes') = {} /\ IsInjective(notes')
  BY <1>1 DEF Range, IsInjective
<1> QED
  BY <1>1, <1>2, <1>3 DEF QueueInv, Waiting

LEMMA StepQueues ==
  Types /\ FitInv /\ ToldInv /\ CopyInv /\ QueueInv /\ [Next]_vars => QueueInv'
<1> SUFFICES ASSUME Types, FitInv, ToldInv, CopyInv, QueueInv, [Next]_vars PROVE QueueInv'
  OBVIOUS
<1>1. CASE Restart
  BY <1>1, EmptyQueue DEF Restart, NoIter
<1>2. ASSUME NEW user \in BOOLEAN, Start(user) PROVE QueueInv'
  <2>1. notes' = <<>> /\ pc' = "load" /\ iter'.cur = {}
    BY <1>2 DEF Start, NoIter, QueueInv
  <2> QED
    BY <2>1, EmptyQueue
<1>3. CASE ~Restart
  <2>1. Grows
    BY <1>3, StepCopies
  <2>2. CASE ToolStep \/ Stop \/ UNCHANGED vars
    <3>1. UNCHANGED <<pc, notes, iter, batch, delivered, crossed>>
      BY <2>2 DEF ToolStep, CallLaunch, CallContinue, CallSend, CallStop, CallAnswered,
         SendGoesOn, StopDone, ManifestWritten, Started, Undone, Stop, vars, loop
    <3> QED
      BY <2>1, <3>1, QueueKept
  <2>3. ASSUME NEW s \in Subs, ChildStep(s) PROVE QueueInv'
    <3>1. CASE ChildSettles(s)
      BY <2>1, <3>1, SettleQueues
    <3>2. CASE ~ChildSettles(s)
      <4>1. UNCHANGED <<pc, notes, iter, batch, delivered, crossed>>
        BY <2>3, <3>2 DEF ChildStep, ChildEnds, ChildSaves, ChildReleases, loop
      <4> QED
        BY <2>1, <4>1, QueueKept
    <3> QED
      BY <3>1, <3>2
  <2> QED
    BY <1>2, <1>3, <2>1, <2>2, <2>3, LoopQueues, AbortQueues DEF Next
<1> QED
  BY <1>1, <1>3

-----------------------------------------------------------------------------
(* What is queued, taken out or told is in a manifest for good: undoing a   *)
(* start removes only what nobody has heard of.                             *)
Firm == {a \in Saved :
  tool.at \in {"scratch", "undo"} /\ tool.sub = a[1] => a[2] <= Len(tool.seen)}
Heard == Range(notes) \cup Range(batch) \cup iter.cur \cup told
FirmInv == Heard \subseteq Firm

LEMMA FirmKept ==
  ASSUME \A r \in Subs : Len(disk'[r]) = Len(disk[r]),
         tool'.at \in {"scratch", "undo"} =>
           /\ tool.at \in {"scratch", "undo"}
           /\ tool'.seen = tool.seen /\ tool'.sub = tool.sub
  PROVE  Firm \subseteq Firm'
BY DEF Firm, Saved, Acts

LEMMA ToolFirm ==
  ASSUME Types, FitInv, ToolStep
  PROVE  Firm \subseteq Firm'
<1>1. ASSUME NEW s \in Subs,
             CallLaunch \/ CallContinue(s) \/ CallSend(s) \/ CallStop(s)
      PROVE  Firm \subseteq Firm'
  <2>1. tool'.at \in {"begin", "done"} /\ UNCHANGED disk
    BY <1>1, CallMade DEF CallLaunch, CallContinue, CallSend, CallStop, Prepares, Types,
       LoopTypes
  <2> QED
    BY <2>1, FirmKept
<1>2. CASE CallAnswered \/ SendGoesOn \/ StopDone \/ Started
  <2>1. UNCHANGED disk
    BY <1>2 DEF CallAnswered, SendGoesOn, StopDone, Started, service
  <2>2. tool'.at \in {"scratch", "undo"} =>
          /\ tool.at \in {"scratch", "undo"}
          /\ tool'.seen = tool.seen /\ tool'.sub = tool.sub
    BY <1>2, GoneOn, StartMade DEF CallAnswered, StopDone, service, NoTool
  <2> QED
    BY <2>1, <2>2, FirmKept
<1>3. CASE ManifestWritten \/ Undone
  <2> SUFFICES ASSUME NEW a \in Firm PROVE a \in Firm'
    OBVIOUS
  <2>1. a \in Acts /\ a[1] \in Subs /\ a[2] \in Nat /\ a[2] <= Len(disk[a[1]])
    BY DEF Firm, Saved, Acts
  <2>2. /\ tool.sub \in Subs /\ disk \in [Subs -> Seq(Activation)] /\ turn \in 1..MaxTurns
        /\ disk[tool.sub] \in Seq(Activation)
    BY <1>3 DEF Types, ServiceTypes, LoopTypes, FitInv, ToolInv, Calls, NoTool,
       ManifestWritten, Undone
  <2>3. CASE ManifestWritten
    <3>1. /\ tool'.seen = disk[tool.sub] /\ tool'.sub = tool.sub
          /\ disk' \in {disk, [disk EXCEPT ![tool.sub] = WithNew(disk[tool.sub])]}
      BY <2>3, WrittenMade DEF ManifestWritten
    <3>2. Len(disk'[a[1]]) >= Len(disk[a[1]])
      <4>1. disk[a[1]] \in Seq(Activation) /\ Len(disk[a[1]]) \in Nat
        BY <2>1, <2>2, LenProperties
      <4>2. \/ disk'[a[1]] = disk[a[1]]
            \/ a[1] = tool.sub /\ disk'[a[1]] = WithNew(disk[a[1]])
        BY <2>1, <2>2, <3>1
      <4> QED
        BY <2>2, <4>1, <4>2, NewManifest
    <3>3. Len(disk'[a[1]]) \in Nat /\ Len(disk[a[1]]) \in Nat
      BY <2>1, <2>3, WrittenKeeps, LenProperties DEF Kept, Types, ServiceTypes
    <3> QED
      BY <2>1, <3>1, <3>2, <3>3 DEF Firm, Saved
  <2>4. CASE Undone
    <3>1. /\ tool' = NoTool /\ tool.at = "undo"
          /\ disk' \in {disk, [disk EXCEPT ![tool.sub] = tool.seen]}
      BY <2>4 DEF Undone
    <3>2. a[2] <= Len(disk'[a[1]])
      BY <2>1, <2>2, <3>1 DEF Firm
    <3> QED
      BY <2>1, <3>1, <3>2 DEF Firm, Saved, NoTool
  <2> QED
    BY <1>3, <2>3, <2>4
<1> QED
  BY <1>1, <1>2, <1>3 DEF ToolStep, CallLaunch

LEMMA StepFirm == Types /\ FitInv /\ FirmInv /\ [Next]_vars => FirmInv'
<1> SUFFICES ASSUME Types, FitInv, FirmInv, [Next]_vars PROVE FirmInv'
  OBVIOUS
<1>0. Types'
  BY StepFits
<1>1. Firm \subseteq Firm'
  <2>1. CASE ToolStep
    BY <2>1, ToolFirm
  <2>2. ASSUME NEW s \in Subs, ChildStep(s) PROVE Firm \subseteq Firm'
    <3>1. UNCHANGED tool /\ \A r \in Subs : Alike(disk'[r], disk[r])
      BY <2>2, SavedManifests
      DEF ChildStep, ChildEnds, ChildSaves, ChildReleases, ChildSettles, InMemory, Alike
    <3> QED
      BY <3>1, FirmKept DEF Alike
  <2>3. CASE LoopStep
    <3>1. UNCHANGED tool /\ \A r \in Subs : Alike(disk'[r], disk[r])
      BY <2>3, MarkedManifests
      DEF LoopStep, LoadManifest, LoadResult, Drain, Proceed, Recorded, MarkReads,
          MarkWrites, Confirmed, StateRead, Wakes, StepEnds, LoopBreaks, AbortNoticed,
          TurnEnds, service, Alike
    <3> QED
      BY <3>1, FirmKept DEF Alike
  <2>4. CASE Restart
    <3>1. tool' = NoTool
      BY <2>4 DEF Restart
    <3>2. ASSUME NEW r \in Subs PROVE Len(disk'[r]) = Len(disk[r])
      <4>1. disk[r] \in Seq(Activation)
            /\ disk'[r] \in {disk[r], Completed(disk[r], Len(disk[r]))}
        BY <2>4 DEF Types, ServiceTypes, Restart
      <4> QED
        BY <4>1, CompletedManifest DEF Alike
    <3> QED
      BY <3>1, <3>2, FirmKept DEF NoTool
  <2>5. CASE Stop
    <3>1. UNCHANGED disk
      BY <2>5 DEF Stop
    <3> QED
      BY <2>5, <3>1, CallTold, FirmKept
  <2>6. ASSUME NEW user \in BOOLEAN, SessionAborts \/ Start(user) \/ UNCHANGED vars
        PROVE  Firm \subseteq Firm'
    <3>1. UNCHANGED <<disk, tool>>
      BY <2>6 DEF SessionAborts, Start, vars, service
    <3> QED
      BY <3>1, FirmKept
  <2> QED
    BY <2>1, <2>2, <2>3, <2>4, <2>5, <2>6 DEF Next
<1>2. Heard' \subseteq Heard \cup Firm'
  <2>1. ASSUME NEW s \in Subs, ChildSettles(s) PROVE Heard' \subseteq Heard \cup Firm'
    <3> DEFINE a == <<s, active[s].n>>
    <3>1. /\ UNCHANGED <<disk, tool, batch, iter, told>>
          /\ notes' = notes \/ notes' = Append(notes, a)
      BY <2>1 DEF ChildSettles, Announce
    <3>2. a \in Firm'
      <4>1. /\ active[s] # NoActive /\ ActiveInv(s) /\ active[s].at # "none"
            /\ Len(disk[s]) \in Nat /\ Len(disk[s]) <= MaxActs
        BY <2>1, SettleMade, LenProperties
        DEF FitInv, ActiveInv, NoActive, Types, ServiceTypes
      <4>2. active[s].n \in 1..Len(disk[s]) /\ (Preparing => tool.sub # s)
        BY <4>1 DEF ActiveInv, FitInv, ToolInv
      <4> QED
        BY <3>1, <4>1, <4>2 DEF Firm, Saved, Acts, Preparing
    <3>3. Range(notes') \subseteq Range(notes) \cup {a}
      BY <3>1, Appended DEF Types, LoopTypes
    <3> QED
      BY <3>1, <3>2, <3>3 DEF Heard
  <2>2. CASE LoadResult
    <3>1. PICK a \in iter.cur : Announce(a) /\ iter' = [iter EXCEPT !.cur = @ \ {a}]
      BY <2>2 DEF LoadResult
    <3>2. UNCHANGED <<batch, told>> /\ iter'.cur \subseteq iter.cur
      BY <2>2, <3>1 DEF LoadResult, Types, LoopTypes
    <3>3. Range(notes') \subseteq Range(notes) \cup {a}
      BY <3>1, Appended DEF Announce, Types, LoopTypes
    <3> QED
      BY <3>1, <3>2, <3>3 DEF Heard
  <2>3. ASSUME NEW s \in Subs, LoadManifest(s) PROVE Heard' \subseteq Heard \cup Firm'
    <3>1. /\ tool' = NoTool /\ UNCHANGED <<disk, notes, batch, told>>
          /\ iter'.cur = Pending(s)
      BY <2>3, NoCall DEF LoadManifest, MayLoad, service
    <3>2. Pending(s) \subseteq Firm'
      BY <3>1 DEF Pending, Firm, Saved, NoTool
    <3> QED
      BY <3>1, <3>2 DEF Heard
  <2>4. CASE Drain
    BY <2>4, Taken DEF Drain, Heard
  <2>5. CASE Recorded
    <3>1. /\ UNCHANGED iter
          /\ \/ UNCHANGED <<notes, batch>> /\ told' = told \cup Range(batch)
             \/ notes' = batch \o notes /\ batch' = <<>> /\ told' = told
      BY <2>5 DEF Recorded, Unrecorded
    <3>2. Range(batch \o notes) \subseteq Range(batch) \cup Range(notes)
      <4>1. batch \in Seq(Acts) /\ notes \in Seq(Acts)
        BY DEF Types, LoopTypes
      <4>2. DOMAIN (batch \o notes) = 1..(Len(batch) + Len(notes))
            /\ Len(batch) \in Nat /\ Len(notes) \in Nat
            /\ DOMAIN batch = 1..Len(batch) /\ DOMAIN notes = 1..Len(notes)
        BY <4>1, ConcatProperties, LenProperties
      <4>3. \A i \in 1..(Len(batch) + Len(notes)) :
              (batch \o notes)[i] = IF i <= Len(batch) THEN batch[i]
                                    ELSE notes[i - Len(batch)]
        BY <4>1, ConcatProperties
      <4>4. ASSUME NEW i \in 1..(Len(batch) + Len(notes))
            PROVE  (batch \o notes)[i] \in Range(batch) \cup Range(notes)
        <5>1. CASE i <= Len(batch)
          BY <4>2, <4>3, <5>1 DEF Range
        <5>2. CASE ~(i <= Len(batch))
          <6>1. i - Len(batch) \in DOMAIN notes
            BY <4>2, <5>2
          <6> QED
            BY <4>3, <5>2, <6>1 DEF Range
        <5> QED
          BY <5>1, <5>2
      <4> QED
        BY <4>2, <4>4 DEF Range
    <3>3. Range(<<>>) = {}
      BY DEF Range
    <3> QED
      BY <3>1, <3>2, <3>3 DEF Heard
  <2>6. CASE MarkWrites
    <3>1. batch # <<>> /\ batch' = Tail(batch) /\ UNCHANGED <<notes, iter, told>>
      BY <2>6 DEF MarkWrites
    <3> QED
      BY <3>1, FirstOfBatch DEF Heard
  <2>7. CASE Restart \/ TurnEnds \/ SessionAborts \/ \E user \in BOOLEAN : Start(user)
    <3>1. /\ notes' \in {notes, <<>>} /\ batch' \in {batch, <<>>} /\ told' = told
          /\ iter'.cur \subseteq iter.cur
      BY <2>7 DEF Restart, TurnEnds, SessionAborts, Start, NoIter
    <3>2. Range(<<>>) = {}
      BY DEF Range
    <3> QED
      BY <3>1, <3>2 DEF Heard
  <2>8. CASE \/ ToolStep \/ Stop \/ UNCHANGED vars
             \/ Proceed \/ MarkReads \/ Confirmed \/ StateRead \/ Wakes \/ StepEnds
             \/ LoopBreaks \/ AbortNoticed
             \/ \E s \in Subs : ChildEnds(s) \/ ChildSaves(s) \/ ChildReleases(s)
    <3>1. UNCHANGED <<notes, batch, iter, told>>
      BY <2>8 DEF ToolStep, CallLaunch, CallContinue, CallSend, CallStop, CallAnswered,
         SendGoesOn, StopDone, ManifestWritten, Started, Undone, Stop, vars, loop, Proceed,
         MarkReads, Confirmed, StateRead, Wakes, StepEnds, LoopBreaks, AbortNoticed,
         ChildEnds, ChildSaves, ChildReleases
    <3> QED
      BY <3>1 DEF Heard
  <2> QED
    BY <2>1, <2>2, <2>3, <2>4, <2>5, <2>6, <2>7, <2>8 DEF Next, LoopStep, ChildStep
<1> QED
  BY <1>1, <1>2 DEF FirmInv

LEMMA InitOnce == Init => CopyInv /\ QueueInv /\ FirmInv
<1> SUFFICES ASSUME Init PROVE CopyInv /\ QueueInv /\ FirmInv
  OBVIOUS
<1>1. CopyInv
  BY DEF Init, CopyInv, NoActive, NoTool, Acts
<1>2. Range(<<>>) = {} /\ IsInjective(<<>>)
  BY DEF Range, IsInjective
<1>3. QueueInv /\ FirmInv
  BY <1>2 DEF Init, QueueInv, Waiting, NoIter, FirmInv, Heard
<1> QED
  BY <1>1, <1>3

(* session.ts:1108-1110: a result reaches the model a second time only if   *)
(* the mark of the first time is not on disk, or if its announcement has    *)
(* crossed its delivery from disk.                                          *)
THEOREM ResultsToldOnce == Spec => ToldOnce
<1> DEFINE Once == \A a \in Range(batch) :
             pc = "record" /\ pc' = "mark" /\ a \in told =>
               Status(a) # "delivered" \/ a \in crossed
<1>1. QueueInv /\ FirmInv => Once
  <2> SUFFICES ASSUME QueueInv, FirmInv, NEW a \in Range(batch), pc = "record",
                      Status(a) = "delivered"
               PROVE  a \in crossed
    OBVIOUS
  <2>1. a \in Saved
    BY DEF FirmInv, Heard, Firm
  <2>2. OnDisk(a)
    BY <2>1 DEF OnDisk, Marks, Status, Saved, Acts
  <2> QED
    BY <2>2 DEF QueueInv, Waiting, Confirms
<1>2. Spec => [](Types /\ FitInv /\ ToldInv /\ CopyInv /\ QueueInv /\ FirmInv)
  BY InitTruth, StepTruth, InitOnce, StepCopies, StepQueues, StepFirm, InitFits, StepFits,
     PTL DEF Spec
<1>3. QueueInv /\ FirmInv /\ [Next]_vars => [Once]_vars
  BY <1>1
<1> QED
  BY <1>2, <1>3, PTL DEF Spec, ToldOnce
=============================================================================
