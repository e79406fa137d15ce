--------------------------- MODULE AgentSession_proof ---------------------------
(***************************************************************************)
(* Proofs about AgentSession, for any number of inputs and notifications:  *)
(* its types, that an accepted input is never lost, never delivered twice  *)
(* and held by one holder at a time, that the queue keeps its order, and   *)
(* that only a user who sent something makes it drain.                     *)
(*                                                                         *)
(* The argument has three layers.  Control: the types, who waits for the   *)
(* writes in flight, and what the place of the loop says of the batch and  *)
(* of automatic continuation.  HoldInv: who holds an input, and what the   *)
(* journal says of it.  RecordInv: what the journal in memory, the journal *)
(* on disk and the history have to do with each other.  Each layer has one *)
(* lemma for every kind of step, and uses the layers before it.            *)
(***************************************************************************)
EXTENDS AgentSession, DataLemmas

-----------------------------------------------------------------------------
(* What Chosen picks of a queue of inputs.                                 *)
LEMMA ChosenIs ==
  ASSUME NEW T, T \subseteq Nat, NEW q \in Seq(T), NEW ids
  PROVE  /\ Chosen(q, ids) \in Seq(T) /\ Range(Chosen(q, ids)) = Range(q) \cap ids
         /\ IsInjective(q) => IsInjective(Chosen(q, ids))
         /\ InOrder(q) => InOrder(Chosen(q, ids))
<1> DEFINE c == Chosen(q, ids)
           Other == {z \in T \X T : z[1] # z[2]}
           Less == {z \in T \X T : z[1] < z[2]}
<1>1. c \in Seq(T) /\ Range(c) = Range(q) \cap ids
  BY ChosenHolds
<1>2. (Sorted(q, Other) => Sorted(c, Other)) /\ (Sorted(q, Less) => Sorted(c, Less))
  <2> HIDE DEF Other, Less
  <2> QED BY ChosenHolds
<1> HIDE DEF c
<1>3. ASSUME NEW s \in Seq(T)
      PROVE  /\ IsInjective(s) <=> Sorted(s, Other)
             /\ InOrder(s) <=> Sorted(s, Less)
  <2>1. DOMAIN s \subseteq Nat /\ \A k \in DOMAIN s : s[k] \in T
    OBVIOUS
  <2>2. \A j, k \in DOMAIN s : /\ <<s[j], s[k]>> \in Other <=> s[j] # s[k]
                               /\ <<s[j], s[k]>> \in Less <=> s[j] < s[k]
    BY <2>1
  <2> HIDE DEF Other, Less
  <2>3. IsInjective(s) => Sorted(s, Other)
    BY <2>1, <2>2 DEF IsInjective, Sorted
  <2>4. ASSUME Sorted(s, Other), NEW j \in DOMAIN s, NEW k \in DOMAIN s, s[j] = s[k] PROVE j = k
    <3>1. ~(j < k) /\ ~(k < j)
      BY <2>2, <2>4 DEF Sorted
    <3> QED BY <2>1, <3>1
  <2>5. InOrder(s) <=> Sorted(s, Less)
    BY <2>2 DEF InOrder, Sorted
  <2> QED BY <2>3, <2>4, <2>5 DEF IsInjective
<1>4. (IsInjective(q) => IsInjective(c)) /\ (InOrder(q) => InOrder(c))
  BY <1>1, <1>2, <1>3
<1> QED BY <1>1, <1>4 DEF c
-----------------------------------------------------------------------------

Owners == {"loop", "op", "maint"}

(* The writes in flight are those somebody waits for, one for each.        *)
WritesInv ==
  /\ "op" \in Range(writes) => op.kind # "none"
  /\ "loop" \in Range(writes) => pc \in {"start", "inject", "end"}
  /\ "maint" \in Range(writes) => maint = "compactSave"

(* A turn does not run during maintenance, holds inputs only while their   *)
(* delivery is written, and continues by itself only if the user sent      *)
(* something: the end of a turn that takes the consent back leaves         *)
(* automatic continuation on until the session is idle.                    *)
LoopInv ==
  /\ maint # "none" => pc = "idle"
  /\ pc \notin {"start", "inject"} => batch = NoBatch
  /\ autoDrain /\ pc # "usage" => consent

Control == TypeOK /\ WritesInv /\ LoopInv

Writes(w) == w \in Seq(Owners) /\ IsInjective(w)

(* A write is asked for.                                                   *)
LEMMA Asked ==
  ASSUME NEW rest, Writes(rest), NEW o \in Owners, o \notin Range(rest)
  PROVE  Writes(Append(rest, o)) /\ Range(Append(rest, o)) = Range(rest) \cup {o}
BY AppendHolds DEF Writes

(* persistRequired asks for a write, unless persistence has failed.        *)
LEMMA Requested ==
  ASSUME NEW rest, Writes(rest), NEW o \in Owners, o \notin Range(rest), persistRequired(o, rest)
  PROVE  Writes(writes') /\ Range(writes') \subseteq Range(rest) \cup {o}
<1>1. writes' = rest \/ writes' = Append(rest, o)
  BY DEF persistRequired
<1>2. CASE writes' = rest
  BY <1>2
<1>3. CASE writes' = Append(rest, o)
  BY <1>3, Asked
<1> QED BY <1>1, <1>2, <1>3

(* A write is done.                                                        *)
LEMMA Settled ==
  ASSUME TypeOK, NEW o, writing(o)
  PROVE  Writes(Tail(writes)) /\ Range(Tail(writes)) \subseteq Range(writes) \ {o} /\ o \in Range(writes)
<1>1. writes \in Seq(Owners) /\ IsInjective(writes) /\ writes # <<>> /\ Head(writes) = o
  BY DEF TypeOK, writing, Owners
<1> QED BY <1>1, TailHolds DEF Writes

(* A turn is opened.                                                       *)
LEMMA TurnOpens ==
  ASSUME NEW ins, NEW root, NEW ns, NEW rest, startTurn(ins, root, ns, rest),
         Writes(rest), "loop" \notin Range(rest)
  PROVE  /\ pc' = "start" /\ abortCtl' = "live" /\ ~abortFin' /\ ~answered'
         /\ batch' = [ins |-> ins, root |-> root, notes |-> ns, back |-> "loop"]
         /\ Writes(writes') /\ Range(writes') \subseteq Range(rest) \cup {"loop"}
BY Requested DEF startTurn, Owners

(* It takes nothing, or one input out of the queue.                        *)
LEMMA PendingTurn ==
  ASSUME TypeOK, NEW urg \in SUBSET Inputs, NEW drain \in BOOLEAN, NEW rest,
         startPendingTurn(urg, drain, rest), Writes(rest), "loop" \notin Range(rest)
  PROVE  /\ pc' = "start" /\ abortCtl' = "live" /\ ~abortFin' /\ ~answered'
         /\ Writes(writes') /\ Range(writes') \subseteq Range(rest) \cup {"loop"}
         /\ notes' = {} /\ autoDrain' = drain /\ urgent' \in SUBSET urg
         /\ \E ins : /\ batch' = [ins |-> ins, root |-> NoInput, notes |-> notes, back |-> "loop"]
                     /\ \/ ins = <<>> /\ queue' = queue
                        \/ drain /\ \E k \in DOMAIN queue : ins = <<queue[k]>> /\ queue' = RemoveAt(queue, k)
<1> DEFINE hot == {k \in DOMAIN queue : queue[k] \in urg}
           next == IF hot = {} THEN 1 ELSE CHOOSE k \in hot : \A m \in hot : k <= m
           take == drain /\ queue # <<>>
<1>0. queue \in Seq(Inputs) /\ DOMAIN queue = 1..Len(queue) /\ Len(queue) \in Nat
  BY DEF TypeOK
<1>1. take => next \in DOMAIN queue
  <2>1. CASE hot = {}
    BY <1>0, <2>1
  <2>2. CASE hot # {}
    <3>1. hot \subseteq Nat
      BY <1>0
    <3>2. \E k \in hot : \A m \in hot : k <= m
      <4> HIDE DEF hot
      <4> QED BY <2>2, <3>1, Least
    <3>3. next \in hot
      <4> HIDE DEF hot
      <4> QED BY <2>2, <3>2
    <3> QED BY <3>3
  <2> QED BY <2>1, <2>2
<1>2. /\ startTurn(IF take THEN <<queue[next]>> ELSE <<>>, NoInput, notes, rest)
      /\ queue' = IF take THEN RemoveAt(queue, next) ELSE queue
      /\ urgent' = IF take THEN urg \ {queue[next]} ELSE urg
      /\ notes' = {} /\ autoDrain' = drain
  BY DEF startPendingTurn
<1> DEFINE ins == IF take THEN <<queue[next]>> ELSE <<>>
<1>3. \/ ins = <<>> /\ queue' = queue
      \/ drain /\ \E k \in DOMAIN queue : ins = <<queue[k]>> /\ queue' = RemoveAt(queue, k)
  <2>1. CASE take
    <3>1. ins = <<queue[next]>> /\ queue' = RemoveAt(queue, next) /\ drain
      BY <1>2, <2>1
    <3> HIDE DEF next, ins
    <3> QED BY <1>1, <2>1, <3>1
  <2>2. CASE ~take
    <3>1. ins = <<>>
      <4> HIDE DEF next, take
      <4> QED BY <2>2
    <3>2. queue' = queue
      <4> HIDE DEF next, take, ins
      <4> QED BY <1>2, <2>2
    <3> HIDE DEF ins, next, take
    <3> QED BY <3>1, <3>2
  <2> QED BY <2>1, <2>2
<1>4. startTurn(ins, NoInput, notes, rest) /\ urgent' \in SUBSET urg
  BY <1>2
<1> HIDE DEF hot, next, take, ins
<1>5. /\ pc' = "start" /\ abortCtl' = "live" /\ ~abortFin' /\ ~answered'
      /\ batch' = [ins |-> ins, root |-> NoInput, notes |-> notes, back |-> "loop"]
      /\ Writes(writes') /\ Range(writes') \subseteq Range(rest) \cup {"loop"}
  BY <1>4, TurnOpens
<1> QED BY <1>2, <1>3, <1>4, <1>5
-----------------------------------------------------------------------------

ControlOK == Writes(writes) /\ WritesInv /\ LoopInv

(* A turn that opens keeps the control.                                    *)
LEMMA OpensControl ==
  ASSUME Control, NEW rest, Range(rest) \subseteq Range(writes) \ {"loop"},
         pc' = "start", Range(writes') \subseteq Range(rest) \cup {"loop"}, Writes(writes'),
         maint' = "none", "maint" \notin Range(rest),
         "op" \in Range(rest) => op'.kind # "none", autoDrain' => consent'
  PROVE  ControlOK'
BY DEF Control, ControlOK, WritesInv, LoopInv

(* The loop goes on, ends, or ends its write.                              *)
LEMMA LoopControl ==
  ASSUME Control, pc \notin {"idle", "usage"}, op' = op, maint' = maint,
         Writes(writes'), Range(writes') \subseteq Range(writes) \cup {"loop"},
         pc' \notin {"start", "inject", "end"} => "loop" \notin Range(writes'),
         pc' \notin {"start", "inject"} => batch' = NoBatch,
         autoDrain' /\ pc' # "usage" => consent'
  PROVE  ControlOK'
BY DEF Control, ControlOK, WritesInv, LoopInv

(* Every step of the loop keeps the control.                               *)
LEMMA LoopControlStep ==
  ASSUME Control, LoopNext
  PROVE  ControlOK'
<1> USE DEF loopElse, queueVars, loopVars, histVars, hostVars, journalVars
<1>0. /\ Writes(writes) /\ TypeOK
      /\ pc \notin {"start", "inject", "end"} => "loop" \notin Range(writes)
      /\ pc \notin {"start", "inject"} => batch = NoBatch
      /\ autoDrain /\ pc # "usage" => consent
      /\ maint # "none" => pc = "idle"
      /\ "loop" \in Owners
  BY DEF Control, TypeOK, WritesInv, LoopInv, Writes, Owners
<1>a. writing("loop") => /\ Writes(Tail(writes))
                         /\ Range(Tail(writes)) \subseteq Range(writes) \ {"loop"}
  BY <1>0, Settled
<1>b. notWriting("loop") => "loop" \notin Range(writes)
  BY DEF notWriting
<1>c. ASSUME persistRequired("loop", writes), "loop" \notin Range(writes)
      PROVE  Writes(writes') /\ Range(writes') \subseteq Range(writes) \cup {"loop"}
  BY <1>0, <1>c, Requested
<1>1. CASE TurnStarted
  BY <1>0, <1>a, <1>1, LoopControl DEF TurnStarted, ConfirmDelivery
<1>2. CASE TurnStartFails
  <2>1. /\ Writes(writes') /\ Range(writes') \subseteq Range(writes) \ {"loop"}
        /\ batch' = NoBatch /\ pc' = "idle" /\ ~autoDrain' /\ pc = "start"
        /\ op' = op /\ maint' = maint
    BY <1>0, <1>a, <1>b, <1>2 DEF TurnStartFails, LoseDelivery, pauseQueuedInputs
  <2> QED BY <2>1, LoopControl
<1>f. ASSUME NEW reason, NEW fin, finishLoop(reason, fin), loopElse, UNCHANGED <<queueVars, batch>>,
             pc \notin {"start", "inject", "end", "idle", "usage"}
      PROVE  ControlOK'
  <2>1. Writes(writes') /\ Range(writes') \subseteq Range(writes) \cup {"loop"} /\ pc' = "end"
    BY <1>0, <1>c, <1>f DEF finishLoop
  <2> QED BY <1>0, <1>f, <2>1, LoopControl
<1>g. ASSUME NEW where \in {"loop", "step", "toolBoundary", "textBoundary", "settle"},
             pc' = where, loopElse, UNCHANGED <<writes, queueVars, batch>>,
             pc \notin {"start", "inject", "end", "idle", "usage"}
      PROVE  ControlOK'
  BY <1>0, <1>g, LoopControl
<1>i. ASSUME NEW back, Inject(back), pc \in {"loop", "textBoundary", "toolBoundary"}
      PROVE  ControlOK'
  <2>1. Writes(writes') /\ Range(writes') \subseteq Range(writes) \cup {"loop"} /\ pc' = "inject"
    BY <1>0, <1>c, <1>i DEF Inject
  <2>2. autoDrain' = autoDrain /\ op' = op /\ maint' = maint /\ consent' = consent
    BY <1>i DEF Inject
  <2> QED BY <1>0, <1>i, <2>1, <2>2, LoopControl
<1>3. CASE LoopTop
  BY <1>3, <1>f, <1>g, <1>i DEF LoopTop, leaveLoop, goTo
<1>4. CASE Injected
  <2>1. pc = "inject" /\ pc' \in {"loop", "step"} /\ writes' = Tail(writes) /\ writing("loop")
    BY <1>0, <1>4 DEF Injected, ConfirmDelivery, TypeOK
  <2> QED BY <1>0, <1>a, <1>4, <2>1, LoopControl DEF Injected, ConfirmDelivery
<1>5. CASE InjectFails
  <2>1. /\ Writes(writes') /\ Range(writes') \subseteq Range(writes) \ {"loop"}
        /\ batch' = NoBatch /\ pc' = "end" /\ autoDrain' = autoDrain /\ pc = "inject"
        /\ op' = op /\ maint' = maint /\ consent' = consent
    BY <1>0, <1>a, <1>b, <1>5 DEF InjectFails, LoseDelivery
  <2> QED BY <1>0, <2>1, LoopControl
<1>6. ASSUME NEW tools \in BOOLEAN, StepCommitted(tools) PROVE ControlOK'
  <2>1. loopElse /\ UNCHANGED <<queueVars, batch>> /\ pc \in {"step", "cutStep"}
    BY <1>6 DEF StepCommitted, inStep
  <2>2. \/ \E reason, fin : finishLoop(reason, fin)
        \/ pc' \in {"toolBoundary", "textBoundary"} /\ UNCHANGED writes
    <3>1. CASE aborted /\ hasPendingMessages
      BY <1>6, <3>1, Zenon DEF StepCommitted
    <3>2. CASE ~(aborted /\ hasPendingMessages)
      BY <1>6, <3>2 DEF StepCommitted
    <3> QED BY <3>1, <3>2
  <2> QED BY <1>f, <1>g, <2>1, <2>2
<1>7. ASSUME NEW reason, StepEndsTurn(reason) PROVE ControlOK'
  BY <1>7, <1>f DEF StepEndsTurn, inStep
<1>8. CASE StepInterrupted
  <2>1. loopElse /\ UNCHANGED <<queueVars, batch>> /\ pc \in {"step", "cutStep"}
    BY <1>8 DEF StepInterrupted
  <2>2. \/ \E reason, fin : finishLoop(reason, fin)
        \/ pc' \in {"toolBoundary", "textBoundary"} /\ UNCHANGED writes
    <3>1. CASE aborted /\ hasPendingMessages
      BY <1>8, <3>1, Zenon DEF StepInterrupted
    <3>2. CASE ~(aborted /\ hasPendingMessages)
      BY <1>8, <3>2 DEF StepInterrupted
    <3> QED BY <3>1, <3>2
  <2> QED BY <1>f, <1>g, <2>1, <2>2
<1>9. CASE StepThrows
  <2>1. loopElse /\ UNCHANGED <<queueVars, batch>> /\ pc \in {"step", "cutStep"}
    BY <1>9 DEF StepThrows, inStep
  <2>2. \E reason, fin : finishLoop(reason, fin)
    BY <1>9, Zenon DEF StepThrows
  <2> QED BY <1>f, <2>1, <2>2
<1>10. CASE Boundary
  <2>1. pc \in {"textBoundary", "toolBoundary"}
    BY <1>10 DEF Boundary
  <2>2. \/ Inject("loop")
        \/ \E reason, fin : leaveLoop(reason, fin)
        \/ \E where \in {"loop", "settle"} : goTo(where)
    BY <1>10, Zenon DEF Boundary
  <2> QED BY <1>f, <1>g, <1>i, <2>1, <2>2 DEF leaveLoop, goTo
<1>11. CASE Settle
  <2>1. pc = "settle"
    BY <1>11 DEF Settle
  <2>2. \/ \E reason, fin : leaveLoop(reason, fin)
        \/ goTo("loop")
    BY <1>11, Zenon DEF Settle
  <2> QED BY <1>f, <1>g, <2>1, <2>2 DEF leaveLoop, goTo
<1>12. CASE TurnEnds
  <2>0. pc = "end" /\ batch = NoBatch /\ maint = "none" /\ (autoDrain => consent)
    BY <1>0, <1>12 DEF TurnEnds, TypeOK
  <2>1. PICK reason, rest, persisted :
          /\ turnEnded(reason, rest, persisted)
          /\ \/ writing("loop") /\ rest = Tail(writes)
             \/ notWriting("loop") /\ rest = writes
    <3>1. PICK reason \in {stop, "error"} :
            \/ writing("loop") /\ turnEnded(reason, Tail(writes), ~failed)
            \/ writing("loop") /\ turnEnded(reason, Tail(writes), FALSE)
            \/ notWriting("loop") /\ turnEnded(reason, writes, FALSE)
      BY <1>12, Zenon DEF TurnEnds
    <3>2. CASE writing("loop") /\ turnEnded(reason, Tail(writes), ~failed)
      BY <3>2
    <3>3. CASE writing("loop") /\ turnEnded(reason, Tail(writes), FALSE)
      BY <3>3
    <3>4. CASE notWriting("loop") /\ turnEnded(reason, writes, FALSE)
      BY <3>4
    <3> QED BY <3>1, <3>2, <3>3, <3>4
  <2>2. Writes(rest) /\ Range(rest) \subseteq Range(writes) \ {"loop"}
    BY <1>0, <1>a, <1>b, <2>1
  <2>3. op' = op /\ maint' = maint /\ consent' = (consent /\ reason = "completed")
    BY <2>1 DEF turnEnded
  <2>4. CASE startPendingTurn(urgent, autoDrain, rest) /\ reason = "completed"
    <3>1. pc' = "start" /\ Writes(writes') /\ Range(writes') \subseteq Range(rest) \cup {"loop"}
          /\ autoDrain' = autoDrain
      <4>1. urgent \in SUBSET Inputs /\ autoDrain \in BOOLEAN /\ "loop" \notin Range(rest)
        BY <1>0, <2>2 DEF TypeOK
      <4> QED BY <1>0, <2>2, <2>4, <4>1, PendingTurn
    <3>2. "maint" \notin Range(rest) /\ ("op" \in Range(rest) => op'.kind # "none")
      BY <2>0, <2>2, <2>3 DEF Control, WritesInv
    <3>3. autoDrain' => consent'
      BY <2>0, <2>3, <2>4, <3>1
    <3> QED BY <2>0, <2>2, <2>3, <3>1, <3>2, <3>3, OpensControl
  <2>5. CASE goIdle(rest)
    <3>1. pc' = "idle" /\ writes' = rest /\ batch' = batch /\ ~autoDrain'
      BY <2>5 DEF goIdle, pauseQueuedInputs
    <3> QED BY <2>0, <2>2, <2>3, <3>1, LoopControl
  <2>6. CASE /\ pc' = "usage" /\ writes' = rest /\ UNCHANGED batch
    BY <2>0, <2>2, <2>3, <2>6, LoopControl
  <2> QED BY <2>1, <2>4, <2>5, <2>6, Zenon DEF turnEnded
<1>13. CASE UsageMeasured
  <2>1. /\ pc = "usage" /\ pc' = "idle" /\ writes' = writes /\ batch' = batch /\ ~autoDrain'
        /\ op' = op /\ maint' = maint
    BY <1>13 DEF UsageMeasured, goIdle, pauseQueuedInputs
  <2> QED BY <1>0, <2>1 DEF Control, ControlOK, WritesInv, LoopInv
<1> QED
  BY <1>1, <1>2, <1>3, <1>4, <1>5, <1>6, <1>7, <1>8, <1>9, <1>10, <1>11, <1>12, <1>13
     DEF LoopNext

(* A command of the user starts or ends beside the loop.                   *)
LEMMA CommandControl ==
  ASSUME Control, Writes(writes'), maint' = maint, batch' = batch,
         pc' = pc \/ (pc = "step" /\ pc' = "cutStep"),
         \/ Range(writes') \subseteq Range(writes) \ {"op"}
         \/ op'.kind # "none" /\ Range(writes') \subseteq Range(writes) \cup {"op"}
         \/ op' = op /\ Range(writes') \subseteq Range(writes),
         autoDrain' => (autoDrain /\ consent' = consent) \/ consent'
  PROVE  ControlOK'
BY DEF Control, ControlOK, WritesInv, LoopInv

(* The end of a user command keeps the control.                            *)
LEMMA CommandControlStep ==
  ASSUME Control, CommandWrites
  PROVE  ControlOK'
<1> USE DEF queueVars, loopVars, histVars, hostVars, journalVars
<1>0. /\ TypeOK /\ Writes(writes) /\ ("loop" \in Range(writes) => pc \in {"start", "inject", "end"})
  BY DEF Control, TypeOK, WritesInv, Writes, Owners
<1>a. writing("op") => Writes(Tail(writes)) /\ Range(Tail(writes)) \subseteq Range(writes) \ {"op"}
  BY <1>0, Settled
<1>1. CASE MessageRecorded
  <2>1. CASE /\ isBusy
             /\ pc' = IF op.urgent /\ pc = "step" THEN "cutStep" ELSE pc
             /\ writes' = Tail(writes)
             /\ UNCHANGED batch
    <3>1. maint' = maint /\ consent' /\ writing("op")
      BY <1>1 DEF MessageRecorded
    <3> QED BY <1>a, <2>1, <3>1, CommandControl
  <2>2. CASE /\ ~isBusy
             /\ startTurn(IF op.starts THEN <<>> ELSE <<op.id>>,
                          IF op.starts THEN op.id ELSE NoInput, notes, Tail(writes))
    <3>1. maint' = maint /\ consent' /\ writing("op")
      BY <1>1 DEF MessageRecorded
    <3>2. pc = "idle" /\ maint = "none"
      BY <2>2 DEF isBusy, isRunning
    <3>3. "loop" \notin Range(Tail(writes)) /\ "maint" \notin Range(Tail(writes))
      BY <1>0, <1>a, <3>1, <3>2 DEF Control, WritesInv
    <3>4. pc' = "start" /\ Writes(writes') /\ Range(writes') \subseteq Range(Tail(writes)) \cup {"loop"}
      BY <1>a, <2>2, <3>1, <3>3, TurnOpens
    <3> QED BY <1>a, <3>1, <3>2, <3>3, <3>4, OpensControl
  <2> QED BY <1>1, <2>1, <2>2 DEF MessageRecorded
<1>2. CASE MessageRejected
  BY <1>a, <1>2, CommandControl DEF MessageRejected, Control, LoopInv
<1>3. CASE TakeBackRecorded
  BY <1>a, <1>3, CommandControl DEF TakeBackRecorded, Control, LoopInv
<1>4. CASE TakeBackConflict
  BY <1>a, <1>4, CommandControl DEF TakeBackConflict, Control, LoopInv
<1>5. CASE TakeBackFailed
  BY <1>a, <1>5, CommandControl DEF TakeBackFailed, Control, LoopInv
<1> QED BY <1>1, <1>2, <1>3, <1>4, <1>5 DEF CommandWrites

(* Maintenance ends: the session continues with what waits or is idle.     *)
LEMMA CompactEndsControl ==
  ASSUME Control, NEW completed, NEW rest, compactEnds(completed, rest),
         Writes(rest), Range(rest) \subseteq Range(writes) \ {"maint"},
         maint \in {"compact", "compactSave"}
  PROVE  ControlOK'
<1> USE DEF queueVars, loopVars, histVars, hostVars, journalVars
<1>0. /\ TypeOK /\ Writes(writes) /\ pc = "idle" /\ "loop" \notin Range(writes)
      /\ (autoDrain => consent) /\ batch = NoBatch
  BY DEF Control, TypeOK, WritesInv, LoopInv, Writes, Owners
<1>1. maint' = "none" /\ op' = op /\ consent' = consent
  BY DEF compactEnds
<1>2. CASE startPendingTurn(urgent, autoDrain, rest)
  <2>1. pc' = "start" /\ Writes(writes') /\ Range(writes') \subseteq Range(rest) \cup {"loop"}
        /\ autoDrain' = autoDrain
    <3>1. urgent \in SUBSET Inputs /\ autoDrain \in BOOLEAN /\ "loop" \notin Range(rest)
      BY <1>0 DEF TypeOK
    <3> QED BY <1>0, <1>2, <3>1, PendingTurn
  <2>2. "maint" \notin Range(rest) /\ ("op" \in Range(rest) => op'.kind # "none")
    BY <1>1 DEF Control, WritesInv
  <2>3. Range(rest) \subseteq Range(writes) \ {"loop"}
    BY <1>0
  <2> QED BY <1>0, <1>1, <2>1, <2>2, <2>3, OpensControl
<1>3. CASE /\ writes' = rest /\ pauseQueuedInputs(queue) /\ UNCHANGED <<pc, batch>>
  <2>1. ~autoDrain'
    BY <1>3 DEF pauseQueuedInputs
  <2> QED BY <1>0, <1>1, <1>3, <2>1 DEF Control, ControlOK, WritesInv, LoopInv
<1> QED BY <1>2, <1>3 DEF compactEnds

(* A step of a compaction or a rollback keeps the control.                 *)
LEMMA MaintControlStep ==
  ASSUME Control, MaintNext
  PROVE  ControlOK'
<1> USE DEF queueVars, loopVars, histVars, hostVars, journalVars
<1>0. /\ TypeOK /\ Writes(writes) /\ ("loop" \in Range(writes) => pc \in {"start", "inject", "end"})
      /\ ("maint" \in Range(writes) => maint = "compactSave") /\ (maint # "none" => pc = "idle")
      /\ (autoDrain /\ pc # "usage" => consent)
  BY DEF Control, TypeOK, WritesInv, LoopInv, Writes, Owners
<1>1. CASE CompactSave
  <2>1. maint = "compact" /\ maint' = "compactSave" /\ writes' = Append(writes, "maint")
        /\ UNCHANGED <<op, pc, batch, autoDrain, consent>>
    BY <1>1 DEF CompactSave
  <2>2. Writes(writes') /\ Range(writes') = Range(writes) \cup {"maint"}
    BY <1>0, <2>1, Asked DEF Owners
  <2> QED BY <1>0, <2>1, <2>2 DEF Control, ControlOK, WritesInv, LoopInv
<1>2. CASE CompactFails
  BY <1>0, <1>2, CompactEndsControl DEF CompactFails
<1>3. CASE CompactWritten
  <2>1. Writes(Tail(writes)) /\ Range(Tail(writes)) \subseteq Range(writes) \ {"maint"}
    BY <1>0, <1>3, Settled DEF CompactWritten
  <2> QED BY <1>3, <2>1, CompactEndsControl DEF CompactWritten
<1>4. CASE RestoreEnds
  <2>1. maint = "restore" /\ maint' = "none" /\ op' = op /\ consent' = consent
    BY <1>4 DEF RestoreEnds
  <2>2. CASE startPendingTurn(urgent, autoDrain, writes)
    <3>1. pc' = "start" /\ Writes(writes') /\ Range(writes') \subseteq Range(writes) \cup {"loop"}
          /\ autoDrain' = autoDrain
      <4>1. urgent \in SUBSET Inputs /\ autoDrain \in BOOLEAN /\ "loop" \notin Range(writes)
        BY <1>0, <2>1 DEF TypeOK
      <4> QED BY <1>0, <2>2, <4>1, PendingTurn
    <3>2. "maint" \notin Range(writes) /\ ("op" \in Range(writes) => op'.kind # "none")
      BY <1>0, <2>1 DEF Control, WritesInv
    <3>3. Range(writes) \subseteq Range(writes) \ {"loop"}
      BY <1>0, <2>1
    <3> QED BY <1>0, <2>1, <3>1, <3>2, <3>3, OpensControl
  <2>3. CASE UNCHANGED <<writes, autoDrain, pc, batch>>
    BY <1>0, <2>1, <2>3 DEF Control, ControlOK, WritesInv, LoopInv
  <2> QED BY <1>4, <2>2, <2>3 DEF RestoreEnds
<1> QED BY <1>1, <1>2, <1>3, <1>4 DEF MaintNext

(* What the user and the host start keeps the control.                     *)
LEMMA HostControlStep ==
  ASSUME Control, HostNext
  PROVE  ControlOK'
<1> USE DEF queueVars, loopVars, histVars, hostVars, journalVars
<1>0. /\ TypeOK /\ Writes(writes) /\ ("loop" \in Range(writes) => pc \in {"start", "inject", "end"})
      /\ ("maint" \in Range(writes) => maint = "compactSave") /\ (maint # "none" => pc = "idle")
      /\ (autoDrain /\ pc # "usage" => consent)
      /\ "op" \in Range(writes) => op.kind # "none"
  BY DEF Control, TypeOK, WritesInv, LoopInv, Writes, Owners
<1>r. op.kind = "none" =>
        Writes(Append(writes, "op")) /\ Range(Append(writes, "op")) = Range(writes) \cup {"op"}
  BY <1>0, Asked DEF Owners
<1>1. ASSUME NEW urg \in BOOLEAN, NEW drops \in SUBSET Inputs, SendMessage(urg, drops)
      PROVE  ControlOK'
  <2>1. op.kind = "none" /\ writes' = Append(writes, "op") /\ op'.kind = "message"
        /\ UNCHANGED <<pc, batch, maint, autoDrain, consent>>
    BY <1>1 DEF SendMessage, NoOp
  <2> QED BY <1>0, <1>r, <2>1 DEF Control, ControlOK, WritesInv, LoopInv
<1>2. ASSUME NEW kind \in {"discard", "edit"}, NEW id, NEW drops, takeQueuedMessage(kind, id, drops)
      PROVE  ControlOK'
  <2>1. op.kind = "none" /\ writes' = Append(writes, "op") /\ op'.kind = kind
        /\ UNCHANGED <<pc, batch, maint, autoDrain, consent>>
    BY <1>2 DEF takeQueuedMessage, NoOp
  <2> QED BY <1>0, <1>r, <2>1 DEF Control, ControlOK, WritesInv, LoopInv
<1>o. ASSUME NEW rest, rest = writes, "loop" \notin Range(writes), maint' = maint, maint = "none", op' = op,
             pc' = "start", Writes(writes'), Range(writes') \subseteq Range(rest) \cup {"loop"},
             autoDrain' => consent'
      PROVE  ControlOK'
  <2>1. Range(rest) \subseteq Range(writes) \ {"loop"} /\ "maint" \notin Range(rest)
        /\ ("op" \in Range(rest) => op'.kind # "none")
    BY <1>0, <1>o
  <2> QED BY <1>o, <2>1, OpensControl
<1>3. ASSUME NEW id \in Inputs, SendNow(id) PROVE ControlOK'
  <2>1. consent' /\ maint' = maint /\ op' = op
    BY <1>3 DEF SendNow
  <2>2. CASE /\ pc' = IF pc = "step" THEN "cutStep" ELSE pc
             /\ UNCHANGED <<writes, batch>>
    BY <1>0, <2>1, <2>2, CommandControl
  <2>3. CASE ~isBusy /\ startPendingTurn(urgent \cup {id}, TRUE, writes)
    <3>1. pc = "idle" /\ maint = "none"
      BY <2>3 DEF isBusy, isRunning
    <3>2. urgent \cup {id} \in SUBSET Inputs /\ "loop" \notin Range(writes)
      BY <1>0, <3>1 DEF TypeOK
    <3>3. pc' = "start" /\ Writes(writes') /\ Range(writes') \subseteq Range(writes) \cup {"loop"}
      BY <1>0, <2>3, <3>2, PendingTurn
    <3> QED BY <1>o, <2>1, <3>1, <3>2, <3>3
  <2> QED BY <1>3, <2>2, <2>3 DEF SendNow
<1>4. CASE Abort
  <2>1. ~autoDrain' /\ UNCHANGED <<writes, pc, batch, maint, op>>
    BY <1>4 DEF Abort, pauseQueuedInputs
  <2> QED BY <1>0, <2>1, CommandControl
<1>5. ASSUME NEW n \in Notes, Notify(n) PROVE ControlOK'
  <2>1. UNCHANGED <<maint, op, autoDrain, consent>>
    BY <1>5 DEF Notify
  <2>2. CASE UNCHANGED <<writes, loopVars>>
    BY <1>0, <2>1, <2>2, CommandControl
  <2>3. CASE ~isBusy /\ startTurn(<<>>, NoInput, {n}, writes)
    <3>1. pc = "idle" /\ maint = "none"
      BY <2>3 DEF isBusy, isRunning
    <3>2. pc' = "start" /\ Writes(writes') /\ Range(writes') \subseteq Range(writes) \cup {"loop"}
      BY <1>0, <2>3, <3>1, TurnOpens
    <3> QED BY <1>0, <1>o, <2>1, <3>1, <3>2
  <2> QED BY <1>5, <2>2, <2>3 DEF Notify
<1>6. CASE StartCompact
  BY <1>0, <1>6 DEF StartCompact, isBusy, isRunning, Control, ControlOK, WritesInv, LoopInv
<1>7. CASE StartRestore
  BY <1>0, <1>7 DEF StartRestore, isBusy, isRunning, Control, ControlOK, WritesInv, LoopInv
<1> QED
  BY <1>1, <1>2, <1>3, <1>4, <1>5, <1>6, <1>7 DEF HostNext, Discard, Edit

(* Every step keeps the control.                                           *)
LEMMA ControlStep ==
  ASSUME Control, [Next]_vars
  PROVE  ControlOK'
<1>1. CASE Restart
  <2>1. writes' = <<>> /\ pc' = "idle" /\ batch' = NoBatch /\ maint' = "none" /\ ~autoDrain'
    BY <1>1 DEF Restart
  <2>2. Range(<<>>) = {} /\ IsInjective(<<>>) /\ <<>> \in Seq(Owners)
    BY DEF Range, IsInjective
  <2> QED BY <2>1, <2>2 DEF ControlOK, Writes, WritesInv, LoopInv
<1>2. CASE UNCHANGED vars
  <2>1. ControlOK
    BY DEF Control, ControlOK, TypeOK, Writes, Owners
  <2> QED BY <1>2, <2>1 DEF vars, ControlOK, Writes, WritesInv, LoopInv
<1> QED
  BY <1>1, <1>2, LoopControlStep, CommandControlStep, MaintControlStep, HostControlStep DEF Next
-----------------------------------------------------------------------------

(* What a command of the user says of the input it is about.               *)
OpInv ==
  /\ op.kind # "none" => op.id \in Inputs
  /\ op.kind \in {"discard", "edit"} => op.index > 0

(* Inputs are numbers, and none of them is NoInput.                        *)
LEMMA InputsAreNat == Inputs \subseteq Nat /\ NoInput \notin Inputs
  BY InputsAssumption DEF Inputs, NoInput

(* What is written of the inputs.                                          *)
LEMMA JournalTypes ==
  ASSUME TypeOK, NEW ids, NEW state \in InputStates
  PROVE  Marked(journal, ids, state) \in [Inputs -> InputStates]
BY DEF TypeOK, Marked

(* What a new turn is made of.                                             *)
LEMMA TurnTypes ==
  ASSUME TypeOK, Writes(writes'), NEW ins \in Seq(Inputs), NEW root \in Inputs \cup {NoInput},
         NEW ns \in SUBSET Notes, NEW rest, startTurn(ins, root, ns, rest)
  PROVE  /\ pc' \in PCs /\ abortCtl' \in {"none", "live", "aborted"}
         /\ abortFin' \in BOOLEAN /\ answered' \in BOOLEAN
         /\ batch' \in [ins : Seq(Inputs), root : Inputs \cup {NoInput},
                        notes : SUBSET Notes, back : {"loop", "step"}]
BY DEF startTurn, PCs

(* What a turn opened for what waits is made of.                           *)
LEMMA PendingTypes ==
  ASSUME TypeOK, NEW urg \in SUBSET Inputs, NEW drain \in BOOLEAN, NEW rest,
         startPendingTurn(urg, drain, rest), Writes(rest), "loop" \notin Range(rest)
  PROVE  /\ pc' \in PCs /\ abortCtl' \in {"none", "live", "aborted"}
         /\ abortFin' \in BOOLEAN /\ answered' \in BOOLEAN /\ autoDrain' \in BOOLEAN
         /\ batch' \in [ins : Seq(Inputs), root : Inputs \cup {NoInput},
                        notes : SUBSET Notes, back : {"loop", "step"}]
         /\ queue' \in Seq(Inputs) /\ urgent' \in SUBSET Inputs /\ notes' \in SUBSET Notes
<1>0. queue \in Seq(Inputs) /\ notes \in SUBSET Notes
  BY DEF TypeOK
<1>1. /\ pc' = "start" /\ abortCtl' = "live" /\ ~abortFin' /\ ~answered'
      /\ notes' = {} /\ autoDrain' = drain /\ urgent' \in SUBSET urg
  BY PendingTurn
<1>b. abortFin' \in BOOLEAN /\ answered' \in BOOLEAN
  BY DEF startPendingTurn, startTurn
<1>2. PICK ins : /\ batch' = [ins |-> ins, root |-> NoInput, notes |-> notes, back |-> "loop"]
                 /\ \/ ins = <<>> /\ queue' = queue
                    \/ drain /\ \E k \in DOMAIN queue : ins = <<queue[k]>> /\ queue' = RemoveAt(queue, k)
  BY PendingTurn
<1>3. ins \in Seq(Inputs) /\ queue' \in Seq(Inputs)
  <2>1. CASE ins = <<>> /\ queue' = queue
    BY <1>0, <2>1
  <2>2. ASSUME NEW k \in DOMAIN queue, ins = <<queue[k]>>, queue' = RemoveAt(queue, k)
        PROVE  ins \in Seq(Inputs) /\ queue' \in Seq(Inputs)
    <3>1. queue[k] \in Inputs
      BY <1>0
    <3> QED BY <1>0, <2>2, <3>1, RemoveAtHolds
  <2> QED BY <1>2, <2>1, <2>2
<1> QED BY <1>0, <1>1, <1>b, <1>2, <1>3 DEF PCs

(* The types, action by action.                                            *)
LEMMA LoopTypes ==
  ASSUME Control, ControlOK', LoopNext
  PROVE  TypeOK'
<1> USE DEF loopElse, queueVars, loopVars, histVars, hostVars, journalVars
<1>w. /\ TypeOK /\ writes' \in Seq({"loop", "op", "maint"}) /\ IsInjective(writes')
      /\ Writes(writes) /\ Writes(writes')
  BY DEF Control, ControlOK, Writes, Owners, TypeOK
<1>b. /\ BatchIds \in SUBSET Inputs /\ Range(batch.ins) \subseteq Inputs
      /\ Delivered \in [Inputs -> InputStates] /\ NoBatch \in [ins : Seq(Inputs), root : Inputs \cup {NoInput},
                        notes : SUBSET Notes, back : {"loop", "step"}]
  <2>1. batch.ins \in Seq(Inputs) /\ batch.root \in Inputs \cup {NoInput}
    BY <1>w DEF TypeOK
  <2>2. Range(batch.ins) \subseteq Inputs
    BY <2>1 DEF Range
  <2>3. Delivered \in [Inputs -> InputStates]
    BY <1>w, JournalTypes DEF Delivered, InputStates
  <2> QED BY <2>1, <2>2, <2>3 DEF BatchIds, NoBatch
<1>d. ASSUME ConfirmDelivery
      PROVE  /\ journal' \in [Inputs -> InputStates] /\ disk' \in [Inputs -> InputStates]
             /\ exposed' \in SUBSET Inputs
             /\ batch' \in [ins : Seq(Inputs), root : Inputs \cup {NoInput},
                            notes : SUBSET Notes, back : {"loop", "step"}]
  BY <1>w, <1>b, <1>d DEF TypeOK, ConfirmDelivery, appended
<1>l. ASSUME NEW rest, NEW tried, LoseDelivery(rest, tried)
      PROVE  /\ journal' \in [Inputs -> InputStates] /\ disk' \in [Inputs -> InputStates]
             /\ batch' \in [ins : Seq(Inputs), root : Inputs \cup {NoInput},
                            notes : SUBSET Notes, back : {"loop", "step"}]
             /\ queue' \in Seq(Inputs) /\ notes' \in SUBSET Notes /\ failed' \in BOOLEAN
  <2>1. /\ journal' \in [Inputs -> InputStates] /\ disk' \in [Inputs -> InputStates]
    <3>1. Marked(journal, {batch.root}, "cut") \in [Inputs -> InputStates]
      BY <1>w, JournalTypes DEF InputStates
    <3> QED BY <1>w, <1>b, <1>l, <3>1 DEF TypeOK, LoseDelivery, DeliveryFails, StartCut, appendFailed
  <2>2. queue' \in Seq(Inputs) /\ notes' \in SUBSET Notes
    BY <1>w, <1>l DEF TypeOK, LoseDelivery
  <2> QED BY <1>b, <1>l, <2>1, <2>2 DEF LoseDelivery
<1>1. CASE TurnStarted
  BY <1>w, <1>d, <1>1 DEF TurnStarted, TypeOK, PCs
<1>2. CASE TurnStartFails
  <2>1. PICK rest, tried : LoseDelivery(rest, tried)
    BY <1>2, Zenon DEF TurnStartFails
  <2> QED BY <1>w, <1>l, <1>2, <2>1 DEF TurnStartFails, pauseQueuedInputs, TypeOK, PCs
<1>f. ASSUME NEW reason \in StopReasons, NEW fin \in BOOLEAN, finishLoop(reason, fin), loopElse,
             UNCHANGED <<queueVars, batch, exposed>>, asking' \in BOOLEAN, failed' \in BOOLEAN,
             answered' \in BOOLEAN, journal' \in [Inputs -> InputStates],
             disk' \in [Inputs -> InputStates]
      PROVE  TypeOK'
  BY <1>w, <1>f DEF finishLoop, TypeOK, PCs
<1>v. ASSUME NEW reason \in StopReasons, NEW fin \in BOOLEAN, leaveLoop(reason, fin)
      PROVE  TypeOK'
  BY <1>w, <1>f, <1>v DEF leaveLoop, TypeOK
<1>g. ASSUME NEW where \in PCs, goTo(where) PROVE TypeOK'
  BY <1>w, <1>g DEF goTo, TypeOK
<1>i. ASSUME NEW back \in {"loop", "step"}, Inject(back) PROVE TypeOK'
  <2>1. queue \in Seq(Inputs) /\ urgent \in SUBSET Inputs /\ notes \in SUBSET Notes
    BY <1>w DEF TypeOK
  <2>2. Chosen(queue, urgent) \in Seq(Inputs) /\ Chosen(queue, Inputs \ urgent) \in Seq(Inputs)
    BY <2>1, InputsAreNat, ChosenIs
  <2>3. batch' \in [ins : Seq(Inputs), root : Inputs \cup {NoInput},
                    notes : SUBSET Notes, back : {"loop", "step"}] /\ queue' \in Seq(Inputs)
    BY <1>i, <2>1, <2>2 DEF Inject
  <2> QED BY <1>w, <1>i, <2>1, <2>3 DEF Inject, TypeOK, PCs
<1>s. /\ {"completed", "aborted", "error", "waiting-user", "paused"} = StopReasons
      /\ abortFin \in BOOLEAN /\ aborted \in BOOLEAN /\ (abortFin \/ aborted) \in BOOLEAN
  BY <1>w DEF StopReasons, aborted, TypeOK
<1>3. CASE LoopTop
  <2>1. \/ leaveLoop("aborted", abortFin) \/ Inject("step") \/ goTo("step")
    BY <1>3, Zenon DEF LoopTop
  <2> QED BY <1>v, <1>g, <1>i, <1>s, <2>1 DEF PCs
<1>4. CASE Injected
  BY <1>w, <1>d, <1>4 DEF Injected, TypeOK, PCs
<1>5. CASE InjectFails
  <2>1. PICK rest, tried : LoseDelivery(rest, tried)
    BY <1>5, Zenon DEF InjectFails
  <2>2. urgent' \in SUBSET Inputs /\ stop' \in StopReasons
    BY <1>w, <1>b, <1>5 DEF InjectFails, TypeOK, StopReasons
  <2> QED BY <1>w, <1>l, <1>5, <2>1, <2>2 DEF InjectFails, TypeOK, PCs
<1>6. ASSUME NEW tools \in BOOLEAN, StepCommitted(tools) PROVE TypeOK'
  <2>1. /\ answered' \in BOOLEAN /\ journal' \in [Inputs -> InputStates]
        /\ disk' \in [Inputs -> InputStates] /\ UNCHANGED <<queueVars, asking, failed, batch, exposed>>
        /\ loopElse
    BY <1>w, <1>6 DEF StepCommitted, appended, TypeOK
  <2>2. CASE aborted /\ hasPendingMessages
    <3>1. \/ finishLoop("completed", TRUE) \/ finishLoop("aborted", abortFin)
      BY <1>6, <2>2, Zenon DEF StepCommitted
    <3> QED BY <1>w, <1>f, <1>s, <2>1, <3>1 DEF TypeOK
  <2>3. CASE ~(aborted /\ hasPendingMessages)
    <3>1. pc' \in PCs /\ UNCHANGED <<writes, abortCtl, abortFin, stop>>
      BY <1>6, <2>3 DEF StepCommitted, PCs
    <3> QED BY <1>w, <2>1, <3>1 DEF TypeOK
  <2> QED BY <2>2, <2>3
<1>7. ASSUME NEW reason \in {"completed", "waiting-user"}, StepEndsTurn(reason) PROVE TypeOK'
  <2>1. /\ answered' \in BOOLEAN /\ journal' \in [Inputs -> InputStates] /\ asking' \in BOOLEAN
        /\ disk' \in [Inputs -> InputStates] /\ UNCHANGED <<queueVars, failed, batch, exposed>>
        /\ loopElse /\ finishLoop(reason, abortFin \/ aborted)
    BY <1>w, <1>7 DEF StepEndsTurn, appended, TypeOK
  <2> QED BY <1>w, <1>f, <1>s, <2>1 DEF TypeOK
<1>8. CASE StepInterrupted
  <2>1. /\ answered' \in BOOLEAN /\ UNCHANGED <<journalVars, queueVars, asking, failed, batch, exposed>>
        /\ loopElse
    BY <1>w, <1>8 DEF StepInterrupted, TypeOK
  <2>2. CASE aborted /\ hasPendingMessages
    <3>1. \/ finishLoop("completed", TRUE) \/ finishLoop("aborted", abortFin)
      BY <1>8, <2>2, Zenon DEF StepInterrupted
    <3> QED BY <1>w, <1>f, <1>s, <2>1, <3>1 DEF TypeOK
  <2>3. CASE ~(aborted /\ hasPendingMessages)
    <3>1. pc' \in PCs /\ UNCHANGED <<writes, abortCtl, abortFin, stop>>
      BY <1>8, <2>3 DEF StepInterrupted, PCs
    <3> QED BY <1>w, <2>1, <3>1 DEF TypeOK
  <2> QED BY <2>2, <2>3
<1>9. CASE StepThrows
  <2>1. /\ failed' \in BOOLEAN /\ UNCHANGED <<journalVars, queueVars, asking, batch, exposed, answered>>
        /\ loopElse
    BY <1>w, <1>9 DEF StepThrows, TypeOK
  <2>2. finishLoop("aborted", abortFin) \/ finishLoop("error", abortFin)
    BY <1>9 DEF StepThrows
  <2> QED BY <1>w, <1>f, <1>s, <2>1, <2>2 DEF TypeOK
<1>10. CASE Boundary
  <2>1. \/ Inject("loop") \/ leaveLoop("aborted", abortFin)
        \/ leaveLoop("paused", abortFin \/ aborted)
        \/ goTo("loop") \/ goTo("settle")
    BY <1>10 DEF Boundary
  <2> QED BY <1>v, <1>g, <1>i, <1>s, <2>1 DEF PCs
<1>11. CASE Settle
  <2>1. \/ leaveLoop("aborted", abortFin) \/ goTo("loop")
        \/ leaveLoop("paused", abortFin) \/ leaveLoop("completed", abortFin)
    BY <1>11, Zenon DEF Settle
  <2> QED BY <1>v, <1>g, <1>s, <2>1 DEF PCs
<1>12. CASE TurnEnds
  <2>0. /\ journal' \in [Inputs -> InputStates] /\ disk' \in [Inputs -> InputStates]
        /\ stop \in StopReasons
    BY <1>w, <1>12 DEF TurnEnds, appended, appendFailed, TypeOK
  <2>1. PICK reason, rest, persisted :
          /\ turnEnded(reason, rest, persisted)
          /\ reason \in {stop, "error"} /\ persisted \in BOOLEAN
          /\ \/ writing("loop") /\ rest = Tail(writes)
             \/ notWriting("loop") /\ rest = writes
    <3>1. PICK reason \in {stop, "error"} :
            \/ writing("loop") /\ turnEnded(reason, Tail(writes), ~failed)
            \/ writing("loop") /\ turnEnded(reason, Tail(writes), FALSE)
            \/ notWriting("loop") /\ turnEnded(reason, writes, FALSE)
      BY <1>12, Zenon DEF TurnEnds
    <3>2. CASE writing("loop") /\ turnEnded(reason, Tail(writes), ~failed)
      BY <3>2
    <3>3. CASE writing("loop") /\ turnEnded(reason, Tail(writes), FALSE)
      BY <3>3
    <3>4. CASE notWriting("loop") /\ turnEnded(reason, writes, FALSE)
      BY <3>4
    <3> QED BY <3>1, <3>2, <3>3, <3>4
  <2>2. Writes(rest) /\ "loop" \notin Range(rest)
    BY <1>w, <2>1, Settled DEF notWriting
  <2>3. /\ stop' \in StopReasons /\ failed' \in BOOLEAN /\ consent' \in BOOLEAN
        /\ UNCHANGED <<hostVars, asking, maint, exposed, withdrawn>>
    BY <1>w, <2>0, <2>1 DEF turnEnded, StopReasons
  <2>4. CASE startPendingTurn(urgent, autoDrain, rest)
    <3>1. urgent \in SUBSET Inputs /\ autoDrain \in BOOLEAN
      BY <1>w DEF TypeOK
    <3>2. /\ pc' \in PCs /\ abortCtl' \in {"none", "live", "aborted"}
          /\ abortFin' \in BOOLEAN /\ answered' \in BOOLEAN /\ autoDrain' \in BOOLEAN
          /\ batch' \in [ins : Seq(Inputs), root : Inputs \cup {NoInput},
                        notes : SUBSET Notes, back : {"loop", "step"}]
          /\ queue' \in Seq(Inputs) /\ urgent' \in SUBSET Inputs /\ notes' \in SUBSET Notes
      BY <1>w, <2>2, <2>4, <3>1, PendingTypes
    <3> QED BY <1>w, <2>0, <2>3, <3>2 DEF TypeOK
  <2>5. CASE goIdle(rest)
    <3>1. /\ pc' \in PCs /\ abortFin' \in BOOLEAN /\ urgent' \in SUBSET Inputs /\ autoDrain' \in BOOLEAN
          /\ UNCHANGED <<queue, notes, abortCtl, batch, answered>>
      BY <1>w, <2>5 DEF goIdle, pauseQueuedInputs, TypeOK, PCs
    <3> QED BY <1>w, <2>0, <2>3, <3>1 DEF TypeOK
  <2>6. CASE pc' = "usage" /\ UNCHANGED <<queue, urgent, autoDrain, notes, abortCtl, abortFin,
                                          batch, answered>>
    BY <1>w, <2>0, <2>3, <2>6 DEF TypeOK, PCs
  <2> QED BY <2>1, <2>4, <2>5, <2>6, Zenon DEF turnEnded
<1>13. CASE UsageMeasured
  <2>1. /\ pc' = "idle" /\ abortFin' = FALSE /\ autoDrain' = FALSE /\ urgent' = urgent \ Range(queue)
        /\ UNCHANGED <<journalVars, asking, failed, stop, exposed, queue, notes, abortCtl, batch,
                       answered, hostVars, maint, withdrawn, consent>>
    BY <1>13 DEF UsageMeasured, goIdle, pauseQueuedInputs
  <2>2. urgent' \in SUBSET Inputs /\ pc' \in PCs
    BY <1>w, <2>1 DEF TypeOK, PCs
  <2>3. {autoDrain', asking', failed', abortFin', consent', answered'} \subseteq BOOLEAN
    BY <1>w, <2>1 DEF TypeOK
  <2>4. /\ journal' \in [Inputs -> InputStates] /\ disk' \in [Inputs -> InputStates]
        /\ queue' \in Seq(Inputs) /\ notes' \in SUBSET Notes /\ unsent' \in SUBSET Notes
        /\ exposed' \in SUBSET Inputs /\ withdrawn' \in SUBSET Inputs /\ accepted' \in 0..MaxInputs
    BY <1>w, <2>1 DEF TypeOK
  <2>5. UNCHANGED <<batch, op, abortCtl, stop, maint>>
    BY <2>1
  <2> QED BY <1>w, <2>2, <2>3, <2>4, <2>5 DEF TypeOK
<1> QED
  BY <1>1, <1>2, <1>3, <1>4, <1>5, <1>6, <1>7, <1>8, <1>9, <1>10, <1>11, <1>12, <1>13
     DEF LoopNext

(* The user's command is one about an input.                               *)
LEMMA OpStep ==
  ASSUME TypeOK, OpInv, [Next]_vars
  PROVE  OpInv'
<1> USE DEF loopElse, hostVars
<1>1. op' = op => OpInv'
  BY DEF OpInv
<1>2. op' = NoOp => OpInv'
  BY DEF OpInv, NoOp
<1>3. ASSUME LoopNext PROVE op' = op
  BY <1>3, Zenon DEF LoopNext, TurnStarted, TurnStartFails, LoopTop, Injected, InjectFails, StepCommitted,
     StepEndsTurn, StepInterrupted, StepThrows, Boundary, Settle, TurnEnds, turnEnded, UsageMeasured,
     leaveLoop, goTo, Inject
<1>4. ASSUME CommandWrites PROVE op' = NoOp
  BY <1>4, Zenon DEF CommandWrites, MessageRecorded, MessageRejected, TakeBackRecorded, TakeBackConflict,
     TakeBackFailed
<1>5. ASSUME MaintNext PROVE op' = op
  BY <1>5 DEF MaintNext, CompactSave, CompactFails, CompactWritten, RestoreEnds, compactEnds
<1>6. ASSUME NEW urg \in BOOLEAN, NEW drops \in SUBSET Inputs, SendMessage(urg, drops)
      PROVE  OpInv'
  <2>1. accepted \in 0..MaxInputs /\ accepted < MaxInputs /\ MaxInputs \in Nat
    BY <1>6, InputsAssumption DEF SendMessage, TypeOK
  <2> QED BY <1>6, <2>1 DEF SendMessage, OpInv, NoOp, Inputs
<1>7. ASSUME NEW kind \in {"discard", "edit"}, NEW id \in Inputs, NEW drops, takeQueuedMessage(kind, id, drops)
      PROVE  OpInv'
  <2>1. PICK k \in DOMAIN queue : op' = [NoOp EXCEPT !.kind = kind, !.id = id, !.index = k, !.drops = drops]
    BY <1>7, Zenon DEF takeQueuedMessage
  <2>2. k > 0
    BY DEF TypeOK
  <2> QED BY <2>1, <2>2 DEF OpInv, NoOp
<1>8. ASSUME HostNext PROVE OpInv'
  <2>1. \/ \E urg \in BOOLEAN, drops \in SUBSET Inputs : SendMessage(urg, drops)
        \/ \E id \in Inputs, drops \in SUBSET Inputs :
             takeQueuedMessage("discard", id, {}) \/ takeQueuedMessage("edit", id, drops)
        \/ op' = op
    BY <1>8 DEF HostNext, Discard, Edit, SendNow, Abort, Notify, StartCompact, StartRestore
  <2> QED BY <1>1, <1>6, <1>7, <2>1
<1>9. ASSUME Restart PROVE op' = NoOp
  BY <1>9 DEF Restart
<1> QED BY <1>1, <1>2, <1>3, <1>4, <1>5, <1>8, <1>9 DEF Next, vars

(* The end of a user command keeps the types.                              *)
LEMMA CommandTypes ==
  ASSUME Control, OpInv, ControlOK', CommandWrites
  PROVE  TypeOK'
<1> USE DEF queueVars, loopVars, histVars, journalVars
<1>w. /\ TypeOK /\ writes' \in Seq({"loop", "op", "maint"}) /\ IsInjective(writes')
      /\ Writes(writes')
  BY DEF Control, ControlOK, Writes, Owners
<1>o. /\ op \in [kind : {"none", "message", "discard", "edit"},
                 id : Inputs \cup {NoInput}, starts : BOOLEAN, urgent : BOOLEAN,
                 index : Nat, drops : SUBSET Inputs]
      /\ NoOp \in [kind : {"none", "message", "discard", "edit"},
                 id : Inputs \cup {NoInput}, starts : BOOLEAN, urgent : BOOLEAN,
                 index : Nat, drops : SUBSET Inputs]
      /\ op.kind # "none" => op.id \in Inputs
      /\ op.kind \in {"discard", "edit"} => op.index > 0
  BY <1>w DEF TypeOK, NoOp, OpInv
<1>p. op.kind \in {"discard", "edit"} /\ putQueuedMessageBack => queue' \in Seq(Inputs)
  <2> SUFFICES ASSUME op.kind \in {"discard", "edit"}, putQueuedMessageBack PROVE queue' \in Seq(Inputs)
    OBVIOUS
  <2>1. queue \in Seq(Inputs) /\ op.id \in Inputs /\ op.index \in Nat /\ op.index > 0
    BY <1>w, <1>o DEF TypeOK
  <2>2. (IF op.index <= Len(queue) THEN op.index ELSE Len(queue) + 1) \in 1..(Len(queue) + 1)
    BY <2>1
  <2> DEFINE at == IF op.index <= Len(queue) THEN op.index ELSE Len(queue) + 1
  <2>3. queue' = InsertAt(queue, at, op.id)
    BY DEF putQueuedMessageBack
  <2> HIDE DEF at
  <2>4. at \in 1..(Len(queue) + 1)
    BY <2>2 DEF at
  <2> QED BY <2>1, <2>3, <2>4, InsertAtHolds
<1>j. /\ RecordedMessage \in [Inputs -> InputStates] /\ TakenBack \in [Inputs -> InputStates]
  BY <1>w, JournalTypes DEF RecordedMessage, TakenBack, InputStates
<1>1. CASE MessageRecorded
  <2>1. /\ journal' \in [Inputs -> InputStates] /\ disk' \in [Inputs -> InputStates]
        /\ withdrawn' \in SUBSET Inputs /\ consent' \in BOOLEAN /\ autoDrain' \in BOOLEAN
        /\ op' = NoOp /\ UNCHANGED <<unsent, asking, failed, stop, maint, accepted, exposed>>
        /\ op.id \in Inputs
    BY <1>w, <1>o, <1>j, <1>1 DEF MessageRecorded, appended, TypeOK
  <2>2. CASE /\ queueInput(op.id)
             /\ urgent' = IF op.urgent THEN urgent \cup {op.id} ELSE urgent
             /\ pc' = IF op.urgent /\ pc = "step" THEN "cutStep" ELSE pc
             /\ UNCHANGED <<notes, abortCtl, abortFin, batch, answered>>
    <3>1. queue' \in Seq(Inputs)
      BY <1>w, <2>1, <2>2 DEF queueInput, TypeOK
    <3>2. urgent' \in SUBSET Inputs /\ pc' \in PCs
      BY <1>w, <2>1, <2>2 DEF TypeOK, PCs
    <3> QED BY <1>w, <1>o, <2>1, <2>2, <3>1, <3>2 DEF TypeOK
  <2>3. CASE /\ startTurn(IF op.starts THEN <<>> ELSE <<op.id>>,
                          IF op.starts THEN op.id ELSE NoInput, notes, Tail(writes))
             /\ notes' = {}
             /\ UNCHANGED <<queue, urgent>>
    <3>1. /\ (IF op.starts THEN <<>> ELSE <<op.id>>) \in Seq(Inputs)
          /\ (IF op.starts THEN op.id ELSE NoInput) \in Inputs \cup {NoInput}
          /\ notes \in SUBSET Notes
      BY <1>w, <2>1 DEF TypeOK
    <3>2. /\ pc' \in PCs /\ abortCtl' \in {"none", "live", "aborted"}
          /\ abortFin' \in BOOLEAN /\ answered' \in BOOLEAN
          /\ batch' \in [ins : Seq(Inputs), root : Inputs \cup {NoInput},
                        notes : SUBSET Notes, back : {"loop", "step"}]
      BY <1>w, <2>3, <3>1, TurnTypes
    <3> QED BY <1>w, <1>o, <2>1, <2>3, <3>2 DEF TypeOK
  <2> QED BY <1>1, <2>2, <2>3 DEF MessageRecorded
<1>2. CASE MessageRejected
  <2>1. disk' \in [Inputs -> InputStates]
    BY <1>w, <1>j, <1>2 DEF MessageRejected, appendFailed, TypeOK
  <2> QED BY <1>w, <1>o, <1>2, <2>1 DEF MessageRejected, appendFailed, TypeOK
<1>3. CASE TakeBackRecorded
  <2>1. withdrawn' \in SUBSET Inputs /\ journal' \in [Inputs -> InputStates] /\ disk' \in [Inputs -> InputStates]
    BY <1>w, <1>o, <1>j, <1>3 DEF TakeBackRecorded, appended, TypeOK
  <2> QED BY <1>w, <1>o, <1>3, <2>1 DEF TakeBackRecorded, TypeOK
<1>4. CASE TakeBackConflict
  <2>1. queue' \in Seq(Inputs)
    BY <1>p, <1>4 DEF TakeBackConflict
  <2> QED BY <1>w, <1>o, <1>4, <2>1 DEF TakeBackConflict, TypeOK
<1>5. CASE TakeBackFailed
  <2>1. queue' \in Seq(Inputs) /\ withdrawn' \in SUBSET Inputs
    BY <1>w, <1>o, <1>p, <1>5 DEF TakeBackFailed, TypeOK
  <2>2. journal' \in [Inputs -> InputStates] /\ disk' \in [Inputs -> InputStates]
    BY <1>w, <1>j, <1>5 DEF TakeBackFailed, appendFailed, TypeOK
  <2> QED BY <1>w, <1>o, <1>5, <2>1, <2>2 DEF TakeBackFailed, TypeOK
<1> QED BY <1>1, <1>2, <1>3, <1>4, <1>5 DEF CommandWrites

(* A step of a compaction or a rollback keeps the types.                   *)
LEMMA MaintTypes ==
  ASSUME Control, ControlOK', MaintNext
  PROVE  TypeOK'
<1> USE DEF queueVars, loopVars, histVars, hostVars, journalVars
<1>w. /\ TypeOK /\ writes' \in Seq({"loop", "op", "maint"}) /\ IsInjective(writes')
      /\ Writes(writes') /\ Writes(writes)
  BY DEF Control, ControlOK, Writes, Owners, TypeOK
<1>p. ASSUME NEW rest, startPendingTurn(urgent, autoDrain, rest), Writes(rest), Range(rest) \subseteq Range(writes),
             maint # "none"
      PROVE  /\ pc' \in PCs /\ abortCtl' \in {"none", "live", "aborted"}
             /\ abortFin' \in BOOLEAN /\ answered' \in BOOLEAN /\ autoDrain' \in BOOLEAN
             /\ batch' \in [ins : Seq(Inputs), root : Inputs \cup {NoInput},
                            notes : SUBSET Notes, back : {"loop", "step"}]
             /\ queue' \in Seq(Inputs) /\ urgent' \in SUBSET Inputs /\ notes' \in SUBSET Notes
  <2>1. urgent \in SUBSET Inputs /\ autoDrain \in BOOLEAN /\ "loop" \notin Range(rest)
    BY <1>w, <1>p DEF Control, WritesInv, LoopInv, TypeOK
  <2> QED BY <1>w, <1>p, <2>1, PendingTypes
<1>e. ASSUME NEW completed, NEW rest, compactEnds(completed, rest), Writes(rest), Range(rest) \subseteq Range(writes),
             journal' \in [Inputs -> InputStates], disk' \in [Inputs -> InputStates],
             failed' \in BOOLEAN, maint # "none"
      PROVE  TypeOK'
  <2>1. maint' = "none" /\ UNCHANGED <<hostVars, asking, stop, exposed, withdrawn, consent>>
    BY <1>e DEF compactEnds
  <2>2. CASE startPendingTurn(urgent, autoDrain, rest)
    BY <1>w, <1>p, <1>e, <2>1, <2>2 DEF TypeOK
  <2>3. CASE /\ abortCtl' = "none" /\ pauseQueuedInputs(queue)
             /\ UNCHANGED <<queue, notes, pc, abortFin, batch, answered>>
    BY <1>w, <1>e, <2>1, <2>3 DEF TypeOK, pauseQueuedInputs
  <2> QED BY <1>e, <2>2, <2>3 DEF compactEnds
<1>1. CASE CompactSave
  BY <1>w, <1>1 DEF CompactSave, TypeOK
<1>2. CASE CompactFails
  <2>1. compactEnds(FALSE, writes) /\ UNCHANGED <<journalVars, failed>> /\ maint # "none"
    BY <1>2 DEF CompactFails
  <2> QED BY <1>w, <1>e, <2>1 DEF TypeOK
<1>3. CASE CompactWritten
  <2>1. Writes(Tail(writes)) /\ Range(Tail(writes)) \subseteq Range(writes)
    BY <1>w, <1>3, Settled DEF CompactWritten
  <2>2. /\ journal' \in [Inputs -> InputStates] /\ disk' \in [Inputs -> InputStates]
        /\ failed' \in BOOLEAN /\ maint # "none"
    BY <1>w, <1>3 DEF CompactWritten, appended, appendFailed, TypeOK
  <2>3. \E completed : compactEnds(completed, Tail(writes))
    BY <1>3 DEF CompactWritten
  <2> QED BY <1>e, <2>1, <2>2, <2>3
<1>4. CASE RestoreEnds
  <2>1. /\ maint' = "none" /\ maint # "none" /\ asking' \in BOOLEAN
        /\ journal' \in [Inputs -> InputStates] /\ disk' \in [Inputs -> InputStates]
        /\ UNCHANGED <<hostVars, failed, stop, exposed, withdrawn, consent>>
    BY <1>w, <1>4 DEF RestoreEnds, TypeOK
  <2>2. CASE startPendingTurn(urgent, autoDrain, writes)
    BY <1>w, <1>p, <2>1, <2>2 DEF TypeOK
  <2>3. CASE UNCHANGED <<writes, queue, urgent, autoDrain, notes, pc, abortCtl, abortFin, batch, answered>>
    BY <1>w, <2>1, <2>3 DEF TypeOK
  <2> QED BY <1>4, <2>2, <2>3 DEF RestoreEnds
<1> QED BY <1>1, <1>2, <1>3, <1>4 DEF MaintNext

(* What the user and the host start keeps the types.                       *)
LEMMA HostTypes ==
  ASSUME Control, ControlOK', HostNext
  PROVE  TypeOK'
<1> USE DEF queueVars, loopVars, histVars, hostVars, journalVars
<1>w. /\ TypeOK /\ writes' \in Seq({"loop", "op", "maint"}) /\ IsInjective(writes')
      /\ Writes(writes') /\ Writes(writes)
  BY DEF Control, ControlOK, Writes, Owners, TypeOK
<1> DEFINE Ops == [kind : {"none", "message", "discard", "edit"},
                   id : Inputs \cup {NoInput}, starts : BOOLEAN, urgent : BOOLEAN,
                   index : Nat, drops : SUBSET Inputs]
<1>1. ASSUME NEW urg \in BOOLEAN, NEW drops \in SUBSET Inputs, SendMessage(urg, drops)
      PROVE  TypeOK'
  <2>1. accepted' \in 0..MaxInputs /\ accepted + 1 \in Inputs
    BY <1>w, <1>1, InputsAssumption DEF SendMessage, TypeOK, Inputs
  <2>2. op' \in Ops
    <3>1. isBusy \in BOOLEAN
      BY DEF isBusy, isRunning
    <3> QED BY <1>1, <2>1, <3>1 DEF SendMessage, NoOp
  <2> QED BY <1>w, <1>1, <2>1, <2>2 DEF SendMessage, TypeOK
<1>2. ASSUME NEW kind \in {"discard", "edit"}, NEW id \in Inputs, NEW drops \in SUBSET Inputs,
             takeQueuedMessage(kind, id, drops)
      PROVE  TypeOK'
  <2>1. PICK k \in DOMAIN queue :
          /\ queue' = RemoveAt(queue, k)
          /\ op' = [NoOp EXCEPT !.kind = kind, !.id = id, !.index = k, !.drops = drops]
          /\ UNCHANGED <<journalVars, urgent, autoDrain, notes, unsent, asking, failed,
                   loopVars, maint, accepted, histVars>>
    BY <1>2, Zenon DEF takeQueuedMessage
  <2>2. queue \in Seq(Inputs) /\ k \in Nat
    BY <1>w DEF TypeOK
  <2>3. queue' \in Seq(Inputs)
    BY <2>1, <2>2, RemoveAtHolds
  <2>4. op' \in Ops
    BY <2>1, <2>2 DEF NoOp
  <2> QED BY <1>w, <2>1, <2>3, <2>4 DEF TypeOK
<1>3. ASSUME NEW id \in Inputs, SendNow(id) PROVE TypeOK'
  <2>1. consent' \in BOOLEAN /\ UNCHANGED <<journalVars, unsent, asking, failed, stop, maint, op, accepted,
                 exposed, withdrawn>>
    BY <1>3 DEF SendNow
  <2>2. CASE /\ autoDrain' = TRUE /\ urgent' = urgent \cup {id}
             /\ pc' = IF pc = "step" THEN "cutStep" ELSE pc
             /\ UNCHANGED <<writes, queue, notes, abortCtl, abortFin, batch, answered>>
    <3>1. urgent' \in SUBSET Inputs /\ pc' \in PCs
      BY <1>w, <2>2 DEF TypeOK, PCs
    <3> QED BY <1>w, <2>1, <2>2, <3>1 DEF TypeOK
  <2>3. CASE ~isBusy /\ startPendingTurn(urgent \cup {id}, TRUE, writes)
    <3>1. urgent \cup {id} \in SUBSET Inputs /\ "loop" \notin Range(writes)
      BY <1>w, <2>3 DEF TypeOK, isBusy, isRunning, Control, WritesInv
    <3>2. /\ pc' \in PCs /\ abortCtl' \in {"none", "live", "aborted"}
             /\ abortFin' \in BOOLEAN /\ answered' \in BOOLEAN /\ autoDrain' \in BOOLEAN
             /\ batch' \in [ins : Seq(Inputs), root : Inputs \cup {NoInput},
                            notes : SUBSET Notes, back : {"loop", "step"}]
             /\ queue' \in Seq(Inputs) /\ urgent' \in SUBSET Inputs /\ notes' \in SUBSET Notes
      BY <1>w, <2>3, <3>1, PendingTypes
    <3> QED BY <1>w, <2>1, <3>2 DEF TypeOK
  <2> QED BY <1>3, <2>2, <2>3 DEF SendNow
<1>4. CASE Abort
  <2>1. /\ urgent' \in SUBSET Inputs /\ autoDrain' \in BOOLEAN /\ consent' \in BOOLEAN
        /\ abortCtl' \in {"none", "live", "aborted"} /\ abortFin' \in BOOLEAN
    BY <1>w, <1>4 DEF Abort, pauseQueuedInputs, TypeOK
  <2> QED BY <1>w, <1>4, <2>1 DEF Abort, TypeOK
<1>5. ASSUME NEW n \in Notes, Notify(n) PROVE TypeOK'
  <2>1. /\ unsent' \in SUBSET Notes
        /\ UNCHANGED <<journalVars, queue, urgent, autoDrain, asking, failed, maint, op,
                 accepted, exposed, withdrawn, consent>>
    BY <1>w, <1>5 DEF Notify, TypeOK
  <2>2. CASE notes' = notes \cup {n} /\ UNCHANGED <<loopVars, answered>>
    BY <1>w, <2>1, <2>2 DEF TypeOK
  <2>3. CASE startTurn(<<>>, NoInput, {n}, writes) /\ UNCHANGED <<notes, stop>>
    <3>1. <<>> \in Seq(Inputs) /\ NoInput \in Inputs \cup {NoInput} /\ {n} \in SUBSET Notes
      OBVIOUS
    <3>2. /\ pc' \in PCs /\ abortCtl' \in {"none", "live", "aborted"}
          /\ abortFin' \in BOOLEAN /\ answered' \in BOOLEAN
          /\ batch' \in [ins : Seq(Inputs), root : Inputs \cup {NoInput},
                        notes : SUBSET Notes, back : {"loop", "step"}]
      BY <1>w, <2>3, <3>1, TurnTypes
    <3> QED BY <1>w, <2>1, <2>3, <3>2 DEF TypeOK
  <2> QED BY <1>5, <2>2, <2>3 DEF Notify
<1>6. CASE StartCompact
  BY <1>w, <1>6 DEF StartCompact, TypeOK
<1>7. CASE StartRestore
  BY <1>w, <1>7 DEF StartRestore, TypeOK
<1> QED
  BY <1>1, <1>2, <1>3, <1>4, <1>5, <1>6, <1>7 DEF HostNext, Discard, Edit

(* A restart keeps the types.                                              *)
LEMMA RestartTypes ==
  ASSUME TypeOK, Restart
  PROVE  TypeOK'
<1> DEFINE now == Recovered(disk)
           all == [i \in Inputs |-> i]
<1>1. now \in [Inputs -> InputStates]
  BY DEF Recovered, TypeOK, InputStates
<1>2. all \in Seq(Inputs)
  BY InputsAssumption DEF Inputs
<1>3. queue' \in Seq(Inputs)
  <2>1. queue' = Chosen(all, {i \in Inputs : now[i] = "queued"})
    BY DEF Restart
  <2> HIDE DEF now, all
  <2> QED BY <1>2, <2>1, InputsAreNat, ChosenIs
<1>4. journal' \in [Inputs -> InputStates] /\ disk' \in [Inputs -> InputStates] /\ exposed' \in SUBSET Inputs
  BY <1>1 DEF Restart, appended, TypeOK
<1>5. /\ batch' \in [ins : Seq(Inputs), root : Inputs \cup {NoInput},
                        notes : SUBSET Notes, back : {"loop", "step"}]
      /\ op' \in [kind : {"none", "message", "discard", "edit"},
                   id : Inputs \cup {NoInput}, starts : BOOLEAN, urgent : BOOLEAN,
                   index : Nat, drops : SUBSET Inputs]
  BY DEF Restart, NoBatch, NoOp
<1>6. writes' \in Seq({"loop", "op", "maint"}) /\ IsInjective(writes')
  BY DEF Restart, IsInjective
<1> QED BY <1>3, <1>4, <1>5, <1>6 DEF Restart, TypeOK, PCs, StopReasons

(* The types and the control of the loop are kept by every step.           *)
LEMMA BaseStep ==
  ASSUME Control, OpInv, [Next]_vars
  PROVE  Control' /\ OpInv'
<1>0. TypeOK /\ ControlOK'
  BY ControlStep DEF Control
<1>1. OpInv'
  BY <1>0, OpStep
<1>2. TypeOK'
  <2>1. CASE UNCHANGED vars
    BY <1>0, <2>1 DEF vars, TypeOK
  <2> QED BY <1>0, <2>1, LoopTypes, CommandTypes, MaintTypes, HostTypes, RestartTypes DEF Next
<1> QED BY <1>0, <1>1, <1>2 DEF Control, ControlOK
-----------------------------------------------------------------------------

(* The input a command has taken out of the queue, and everything held.    *)
TakenIds == IF op.kind \in {"discard", "edit"} THEN {op.id} ELSE {}
HeldIds == Range(queue) \cup Range(batch.ins) \cup TakenIds

(* Nothing is held twice.                                                  *)
Apart ==
  /\ IsInjective(queue) /\ IsInjective(batch.ins)
  /\ Range(queue) \cap Range(batch.ins) = {}
  /\ TakenIds \cap Range(queue) = {} /\ TakenIds \cap Range(batch.ins) = {}

(* Every queued input is held; nothing else is held but a root input that  *)
(* was recorded for a turn another one opened first.                       *)
QueuedHeld ==
  \A i \in Inputs : /\ i \in HeldIds => journal[i] \in {"queued", "root"}
                    /\ journal[i] = "queued" => i \in HeldIds

TakenQueued == \A i \in TakenIds : journal[i] = "queued"
RootHeld == batch.root # NoInput => journal[batch.root] = "root" /\ batch.root \notin HeldIds

(* A message being recorded is new, and the drafts it consumes are drafts. *)
MessageNew ==
  op.kind = "message" => /\ op.id = accepted /\ journal[op.id] = "absent"
                         /\ \A i \in op.drops : journal[i] = "restored"

HoldInv == Apart /\ QueuedHeld /\ TakenQueued /\ RootHeld /\ MessageNew

Base == Control /\ OpInv

(* Inputs move between their holders, and the journal does not change.     *)
LEMMA Moves ==
  ASSUME HoldInv, journal' = journal, accepted' = accepted,
         op' = op \/ op'.kind # "message",
         IsInjective(queue'), IsInjective(batch'.ins),
         Range(queue') \cap Range(batch'.ins) = {},
         TakenIds' \cap Range(queue') = {}, TakenIds' \cap Range(batch'.ins) = {},
         HeldIds' = HeldIds, \A i \in TakenIds' : journal[i] = "queued",
         batch'.root \in {NoInput, batch.root}
  PROVE  HoldInv'
BY DEF HoldInv, Apart, QueuedHeld, TakenQueued, RootHeld, MessageNew

(* Nothing moves.                                                          *)
LEMMA Stays ==
  ASSUME HoldInv, UNCHANGED <<journal, accepted, op, queue, batch>>
  PROVE  HoldInv'
BY DEF HoldInv, Apart, QueuedHeld, TakenQueued, RootHeld, MessageNew, HeldIds, TakenIds

(* No write in flight holds nothing.                                       *)
LEMMA NoBatchHolds ==
  /\ IsInjective(NoBatch.ins) /\ Range(NoBatch.ins) = {} /\ NoBatch.root = NoInput
BY DEF NoBatch, IsInjective, Range

(* A pending turn takes at most one input out of the queue.                *)
LEMMA PendingHold ==
  ASSUME TypeOK, HoldInv, batch = NoBatch, UNCHANGED <<journal, accepted, op>>,
         NEW urg \in SUBSET Inputs, NEW drain \in BOOLEAN, NEW rest,
         startPendingTurn(urg, drain, rest), Writes(rest), "loop" \notin Range(rest)
  PROVE  HoldInv'
<1>0. queue \in Seq(Inputs) /\ TakenIds' = TakenIds /\ IsInjective(queue) /\ TakenIds \cap Range(queue) = {}
      /\ HeldIds = Range(queue) \cup TakenIds
  BY NoBatchHolds DEF TypeOK, TakenIds, HeldIds, HoldInv, Apart, QueuedHeld, TakenQueued, RootHeld, MessageNew
<1>1. PICK ins : /\ batch' = [ins |-> ins, root |-> NoInput, notes |-> notes, back |-> "loop"]
                 /\ \/ ins = <<>> /\ queue' = queue
                    \/ drain /\ \E k \in DOMAIN queue : ins = <<queue[k]>> /\ queue' = RemoveAt(queue, k)
  BY PendingTurn
<1>2. batch'.ins = ins /\ batch'.root = NoInput
  BY <1>1
<1>3. /\ IsInjective(queue') /\ IsInjective(ins) /\ Range(queue') \cap Range(ins) = {}
      /\ Range(queue') \cup Range(ins) = Range(queue)
  <2>1. CASE ins = <<>> /\ queue' = queue
    BY <1>0, <2>1 DEF IsInjective, Range
  <2>2. ASSUME NEW k \in DOMAIN queue, ins = <<queue[k]>>, queue' = RemoveAt(queue, k)
        PROVE  <1>3
    <3>1. IsInjective(queue') /\ Range(queue') = Range(queue) \ {queue[k]}
      BY <1>0, <2>2, RemoveAtHolds
    <3>3. queue[k] \in Range(queue)
      BY DEF Range
    <3>2. IsInjective(ins) /\ Range(ins) = {queue[k]}
      BY <2>2 DEF IsInjective, Range
    <3> QED BY <3>1, <3>2, <3>3
  <2> QED BY <1>1, <2>1, <2>2
<1>4. HeldIds' = HeldIds
  BY <1>0, <1>2, <1>3 DEF HeldIds
<1>5. \A i \in TakenIds' : journal[i] = "queued"
  BY <1>0 DEF HoldInv, Apart, QueuedHeld, TakenQueued, RootHeld, MessageNew
<1> QED BY <1>0, <1>1, <1>2, <1>3, <1>4, <1>5, Moves DEF HoldInv, Apart, QueuedHeld, TakenQueued, RootHeld, MessageNew

(* The end of a turn, with the write it may wait for.                      *)
LEMMA EndOfTurn ==
  ASSUME TurnEnds
  PROVE  \E reason, rest, persisted :
           /\ turnEnded(reason, rest, persisted)
           /\ \/ writing("loop") /\ rest = Tail(writes)
              \/ notWriting("loop") /\ rest = writes
<1>1. PICK reason \in {stop, "error"} :
        \/ writing("loop") /\ turnEnded(reason, Tail(writes), ~failed)
        \/ writing("loop") /\ turnEnded(reason, Tail(writes), FALSE)
        \/ notWriting("loop") /\ turnEnded(reason, writes, FALSE)
  BY Zenon DEF TurnEnds
<1>2. CASE writing("loop") /\ turnEnded(reason, Tail(writes), ~failed)
  BY <1>2
<1>3. CASE writing("loop") /\ turnEnded(reason, Tail(writes), FALSE)
  BY <1>3
<1>4. CASE notWriting("loop") /\ turnEnded(reason, writes, FALSE)
  BY <1>4
<1> QED BY <1>1, <1>2, <1>3, <1>4

(* Every step of the loop keeps the holders.                               *)
LEMMA LoopHold ==
  ASSUME Base, HoldInv, LoopNext
  PROVE  HoldInv'
<1> USE DEF loopElse, queueVars, loopVars, histVars, hostVars, journalVars
<1>0. /\ TypeOK /\ Writes(writes) /\ queue \in Seq(Inputs) /\ batch.ins \in Seq(Inputs)
      /\ pc \notin {"start", "inject", "end"} => "loop" \notin Range(writes)
      /\ pc \notin {"start", "inject"} => batch = NoBatch
      /\ Range(queue) \subseteq Inputs /\ urgent \subseteq Inputs /\ Range(batch.ins) \subseteq Inputs
  BY DEF Base, Control, TypeOK, WritesInv, LoopInv, Writes, Owners, Range
<1>c. ASSUME ConfirmDelivery, UNCHANGED <<queue, op, accepted>>
      PROVE  HoldInv'
  <2>1. batch' = NoBatch /\ journal' = Delivered /\ TakenIds' = TakenIds /\ queue' = queue /\ Confirmable
        /\ op' = op /\ accepted' = accepted
    BY <1>c DEF ConfirmDelivery, appended, TakenIds
  <2>2. \A i \in Inputs : journal'[i] = IF i \in BatchIds THEN "delivered" ELSE journal[i]
    BY <2>1 DEF Delivered, Marked
  <2>3. Range(batch'.ins) = {} /\ IsInjective(batch'.ins) /\ batch'.root = NoInput
    BY <2>1, NoBatchHolds
  <2>4. HeldIds' = HeldIds \ Range(batch.ins)
    BY <2>1, <2>3 DEF HeldIds, HoldInv, Apart, QueuedHeld, TakenQueued, RootHeld, MessageNew
  <2>5. BatchIds \cap HeldIds' = {} /\ BatchIds \cap TakenIds = {} /\ HeldIds \ BatchIds = HeldIds'
    BY <2>4 DEF BatchIds, HeldIds, HoldInv, Apart, QueuedHeld, TakenQueued, RootHeld, MessageNew
  <2>6. op.kind = "message" => op.id \notin BatchIds /\ op.drops \cap BatchIds = {} /\ op.id \in Inputs /\ op.drops \subseteq Inputs
    <3>1. \A i \in BatchIds : journal[i] \in {"queued", "root"}
      BY <2>1 DEF Confirmable, PendingInputs, BatchIds
    <3>2. op.drops \subseteq Inputs /\ (op.kind = "message" => op.id \in Inputs)
      BY <1>0 DEF TypeOK, Base, OpInv
    <3> QED BY <3>1, <3>2 DEF HoldInv, Apart, QueuedHeld, TakenQueued, RootHeld, MessageNew
  <2>7. \A i \in Inputs : /\ i \in HeldIds' => journal'[i] \in {"queued", "root"}
                          /\ journal'[i] = "queued" => i \in HeldIds'
    BY <2>2, <2>5 DEF HoldInv, Apart, QueuedHeld, TakenQueued, RootHeld, MessageNew
  <2>8. \A i \in TakenIds' : journal'[i] = "queued"
    <3>1. TakenIds \subseteq Inputs
      BY DEF TakenIds, Base, OpInv
    <3> QED BY <2>1, <2>2, <2>5, <3>1 DEF HoldInv, Apart, QueuedHeld, TakenQueued, RootHeld, MessageNew
  <2>9. op'.kind = "message" => /\ op'.id = accepted' /\ journal'[op'.id] = "absent"
                                /\ \A i \in op'.drops : journal'[i] = "restored"
    BY <2>1, <2>2, <2>6 DEF HoldInv, Apart, QueuedHeld, TakenQueued, RootHeld, MessageNew
  <2>10. /\ IsInjective(queue') /\ TakenIds' \cap Range(queue') = {}
         /\ Range(queue') \cap Range(batch'.ins) = {} /\ TakenIds' \cap Range(batch'.ins) = {}
    <3>1. IsInjective(queue) /\ TakenIds \cap Range(queue) = {}
      BY DEF HoldInv, Apart, QueuedHeld, TakenQueued, RootHeld, MessageNew
    <3> QED BY <2>1, <2>3, <3>1
  <2>11. Apart'
    BY <2>3, <2>10 DEF Apart
  <2>12. QueuedHeld'
    BY <2>7 DEF QueuedHeld
  <2>13. TakenQueued'
    BY <2>8 DEF TakenQueued
  <2>14. RootHeld' /\ MessageNew'
    BY <2>3, <2>9 DEF RootHeld, MessageNew
  <2> QED BY <2>11, <2>12, <2>13, <2>14 DEF HoldInv
<1>l. ASSUME NEW rest, NEW tried, LoseDelivery(rest, tried), UNCHANGED <<op, accepted>>
      PROVE  HoldInv'
  <2>1. journal' = journal /\ queue' = batch.ins \o queue /\ batch' = NoBatch
    BY <1>l DEF LoseDelivery, DeliveryFails, StartCut, appendFailed
  <2>2. IsInjective(queue') /\ Range(queue') = Range(batch.ins) \cup Range(queue)
    BY <1>0, <2>1, ConcatHolds DEF HoldInv, Apart, QueuedHeld, TakenQueued, RootHeld, MessageNew
  <2>3. Range(batch'.ins) = {} /\ IsInjective(batch'.ins) /\ batch'.root = NoInput
    BY <2>1, NoBatchHolds
  <2>4. TakenIds' = TakenIds /\ HeldIds' = HeldIds
    BY <1>l, <2>2, <2>3 DEF TakenIds, HeldIds
  <2> QED BY <1>l, <2>1, <2>2, <2>3, <2>4, Moves DEF HoldInv, Apart, QueuedHeld, TakenQueued, RootHeld, MessageNew
<1>i. ASSUME NEW back, Inject(back), pc \in {"loop", "textBoundary", "toolBoundary"}
      PROVE  HoldInv'
  <2>1. /\ batch'.ins = Chosen(queue, urgent) /\ batch'.root = NoInput
        /\ queue' = Chosen(queue, Inputs \ urgent) /\ UNCHANGED <<journal, op, accepted>>
    BY <1>i DEF Inject
  <2>2. /\ IsInjective(queue') /\ IsInjective(batch'.ins)
        /\ Range(queue') = Range(queue) \cap (Inputs \ urgent) /\ Range(batch'.ins) = Range(queue) \cap urgent
    <3>1. IsInjective(queue)
      BY DEF HoldInv, Apart, QueuedHeld, TakenQueued, RootHeld, MessageNew
    <3>2. /\ Range(Chosen(queue, urgent)) = Range(queue) \cap urgent
          /\ IsInjective(Chosen(queue, urgent))
      BY <1>0, <3>1, InputsAreNat, ChosenIs
    <3>3. /\ Range(Chosen(queue, Inputs \ urgent)) = Range(queue) \cap (Inputs \ urgent)
          /\ IsInjective(Chosen(queue, Inputs \ urgent))
      BY <1>0, <3>1, InputsAreNat, ChosenIs
    <3> QED BY <2>1, <3>2, <3>3
  <2>3. Range(batch.ins) = {}
    BY <1>0, <1>i, NoBatchHolds
  <2>4. TakenIds' = TakenIds /\ HeldIds' = HeldIds
    BY <1>0, <2>1, <2>2, <2>3 DEF TakenIds, HeldIds
  <2> QED BY <1>0, <2>1, <2>2, <2>4, Moves DEF HoldInv, Apart, QueuedHeld, TakenQueued, RootHeld, MessageNew
<1>1. CASE TurnStarted
  BY <1>1, <1>c DEF TurnStarted
<1>2. CASE TurnStartFails
  BY <1>2, <1>l DEF TurnStartFails
<1>3. CASE LoopTop
  <2>1. Inject("step") \/ UNCHANGED <<journal, accepted, op, queue, batch>>
    BY <1>3 DEF LoopTop, leaveLoop, goTo
  <2>2. pc = "loop"
    BY <1>3 DEF LoopTop
  <2> QED BY <1>i, <2>1, <2>2, Stays
<1>4. CASE Injected
  BY <1>4, <1>c DEF Injected
<1>5. CASE InjectFails
  BY <1>5, <1>l DEF InjectFails
<1>6. ASSUME NEW tools \in BOOLEAN, StepCommitted(tools) PROVE HoldInv'
  BY <1>6, Stays DEF StepCommitted, appended
<1>7. ASSUME NEW reason, StepEndsTurn(reason) PROVE HoldInv'
  BY <1>7, Stays DEF StepEndsTurn, appended
<1>8. CASE StepInterrupted
  BY <1>8, Stays DEF StepInterrupted
<1>9. CASE StepThrows
  BY <1>9, Stays DEF StepThrows
<1>10. CASE Boundary
  <2>1. Inject("loop") \/ UNCHANGED <<journal, accepted, op, queue, batch>>
    BY <1>10 DEF Boundary, leaveLoop, goTo
  <2>2. pc \in {"textBoundary", "toolBoundary"}
    BY <1>10 DEF Boundary
  <2> QED BY <1>i, <2>1, <2>2, Stays
<1>11. CASE Settle
  <2>1. UNCHANGED <<journal, accepted, op, queue, batch>>
    BY <1>11 DEF Settle, leaveLoop, goTo
  <2> QED BY <2>1, Stays
<1>12. CASE TurnEnds
  <2>0. pc = "end" /\ batch = NoBatch /\ journal' = journal
    BY <1>0, <1>12 DEF TurnEnds, appended, appendFailed
  <2>1. PICK reason, rest, persisted :
          /\ turnEnded(reason, rest, persisted)
          /\ \/ writing("loop") /\ rest = Tail(writes)
             \/ notWriting("loop") /\ rest = writes
    BY <1>12, EndOfTurn
  <2>2. Writes(rest) /\ "loop" \notin Range(rest)
    <3>1. CASE writing("loop") /\ rest = Tail(writes)
      BY <1>0, <3>1, Settled
    <3>2. CASE notWriting("loop") /\ rest = writes
      BY <1>0, <3>2 DEF notWriting
    <3> QED BY <2>1, <3>1, <3>2
  <2>3. UNCHANGED <<op, accepted>>
    BY <2>1 DEF turnEnded
  <2>4. CASE startPendingTurn(urgent, autoDrain, rest)
    <3>1. urgent \in SUBSET Inputs /\ autoDrain \in BOOLEAN
      BY <1>0 DEF TypeOK
    <3> QED BY <1>0, <2>0, <2>2, <2>3, <2>4, <3>1, PendingHold
  <2>5. CASE UNCHANGED <<queue, batch>>
    BY <2>0, <2>3, <2>5, Stays
  <2> QED BY <2>1, <2>4, <2>5 DEF turnEnded, goIdle
<1>13. CASE UsageMeasured
  BY <1>13, Stays DEF UsageMeasured, goIdle
<1> QED
  BY <1>1, <1>2, <1>3, <1>4, <1>5, <1>6, <1>7, <1>8, <1>9, <1>10, <1>11, <1>12, <1>13
     DEF LoopNext

(* Inputs are numbered as they are accepted.                               *)
Numbered == \A i \in Inputs : i > accepted => journal[i] = "absent" /\ disk[i] = "absent"

(* The end of a user command keeps the holders.                            *)
LEMMA CommandHold ==
  ASSUME Base, HoldInv, CommandWrites
  PROVE  HoldInv'
<1> USE DEF queueVars, loopVars, histVars, hostVars, journalVars
<1>0. /\ TypeOK /\ queue \in Seq(Inputs) /\ op.drops \subseteq Inputs
      /\ op.kind # "none" => op.id \in Inputs
      /\ Range(queue) \subseteq Inputs /\ Range(batch.ins) \subseteq Inputs
  BY DEF Base, Control, TypeOK, OpInv, Range
<1>n. NoOp.kind = "none"
  BY DEF NoOp
<1>b. /\ op.kind \in {"discard", "edit"} => TakenIds = {op.id}
      /\ op.kind \notin {"discard", "edit"} => TakenIds = {}
      /\ op' = NoOp => TakenIds' = {}
  BY <1>n DEF TakenIds
\* The input goes back to the queue.
<1>p. ASSUME op.kind \in {"discard", "edit"}, putQueuedMessageBack, op' = NoOp,
             UNCHANGED <<journal, batch, accepted>>
      PROVE  HoldInv'
  <2>1. op.id \in Inputs /\ op.index \in Nat /\ op.index > 0
    BY <1>0, <1>p DEF TypeOK, Base, OpInv
  <2> DEFINE at == IF op.index <= Len(queue) THEN op.index ELSE Len(queue) + 1
  <2>2. at \in 1..(Len(queue) + 1)
    BY <1>0, <2>1
  <2>3. queue' = InsertAt(queue, at, op.id)
    BY <1>p DEF putQueuedMessageBack
  <2> HIDE DEF at
  <2>4. IsInjective(queue) /\ op.id \notin Range(queue) /\ op.id \notin Range(batch.ins)
    BY <1>b, <1>p DEF HoldInv, Apart
  <2>5. Range(queue') = Range(queue) \cup {op.id} /\ IsInjective(queue')
    BY <1>0, <2>1, <2>2, <2>3, <2>4, InsertAtHolds
  <2>6. HeldIds' = HeldIds /\ TakenIds' = {}
    BY <1>b, <1>p, <2>5 DEF HeldIds
  <2> QED BY <1>n, <1>p, <2>4, <2>5, <2>6, Moves DEF HoldInv, Apart
<1>1. CASE MessageRecorded
  <2>0. /\ op.kind = "message" /\ op.id \in Inputs /\ TakenIds = {} /\ TakenIds' = {}
        /\ op' = NoOp /\ op'.kind = "none" /\ journal' = RecordedMessage
    BY <1>0, <1>n, <1>b, <1>1 DEF MessageRecorded, appended
  <2>1. journal[op.id] = "absent" /\ \A i \in op.drops : journal[i] = "restored"
    BY <2>0 DEF HoldInv, MessageNew
  <2>2. op.id \notin HeldIds /\ op.drops \cap HeldIds = {} /\ op.id \notin op.drops
    BY <1>0, <2>0, <2>1 DEF HoldInv, QueuedHeld
  <2>3. /\ journal'[op.id] = IF op.starts THEN "root" ELSE "queued"
        /\ \A i \in Inputs \ {op.id} : journal'[i] = IF i \in op.drops THEN "discarded" ELSE journal[i]
    BY <1>0, <2>0 DEF RecordedMessage, Marked
  <2>4. HeldIds \subseteq Inputs /\ \A i \in HeldIds : journal'[i] = journal[i]
    BY <1>0, <2>0, <2>2, <2>3 DEF HeldIds
  <2>5. TakenQueued' /\ MessageNew'
    BY <2>0 DEF TakenQueued, MessageNew
  <2>6. \A i \in Inputs \ {op.id} : journal'[i] = "queued" => i \in HeldIds
    BY <2>3 DEF HoldInv, QueuedHeld
  <2>7. batch.root # NoInput => journal'[batch.root] = "root" /\ batch.root # op.id /\ batch.root \notin HeldIds
    <3> SUFFICES ASSUME batch.root # NoInput
                 PROVE  journal'[batch.root] = "root" /\ batch.root # op.id /\ batch.root \notin HeldIds
      OBVIOUS
    <3>1. batch.root \in Inputs /\ journal[batch.root] = "root" /\ batch.root \notin HeldIds
      BY <1>0 DEF TypeOK, HoldInv, RootHeld
    <3> QED BY <2>1, <2>3, <3>1
  <2>8. CASE isBusy /\ queueInput(op.id) /\ UNCHANGED batch
    <3>1. queue' = Append(queue, op.id) /\ batch' = batch
      BY <2>8 DEF queueInput
    <3>2. op.id \notin Range(queue) /\ op.id \notin Range(batch.ins) /\ IsInjective(queue)
      BY <2>2 DEF HeldIds, HoldInv, Apart
    <3>3. Range(queue') = Range(queue) \cup {op.id} /\ IsInjective(queue')
      BY <1>0, <2>0, <3>1, <3>2, AppendHolds
    <3>4. HeldIds' = HeldIds \cup {op.id}
      BY <2>0, <3>1, <3>3 DEF HeldIds
    <3>5. Apart'
      BY <2>0, <3>1, <3>2, <3>3 DEF HoldInv, Apart
    <3>6. QueuedHeld'
      BY <2>3, <2>4, <2>6, <3>4 DEF HoldInv, QueuedHeld
    <3>7. RootHeld'
      BY <2>7, <3>1, <3>4 DEF RootHeld
    <3> QED BY <2>5, <3>5, <3>6, <3>7 DEF HoldInv
  <2>9. CASE /\ ~isBusy
             /\ startTurn(IF op.starts THEN <<>> ELSE <<op.id>>,
                          IF op.starts THEN op.id ELSE NoInput, notes, Tail(writes))
             /\ UNCHANGED queue
    <3>1. batch = NoBatch
      BY <2>9 DEF Base, Control, LoopInv, isBusy, isRunning
    <3>2. /\ batch'.ins = IF op.starts THEN <<>> ELSE <<op.id>>
          /\ batch'.root = IF op.starts THEN op.id ELSE NoInput
          /\ queue' = queue
      BY <2>9 DEF startTurn
    <3>3. IsInjective(batch'.ins) /\ Range(batch'.ins) = IF op.starts THEN {} ELSE {op.id}
      <4>1. CASE op.starts
        <5>1. batch'.ins = <<>>
          BY <3>2, <4>1
        <5> QED BY <4>1, <5>1 DEF IsInjective, Range
      <4>2. CASE ~op.starts
        <5>1. batch'.ins = <<op.id>>
          BY <3>2, <4>2
        <5> QED BY <4>2, <5>1 DEF IsInjective, Range
      <4> QED BY <4>1, <4>2
    <3>4. HeldIds = Range(queue) /\ HeldIds' = Range(queue) \cup Range(batch'.ins)
      BY <2>0, <3>1, <3>2, NoBatchHolds DEF HeldIds
    <3>5. Apart'
      BY <2>0, <2>2, <3>2, <3>3, <3>4 DEF HoldInv, Apart
    <3>6. QueuedHeld'
      BY <2>3, <2>4, <2>6, <3>3, <3>4 DEF HoldInv, QueuedHeld
    <3>7. RootHeld'
      BY <2>2, <2>3, <3>2, <3>3, <3>4 DEF RootHeld
    <3> QED BY <2>5, <3>5, <3>6, <3>7 DEF HoldInv
  <2> QED BY <1>1, <2>8, <2>9 DEF MessageRecorded
<1>2. CASE MessageRejected
  <2>1. /\ op.kind = "message" /\ op' = NoOp
        /\ UNCHANGED <<journal, queue, batch, accepted>>
    BY <1>2 DEF MessageRejected, appendFailed
  <2>2. TakenIds' = TakenIds /\ HeldIds' = HeldIds
    BY <1>b, <2>1 DEF HeldIds
  <2> QED BY <1>n, <2>1, <2>2, Moves DEF HoldInv, Apart, TakenQueued
<1>3. CASE TakeBackRecorded
  <2>0. /\ op.kind \in {"discard", "edit"} /\ op.id \in Inputs /\ TakenIds = {op.id} /\ TakenIds' = {}
        /\ op' = NoOp /\ op'.kind = "none" /\ journal' = TakenBack
        /\ UNCHANGED <<queue, batch>> /\ \A i \in op.drops : journal[i] = "restored"
    BY <1>0, <1>n, <1>b, <1>3 DEF TakeBackRecorded, appended, PendingInputs
  <2>1. /\ journal'[op.id] \in {"restored", "discarded"}
        /\ \A i \in Inputs \ {op.id} : journal'[i] = IF i \in op.drops THEN "discarded" ELSE journal[i]
    BY <1>0, <2>0 DEF TakenBack, Marked
  <2>2. HeldIds' = HeldIds \ {op.id} /\ HeldIds \subseteq Inputs
    BY <1>0, <2>0 DEF HeldIds, HoldInv, Apart
  <2>3. op.drops \cap HeldIds = {}
    BY <1>0, <2>0 DEF HoldInv, QueuedHeld
  <2>4. QueuedHeld'
    BY <2>1, <2>2, <2>3 DEF HoldInv, QueuedHeld
  <2>5. Apart' /\ TakenQueued' /\ MessageNew'
    BY <2>0 DEF HoldInv, Apart, TakenQueued, MessageNew
  <2>6. RootHeld'
    <3> SUFFICES ASSUME batch.root # NoInput
                 PROVE  journal'[batch.root] = "root" /\ batch.root \notin HeldIds'
      BY <2>0 DEF RootHeld
    <3>1. batch.root \in Inputs /\ journal[batch.root] = "root" /\ batch.root \notin HeldIds
      BY <1>0 DEF TypeOK, HoldInv, RootHeld
    <3>2. batch.root # op.id
      BY <2>0, <3>1 DEF HeldIds
    <3> QED BY <2>0, <2>1, <2>2, <3>1, <3>2
  <2> QED BY <2>4, <2>5, <2>6 DEF HoldInv
<1>4. CASE TakeBackConflict
  BY <1>p, <1>4 DEF TakeBackConflict
<1>5. CASE TakeBackFailed
  BY <1>p, <1>5 DEF TakeBackFailed, appendFailed
<1> QED BY <1>1, <1>2, <1>3, <1>4, <1>5 DEF CommandWrites

(* A step of a compaction or a rollback keeps the holders.                 *)
LEMMA MaintHold ==
  ASSUME Base, HoldInv, MaintNext
  PROVE  HoldInv'
<1> USE DEF queueVars, loopVars, histVars, hostVars, journalVars
<1>0. /\ TypeOK /\ Writes(writes) /\ urgent \in SUBSET Inputs /\ autoDrain \in BOOLEAN
      /\ maint # "none" => batch = NoBatch /\ "loop" \notin Range(writes)
  BY DEF Base, Control, TypeOK, WritesInv, LoopInv, Writes, Owners
<1>e. ASSUME NEW completed, NEW rest, compactEnds(completed, rest), Writes(rest),
             "loop" \notin Range(rest), journal' = journal, maint # "none"
      PROVE  HoldInv'
  <2>1. UNCHANGED <<op, accepted>>
    BY <1>e DEF compactEnds
  <2>2. CASE startPendingTurn(urgent, autoDrain, rest)
    BY <1>0, <1>e, <2>1, <2>2, PendingHold
  <2>3. CASE UNCHANGED <<queue, batch>>
    BY <1>e, <2>1, <2>3, Stays
  <2> QED BY <1>e, <2>2, <2>3 DEF compactEnds
<1>1. CASE CompactSave
  BY <1>1, Stays DEF CompactSave
<1>2. CASE CompactFails
  BY <1>0, <1>2, <1>e DEF CompactFails
<1>3. CASE CompactWritten
  <2>1. maint # "none" /\ writing("maint") /\ journal' = journal
        /\ \E completed : compactEnds(completed, Tail(writes))
    BY <1>3 DEF CompactWritten, appended, appendFailed
  <2>2. Writes(Tail(writes)) /\ "loop" \notin Range(Tail(writes))
    BY <1>0, <2>1, Settled
  <2> QED BY <1>e, <2>1, <2>2
<1>4. CASE RestoreEnds
  <2>1. maint # "none" /\ UNCHANGED <<journal, op, accepted>>
    BY <1>4 DEF RestoreEnds
  <2>2. CASE startPendingTurn(urgent, autoDrain, writes)
    BY <1>0, <2>1, <2>2, PendingHold
  <2>3. CASE UNCHANGED <<queue, batch>>
    BY <2>1, <2>3, Stays
  <2> QED BY <1>4, <2>2, <2>3 DEF RestoreEnds
<1> QED BY <1>1, <1>2, <1>3, <1>4 DEF MaintNext

(* What the user and the host start keeps the holders.                     *)
LEMMA HostHold ==
  ASSUME Base, HoldInv, Numbered, HostNext
  PROVE  HoldInv'
<1> USE DEF queueVars, loopVars, histVars, hostVars, journalVars
<1>0. /\ TypeOK /\ Writes(writes) /\ urgent \in SUBSET Inputs /\ autoDrain \in BOOLEAN
      /\ queue \in Seq(Inputs)
      /\ pc = "idle" => batch = NoBatch /\ "loop" \notin Range(writes)
  BY DEF Base, Control, TypeOK, WritesInv, LoopInv, Writes, Owners
<1>1. ASSUME NEW urg \in BOOLEAN, NEW drops \in SUBSET Inputs, SendMessage(urg, drops)
      PROVE  HoldInv'
  <2>1. /\ op.kind = "none" /\ op'.kind = "message" /\ op'.id = accepted + 1 /\ op'.drops = drops
        /\ accepted' = accepted + 1 /\ UNCHANGED <<journal, queue, batch>>
        /\ \A i \in drops : journal[i] = "restored"
    BY <1>1 DEF SendMessage, NoOp, PendingInputs
  <2>2. accepted + 1 \in Inputs /\ accepted + 1 > accepted
    BY <1>0, <1>1, InputsAssumption DEF SendMessage, TypeOK, Inputs
  <2>3. journal[accepted + 1] = "absent"
    BY <2>2 DEF Numbered
  <2>4. TakenIds = {} /\ TakenIds' = {}
    BY <2>1 DEF TakenIds
  <2>5. HeldIds' = HeldIds
    BY <2>1, <2>4 DEF HeldIds
  <2>6. MessageNew'
    BY <2>1, <2>3 DEF MessageNew
  <2> QED BY <2>1, <2>4, <2>5, <2>6 DEF HoldInv, Apart, QueuedHeld, TakenQueued, RootHeld
<1>2. ASSUME NEW kind \in {"discard", "edit"}, NEW id, NEW drops, takeQueuedMessage(kind, id, drops)
      PROVE  HoldInv'
  <2>1. PICK k \in DOMAIN queue :
          /\ op.kind = "none" /\ queue[k] = id /\ journal[id] = "queued"
          /\ queue' = RemoveAt(queue, k)
          /\ op' = [NoOp EXCEPT !.kind = kind, !.id = id, !.index = k, !.drops = drops]
          /\ UNCHANGED <<journal, batch, accepted>>
    BY <1>2 DEF takeQueuedMessage
  <2>2. op'.kind = kind /\ op'.id = id
    BY <2>1 DEF NoOp
  <2>3. TakenIds = {} /\ TakenIds' = {id}
    BY <2>1, <2>2 DEF TakenIds
  <2>4. IsInjective(queue) /\ Range(queue) \cap Range(batch.ins) = {} /\ IsInjective(batch.ins)
    BY DEF HoldInv, Apart
  <2>5. IsInjective(queue') /\ Range(queue') = Range(queue) \ {id}
    BY <1>0, <2>1, <2>4, RemoveAtHolds
  <2>6. id \in Range(queue)
    BY <2>1 DEF Range
  <2>7. HeldIds' = HeldIds
    BY <2>1, <2>3, <2>5, <2>6 DEF HeldIds
  <2> QED BY <2>1, <2>2, <2>3, <2>4, <2>5, <2>6, <2>7, Moves
<1>3. ASSUME NEW id \in Inputs, SendNow(id) PROVE HoldInv'
  <2>1. UNCHANGED <<journal, op, accepted>>
    BY <1>3 DEF SendNow
  <2>2. CASE UNCHANGED <<queue, batch>>
    BY <2>1, <2>2, Stays
  <2>3. CASE ~isBusy /\ startPendingTurn(urgent \cup {id}, TRUE, writes)
    <3>1. pc = "idle" /\ urgent \cup {id} \in SUBSET Inputs
      BY <1>0, <2>3 DEF isBusy, isRunning
    <3> QED BY <1>0, <2>1, <2>3, <3>1, PendingHold
  <2> QED BY <1>3, <2>2, <2>3 DEF SendNow
<1>4. CASE Abort
  BY <1>4, Stays DEF Abort
<1>5. ASSUME NEW n \in Notes, Notify(n) PROVE HoldInv'
  <2>1. UNCHANGED <<journal, op, accepted, queue>>
    BY <1>5 DEF Notify
  <2>2. CASE UNCHANGED batch
    BY <2>1, <2>2, Stays
  <2>3. CASE ~isBusy /\ startTurn(<<>>, NoInput, {n}, writes)
    <3>1. batch = NoBatch
      BY <1>0, <2>3 DEF isBusy, isRunning
    <3>2. batch'.ins = <<>> /\ batch'.root = NoInput /\ batch.ins = <<>>
      BY <2>3, <3>1 DEF startTurn, NoBatch
    <3>3. TakenIds' = TakenIds /\ HeldIds' = HeldIds
      BY <2>1, <3>2 DEF TakenIds, HeldIds
    <3> QED BY <2>1, <3>2, <3>3, Moves DEF HoldInv, Apart, TakenQueued
  <2> QED BY <1>5, <2>2, <2>3 DEF Notify
<1>6. CASE StartCompact
  BY <1>6, Stays DEF StartCompact
<1>7. CASE StartRestore
  BY <1>7, Stays DEF StartRestore
<1> QED
  BY <1>1, <1>2, <1>3, <1>4, <1>5, <1>6, <1>7 DEF HostNext, Discard, Edit

(* What a restart finds queued is the queue.                               *)
LEMMA RestartHold ==
  ASSUME TypeOK, Restart
  PROVE  HoldInv' /\ InOrder(queue')
<1> DEFINE now == Recovered(disk)
           all == [i \in Inputs |-> i]
           waiting == {i \in Inputs : now[i] = "queued"}
<1>1. /\ queue' = Chosen(all, waiting) /\ journal' = now
      /\ batch' = NoBatch /\ op' = NoOp
  BY DEF Restart, appended
<1>2. /\ all \in Seq(Inputs) /\ IsInjective(all) /\ Range(all) = Inputs /\ InOrder(all)
      /\ waiting \subseteq Inputs
  BY InputsAssumption DEF Inputs, IsInjective, Range, InOrder
<1>3. \A i \in Inputs : now[i] = "queued" <=> i \in waiting
  OBVIOUS
<1> HIDE DEF now, all, waiting
<1>4. IsInjective(queue') /\ Range(queue') = waiting /\ InOrder(queue')
  <2>1. /\ IsInjective(Chosen(all, waiting)) /\ InOrder(Chosen(all, waiting))
        /\ Range(Chosen(all, waiting)) = Inputs \cap waiting
    BY <1>2, InputsAreNat, ChosenIs
  <2> QED BY <1>1, <1>2, <2>1
<1>5. TakenIds' = {} /\ op'.kind = "none"
  BY <1>1 DEF TakenIds, NoOp
<1>6. Range(batch'.ins) = {} /\ IsInjective(batch'.ins) /\ batch'.root = NoInput
  BY <1>1, NoBatchHolds
<1>7. HeldIds' = waiting
  BY <1>4, <1>5, <1>6 DEF HeldIds
<1> QED
  BY <1>1, <1>3, <1>4, <1>5, <1>6, <1>7
     DEF HoldInv, Apart, QueuedHeld, TakenQueued, RootHeld, MessageNew

(* Every step keeps the holders.                                           *)
LEMMA HoldStep ==
  ASSUME Base, HoldInv, Numbered, [Next]_vars
  PROVE  HoldInv'
<1>1. CASE UNCHANGED vars
  BY <1>1, Stays DEF vars
<1>2. CASE Restart
  BY <1>2, RestartHold DEF Base, Control
<1> QED BY <1>1, <1>2, LoopHold, CommandHold, MaintHold, HostHold DEF Next
-----------------------------------------------------------------------------

(* What is part of the model's context is delivered, in memory and on disk.*)
ExposedDelivered ==
  /\ exposed = {i \in Inputs : journal[i] = "delivered"}
  /\ \A i \in exposed : disk[i] = "delivered"

(* Only what the user took back is recorded as taken back.                 *)
WithdrawnRecorded ==
  \A i \in Inputs : journal[i] \in {"restored", "discarded"} \/ disk[i] \in {"restored", "discarded"}
                      => i \in withdrawn

(* The disk knows every input the memory knows.                            *)
OnDisk == \A i \in Inputs : journal[i] # "absent" => disk[i] # "absent"

(* What the start of a turn left behind it is the root of that turn.       *)
CutIsRoot == \A i \in Inputs : disk[i] = "cut" => journal[i] \in {"root", "cut"}

RecordInv == Numbered /\ ExposedDelivered /\ WithdrawnRecorded /\ OnDisk /\ CutIsRoot

(* A record is written: the disk holds what the memory knows.              *)
LEMMA Written ==
  ASSUME NEW new, appended(new),
         \A i \in Inputs : i > accepted' => new[i] = "absent",
         exposed' = {i \in Inputs : new[i] = "delivered"},
         \A i \in Inputs : new[i] \in {"restored", "discarded"} => i \in withdrawn'
  PROVE  RecordInv'
BY DEF appended, RecordInv, Numbered, ExposedDelivered, WithdrawnRecorded, OnDisk, CutIsRoot

(* A record was refused, but may have reached the disk.                    *)
LEMMA NotWritten ==
  ASSUME RecordInv, NEW new, appendFailed(new), accepted' = accepted, exposed' = exposed,
         withdrawn \subseteq withdrawn',
         \A i \in Inputs : i > accepted => new[i] = "absent",
         \A i \in exposed : new[i] = "delivered",
         \A i \in Inputs : new[i] \in {"restored", "discarded"} => i \in withdrawn',
         \A i \in Inputs : journal[i] # "absent" => new[i] # "absent",
         \A i \in Inputs : new[i] = "cut" => journal[i] \in {"root", "cut"}
  PROVE  RecordInv'
<1>1. journal' = journal /\ disk' \in {disk, new}
  BY DEF appendFailed
<1>2. CASE disk' = disk
  BY <1>1, <1>2 DEF RecordInv, Numbered, ExposedDelivered, WithdrawnRecorded, OnDisk, CutIsRoot
<1>3. CASE disk' = new
  BY <1>1, <1>3 DEF RecordInv, Numbered, ExposedDelivered, WithdrawnRecorded, OnDisk, CutIsRoot
<1> QED BY <1>1, <1>2, <1>3

(* Nothing new is known of the inputs.                                     *)
LEMMA RecordStays ==
  ASSUME RecordInv, journal' = journal, disk' \in {disk, journal}, exposed' = exposed,
         withdrawn \subseteq withdrawn',
         \A i \in Inputs : i > accepted' => i > accepted
  PROVE  RecordInv'
<1>1. CASE disk' = disk
  BY <1>1 DEF RecordInv, Numbered, ExposedDelivered, WithdrawnRecorded, OnDisk, CutIsRoot
<1>2. CASE disk' = journal
  BY <1>2 DEF RecordInv, Numbered, ExposedDelivered, WithdrawnRecorded, OnDisk, CutIsRoot
<1> QED BY <1>1, <1>2

(* Every step of the loop keeps the records.                               *)
LEMMA LoopRecord ==
  ASSUME Base, HoldInv, RecordInv, LoopNext
  PROVE  RecordInv'
<1> USE DEF loopElse, queueVars, loopVars, histVars, hostVars, journalVars
<1>0. TypeOK /\ journal \in [Inputs -> InputStates]
  BY DEF Base, Control, TypeOK
<1>d. ASSUME Confirmable
      PROVE  /\ \A i \in Inputs : i > accepted => Delivered[i] = "absent"
             /\ exposed \cup BatchIds = {i \in Inputs : Delivered[i] = "delivered"}
             /\ \A i \in Inputs : Delivered[i] \in {"restored", "discarded"} => i \in withdrawn
             /\ \A i \in Inputs : journal[i] # "absent" => Delivered[i] # "absent"
             /\ \A i \in Inputs : Delivered[i] = "cut" => journal[i] \in {"root", "cut"}
  <2>1. \A i \in Inputs : Delivered[i] = IF i \in BatchIds THEN "delivered" ELSE journal[i]
    BY DEF Delivered, Marked
  <2>2. BatchIds \subseteq Inputs /\ \A i \in BatchIds : journal[i] \in {"queued", "root"}
    <3>1. Range(batch.ins) \subseteq Inputs /\ batch.root \in Inputs \cup {NoInput}
      BY <1>0 DEF TypeOK, Range
    <3> QED BY <1>d, <3>1 DEF Confirmable, PendingInputs, BatchIds
  <2>3. \A i \in Inputs : i > accepted => Delivered[i] = "absent"
    <3>1. \A i \in Inputs : i > accepted => journal[i] = "absent"
      BY DEF RecordInv, Numbered
    <3> QED BY <2>1, <2>2, <3>1
  <2>4. exposed \cup BatchIds = {i \in Inputs : Delivered[i] = "delivered"}
    BY <2>1, <2>2 DEF RecordInv, ExposedDelivered
  <2>5. \A i \in Inputs : Delivered[i] \in {"restored", "discarded"} => i \in withdrawn
    BY <2>1 DEF RecordInv, WithdrawnRecorded
  <2>6. /\ \A i \in Inputs : journal[i] # "absent" => Delivered[i] # "absent"
        /\ \A i \in Inputs : Delivered[i] = "cut" => journal[i] \in {"root", "cut"}
    BY <2>1
  <2> QED BY <2>3, <2>4, <2>5, <2>6
<1>c. ASSUME ConfirmDelivery, UNCHANGED <<accepted, withdrawn>>
      PROVE  RecordInv'
  <2>1. Confirmable /\ appended(Delivered) /\ exposed' = exposed \cup BatchIds
    BY <1>c DEF ConfirmDelivery
  <2> QED BY <1>c, <1>d, <2>1, Written
<1>l. ASSUME NEW rest, NEW tried, LoseDelivery(rest, tried), UNCHANGED <<exposed, accepted, withdrawn>>
      PROVE  RecordInv'
  <2>1. CASE Confirmable /\ appendFailed(Delivered)
    <3>1. \A i \in exposed : Delivered[i] = "delivered"
      BY <1>d, <2>1
    <3> QED BY <1>d, <1>l, <2>1, <3>1, NotWritten
  <2>2. CASE UNCHANGED journalVars
    BY <1>l, <2>2, RecordStays
  <2>3. CASE Confirmable /\ StartCut
    <3> DEFINE new == Marked(journal, {batch.root}, "cut")
    <3>1. \A i \in Inputs : new[i] = IF i = batch.root THEN "cut" ELSE journal[i]
      BY DEF Marked
    <3>2. appendFailed(new)
      BY <2>3 DEF StartCut, appendFailed
    <3> HIDE DEF new
    <3>3. \A i \in Inputs : i = batch.root => journal[i] = "root"
      BY <2>3, InputsAreNat DEF Confirmable
    <3>4. \A i \in Inputs : i > accepted => new[i] = "absent"
      BY <3>1, <3>3 DEF RecordInv, Numbered
    <3>5. \A i \in exposed : new[i] = "delivered"
      BY <3>1, <3>3 DEF RecordInv, ExposedDelivered
    <3>6. \A i \in Inputs : new[i] \in {"restored", "discarded"} => i \in withdrawn
      BY <3>1 DEF RecordInv, WithdrawnRecorded
    <3>7. /\ \A i \in Inputs : journal[i] # "absent" => new[i] # "absent"
          /\ \A i \in Inputs : new[i] = "cut" => journal[i] \in {"root", "cut"}
      BY <3>1, <3>3
    <3> QED BY <1>l, <3>2, <3>4, <3>5, <3>6, <3>7, NotWritten
  <2> QED BY <1>l, <2>1, <2>2, <2>3 DEF LoseDelivery, DeliveryFails
<1>k. ASSUME journal' = journal, disk' \in {disk, journal}, UNCHANGED <<exposed, accepted, withdrawn>>
      PROVE  RecordInv'
  BY <1>k, RecordStays
<1>1. CASE TurnStarted
  BY <1>1, <1>c DEF TurnStarted
<1>2. CASE TurnStartFails
  BY <1>2, <1>l DEF TurnStartFails
<1>3. CASE LoopTop
  BY <1>3, <1>k DEF LoopTop, leaveLoop, goTo, Inject
<1>4. CASE Injected
  BY <1>4, <1>c DEF Injected
<1>5. CASE InjectFails
  BY <1>5, <1>l DEF InjectFails
<1>6. ASSUME NEW tools \in BOOLEAN, StepCommitted(tools) PROVE RecordInv'
  BY <1>6, <1>k DEF StepCommitted, appended
<1>7. ASSUME NEW reason, StepEndsTurn(reason) PROVE RecordInv'
  BY <1>7, <1>k DEF StepEndsTurn, appended
<1>8. CASE StepInterrupted
  BY <1>8, <1>k DEF StepInterrupted
<1>9. CASE StepThrows
  BY <1>9, <1>k DEF StepThrows
<1>10. CASE Boundary
  BY <1>10, <1>k DEF Boundary, leaveLoop, goTo, Inject
<1>11. CASE Settle
  BY <1>11, <1>k DEF Settle, leaveLoop, goTo
<1>12. CASE TurnEnds
  <2>1. journal' = journal /\ disk' \in {disk, journal}
    BY <1>12 DEF TurnEnds, appended, appendFailed
  <2>2. UNCHANGED <<exposed, accepted, withdrawn>>
    <3>1. PICK reason, rest, persisted : turnEnded(reason, rest, persisted)
      BY <1>12, EndOfTurn
    <3> QED BY <3>1 DEF turnEnded
  <2> QED BY <1>k, <2>1, <2>2
<1>13. CASE UsageMeasured
  BY <1>13, <1>k DEF UsageMeasured
<1> QED
  BY <1>1, <1>2, <1>3, <1>4, <1>5, <1>6, <1>7, <1>8, <1>9, <1>10, <1>11, <1>12, <1>13
     DEF LoopNext

(* The end of a user command keeps the records.                            *)
LEMMA CommandRecord ==
  ASSUME Base, HoldInv, RecordInv, CommandWrites
  PROVE  RecordInv'
<1> USE DEF queueVars, loopVars, histVars, hostVars, journalVars
<1>0. /\ TypeOK /\ journal \in [Inputs -> InputStates] /\ op.drops \subseteq Inputs
      /\ op.kind # "none" => op.id \in Inputs
  BY DEF Base, Control, TypeOK, OpInv
<1>1. ASSUME op.kind = "message"
      PROVE  /\ \A i \in Inputs : i > accepted => RecordedMessage[i] = "absent"
             /\ exposed = {i \in Inputs : RecordedMessage[i] = "delivered"}
             /\ \A i \in Inputs : RecordedMessage[i] \in {"restored", "discarded"}
                                    => i \in withdrawn
             /\ op.drops \subseteq withdrawn
             /\ \A i \in Inputs : journal[i] # "absent" => RecordedMessage[i] # "absent"
             /\ \A i \in Inputs : RecordedMessage[i] = "cut" => journal[i] \in {"root", "cut"}
  <2>1. /\ op.id \in Inputs /\ op.id = accepted /\ journal[op.id] = "absent"
        /\ \A i \in op.drops : journal[i] = "restored"
    BY <1>0, <1>1 DEF HoldInv, MessageNew
  <2>2. /\ RecordedMessage[op.id] \in {"root", "queued"}
        /\ \A i \in Inputs \ {op.id} :
             RecordedMessage[i] = IF i \in op.drops THEN "discarded" ELSE journal[i]
    BY <1>0, <2>1 DEF RecordedMessage, Marked
  <2>3. \A i \in Inputs : i > accepted => i # op.id /\ journal[i] = "absent"
    BY <1>0, <2>1, InputsAreNat DEF RecordInv, Numbered
  <2>4. \A i \in Inputs : i > accepted => RecordedMessage[i] = "absent"
    BY <2>1, <2>2, <2>3
  <2>5. exposed = {i \in Inputs : RecordedMessage[i] = "delivered"}
    BY <2>1, <2>2 DEF RecordInv, ExposedDelivered
  <2>6. op.drops \subseteq withdrawn
    BY <1>0, <2>1 DEF RecordInv, WithdrawnRecorded
  <2>7. \A i \in Inputs : RecordedMessage[i] \in {"restored", "discarded"} => i \in withdrawn
    BY <2>1, <2>2, <2>6 DEF RecordInv, WithdrawnRecorded
  <2>8. /\ \A i \in Inputs : journal[i] # "absent" => RecordedMessage[i] # "absent"
        /\ \A i \in Inputs : RecordedMessage[i] = "cut" => journal[i] \in {"root", "cut"}
    BY <2>1, <2>2
  <2> QED BY <2>4, <2>5, <2>6, <2>7, <2>8
<1>2. ASSUME op.kind \in {"discard", "edit"}, \A i \in op.drops : journal[i] = "restored"
      PROVE  /\ \A i \in Inputs : i > accepted => TakenBack[i] = "absent"
             /\ exposed = {i \in Inputs : TakenBack[i] = "delivered"}
             /\ \A i \in Inputs : TakenBack[i] \in {"restored", "discarded"}
                                    => i \in withdrawn \cup {op.id}
             /\ op.drops \subseteq withdrawn
             /\ \A i \in Inputs : journal[i] # "absent" => TakenBack[i] # "absent"
             /\ \A i \in Inputs : TakenBack[i] = "cut" => journal[i] \in {"root", "cut"}
  <2>1. op.id \in Inputs /\ journal[op.id] = "queued"
    BY <1>0, <1>2 DEF HoldInv, TakenQueued, TakenIds
  <2>2. /\ TakenBack[op.id] \in {"restored", "discarded"}
        /\ \A i \in Inputs \ {op.id} :
             TakenBack[i] = IF i \in op.drops THEN "discarded" ELSE journal[i]
    BY <1>0, <2>1 DEF TakenBack, Marked
  <2>3. \A i \in Inputs : i > accepted => i # op.id /\ journal[i] = "absent"
    BY <2>1 DEF RecordInv, Numbered
  <2>4. \A i \in Inputs : i > accepted => TakenBack[i] = "absent"
    BY <1>2, <2>2, <2>3
  <2>5. exposed = {i \in Inputs : TakenBack[i] = "delivered"}
    BY <1>2, <2>1, <2>2 DEF RecordInv, ExposedDelivered
  <2>6. op.drops \subseteq withdrawn
    BY <1>0, <1>2 DEF RecordInv, WithdrawnRecorded
  <2>7. \A i \in Inputs : TakenBack[i] \in {"restored", "discarded"} => i \in withdrawn \cup {op.id}
    BY <2>1, <2>2, <2>6 DEF RecordInv, WithdrawnRecorded
  <2>8. /\ \A i \in Inputs : journal[i] # "absent" => TakenBack[i] # "absent"
        /\ \A i \in Inputs : TakenBack[i] = "cut" => journal[i] \in {"root", "cut"}
    BY <2>1, <2>2
  <2> QED BY <2>4, <2>5, <2>6, <2>7, <2>8
<1>3. CASE MessageRecorded
  <2>1. /\ op.kind = "message" /\ appended(RecordedMessage) /\ withdrawn' = withdrawn \cup op.drops
        /\ UNCHANGED <<accepted, exposed>>
    BY <1>3 DEF MessageRecorded
  <2> QED BY <1>1, <2>1, Written
<1>4. CASE MessageRejected
  <2>1. /\ op.kind = "message" /\ appendFailed(RecordedMessage)
        /\ UNCHANGED <<accepted, exposed, withdrawn>>
    BY <1>4 DEF MessageRejected
  <2>2. \A i \in exposed : RecordedMessage[i] = "delivered"
    BY <1>1, <2>1
  <2> QED BY <1>1, <2>1, <2>2, NotWritten
<1>5. CASE TakeBackRecorded
  <2>1. /\ op.kind \in {"discard", "edit"} /\ \A i \in op.drops : journal[i] = "restored"
        /\ appended(TakenBack) /\ withdrawn' = withdrawn \cup op.drops \cup {op.id}
        /\ UNCHANGED <<accepted, exposed>>
    BY <1>5 DEF TakeBackRecorded, PendingInputs
  <2> QED BY <1>2, <2>1, Written
<1>6. CASE TakeBackConflict
  BY <1>6, RecordStays DEF TakeBackConflict
<1>7. CASE TakeBackFailed
  <2>1. /\ op.kind \in {"discard", "edit"} /\ \A i \in op.drops : journal[i] = "restored"
        /\ withdrawn' = withdrawn \cup {op.id} /\ UNCHANGED <<accepted, exposed>>
        /\ appendFailed(TakenBack) \/ UNCHANGED journalVars
    BY <1>7 DEF TakeBackFailed, PendingInputs
  <2>2. CASE appendFailed(TakenBack)
    <3>1. \A i \in exposed : TakenBack[i] = "delivered"
      BY <1>2, <2>1
    <3> QED BY <1>2, <2>1, <2>2, <3>1, NotWritten
  <2>3. CASE UNCHANGED journalVars
    BY <2>1, <2>3, RecordStays
  <2> QED BY <2>1, <2>2, <2>3
<1> QED BY <1>3, <1>4, <1>5, <1>6, <1>7 DEF CommandWrites

(* A step of a compaction or a rollback keeps the records.                 *)
LEMMA MaintRecord ==
  ASSUME RecordInv, MaintNext
  PROVE  RecordInv'
<1> USE DEF hostVars, journalVars
<1>1. CASE CompactSave
  BY <1>1, RecordStays DEF CompactSave, histVars
<1>2. CASE CompactFails
  BY <1>2, RecordStays DEF CompactFails, compactEnds
<1>3. CASE CompactWritten
  BY <1>3, RecordStays DEF CompactWritten, compactEnds, appended, appendFailed
<1>4. CASE RestoreEnds
  BY <1>4, RecordStays DEF RestoreEnds
<1> QED BY <1>1, <1>2, <1>3, <1>4 DEF MaintNext

(* What the user and the host start keeps the records.                     *)
LEMMA HostRecord ==
  ASSUME TypeOK, RecordInv, HostNext
  PROVE  RecordInv'
<1> USE DEF hostVars, journalVars, histVars
<1>1. ASSUME NEW urg \in BOOLEAN, NEW drops \in SUBSET Inputs, SendMessage(urg, drops)
      PROVE  RecordInv'
  <2>1. accepted' = accepted + 1 /\ UNCHANGED <<journal, disk, exposed, withdrawn>> /\ accepted \in Nat
    BY <1>1 DEF SendMessage, TypeOK
  <2>2. \A i \in Inputs : i > accepted' => i > accepted
    BY <2>1, InputsAreNat
  <2> QED BY <2>1, <2>2, RecordStays
<1>k. ASSUME UNCHANGED <<journal, disk, exposed, withdrawn, accepted>> PROVE RecordInv'
  BY <1>k, RecordStays
<1>2. ASSUME NEW kind, NEW id, NEW drops, takeQueuedMessage(kind, id, drops)
      PROVE  RecordInv'
  BY <1>2, <1>k DEF takeQueuedMessage
<1>3. ASSUME NEW id \in Inputs, SendNow(id) PROVE RecordInv'
  BY <1>3, <1>k DEF SendNow
<1>4. CASE Abort
  BY <1>4, <1>k DEF Abort
<1>5. ASSUME NEW n \in Notes, Notify(n) PROVE RecordInv'
  BY <1>5, <1>k DEF Notify
<1>6. CASE StartCompact
  BY <1>6, <1>k DEF StartCompact
<1>7. CASE StartRestore
  BY <1>7, <1>k DEF StartRestore
<1> QED
  BY <1>1, <1>2, <1>3, <1>4, <1>5, <1>6, <1>7 DEF HostNext, Discard, Edit

(* A restart delivers the root input of the turn that was cut.             *)
LEMMA RestartRecord ==
  ASSUME TypeOK, RecordInv, Restart
  PROVE  RecordInv'
<1> DEFINE now == Recovered(disk)
<1>1. /\ appended(now) /\ exposed' = exposed \cup {i \in Inputs : now[i] = "delivered"}
      /\ UNCHANGED <<accepted, withdrawn>>
  BY DEF Restart
<1>2. \A i \in Inputs : now[i] = IF disk[i] = "root" THEN "delivered" ELSE disk[i]
  BY DEF Recovered
<1> HIDE DEF now
<1>3. \A i \in Inputs : i > accepted' => now[i] = "absent"
  BY <1>1, <1>2 DEF RecordInv, Numbered
<1>4. exposed' = {i \in Inputs : now[i] = "delivered"}
  BY <1>1, <1>2 DEF RecordInv, ExposedDelivered
<1>5. \A i \in Inputs : now[i] \in {"restored", "discarded"} => i \in withdrawn'
  BY <1>1, <1>2 DEF RecordInv, WithdrawnRecorded
<1> QED BY <1>1, <1>3, <1>4, <1>5, Written

(* Every step keeps the records.                                           *)
LEMMA RecordStep ==
  ASSUME Base, HoldInv, RecordInv, [Next]_vars
  PROVE  RecordInv'
<1>0. TypeOK
  BY DEF Base, Control
<1>1. CASE UNCHANGED vars
  BY <1>1, RecordStays DEF vars
<1> QED
  BY <1>0, <1>1, LoopRecord, CommandRecord, MaintRecord, HostRecord, RestartRecord DEF Next
-----------------------------------------------------------------------------

(* The inductive invariant.                                                *)
IInv == Control /\ OpInv /\ HoldInv /\ RecordInv

(* A new session has the invariant.                                        *)
LEMMA InitInv == Init => IInv
<1> SUFFICES ASSUME Init PROVE IInv
  OBVIOUS
<1>0. IsInjective(<<>>) /\ Range(<<>>) = {}
  BY DEF IsInjective, Range
<1>n. /\ NoBatch \in [ins : Seq(Inputs), root : Inputs \cup {NoInput},
                      notes : SUBSET Notes, back : {"loop", "step"}]
      /\ NoOp \in [kind : {"none", "message", "discard", "edit"},
                   id : Inputs \cup {NoInput}, starts : BOOLEAN, urgent : BOOLEAN,
                   index : Nat, drops : SUBSET Inputs]
      /\ NoOp.kind = "none"
  BY DEF NoBatch, NoOp
<1>1. TypeOK
  <2>1. journal \in [Inputs -> InputStates] /\ disk \in [Inputs -> InputStates]
    BY DEF Init, InputStates
  <2>2. accepted \in 0..MaxInputs
    BY InputsAssumption DEF Init
  <2>3. /\ writes \in Seq({"loop", "op", "maint"}) /\ IsInjective(writes) /\ queue \in Seq(Inputs)
        /\ urgent \in SUBSET Inputs /\ notes \in SUBSET Notes /\ unsent \in SUBSET Notes
        /\ exposed \in SUBSET Inputs /\ withdrawn \in SUBSET Inputs
    BY <1>0 DEF Init
  <2>4. {autoDrain, asking, failed, abortFin, consent, answered} \subseteq BOOLEAN
    BY DEF Init
  <2>5. /\ pc \in PCs /\ abortCtl \in {"none", "live", "aborted"} /\ stop \in StopReasons
        /\ maint \in {"none", "compact", "compactSave", "restore"}
    BY DEF Init, PCs, StopReasons
  <2>6. batch = NoBatch /\ op = NoOp
    BY DEF Init
  <2> QED BY <1>n, <2>1, <2>2, <2>3, <2>4, <2>5, <2>6 DEF TypeOK
<1>2. WritesInv /\ LoopInv /\ OpInv
  BY <1>0, <1>n DEF Init, WritesInv, LoopInv, OpInv
<1>3. TakenIds = {} /\ HeldIds = {}
  BY <1>0, <1>n, NoBatchHolds DEF Init, TakenIds, HeldIds
<1>4. HoldInv
  BY <1>0, <1>n, <1>3, NoBatchHolds
     DEF Init, HoldInv, Apart, QueuedHeld, TakenQueued, RootHeld, MessageNew
<1>5. RecordInv
  <2>1. \A i \in Inputs : journal[i] = "absent" /\ disk[i] = "absent"
    BY DEF Init
  <2> QED BY <2>1 DEF Init, RecordInv, Numbered, ExposedDelivered, WithdrawnRecorded, OnDisk, CutIsRoot
<1> QED BY <1>1, <1>2, <1>4, <1>5 DEF IInv, Control

(* Every step keeps it.                                                    *)
LEMMA InvStep == IInv /\ [Next]_vars => IInv'
<1> SUFFICES ASSUME IInv, [Next]_vars PROVE IInv'
  OBVIOUS
<1>1. Base /\ HoldInv /\ RecordInv /\ Numbered
  BY DEF IInv, Base, RecordInv
<1> QED BY <1>1, BaseStep, HoldStep, RecordStep DEF IInv, Base

(* The inductive invariant holds throughout.  TypeOK and OneHolder are not *)
(* inductive by themselves: that an input is held once needs the writes in *)
(* flight to belong to somebody, and that it is delivered once needs the   *)
(* journal states of everything held.                                      *)
THEOREM Invariant == Spec => []IInv
<1> QED BY InitInv, InvStep, PTL DEF Spec

(* The session's state has its types; the journal has at most one write in *)
(* flight for the loop, for the user's command and for a maintenance.      *)
THEOREM TypeCorrect == Spec => []TypeOK
<1>1. IInv => TypeOK
  BY DEF IInv, Control
<1> QED BY <1>1, Invariant, PTL

(* What became part of the model's messages is in no queue and in no write *)
(* in flight, and neither the journal in memory nor the one a restart loads*)
(* counts it as pending (recordTurnStart and the injecting recordStep).    *)
THEOREM NeverRedelivered == Spec => []NoRedelivery
<1>1. IInv => NoRedelivery
  <2> SUFFICES ASSUME IInv, NEW i \in exposed
               PROVE  Holder(i) = {} /\ i # batch.root /\ journal[i] = "delivered" /\ disk[i] = "delivered"
    BY DEF NoRedelivery
  <2>1. i \in Inputs /\ journal[i] = "delivered" /\ disk[i] = "delivered"
    BY DEF IInv, RecordInv, ExposedDelivered
  <2>2. i \notin HeldIds
    BY <2>1 DEF IInv, HoldInv, QueuedHeld
  <2>3. i # batch.root
    BY <2>1, InputsAreNat DEF IInv, HoldInv, RootHeld
  <2>4. Holder(i) = {}
    BY <2>2 DEF Holder, HeldIds, TakenIds
  <2> QED BY <2>1, <2>3, <2>4
<1> QED BY <1>1, Invariant, PTL

(* An accepted input that neither the model nor the user has taken is on   *)
(* disk at every moment, whatever write failed (receiveUserInput runs only *)
(* once its record is written; recoverInterruptedWork keeps what it finds).*)
(* Only the root of a turn whose start was cut between the two lines of    *)
(* recordTurnStart is not; a queued input never is that one.               *)
THEOREM NeverLost == Spec => []NothingLost
<1>1. IInv => NothingLost
  <2> SUFFICES ASSUME IInv, NEW i \in Inputs, journal[i] # "absent", i \notin exposed \cup withdrawn
               PROVE  \/ disk[i] \in {"root", "queued", "delivered"}
                      \/ disk[i] = "cut" /\ journal[i] \in {"root", "cut"}
    BY DEF NothingLost
  <2>1. disk[i] \in InputStates /\ disk[i] # "absent"
    BY DEF IInv, Control, TypeOK, RecordInv, OnDisk
  <2>2. disk[i] \notin {"restored", "discarded"}
    BY DEF IInv, RecordInv, WithdrawnRecorded
  <2>3. disk[i] = "cut" => journal[i] \in {"root", "cut"}
    BY DEF IInv, RecordInv, CutIsRoot
  <2> QED BY <2>1, <2>2, <2>3 DEF InputStates
<1> QED BY <1>1, Invariant, PTL

(* A queued input is in the queue, in the write that delivers it or with   *)
(* the command that takes it back, and in one of them only: no await of    *)
(* runLoop, discardQueuedMessage or restoreQueuedMessage lets two of them  *)
(* have it.                                                                *)
THEOREM OneHolderEach == Spec => []OneHolder
<1>1. IInv => OneHolder
  <2> SUFFICES ASSUME IInv PROVE OneHolder
    OBVIOUS
  <2>1. ASSUME NEW i \in Inputs, journal[i] = "queued"
        PROVE  Cardinality(Holder(i)) = 1
    <3>1. i \in HeldIds
      BY <2>1 DEF IInv, HoldInv, QueuedHeld
    <3>2. /\ ~(i \in Range(queue) /\ i \in Range(batch.ins))
          /\ ~(i \in Range(queue) /\ i \in TakenIds)
          /\ ~(i \in Range(batch.ins) /\ i \in TakenIds)
      BY DEF IInv, HoldInv, Apart
    <3>3. i \in TakenIds <=> op.kind \in {"discard", "edit"} /\ op.id = i
      BY DEF TakenIds
    <3>4. \E h : Holder(i) = {h}
      <4>1. CASE i \in Range(queue)
        <5>1. Holder(i) = {"queue"}
          BY <3>2, <3>3, <4>1 DEF Holder
        <5> QED BY <5>1
      <4>2. CASE i \in Range(batch.ins)
        <5>1. Holder(i) = {"batch"}
          BY <3>2, <3>3, <4>2 DEF Holder
        <5> QED BY <5>1
      <4>3. CASE i \in TakenIds
        <5>1. Holder(i) = {"op"}
          BY <3>2, <3>3, <4>3 DEF Holder
        <5> QED BY <5>1
      <4> QED BY <3>1, <4>1, <4>2, <4>3 DEF HeldIds
    <3> QED BY <3>4, FS_Singleton
  <2> QED BY <2>1 DEF OneHolder, IInv, HoldInv, Apart
<1> QED BY <1>1, Invariant, PTL

(* A waiting input is handed to a new turn only after the user sent        *)
(* something since the last stop: startPendingTurn takes it only with      *)
(* queueAutoDrain set, which pauseQueuedInputs clears.                     *)
THEOREM DrainsWithConsent == Spec => DrainNeedsConsent
<1> DEFINE A == pc # "start" /\ pc' = "start" /\ Range(batch'.ins) \cap Range(queue) # {} => consent'
<1>1. IInv /\ [Next]_vars => A
  <2> SUFFICES ASSUME IInv, [Next]_vars, pc # "start", pc' = "start",
                      Range(batch'.ins) \cap Range(queue) # {}
               PROVE  consent'
    OBVIOUS
  <2> USE DEF loopElse, queueVars, loopVars, histVars, hostVars, journalVars
  <2>0. /\ Control /\ TypeOK /\ Writes(writes) /\ queue \in Seq(Inputs)
        /\ pc \notin {"start", "inject", "end"} => "loop" \notin Range(writes)
        /\ maint # "none" => pc = "idle"
        /\ urgent \in SUBSET Inputs /\ autoDrain \in BOOLEAN
    BY DEF IInv, Control, TypeOK, WritesInv, LoopInv, Writes, Owners
  <2>1. autoDrain' => consent'
    BY BaseStep DEF IInv, Control, LoopInv
  <2>2. Range(<<>>) = {}
    BY DEF Range
  \* A pending turn that takes an input leaves automatic continuation on.
  <2>p. ASSUME NEW urg \in SUBSET Inputs, NEW drain \in BOOLEAN, NEW rest,
               startPendingTurn(urg, drain, rest), Writes(rest), "loop" \notin Range(rest)
        PROVE  consent'
    <3>1. autoDrain' = drain
      BY <2>0, <2>p, PendingTurn
    <3>2. drain
      <4>1. \E ins : /\ batch' = [ins |-> ins, root |-> NoInput, notes |-> notes, back |-> "loop"]
                     /\ ins = <<>> \/ drain
        BY <2>0, <2>p, PendingTurn
      <4> QED BY <2>2, <4>1
    <3> QED BY <2>1, <3>1, <3>2
  <2>3. CASE LoopNext
    <3>1. TurnEnds
      BY <2>3 DEF LoopNext, TurnStarted, TurnStartFails, LoopTop, leaveLoop, finishLoop, Inject, goTo,
           Injected, InjectFails, StepCommitted, StepEndsTurn, StepInterrupted, StepThrows, Boundary,
           Settle, UsageMeasured, goIdle, IInv, Control, TypeOK
    <3>2. PICK reason, rest, persisted :
            /\ turnEnded(reason, rest, persisted)
            /\ \/ writing("loop") /\ rest = Tail(writes)
               \/ notWriting("loop") /\ rest = writes
      BY <3>1, EndOfTurn
    <3>3. Writes(rest) /\ "loop" \notin Range(rest)
      <4>1. CASE writing("loop") /\ rest = Tail(writes)
        BY <2>0, <4>1, Settled
      <4>2. CASE notWriting("loop") /\ rest = writes
        BY <2>0, <4>2 DEF notWriting
      <4> QED BY <3>2, <4>1, <4>2
    <3>4. startPendingTurn(urgent, autoDrain, rest)
      BY <3>2 DEF turnEnded, goIdle
    <3> QED BY <2>0, <2>p, <3>3, <3>4
  <2>4. CASE CommandWrites
    <3>1. MessageRecorded
      BY <2>4 DEF CommandWrites, MessageRejected, TakeBackRecorded, TakeBackConflict, TakeBackFailed
    <3> QED BY <3>1 DEF MessageRecorded
  <2>5. CASE MaintNext
    <3>e. ASSUME NEW completed, NEW rest, compactEnds(completed, rest), Writes(rest),
                 "loop" \notin Range(rest)
          PROVE  consent'
      BY <2>0, <2>p, <3>e DEF compactEnds
    <3>1. CASE CompactSave
      BY <3>1 DEF CompactSave
    <3>2. CASE CompactFails
      BY <2>0, <3>e, <3>2 DEF CompactFails
    <3>3. CASE CompactWritten
      <4>1. maint # "none" /\ writing("maint") /\ \E completed : compactEnds(completed, Tail(writes))
        BY <3>3 DEF CompactWritten
      <4>2. Writes(Tail(writes)) /\ "loop" \notin Range(Tail(writes))
        BY <2>0, <4>1, Settled
      <4> QED BY <3>e, <4>1, <4>2
    <3>4. CASE RestoreEnds
      BY <2>0, <2>p, <3>4 DEF RestoreEnds
    <3> QED BY <2>5, <3>1, <3>2, <3>3, <3>4 DEF MaintNext
  <2>6. CASE HostNext
    <3>1. CASE \E urg \in BOOLEAN, drops \in SUBSET Inputs : SendMessage(urg, drops)
      BY <3>1 DEF SendMessage
    <3>2. CASE \E kind, id, drops : takeQueuedMessage(kind, id, drops)
      BY <3>2 DEF takeQueuedMessage
    <3>3. ASSUME NEW id \in Inputs, SendNow(id) PROVE consent'
      BY <3>3 DEF SendNow
    <3>4. CASE Abort \/ StartCompact \/ StartRestore
      BY <3>4 DEF Abort, StartCompact, StartRestore
    <3>5. ASSUME NEW n \in Notes, Notify(n) PROVE consent'
      BY <2>2, <3>5 DEF Notify, startTurn
    <3> QED BY <2>6, <3>1, <3>2, <3>3, <3>4, <3>5 DEF HostNext, Discard, Edit
  <2>7. CASE Restart
    BY <2>7 DEF Restart
  <2>8. CASE UNCHANGED vars
    BY <2>8 DEF vars
  <2> QED BY <2>3, <2>4, <2>5, <2>6, <2>7, <2>8 DEF Next
<1> QED BY <1>1, Invariant, PTL DEF Spec, DrainNeedsConsent

(* Taking an input out keeps the order of the others.                      *)
LEMMA RemoveOrder ==
  ASSUME NEW q \in Seq(Inputs), NEW k \in DOMAIN q, InOrder(q)
  PROVE  InOrder(RemoveAt(q, k))
<1> DEFINE r == RemoveAt(q, k)
<1>1. /\ DOMAIN q = 1..Len(q) /\ Len(q) \in Nat /\ k \in 1..Len(q)
      /\ r \in Seq(Inputs) /\ Len(r) = Len(q) - 1
      /\ \A j \in 1..(Len(q) - 1) : r[j] = IF j < k THEN q[j] ELSE q[j + 1]
  BY RemoveAtHolds
<1> HIDE DEF r
<1>2. DOMAIN r = 1..(Len(q) - 1)
  BY <1>1
<1> SUFFICES ASSUME NEW i \in 1..(Len(q) - 1), NEW j \in 1..(Len(q) - 1), i < j PROVE r[i] < r[j]
  BY <1>2 DEF InOrder, r
<1> DEFINE at(m) == IF m < k THEN m ELSE m + 1
<1>3. at(i) \in DOMAIN q /\ at(j) \in DOMAIN q /\ at(i) < at(j)
  BY <1>1
<1>4. r[i] = q[at(i)] /\ r[j] = q[at(j)]
  BY <1>1
<1> HIDE DEF at
<1> QED BY <1>3, <1>4 DEF InOrder

(* A pending turn takes its input out of the queue.                        *)
LEMMA PendingOrder ==
  ASSUME TypeOK, InOrder(queue), NEW urg \in SUBSET Inputs, NEW drain \in BOOLEAN, NEW rest,
         startPendingTurn(urg, drain, rest), Writes(rest), "loop" \notin Range(rest)
  PROVE  InOrder(queue')
<1>1. queue' = queue \/ \E k \in DOMAIN queue : queue' = RemoveAt(queue, k)
  BY PendingTurn
<1> QED BY <1>1, RemoveOrder DEF TypeOK

(* The queue stays in the order of acceptance: queueInput appends the      *)
(* newest input, the routing gate hands over one message at a time,        *)
(* injection and a new turn take inputs out, and a restart reads them back *)
(* in order.                                                               *)
THEOREM OrderIsKept == Spec => OrderKept
<1> DEFINE A == InOrder(queue) /\ ~failed' /\ ~PutBack(queue') => InOrder(queue')
<1>1. IInv /\ [Next]_vars => A
  <2> SUFFICES ASSUME IInv, [Next]_vars, InOrder(queue), ~failed', ~PutBack(queue'), queue' # queue
               PROVE  InOrder(queue')
    OBVIOUS
  <2> USE DEF loopElse, queueVars, loopVars, histVars, hostVars, journalVars
  <2>0. /\ Control /\ TypeOK /\ Writes(writes) /\ queue \in Seq(Inputs)
        /\ pc \notin {"start", "inject", "end"} => "loop" \notin Range(writes)
        /\ maint # "none" => pc = "idle"
        /\ urgent \in SUBSET Inputs /\ autoDrain \in BOOLEAN
    BY DEF IInv, Control, TypeOK, WritesInv, LoopInv, Writes, Owners
  <2>p. ASSUME NEW rest, startPendingTurn(urgent, autoDrain, rest), Writes(rest), "loop" \notin Range(rest)
        PROVE  InOrder(queue')
    BY <2>0, <2>p, PendingOrder
  <2>i. ASSUME NEW back, Inject(back) PROVE InOrder(queue')
    <3>1. queue' = Chosen(queue, Inputs \ urgent)
      BY <2>i DEF Inject
    <3> QED BY <2>0, <3>1, InputsAreNat, ChosenIs
  <2>3. CASE LoopNext
    <3>1. (\E back : Inject(back)) \/ TurnEnds
      BY <2>3 DEF LoopNext, TurnStarted, TurnStartFails, LoseDelivery, LoopTop, leaveLoop, goTo,
           Injected, InjectFails, StepCommitted, StepEndsTurn, StepInterrupted, StepThrows, Boundary,
           Settle, UsageMeasured, goIdle
    <3>2. CASE TurnEnds
      <4>1. PICK reason, rest, persisted :
              /\ turnEnded(reason, rest, persisted)
              /\ \/ writing("loop") /\ rest = Tail(writes)
                 \/ notWriting("loop") /\ rest = writes
        BY <3>2, EndOfTurn
      <4>2. Writes(rest) /\ "loop" \notin Range(rest)
        <5>1. CASE writing("loop") /\ rest = Tail(writes)
          BY <2>0, <5>1, Settled
        <5>2. CASE notWriting("loop") /\ rest = writes
          BY <2>0, <5>2 DEF notWriting
        <5> QED BY <4>1, <5>1, <5>2
      <4>3. startPendingTurn(urgent, autoDrain, rest)
        BY <4>1 DEF turnEnded, goIdle
      <4> QED BY <2>p, <4>2, <4>3
    <3> QED BY <2>i, <3>1, <3>2
  <2>4. CASE CommandWrites
    <3>b. ASSUME op.kind \in {"discard", "edit"}, putQueuedMessageBack PROVE FALSE
      <4>1. op.id \in Inputs /\ op.index \in Nat /\ op.index > 0
        BY <2>0, <3>b DEF IInv, OpInv, TypeOK
      <4> DEFINE at == IF op.index <= Len(queue) THEN op.index ELSE Len(queue) + 1
      <4>2. at \in 1..(Len(queue) + 1)
        BY <2>0, <4>1
      <4>3. queue' = InsertAt(queue, at, op.id)
        BY <3>b DEF putQueuedMessageBack
      <4> HIDE DEF at
      <4>4. op.id \in Range(queue')
        BY <2>0, <4>1, <4>2, <4>3, InsertAtHolds
      <4> QED BY <3>b, <4>4 DEF PutBack
    <3>1. MessageRecorded
      <4>1. ~TakeBackConflict /\ ~TakeBackFailed
        BY <3>b DEF TakeBackConflict, TakeBackFailed
      <4> QED BY <2>4, <4>1 DEF CommandWrites, MessageRejected, TakeBackRecorded
    <3>2. queue' = Append(queue, op.id) /\ op.kind = "message" /\ op.id \in Inputs
      BY <3>1 DEF MessageRecorded, queueInput, startTurn, IInv, OpInv
    <3>3. op.id = accepted /\ op.id \notin HeldIds
      BY <3>2 DEF IInv, HoldInv, MessageNew, QueuedHeld
    <3>4. \A i \in Range(queue) : i \in Inputs /\ i <= accepted /\ i # op.id
      <4> SUFFICES ASSUME NEW i \in Range(queue) PROVE i \in Inputs /\ i <= accepted /\ i # op.id
        OBVIOUS
      <4>1. i \in Inputs
        BY <2>0 DEF Range
      <4>2. i \in HeldIds
        BY DEF HeldIds
      <4>3. journal[i] # "absent"
        BY <4>1, <4>2 DEF IInv, HoldInv, QueuedHeld
      <4>4. ~(i > accepted)
        BY <4>1, <4>3 DEF IInv, RecordInv, Numbered
      <4>5. i \in Nat /\ accepted \in Nat
        BY <2>0, <4>1, InputsAreNat DEF TypeOK
      <4> QED BY <3>3, <4>1, <4>2, <4>4, <4>5
    <3>5. /\ DOMAIN queue = 1..Len(queue) /\ Len(queue) \in Nat /\ DOMAIN queue' = 1..(Len(queue) + 1)
          /\ \A j \in 1..Len(queue) : queue'[j] = queue[j] /\ queue[j] \in Range(queue)
          /\ queue'[Len(queue) + 1] = op.id
      BY <2>0, <3>2 DEF Range
    <3> SUFFICES ASSUME NEW i \in DOMAIN queue', NEW j \in DOMAIN queue', i < j
                 PROVE  queue'[i] < queue'[j]
      BY DEF InOrder
    <3>6. i \in 1..Len(queue)
      BY <3>5
    <3>7. CASE j = Len(queue) + 1
      <4>1. queue[i] \in Nat /\ accepted \in Nat /\ queue[i] <= accepted /\ queue[i] # accepted
        <5>1. queue[i] \in Inputs /\ queue[i] <= accepted /\ queue[i] # accepted
          BY <3>3, <3>4, <3>5, <3>6
        <5>2. accepted \in Nat
          BY <2>0 DEF TypeOK
        <5> QED BY <5>1, <5>2, InputsAreNat
      <4>2. queue'[i] = queue[i] /\ queue'[j] = accepted
        BY <3>3, <3>5, <3>6, <3>7
      <4> QED BY <4>1, <4>2
    <3>8. CASE j # Len(queue) + 1
      <4>1. j \in 1..Len(queue)
        BY <3>5, <3>8
      <4> QED BY <3>5, <3>6, <4>1 DEF InOrder
    <3> QED BY <3>7, <3>8
  <2>5. CASE MaintNext
    <3>e. ASSUME NEW completed, NEW rest, compactEnds(completed, rest), Writes(rest),
                 "loop" \notin Range(rest)
          PROVE  InOrder(queue')
      BY <2>p, <3>e DEF compactEnds
    <3>1. CASE CompactSave
      BY <3>1 DEF CompactSave
    <3>2. CASE CompactFails
      BY <2>0, <3>e, <3>2 DEF CompactFails
    <3>3. CASE CompactWritten
      <4>1. maint # "none" /\ writing("maint") /\ \E completed : compactEnds(completed, Tail(writes))
        BY <3>3 DEF CompactWritten
      <4>2. Writes(Tail(writes)) /\ "loop" \notin Range(Tail(writes))
        BY <2>0, <4>1, Settled
      <4> QED BY <3>e, <4>1, <4>2
    <3>4. CASE RestoreEnds
      BY <2>0, <2>p, <3>4 DEF RestoreEnds
    <3> QED BY <2>5, <3>1, <3>2, <3>3, <3>4 DEF MaintNext
  <2>6. CASE HostNext
    <3>1. CASE \E urg \in BOOLEAN, drops \in SUBSET Inputs : SendMessage(urg, drops)
      BY <3>1 DEF SendMessage
    <3>2. ASSUME NEW kind, NEW id, NEW drops, takeQueuedMessage(kind, id, drops) PROVE InOrder(queue')
      BY <2>0, <3>2, RemoveOrder DEF takeQueuedMessage
    <3>3. ASSUME NEW id \in Inputs, SendNow(id) PROVE InOrder(queue')
      <4>1. ~isBusy /\ startPendingTurn(urgent \cup {id}, TRUE, writes)
        BY <3>3 DEF SendNow
      <4>2. urgent \cup {id} \in SUBSET Inputs /\ "loop" \notin Range(writes)
        BY <2>0, <4>1 DEF isBusy, isRunning
      <4> QED BY <2>0, <4>1, <4>2, PendingOrder
    <3>4. CASE Abort \/ StartCompact \/ StartRestore
      BY <3>4 DEF Abort, StartCompact, StartRestore
    <3>5. ASSUME NEW n \in Notes, Notify(n) PROVE FALSE
      BY <3>5 DEF Notify, startTurn
    <3> QED BY <2>6, <3>1, <3>2, <3>3, <3>4, <3>5 DEF HostNext, Discard, Edit
  <2>7. CASE Restart
    BY <2>0, <2>7, RestartHold
  <2>8. CASE UNCHANGED vars
    BY <2>8 DEF vars
  <2> QED BY <2>3, <2>4, <2>5, <2>6, <2>7, <2>8 DEF Next
<1> QED BY <1>1, Invariant, PTL DEF Spec, OrderKept
=============================================================================
