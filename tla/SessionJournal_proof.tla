------------------------- MODULE SessionJournal_proof -------------------------
(***************************************************************************)
(* Proofs about SessionJournal, for any inputs and any number of lines:    *)
(* its types, that it implements Journal, and that no input is at two      *)
(* places in what a reopening finds.                                       *)
(***************************************************************************)
EXTENDS SessionJournal, DataLemmas

(* The set of lines a transcript consists of.                              *)
Delivery == [type : {"messages"}, parent : Nat, turn : 0..MaxLines, msgs : Seq(Int),
             delivered : Seq(Inputs)]
Waiting == [id : Inputs, state : {"queued", "restored"}]
Mark == [turn : Nat, at : Nat, root : Inputs \cup {NoInput}]
Picture == [type : {"snapshot"}, parent : {NoParent}, msgs : Seq(Int), pending : Seq(Waiting),
            turn : 0..MaxLines, starts : Seq(Mark)]
Line ==
  {Torn, SessionStart}
    \cup [type : {"user-input"}, parent : Nat, id : Inputs, startsTurn : BOOLEAN,
          consumed : Seq(Inputs)]
    \cup [type : {"turn-start"}, parent : Nat, turn : 1..MaxLines, root : Inputs \cup {NoInput}]
    \cup Delivery
    \cup [type : {"turn-end"}, parent : Nat, turn : 0..MaxLines]
    \cup [type : {"user-input-restored", "user-input-discarded"}, parent : Nat,
          ids : Seq(Inputs)]
    \cup Picture

Sessions == [msgs : Seq(Int), pending : Seq(Waiting), undelivered : Seq(Inputs),
             turn : 0..MaxLines, starts : Seq(Mark)]

(* What a line holds.                                                       *)
LEMMA LineIs ==
  ASSUME NEW e \in Line
  PROVE  /\ e.parent \in Nat
         /\ e.type = "torn" <=> e = Torn
         /\ e.type = "user-input" => /\ e.id \in Inputs /\ e.startsTurn \in BOOLEAN
                                     /\ e.consumed \in Seq(Inputs)
         /\ e.type = "turn-start" => e.turn \in 1..MaxLines /\ e.root \in Inputs \cup {NoInput}
         /\ e.type = "messages" => /\ e.turn \in 0..MaxLines /\ e.msgs \in Seq(Int)
                                   /\ e.delivered \in Seq(Inputs)
         /\ e.type = "turn-end" => e.turn \in 0..MaxLines
         /\ e.type \in {"user-input-restored", "user-input-discarded"} => e.ids \in Seq(Inputs)
         /\ e.type = "snapshot" =>
              /\ e.parent = NoParent /\ e.msgs \in Seq(Int) /\ e.pending \in Seq(Waiting)
              /\ e.turn \in 0..MaxLines /\ e.starts \in Seq(Mark)
         /\ e.type \in {"torn", "session-start", "user-input", "turn-start", "messages",
                        "turn-end", "user-input-restored", "user-input-discarded", "snapshot"}
BY DEF Line, Torn, SessionStart, Delivery, Picture, NoParent

LEMMA LinesAre ==
  /\ Torn \in Line /\ SessionStart \in Line
  /\ \A p \in Nat, i \in Inputs, s \in BOOLEAN, c \in Seq(Inputs) : UserInput(p, i, s, c) \in Line
  /\ \A p \in Nat, t \in 1..MaxLines, r \in Inputs \cup {NoInput} : TurnStart(p, t, r) \in Line
  /\ \A p \in Nat, t \in 0..MaxLines, ms \in Seq(Int), d \in Seq(Inputs) :
       Messages(p, t, ms, d) \in Line
  /\ \A p \in Nat, t \in 0..MaxLines : TurnEnd(p, t) \in Line
  /\ \A p \in Nat, ids \in Seq(Inputs), ty \in {"user-input-restored", "user-input-discarded"} :
       Withdrawn(ty, p, ids) \in Line
  /\ \A m \in Sessions : Snapshot(m) \in Line
BY DEF Line, UserInput, TurnStart, Messages, TurnEnd, Withdrawn, Snapshot, Delivery, Picture, Sessions

-----------------------------------------------------------------------------
(* Chains.                                                                  *)

(* Lines whose parents are above them.                                      *)
Ordered(ls) == ls \in Seq(Line) /\ \A n \in DOMAIN ls : ls[n].parent < n

ChainsFcn(f, ls, k) ==
  f = [n \in 0..k |-> IF n = 0 THEN <<>> ELSE Append(f[ls[n].parent], ls[n])]

LEMMA ChainsExist ==
  ASSUME NEW ls, Ordered(ls)
  PROVE  \E f : ChainsFcn(f, ls, Len(ls))
<1> DEFINE N == Len(ls)
           S == {k \in Nat : k <= N => \E f : ChainsFcn(f, ls, k)}
<1>1. ls \in Seq(Line) /\ DOMAIN ls = 1..N /\ N \in Nat
  BY DEF Ordered
<1> HIDE DEF N
<1>2. 0 \in S
  <2> DEFINE f == [n \in 0..0 |-> <<>>]
  <2>1. ChainsFcn(f, ls, 0)
    BY DEF ChainsFcn
  <2> QED BY <2>1
<1>3. ASSUME NEW k \in Nat, k < N, k \in S PROVE k + 1 \in S
  <2>1. PICK f : ChainsFcn(f, ls, k)
    BY <1>1, <1>3
  <2>2. k + 1 \in DOMAIN ls /\ ls[k + 1].parent \in 0..k
    <3>1. k + 1 \in DOMAIN ls
      BY <1>1, <1>3
    <3>2. ls[k + 1] \in Line
      BY <1>1, <3>1
    <3>3. ls[k + 1].parent \in Nat /\ ls[k + 1].parent < k + 1
      BY <3>1, <3>2, LineIs DEF Ordered
    <3> QED BY <3>1, <3>3
  <2> DEFINE g == [n \in 0..(k + 1) |->
                    IF n = k + 1 THEN Append(f[ls[k + 1].parent], ls[k + 1]) ELSE f[n]]
  <2>3. \A n \in 0..k : g[n] = f[n]
    OBVIOUS
  <2>4. \A n \in 1..k : ls[n].parent \in 0..k
    <3> SUFFICES ASSUME NEW n \in 1..k PROVE ls[n].parent \in 0..k
      OBVIOUS
    <3>1. n \in DOMAIN ls /\ ls[n] \in Line
      BY <1>1, <1>3
    <3>2. ls[n].parent \in Nat /\ ls[n].parent < n
      BY <3>1, LineIs DEF Ordered
    <3> QED BY <3>2
  <2>5. g[k + 1] = Append(g[ls[k + 1].parent], ls[k + 1])
    BY <2>2, <2>3
  <2>6. ASSUME NEW n \in 0..k
        PROVE  g[n] = IF n = 0 THEN <<>> ELSE Append(g[ls[n].parent], ls[n])
    <3>1. f[n] = IF n = 0 THEN <<>> ELSE Append(f[ls[n].parent], ls[n])
      BY <2>1 DEF ChainsFcn
    <3>2. n # 0 => ls[n].parent \in 0..k
      BY <2>4
    <3> HIDE DEF g
    <3> QED BY <2>3, <3>1, <3>2
  <2>7. \A n \in 0..(k + 1) : g[n] = IF n = 0 THEN <<>> ELSE Append(g[ls[n].parent], ls[n])
    <3> HIDE DEF g
    <3>1. \A n \in 0..(k + 1) : n \in 0..k \/ (n = k + 1 /\ n # 0)
      OBVIOUS
    <3> QED BY <2>5, <2>6, <3>1
  <2>8. g = [n \in 0..(k + 1) |-> g[n]]
    OBVIOUS
  <2>9. ChainsFcn(g, ls, k + 1)
    <3> HIDE DEF g
    <3> QED BY <2>7, <2>8 DEF ChainsFcn
  <2> QED BY <2>9
<1>4. 0..N \subseteq S
  <2> HIDE DEF S
  <2> QED BY <1>1, <1>2, <1>3, InductionTo
<1>5. N \in S
  BY <1>1, <1>4
<1> QED BY <1>5 DEF N

(* The chain of each record.                                                *)
LEMMA ChainsAre ==
  ASSUME NEW ls, Ordered(ls)
  PROVE  /\ Chains(ls)[0] = <<>>
         /\ \A n \in 1..Len(ls) : /\ ls[n] \in Line /\ ls[n].parent \in 0..(n - 1)
                                  /\ Chains(ls)[n] = Append(Chains(ls)[ls[n].parent], ls[n])
<1> DEFINE f == Chains(ls)
           N == Len(ls)
<1>1. f = CHOOSE g : ChainsFcn(g, ls, N)
  BY DEF Chains, ChainsFcn
<1>2. ChainsFcn(f, ls, N)
  BY <1>1, ChainsExist
<1> HIDE DEF f
<1>3. ls \in Seq(Line) /\ DOMAIN ls = 1..N /\ N \in Nat
  BY DEF Ordered
<1> HIDE DEF N
<1>4. ASSUME NEW n \in 1..N PROVE ls[n] \in Line /\ ls[n].parent \in 0..(n - 1)
  <2>1. ls[n] \in Line /\ ls[n].parent < n
    BY <1>3 DEF Ordered
  <2> QED BY <2>1, LineIs
<1>5. \A n \in 0..N : f[n] = IF n = 0 THEN <<>> ELSE Append(f[ls[n].parent], ls[n])
  BY <1>2 DEF ChainsFcn
<1>6. f[0] = <<>> /\ \A n \in 1..N : f[n] = Append(f[ls[n].parent], ls[n])
  <2>1. 0 \in 0..N /\ \A n \in 1..N : n \in 0..N /\ n # 0
    BY <1>3
  <2> QED BY <1>5, <2>1
<1> QED BY <1>4, <1>6 DEF f, N

(* What holds of one chain after another holds of all.                      *)
LEMMA ChainInduction ==
  ASSUME NEW ls, Ordered(ls), NEW S, 0 \in S,
         \A n \in 1..Len(ls) : (\A k \in 0..(n - 1) : k \in S) => n \in S
  PROVE  0..Len(ls) \subseteq S
<1> DEFINE N == Len(ls)
           P == {k \in Nat : 0..k \subseteq S}
<1>1. N \in Nat
  BY DEF Ordered
<1>2. 0 \in P
  OBVIOUS
<1>3. ASSUME NEW k \in Nat, k < N, k \in P PROVE k + 1 \in P
  <2>1. k + 1 \in 1..Len(ls) /\ \A j \in 0..((k + 1) - 1) : j \in S
    BY <1>1, <1>3
  <2>2. k + 1 \in S
    BY <2>1
  <2> QED BY <1>3, <2>2
<1>4. 0..N \subseteq P
  <2> HIDE DEF P, N
  <2> QED BY <1>1, <1>2, <1>3, InductionTo
<1> QED BY <1>1, <1>4

LEMMA ChainTypes ==
  ASSUME NEW ls, Ordered(ls)
  PROVE  \A n \in 0..Len(ls) : Chains(ls)[n] \in Seq(Line)
<1> DEFINE c(n) == Chains(ls)[n]
           S == {n \in Nat : c(n) \in Seq(Line)}
<1>0. Len(ls) \in Nat
  BY DEF Ordered
<1>1. 0 \in S
  <2>1. c(0) = <<>>
    BY ChainsAre
  <2> HIDE DEF c
  <2>2. <<>> \in Seq(Line)
    OBVIOUS
  <2>3. c(0) \in Seq(Line)
    BY <2>1, <2>2
  <2> QED BY <2>3
<1>2. ASSUME NEW n \in 1..Len(ls), \A k \in 0..(n - 1) : k \in S PROVE n \in S
  <2>1. ls[n] \in Line /\ ls[n].parent \in 0..(n - 1)
        /\ c(n) = Append(c(ls[n].parent), ls[n])
    BY ChainsAre
  <2>2. c(ls[n].parent) \in Seq(Line)
    BY <1>2, <2>1
  <2> HIDE DEF c
  <2>3. c(n) \in Seq(Line) /\ n \in Nat
    BY <1>0, <2>1, <2>2
  <2> QED BY <2>3
<1>3. 0..Len(ls) \subseteq S
  <2> HIDE DEF S
  <2> QED BY <1>1, <1>2, ChainInduction
<1> QED BY <1>3

(* A chain consists of lines, and goes on to a line without a parent: a      *)
(* snapshot is its first record or not in it.                               *)
LEMMA ChainLines ==
  ASSUME NEW ls, Ordered(ls)
  PROVE  \A n \in 0..Len(ls) : \A k \in DOMAIN Chains(ls)[n] :
           /\ \E j \in 1..n : Chains(ls)[n][k] = ls[j]
           /\ Chains(ls)[n][k].type = "snapshot" => k = 1
<1> DEFINE c(n) == Chains(ls)[n]
           Good(n) == \A k \in DOMAIN c(n) : /\ \E j \in 1..n : c(n)[k] = ls[j]
                                             /\ c(n)[k].type = "snapshot" => k = 1
           S == {n \in Nat : Good(n)}
<1>0. Len(ls) \in Nat
  BY DEF Ordered
<1>1. 0 \in S
  <2>1. c(0) = <<>>
    BY ChainsAre
  <2> QED BY <2>1
<1>2. ASSUME NEW n \in 1..Len(ls), \A k \in 0..(n - 1) : k \in S PROVE n \in S
  <2>1. ls[n] \in Line /\ ls[n].parent \in 0..(n - 1) /\ c(n) = Append(c(ls[n].parent), ls[n])
    BY ChainsAre
  <2> DEFINE p == ls[n].parent
  <2>2. c(p) \in Seq(Line) /\ Good(p) /\ n \in Nat /\ p \in Nat /\ p < n
    <3>1. p \in 0..Len(ls) /\ p \in S /\ n \in Nat /\ p \in Nat /\ p < n
      <4>1. p \in 0..(n - 1)
        BY <2>1
      <4> HIDE DEF p, S
      <4> QED BY <1>0, <1>2, <4>1
    <3>2. c(p) \in Seq(Line)
      BY <3>1, ChainTypes
    <3> QED BY <3>1, <3>2
  <2> HIDE DEF c
  <2>3. ASSUME NEW k \in DOMAIN c(n)
        PROVE  (\E j \in 1..n : c(n)[k] = ls[j]) /\ (c(n)[k].type = "snapshot" => k = 1)
    <3>1. CASE k \in DOMAIN c(p)
      <4>1. c(n)[k] = c(p)[k]
        BY <2>1, <2>2, <3>1
      <4>2. /\ \E j \in 1..p : c(p)[k] = ls[j]
            /\ c(p)[k].type = "snapshot" => k = 1
        BY <2>2, <3>1
      <4>3. 1..p \subseteq 1..n
        BY <2>1
      <4> QED BY <4>1, <4>2, <4>3
    <3>2. CASE k \notin DOMAIN c(p)
      <4>1. k = Len(c(p)) + 1 /\ c(n)[k] = ls[n] /\ n \in 1..n
        BY <2>1, <2>2, <3>2
      <4>2. ASSUME ls[n].type = "snapshot" PROVE k = 1
        <5>1. p = 0
          BY <2>1, <4>2, LineIs DEF NoParent
        <5>2. c(p) = <<>>
          BY <5>1, ChainsAre DEF c
        <5> QED BY <4>1, <5>2
      <4> QED BY <4>1, <4>2
    <3> QED BY <3>1, <3>2
  <2> QED BY <2>2, <2>3
<1>3. 0..Len(ls) \subseteq S
  <2> HIDE DEF S
  <2> QED BY <1>1, <1>2, ChainInduction
<1>4. ASSUME NEW n \in 0..Len(ls) PROVE Good(n)
  <2> HIDE DEF Good
  <2> QED BY <1>3
<1> QED BY <1>4

(* More lines do not change the chains there are.                           *)
LEMMA ChainsKept ==
  ASSUME NEW ls, Ordered(ls), NEW ks, Ordered(ks), NEW N \in Nat,
         N <= Len(ls), N <= Len(ks), \A n \in 1..N : ks[n] = ls[n]
  PROVE  \A n \in 0..N : Chains(ks)[n] = Chains(ls)[n]
<1> DEFINE S == {n \in Nat : n <= N => Chains(ks)[n] = Chains(ls)[n]}
<1>0. Len(ls) \in Nat
  BY DEF Ordered
<1>1. 0 \in S
  BY ChainsAre
<1>2. ASSUME NEW n \in 1..Len(ls), \A k \in 0..(n - 1) : k \in S PROVE n \in S
  <2>1. CASE n <= N
    <3>1. Chains(ls)[n] = Append(Chains(ls)[ls[n].parent], ls[n]) /\ ls[n].parent \in 0..(n - 1)
      BY ChainsAre
    <3>2. n \in 1..N /\ n \in 1..Len(ks)
      BY <2>1 DEF Ordered
    <3>3. Chains(ks)[n] = Append(Chains(ks)[ls[n].parent], ls[n])
      BY <3>2, ChainsAre
    <3>4. Chains(ks)[ls[n].parent] = Chains(ls)[ls[n].parent]
      <4>1. ls[n].parent \in S /\ ls[n].parent <= N
        BY <1>0, <1>2, <2>1, <3>1
      <4> QED BY <4>1
    <3>5. Chains(ks)[n] = Chains(ls)[n]
      BY <3>1, <3>3, <3>4
    <3> QED BY <1>0, <3>5
  <2> QED BY <1>0, <2>1
<1>3. 0..Len(ls) \subseteq S
  <2> HIDE DEF S
  <2> QED BY <1>1, <1>2, ChainInduction
<1> QED BY <1>3 DEF Ordered
-----------------------------------------------------------------------------
(* Replays.                                                                 *)

LEMMA NothingIs == Nothing \notin Sessions /\ EmptySession \in Sessions
<1>1. EmptySession \in Sessions
  <2>1. <<>> \in Seq(Int) /\ <<>> \in Seq(Waiting) /\ <<>> \in Seq(Inputs) /\ <<>> \in Seq(Mark)
    OBVIOUS
  <2>2. NoTurn \in 0..MaxLines
    BY MaxLinesAssumption DEF NoTurn
  <2> QED BY <2>1, <2>2 DEF EmptySession, Sessions
<1>2. Nothing.turn = -1
  BY DEF Nothing, EmptySession
<1>3. \A m \in Sessions : m.turn # -1
  BY DEF Sessions
<1> QED BY <1>1, <1>2, <1>3

(* What is left of a sequence when some inputs are taken out of it.          *)
LEMMA WithoutIs ==
  ASSUME NEW q \in Seq(Waiting), NEW ids
  PROVE  /\ Without(q, ids) \in Seq(Waiting)
         /\ ToSet(Without(q, ids)) = {p \in ToSet(q) : p.id \notin ToSet(ids)}
<1> DEFINE S == {p \in ToSet(q) : p.id \notin ToSet(ids)}
<1>1. Chosen(q, S) \in Seq(Waiting) /\ Range(Chosen(q, S)) = Range(q) \cap S
  BY ChosenHolds
<1>2. \A s : ToSet(s) = Range(s)
  BY DEF ToSet, Range
<1>3. S \subseteq ToSet(q)
  OBVIOUS
<1> HIDE DEF S
<1>4. ToSet(Chosen(q, S)) = S
  BY <1>1, <1>2, <1>3
<1> QED BY <1>1, <1>4 DEF Without, S

(* Nothing is taken out.                                                    *)
LEMMA WithoutNone ==
  ASSUME NEW q \in Seq(Waiting)
  PROVE  Without(q, <<>>) = q
<1> DEFINE S == {p \in ToSet(q) : p.id \notin ToSet(<<>>)}
<1>1. Range(q) \subseteq S => Chosen(q, S) = q
  BY ChosenHolds
<1>2. ToSet(<<>>) = {} /\ ToSet(q) = Range(q)
  BY DEF ToSet, Range
<1>3. Range(q) \subseteq S
  BY <1>2
<1> QED BY <1>1, <1>3 DEF Without

(* Replayed for each type of a record.                                       *)

LEMMA ReplayedOpening ==
  ASSUME NEW m \in Sessions, NEW e, NEW R, e.type = "user-input", e.startsTurn, e.id \notin R
  PROVE  Replayed(m, e, R) =
           [msgs |-> Append(m.msgs, e.id), pending |-> Without(m.pending, e.consumed) \o <<>>,
            undelivered |-> Append(m.undelivered, e.id), turn |-> m.turn, starts |-> m.starts]
BY DEF Replayed, Sessions

LEMMA ReplayedTaken ==
  ASSUME NEW m \in Sessions, NEW e, NEW R, e.type = "user-input", e.startsTurn, e.id \in R
  PROVE  Replayed(m, e, R) =
           [msgs |-> m.msgs, pending |-> Without(m.pending, e.consumed) \o <<>>,
            undelivered |-> m.undelivered, turn |-> m.turn, starts |-> m.starts]
BY DEF Replayed, Sessions

LEMMA ReplayedQueued ==
  ASSUME NEW m \in Sessions, NEW e, NEW R, e.type = "user-input", ~e.startsTurn
  PROVE  Replayed(m, e, R) =
           [msgs |-> m.msgs,
            pending |-> Without(m.pending, e.consumed)
                          \o <<[id |-> e.id, state |-> "queued"]>>,
            undelivered |-> m.undelivered, turn |-> m.turn, starts |-> m.starts]
BY DEF Replayed, Sessions

LEMMA ReplayedStart ==
  ASSUME NEW m \in Sessions, NEW e, NEW R, e.type = "turn-start"
  PROVE  Replayed(m, e, R) =
           [msgs |-> m.msgs, pending |-> m.pending, undelivered |-> m.undelivered,
            turn |-> e.turn,
            starts |-> Append(m.starts, [turn |-> e.turn, at |-> Len(m.msgs),
                                         root |-> e.root])]
BY DEF Replayed, Sessions

LEMMA ReplayedMessages ==
  ASSUME NEW m \in Sessions, NEW e, NEW R, e.type = "messages"
  PROVE  Replayed(m, e, R) =
           [msgs |-> m.msgs \o e.msgs, pending |-> Without(m.pending, e.delivered),
            undelivered |-> m.undelivered, turn |-> m.turn, starts |-> m.starts]
BY DEF Replayed, Sessions

LEMMA ReplayedEnd ==
  ASSUME NEW m \in Sessions, NEW e, NEW R, e.type = "turn-end"
  PROVE  Replayed(m, e, R) =
           [msgs |-> m.msgs, pending |-> m.pending, undelivered |-> m.undelivered,
            turn |-> IF m.turn = e.turn THEN NoTurn ELSE m.turn, starts |-> m.starts]
BY DEF Replayed, Sessions

LEMMA ReplayedRestored ==
  ASSUME NEW m \in Sessions, NEW e, NEW R, e.type = "user-input-restored"
  PROVE  Replayed(m, e, R) =
           [msgs |-> m.msgs,
            pending |-> [n \in DOMAIN m.pending |->
                           IF m.pending[n].id \in ToSet(e.ids)
                           THEN [m.pending[n] EXCEPT !.state = "restored"] ELSE m.pending[n]],
            undelivered |-> m.undelivered, turn |-> m.turn, starts |-> m.starts]
BY DEF Replayed, Sessions

LEMMA ReplayedDiscarded ==
  ASSUME NEW m \in Sessions, NEW e, NEW R, e.type = "user-input-discarded"
  PROVE  Replayed(m, e, R) =
           [msgs |-> m.msgs, pending |-> Without(m.pending, e.ids),
            undelivered |-> m.undelivered, turn |-> m.turn, starts |-> m.starts]
BY DEF Replayed, Sessions

LEMMA ReplayedSnapshot ==
  ASSUME NEW m \in Sessions, NEW e, NEW R, e.type = "snapshot"
  PROVE  Replayed(m, e, R) =
           [msgs |-> e.msgs, pending |-> e.pending, undelivered |-> <<>>,
            turn |-> e.turn, starts |-> e.starts]
BY DEF Replayed, Sessions

LEMMA ReplayedOther ==
  ASSUME NEW m, NEW e, NEW R, e.type \in {"torn", "session-start"}
  PROVE  Replayed(m, e, R) = m
BY DEF Replayed

(* Pending inputs of which some are restored.                                *)
LEMMA RestoredType ==
  ASSUME NEW q \in Seq(Waiting), NEW S
  PROVE  [n \in DOMAIN q |-> IF q[n].id \in S THEN [q[n] EXCEPT !.state = "restored"]
                             ELSE q[n]] \in Seq(Waiting)
<1> DEFINE f == [n \in 1..Len(q) |-> IF q[n].id \in S THEN [q[n] EXCEPT !.state = "restored"]
                                     ELSE q[n]]
<1>1. DOMAIN q = 1..Len(q) /\ Len(q) \in Nat /\ \A n \in 1..Len(q) : q[n] \in Waiting
  OBVIOUS
<1>2. \A n \in 1..Len(q) : f[n] \in Waiting
  BY <1>1 DEF Waiting
<1>3. f \in [1..Len(q) -> Waiting]
  <2>1. f = [n \in 1..Len(q) |-> f[n]]
    OBVIOUS
  <2> HIDE DEF f
  <2> QED BY <1>2, <2>1
<1>4. f \in Seq(Waiting)
  <2> HIDE DEF f
  <2> QED BY <1>1, <1>3
<1> QED BY <1>1, <1>4

LEMMA SessionIs ==
  ASSUME NEW ms \in Seq(Int), NEW p \in Seq(Waiting), NEW u \in Seq(Inputs),
         NEW t \in 0..MaxLines, NEW ss \in Seq(Mark)
  PROVE  [msgs |-> ms, pending |-> p, undelivered |-> u, turn |-> t, starts |-> ss] \in Sessions
BY DEF Sessions

LEMMA SessionHas ==
  ASSUME NEW m \in Sessions
  PROVE  /\ m.msgs \in Seq(Int) /\ m.pending \in Seq(Waiting) /\ m.undelivered \in Seq(Inputs)
         /\ m.turn \in 0..MaxLines /\ m.starts \in Seq(Mark)
         /\ m = [msgs |-> m.msgs, pending |-> m.pending, undelivered |-> m.undelivered,
                 turn |-> m.turn, starts |-> m.starts]
BY DEF Sessions

LEMMA ReplayedType ==
  ASSUME NEW m \in Sessions, NEW e \in Line, NEW R
  PROVE  Replayed(m, e, R) \in Sessions
<1>0. /\ m.msgs \in Seq(Int) /\ m.pending \in Seq(Waiting) /\ m.undelivered \in Seq(Inputs)
      /\ m.turn \in 0..MaxLines /\ m.starts \in Seq(Mark) /\ Inputs \subseteq Int
      /\ <<>> \in Seq(Inputs) /\ <<>> \in Seq(Waiting) /\ NoTurn \in 0..MaxLines
  BY SessionHas, InputsAssumption, MaxLinesAssumption DEF NoTurn
<1>1. CASE e.type = "user-input"
  <2>1. e.id \in Inputs /\ e.startsTurn \in BOOLEAN /\ e.id \in Int
    BY <1>0, <1>1, LineIs
  <2>2. Without(m.pending, e.consumed) \in Seq(Waiting)
    BY <1>0, WithoutIs
  <2>3. [id |-> e.id, state |-> "queued"] \in Waiting
    BY <2>1 DEF Waiting
  <2>4. /\ Without(m.pending, e.consumed) \o <<>> \in Seq(Waiting)
        /\ Without(m.pending, e.consumed) \o <<[id |-> e.id, state |-> "queued"]>> \in Seq(Waiting)
    BY <1>0, <2>2, <2>3
  <2>5. Append(m.msgs, e.id) \in Seq(Int) /\ Append(m.undelivered, e.id) \in Seq(Inputs)
    BY <1>0, <2>1
  <2>6. CASE e.startsTurn /\ e.id \notin R
    <3>1. Replayed(m, e, R) =
            [msgs |-> Append(m.msgs, e.id), pending |-> Without(m.pending, e.consumed) \o <<>>,
             undelivered |-> Append(m.undelivered, e.id), turn |-> m.turn, starts |-> m.starts]
      BY <1>1, <2>6, ReplayedOpening
    <3>2. [msgs |-> Append(m.msgs, e.id), pending |-> Without(m.pending, e.consumed) \o <<>>,
           undelivered |-> Append(m.undelivered, e.id), turn |-> m.turn, starts |-> m.starts]
            \in Sessions
      BY <1>0, <2>4, <2>5, SessionIs
    <3> QED BY <3>1, <3>2
  <2>7. CASE e.startsTurn /\ e.id \in R
    <3>1. Replayed(m, e, R) =
            [msgs |-> m.msgs, pending |-> Without(m.pending, e.consumed) \o <<>>,
             undelivered |-> m.undelivered, turn |-> m.turn, starts |-> m.starts]
      BY <1>1, <2>7, ReplayedTaken
    <3> QED BY <1>0, <2>4, <3>1, SessionIs
  <2>8. CASE ~e.startsTurn
    <3>1. Replayed(m, e, R) =
            [msgs |-> m.msgs,
             pending |-> Without(m.pending, e.consumed) \o <<[id |-> e.id, state |-> "queued"]>>,
             undelivered |-> m.undelivered, turn |-> m.turn, starts |-> m.starts]
      BY <1>1, <2>8, ReplayedQueued
    <3> QED BY <1>0, <2>4, <3>1, SessionIs
  <2> QED BY <2>1, <2>6, <2>7, <2>8
<1>2. CASE e.type = "turn-start"
  <2> DEFINE s == [turn |-> e.turn, at |-> Len(m.msgs), root |-> e.root]
  <2>1. e.turn \in 1..MaxLines /\ e.root \in Inputs \cup {NoInput}
    BY <1>2, LineIs
  <2>2. s \in Mark /\ e.turn \in 0..MaxLines
    BY <1>0, <2>1, MaxLinesAssumption DEF Mark
  <2>3. Replayed(m, e, R) =
          [msgs |-> m.msgs, pending |-> m.pending, undelivered |-> m.undelivered,
           turn |-> e.turn, starts |-> Append(m.starts, s)]
    BY <1>2, ReplayedStart
  <2> HIDE DEF s
  <2>4. Append(m.starts, s) \in Seq(Mark)
    BY <1>0, <2>2
  <2>5. [msgs |-> m.msgs, pending |-> m.pending, undelivered |-> m.undelivered,
         turn |-> e.turn, starts |-> Append(m.starts, s)] \in Sessions
    BY <1>0, <2>2, <2>4, SessionIs
  <2> QED BY <2>3, <2>5
<1>3. CASE e.type = "messages"
  <2>1. m.msgs \o e.msgs \in Seq(Int) /\ Without(m.pending, e.delivered) \in Seq(Waiting)
    BY <1>0, <1>3, LineIs, WithoutIs
  <2>2. Replayed(m, e, R) =
          [msgs |-> m.msgs \o e.msgs, pending |-> Without(m.pending, e.delivered),
           undelivered |-> m.undelivered, turn |-> m.turn, starts |-> m.starts]
    BY <1>3, ReplayedMessages
  <2>3. [msgs |-> m.msgs \o e.msgs, pending |-> Without(m.pending, e.delivered),
         undelivered |-> m.undelivered, turn |-> m.turn, starts |-> m.starts] \in Sessions
    BY <1>0, <2>1, SessionIs
  <2> QED BY <2>2, <2>3
<1>4. CASE e.type = "turn-end"
  BY <1>0, <1>4, ReplayedEnd, SessionIs
<1>5. CASE e.type = "user-input-restored"
  <2> DEFINE q == [n \in DOMAIN m.pending |->
                     IF m.pending[n].id \in ToSet(e.ids)
                     THEN [m.pending[n] EXCEPT !.state = "restored"] ELSE m.pending[n]]
  <2>1. q \in Seq(Waiting)
    BY <1>0, RestoredType
  <2>2. Replayed(m, e, R) = [msgs |-> m.msgs, pending |-> q, undelivered |-> m.undelivered,
                             turn |-> m.turn, starts |-> m.starts]
    BY <1>5, ReplayedRestored
  <2> HIDE DEF q
  <2> QED BY <1>0, <2>1, <2>2, SessionIs
<1>6. CASE e.type = "user-input-discarded"
  <2>1. Without(m.pending, e.ids) \in Seq(Waiting)
    BY <1>0, WithoutIs
  <2> QED BY <1>0, <1>6, <2>1, ReplayedDiscarded, SessionIs
<1>7. CASE e.type = "snapshot"
  <2>1. /\ e.msgs \in Seq(Int) /\ e.pending \in Seq(Waiting)
        /\ e.turn \in 0..MaxLines /\ e.starts \in Seq(Mark)
    BY <1>7, LineIs
  <2>2. Replayed(m, e, R) = [msgs |-> e.msgs, pending |-> e.pending, undelivered |-> <<>>,
                             turn |-> e.turn, starts |-> e.starts]
    BY <1>7, ReplayedSnapshot
  <2>3. [msgs |-> e.msgs, pending |-> e.pending, undelivered |-> <<>>, turn |-> e.turn,
         starts |-> e.starts] \in Sessions
    BY <1>0, <2>1, SessionIs
  <2> QED BY <2>2, <2>3
<1>8. CASE e.type \in {"torn", "session-start"}
  BY <1>8, ReplayedOther
<1>9. e.type \in {"torn", "session-start", "user-input", "turn-start", "messages",
                  "turn-end", "user-input-restored", "user-input-discarded", "snapshot"}
  BY LineIs
<1> QED BY <1>1, <1>2, <1>3, <1>4, <1>5, <1>6, <1>7, <1>8, <1>9

LEMMA AfterType ==
  ASSUME NEW m \in Sessions \cup {Nothing}, NEW e \in Line, NEW R
  PROVE  After(m, e, R) \in Sessions \cup {Nothing}
BY ReplayedType DEF After

ReplayFcn(f, c, R, k) ==
  f = [n \in 0..k |-> IF n = 0 THEN EmptySession ELSE After(f[n - 1], c[n], R)]

LEMMA ReplayExists ==
  ASSUME NEW c, NEW R, NEW k \in Nat
  PROVE  \E f : ReplayFcn(f, c, R, k)
<1> DEFINE S == {n \in Nat : \E f : ReplayFcn(f, c, R, n)}
<1>1. 0 \in S
  <2> DEFINE f == [n \in 0..0 |-> EmptySession]
  <2>1. ReplayFcn(f, c, R, 0)
    BY DEF ReplayFcn
  <2> QED BY <2>1
<1>2. ASSUME NEW n \in Nat, n \in S PROVE n + 1 \in S
  <2>1. PICK f : ReplayFcn(f, c, R, n)
    BY <1>2
  <2> DEFINE g == [j \in 0..(n + 1) |-> IF j = n + 1 THEN After(f[n], c[n + 1], R) ELSE f[j]]
  <2>2. (\A j \in 0..n : g[j] = f[j]) /\ g[n + 1] = After(f[n], c[n + 1], R)
    OBVIOUS
  <2>3. g = [j \in 0..(n + 1) |-> g[j]]
    OBVIOUS
  <2> HIDE DEF g
  <2>4. g[n + 1] = After(g[(n + 1) - 1], c[n + 1], R)
    <3>1. (n + 1) - 1 = n /\ n \in 0..n
      OBVIOUS
    <3> QED BY <2>2, <3>1
  <2>5. ASSUME NEW j \in 0..n PROVE g[j] = IF j = 0 THEN EmptySession ELSE After(g[j - 1], c[j], R)
    <3>1. f[j] = IF j = 0 THEN EmptySession ELSE After(f[j - 1], c[j], R)
      BY <2>1 DEF ReplayFcn
    <3>2. j # 0 => j - 1 \in 0..n
      OBVIOUS
    <3> QED BY <2>2, <3>1, <3>2
  <2>6. \A j \in 0..(n + 1) : g[j] = IF j = 0 THEN EmptySession ELSE After(g[j - 1], c[j], R)
    <3>1. \A j \in 0..(n + 1) : j \in 0..n \/ (j = n + 1 /\ j # 0)
      OBVIOUS
    <3> QED BY <2>4, <2>5, <3>1
  <2>7. ReplayFcn(g, c, R, n + 1)
    BY <2>3, <2>6 DEF ReplayFcn
  <2> QED BY <2>7
<1>3. 0..k \subseteq S
  <2> HIDE DEF S
  <2> QED BY <1>1, <1>2, InductionTo
<1>4. k \in S
  BY <1>3
<1> QED BY <1>4

(* The function that replays a chain, record by record.                     *)
ReplayOf(c, R) == CHOOSE f : ReplayFcn(f, c, R, Len(c))

LEMMA ReplaySteps ==
  ASSUME NEW c \in Seq(Line), NEW R
  PROVE  /\ ReplayOf(c, R)[0] = EmptySession
         /\ \A n \in 1..Len(c) : ReplayOf(c, R)[n] = After(ReplayOf(c, R)[n - 1], c[n], R)
         /\ ReplayWith(c, R) = ReplayOf(c, R)[Len(c)]
<1> DEFINE f == ReplayOf(c, R)
<1>1. ReplayFcn(f, c, R, Len(c))
  BY ReplayExists DEF ReplayOf
<1>2. ReplayWith(c, R) = f[Len(c)]
  BY DEF ReplayWith, ReplayOf, ReplayFcn
<1> HIDE DEF f
<1>3. \A n \in 0..Len(c) : f[n] = IF n = 0 THEN EmptySession ELSE After(f[n - 1], c[n], R)
  BY <1>1 DEF ReplayFcn
<1>4. 0 \in 0..Len(c) /\ \A n \in 1..Len(c) : n \in 0..Len(c) /\ n # 0
  OBVIOUS
<1>5. f[0] = EmptySession /\ \A n \in 1..Len(c) : f[n] = After(f[n - 1], c[n], R)
  BY <1>3, <1>4
<1> QED BY <1>2, <1>5 DEF f

LEMMA ReplayTypes ==
  ASSUME NEW c \in Seq(Line), NEW R
  PROVE  /\ \A n \in 0..Len(c) : ReplayOf(c, R)[n] \in Sessions \cup {Nothing}
         /\ ReplayWith(c, R) \in Sessions \cup {Nothing}
<1> DEFINE f == ReplayOf(c, R)
           S == {n \in Nat : n <= Len(c) => f[n] \in Sessions \cup {Nothing}}
<1>1. f[0] = EmptySession /\ (\A n \in 1..Len(c) : f[n] = After(f[n - 1], c[n], R))
      /\ ReplayWith(c, R) = f[Len(c)] /\ Len(c) \in Nat
  BY ReplaySteps
<1> HIDE DEF f
<1>2. 0 \in S
  BY <1>1, NothingIs
<1>3. ASSUME NEW n \in Nat, n < Len(c), n \in S PROVE n + 1 \in S
  <2>1. n + 1 \in 1..Len(c) /\ (n + 1) - 1 = n /\ c[n + 1] \in Line
    BY <1>1, <1>3
  <2>2. f[n + 1] = After(f[n], c[n + 1], R)
    BY <1>1, <2>1
  <2>3. f[n] \in Sessions \cup {Nothing}
    BY <1>3
  <2>4. After(f[n], c[n + 1], R) \in Sessions \cup {Nothing}
    BY <2>1, <2>3, AfterType
  <2> QED BY <2>2, <2>4
<1>4. 0..Len(c) \subseteq S
  <2> HIDE DEF S
  <2> QED BY <1>1, <1>2, <1>3, InductionTo
<1>5. \A n \in 0..Len(c) : f[n] \in Sessions \cup {Nothing}
  BY <1>4
<1> QED BY <1>1, <1>5 DEF f

(* One more record.                                                         *)
LEMMA ReplayGrows ==
  ASSUME NEW c \in Seq(Line), NEW R, NEW e \in Line
  PROVE  ReplayWith(Append(c, e), R) = After(ReplayWith(c, R), e, R)
<1> DEFINE d == Append(c, e)
           f == ReplayOf(c, R)
           g == ReplayOf(d, R)
           S == {n \in Nat : n <= Len(c) => g[n] = f[n]}
<1>0. /\ d \in Seq(Line) /\ Len(d) = Len(c) + 1 /\ Len(c) \in Nat /\ d[Len(c) + 1] = e
      /\ \A n \in 1..Len(c) : d[n] = c[n]
  OBVIOUS
<1> HIDE DEF d
<1>1. f[0] = EmptySession /\ (\A n \in 1..Len(c) : f[n] = After(f[n - 1], c[n], R))
      /\ ReplayWith(c, R) = f[Len(c)]
  BY ReplaySteps
<1>2. g[0] = EmptySession /\ (\A n \in 1..Len(d) : g[n] = After(g[n - 1], d[n], R))
      /\ ReplayWith(d, R) = g[Len(d)]
  BY <1>0, ReplaySteps
<1> HIDE DEF f, g
<1>3. 0 \in S
  BY <1>1, <1>2
<1>4. ASSUME NEW n \in Nat, n < Len(c), n \in S PROVE n + 1 \in S
  <2>1. n + 1 \in 1..Len(c) /\ n + 1 \in 1..Len(d) /\ (n + 1) - 1 = n
    BY <1>0, <1>4
  <2>2. f[n + 1] = After(f[n], c[n + 1], R) /\ g[n + 1] = After(g[n], c[n + 1], R)
    BY <1>0, <1>1, <1>2, <2>1
  <2>3. g[n] = f[n]
    BY <1>4
  <2> QED BY <2>2, <2>3
<1>5. 0..Len(c) \subseteq S
  <2> HIDE DEF S
  <2> QED BY <1>0, <1>3, <1>4, InductionTo
<1>6. g[Len(c)] = f[Len(c)]
  BY <1>0, <1>5
<1>7. g[Len(d)] = After(g[Len(c)], e, R)
  <2>1. Len(c) + 1 \in 1..Len(d) /\ (Len(c) + 1) - 1 = Len(c)
    BY <1>0
  <2> QED BY <1>0, <1>2, <2>1
<1> QED BY <1>1, <1>2, <1>6, <1>7 DEF d

LEMMA ReplayFirst ==
  ASSUME NEW e \in Line, NEW R
  PROVE  ReplayWith(<<e>>, R) = After(EmptySession, e, R)
<1>1. <<>> \in Seq(Line) /\ <<e>> = Append(<<>>, e) /\ Len(<<>>) = 0
  OBVIOUS
<1>2. ReplayWith(<<>>, R) = EmptySession
  BY <1>1, ReplaySteps
<1> QED BY <1>1, <1>2, ReplayGrows

(* No record but a snapshot takes a root out of the undelivered ones.         *)
LEMMA UndeliveredGrows ==
  ASSUME NEW m \in Sessions, NEW e \in Line, NEW R, e.type # "snapshot",
         m.undelivered # <<>>
  PROVE  Replayed(m, e, R).undelivered # <<>>
<1>1. \/ e.type = "user-input"
      \/ e.type = "turn-start"
      \/ e.type = "messages"
      \/ e.type = "turn-end"
      \/ e.type = "user-input-restored"
      \/ e.type = "user-input-discarded"
      \/ e.type \in {"torn", "session-start"}
  BY LineIs
<1>2. CASE e.type = "user-input"
  <2>1. e.startsTurn \in BOOLEAN /\ e.id \in Inputs /\ m.undelivered \in Seq(Inputs)
    BY <1>2, LineIs, SessionHas
  <2>2. Append(m.undelivered, e.id) # <<>>
    BY <2>1
  <2>3. CASE e.startsTurn /\ e.id \notin R
    <3>1. Replayed(m, e, R).undelivered = Append(m.undelivered, e.id)
      BY <1>2, <2>3, ReplayedOpening
    <3> QED BY <2>2, <3>1
  <2>4. CASE e.startsTurn /\ e.id \in R
    <3>1. Replayed(m, e, R).undelivered = m.undelivered
      BY <1>2, <2>4, ReplayedTaken
    <3> QED BY <3>1
  <2>5. CASE ~e.startsTurn
    <3>1. Replayed(m, e, R) =
            [msgs |-> m.msgs,
             pending |-> Without(m.pending, e.consumed) \o <<[id |-> e.id, state |-> "queued"]>>,
             undelivered |-> m.undelivered, turn |-> m.turn, starts |-> m.starts]
      BY <1>2, <2>5, ReplayedQueued
    <3> QED BY <3>1
  <2> QED BY <2>1, <2>3, <2>4, <2>5
<1>3. CASE e.type = "turn-start"
  <2> DEFINE s == [turn |-> e.turn, at |-> Len(m.msgs), root |-> e.root]
  <2>1. Replayed(m, e, R) =
          [msgs |-> m.msgs, pending |-> m.pending, undelivered |-> m.undelivered,
           turn |-> e.turn, starts |-> Append(m.starts, s)]
    BY <1>3, ReplayedStart
  <2> HIDE DEF s
  <2> QED BY <2>1
<1>4. CASE e.type = "messages"
  <2>1. Replayed(m, e, R) =
          [msgs |-> m.msgs \o e.msgs, pending |-> Without(m.pending, e.delivered),
           undelivered |-> m.undelivered, turn |-> m.turn, starts |-> m.starts]
    BY <1>4, ReplayedMessages
  <2> QED BY <2>1
<1>5. CASE e.type = "turn-end"
  BY <1>5, ReplayedEnd
<1>6. CASE e.type = "user-input-restored"
  BY <1>6, ReplayedRestored
<1>7. CASE e.type = "user-input-discarded"
  BY <1>7, ReplayedDiscarded
<1>8. CASE e.type \in {"torn", "session-start"}
  BY <1>8, ReplayedOther
<1> QED BY <1>1, <1>2, <1>3, <1>4, <1>5, <1>6, <1>7, <1>8

(* When every root of a chain has been taken by a turn, it is the same to    *)
(* the replay which other roots have been taken.                            *)
LEMMA RootsAside ==
  ASSUME NEW c \in Seq(Line), NEW R, NEW R2, R \subseteq R2,
         \A k \in DOMAIN c : c[k].type = "snapshot" => k = 1,
         ReplayWith(c, R) # Nothing, ReplayWith(c, R).undelivered = <<>>
  PROVE  ReplayWith(c, R2) = ReplayWith(c, R)
<1> DEFINE f == ReplayOf(c, R)
           g == ReplayOf(c, R2)
           Good(n) == f[n] = g[n] \/ (f[n] # Nothing => f[n].undelivered # <<>>)
           S == {n \in Nat : n <= Len(c) => Good(n)}
<1>0. f[0] = EmptySession /\ (\A n \in 1..Len(c) : f[n] = After(f[n - 1], c[n], R))
      /\ ReplayWith(c, R) = f[Len(c)] /\ Len(c) \in Nat
  BY ReplaySteps
<1>1. g[0] = EmptySession /\ (\A n \in 1..Len(c) : g[n] = After(g[n - 1], c[n], R2))
      /\ ReplayWith(c, R2) = g[Len(c)]
  BY ReplaySteps
<1>2. \A n \in 0..Len(c) : f[n] \in Sessions \cup {Nothing}
  BY ReplayTypes
<1> HIDE DEF f, g
<1>3. 0 \in S
  BY <1>0, <1>1
<1>4. ASSUME NEW n \in Nat, n < Len(c), n \in S PROVE n + 1 \in S
  <2> DEFINE e == c[n + 1]
             m == f[n]
  <2>1. n + 1 \in 1..Len(c) /\ (n + 1) - 1 = n /\ e \in Line /\ n + 1 \in DOMAIN c
        /\ n \in 0..Len(c)
    BY <1>0, <1>4
  <2>2. f[n + 1] = After(m, e, R) /\ g[n + 1] = After(g[n], e, R2)
    BY <1>0, <1>1, <2>1
  <2>3. Good(n) /\ m \in Sessions \cup {Nothing}
    BY <1>2, <1>4, <2>1
  <2> HIDE DEF e, m
  <2>4. CASE m = Nothing
    BY <2>2, <2>4 DEF After
  <2>5. CASE ~Fits(m, e)
    BY <2>2, <2>5 DEF After
  <2>6. CASE m # Nothing /\ Fits(m, e)
    <3>1. m \in Sessions /\ f[n + 1] = Replayed(m, e, R)
      BY <2>2, <2>3, <2>6 DEF After
    <3>2. CASE m.undelivered # <<>>
      <4>1. e.type # "snapshot"
        <5>1. n # 0
          BY <1>0, <3>2 DEF EmptySession, m
        <5> QED BY <2>1, <5>1 DEF e
      <4>2. Replayed(m, e, R).undelivered # <<>>
        BY <2>1, <3>1, <3>2, <4>1, UndeliveredGrows
      <4> QED BY <3>1, <4>2
    <3>3. CASE m.undelivered = <<>>
      <4>1. g[n] = m
        BY <2>3, <2>6, <3>3 DEF m
      <4>2. g[n + 1] = Replayed(m, e, R2)
        BY <2>2, <2>6, <4>1 DEF After
      <4>3. CASE e.type = "user-input" /\ e.startsTurn /\ e.id \notin R
        <5>1. e.id \in Inputs /\ m.undelivered \in Seq(Inputs)
          BY <2>1, <3>1, <4>3, LineIs, SessionHas
        <5>2. Replayed(m, e, R).undelivered = Append(m.undelivered, e.id)
          BY <3>1, <4>3, ReplayedOpening
        <5>3. Append(m.undelivered, e.id) # <<>>
          BY <5>1
        <5> QED BY <3>1, <5>2, <5>3
      <4>4. CASE ~(e.type = "user-input" /\ e.startsTurn /\ e.id \notin R)
        <5>1. Replayed(m, e, R2) = Replayed(m, e, R)
          <6>1. CASE e.type = "user-input" /\ e.startsTurn
            <7>1. e.id \in R /\ e.id \in R2
              BY <4>4, <6>1
            <7>2. Replayed(m, e, R2) =
                    [msgs |-> m.msgs, pending |-> Without(m.pending, e.consumed) \o <<>>,
                     undelivered |-> m.undelivered, turn |-> m.turn, starts |-> m.starts]
              BY <3>1, <6>1, <7>1, ReplayedTaken
            <7>3. Replayed(m, e, R) =
                    [msgs |-> m.msgs, pending |-> Without(m.pending, e.consumed) \o <<>>,
                     undelivered |-> m.undelivered, turn |-> m.turn, starts |-> m.starts]
              BY <3>1, <6>1, <7>1, ReplayedTaken
            <7> QED BY <7>2, <7>3
          <6>3. CASE e.type = "user-input" /\ ~e.startsTurn
            <7> DEFINE r == [msgs |-> m.msgs,
                             pending |-> Without(m.pending, e.consumed)
                                           \o <<[id |-> e.id, state |-> "queued"]>>,
                             undelivered |-> m.undelivered, turn |-> m.turn,
                             starts |-> m.starts]
            <7>1. Replayed(m, e, R2) = r
              BY <3>1, <6>3, ReplayedQueued
            <7>2. Replayed(m, e, R) = r
              BY <3>1, <6>3, ReplayedQueued
            <7> QED BY <7>1, <7>2
          <6>2. CASE e.type # "user-input"
            BY <6>2 DEF Replayed
          <6> QED BY <6>1, <6>2, <6>3
        <5> QED BY <3>1, <4>2, <5>1
      <4> QED BY <4>3, <4>4
    <3> QED BY <3>2, <3>3
  <2> QED BY <2>4, <2>5, <2>6
<1>5. 0..Len(c) \subseteq S
  <2> HIDE DEF S
  <2> QED BY <1>0, <1>3, <1>4, InductionTo
<1>6. Good(Len(c))
  BY <1>0, <1>5
<1> QED BY <1>0, <1>1, <1>6

-----------------------------------------------------------------------------
(* Transcripts.                                                             *)

WrittenIn(ls, i) == \E j \in DOMAIN ls : ls[j].type = "user-input" /\ ls[j].id = i

(* What the lines before the first torn one are: the first is the start of   *)
(* the session, and a root is written before the turn that takes it.         *)
RootsWritten(ls) ==
  \A n \in DOMAIN ls :
    ls[n].type = "turn-start" /\ ls[n].root # NoInput /\ (\A j \in 1..n : ls[j] # Torn)
      => \E j \in 1..n : ls[j].type = "user-input" /\ ls[j].id = ls[n].root
Good(ls) ==
  /\ Ordered(ls) /\ 1 \in DOMAIN ls /\ ls[1] = SessionStart
  /\ RootsWritten(ls)

LEMMA GoodIs ==
  ASSUME NEW ls, Good(ls)
  PROVE  /\ ls \in Seq(Line) /\ DOMAIN ls = 1..Len(ls) /\ Len(ls) \in Nat /\ Len(ls) >= 1
         /\ Ordered(ls) /\ ls[1] = SessionStart /\ SessionStart # Torn /\ ls[1] # Torn
BY DEF Good, Ordered, SessionStart, Torn

LEMMA GoodAppend ==
  ASSUME NEW ls, Good(ls), NEW e \in Line, e.parent <= Len(ls),
         e.type = "turn-start" /\ e.root # NoInput => Torn \in ToSet(ls) \/ WrittenIn(ls, e.root)
  PROVE  /\ Good(Append(ls, e)) /\ Len(Append(ls, e)) = Len(ls) + 1
         /\ ToSet(Append(ls, e)) = ToSet(ls) \cup {e}
         /\ \A k \in 1..Len(ls) : Append(ls, e)[k] = ls[k]
         /\ Append(ls, e)[Len(ls) + 1] = e
<1> DEFINE N == Len(ls)
           ks == Append(ls, e)
<1>1. ls \in Seq(Line) /\ DOMAIN ls = 1..N /\ N \in Nat /\ N >= 1 /\ ls[1] = SessionStart
  BY GoodIs
<1>2. ks \in Seq(Line) /\ Len(ks) = N + 1 /\ DOMAIN ks = 1..(N + 1) /\ ks[N + 1] = e
      /\ \A k \in 1..N : ks[k] = ls[k]
  BY <1>1
<1> HIDE DEF ks, N
<1>3. \A k \in 1..(N + 1) : k \in 1..N \/ k = N + 1
  BY <1>1
<1>4. Ordered(ks)
  <2>1. \A k \in 1..N : ks[k].parent < k
    BY <1>1, <1>2 DEF Good, Ordered
  <2>2. e.parent \in Nat /\ e.parent <= N
    BY LineIs DEF N
  <2>3. e.parent < N + 1
    BY <1>1, <2>2
  <2>4. ks[N + 1].parent < N + 1
    BY <1>2, <2>3
  <2>5. \A k \in 1..(N + 1) : ks[k].parent < k
    BY <1>3, <2>1, <2>4
  <2> QED BY <1>2, <2>5 DEF Ordered
<1>5. ToSet(ks) = ToSet(ls) \cup {e}
  <2>1. ToSet(ks) = {ks[k] : k \in 1..(N + 1)} /\ ToSet(ls) = {ls[k] : k \in 1..N}
    BY <1>1, <1>2 DEF ToSet
  <2>2. 1..N \subseteq 1..(N + 1) /\ N + 1 \in 1..(N + 1)
    BY <1>1
  <2> QED BY <1>2, <1>3, <2>1, <2>2
<1>6. ASSUME NEW n \in 1..(N + 1), ks[n].type = "turn-start", ks[n].root # NoInput,
             \A j \in 1..n : ks[j] # Torn
      PROVE  \E j \in 1..n : ks[j].type = "user-input" /\ ks[j].id = ks[n].root
  <2>1. CASE n \in 1..N
    <3>1. \A j \in 1..n : j \in 1..N
      BY <1>1, <2>1
    <3>2. \E j \in 1..n : ls[j].type = "user-input" /\ ls[j].id = ls[n].root
      BY <1>1, <1>2, <1>6, <2>1, <3>1 DEF Good, RootsWritten
    <3> QED BY <1>2, <2>1, <3>1, <3>2
  <2>2. CASE n = N + 1
    <3>1. \A j \in 1..N : j \in 1..n
      BY <1>1, <2>2
    <3>2. Torn \notin ToSet(ls)
      <4>1. \A j \in 1..N : ls[j] # Torn
        BY <1>2, <1>6, <3>1
      <4> QED BY <1>1, <4>1 DEF ToSet
    <3>3. PICK j \in 1..N : ls[j].type = "user-input" /\ ls[j].id = e.root
      BY <1>1, <1>2, <1>6, <2>2, <3>2 DEF WrittenIn
    <3> QED BY <1>2, <2>2, <3>1, <3>3
  <2> QED BY <1>3, <2>1, <2>2
<1>7. Good(ks)
  <2>1. 1 \in 1..N
    BY <1>1
  <2>2. 1 \in 1..(N + 1) /\ ks[1] = SessionStart
    BY <1>1, <1>2, <2>1
  <2>3. RootsWritten(ks)
    BY <1>2, <1>6 DEF RootsWritten
  <2> QED BY <1>2, <1>4, <2>2, <2>3 DEF Good
<1> QED BY <1>2, <1>5, <1>7 DEF ks, N

LEMMA GoodFront ==
  ASSUME NEW ls, Good(ls), Len(ls) > 1
  PROVE  /\ Good(Front(ls)) /\ Len(Front(ls)) = Len(ls) - 1
         /\ \A k \in 1..(Len(ls) - 1) : Front(ls)[k] = ls[k]
<1> DEFINE N == Len(ls)
           ks == Front(ls)
<1>1. ls \in Seq(Line) /\ DOMAIN ls = 1..N /\ N \in Nat /\ N > 1 /\ ls[1] = SessionStart
  BY GoodIs
<1>2. ks \in Seq(Line) /\ Len(ks) = N - 1 /\ DOMAIN ks = 1..(N - 1)
      /\ \A k \in 1..(N - 1) : ks[k] = ls[k]
  BY <1>1 DEF Front
<1> HIDE DEF ks, N
<1>3. \A k \in 1..(N - 1) : k \in 1..N
  BY <1>1
<1>4. Ordered(ks)
  BY <1>1, <1>2, <1>3 DEF Good, Ordered
<1>5. RootsWritten(ks)
  <2> SUFFICES ASSUME NEW n \in 1..(N - 1), ks[n].type = "turn-start", ks[n].root # NoInput,
                      \A j \in 1..n : ks[j] # Torn
               PROVE  \E j \in 1..n : ks[j].type = "user-input" /\ ks[j].id = ks[n].root
    BY <1>2 DEF RootsWritten
  <2>1. \A j \in 1..n : j \in 1..(N - 1)
    BY <1>1
  <2>2. \E j \in 1..n : ls[j].type = "user-input" /\ ls[j].id = ls[n].root
    BY <1>1, <1>2, <1>3, <2>1 DEF Good, RootsWritten
  <2> QED BY <1>2, <2>1, <2>2
<1>6. 1 \in 1..(N - 1)
  BY <1>1
<1>7. Good(ks)
  BY <1>1, <1>2, <1>4, <1>5, <1>6 DEF Good
<1> QED BY <1>2, <1>7 DEF ks, N

(* The chain of a line that was added.                                      *)
LEMMA ChainOfNew ==
  ASSUME NEW ls, Good(ls), NEW e, Good(Append(ls, e))
  PROVE  /\ Chains(Append(ls, e))[Len(ls) + 1] = Append(Chains(ls)[e.parent], e)
         /\ e.parent \in 0..Len(ls)
         /\ \A k \in 0..Len(ls) : Chains(Append(ls, e))[k] = Chains(ls)[k]
<1> DEFINE N == Len(ls)
           ks == Append(ls, e)
<1>1. ls \in Seq(Line) /\ N \in Nat /\ Ordered(ls) /\ Ordered(ks)
  BY GoodIs
<1>2. Len(ks) = N + 1 /\ ks[N + 1] = e /\ \A k \in 1..N : ks[k] = ls[k]
  BY <1>1
<1> HIDE DEF ks, N
<1>3. \A k \in 0..N : Chains(ks)[k] = Chains(ls)[k]
  <2>1. N <= Len(ls) /\ N <= Len(ks)
    BY <1>1, <1>2 DEF N
  <2> QED BY <1>1, <1>2, <2>1, ChainsKept
<1>4. N + 1 \in 1..Len(ks) /\ (N + 1) - 1 = N
  BY <1>1, <1>2
<1>5. Chains(ks)[N + 1] = Append(Chains(ks)[e.parent], e) /\ e.parent \in 0..N
  BY <1>1, <1>2, <1>4, ChainsAre
<1> QED BY <1>3, <1>5 DEF ks, N

(* What opening the session loads.                                          *)
LEMMA LoadedIs ==
  ASSUME NEW ls, Good(ls), Torn \notin ToSet(ls)
  PROVE  /\ Loaded(ls) = Replay(Chains(ls)[Len(ls)])
         /\ Loaded(Append(ls, Torn)) = Replay(Chains(ls)[Len(ls)])
<1>1. ls \in Seq(Line) /\ DOMAIN ls = 1..Len(ls) /\ Len(ls) \in Nat /\ Len(ls) >= 1
  BY GoodIs
<1>2. Last(ls) # Torn
  <2>1. Len(ls) \in DOMAIN ls
    BY <1>1
  <2> QED BY <2>1 DEF Last, ToSet
<1>3. Last(Append(ls, Torn)) = Torn /\ Front(Append(ls, Torn)) = ls
  <2> DEFINE ks == Append(ls, Torn)
  <2>1. Torn \in Line
    BY LinesAre
  <2>2. ks \in Seq(Line) /\ Len(ks) = Len(ls) + 1 /\ ks[Len(ls) + 1] = Torn
        /\ \A k \in 1..Len(ls) : ks[k] = ls[k]
    BY <1>1, <2>1
  <2> HIDE DEF ks
  <2>3. Front(ks) \in Seq(Line) /\ Len(Front(ks)) = Len(ls)
        /\ \A k \in 1..Len(ls) : Front(ks)[k] = ls[k]
    BY <1>1, <2>2 DEF Front
  <2>4. Front(ks) = ls
    BY <1>1, <2>3, SeqEq
  <2> QED BY <1>1, <2>2, <2>4 DEF Last, ks
<1> QED BY <1>2, <1>3 DEF Loaded, ActiveChain

LEMMA LoadedType ==
  ASSUME NEW ls, Good(ls)
  PROVE  Loaded(ls) \in Sessions \cup {Nothing}
<1> DEFINE ks == IF Last(ls) = Torn THEN Front(ls) ELSE ls
<1>1. Good(ks)
  <2>1. CASE Last(ls) = Torn
    <3>1. Len(ls) \in Nat /\ Len(ls) >= 1 /\ ls[1] # Torn
      BY GoodIs
    <3>2. Len(ls) > 1
      BY <2>1, <3>1 DEF Last
    <3> QED BY <2>1, <3>2, GoodFront
  <2>2. CASE Last(ls) # Torn
    BY <2>2
  <2> QED BY <2>1, <2>2
<1>2. Loaded(ls) = IF Torn \in ToSet(ks) THEN Nothing ELSE Replay(Chains(ks)[Len(ks)])
  BY DEF Loaded, ActiveChain
<1> HIDE DEF ks
<1>3. Chains(ks)[Len(ks)] \in Seq(Line)
  <2>1. Ordered(ks) /\ Len(ks) \in Nat
    BY <1>1, GoodIs
  <2>2. Len(ks) \in 0..Len(ks)
    BY <2>1
  <2> QED BY <2>1, <2>2, ChainTypes
<1>4. Replay(Chains(ks)[Len(ks)]) \in Sessions \cup {Nothing}
  BY <1>3, ReplayTypes DEF Replay
<1> QED BY <1>2, <1>4

-----------------------------------------------------------------------------
(* Writes.                                                                  *)

Types ==
  /\ Len(lines) \in 1..MaxLines /\ ended \in BOOLEAN /\ leaf \in DOMAIN lines
  /\ failed \in BOOLEAN /\ stage \in {"down", "loaded", "up"}
  /\ caller \in {"idle", "opening", "turn", "restoring"}
  /\ mem \in Sessions /\ undo \in Seq(Int)

FileInv ==
  /\ Good(lines) /\ (~ended => Len(lines) > 1)
  /\ found = Loaded(lines)

(* Nothing was cut so far: the next record is read as it was written.        *)
Whole == ended /\ Torn \notin ToSet(lines)
Here == Chains(lines)[leaf]

(* The transcript after the next line.                                       *)
Begun(e) == IF ended THEN Append(lines, e) ELSE Append(Front(lines), Torn)

(* What a write of e, or of e and f, can leave behind.                       *)
Wrote(ls, en, e, f) ==
  \/ ls = lines /\ en = ended
  \/ ls = Begun(Torn) /\ en = FALSE
  \/ ls = Begun(e) /\ en \in BOOLEAN
  \/ ls = Append(Begun(e), Torn) /\ en = FALSE
  \/ ls = Append(Begun(e), f) /\ en \in BOOLEAN

LEMMA FollowedIs ==
  ASSUME Good(lines), ~ended => Len(lines) > 1, NEW e \in Line, NEW f \in Line
  PROVE  /\ Followed(<<>>) = lines
         /\ Followed(<<e>>) = Begun(e)
         /\ Followed(<<e, f>>) = Append(Begun(e), f)
<1>1. lines \in Seq(Line) /\ Len(lines) \in Nat /\ Torn \in Line
  BY GoodIs, LinesAre
<1>2. <<e>> # <<>> /\ <<e, f>> # <<>> /\ Tail(<<e>>) = <<>> /\ Tail(<<e, f>>) = <<f>>
  OBVIOUS
<1>3. CASE ended
  <2>1. lines \o <<e>> = Append(lines, e)
    BY <1>1
  <2>2. lines \o <<e, f>> = Append(Append(lines, e), f)
    <3> DEFINE p == lines \o <<e, f>>
               q == Append(Append(lines, e), f)
    <3>1. /\ p \in Seq(Line) /\ Len(p) = Len(lines) + 2 /\ p[Len(lines) + 1] = e
          /\ p[Len(lines) + 2] = f /\ \A k \in 1..Len(lines) : p[k] = lines[k]
      BY <1>1
    <3>2. /\ q \in Seq(Line) /\ Len(q) = Len(lines) + 2 /\ q[Len(lines) + 1] = e
          /\ q[Len(lines) + 2] = f /\ \A k \in 1..Len(lines) : q[k] = lines[k]
      BY <1>1
    <3> HIDE DEF p, q
    <3>3. \A k \in 1..Len(q) : k \in 1..Len(lines) \/ k = Len(lines) + 1 \/ k = Len(lines) + 2
      BY <1>1, <3>2
    <3>4. Len(p) = Len(q) /\ \A k \in 1..Len(q) : p[k] = q[k]
      BY <3>1, <3>2, <3>3
    <3>5. p = q
      BY <3>1, <3>2, <3>4, SeqEq
    <3> QED BY <3>5 DEF p, q
  <2> QED BY <1>2, <1>3, <2>1, <2>2 DEF Followed, Begun
<1>4. CASE ~ended
  <2> DEFINE b == Append(Front(lines), Torn)
  <2>1. b \in Seq(Line)
    BY <1>1, <1>4 DEF Front
  <2> HIDE DEF b
  <2>2. b \o <<>> = b /\ b \o <<f>> = Append(b, f)
    BY <2>1
  <2> QED BY <1>2, <1>4, <2>2 DEF Followed, Begun, b
<1> QED BY <1>3, <1>4 DEF Followed

(* Beginnings of one or two records.                                        *)
LEMMA Pieces ==
  ASSUME NEW e \in Line, NEW f \in Line
  PROVE  /\ SubSeq(<<e>>, 1, 0) = <<>> /\ SubSeq(<<e>>, 1, 1) = <<e>>
         /\ SubSeq(<<e, f>>, 1, 0) = <<>> /\ SubSeq(<<e, f>>, 1, 1) = <<e>>
         /\ SubSeq(<<e, f>>, 1, 2) = <<e, f>>
         /\ <<>> \o <<>> = <<>> /\ <<>> \o <<Torn>> = <<Torn>> /\ <<e>> \o <<>> = <<e>>
         /\ <<e>> \o <<Torn>> = <<e, Torn>> /\ <<e, f>> \o <<>> = <<e, f>>
<1>1. <<>> \in Seq(Line) /\ <<e>> \in Seq(Line) /\ <<e, f>> \in Seq(Line)
      /\ <<Torn>> \in Seq(Line) /\ <<e, Torn>> \in Seq(Line)
  BY LinesAre
<1>2. SubSeq(<<e>>, 1, 0) = <<>> /\ SubSeq(<<e, f>>, 1, 0) = <<>>
  BY <1>1
<1>3. SubSeq(<<e>>, 1, 1) = <<e>>
  <2> DEFINE p == SubSeq(<<e>>, 1, 1)
             q == <<e>>
  <2>1. p \in Seq(Line) /\ Len(p) = 1 /\ p[1] = e
    BY <1>1
  <2>2. q \in Seq(Line) /\ Len(q) = 1 /\ q[1] = e
    BY <1>1
  <2> HIDE DEF p, q
  <2>3. \A k \in 1..1 : k = 1
    OBVIOUS
  <2>4. p = q
    BY <2>1, <2>2, <2>3, SeqEq
  <2> QED BY <2>4 DEF p, q
<1>4. SubSeq(<<e, f>>, 1, 1) = <<e>>
  <2> DEFINE p == SubSeq(<<e, f>>, 1, 1)
             q == <<e>>
  <2>1. p \in Seq(Line) /\ Len(p) = 1 /\ p[1] = e
    BY <1>1
  <2>2. q \in Seq(Line) /\ Len(q) = 1 /\ q[1] = e
    BY <1>1
  <2> HIDE DEF p, q
  <2>3. \A k \in 1..1 : k = 1
    OBVIOUS
  <2>4. p = q
    BY <2>1, <2>2, <2>3, SeqEq
  <2> QED BY <2>4 DEF p, q
<1>5. SubSeq(<<e, f>>, 1, 2) = <<e, f>>
  <2> DEFINE p == SubSeq(<<e, f>>, 1, 2)
             q == <<e, f>>
  <2>1. p \in Seq(Line) /\ Len(p) = 2 /\ p[1] = e /\ p[2] = f
    BY <1>1
  <2>2. q \in Seq(Line) /\ Len(q) = 2 /\ q[1] = e /\ q[2] = f
    BY <1>1
  <2> HIDE DEF p, q
  <2>3. \A k \in 1..2 : k = 1 \/ k = 2
    OBVIOUS
  <2>4. p = q
    BY <2>1, <2>2, <2>3, SeqEq
  <2> QED BY <2>4 DEF p, q
<1>6. <<>> \o <<>> = <<>> /\ <<>> \o <<Torn>> = <<Torn>>
  BY <1>1
<1>7. <<e>> \o <<>> = <<e>>
  BY <1>1
<1>8. <<e>> \o <<Torn>> = <<e, Torn>>
  <2> DEFINE p == <<e>> \o <<Torn>>
             q == <<e, Torn>>
  <2>1. p \in Seq(Line) /\ Len(p) = 2 /\ p[1] = e /\ p[2] = Torn
    BY <1>1
  <2>2. q \in Seq(Line) /\ Len(q) = 2 /\ q[1] = e /\ q[2] = Torn
    BY <1>1
  <2> HIDE DEF p, q
  <2>3. \A k \in 1..2 : k = 1 \/ k = 2
    OBVIOUS
  <2>4. p = q
    BY <2>1, <2>2, <2>3, SeqEq
  <2> QED BY <2>4 DEF p, q
<1>9. <<e, f>> \o <<>> = <<e, f>>
  BY <1>1
<1> QED BY <1>2, <1>3, <1>4, <1>5, <1>6, <1>7, <1>8, <1>9

LEMMA CutOne ==
  ASSUME Good(lines), ~ended => Len(lines) > 1, NEW e \in Line, NEW f \in Line,
         NEW c \in Cuts(<<e>>), WriteCut(<<e>>, c)
  PROVE  Wrote(lines', ended', e, f)
<1>1. c.n \in 0..1 /\ c.rest \in {"none", "part", "no-break"}
      /\ (c.rest = "part" => c.n < 1) /\ (c.rest = "no-break" => c.n > 0)
  BY DEF Cuts
<1>2. Torn \in Line
  BY LinesAre
<1>3. SubSeq(<<e>>, 1, 0) = <<>> /\ SubSeq(<<e>>, 1, 1) = <<e>> /\ <<>> \o <<>> = <<>>
      /\ <<>> \o <<Torn>> = <<Torn>> /\ <<e>> \o <<>> = <<e>>
  BY Pieces
<1>4. CASE c.n = 0 /\ c.rest = "none"
  BY <1>2, <1>3, <1>4, FollowedIs DEF WriteCut, Wrote
<1>5. CASE c.n = 0 /\ c.rest = "part"
  BY <1>2, <1>3, <1>5, FollowedIs DEF WriteCut, Wrote
<1>6. CASE c.n = 1 /\ c.rest # "part"
  <2>1. lines' = Begun(e)
    BY <1>2, <1>3, <1>6, FollowedIs DEF WriteCut
  <2>2. ended' = (c.rest = "none")
    BY <1>6 DEF WriteCut
  <2>3. ended' \in BOOLEAN
    BY <2>2
  <2> QED BY <2>1, <2>3 DEF Wrote
<1> QED BY <1>1, <1>4, <1>5, <1>6

(* After a write of one record there is no second one.                       *)
LEMMA CutOneFound ==
  ASSUME Good(lines), ~ended => Len(lines) > 1, NEW e \in Line,
         NEW c \in Cuts(<<e>>), WriteCut(<<e>>, c)
  PROVE  lines' = lines \/ lines' = Begun(Torn) \/ lines' = Begun(e)
<1>1. c.n \in 0..1 /\ c.rest \in {"none", "part", "no-break"}
      /\ (c.rest = "part" => c.n < 1) /\ (c.rest = "no-break" => c.n > 0)
  BY DEF Cuts
<1>2. Torn \in Line
  BY LinesAre
<1>3. SubSeq(<<e>>, 1, 0) = <<>> /\ SubSeq(<<e>>, 1, 1) = <<e>> /\ <<>> \o <<>> = <<>>
      /\ <<>> \o <<Torn>> = <<Torn>> /\ <<e>> \o <<>> = <<e>>
  BY Pieces
<1>4. CASE c.n = 0 /\ c.rest = "none"
  BY <1>2, <1>3, <1>4, FollowedIs DEF WriteCut
<1>5. CASE c.n = 0 /\ c.rest = "part"
  BY <1>2, <1>3, <1>5, FollowedIs DEF WriteCut
<1>6. CASE c.n = 1 /\ c.rest # "part"
  BY <1>2, <1>3, <1>6, FollowedIs DEF WriteCut
<1> QED BY <1>1, <1>4, <1>5, <1>6

LEMMA CutTwo ==
  ASSUME Good(lines), ~ended => Len(lines) > 1, NEW e \in Line, NEW f \in Line,
         NEW c \in Cuts(<<e, f>>), WriteCut(<<e, f>>, c)
  PROVE  Wrote(lines', ended', e, f)
<1>1. c.n \in 0..2 /\ c.rest \in {"none", "part", "no-break"}
      /\ (c.rest = "part" => c.n < 2) /\ (c.rest = "no-break" => c.n > 0)
  BY DEF Cuts
<1>2. Torn \in Line
  BY LinesAre
<1>3. /\ SubSeq(<<e, f>>, 1, 0) = <<>> /\ SubSeq(<<e, f>>, 1, 1) = <<e>>
      /\ SubSeq(<<e, f>>, 1, 2) = <<e, f>>
      /\ <<>> \o <<>> = <<>> /\ <<>> \o <<Torn>> = <<Torn>> /\ <<e>> \o <<>> = <<e>>
      /\ <<e>> \o <<Torn>> = <<e, Torn>> /\ <<e, f>> \o <<>> = <<e, f>>
  BY Pieces
<1>4. CASE c.n = 0 /\ c.rest = "none"
  BY <1>2, <1>3, <1>4, FollowedIs DEF WriteCut, Wrote
<1>5. CASE c.n = 0 /\ c.rest = "part"
  BY <1>2, <1>3, <1>5, FollowedIs DEF WriteCut, Wrote
<1>6. CASE c.n = 1 /\ c.rest = "part"
  <2>1. lines' = Append(Begun(e), Torn) /\ ended' = FALSE
    BY <1>2, <1>3, <1>6, FollowedIs DEF WriteCut
  <2> QED BY <2>1 DEF Wrote
<1>7. CASE c.n = 1 /\ c.rest # "part"
  <2>1. lines' = Begun(e)
    BY <1>2, <1>3, <1>7, FollowedIs DEF WriteCut
  <2>2. ended' = (c.rest = "none")
    BY <1>7 DEF WriteCut
  <2>3. ended' \in BOOLEAN
    BY <2>2
  <2> QED BY <2>1, <2>3 DEF Wrote
<1>8. CASE c.n = 2
  <2>1. c.rest # "part"
    BY <1>1, <1>8
  <2>2. lines' = Append(Begun(e), f)
    BY <1>2, <1>3, <1>8, <2>1, FollowedIs DEF WriteCut
  <2>3. ended' = (c.rest = "none")
    BY <1>8 DEF WriteCut
  <2>4. ended' \in BOOLEAN
    BY <2>3
  <2> QED BY <2>2, <2>4 DEF Wrote
<1> QED BY <1>1, <1>4, <1>5, <1>6, <1>7, <1>8

(* A record that may be written next.                                       *)
Writable(e) ==
  /\ e \in Line /\ e # Torn /\ e.parent <= Len(lines)
  /\ e.type = "turn-start" /\ e.root # NoInput /\ ended =>
       Torn \in ToSet(lines) \/ WrittenIn(lines, e.root)

LEMMA BegunIs ==
  ASSUME FileInv, ended \in BOOLEAN, NEW e, Writable(e) \/ e = Torn
  PROVE  /\ Good(Begun(e)) /\ Len(Begun(e)) = NextLine /\ NextLine >= Len(lines)
         /\ NextLine \in Nat /\ NextLine > 1
         /\ ended => /\ Begun(e) = Append(lines, e) /\ NextLine = Len(lines) + 1
                     /\ ToSet(Begun(e)) = ToSet(lines) \cup {e}
         /\ ~ended => Torn \in ToSet(Begun(e)) /\ NextLine = Len(lines)
<1>0. Good(lines) /\ (~ended => Len(lines) > 1)
  BY DEF FileInv
<1>1. lines \in Seq(Line) /\ Len(lines) \in Nat /\ Len(lines) >= 1
  BY <1>0, GoodIs
<1>2. Torn \in Line /\ Torn.parent = 0 /\ Torn.type = "torn"
  BY LinesAre DEF Torn, NoParent
<1>3. CASE ended
  <2>1. /\ e \in Line /\ e.parent <= Len(lines)
        /\ e.type = "turn-start" /\ e.root # NoInput =>
             Torn \in ToSet(lines) \/ WrittenIn(lines, e.root)
    BY <1>1, <1>2, <1>3 DEF Writable
  <2>2. /\ Good(Append(lines, e)) /\ Len(Append(lines, e)) = Len(lines) + 1
        /\ ToSet(Append(lines, e)) = ToSet(lines) \cup {e}
    BY <1>0, <2>1, GoodAppend
  <2>3. Begun(e) = Append(lines, e) /\ NextLine = Len(lines) + 1
    BY <1>3 DEF Begun, NextLine
  <2> QED BY <1>1, <1>3, <2>2, <2>3
<1>4. CASE ~ended
  <2> DEFINE k == Front(lines)
  <2>1. Good(k) /\ Len(k) = Len(lines) - 1
    BY <1>0, <1>4, GoodFront
  <2> HIDE DEF k
  <2>2. Torn.parent <= Len(k)
    BY <1>0, <1>1, <1>2, <1>4, <2>1
  <2>3. /\ Good(Append(k, Torn)) /\ Len(Append(k, Torn)) = Len(k) + 1
        /\ ToSet(Append(k, Torn)) = ToSet(k) \cup {Torn}
    BY <1>2, <2>1, <2>2, GoodAppend
  <2>4. Begun(e) = Append(k, Torn) /\ NextLine = Len(lines)
    BY <1>4 DEF Begun, NextLine, k
  <2> QED BY <1>0, <1>1, <1>4, <2>1, <2>3, <2>4
<1> QED BY <1>3, <1>4

(* A line added to what was begun.                                          *)
LEMMA BegunGoesOn ==
  ASSUME FileInv, ended \in BOOLEAN, NEW e, Writable(e), NEW f \in Line,
         f.parent <= NextLine, f.type # "turn-start"
  PROVE  /\ Good(Append(Begun(e), f)) /\ Len(Append(Begun(e), f)) = NextLine + 1
         /\ ToSet(Append(Begun(e), f)) = ToSet(Begun(e)) \cup {f}
         /\ \A k \in 1..NextLine : Append(Begun(e), f)[k] = Begun(e)[k]
<1> DEFINE b == Begun(e)
<1>1. Good(b) /\ Len(b) = NextLine
  BY BegunIs
<1> HIDE DEF b
<1>2. /\ Good(Append(b, f)) /\ Len(Append(b, f)) = Len(b) + 1
      /\ ToSet(Append(b, f)) = ToSet(b) \cup {f}
      /\ \A k \in 1..Len(b) : Append(b, f)[k] = b[k]
  BY <1>1, GoodAppend
<1> QED BY <1>1, <1>2 DEF b

(* What is written is a transcript again; unless it is torn, it goes on     *)
(* where the lines ended.                                                   *)
LEMMA FileKept ==
  ASSUME FileInv, ended \in BOOLEAN, NEW e, Writable(e), NEW f \in Line,
         f.parent <= NextLine, f.type # "turn-start",
         NEW ls, NEW en, Wrote(ls, en, e, f)
  PROVE  /\ Good(ls) /\ en \in BOOLEAN /\ (~en => Len(ls) > 1) /\ Len(ls) >= Len(lines)
         /\ Len(ls) <= NextLine + 1
         /\ Torn \notin ToSet(ls) =>
              /\ Torn \notin ToSet(lines)
              /\ (ls = lines /\ en = ended) \/ (ended /\ Len(ls) > Len(lines))
              /\ \A k \in 1..Len(lines) : ls[k] = lines[k]
              /\ \A k \in 0..Len(lines) : Chains(ls)[k] = Chains(lines)[k]
<1>1. Good(lines) /\ (~ended => Len(lines) > 1)
  BY DEF FileInv
<1>2. /\ lines \in Seq(Line) /\ Len(lines) \in Nat /\ NextLine \in Nat /\ NextLine >= Len(lines)
      /\ NextLine > 1 /\ (ended => NextLine = Len(lines) + 1)
  BY <1>1, GoodIs, BegunIs
<1>3. CASE ls = lines /\ en = ended
  <2>1. Good(ls) /\ en \in BOOLEAN /\ (~en => Len(ls) > 1)
    BY <1>1, <1>3
  <2>2. Len(ls) >= Len(lines) /\ Len(ls) <= NextLine + 1
    BY <1>2, <1>3
  <2>3. /\ \A k \in 1..Len(lines) : ls[k] = lines[k]
        /\ \A k \in 0..Len(lines) : Chains(ls)[k] = Chains(lines)[k]
        /\ ToSet(ls) = ToSet(lines)
    BY <1>3
  <2>4. (ls = lines /\ en = ended) \/ (ended /\ Len(ls) > Len(lines))
    BY <1>3, Zenon
  <2>5. Torn \notin ToSet(ls) => Torn \notin ToSet(lines)
    BY <2>3
  <2> QED BY <2>1, <2>2, <2>3, <2>4, <2>5, Zenon
<1> DEFINE t == Begun(Torn)
           b == Begun(e)
           a == Append(Begun(e), Torn)
           d == Append(Begun(e), f)
<1>4. /\ Good(t) /\ Len(t) = NextLine /\ Torn \in ToSet(t)
  <2>1. /\ Good(t) /\ Len(t) = NextLine
        /\ ended => ToSet(t) = ToSet(lines) \cup {Torn}
        /\ ~ended => Torn \in ToSet(t)
    BY BegunIs
  <2> QED BY <2>1
<1>5. /\ Good(b) /\ Len(b) = NextLine
      /\ ended => b = Append(lines, e) /\ ToSet(b) = ToSet(lines) \cup {e}
      /\ ~ended => Torn \in ToSet(b)
  BY BegunIs
<1>6. Good(a) /\ Len(a) = NextLine + 1 /\ Torn \in ToSet(a)
  <2>1. Torn \in Line /\ Torn.parent <= NextLine /\ Torn.type # "turn-start"
    BY <1>2, LinesAre DEF Torn, NoParent
  <2>2. Good(a) /\ Len(a) = NextLine + 1 /\ ToSet(a) = ToSet(b) \cup {Torn}
    BY <2>1, BegunGoesOn
  <2> QED BY <2>2
<1>7. /\ Good(d) /\ Len(d) = NextLine + 1 /\ ToSet(d) = ToSet(b) \cup {f}
      /\ \A k \in 1..NextLine : d[k] = b[k]
  BY BegunGoesOn
<1>8. ended => \A k \in 1..Len(lines) : b[k] = lines[k]
  <2>1. e \in Line
    BY DEF Writable
  <2> QED BY <1>2, <1>5, <2>1
<1>9. Wrote(ls, en, e, f)
  OBVIOUS
<1>10. \/ ls = lines /\ en = ended
       \/ ls = t /\ en = FALSE
       \/ ls = b /\ en \in BOOLEAN
       \/ ls = a /\ en = FALSE
       \/ ls = d /\ en \in BOOLEAN
  BY <1>9 DEF Wrote
<1> HIDE DEF t, b, a, d
(* lines that go on and the chains of them.                                  *)
<1>11. ASSUME NEW ks, Good(ks), Len(ks) >= Len(lines), \A k \in 1..Len(lines) : ks[k] = lines[k]
       PROVE  \A k \in 0..Len(lines) : Chains(ks)[k] = Chains(lines)[k]
  <2>1. Ordered(ks) /\ Ordered(lines) /\ Len(lines) <= Len(lines) /\ Len(lines) <= Len(ks)
    BY <1>1, <1>2, <1>11, GoodIs
  <2> QED BY <1>2, <1>11, <2>1, ChainsKept
<1>12. CASE ls = t /\ en = FALSE
  <2>1. Len(ls) > 1 /\ Len(ls) >= Len(lines) /\ Len(ls) <= NextLine + 1
    BY <1>2, <1>4, <1>12
  <2>2. Good(ls) /\ Torn \in ToSet(ls) /\ en \in BOOLEAN
    BY <1>4, <1>12
  <2> QED BY <2>1, <2>2
<1>13. CASE ls = a /\ en = FALSE
  <2>1. Len(ls) > 1 /\ Len(ls) >= Len(lines) /\ Len(ls) <= NextLine + 1
    BY <1>2, <1>6, <1>13
  <2>2. Good(ls) /\ Torn \in ToSet(ls) /\ en \in BOOLEAN
    BY <1>6, <1>13
  <2> QED BY <2>1, <2>2
<1>14. CASE ls = b /\ en \in BOOLEAN
  <2>1. /\ Good(ls) /\ en \in BOOLEAN /\ (~en => Len(ls) > 1) /\ Len(ls) >= Len(lines)
        /\ Len(ls) <= NextLine + 1
    BY <1>2, <1>5, <1>14
  <2>2. ASSUME Torn \notin ToSet(ls)
        PROVE  /\ Torn \notin ToSet(lines) /\ ended /\ Len(ls) > Len(lines)
               /\ \A k \in 1..Len(lines) : ls[k] = lines[k]
    <3>1. ended
      BY <1>5, <1>14, <2>2
    <3> QED BY <1>2, <1>5, <1>8, <1>14, <2>2, <3>1
  <2> QED BY <1>11, <2>1, <2>2
<1>15. CASE ls = d /\ en \in BOOLEAN
  <2>1. /\ Good(ls) /\ en \in BOOLEAN /\ (~en => Len(ls) > 1) /\ Len(ls) >= Len(lines)
        /\ Len(ls) <= NextLine + 1
    BY <1>2, <1>7, <1>15
  <2>2. ASSUME Torn \notin ToSet(ls)
        PROVE  /\ Torn \notin ToSet(lines) /\ ended /\ Len(ls) > Len(lines)
               /\ \A k \in 1..Len(lines) : ls[k] = lines[k]
    <3>1. ended /\ Torn \notin ToSet(lines)
      BY <1>5, <1>7, <1>15, <2>2
    <3>2. \A k \in 1..Len(lines) : k \in 1..NextLine
      BY <1>2
    <3>3. \A k \in 1..Len(lines) : ls[k] = lines[k]
      BY <1>7, <1>8, <1>15, <3>1, <3>2
    <3> QED BY <1>2, <1>7, <1>15, <3>1, <3>3
  <2> QED BY <1>11, <2>1, <2>2
<1> QED BY <1>3, <1>10, <1>12, <1>13, <1>14, <1>15

(* The chain of the next record, and of a record after it.                   *)
FirstChain(e) == Append(Chains(lines)[e.parent], e)
SecondChain(e, f) == Append(FirstChain(e), f)

LEMMA NextChains ==
  ASSUME FileInv, Whole, NEW e, Writable(e), NEW f \in Line,
         f.parent = NextLine, f.type # "turn-start"
  PROVE  /\ Chains(Begun(e))[Len(lines) + 1] = FirstChain(e)
         /\ Chains(Append(Begun(e), f))[Len(lines) + 2] = SecondChain(e, f)
         /\ FirstChain(e) \in Seq(Line) /\ SecondChain(e, f) \in Seq(Line)
<1>1. Good(lines) /\ ended /\ ended \in BOOLEAN /\ Torn \notin ToSet(lines)
  BY DEF FileInv, Whole
<1>2. lines \in Seq(Line) /\ Len(lines) \in Nat /\ Ordered(lines)
  BY <1>1, GoodIs
<1> DEFINE b == Begun(e)
<1>3. Good(b) /\ Len(b) = Len(lines) + 1 /\ b = Append(lines, e) /\ NextLine = Len(lines) + 1
  BY <1>1, BegunIs
<1>4. f.parent <= NextLine /\ NextLine \in Nat
  BY <1>2, <1>3
<1>5. Good(Append(b, f))
  BY <1>1, <1>4, BegunGoesOn
<1> HIDE DEF b
<1>6. /\ Chains(b)[Len(lines) + 1] = FirstChain(e) /\ e.parent \in 0..Len(lines)
  BY <1>1, <1>3, ChainOfNew DEF FirstChain
<1>7. Chains(Append(b, f))[Len(b) + 1] = Append(Chains(b)[f.parent], f)
  BY <1>3, <1>5, ChainOfNew
<1>8. (Len(lines) + 1) + 1 = Len(lines) + 2
  BY <1>2
<1>9. Chains(Append(b, f))[Len(lines) + 2] = SecondChain(e, f)
  BY <1>3, <1>6, <1>7, <1>8 DEF SecondChain
<1>10. Chains(lines)[e.parent] \in Seq(Line) /\ e \in Line
  BY <1>2, <1>6, ChainTypes DEF Writable
<1>11. FirstChain(e) \in Seq(Line)
  BY <1>10 DEF FirstChain
<1>12. SecondChain(e, f) \in Seq(Line)
  BY <1>11 DEF SecondChain
<1> QED BY <1>6, <1>9, <1>11, <1>12 DEF b

(* What is found after a write, if nothing was cut before it.                *)
LEMMA FoundAfter ==
  ASSUME FileInv, Whole, NEW e, Writable(e), NEW f \in Line, f # Torn,
         f.parent = NextLine, f.type # "turn-start"
  PROVE  /\ Loaded(Begun(Torn)) = found
         /\ Loaded(Begun(e)) = Replay(FirstChain(e))
         /\ Loaded(Append(Begun(e), Torn)) = Replay(FirstChain(e))
         /\ Loaded(Append(Begun(e), f)) = Replay(SecondChain(e, f))
<1>1. Good(lines) /\ ended /\ ended \in BOOLEAN /\ Torn \notin ToSet(lines)
      /\ found = Loaded(lines)
  BY DEF FileInv, Whole
<1>2. lines \in Seq(Line) /\ Len(lines) \in Nat /\ Ordered(lines)
  BY <1>1, GoodIs
<1> DEFINE b == Begun(e)
           d == Append(Begun(e), f)
<1>3. Loaded(Begun(Torn)) = found
  <2>1. Begun(Torn) = Append(lines, Torn)
    BY <1>1 DEF Begun
  <2> QED BY <1>1, <2>1, LoadedIs
<1>4. /\ Good(b) /\ Len(b) = Len(lines) + 1 /\ NextLine = Len(lines) + 1
      /\ ToSet(b) = ToSet(lines) \cup {e}
  BY <1>1, BegunIs
<1>5. f.parent <= NextLine /\ NextLine \in Nat
  BY <1>2, <1>4
<1>6. /\ Good(d) /\ Len(d) = NextLine + 1 /\ ToSet(d) = ToSet(b) \cup {f}
  BY <1>1, <1>5, BegunGoesOn
<1>7. /\ Chains(b)[Len(lines) + 1] = FirstChain(e)
      /\ Chains(d)[Len(lines) + 2] = SecondChain(e, f)
  BY NextChains
<1>8. e # Torn
  BY DEF Writable
<1>9. Torn \notin ToSet(b)
  BY <1>1, <1>4, <1>8
<1>10. Torn \notin ToSet(d)
  BY <1>6, <1>9
<1> HIDE DEF b, d
<1>11. Loaded(b) = Replay(FirstChain(e)) /\ Loaded(Append(b, Torn)) = Replay(FirstChain(e))
  BY <1>4, <1>7, <1>9, LoadedIs
<1>12. Len(d) = Len(lines) + 2
  BY <1>2, <1>4, <1>6
<1>13. Loaded(d) = Replay(SecondChain(e, f))
  BY <1>6, <1>7, <1>10, <1>12, LoadedIs
<1> QED BY <1>3, <1>11, <1>13 DEF b, d

-----------------------------------------------------------------------------
(* The inductive invariant.                                                 *)

(* A root that is to be taken by a turn is in the file for good, unless     *)
(* something was cut before it.                                             *)
Secured(ls, en, r) ==
  \/ Torn \in ToSet(ls)
  \/ \E j \in DOMAIN ls :
       (en \/ j < Len(ls)) /\ ls[j].type = "user-input" /\ ls[j].id = r

(* What the session and its journal agree on.                                *)
MemInv ==
  /\ caller = "opening" =>
       ~failed /\ \E r \in Inputs : mem.undelivered = <<r>> /\ Secured(lines, ended, r)
  /\ stage = "up" /\ caller = "idle" /\ ~failed => mem.undelivered = <<>>
  /\ caller \in {"turn", "restoring"} => mem.undelivered = <<>>
  /\ undo # <<>> <=> caller = "restoring"
  /\ stage # "up" => caller = "idle" /\ ~failed

Emptied(m) == [m EXCEPT !.undelivered = <<>>]

(* The chain of the leaf replays what is in memory; with the root that opens *)
(* a turn counted as taken, what is in memory without it.                   *)
TruthInv ==
  /\ stage = "loaded" => Whole /\ leaf = Len(lines) /\ mem = found
  /\ stage = "up" /\ Whole => Replay(Here) = Seen(mem)
  /\ stage = "up" /\ Whole /\ caller = "opening" =>
       ReplayWith(Here, TakenRoots(Here) \cup ToSet(mem.undelivered)) = Emptied(mem)

IInv == Types /\ FileInv /\ MemInv /\ TruthInv

(* The three ways an append ends: done, cut, or cut by the death of the      *)
(* process.  last is the file after it is done, seen what may be found.      *)
Attempt(e, f, last, seen, m, next, other, fl) ==
  \/ /\ lines' = last /\ ended' = TRUE /\ leaf' = Len(last) /\ mem' = m
     /\ caller' = next /\ undo' = Kept(next) /\ stage' = stage /\ failed' = failed
  \/ /\ Wrote(lines', ended', e, f) /\ Len(lines') <= MaxLines
     /\ mem' = mem /\ leaf' = leaf
     /\ Whole => found' \in seen
     /\ \/ /\ stage' = stage /\ caller' = other /\ undo' = Kept(other) /\ failed' = fl
        \/ /\ stage' = "down" /\ caller' = "idle" /\ undo' = <<>> /\ failed' = FALSE

(* A line that could follow.                                                *)
Other == TurnEnd(NextLine, NoTurn)

LEMMA OtherIs ==
  ASSUME FileInv, ended \in BOOLEAN
  PROVE  /\ Other \in Line /\ Other # Torn /\ Other.parent = NextLine
         /\ Other.type # "turn-start"
<1>1. NextLine \in Nat
  <2>1. Torn = Torn
    OBVIOUS
  <2> QED BY <2>1, BegunIs
<1>2. NoTurn \in 0..MaxLines
  BY MaxLinesAssumption DEF NoTurn
<1>3. Other \in Line
  BY <1>1, <1>2, LinesAre DEF Other
<1> QED BY <1>3 DEF Other, TurnEnd, Torn

LEMMA AttemptOne ==
  ASSUME IInv, NEW e, Writable(e), NEW m, NEW next, NEW other, NEW fl,
         Record(<<e>>, m, next, other, fl), found' = Loaded(lines')
  PROVE  /\ Attempt(e, Other, Begun(e), {found, Replay(FirstChain(e))}, m, next, other, fl)
         /\ stage = "up" /\ Len(Begun(e)) <= MaxLines
<1>1. /\ Good(lines) /\ (~ended => Len(lines) > 1) /\ FileInv /\ ended \in BOOLEAN
      /\ Len(lines) \in Nat /\ found = Loaded(lines)
  BY GoodIs DEF IInv, FileInv, Types
<1>2. e \in Line /\ Other \in Line
  BY <1>1, OtherIs DEF Writable
<1>3. /\ Len(Begun(e)) = NextLine /\ Len(Begun(Torn)) = NextLine /\ NextLine \in Nat
      /\ (ended => NextLine = Len(lines) + 1) /\ (~ended => NextLine = Len(lines))
  BY <1>1, BegunIs
<1>4. Len(<<e>>) = 1 /\ <<e>> \in Seq(Line)
  BY <1>2
<1>5. stage = "up" /\ Len(lines) + 1 <= MaxLines /\ MaxLines \in Nat
  BY <1>4, MaxLinesAssumption DEF Record
<1>6. NextLine <= MaxLines /\ Len(lines) <= MaxLines
  BY <1>1, <1>3, <1>5
<1>7. ASSUME Succeeds(<<e>>, m)
      PROVE  lines' = Begun(e) /\ ended' = TRUE /\ leaf' = Len(Begun(e)) /\ mem' = m
  <2>1. lines' = Begun(e)
    BY <1>1, <1>2, <1>7, FollowedIs DEF Succeeds
  <2>2. leaf' = NextLine + 1 - 1
    BY <1>4, <1>7 DEF Succeeds
  <2>3. leaf' = NextLine
    BY <1>3, <2>2
  <2> QED BY <1>3, <1>7, <2>1, <2>3 DEF Succeeds
<1>8. ASSUME \E c \in Cuts(<<e>>) : WriteCut(<<e>>, c)
      PROVE  /\ Wrote(lines', ended', e, Other) /\ Len(lines') <= MaxLines
             /\ Whole => found' \in {found, Replay(FirstChain(e))}
  <2>1. PICK c \in Cuts(<<e>>) : WriteCut(<<e>>, c)
    BY <1>8
  <2>2. Wrote(lines', ended', e, Other)
    BY <1>1, <1>2, <2>1, CutOne
  <2>3. lines' = lines \/ lines' = Begun(Torn) \/ lines' = Begun(e)
    BY <1>1, <1>2, <2>1, CutOneFound
  <2>4. Len(lines') <= MaxLines
    BY <1>3, <1>6, <2>3
  <2>5. ASSUME Whole PROVE found' \in {found, Replay(FirstChain(e))}
    <3>1. /\ Loaded(Begun(Torn)) = found
          /\ Loaded(Begun(e)) = Replay(FirstChain(e))
      BY <1>1, <2>5, OtherIs, FoundAfter
    <3> QED BY <1>1, <2>3, <3>1
  <2> QED BY <2>2, <2>4, <2>5
<1>9. CASE /\ Succeeds(<<e>>, m)
           /\ caller' = next /\ undo' = Kept(next) /\ UNCHANGED <<stage, failed>>
  BY <1>3, <1>5, <1>6, <1>7, <1>9 DEF Attempt
<1>10. CASE /\ Fails(<<e>>)
            /\ caller' = other /\ undo' = Kept(other) /\ failed' = fl
  BY <1>3, <1>5, <1>6, <1>8, <1>10 DEF Attempt, Fails
<1>11. CASE (\E c \in Cuts(<<e>>) : WriteCut(<<e>>, c)) /\ Dies
  BY <1>3, <1>5, <1>6, <1>8, <1>11 DEF Attempt, Dies
<1> QED BY <1>9, <1>10, <1>11 DEF Record

LEMMA AttemptTwo ==
  ASSUME IInv, NEW e, Writable(e), NEW f \in Line, f # Torn, f.parent = NextLine,
         f.type # "turn-start", NEW m, NEW next, NEW other, NEW fl,
         Record(<<e, f>>, m, next, other, fl), found' = Loaded(lines')
  PROVE  /\ Attempt(e, f, Append(Begun(e), f),
                    {found, Replay(FirstChain(e)), Replay(SecondChain(e, f))},
                    m, next, other, fl)
         /\ stage = "up" /\ Len(Append(Begun(e), f)) <= MaxLines
<1>1. /\ Good(lines) /\ (~ended => Len(lines) > 1) /\ FileInv /\ ended \in BOOLEAN
      /\ Len(lines) \in Nat /\ found = Loaded(lines)
  BY GoodIs DEF IInv, FileInv, Types
<1>2. e \in Line /\ Torn \in Line
  BY LinesAre DEF Writable
<1>3. /\ Len(Begun(e)) = NextLine /\ Len(Begun(Torn)) = NextLine /\ NextLine \in Nat
      /\ (ended => NextLine = Len(lines) + 1) /\ (~ended => NextLine = Len(lines))
  BY <1>1, BegunIs
<1>4. Len(<<e, f>>) = 2 /\ <<e, f>> \in Seq(Line)
  BY <1>2
<1>5. stage = "up" /\ Len(lines) + 2 <= MaxLines /\ MaxLines \in Nat
  BY <1>4, MaxLinesAssumption DEF Record
<1>6. NextLine + 1 <= MaxLines /\ Len(lines) <= MaxLines
  BY <1>1, <1>3, <1>5
<1>7. Len(Append(Begun(e), f)) = NextLine + 1
  <2>1. f.parent <= NextLine
    BY <1>3
  <2> QED BY <1>1, <2>1, BegunGoesOn
<1>8. ASSUME Succeeds(<<e, f>>, m)
      PROVE  /\ lines' = Append(Begun(e), f) /\ ended' = TRUE
             /\ leaf' = Len(Append(Begun(e), f)) /\ mem' = m
  <2>1. lines' = Append(Begun(e), f)
    BY <1>1, <1>2, <1>8, FollowedIs DEF Succeeds
  <2>2. leaf' = NextLine + 2 - 1
    BY <1>4, <1>8 DEF Succeeds
  <2>3. leaf' = NextLine + 1
    BY <1>3, <2>2
  <2> QED BY <1>7, <1>8, <2>1, <2>3 DEF Succeeds
<1>9. ASSUME \E c \in Cuts(<<e, f>>) : WriteCut(<<e, f>>, c)
      PROVE  /\ Wrote(lines', ended', e, f) /\ Len(lines') <= MaxLines
             /\ Whole => found' \in {found, Replay(FirstChain(e)), Replay(SecondChain(e, f))}
  <2>1. PICK c \in Cuts(<<e, f>>) : WriteCut(<<e, f>>, c)
    BY <1>9
  <2>2. Wrote(lines', ended', e, f)
    BY <1>1, <1>2, <2>1, CutTwo
  <2>3. Len(lines') <= MaxLines
    <3>1. f.parent <= NextLine
      BY <1>3
    <3>2. Len(lines') <= NextLine + 1 /\ Good(lines')
      BY <1>1, <2>2, <3>1, FileKept
    <3>3. Len(lines') \in Nat
      BY <3>2, GoodIs
    <3> QED BY <1>3, <1>5, <1>6, <3>2, <3>3
  <2>4. ASSUME Whole
        PROVE  found' \in {found, Replay(FirstChain(e)), Replay(SecondChain(e, f))}
    <3>1. /\ Loaded(Begun(Torn)) = found
          /\ Loaded(Begun(e)) = Replay(FirstChain(e))
          /\ Loaded(Append(Begun(e), Torn)) = Replay(FirstChain(e))
          /\ Loaded(Append(Begun(e), f)) = Replay(SecondChain(e, f))
      BY <1>1, <2>4, FoundAfter
    <3>2. \/ lines' = lines
          \/ lines' = Begun(Torn)
          \/ lines' = Begun(e)
          \/ lines' = Append(Begun(e), Torn)
          \/ lines' = Append(Begun(e), f)
      BY <2>2 DEF Wrote
    <3> QED BY <1>1, <3>1, <3>2
  <2> QED BY <2>2, <2>3, <2>4
<1>10. CASE /\ Succeeds(<<e, f>>, m)
            /\ caller' = next /\ undo' = Kept(next) /\ UNCHANGED <<stage, failed>>
  BY <1>5, <1>6, <1>7, <1>8, <1>10 DEF Attempt
<1>11. CASE /\ Fails(<<e, f>>)
            /\ caller' = other /\ undo' = Kept(other) /\ failed' = fl
  BY <1>5, <1>6, <1>7, <1>9, <1>11 DEF Attempt, Fails
<1>12. CASE (\E c \in Cuts(<<e, f>>) : WriteCut(<<e, f>>, c)) /\ Dies
  BY <1>5, <1>6, <1>7, <1>9, <1>12 DEF Attempt, Dies
<1> QED BY <1>10, <1>11, <1>12 DEF Record

Callers == {"idle", "opening", "turn", "restoring"}

(* m, as replayed from a chain of the file last, is a state in which the    *)
(* session can be at next.                                                  *)
Right(m, chain, last, next) ==
  /\ m \in Sessions /\ next \in Callers
  /\ Whole => Replay(chain) = Seen(m)
  /\ next = "opening" =>
       /\ ~failed /\ \E r \in Inputs : m.undelivered = <<r>> /\ Secured(last, TRUE, r)
       /\ Whole => ReplayWith(chain, TakenRoots(chain) \cup ToSet(m.undelivered)) = Emptied(m)
  /\ (next = "idle" /\ ~failed) \/ next \in {"turn", "restoring"} => m.undelivered = <<>>
  /\ Kept(next) # <<>> <=> next = "restoring"

(* How the session goes on after a failure.                                  *)
Leaves(other, fl) ==
  \/ other = caller /\ fl = failed
  \/ other = "idle" /\ fl = TRUE
  \/ other = "idle" /\ fl = failed /\ caller = "restoring"

(* A write of the journal.                                                  *)
Keeps(m, halves, next) ==
  \/ /\ mem' = m /\ stage' = next /\ Damaged' = Damaged
     /\ Damaged \/ found' = Seen(m)
  \/ /\ mem' = mem
     /\ Damaged \/ found' \in {found, Seen(m)} \cup halves
     /\ \/ stage' = stage /\ Damaged' \in {Damaged, TRUE}
        \/ stage' = "down" /\ Damaged' = FALSE

LEMMA SecuredStays ==
  ASSUME FileInv, ended \in BOOLEAN, NEW e, Writable(e), NEW f \in Line,
         f.parent <= NextLine, f.type # "turn-start",
         NEW ls, NEW en, Wrote(ls, en, e, f), NEW r, Secured(lines, ended, r)
  PROVE  Secured(ls, en, r)
<1>1. CASE Torn \in ToSet(ls)
  BY <1>1 DEF Secured
<1>2. CASE Torn \notin ToSet(ls)
  <2>1. /\ Good(ls) /\ Torn \notin ToSet(lines)
        /\ (ls = lines /\ en = ended) \/ (ended /\ Len(ls) > Len(lines))
        /\ \A k \in 1..Len(lines) : ls[k] = lines[k]
    BY <1>2, FileKept
  <2>2. CASE ls = lines /\ en = ended
    BY <2>2
  <2>3. CASE ended /\ Len(ls) > Len(lines)
    <3>1. PICK j \in DOMAIN lines : lines[j].type = "user-input" /\ lines[j].id = r
      BY <2>1 DEF Secured
    <3>2. /\ DOMAIN lines = 1..Len(lines) /\ Len(lines) \in Nat
          /\ DOMAIN ls = 1..Len(ls) /\ Len(ls) \in Nat
      BY <2>1, GoodIs DEF FileInv
    <3>3. j \in DOMAIN ls /\ j < Len(ls) /\ ls[j] = lines[j]
      BY <2>1, <2>3, <3>2
    <3> QED BY <3>1, <3>3 DEF Secured
  <2> QED BY <2>1, <2>2, <2>3
<1> QED BY <1>1, <1>2

LEMMA KeptType ==
  ASSUME Types, NEW c
  PROVE  Kept(c) \in Seq(Int)
<1>1. mem.msgs \in Seq(Int) /\ undo \in Seq(Int) /\ <<>> \in Seq(Int)
  BY SessionHas DEF Types
<1> QED BY <1>1 DEF Kept

(* An append of the session that is up keeps the invariant and the promise   *)
(* of the journal.                                                          *)
LEMMA AttemptKeeps ==
  ASSUME IInv, stage = "up", NEW e, Writable(e), NEW f \in Line, f # Torn,
         f.parent = NextLine, f.type # "turn-start", NEW last, NEW chain,
         \/ last = Begun(e) /\ chain = FirstChain(e)
         \/ last = Append(Begun(e), f) /\ chain = SecondChain(e, f),
         Len(last) <= MaxLines, NEW m, NEW seen, NEW halves,
         Whole => seen \subseteq {found, Seen(m)} \cup halves,
         NEW next, NEW other, NEW fl, Right(m, chain, last, next), Leaves(other, fl),
         Attempt(e, f, last, seen, m, next, other, fl), found' = Loaded(lines')
  PROVE  /\ IInv' /\ Keeps(m, halves, "up")
         /\ \/ stage' = "down" /\ undo' = <<>>
            \/ stage' = "up" /\ mem' = m /\ undo' = Kept(next)
            \/ stage' = "up" /\ mem' = mem /\ undo' = Kept(other)
<1>1. /\ FileInv /\ ended \in BOOLEAN /\ Good(lines) /\ found = Loaded(lines)
      /\ Len(lines) \in 1..MaxLines /\ leaf \in DOMAIN lines /\ MaxLines \in Nat
      /\ failed \in BOOLEAN /\ caller \in Callers /\ mem \in Sessions /\ undo \in Seq(Int)
      /\ (~ended => Len(lines) > 1)
  BY MaxLinesAssumption DEF IInv, FileInv, Types, Callers
<1>2. /\ DOMAIN lines = 1..Len(lines) /\ Len(lines) \in Nat /\ NextLine \in Nat
      /\ f.parent <= NextLine
  <2>1. NextLine \in Nat
    BY <1>1, BegunIs
  <2> QED BY <1>1, <2>1, GoodIs
<1> DEFINE Done == /\ lines' = last /\ ended' = TRUE /\ leaf' = Len(last) /\ mem' = m
                   /\ caller' = next /\ undo' = Kept(next) /\ stage' = stage /\ failed' = failed
           Cut == /\ Wrote(lines', ended', e, f) /\ Len(lines') <= MaxLines
                  /\ mem' = mem /\ leaf' = leaf /\ (Whole => found' \in seen)
           Lives == stage' = stage /\ caller' = other /\ undo' = Kept(other) /\ failed' = fl
           Ends == stage' = "down" /\ caller' = "idle" /\ undo' = <<>> /\ failed' = FALSE
<1>3. Done \/ (Cut /\ (Lives \/ Ends))
  BY DEF Attempt
<1>4. Wrote(last, TRUE, e, f)
  BY DEF Wrote
<1>5. Wrote(lines', ended', e, f) /\ Len(lines') <= MaxLines
  BY <1>3, <1>4
<1>6. /\ Good(lines') /\ ended' \in BOOLEAN /\ (~ended' => Len(lines') > 1)
      /\ Len(lines') >= Len(lines)
      /\ Torn \notin ToSet(lines') =>
           /\ Torn \notin ToSet(lines)
           /\ (lines' = lines /\ ended' = ended) \/ (ended /\ Len(lines') > Len(lines))
           /\ \A k \in 0..Len(lines) : Chains(lines')[k] = Chains(lines)[k]
  BY <1>1, <1>2, <1>5, FileKept
<1>7. DOMAIN lines' = 1..Len(lines') /\ Len(lines') \in Nat /\ Len(lines') >= 1
  BY <1>6, GoodIs
<1>8. Whole' => Whole
  <2>1. ASSUME ended', Torn \notin ToSet(lines') PROVE ended /\ Torn \notin ToSet(lines)
    BY <1>6, <2>1
  <2> QED BY <2>1 DEF Whole
<1>9. ASSUME Done, Whole
      PROVE  Whole' /\ Chains(lines')[leaf'] = chain /\ found' = Replay(chain)
  <2>1. /\ Chains(Begun(e))[Len(lines) + 1] = FirstChain(e)
        /\ Chains(Append(Begun(e), f))[Len(lines) + 2] = SecondChain(e, f)
    BY <1>1, <1>9, NextChains
  <2>2. /\ Loaded(Begun(e)) = Replay(FirstChain(e))
        /\ Loaded(Append(Begun(e), f)) = Replay(SecondChain(e, f))
    BY <1>1, <1>9, FoundAfter
  <2>3. ended /\ Torn \notin ToSet(lines) /\ e # Torn
    BY <1>9 DEF Whole, Writable
  <2>4. /\ Len(Begun(e)) = NextLine /\ NextLine = Len(lines) + 1
        /\ ToSet(Begun(e)) = ToSet(lines) \cup {e}
    BY <1>1, <2>3, BegunIs
  <2>5. /\ Len(Append(Begun(e), f)) = NextLine + 1
        /\ ToSet(Append(Begun(e), f)) = ToSet(Begun(e)) \cup {f}
    BY <1>1, <1>2, BegunGoesOn
  <2>6. CASE last = Begun(e) /\ chain = FirstChain(e)
    <3>1. Torn \notin ToSet(last) /\ Len(last) = Len(lines) + 1
      BY <2>3, <2>4, <2>6
    <3> QED BY <1>9, <2>1, <2>2, <2>6, <3>1 DEF Whole
  <2>7. CASE last = Append(Begun(e), f) /\ chain = SecondChain(e, f)
    <3>1. Torn \notin ToSet(last)
      BY <2>3, <2>4, <2>5, <2>7
    <3>2. Len(last) = Len(lines) + 2
      BY <1>2, <2>4, <2>5, <2>7
    <3> QED BY <1>9, <2>1, <2>2, <2>7, <3>1, <3>2 DEF Whole
  <2> QED BY <2>6, <2>7
<1>10. ASSUME Cut, Whole' PROVE Chains(lines')[leaf'] = Here
  <2>1. leaf \in 0..Len(lines) /\ Torn \notin ToSet(lines')
    BY <1>1, <1>2, <1>10 DEF Whole
  <2> QED BY <1>6, <1>10, <2>1 DEF Here
<1> HIDE DEF Cut
<1>11. Kept(next) \in Seq(Int) /\ Kept(other) \in Seq(Int) /\ <<>> \in Seq(Int)
  BY KeptType DEF IInv
<1>12. other \in Callers /\ fl \in BOOLEAN
  BY <1>1 DEF Leaves, Callers
<1>13. Types'
  <2>1. Len(lines') \in 1..MaxLines
    BY <1>1, <1>5, <1>7
  <2>2. leaf' \in DOMAIN lines'
    <3>1. CASE Done
      <4>1. leaf' = Len(lines')
        BY <3>1
      <4>2. Len(lines') \in 1..Len(lines')
        BY <1>7
      <4> QED BY <1>7, <4>1, <4>2
    <3>2. CASE Cut
      <4>1. leaf' = leaf /\ leaf \in 1..Len(lines)
        BY <1>1, <1>2, <3>2 DEF Cut
      <4> QED BY <1>2, <1>6, <1>7, <4>1
    <3> QED BY <1>3, <3>1, <3>2
  <2>3. mem' \in Sessions
    BY <1>1, <1>3 DEF Right, Cut
  <2>4. failed' \in BOOLEAN /\ undo' \in Seq(Int)
    BY <1>1, <1>3, <1>11, <1>12
  <2>5. stage' \in {"down", "loaded", "up"} /\ caller' \in Callers
    <3>1. next \in Callers
      BY DEF Right
    <3> QED BY <1>3, <1>12, <3>1 DEF Callers
  <2> QED BY <1>6, <2>1, <2>2, <2>3, <2>4, <2>5 DEF Types, Callers
<1>14. FileInv'
  BY <1>6 DEF FileInv
<1>15. MemInv'
  <2>0. MemInv
    BY DEF IInv
  <2>1. CASE Done
    <3>1. /\ next = "opening" =>
               ~failed /\ \E r \in Inputs : m.undelivered = <<r>> /\ Secured(last, TRUE, r)
          /\ (next = "idle" /\ ~failed) \/ next \in {"turn", "restoring"} => m.undelivered = <<>>
          /\ Kept(next) # <<>> <=> next = "restoring"
      BY DEF Right
    <3> QED BY <2>1, <3>1 DEF MemInv
  <2>2. CASE Cut /\ Lives
    <3>1. mem' = mem
      BY <2>2 DEF Cut
    <3>2. CASE other = caller /\ fl = failed
      <4>1. Kept(other) = undo
        BY <2>0, <3>2 DEF Kept, MemInv
      <4>2. \A r \in Inputs : Secured(lines, ended, r) => Secured(lines', ended', r)
        BY <1>1, <1>2, <1>5, SecuredStays
      <4>3. caller' = caller /\ failed' = failed /\ undo' = undo /\ stage' = stage
        BY <2>2, <3>2, <4>1
      <4>4. caller = "opening" =>
              ~failed /\ \E r \in Inputs : mem.undelivered = <<r>> /\ Secured(lines', ended', r)
        BY <2>0, <4>2 DEF MemInv
      <4> QED BY <2>0, <3>1, <4>3, <4>4 DEF MemInv
    <3>3. CASE other = "idle" /\ fl = TRUE
      <4>1. Kept(other) = <<>>
        BY <3>3 DEF Kept
      <4> QED BY <2>2, <3>3, <4>1 DEF MemInv
    <3>4. CASE other = "idle" /\ fl = failed /\ caller = "restoring"
      <4>1. Kept(other) = <<>> /\ mem'.undelivered = <<>>
        BY <2>0, <3>1, <3>4 DEF Kept, MemInv
      <4> QED BY <2>2, <3>4, <4>1 DEF MemInv
    <3> QED BY <3>2, <3>3, <3>4 DEF Leaves
  <2>3. CASE Cut /\ Ends
    BY <2>3 DEF MemInv
  <2> QED BY <1>3, <2>1, <2>2, <2>3
<1>16. TruthInv'
  <2>0. TruthInv /\ MemInv
    BY DEF IInv
  <2>1. CASE Done
    <3>1. /\ Whole => Replay(chain) = Seen(m)
          /\ next = "opening" /\ Whole =>
               ReplayWith(chain, TakenRoots(chain) \cup ToSet(m.undelivered)) = Emptied(m)
      BY DEF Right
    <3>2. ASSUME Whole'
          PROVE  /\ Replay(Here') = Seen(mem')
                 /\ caller' = "opening" =>
                      ReplayWith(Here', TakenRoots(Here') \cup ToSet(mem'.undelivered))
                        = Emptied(mem')
      <4>1. Whole /\ Here' = chain
        BY <1>8, <1>9, <2>1, <3>2 DEF Here
      <4>2. mem' = m /\ caller' = next
        BY <2>1
      <4> QED BY <3>1, <4>1, <4>2
    <3>3. stage' = "up"
      BY <2>1
    <3> QED BY <3>2, <3>3 DEF TruthInv, Here
  <2>2. CASE Cut /\ Lives
    <3>1. mem' = mem /\ stage' = "up"
      BY <2>2 DEF Cut
    <3>2. caller' = "opening" => caller = "opening"
      BY <2>2 DEF Leaves
    <3>3. ASSUME Whole'
          PROVE  /\ Replay(Here') = Seen(mem')
                 /\ caller' = "opening" =>
                      ReplayWith(Here', TakenRoots(Here') \cup ToSet(mem'.undelivered))
                        = Emptied(mem')
      <4>1. Whole /\ Here' = Here
        BY <1>8, <1>10, <2>2, <3>3 DEF Here
      <4> QED BY <2>0, <3>1, <3>2, <4>1 DEF TruthInv
    <3> QED BY <3>1, <3>3 DEF TruthInv, Here
  <2>3. CASE Cut /\ Ends
    BY <2>3 DEF TruthInv
  <2> QED BY <1>3, <2>1, <2>2, <2>3
<1>17. /\ \/ stage' = "down" /\ undo' = <<>>
          \/ stage' = "up" /\ mem' = m /\ undo' = Kept(next)
          \/ stage' = "up" /\ mem' = mem /\ undo' = Kept(other)
  BY <1>3 DEF Cut
<1>18. Keeps(m, halves, "up")
  <2>0. (Damaged <=> ~Whole) /\ (stage' = "up" => (Damaged' <=> ~Whole'))
        /\ (stage' = "down" => ~Damaged')
    BY <1>1 DEF Damaged, Whole
  <2>1. CASE Done
    <3>1. mem' = m /\ stage' = "up"
      BY <2>1
    <3>2. Whole => Whole' /\ found' = Seen(m)
      BY <1>9, <2>1 DEF Right
    <3>3. Damaged' <=> Damaged
      BY <1>8, <2>0, <3>1, <3>2
    <3>4. Damaged \/ found' = Seen(m)
      BY <2>0, <3>2
    <3>5. Damaged' = Damaged
      BY <3>3 DEF Damaged
    <3> QED BY <3>1, <3>4, <3>5 DEF Keeps
  <2>2. CASE Cut
    <3>1. mem' = mem /\ (Damaged \/ found' \in {found, Seen(m)} \cup halves)
      BY <2>0, <2>2 DEF Cut
    <3>2. CASE Lives
      <4>1. stage' = stage /\ (Damaged => Damaged')
        BY <1>8, <2>0, <3>2
      <4>2. Damaged' = Damaged \/ Damaged' = TRUE
        BY <4>1 DEF Damaged
      <4> QED BY <3>1, <4>1, <4>2 DEF Keeps
    <3>3. CASE Ends
      <4>1. stage' = "down" /\ Damaged' = FALSE
        BY <2>0, <3>3 DEF Damaged
      <4> QED BY <3>1, <4>1 DEF Keeps
    <3> QED BY <1>3, <2>1, <3>2, <3>3
  <2> QED BY <1>3, <2>1, <2>2
<1> QED BY <1>13, <1>14, <1>15, <1>16, <1>17, <1>18 DEF IInv

-----------------------------------------------------------------------------
(* What the operations make of a session.                                    *)

LEMMA ConcatNone ==
  ASSUME NEW T, NEW q \in Seq(T)
  PROVE  q \o <<>> = q /\ <<>> \o q = q
OBVIOUS

LEMMA ConcatAppend ==
  ASSUME NEW p \in Seq(Int), NEW q \in Seq(Int), NEW i \in Int
  PROVE  Append(p \o q, i) = p \o Append(q, i)
<1> DEFINE a == Append(p \o q, i)
           b == p \o Append(q, i)
<1>1. /\ a \in Seq(Int) /\ Len(a) = Len(p) + Len(q) + 1 /\ Len(p) \in Nat /\ Len(q) \in Nat
      /\ \A k \in 1..(Len(p) + Len(q)) : a[k] = (p \o q)[k]
      /\ a[Len(p) + Len(q) + 1] = i
  OBVIOUS
<1>2. b \in Seq(Int) /\ Len(b) = Len(p) + Len(q) + 1
  OBVIOUS
<1>3. ASSUME NEW k \in 1..Len(b) PROVE a[k] = b[k]
  <2>1. CASE k <= Len(p)
    BY <1>1, <1>2, <2>1
  <2>2. CASE k > Len(p) /\ k <= Len(p) + Len(q)
    BY <1>1, <1>2, <2>2
  <2>3. CASE k = Len(p) + Len(q) + 1
    <3>1. b[k] = Append(q, i)[k - Len(p)]
      BY <1>1, <1>2, <2>3
    <3>2. k - Len(p) = Len(q) + 1
      BY <1>1, <2>3
    <3>3. b[k] = i
      BY <3>1, <3>2
    <3> QED BY <1>1, <2>3, <3>3
  <2>4. k <= Len(p) \/ (k > Len(p) /\ k <= Len(p) + Len(q)) \/ k = Len(p) + Len(q) + 1
    <3>1. k \in 1..(Len(p) + Len(q) + 1)
      BY <1>2
    <3> HIDE DEF a, b
    <3> QED BY <1>1, <3>1
  <2> QED BY <2>1, <2>2, <2>3, <2>4
<1> HIDE DEF a, b
<1>4. a = b
  BY <1>1, <1>2, <1>3, SeqEq
<1> QED BY <1>4 DEF a, b

(* Updates of one field.                                                    *)
IsSession(m) == m = [msgs |-> m.msgs, pending |-> m.pending, undelivered |-> m.undelivered,
                     turn |-> m.turn, starts |-> m.starts]

LEMMA Updated ==
  ASSUME NEW m, IsSession(m), NEW x
  PROVE  /\ [m EXCEPT !.msgs = x] =
              [msgs |-> x, pending |-> m.pending, undelivered |-> m.undelivered,
               turn |-> m.turn, starts |-> m.starts]
         /\ [m EXCEPT !.turn = x] =
              [msgs |-> m.msgs, pending |-> m.pending, undelivered |-> m.undelivered,
               turn |-> x, starts |-> m.starts]
         /\ [m EXCEPT !.starts = x] =
              [msgs |-> m.msgs, pending |-> m.pending, undelivered |-> m.undelivered,
               turn |-> m.turn, starts |-> x]
         /\ [m EXCEPT !.undelivered = x] =
              [msgs |-> m.msgs, pending |-> m.pending, undelivered |-> x,
               turn |-> m.turn, starts |-> m.starts]
<1>1. m = [msgs |-> m.msgs, pending |-> m.pending, undelivered |-> m.undelivered,
           turn |-> m.turn, starts |-> m.starts]
  BY DEF IsSession
<1>2. [m EXCEPT !.msgs = x] =
        [msgs |-> x, pending |-> m.pending, undelivered |-> m.undelivered,
         turn |-> m.turn, starts |-> m.starts]
  BY <1>1
<1>3. [m EXCEPT !.turn = x] =
        [msgs |-> m.msgs, pending |-> m.pending, undelivered |-> m.undelivered,
         turn |-> x, starts |-> m.starts]
  BY <1>1
<1>4. [m EXCEPT !.starts = x] =
        [msgs |-> m.msgs, pending |-> m.pending, undelivered |-> m.undelivered,
         turn |-> m.turn, starts |-> x]
  BY <1>1
<1>5. [m EXCEPT !.undelivered = x] =
        [msgs |-> m.msgs, pending |-> m.pending, undelivered |-> x,
         turn |-> m.turn, starts |-> m.starts]
  BY <1>1
<1> QED BY <1>2, <1>3, <1>4, <1>5

LEMMA SeenIs ==
  ASSUME NEW m \in Sessions
  PROVE  /\ Seen(m) = [msgs |-> m.msgs \o m.undelivered, pending |-> m.pending,
                       undelivered |-> m.undelivered, turn |-> m.turn, starts |-> m.starts]
         /\ Seen(m) \in Sessions
         /\ m.undelivered = <<>> => Seen(m) = m
<1>1. /\ m.msgs \in Seq(Int) /\ m.pending \in Seq(Waiting) /\ m.undelivered \in Seq(Inputs)
      /\ m.turn \in 0..MaxLines /\ m.starts \in Seq(Mark)
      /\ m = [msgs |-> m.msgs, pending |-> m.pending, undelivered |-> m.undelivered,
              turn |-> m.turn, starts |-> m.starts]
  BY SessionHas
<1>2. Seen(m) = [msgs |-> m.msgs \o m.undelivered, pending |-> m.pending,
                 undelivered |-> m.undelivered, turn |-> m.turn, starts |-> m.starts]
  <2> DEFINE x == m.msgs \o m.undelivered
  <2>1. Seen(m) = [m EXCEPT !.msgs = x]
    BY DEF Seen
  <2>2. IsSession(m)
    BY <1>1 DEF IsSession
  <2> HIDE DEF x
  <2>3. Seen(m) = [msgs |-> x, pending |-> m.pending, undelivered |-> m.undelivered,
                   turn |-> m.turn, starts |-> m.starts]
    BY <2>1, <2>2, Updated
  <2> QED BY <2>3 DEF x
<1>3. m.undelivered \in Seq(Int)
  BY <1>1, InputsAssumption
<1>4. m.msgs \o m.undelivered \in Seq(Int)
  BY <1>1, <1>3
<1>5. Seen(m) \in Sessions
  BY <1>1, <1>2, <1>4, SessionIs
<1>6. m.undelivered = <<>> => m.msgs \o m.undelivered = m.msgs
  BY <1>1, ConcatNone
<1>7. ASSUME m.undelivered = <<>> PROVE Seen(m) = m
  <2>1. Seen(m) = [msgs |-> m.msgs, pending |-> m.pending,
                   undelivered |-> m.undelivered, turn |-> m.turn, starts |-> m.starts]
    BY <1>2, <1>6, <1>7
  <2> QED BY <1>1, <2>1
<1> QED BY <1>2, <1>5, <1>7

LEMMA EmptiedIs ==
  ASSUME NEW m \in Sessions
  PROVE  /\ Emptied(m) = [msgs |-> m.msgs, pending |-> m.pending, undelivered |-> <<>>,
                          turn |-> m.turn, starts |-> m.starts]
         /\ Emptied(m) \in Sessions
         /\ m.undelivered = <<>> => Emptied(m) = m
<1>1. /\ m.msgs \in Seq(Int) /\ m.pending \in Seq(Waiting) /\ m.undelivered \in Seq(Inputs)
      /\ m.turn \in 0..MaxLines /\ m.starts \in Seq(Mark) /\ <<>> \in Seq(Inputs)
      /\ m = [msgs |-> m.msgs, pending |-> m.pending, undelivered |-> m.undelivered,
              turn |-> m.turn, starts |-> m.starts]
  BY SessionHas
<1>2. Emptied(m) = [msgs |-> m.msgs, pending |-> m.pending, undelivered |-> <<>>,
                    turn |-> m.turn, starts |-> m.starts]
  BY <1>1, Updated DEF Emptied, IsSession
<1>3. Emptied(m) \in Sessions
  BY <1>1, <1>2, SessionIs
<1>4. m.undelivered = <<>> => Emptied(m) = m
  BY <1>1, <1>2
<1> QED BY <1>2, <1>3, <1>4

(* Inputs that wait, and what can be taken of them.                          *)
LEMMA InStateIs ==
  ASSUME NEW m \in Sessions, NEW s
  PROVE  /\ InState(m, s) \subseteq Inputs
         /\ \A i \in InState(m, s) : \E p \in ToSet(m.pending) : p.id = i /\ p.state = s
         /\ \A d \in {<<>>} \cup {<<q>> : q \in InState(m, s)} :
              d \in Seq(Inputs) /\ d \in Seq(Int) /\ ToSet(d) \subseteq InState(m, s)
<1>1. m.pending \in Seq(Waiting)
  BY SessionHas
<1>2. \A p \in ToSet(m.pending) : p \in Waiting
  BY <1>1 DEF ToSet
<1>3. InState(m, s) \subseteq Inputs
  BY <1>2 DEF InState, Waiting
<1>4. \A i \in InState(m, s) : \E p \in ToSet(m.pending) : p.id = i /\ p.state = s
  BY DEF InState
<1>5. ASSUME NEW d \in {<<>>} \cup {<<q>> : q \in InState(m, s)}
      PROVE  d \in Seq(Inputs) /\ d \in Seq(Int) /\ ToSet(d) \subseteq InState(m, s)
  <2>1. CASE d = <<>>
    BY <2>1 DEF ToSet
  <2>2. CASE d \in {<<q>> : q \in InState(m, s)}
    <3>1. PICK q \in InState(m, s) : d = <<q>>
      BY <2>2
    <3>2. q \in Inputs
      BY <1>3
    <3>4. q \in Int
      BY <3>2, InputsAssumption
    <3>3. ToSet(d) = {q}
      BY <3>1 DEF ToSet
    <3> QED BY <3>1, <3>2, <3>3, <3>4
  <2> QED BY <2>1, <2>2
<1> QED BY <1>3, <1>4, <1>5

LEMMA ReceivedIs ==
  ASSUME NEW m \in Sessions, NEW i \in Inputs, NEW c
  PROVE  /\ Received(m, i, TRUE, c) =
              [msgs |-> m.msgs, pending |-> Without(m.pending, c),
               undelivered |-> Append(m.undelivered, i), turn |-> m.turn, starts |-> m.starts]
         /\ Received(m, i, FALSE, c) =
              [msgs |-> m.msgs,
               pending |-> Append(Without(m.pending, c), [id |-> i, state |-> "queued"]),
               undelivered |-> m.undelivered, turn |-> m.turn, starts |-> m.starts]
         /\ Received(m, i, TRUE, c) \in Sessions /\ Received(m, i, FALSE, c) \in Sessions
<1>1. /\ m.msgs \in Seq(Int) /\ m.pending \in Seq(Waiting) /\ m.undelivered \in Seq(Inputs)
      /\ m.turn \in 0..MaxLines /\ m.starts \in Seq(Mark)
      /\ m = [msgs |-> m.msgs, pending |-> m.pending, undelivered |-> m.undelivered,
              turn |-> m.turn, starts |-> m.starts]
  BY SessionHas
<1>2. Received(m, i, TRUE, c) =
        [msgs |-> m.msgs, pending |-> Without(m.pending, c),
         undelivered |-> Append(m.undelivered, i), turn |-> m.turn, starts |-> m.starts]
  BY <1>1 DEF Received
<1>3. Received(m, i, FALSE, c) =
        [msgs |-> m.msgs,
         pending |-> Append(Without(m.pending, c), [id |-> i, state |-> "queued"]),
         undelivered |-> m.undelivered, turn |-> m.turn, starts |-> m.starts]
  BY <1>1 DEF Received
<1>4. Without(m.pending, c) \in Seq(Waiting) /\ [id |-> i, state |-> "queued"] \in Waiting
  BY <1>1, WithoutIs DEF Waiting
<1>5. /\ Append(Without(m.pending, c), [id |-> i, state |-> "queued"]) \in Seq(Waiting)
      /\ Append(m.undelivered, i) \in Seq(Inputs)
  BY <1>1, <1>4
<1>6. Received(m, i, TRUE, c) \in Sessions
  BY <1>1, <1>2, <1>4, <1>5, SessionIs
<1>7. Received(m, i, FALSE, c) \in Sessions
  BY <1>1, <1>3, <1>5, SessionIs
<1> QED BY <1>2, <1>3, <1>6, <1>7

LEMMA CarriedType ==
  ASSUME NEW root \in Inputs \cup {NoInput}, NEW d \in Seq(Int)
  PROVE  Carried(root, d) \in Seq(Int)
<1>1. root \in Int /\ Note \in Int
  BY InputsAssumption DEF NoInput, Note
<1>2. <<root>> \o d \in Seq(Int) /\ <<Note>> \in Seq(Int)
  BY <1>1
<1> QED BY <1>2 DEF Carried

LEMMA StartedIs ==
  ASSUME NEW m \in Sessions, NEW t \in 1..MaxLines, NEW root \in Inputs \cup {NoInput},
         NEW d \in Seq(Int), m.undelivered = <<>> \/ m.undelivered = <<root>>
  PROVE  /\ Started(m, t, root, d) =
              [msgs |-> m.msgs \o Carried(root, d), pending |-> Without(m.pending, d),
               undelivered |-> <<>>, turn |-> t,
               starts |-> Append(m.starts, [turn |-> t, at |-> Len(m.msgs), root |-> root])]
         /\ HalfStarted(m, t, root) =
              [msgs |-> m.msgs, pending |-> m.pending, undelivered |-> <<>>, turn |-> t,
               starts |-> Append(m.starts, [turn |-> t, at |-> Len(m.msgs), root |-> root])]
         /\ Started(m, t, root, d) \in Sessions
<1>1. /\ m.msgs \in Seq(Int) /\ m.pending \in Seq(Waiting) /\ m.undelivered \in Seq(Inputs)
      /\ m.turn \in 0..MaxLines /\ m.starts \in Seq(Mark)
      /\ m = [msgs |-> m.msgs, pending |-> m.pending, undelivered |-> m.undelivered,
              turn |-> m.turn, starts |-> m.starts]
  BY SessionHas
<1> DEFINE others == Chosen(m.undelivered, ToSet(m.undelivered) \ {root})
<1>2. others = <<>>
  <2> DEFINE S == ToSet(m.undelivered) \ {root}
             u == m.undelivered
  <2>0. \A ids : Chosen(u, ids) \in Seq(Inputs) /\ Range(Chosen(u, ids)) = Range(u) \cap ids
    <3> HIDE DEF u
    <3>1. u \in Seq(Inputs)
      BY <1>1 DEF u
    <3> QED BY <3>1, ChosenHolds
  <2>1. others \in Seq(Inputs) /\ Range(others) = Range(u) \cap S
    <3> HIDE DEF S, u
    <3>1. others = Chosen(u, S)
      BY DEF S, u
    <3> QED BY <2>0, <3>1
  <2>2. ToSet(m.undelivered) \subseteq {root}
    BY DEF ToSet
  <2>3. Range(others) = {}
    BY <2>1, <2>2
  <2> HIDE DEF others
  <2>4. \A k \in 1..Len(others) : others[k] \in Range(others)
    BY <2>1 DEF Range
  <2>5. Len(others) = 0
    BY <2>1, <2>3, <2>4
  <2> QED BY <2>1, <2>5
<1> DEFINE s == [turn |-> t, at |-> Len(m.msgs), root |-> root]
<1>3. Started(m, t, root, d) =
        [msgs |-> m.msgs \o Carried(root, d), pending |-> Without(m.pending, d),
         undelivered |-> <<>>, turn |-> t, starts |-> Append(m.starts, s)]
  BY <1>2 DEF Started
<1>4. m.msgs \o others = m.msgs
  BY <1>1, <1>2, ConcatNone
<1>5. HalfStarted(m, t, root) =
        [msgs |-> m.msgs, pending |-> m.pending, undelivered |-> <<>>, turn |-> t,
         starts |-> Append(m.starts, s)]
  <2>1. HalfStarted(m, t, root) =
          [m EXCEPT !.msgs = m.msgs \o others, !.undelivered = others, !.turn = t,
                    !.starts = Append(@, [turn |-> t, at |-> Len(m.msgs \o others), root |-> root])]
    BY DEF HalfStarted
  <2>2. HalfStarted(m, t, root) =
          [m EXCEPT !.msgs = m.msgs, !.undelivered = <<>>, !.turn = t,
                    !.starts = Append(@, s)]
    BY <1>2, <1>4, <2>1
  <2> HIDE DEF s
  <2> QED BY <1>1, <2>2
<1>6. s \in Mark /\ t \in 0..MaxLines
  BY <1>1 DEF Mark
<1>7. /\ m.msgs \o Carried(root, d) \in Seq(Int) /\ Without(m.pending, d) \in Seq(Waiting)
      /\ <<>> \in Seq(Inputs)
  <2>1. Carried(root, d) \in Seq(Int)
    BY CarriedType
  <2> QED BY <1>1, <2>1, WithoutIs
<1>8. Append(m.starts, s) \in Seq(Mark)
  <2> HIDE DEF s
  <2> QED BY <1>1, <1>6
<1>9. Started(m, t, root, d) \in Sessions
  <2> HIDE DEF s
  <2> QED BY <1>3, <1>6, <1>7, <1>8, SessionIs
<1> QED BY <1>3, <1>5, <1>9

LEMMA SteppedIs ==
  ASSUME NEW m \in Sessions, NEW d \in Seq(Int)
  PROVE  /\ (IF d = <<>> THEN <<Reply>> ELSE d) \in Seq(Int)
         /\ Stepped(m, d) =
              [msgs |-> m.msgs \o (IF d = <<>> THEN <<Reply>> ELSE d),
               pending |-> Without(m.pending, d), undelivered |-> m.undelivered,
               turn |-> m.turn, starts |-> m.starts]
         /\ Stepped(m, d) \in Sessions
<1>1. /\ m.msgs \in Seq(Int) /\ m.pending \in Seq(Waiting) /\ m.undelivered \in Seq(Inputs)
      /\ m.turn \in 0..MaxLines /\ m.starts \in Seq(Mark)
      /\ m = [msgs |-> m.msgs, pending |-> m.pending, undelivered |-> m.undelivered,
              turn |-> m.turn, starts |-> m.starts]
  BY SessionHas
<1> DEFINE x == IF d = <<>> THEN <<Reply>> ELSE d
<1>2. x \in Seq(Int)
  <2>1. <<Reply>> \in Seq(Int)
    BY DEF Reply
  <2> QED BY <2>1
<1>3. Stepped(m, d) =
        [msgs |-> m.msgs \o x, pending |-> Without(m.pending, d), undelivered |-> m.undelivered,
         turn |-> m.turn, starts |-> m.starts]
  <2>1. Stepped(m, d) = [m EXCEPT !.msgs = @ \o x, !.pending = Without(@, d)]
    BY DEF Stepped
  <2> HIDE DEF x
  <2> QED BY <1>1, <2>1
<1> HIDE DEF x
<1>4. m.msgs \o x \in Seq(Int) /\ Without(m.pending, d) \in Seq(Waiting)
  BY <1>1, <1>2, WithoutIs
<1>5. Stepped(m, d) \in Sessions
  BY <1>1, <1>3, <1>4, SessionIs
<1> QED BY <1>2, <1>3, <1>5 DEF x

LEMMA EndedIs ==
  ASSUME NEW m \in Sessions
  PROVE  /\ Ended(m) = [msgs |-> m.msgs, pending |-> m.pending, undelivered |-> m.undelivered,
                        turn |-> NoTurn, starts |-> m.starts]
         /\ Ended(m) \in Sessions /\ NoTurn \in 0..MaxLines
<1>1. /\ m.msgs \in Seq(Int) /\ m.pending \in Seq(Waiting) /\ m.undelivered \in Seq(Inputs)
      /\ m.turn \in 0..MaxLines /\ m.starts \in Seq(Mark) /\ NoTurn \in 0..MaxLines
      /\ m = [msgs |-> m.msgs, pending |-> m.pending, undelivered |-> m.undelivered,
              turn |-> m.turn, starts |-> m.starts]
  BY SessionHas, MaxLinesAssumption DEF NoTurn
<1>2. Ended(m) = [msgs |-> m.msgs, pending |-> m.pending, undelivered |-> m.undelivered,
                  turn |-> NoTurn, starts |-> m.starts]
  <2>1. m = [msgs |-> m.msgs, pending |-> m.pending, undelivered |-> m.undelivered,
             turn |-> m.turn, starts |-> m.starts]
    BY <1>1
  <2> QED BY <2>1 DEF Ended
<1> QED BY <1>1, <1>2, SessionIs

LEMMA CompactedIs ==
  ASSUME NEW m \in Sessions
  PROVE  /\ Compacted(m) = [msgs |-> <<Summary>>, pending |-> m.pending,
                            undelivered |-> m.undelivered, turn |-> m.turn, starts |-> <<>>]
         /\ Compacted(m) \in Sessions
<1>1. /\ m.msgs \in Seq(Int) /\ m.pending \in Seq(Waiting) /\ m.undelivered \in Seq(Inputs)
      /\ m.turn \in 0..MaxLines /\ m.starts \in Seq(Mark)
      /\ m = [msgs |-> m.msgs, pending |-> m.pending, undelivered |-> m.undelivered,
              turn |-> m.turn, starts |-> m.starts]
  BY SessionHas
<1>2. Compacted(m) = [msgs |-> <<Summary>>, pending |-> m.pending,
                      undelivered |-> m.undelivered, turn |-> m.turn, starts |-> <<>>]
  <2> DEFINE m1 == [m EXCEPT !.msgs = <<Summary>>]
  <2>1. Compacted(m) = [m1 EXCEPT !.starts = <<>>]
    BY DEF Compacted
  <2>2. IsSession(m)
    BY <1>1 DEF IsSession
  <2>3. m1 = [msgs |-> <<Summary>>, pending |-> m.pending, undelivered |-> m.undelivered,
              turn |-> m.turn, starts |-> m.starts]
    BY <2>2, Updated
  <2> HIDE DEF m1
  <2>4. IsSession(m1)
    BY <2>3 DEF IsSession
  <2>5. Compacted(m) = [msgs |-> m1.msgs, pending |-> m1.pending,
                        undelivered |-> m1.undelivered, turn |-> m1.turn, starts |-> <<>>]
    BY <2>1, <2>4, Updated
  <2> QED BY <2>3, <2>5
<1>3. <<Summary>> \in Seq(Int) /\ <<>> \in Seq(Mark)
  BY DEF Summary
<1> QED BY <1>1, <1>2, <1>3, SessionIs

LEMMA ReplacedIs ==
  ASSUME NEW m \in Sessions, NEW ms \in Seq(Int)
  PROVE  /\ Replaced(m, ms) = [msgs |-> ms, pending |-> m.pending,
                               undelivered |-> m.undelivered, turn |-> NoTurn,
                               starts |-> StartsWithin(m, ms)]
         /\ StartsWithin(m, ms) \in Seq(Mark)
         /\ Replaced(m, ms) \in Sessions
<1>1. /\ m.msgs \in Seq(Int) /\ m.pending \in Seq(Waiting) /\ m.undelivered \in Seq(Inputs)
      /\ m.turn \in 0..MaxLines /\ m.starts \in Seq(Mark) /\ NoTurn \in 0..MaxLines
      /\ m = [msgs |-> m.msgs, pending |-> m.pending, undelivered |-> m.undelivered,
              turn |-> m.turn, starts |-> m.starts]
  BY SessionHas, MaxLinesAssumption DEF NoTurn
<1>2. Replaced(m, ms) = [msgs |-> ms, pending |-> m.pending, undelivered |-> m.undelivered,
                         turn |-> NoTurn, starts |-> StartsWithin(m, ms)]
  <2> DEFINE m1 == [m EXCEPT !.msgs = ms]
             m2 == [m1 EXCEPT !.turn = NoTurn]
             ss == StartsWithin(m, ms)
  <2>1. Replaced(m, ms) = [m2 EXCEPT !.starts = ss]
    BY DEF Replaced
  <2>2. IsSession(m)
    BY <1>1 DEF IsSession
  <2>3. m1 = [msgs |-> ms, pending |-> m.pending, undelivered |-> m.undelivered,
              turn |-> m.turn, starts |-> m.starts]
    BY <2>2, Updated
  <2> HIDE DEF m1, ss
  <2>4. IsSession(m1)
    BY <2>3 DEF IsSession
  <2>5. m2 = [msgs |-> m1.msgs, pending |-> m1.pending, undelivered |-> m1.undelivered,
              turn |-> NoTurn, starts |-> m1.starts]
    BY <2>4, Updated
  <2> HIDE DEF m2
  <2>6. IsSession(m2)
    BY <2>5 DEF IsSession
  <2>7. Replaced(m, ms) = [msgs |-> m2.msgs, pending |-> m2.pending,
                           undelivered |-> m2.undelivered, turn |-> m2.turn, starts |-> ss]
    BY <2>1, <2>6, Updated
  <2> QED BY <2>3, <2>5, <2>7 DEF ss
<1>3. StartsWithin(m, ms) \in Seq(Mark)
  BY <1>1, ChosenHolds DEF StartsWithin
<1> QED BY <1>1, <1>2, <1>3, SessionIs

LEMMA RolledBackIs ==
  ASSUME NEW m \in Sessions, NEW s \in ToSet(m.starts), s.at < Len(m.msgs)
  PROVE  /\ SubSeq(m.msgs, 1, s.at) \in Seq(Int)
         /\ RolledBack(m, s) \in Sessions
         /\ RolledBack(m, s).undelivered = m.undelivered
         /\ RolledBack(m, s).pending = m.pending
<1>1. m.msgs \in Seq(Int) /\ m.starts \in Seq(Mark)
  BY SessionHas
<1>2. s \in Mark
  BY <1>1 DEF ToSet
<1>3. s.at \in Nat
  BY <1>2 DEF Mark
<1>4. SubSeq(m.msgs, 1, s.at) \in Seq(Int)
  <2>1. \A k \in 1..s.at : k \in 1..Len(m.msgs)
    BY <1>1, <1>3
  <2> QED BY <1>1, <1>3, <2>1
<1> DEFINE ms == SubSeq(m.msgs, 1, s.at)
<1> HIDE DEF ms
<1>5. /\ Replaced(m, ms) = [msgs |-> ms, pending |-> m.pending,
                            undelivered |-> m.undelivered, turn |-> NoTurn,
                            starts |-> StartsWithin(m, ms)]
      /\ Replaced(m, ms) \in Sessions
  BY <1>4, ReplacedIs DEF ms
<1>6. RolledBack(m, s) = Replaced(m, ms)
  BY DEF RolledBack, ms
<1> QED BY <1>4, <1>5, <1>6

LEMMA RestoredIs ==
  ASSUME NEW m \in Sessions, NEW i
  PROVE  /\ Restored(m, i) =
              [msgs |-> m.msgs,
               pending |-> [n \in DOMAIN m.pending |->
                              IF m.pending[n].id = i
                              THEN [m.pending[n] EXCEPT !.state = "restored"]
                              ELSE m.pending[n]],
               undelivered |-> m.undelivered, turn |-> m.turn, starts |-> m.starts]
         /\ Restored(m, i) \in Sessions
         /\ {p.id : p \in ToSet(Restored(m, i).pending)} = {p.id : p \in ToSet(m.pending)}
<1>1. /\ m.msgs \in Seq(Int) /\ m.pending \in Seq(Waiting) /\ m.undelivered \in Seq(Inputs)
      /\ m.turn \in 0..MaxLines /\ m.starts \in Seq(Mark)
      /\ m = [msgs |-> m.msgs, pending |-> m.pending, undelivered |-> m.undelivered,
              turn |-> m.turn, starts |-> m.starts]
  BY SessionHas
<1> DEFINE q == [n \in DOMAIN m.pending |->
                   IF m.pending[n].id = i THEN [m.pending[n] EXCEPT !.state = "restored"]
                   ELSE m.pending[n]]
<1>2. Restored(m, i) = [msgs |-> m.msgs, pending |-> q, undelivered |-> m.undelivered,
                        turn |-> m.turn, starts |-> m.starts]
  <2>1. Restored(m, i) = [m EXCEPT !.pending = q]
    BY DEF Restored
  <2> HIDE DEF q
  <2> QED BY <1>1, <2>1
<1>3. q \in Seq(Waiting)
  <2> DEFINE r == [n \in DOMAIN m.pending |->
                     IF m.pending[n].id \in {i} THEN [m.pending[n] EXCEPT !.state = "restored"]
                     ELSE m.pending[n]]
  <2>1. r \in Seq(Waiting)
    BY <1>1, RestoredType
  <2>2. q = r
    OBVIOUS
  <2> QED BY <2>1, <2>2
<1>4. Restored(m, i) \in Sessions
  <2> HIDE DEF q
  <2> QED BY <1>1, <1>2, <1>3, SessionIs
<1>5. ASSUME NEW n \in DOMAIN m.pending PROVE q[n].id = m.pending[n].id
  <2>1. m.pending[n] \in Waiting
    BY <1>1
  <2> QED BY <2>1 DEF Waiting
<1>6. DOMAIN q = DOMAIN m.pending
  OBVIOUS
<1>7. {p.id : p \in ToSet(q)} = {p.id : p \in ToSet(m.pending)}
  <2> HIDE DEF q
  <2>1. {p.id : p \in ToSet(q)} = {q[n].id : n \in DOMAIN m.pending}
    BY <1>6 DEF ToSet
  <2>2. {p.id : p \in ToSet(m.pending)} = {m.pending[n].id : n \in DOMAIN m.pending}
    BY DEF ToSet
  <2> QED BY <1>5, <2>1, <2>2
<1>8. Restored(m, i).pending = q
  <2> HIDE DEF q
  <2> QED BY <1>2
<1> QED BY <1>2, <1>4, <1>7, <1>8

LEMMA DiscardedIs ==
  ASSUME NEW m \in Sessions, NEW ids
  PROVE  /\ Discarded(m, ids) =
              [msgs |-> m.msgs, pending |-> Without(m.pending, ids),
               undelivered |-> m.undelivered, turn |-> m.turn, starts |-> m.starts]
         /\ Discarded(m, ids) \in Sessions
         /\ Discarded(m, <<>>) = m
<1>1. /\ m.msgs \in Seq(Int) /\ m.pending \in Seq(Waiting) /\ m.undelivered \in Seq(Inputs)
      /\ m.turn \in 0..MaxLines /\ m.starts \in Seq(Mark)
      /\ m = [msgs |-> m.msgs, pending |-> m.pending, undelivered |-> m.undelivered,
              turn |-> m.turn, starts |-> m.starts]
  BY SessionHas
<1>2. \A d : Discarded(m, d) = [msgs |-> m.msgs, pending |-> Without(m.pending, d),
                                undelivered |-> m.undelivered, turn |-> m.turn,
                                starts |-> m.starts]
  BY <1>1 DEF Discarded
<1>3. Without(m.pending, ids) \in Seq(Waiting) /\ Without(m.pending, <<>>) = m.pending
  BY <1>1, WithoutIs, WithoutNone
<1>4. Discarded(m, ids) \in Sessions
  BY <1>1, <1>2, <1>3, SessionIs
<1>5. Discarded(m, <<>>) = m
  BY <1>1, <1>2, <1>3
<1> QED BY <1>2, <1>4, <1>5

LEMMA EditedIs ==
  ASSUME NEW m \in Sessions, NEW s \in ToSet(m.starts), s.at < Len(m.msgs), NEW i \in Inputs,
         m.undelivered = <<>>, m.pending = <<>>
  PROVE  /\ Edited(m, s, i) =
              [msgs |-> RolledBack(m, s).msgs, pending |-> <<>>, undelivered |-> <<i>>,
               turn |-> RolledBack(m, s).turn, starts |-> RolledBack(m, s).starts]
         /\ Edited(m, s, i) \in Sessions
         /\ [RolledBack(m, s) EXCEPT !.pending = <<>>] = RolledBack(m, s)
<1> DEFINE r == RolledBack(m, s)
<1>1. r \in Sessions /\ r.undelivered = <<>> /\ r.pending = <<>>
  BY RolledBackIs
<1> HIDE DEF r
<1>2. /\ r.msgs \in Seq(Int) /\ r.turn \in 0..MaxLines /\ r.starts \in Seq(Mark)
      /\ r = [msgs |-> r.msgs, pending |-> <<>>, undelivered |-> <<>>,
              turn |-> r.turn, starts |-> r.starts]
      /\ <<>> \in Seq(Waiting) /\ <<i>> \in Seq(Inputs)
  BY <1>1, SessionHas
<1>3. Edited(m, s, i) = [msgs |-> r.msgs, pending |-> <<>>, undelivered |-> <<i>>,
                         turn |-> r.turn, starts |-> r.starts]
  <2>1. Edited(m, s, i) = [r EXCEPT !.pending = <<>>, !.undelivered = <<i>>]
    BY DEF Edited, r
  <2> QED BY <1>1, <2>1 DEF Sessions
<1>4. [r EXCEPT !.pending = <<>>] = r
  BY <1>2
<1>5. Edited(m, s, i) \in Sessions
  BY <1>2, <1>3, SessionIs
<1> QED BY <1>3, <1>4, <1>5 DEF r

LEMMA RecoveredIs ==
  ASSUME NEW m \in Sessions
  PROVE  /\ Recovered(m) \in Sessions /\ Recovered(m).undelivered = <<>>
         /\ Append(m.msgs, Aborted) \in Seq(Int)
         /\ Recovered(m) = [msgs |-> Append(m.msgs, Aborted), pending |-> m.pending,
                            undelivered |-> <<>>, turn |-> NoTurn,
                            starts |-> StartsWithin(m, Append(m.msgs, Aborted))]
<1>1. /\ m.msgs \in Seq(Int) /\ m.pending \in Seq(Waiting) /\ <<>> \in Seq(Inputs)
      /\ NoTurn \in 0..MaxLines
  BY SessionHas, MaxLinesAssumption DEF NoTurn
<1> DEFINE ms == Append(m.msgs, Aborted)
<1>2. ms \in Seq(Int)
  BY <1>1 DEF Aborted
<1> HIDE DEF ms
<1>3. /\ Replaced(m, ms) = [msgs |-> ms, pending |-> m.pending, undelivered |-> m.undelivered,
                            turn |-> NoTurn, starts |-> StartsWithin(m, ms)]
      /\ StartsWithin(m, ms) \in Seq(Mark)
  BY <1>2, ReplacedIs
<1>4. Recovered(m) = [msgs |-> ms, pending |-> m.pending, undelivered |-> <<>>, turn |-> NoTurn,
                      starts |-> StartsWithin(m, ms)]
  <2>1. Recovered(m) = [Replaced(m, ms) EXCEPT !.undelivered = <<>>]
    BY DEF Recovered, ms
  <2> QED BY <1>3, <2>1
<1>5. Recovered(m) \in Sessions
  BY <1>1, <1>2, <1>3, <1>4, SessionIs
<1> QED BY <1>2, <1>4, <1>5 DEF ms

-----------------------------------------------------------------------------
(* What a chain replays after one more record.                               *)

LEMMA RootsGrow ==
  ASSUME NEW c \in Seq(Line), NEW e \in Line
  PROVE  /\ e.type # "turn-start" => TakenRoots(Append(c, e)) = TakenRoots(c)
         /\ e.type = "turn-start" => TakenRoots(Append(c, e)) = TakenRoots(c) \cup {e.root}
<1>1. ToSet(Append(c, e)) = ToSet(c) \cup {e}
  <2>1. Range(Append(c, e)) = Range(c) \cup {e}
    BY AppendHolds
  <2> QED BY <2>1 DEF ToSet, Range
<1> QED BY <1>1 DEF TakenRoots

LEMMA AfterIs ==
  ASSUME NEW m \in Sessions, NEW e, NEW R, Fits(m, e)
  PROVE  After(m, e, R) = Replayed(m, e, R)
BY NothingIs DEF After

LEMMA HereIs ==
  ASSUME IInv
  PROVE  /\ Here \in Seq(Line) /\ leaf \in 1..Len(lines) /\ Len(lines) \in Nat
         /\ \A k \in DOMAIN Here : /\ \E j \in 1..Len(lines) : Here[k] = lines[j]
                                   /\ Here[k].type = "snapshot" => k = 1
         /\ Chains(lines)[0] = <<>>
         /\ mem \in Sessions /\ ended \in BOOLEAN /\ FileInv
<1>1. Good(lines) /\ leaf \in DOMAIN lines /\ mem \in Sessions /\ ended \in BOOLEAN /\ FileInv
  BY DEF IInv, Types, FileInv
<1>2. DOMAIN lines = 1..Len(lines) /\ Len(lines) \in Nat /\ Ordered(lines)
  BY <1>1, GoodIs
<1>3. leaf \in 0..Len(lines) /\ leaf \in 1..Len(lines)
  BY <1>1, <1>2
<1>4. Here \in Seq(Line)
  BY <1>2, <1>3, ChainTypes DEF Here
<1>5. \A k \in DOMAIN Here : /\ \E j \in 1..leaf : Here[k] = lines[j]
                             /\ Here[k].type = "snapshot" => k = 1
  BY <1>2, <1>3, ChainLines DEF Here
<1>6. 1..leaf \subseteq 1..Len(lines)
  BY <1>2, <1>3
<1>7. Chains(lines)[0] = <<>>
  BY <1>2, ChainsAre
<1> QED BY <1>1, <1>2, <1>3, <1>4, <1>5, <1>6, <1>7

(* The next record after the leaf.                                          *)
LEMMA ReplayNext ==
  ASSUME IInv, NEW e \in Line, e.parent = leaf
  PROVE  /\ FirstChain(e) = Append(Here, e) /\ FirstChain(e) \in Seq(Line)
         /\ \A R : ReplayWith(FirstChain(e), R) = After(ReplayWith(Here, R), e, R)
         /\ e.type # "turn-start" => TakenRoots(FirstChain(e)) = TakenRoots(Here)
         /\ e.type = "turn-start" => TakenRoots(FirstChain(e)) = TakenRoots(Here) \cup {e.root}
<1>1. Here \in Seq(Line)
  BY HereIs
<1>2. FirstChain(e) = Append(Here, e)
  BY DEF FirstChain, Here
<1> HIDE DEF Here
<1>3. Append(Here, e) \in Seq(Line)
  BY <1>1
<1>4. \A R : ReplayWith(Append(Here, e), R) = After(ReplayWith(Here, R), e, R)
  BY <1>1, ReplayGrows
<1> QED BY <1>1, <1>2, <1>3, <1>4, RootsGrow

LEMMA ReplaySecond ==
  ASSUME NEW e, FirstChain(e) \in Seq(Line), NEW f \in Line, f.type # "turn-start"
  PROVE  /\ \A R : ReplayWith(SecondChain(e, f), R) = After(ReplayWith(FirstChain(e), R), f, R)
         /\ TakenRoots(SecondChain(e, f)) = TakenRoots(FirstChain(e))
BY ReplayGrows, RootsGrow DEF SecondChain

(* Roots taken by turns have been written.                                  *)
LEMMA RootsWere ==
  ASSUME IInv, Whole, NEW r \in TakenRoots(Here), r # NoInput
  PROVE  WrittenIn(lines, r)
<1>1. PICK k \in DOMAIN Here : Here[k].type = "turn-start" /\ Here[k].root = r
  BY DEF TakenRoots, ToSet
<1>2. PICK j \in 1..Len(lines) : Here[k] = lines[j]
  BY HereIs
<1>3. /\ Good(lines) /\ DOMAIN lines = 1..Len(lines) /\ Len(lines) \in Nat
      /\ Torn \notin ToSet(lines)
  BY GoodIs DEF IInv, FileInv, Whole
<1>4. \A n \in 1..j : n \in DOMAIN lines /\ lines[n] # Torn
  <2>1. \A n \in 1..j : n \in DOMAIN lines
    BY <1>2, <1>3
  <2> QED BY <1>3, <2>1 DEF ToSet
<1>5. \E n \in 1..j : lines[n].type = "user-input" /\ lines[n].id = r
  BY <1>1, <1>2, <1>3, <1>4 DEF Good, RootsWritten
<1> QED BY <1>4, <1>5 DEF WrittenIn

LEMMA FreshIs ==
  ASSUME IInv, NEW i \in Inputs, Fresh(i)
  PROVE  /\ ~WrittenIn(lines, i) /\ i # NoInput
         /\ \A p \in ToSet(mem.pending) : p.id # i
         /\ i \notin ToSet(mem.undelivered) /\ i \notin ToSet(mem.msgs)
         /\ Whole => i \notin TakenRoots(Here)
<1>1. ~WrittenIn(lines, i)
  BY DEF Fresh, WrittenIn
<1>2. i # NoInput
  BY InputsAssumption DEF NoInput
<1>3. Whole => i \notin TakenRoots(Here)
  BY <1>1, <1>2, RootsWere
<1> QED BY <1>1, <1>2, <1>3 DEF Fresh

(* When no root waits for a turn, other roots may have been taken as well.   *)
LEMMA OtherRoots ==
  ASSUME IInv, stage = "up", Whole, mem.undelivered = <<>>, NEW R, TakenRoots(Here) \subseteq R
  PROVE  ReplayWith(Here, R) = mem
<1>1. mem \in Sessions /\ Here \in Seq(Line)
      /\ \A k \in DOMAIN Here : Here[k].type = "snapshot" => k = 1
  BY HereIs
<1>2. Replay(Here) = Seen(mem)
  BY DEF IInv, TruthInv
<1>3. ReplayWith(Here, TakenRoots(Here)) = mem
  BY <1>1, <1>2, SeenIs DEF Replay
<1>4. mem # Nothing
  BY <1>1, NothingIs
<1> HIDE DEF Here
<1>5. ReplayWith(Here, R) = ReplayWith(Here, TakenRoots(Here))
  BY <1>1, <1>3, <1>4, RootsAside
<1> QED BY <1>3, <1>5

(* A snapshot as the next record.                                           *)
LEMMA SnapshotNext ==
  ASSUME IInv, NEW x \in Sessions, NEW R
  PROVE  /\ Writable(Snapshot(x)) /\ Snapshot(x) \in Line
         /\ FirstChain(Snapshot(x)) \in Seq(Line)
         /\ TakenRoots(FirstChain(Snapshot(x))) = {}
         /\ ReplayWith(FirstChain(Snapshot(x)), R) = Emptied(x)
<1> DEFINE e == Snapshot(x)
<1>1. e \in Line
  BY LinesAre
<1>2. /\ e.type = "snapshot" /\ e.parent = 0 /\ e.msgs = x.msgs /\ e.pending = x.pending
      /\ e.turn = x.turn /\ e.starts = x.starts
  BY DEF Snapshot, NoParent
<1> HIDE DEF e
<1>3. e # Torn
  BY <1>2 DEF Torn
<1>4. Len(lines) \in Nat /\ Chains(lines)[0] = <<>>
  BY HereIs
<1>5. Writable(e)
  BY <1>1, <1>2, <1>3, <1>4 DEF Writable
<1>6. FirstChain(e) = <<e>>
  BY <1>2, <1>4 DEF FirstChain
<1>7. <<e>> \in Seq(Line) /\ ToSet(<<e>>) = {e}
  BY <1>1 DEF ToSet
<1>8. TakenRoots(<<e>>) = {}
  BY <1>2, <1>7 DEF TakenRoots
<1>9. ReplayWith(<<e>>, R) = After(EmptySession, e, R)
  BY <1>1, ReplayFirst
<1>10. EmptySession \in Sessions
  BY NothingIs
<1>11. Fits(EmptySession, e)
  BY <1>2 DEF Fits
<1>12. After(EmptySession, e, R) = Replayed(EmptySession, e, R)
  BY <1>10, <1>11, AfterIs
<1>13. Replayed(EmptySession, e, R) =
         [msgs |-> e.msgs, pending |-> e.pending, undelivered |-> <<>>,
          turn |-> e.turn, starts |-> e.starts]
  BY <1>2, <1>10, ReplayedSnapshot
<1>14. Emptied(x) = [msgs |-> x.msgs, pending |-> x.pending, undelivered |-> <<>>,
                     turn |-> x.turn, starts |-> x.starts]
  BY EmptiedIs
<1>15. ReplayWith(FirstChain(e), R) = Emptied(x)
  BY <1>2, <1>6, <1>9, <1>12, <1>13, <1>14
<1> QED BY <1>1, <1>5, <1>6, <1>7, <1>8, <1>15 DEF e

-----------------------------------------------------------------------------
(* The operations, one by one.                                              *)

LEMMA WritableRecords ==
  ASSUME IInv
  PROVE  /\ \A i \in Inputs, s \in BOOLEAN, c \in Seq(Inputs) : Writable(UserInput(leaf, i, s, c))
         /\ \A t \in 0..MaxLines, ms \in Seq(Int), d \in Seq(Inputs) :
              Writable(Messages(leaf, t, ms, d))
         /\ \A t \in 0..MaxLines : Writable(TurnEnd(leaf, t))
         /\ \A ids \in Seq(Inputs), ty \in {"user-input-restored", "user-input-discarded"} :
              Writable(Withdrawn(ty, leaf, ids))
<1>1. leaf \in Nat /\ leaf <= Len(lines)
  BY HereIs
<1>2. ASSUME NEW i \in Inputs, NEW s \in BOOLEAN, NEW c \in Seq(Inputs)
      PROVE  Writable(UserInput(leaf, i, s, c))
  <2>1. UserInput(leaf, i, s, c) \in Line
    BY <1>1, LinesAre
  <2> QED BY <1>1, <2>1 DEF Writable, UserInput, Torn
<1>3. ASSUME NEW t \in 0..MaxLines, NEW ms \in Seq(Int), NEW d \in Seq(Inputs)
      PROVE  Writable(Messages(leaf, t, ms, d))
  <2>1. Messages(leaf, t, ms, d) \in Line
    BY <1>1, LinesAre
  <2> QED BY <1>1, <2>1 DEF Writable, Messages, Torn
<1>4. ASSUME NEW t \in 0..MaxLines PROVE Writable(TurnEnd(leaf, t))
  <2>1. TurnEnd(leaf, t) \in Line
    BY <1>1, LinesAre
  <2> QED BY <1>1, <2>1 DEF Writable, TurnEnd, Torn
<1>5. ASSUME NEW ids \in Seq(Inputs), NEW ty \in {"user-input-restored", "user-input-discarded"}
      PROVE  Writable(Withdrawn(ty, leaf, ids))
  <2>1. Withdrawn(ty, leaf, ids) \in Line
    BY <1>1, LinesAre
  <2> QED BY <1>1, <2>1 DEF Writable, Withdrawn, Torn
<1> QED BY <1>2, <1>3, <1>4, <1>5

LEMMA KeptIs ==
  ASSUME IInv
  PROVE  /\ Kept(caller) = undo
         /\ \A c : c # "restoring" => Kept(c) = <<>>
         /\ caller # "restoring" => undo = <<>>
         /\ caller = "restoring" => undo # <<>>
         /\ caller \in Callers /\ failed \in BOOLEAN
BY DEF IInv, MemInv, Types, Kept, Callers

(* Received as the root that opens a turn.                                   *)
LEMMA RootReplays ==
  ASSUME IInv, stage = "up", Whole, NEW i \in Inputs, Fresh(i), NEW c \in Drafts
  PROVE  /\ Replay(FirstChain(UserInput(leaf, i, TRUE, c))) = Seen(Received(mem, i, TRUE, c))
         /\ mem.undelivered = <<>> =>
              ReplayWith(FirstChain(UserInput(leaf, i, TRUE, c)),
                         TakenRoots(FirstChain(UserInput(leaf, i, TRUE, c))) \cup {i})
                = Emptied(Received(mem, i, TRUE, c))
<1> DEFINE e == UserInput(leaf, i, TRUE, c)
           m == Received(mem, i, TRUE, c)
           x == Seen(mem)
<1>1. mem \in Sessions /\ c \in Seq(Inputs) /\ ToSet(c) \subseteq InState(mem, "restored")
  BY HereIs, InStateIs DEF Drafts
<1>2. Writable(e)
  BY <1>1, WritableRecords
<1>3. /\ e \in Line /\ e.type = "user-input" /\ e.parent = leaf /\ e.id = i
      /\ e.startsTurn = TRUE /\ e.consumed = c
  BY <1>2 DEF Writable, UserInput
<1> HIDE DEF e
<1>4. /\ \A R : ReplayWith(FirstChain(e), R) = After(ReplayWith(Here, R), e, R)
      /\ TakenRoots(FirstChain(e)) = TakenRoots(Here)
  BY <1>3, ReplayNext
<1>5. Replay(Here) = x
  BY DEF IInv, TruthInv
<1>6. /\ x = [msgs |-> mem.msgs \o mem.undelivered, pending |-> mem.pending,
              undelivered |-> mem.undelivered, turn |-> mem.turn, starts |-> mem.starts]
      /\ x \in Sessions
  BY <1>1, SeenIs
<1> HIDE DEF x
<1>7. \A y \in Sessions : y.pending = mem.pending => Fits(y, e)
  <2>1. \A y : y.pending = mem.pending => InState(y, "restored") = InState(mem, "restored")
    BY DEF InState
  <2> QED BY <1>1, <1>3, <2>1 DEF Fits
<1>8. i \notin TakenRoots(Here)
  BY FreshIs
<1>9. /\ mem.msgs \in Seq(Int) /\ mem.pending \in Seq(Waiting) /\ mem.undelivered \in Seq(Inputs)
      /\ mem.undelivered \in Seq(Int) /\ i \in Int
  BY <1>1, SessionHas, InputsAssumption
<1>10. Without(mem.pending, c) \o <<>> = Without(mem.pending, c)
  BY <1>9, WithoutIs, ConcatNone
<1>11. m = [msgs |-> mem.msgs, pending |-> Without(mem.pending, c),
            undelivered |-> Append(mem.undelivered, i), turn |-> mem.turn,
            starts |-> mem.starts] /\ m \in Sessions
  BY <1>1, ReceivedIs
<1> HIDE DEF m
<1>12. Replay(FirstChain(e)) = Seen(m)
  <2> DEFINE R == TakenRoots(Here)
  <2>1. Replay(FirstChain(e)) = After(x, e, R)
    BY <1>4, <1>5 DEF Replay
  <2>2. After(x, e, R) = Replayed(x, e, R)
    BY <1>6, <1>7, AfterIs
  <2>3. Replayed(x, e, R) =
          [msgs |-> Append(x.msgs, e.id), pending |-> Without(x.pending, e.consumed) \o <<>>,
           undelivered |-> Append(x.undelivered, e.id), turn |-> x.turn, starts |-> x.starts]
    BY <1>3, <1>6, <1>8, ReplayedOpening
  <2>4. Seen(m) = [msgs |-> m.msgs \o m.undelivered, pending |-> m.pending,
                   undelivered |-> m.undelivered, turn |-> m.turn, starts |-> m.starts]
    BY <1>11, SeenIs
  <2>5. Append(mem.msgs \o mem.undelivered, i) = mem.msgs \o Append(mem.undelivered, i)
    BY <1>9, ConcatAppend
  <2>6. Replayed(x, e, R) =
          [msgs |-> mem.msgs \o Append(mem.undelivered, i), pending |-> Without(mem.pending, c),
           undelivered |-> Append(mem.undelivered, i), turn |-> mem.turn, starts |-> mem.starts]
    BY <1>3, <1>6, <1>10, <2>3, <2>5
  <2>7. Seen(m) =
          [msgs |-> mem.msgs \o Append(mem.undelivered, i), pending |-> Without(mem.pending, c),
           undelivered |-> Append(mem.undelivered, i), turn |-> mem.turn, starts |-> mem.starts]
    BY <1>11, <2>4
  <2> QED BY <2>1, <2>2, <2>6, <2>7
<1>13. ASSUME mem.undelivered = <<>>
       PROVE  ReplayWith(FirstChain(e), TakenRoots(FirstChain(e)) \cup {i}) = Emptied(m)
  <2> DEFINE R == TakenRoots(Here) \cup {i}
  <2>1. ReplayWith(Here, R) = mem
    BY <1>13, OtherRoots
  <2>2. ReplayWith(FirstChain(e), R) = After(mem, e, R)
    BY <1>4, <2>1
  <2>3. After(mem, e, R) = Replayed(mem, e, R)
    BY <1>1, <1>7, AfterIs
  <2>4. e.id \in R
    BY <1>3
  <2> HIDE DEF R
  <2>5. Replayed(mem, e, R) =
          [msgs |-> mem.msgs, pending |-> Without(mem.pending, e.consumed) \o <<>>,
           undelivered |-> mem.undelivered, turn |-> mem.turn, starts |-> mem.starts]
    BY <1>1, <1>3, <2>4, ReplayedTaken
  <2>6. Emptied(m) = [msgs |-> m.msgs, pending |-> m.pending, undelivered |-> <<>>,
                      turn |-> m.turn, starts |-> m.starts]
    BY <1>11, EmptiedIs
  <2>7. Emptied(m) = [msgs |-> mem.msgs, pending |-> Without(mem.pending, c), undelivered |-> <<>>,
                      turn |-> mem.turn, starts |-> mem.starts]
    BY <1>11, <2>6
  <2>8. Replayed(mem, e, R) =
          [msgs |-> mem.msgs, pending |-> Without(mem.pending, c), undelivered |-> <<>>,
           turn |-> mem.turn, starts |-> mem.starts]
    BY <1>3, <1>10, <1>13, <2>5
  <2>9. TakenRoots(FirstChain(e)) \cup {i} = R
    BY <1>4 DEF R
  <2> QED BY <2>2, <2>3, <2>7, <2>8, <2>9
<1> QED BY <1>12, <1>13 DEF e, m

(* A record that changes only what waits: whatever the roots and messages.   *)
LEMMA QueuedReplays ==
  ASSUME IInv, stage = "up", Whole, NEW i \in Inputs, Fresh(i), NEW c \in Drafts
  PROVE  /\ Replay(FirstChain(UserInput(leaf, i, FALSE, c))) = Seen(Received(mem, i, FALSE, c))
         /\ caller = "opening" =>
              ReplayWith(FirstChain(UserInput(leaf, i, FALSE, c)),
                         TakenRoots(FirstChain(UserInput(leaf, i, FALSE, c)))
                           \cup ToSet(mem.undelivered))
                = Emptied(Received(mem, i, FALSE, c))
<1> DEFINE e == UserInput(leaf, i, FALSE, c)
           m == Received(mem, i, FALSE, c)
           q == [id |-> i, state |-> "queued"]
<1>1. mem \in Sessions /\ c \in Seq(Inputs) /\ ToSet(c) \subseteq InState(mem, "restored")
  BY HereIs, InStateIs DEF Drafts
<1>2. Writable(e)
  BY <1>1, WritableRecords
<1>3. /\ e \in Line /\ e.type = "user-input" /\ e.parent = leaf /\ e.id = i
      /\ e.startsTurn = FALSE /\ e.consumed = c
  BY <1>2 DEF Writable, UserInput
<1> HIDE DEF e
<1>4. /\ \A R : ReplayWith(FirstChain(e), R) = After(ReplayWith(Here, R), e, R)
      /\ TakenRoots(FirstChain(e)) = TakenRoots(Here)
  BY <1>3, ReplayNext
<1>5. /\ Replay(Here) = Seen(mem)
      /\ caller = "opening" =>
           ReplayWith(Here, TakenRoots(Here) \cup ToSet(mem.undelivered)) = Emptied(mem)
  BY DEF IInv, TruthInv
<1>6. /\ Seen(mem) = [msgs |-> mem.msgs \o mem.undelivered, pending |-> mem.pending,
                      undelivered |-> mem.undelivered, turn |-> mem.turn, starts |-> mem.starts]
      /\ Seen(mem) \in Sessions
  BY <1>1, SeenIs
<1>14. /\ Emptied(mem) = [msgs |-> mem.msgs, pending |-> mem.pending, undelivered |-> <<>>,
                          turn |-> mem.turn, starts |-> mem.starts]
       /\ Emptied(mem) \in Sessions
  BY <1>1, EmptiedIs
<1>7. \A y \in Sessions : y.pending = mem.pending => Fits(y, e)
  <2>1. \A y : y.pending = mem.pending => InState(y, "restored") = InState(mem, "restored")
    BY DEF InState
  <2>2. \A p \in ToSet(mem.pending) : p.id # i
    BY FreshIs
  <2> QED BY <1>1, <1>3, <2>1, <2>2 DEF Fits
<1>8. Without(mem.pending, c) \in Seq(Waiting) /\ q \in Waiting
  BY <1>1, SessionHas, WithoutIs DEF Waiting
<1> HIDE DEF q
<1>9. Without(mem.pending, c) \o <<q>> = Append(Without(mem.pending, c), q)
  BY <1>8
<1>10. ASSUME NEW y \in Sessions, y.pending = mem.pending, NEW R
       PROVE  After(y, e, R) =
                [msgs |-> y.msgs, pending |-> Append(Without(mem.pending, c), q),
                 undelivered |-> y.undelivered, turn |-> y.turn, starts |-> y.starts]
  <2>1. After(y, e, R) = Replayed(y, e, R)
    BY <1>7, <1>10, AfterIs
  <2>2. Replayed(y, e, R) =
          [msgs |-> y.msgs,
           pending |-> Without(y.pending, e.consumed) \o <<[id |-> e.id, state |-> "queued"]>>,
           undelivered |-> y.undelivered, turn |-> y.turn, starts |-> y.starts]
    BY <1>3, ReplayedQueued
  <2>3. [id |-> e.id, state |-> "queued"] = q
    BY <1>3 DEF q
  <2> QED BY <1>3, <1>9, <1>10, <2>1, <2>2, <2>3
<1>11. m = [msgs |-> mem.msgs, pending |-> Append(Without(mem.pending, c), q),
            undelivered |-> mem.undelivered, turn |-> mem.turn, starts |-> mem.starts]
       /\ m \in Sessions
  BY <1>1, ReceivedIs DEF q
<1> HIDE DEF m
<1>12. Replay(FirstChain(e)) = Seen(m)
  <2>1. Replay(FirstChain(e)) = After(Seen(mem), e, TakenRoots(Here))
    BY <1>4, <1>5 DEF Replay
  <2>2. After(Seen(mem), e, TakenRoots(Here)) =
          [msgs |-> mem.msgs \o mem.undelivered, pending |-> Append(Without(mem.pending, c), q),
           undelivered |-> mem.undelivered, turn |-> mem.turn, starts |-> mem.starts]
    <3> DEFINE x == Seen(mem)
    <3>0. /\ x = [msgs |-> mem.msgs \o mem.undelivered, pending |-> mem.pending,
                  undelivered |-> mem.undelivered, turn |-> mem.turn, starts |-> mem.starts]
          /\ x \in Sessions
      BY <1>6
    <3> HIDE DEF x
    <3>1. /\ x \in Sessions /\ x.msgs = mem.msgs \o mem.undelivered /\ x.pending = mem.pending
          /\ x.undelivered = mem.undelivered /\ x.turn = mem.turn /\ x.starts = mem.starts
      BY <3>0
    <3>2. After(x, e, TakenRoots(Here)) =
            [msgs |-> x.msgs, pending |-> Append(Without(mem.pending, c), q),
             undelivered |-> x.undelivered, turn |-> x.turn, starts |-> x.starts]
      BY <1>10, <3>1
    <3> QED BY <3>1, <3>2 DEF x
  <2>3. Seen(m) = [msgs |-> m.msgs \o m.undelivered, pending |-> m.pending,
                   undelivered |-> m.undelivered, turn |-> m.turn, starts |-> m.starts]
    BY <1>11, SeenIs
  <2> QED BY <1>11, <2>1, <2>2, <2>3
<1>13. ASSUME caller = "opening"
       PROVE  ReplayWith(FirstChain(e), TakenRoots(FirstChain(e)) \cup ToSet(mem.undelivered))
                = Emptied(m)
  <2> DEFINE R == TakenRoots(Here) \cup ToSet(mem.undelivered)
  <2>1. ReplayWith(Here, R) = Emptied(mem)
    BY <1>5, <1>13
  <2>2. ReplayWith(FirstChain(e), R) = After(Emptied(mem), e, R)
    BY <1>4, <2>1
  <2> HIDE DEF R
  <2>3. After(Emptied(mem), e, R) =
          [msgs |-> mem.msgs, pending |-> Append(Without(mem.pending, c), q),
           undelivered |-> <<>>, turn |-> mem.turn, starts |-> mem.starts]
    BY <1>14, <1>10
  <2>4. Emptied(m) = [msgs |-> m.msgs, pending |-> m.pending, undelivered |-> <<>>,
                      turn |-> m.turn, starts |-> m.starts]
    BY <1>11, EmptiedIs
  <2>5. TakenRoots(FirstChain(e)) \cup ToSet(mem.undelivered) = R
    BY <1>4 DEF R
  <2> QED BY <1>11, <2>2, <2>3, <2>4, <2>5
<1> QED BY <1>12, <1>13 DEF e, m

-----------------------------------------------------------------------------
(* No input twice: of no record of the file does the chain replay an input   *)
(* at two places, or one that was not written before it.                     *)

(* The inputs the first n lines tell of.                                     *)
Accepted(ls, n) == {ls[j].id : j \in {k \in 1..n : ls[k].type = "user-input"}}
NewIds(e) == IF e.type = "user-input" THEN {e.id} ELSE {}
Inside(m) == ToSet(m.msgs) \cup {m.pending[k].id : k \in DOMAIN m.pending}
SoundIn(m, ids) == Single(m) /\ Inside(m) \cap Inputs \subseteq ids

TornFree(ls, n) == \A j \in 1..n : ls[j] # Torn
AllSound(ls) ==
  \A n \in 1..Len(ls) : TornFree(ls, n) => SoundIn(Replay(Chains(ls)[n]), Accepted(ls, n))

LEMMA SoundMore ==
  ASSUME NEW m, NEW V, NEW W, SoundIn(m, V), V \subseteq W
  PROVE  SoundIn(m, W)
BY DEF SoundIn

(* Lines that two transcripts share.                                        *)
LEMMA SoundSame ==
  ASSUME NEW ls, NEW ks, Good(ls), Good(ks), AllSound(ls), NEW N \in Nat,
         N <= Len(ls), N <= Len(ks), \A k \in 1..N : ks[k] = ls[k]
  PROVE  \A n \in 1..N : TornFree(ks, n) => SoundIn(Replay(Chains(ks)[n]), Accepted(ks, n))
<1> SUFFICES ASSUME NEW n \in 1..N, TornFree(ks, n)
             PROVE  SoundIn(Replay(Chains(ks)[n]), Accepted(ks, n))
  OBVIOUS
<1>1. /\ Ordered(ls) /\ Ordered(ks) /\ Len(ls) \in Nat /\ Len(ks) \in Nat
  BY GoodIs
<1>2. n \in 0..N /\ n \in 1..Len(ls) /\ 1..n \subseteq 1..N
  BY <1>1
<1>3. Chains(ks)[n] = Chains(ls)[n]
  BY <1>1, <1>2, ChainsKept
<1>4. TornFree(ls, n)
  BY <1>2 DEF TornFree
<1>5. Accepted(ks, n) = Accepted(ls, n)
  BY <1>2 DEF Accepted
<1> QED BY <1>2, <1>3, <1>4, <1>5 DEF AllSound

(* One more line.                                                           *)
LEMMA SoundAppend ==
  ASSUME NEW ls, Good(ls), AllSound(ls), NEW e \in Line, Good(Append(ls, e)),
         Torn \notin ToSet(ls) /\ e # Torn =>
           SoundIn(Replay(Append(Chains(ls)[e.parent], e)), Accepted(ls, Len(ls)) \cup NewIds(e))
  PROVE  /\ AllSound(Append(ls, e))
         /\ Accepted(ls, Len(ls)) \cup NewIds(e) = Accepted(Append(ls, e), Len(ls) + 1)
<1> DEFINE ks == Append(ls, e)
           N == Len(ls)
<1>1. /\ ls \in Seq(Line) /\ N \in Nat /\ Len(ks) = N + 1 /\ ks[N + 1] = e
      /\ \A k \in 1..N : ks[k] = ls[k]
      /\ DOMAIN ls = 1..N
  BY GoodIs
<1>2. Chains(ks)[N + 1] = Append(Chains(ls)[e.parent], e)
  BY ChainOfNew
<1>3. Good(ks)
  OBVIOUS
<1> HIDE DEF ks
<1>4. \A n \in 1..N : TornFree(ks, n) => SoundIn(Replay(Chains(ks)[n]), Accepted(ks, n))
  BY <1>1, <1>3, SoundSame
<1>5. N + 1 \in 1..(N + 1) /\ (\A k \in 1..(N + 1) : k \in 1..N \/ k = N + 1)
      /\ 1..N \subseteq 1..(N + 1)
  BY <1>1
<1>6. Accepted(ls, N) \cup NewIds(e) = Accepted(ks, N + 1)
  <2>1. {k \in 1..(N + 1) : ks[k].type = "user-input"} =
          {k \in 1..N : ls[k].type = "user-input"}
            \cup (IF e.type = "user-input" THEN {N + 1} ELSE {})
    BY <1>1, <1>5
  <2> HIDE DEF N
  <2>2. CASE e.type = "user-input"
    <3>1. {k \in 1..(N + 1) : ks[k].type = "user-input"} =
            {k \in 1..N : ls[k].type = "user-input"} \cup {N + 1}
      BY <2>1, <2>2
    <3> QED BY <1>1, <2>2, <3>1 DEF Accepted, NewIds
  <2>3. CASE e.type # "user-input"
    <3>1. {k \in 1..(N + 1) : ks[k].type = "user-input"} =
            {k \in 1..N : ls[k].type = "user-input"}
      BY <2>1, <2>3
    <3> QED BY <1>1, <2>3, <3>1 DEF Accepted, NewIds
  <2> QED BY <2>2, <2>3
<1>7. ASSUME TornFree(ks, N + 1)
      PROVE  SoundIn(Replay(Chains(ks)[N + 1]), Accepted(ks, N + 1))
  <2>1. e # Torn
    BY <1>1, <1>5, <1>7 DEF TornFree
  <2>2. Torn \notin ToSet(ls)
    BY <1>1, <1>5, <1>7 DEF TornFree, ToSet
  <2> QED BY <1>2, <1>6, <2>1, <2>2
<1>8. AllSound(ks)
  BY <1>1, <1>4, <1>5, <1>7 DEF AllSound
<1> QED BY <1>6, <1>8 DEF ks

LEMMA SoundFront ==
  ASSUME NEW ls, Good(ls), AllSound(ls), Len(ls) > 1
  PROVE  AllSound(Front(ls))
<1>1. /\ Good(Front(ls)) /\ Len(Front(ls)) = Len(ls) - 1
      /\ \A k \in 1..(Len(ls) - 1) : Front(ls)[k] = ls[k]
  BY GoodFront
<1>2. Len(ls) \in Nat /\ Len(ls) - 1 \in Nat /\ Len(ls) - 1 <= Len(ls)
  BY GoodIs
<1> DEFINE ks == Front(ls)
           N == Len(ls) - 1
<1>3. /\ Good(ks) /\ Len(ks) = N /\ N \in Nat /\ N <= Len(ls) /\ N <= Len(ks)
      /\ \A k \in 1..N : ks[k] = ls[k]
  BY <1>1, <1>2
<1>4. AllSound(ks)
  <2> HIDE DEF ks, N
  <2>1. \A n \in 1..N : TornFree(ks, n) => SoundIn(Replay(Chains(ks)[n]), Accepted(ks, n))
    BY <1>3, SoundSame
  <2> QED BY <1>3, <2>1 DEF AllSound
<1> QED BY <1>4

(* The next line, which is torn if the one before it has no end.             *)
LEMMA SoundBegun ==
  ASSUME FileInv, ended \in BOOLEAN, AllSound(lines), NEW e, Writable(e) \/ e = Torn,
         Whole /\ e # Torn =>
           SoundIn(Replay(FirstChain(e)), Accepted(lines, Len(lines)) \cup NewIds(e))
  PROVE  AllSound(Begun(e))
<1>1. Good(lines) /\ (~ended => Len(lines) > 1) /\ e \in Line /\ Torn \in Line
  BY LinesAre DEF FileInv, Writable
<1>2. Good(Begun(e))
  BY BegunIs
<1>3. CASE ended
  <2>1. Begun(e) = Append(lines, e)
    BY <1>3 DEF Begun
  <2>2. Torn \notin ToSet(lines) /\ e # Torn =>
          SoundIn(Replay(Append(Chains(lines)[e.parent], e)),
                  Accepted(lines, Len(lines)) \cup NewIds(e))
    BY <1>3 DEF Whole, FirstChain
  <2> QED BY <1>1, <1>2, <2>1, <2>2, SoundAppend
<1>4. CASE ~ended
  <2>1. Begun(e) = Append(Front(lines), Torn) /\ AllSound(Front(lines)) /\ Good(Front(lines))
    BY <1>1, <1>4, SoundFront, GoodFront DEF Begun
  <2> QED BY <1>1, <1>2, <2>1, SoundAppend
<1> QED BY <1>3, <1>4

LEMMA SoundSecond ==
  ASSUME FileInv, ended \in BOOLEAN, AllSound(lines), NEW e, Writable(e), NEW f \in Line,
         f.parent = NextLine, f.type # "turn-start",
         Whole =>
           SoundIn(Replay(FirstChain(e)), Accepted(lines, Len(lines)) \cup NewIds(e)),
         Whole /\ f # Torn =>
           SoundIn(Replay(SecondChain(e, f)), Accepted(lines, Len(lines)) \cup NewIds(f))
  PROVE  AllSound(Append(Begun(e), f))
<1>1. /\ Good(Begun(e)) /\ Len(Begun(e)) = NextLine /\ NextLine \in Nat
      /\ (ended => /\ Begun(e) = Append(lines, e) /\ NextLine = Len(lines) + 1
                   /\ ToSet(Begun(e)) = ToSet(lines) \cup {e})
      /\ (~ended => Torn \in ToSet(Begun(e)))
  BY BegunIs
<1>2. AllSound(Begun(e))
  BY SoundBegun
<1>3. Good(Append(Begun(e), f))
  <2>1. f.parent <= NextLine
    BY <1>1
  <2> QED BY <2>1, BegunGoesOn
<1>4. ASSUME Torn \notin ToSet(Begun(e)), f # Torn
      PROVE  SoundIn(Replay(Append(Chains(Begun(e))[f.parent], f)),
                     Accepted(Begun(e), Len(Begun(e))) \cup NewIds(f))
  <2>1. ended /\ Whole
    BY <1>1, <1>4 DEF Whole
  <2>2. Chains(Begun(e))[Len(lines) + 1] = FirstChain(e)
    BY <2>1, NextChains
  <2>3. Append(Chains(Begun(e))[f.parent], f) = SecondChain(e, f)
    BY <1>1, <2>1, <2>2 DEF SecondChain
  <2>4. Accepted(lines, Len(lines)) \subseteq Accepted(Begun(e), Len(Begun(e)))
    <3>1. \A k \in 1..Len(lines) : k \in 1..(Len(lines) + 1) /\ Append(lines, e)[k] = lines[k]
      BY GoodIs DEF FileInv
    <3> QED BY <1>1, <2>1, <3>1 DEF Accepted
  <2>5. SoundIn(Replay(SecondChain(e, f)), Accepted(lines, Len(lines)) \cup NewIds(f))
    BY <1>4, <2>1
  <2>6. Accepted(lines, Len(lines)) \cup NewIds(f)
          \subseteq Accepted(Begun(e), Len(Begun(e))) \cup NewIds(f)
    BY <2>4
  <2> QED BY <2>3, <2>5, <2>6, SoundMore
<1>5. Begun(e) \in Seq(Line)
  BY <1>1, GoodIs
<1> QED BY <1>1, <1>2, <1>3, <1>4, SoundAppend

(* A file that is whole has been so, and has lost none of its inputs.        *)
Grown == Whole' => Whole /\ Accepted(lines, Len(lines)) \subseteq Accepted(lines', Len(lines'))

(* A write that makes m of the session, and halves if it is cut, leaves sound *)
(* lines if these are sound; ids are the inputs it tells of.                *)
Carries(halves, m, ids) ==
  /\ Grown
  /\ AllSound(lines)
       /\ (Whole => /\ \A x \in halves : SoundIn(x, Accepted(lines, Len(lines)))
                    /\ SoundIn(Seen(m), Accepted(lines, Len(lines)) \cup ids))
     => AllSound(lines')

LEMMA WroteGrows ==
  ASSUME FileInv, ended \in BOOLEAN, NEW e, Writable(e), NEW f \in Line, f.parent <= NextLine,
         f.type # "turn-start", Wrote(lines', ended', e, f)
  PROVE  Grown
<1>1. /\ Len(lines') >= Len(lines)
      /\ Torn \notin ToSet(lines') =>
           /\ Torn \notin ToSet(lines)
           /\ (lines' = lines /\ ended' = ended) \/ ended
           /\ \A k \in 1..Len(lines) : lines'[k] = lines[k]
      /\ Good(lines')
  BY FileKept
<1>2. Len(lines) \in Nat /\ Len(lines') \in Nat
  BY <1>1, GoodIs DEF FileInv
<1>3. ASSUME Whole'
      PROVE  Whole /\ Accepted(lines, Len(lines)) \subseteq Accepted(lines', Len(lines'))
  <2>1. Torn \notin ToSet(lines') /\ ended'
    BY <1>3 DEF Whole
  <2>2. Whole
    BY <1>1, <2>1 DEF Whole
  <2>3. \A k \in 1..Len(lines) : k \in 1..Len(lines') /\ lines'[k] = lines[k]
    BY <1>1, <1>2, <2>1
  <2>4. Accepted(lines, Len(lines)) \subseteq Accepted(lines', Len(lines'))
    BY <2>3 DEF Accepted
  <2> QED BY <2>2, <2>4
<1> QED BY <1>3 DEF Grown

LEMMA OneCarries ==
  ASSUME FileInv, ended \in BOOLEAN, NEW e, Writable(e), NEW m, NEW ids, ids \subseteq NewIds(e),
         Whole => Replay(FirstChain(e)) = Seen(m),
         lines' = lines \/ lines' = Begun(Torn) \/ lines' = Begun(e), Grown
  PROVE  Carries({}, m, ids)
<1> SUFFICES ASSUME AllSound(lines),
                    Whole => SoundIn(Seen(m), Accepted(lines, Len(lines)) \cup ids)
             PROVE  AllSound(lines')
  BY DEF Carries
<1>1. Whole => SoundIn(Replay(FirstChain(e)), Accepted(lines, Len(lines)) \cup NewIds(e))
  <2>1. Accepted(lines, Len(lines)) \cup ids \subseteq Accepted(lines, Len(lines)) \cup NewIds(e)
    OBVIOUS
  <2> QED BY <2>1, SoundMore
<1>2. AllSound(Begun(e))
  BY <1>1, SoundBegun
<1>3. AllSound(Begun(Torn))
  <2>1. Torn = Torn
    OBVIOUS
  <2> QED BY <2>1, SoundBegun
<1> QED BY <1>2, <1>3

LEMMA TwoCarries ==
  ASSUME FileInv, ended \in BOOLEAN, NEW e, Writable(e), NEW f \in Line, f # Torn,
         f.parent = NextLine, f.type # "turn-start", NEW half, NEW m, NEW ids,
         ids \subseteq NewIds(f),
         Whole => Replay(FirstChain(e)) = half /\ Replay(SecondChain(e, f)) = Seen(m),
         Wrote(lines', ended', e, f)
  PROVE  Carries({half}, m, ids)
<1>7. Grown
  <2>1. f.parent <= NextLine
    BY BegunIs
  <2> QED BY <2>1, WroteGrows
<1> SUFFICES ASSUME AllSound(lines),
                    Whole => /\ SoundIn(half, Accepted(lines, Len(lines)))
                             /\ SoundIn(Seen(m), Accepted(lines, Len(lines)) \cup ids)
             PROVE  AllSound(lines')
  BY <1>7 DEF Carries
<1>1. Whole => SoundIn(Replay(FirstChain(e)), Accepted(lines, Len(lines)) \cup NewIds(e))
  <2>1. Accepted(lines, Len(lines)) \subseteq Accepted(lines, Len(lines)) \cup NewIds(e)
    OBVIOUS
  <2> QED BY <2>1, SoundMore
<1>2. Whole => SoundIn(Replay(SecondChain(e, f)), Accepted(lines, Len(lines)) \cup NewIds(f))
  <2>1. Accepted(lines, Len(lines)) \cup ids \subseteq Accepted(lines, Len(lines)) \cup NewIds(f)
    OBVIOUS
  <2> QED BY <2>1, SoundMore
<1>3. AllSound(Begun(e))
  BY <1>1, SoundBegun
<1>4. AllSound(Begun(Torn))
  <2>1. Torn = Torn
    OBVIOUS
  <2> QED BY <2>1, SoundBegun
<1>5. AllSound(Append(Begun(e), f))
  BY <1>1, <1>2, SoundSecond
<1>6. ASSUME lines' = Append(Begun(e), Torn) PROVE AllSound(lines')
  <2>1. /\ Good(Begun(e)) /\ Torn \in Line /\ Torn.parent = 0 /\ Torn.type # "turn-start"
        /\ NextLine \in Nat /\ Begun(e) \in Seq(Line)
    BY BegunIs, LinesAre, GoodIs DEF Torn, NoParent
  <2>2. Good(Append(Begun(e), Torn))
    <3>1. Torn.parent <= NextLine
      BY <2>1
    <3> QED BY <2>1, <3>1, BegunGoesOn
  <2> QED BY <1>3, <1>6, <2>1, <2>2, SoundAppend
<1> QED BY <1>3, <1>4, <1>5, <1>6 DEF Wrote

LEMMA RecordOneLines ==
  ASSUME IInv, NEW e, Writable(e), NEW m, NEW next, NEW other, NEW fl,
         Record(<<e>>, m, next, other, fl)
  PROVE  lines' = lines \/ lines' = Begun(Torn) \/ lines' = Begun(e)
<1>1. Good(lines) /\ (~ended => Len(lines) > 1) /\ e \in Line /\ Torn \in Line
  BY LinesAre DEF IInv, FileInv, Writable
<1>2. Followed(<<e>>) = Begun(e)
  BY <1>1, FollowedIs
<1>3. CASE Succeeds(<<e>>, m)
  BY <1>2, <1>3 DEF Succeeds
<1>4. CASE \E c \in Cuts(<<e>>) : WriteCut(<<e>>, c)
  BY <1>1, <1>4, CutOneFound
<1> QED BY <1>3, <1>4 DEF Record, Fails

(* An append of one record, and of two.                                     *)
LEMMA RecordOneKeeps ==
  ASSUME IInv, NEW e, Writable(e), NEW m, NEW next, NEW other, NEW fl,
         Right(m, FirstChain(e), Begun(e), next), Leaves(other, fl),
         NEW ids, ids \subseteq NewIds(e),
         Record(<<e>>, m, next, other, fl), found' = Loaded(lines')
  PROVE  /\ IInv' /\ Keeps(m, {}, "up") /\ Carries({}, m, ids)
         /\ \/ stage' = "down" /\ undo' = <<>>
            \/ stage' = "up" /\ mem' = m /\ undo' = Kept(next)
            \/ stage' = "up" /\ mem' = mem /\ undo' = Kept(other)
<1> DEFINE seen == {found, Replay(FirstChain(e))}
<1>1. /\ Attempt(e, Other, Begun(e), seen, m, next, other, fl)
      /\ stage = "up" /\ Len(Begun(e)) <= MaxLines
  BY AttemptOne
<1>2. /\ Other \in Line /\ Other # Torn /\ Other.parent = NextLine
      /\ Other.type # "turn-start"
  BY HereIs, OtherIs
<1>3. Whole => seen \subseteq {found, Seen(m)} \cup {}
  BY DEF Right
<1> HIDE DEF seen
<1>4. Carries({}, m, ids)
  <2>1. lines' = lines \/ lines' = Begun(Torn) \/ lines' = Begun(e)
    BY RecordOneLines
  <2>2. Whole => Replay(FirstChain(e)) = Seen(m)
    BY DEF Right
  <2>3. FileInv /\ ended \in BOOLEAN
    BY HereIs
  <2>4. Grown
    <3>1. Wrote(lines', ended', e, Other)
      BY <1>1 DEF Attempt, Wrote
    <3>2. Other.parent <= NextLine
      BY <1>2, <2>3, BegunIs
    <3> HIDE DEF Other
    <3> QED BY <1>2, <2>3, <3>1, <3>2, WroteGrows
  <2> QED BY <2>1, <2>2, <2>3, <2>4, OneCarries
<1>5. /\ IInv' /\ Keeps(m, {}, "up")
      /\ \/ stage' = "down" /\ undo' = <<>>
         \/ stage' = "up" /\ mem' = m /\ undo' = Kept(next)
         \/ stage' = "up" /\ mem' = mem /\ undo' = Kept(other)
  BY <1>1, <1>2, <1>3, AttemptKeeps
<1> QED BY <1>4, <1>5

LEMMA RecordTwoKeeps ==
  ASSUME IInv, NEW e, Writable(e), NEW f \in Line, f # Torn, f.parent = NextLine,
         f.type # "turn-start", NEW m, NEW next, NEW other, NEW fl, NEW half,
         Right(m, SecondChain(e, f), Append(Begun(e), f), next), Leaves(other, fl),
         Whole => Replay(FirstChain(e)) = half, NEW ids, ids \subseteq NewIds(f),
         Record(<<e, f>>, m, next, other, fl), found' = Loaded(lines')
  PROVE  /\ IInv' /\ Keeps(m, {half}, "up") /\ Carries({half}, m, ids)
         /\ \/ stage' = "down" /\ undo' = <<>>
            \/ stage' = "up" /\ mem' = m /\ undo' = Kept(next)
            \/ stage' = "up" /\ mem' = mem /\ undo' = Kept(other)
<1> DEFINE seen == {found, Replay(FirstChain(e)), Replay(SecondChain(e, f))}
<1>1. /\ Attempt(e, f, Append(Begun(e), f), seen, m, next, other, fl)
      /\ stage = "up" /\ Len(Append(Begun(e), f)) <= MaxLines
  BY AttemptTwo
<1>2. Whole => seen \subseteq {found, Seen(m)} \cup {half}
  BY DEF Right
<1> HIDE DEF seen
<1>3. Carries({half}, m, ids)
  <2>1. Wrote(lines', ended', e, f)
    BY <1>1 DEF Attempt, Wrote
  <2>2. Whole => Replay(FirstChain(e)) = half /\ Replay(SecondChain(e, f)) = Seen(m)
    BY DEF Right
  <2>3. FileInv /\ ended \in BOOLEAN
    BY HereIs
  <2> QED BY <2>1, <2>2, <2>3, TwoCarries
<1>4. /\ IInv' /\ Keeps(m, {half}, "up")
      /\ \/ stage' = "down" /\ undo' = <<>>
         \/ stage' = "up" /\ mem' = m /\ undo' = Kept(next)
         \/ stage' = "up" /\ mem' = mem /\ undo' = Kept(other)
  BY <1>1, <1>2, AttemptKeeps
<1> QED BY <1>3, <1>4

(* The rollback that may be taken back is the same afterwards.               *)
SameUndo == undo' = IF stage' = "down" THEN <<>> ELSE undo

LEMMA SecuredBegun ==
  ASSUME IInv, NEW e, Writable(e), e.type = "user-input"
  PROVE  Secured(Begun(e), TRUE, e.id)
<1>1. FileInv /\ ended \in BOOLEAN /\ Good(lines)
  BY HereIs DEF FileInv
<1>2. /\ Good(Begun(e)) /\ Len(Begun(e)) = NextLine
      /\ (ended => Begun(e) = Append(lines, e) /\ NextLine = Len(lines) + 1)
      /\ (~ended => Torn \in ToSet(Begun(e)))
  BY <1>1, BegunIs
<1>3. CASE ended
  <2>1. e \in Line /\ e.parent <= Len(lines)
    BY DEF Writable
  <2>2. Append(lines, e)[Len(lines) + 1] = e
    BY <1>1, GoodIs DEF Ordered
  <2>3. Len(lines) + 1 \in DOMAIN Begun(e)
    BY <1>1, <1>2, <1>3, GoodIs
  <2> QED BY <1>2, <1>3, <2>2, <2>3 DEF Secured
<1> QED BY <1>1, <1>2, <1>3 DEF Secured

(* What was secured is so after one more record.                             *)
LEMMA SecuredGoesOn ==
  ASSUME IInv, NEW e, Writable(e), NEW r, Secured(lines, ended, r)
  PROVE  Secured(Begun(e), TRUE, r)
<1>1. FileInv /\ ended \in BOOLEAN
  BY HereIs
<1>2. Other \in Line /\ Other.parent <= NextLine /\ Other.type # "turn-start"
  <2>1. NextLine \in Nat
    BY <1>1, BegunIs
  <2> QED BY <1>1, <2>1, OtherIs
<1>3. Wrote(Begun(e), TRUE, e, Other)
  BY DEF Wrote
<1> HIDE DEF Other
<1> QED BY <1>1, <1>2, <1>3, SecuredStays

LEMMA UserInputKeeps ==
  ASSUME IInv, NEW i \in Inputs, NEW c \in Drafts, RecordUserInput(i, c),
         found' = Loaded(lines')
  PROVE  /\ IInv' /\ SameUndo
         /\ stage = "up" /\ Keeps(Received(mem, i, caller = "idle", c), {}, "up")
         /\ Carries({}, Received(mem, i, caller = "idle", c), {i})
<1> DEFINE root == caller = "idle"
           e == UserInput(leaf, i, root, c)
           m == Received(mem, i, root, c)
           next == IF root /\ ~failed THEN "opening" ELSE caller
<1>1. Fresh(i) /\ Record(<<e>>, m, next, caller, failed)
  BY DEF RecordUserInput, IsNext, HostRecord
<1>2. stage = "up"
  BY <1>1 DEF Record
<1>3. root \in BOOLEAN /\ mem \in Sessions /\ c \in Seq(Inputs)
  BY HereIs, InStateIs DEF Drafts
<1>4. Writable(e) /\ e.type = "user-input" /\ e.id = i
  <2>1. Writable(e)
    BY <1>3, WritableRecords
  <2> QED BY <2>1 DEF UserInput
<1>5. m \in Sessions
  BY <1>3, ReceivedIs
<1>6. m.undelivered = IF root THEN Append(mem.undelivered, i) ELSE mem.undelivered
  <2>1. CASE root
    <3>1. root = TRUE
      BY <2>1
    <3>2. m = [msgs |-> mem.msgs, pending |-> Without(mem.pending, c),
               undelivered |-> Append(mem.undelivered, i), turn |-> mem.turn,
               starts |-> mem.starts]
      BY <1>3, <3>1, ReceivedIs
    <3> HIDE DEF m, root
    <3> QED BY <2>1, <3>2
  <2>2. CASE ~root
    <3>1. root = FALSE
      BY <2>2
    <3>2. m = [msgs |-> mem.msgs,
               pending |-> Append(Without(mem.pending, c), [id |-> i, state |-> "queued"]),
               undelivered |-> mem.undelivered, turn |-> mem.turn, starts |-> mem.starts]
      BY <1>3, <3>1, ReceivedIs
    <3> HIDE DEF m, root
    <3> QED BY <2>2, <3>2
  <2> QED BY <2>1, <2>2
<1>7. MemInv /\ TruthInv /\ failed \in BOOLEAN /\ caller \in Callers
  BY DEF IInv, Types, Callers
<1>8. Whole => Replay(FirstChain(e)) = Seen(m)
  BY <1>1, <1>2, RootReplays, QueuedReplays
<1>9. ASSUME next = "opening"
      PROVE  /\ ~failed /\ \E r \in Inputs : m.undelivered = <<r>> /\ Secured(Begun(e), TRUE, r)
             /\ Whole => ReplayWith(FirstChain(e), TakenRoots(FirstChain(e)) \cup ToSet(m.undelivered))
                           = Emptied(m)
  <2>1. CASE root /\ ~failed
    <3>1. mem.undelivered = <<>>
      BY <1>2, <1>7, <2>1 DEF MemInv
    <3>2. m.undelivered = <<i>>
      BY <1>6, <2>1, <3>1
    <3>3. ToSet(m.undelivered) = {i}
      BY <3>2 DEF ToSet
    <3>4. Secured(Begun(e), TRUE, i)
      BY <1>4, SecuredBegun
    <3>5. ASSUME Whole
          PROVE ReplayWith(FirstChain(e), TakenRoots(FirstChain(e)) \cup {i}) = Emptied(m)
      <4>1. root = TRUE
        BY <2>1
      <4> QED BY <1>1, <1>2, <3>1, <3>5, <4>1, RootReplays
    <3> QED BY <2>1, <3>2, <3>3, <3>4, <3>5
  <2>2. CASE ~(root /\ ~failed)
    <3>1. caller = "opening" /\ root = FALSE
      BY <1>9, <2>2
    <3>2. PICK r \in Inputs : mem.undelivered = <<r>> /\ Secured(lines, ended, r)
      BY <1>7, <3>1 DEF MemInv
    <3>3. ~failed
      BY <1>7, <3>1 DEF MemInv
    <3>4. m.undelivered = mem.undelivered
      BY <1>6, <3>1
    <3>5. Secured(Begun(e), TRUE, r)
      BY <1>4, <3>2, SecuredGoesOn
    <3>6. Whole => ReplayWith(FirstChain(e), TakenRoots(FirstChain(e)) \cup ToSet(m.undelivered))
                     = Emptied(m)
      BY <1>1, <1>2, <3>1, <3>4, QueuedReplays
    <3> QED BY <3>2, <3>3, <3>4, <3>5, <3>6
  <2> QED BY <2>1, <2>2
<1>10. (next = "idle" /\ ~failed) \/ next \in {"turn", "restoring"} => m.undelivered = <<>>
  <2>1. next = "idle" => failed
    BY <1>7
  <2>2. next \in {"turn", "restoring"} => caller = next /\ ~root
    OBVIOUS
  <2> QED BY <1>6, <1>7, <2>1, <2>2 DEF MemInv
<1>11. /\ Kept(next) = undo /\ Kept(caller) = undo
       /\ Kept(next) # <<>> <=> next = "restoring"
       /\ next \in Callers
  BY <1>7, KeptIs DEF Callers
<1>12. Right(m, FirstChain(e), Begun(e), next)
  BY <1>5, <1>8, <1>9, <1>10, <1>11 DEF Right
<1>13. Leaves(caller, failed)
  BY DEF Leaves
<1>16. {i} \subseteq NewIds(e)
  BY <1>4 DEF NewIds
<1> HIDE DEF e, m, next
<1>14. /\ IInv' /\ Keeps(m, {}, "up") /\ Carries({}, m, {i})
       /\ \/ stage' = "down" /\ undo' = <<>>
          \/ stage' = "up" /\ mem' = m /\ undo' = Kept(next)
          \/ stage' = "up" /\ mem' = mem /\ undo' = Kept(caller)
  BY <1>1, <1>4, <1>12, <1>13, <1>16, RecordOneKeeps
<1>15. SameUndo
  BY <1>11, <1>14 DEF SameUndo
<1> QED BY <1>2, <1>14, <1>15 DEF m

LEMMA TurnStartWritable ==
  ASSUME IInv, NEW t \in 1..MaxLines, NEW root \in Inputs \cup {NoInput},
         root # NoInput => Secured(lines, ended, root)
  PROVE  Writable(TurnStart(leaf, t, root))
<1>1. leaf \in Nat /\ leaf <= Len(lines)
  BY HereIs
<1>2. TurnStart(leaf, t, root) \in Line
  BY <1>1, LinesAre
<1>3. root # NoInput => Torn \in ToSet(lines) \/ WrittenIn(lines, root)
  BY DEF Secured, WrittenIn
<1> QED BY <1>1, <1>2, <1>3 DEF Writable, TurnStart, Torn

LEMMA TurnStartReplays ==
  ASSUME IInv, stage = "up", Whole, NEW t \in 1..MaxLines, t = NextLine,
         NEW root \in Inputs \cup {NoInput}, NEW d \in Seq(Inputs),
         d \in Seq(Int), ToSet(d) \subseteq InState(mem, "queued"),
         \/ root = NoInput /\ mem.undelivered = <<>>
         \/ caller = "opening" /\ mem.undelivered = <<root>>
  PROVE  LET e == TurnStart(leaf, t, root)
             f == Messages(t, t, Carried(root, d), d)
         IN  /\ Replay(FirstChain(e)) = HalfStarted(mem, t, root)
             /\ Replay(SecondChain(e, f)) = Started(mem, t, root, d)
<1> DEFINE e == TurnStart(leaf, t, root)
           f == Messages(t, t, Carried(root, d), d)
           R == TakenRoots(Here) \cup {root}
           y == Emptied(mem)
           mark == [turn |-> t, at |-> Len(mem.msgs), root |-> root]
<1>1. mem \in Sessions /\ leaf \in Nat
  BY HereIs
<1>2. Carried(root, d) \in Seq(Int)
  BY <1>1, CarriedType
<1>3. e \in Line /\ f \in Line
  BY <1>1, <1>2, LinesAre
<1>4. /\ e.type = "turn-start" /\ e.parent = leaf /\ e.turn = t /\ e.root = root
      /\ f.type = "messages" /\ f.msgs = Carried(root, d) /\ f.delivered = d
  BY DEF TurnStart, Messages
<1> HIDE DEF e, f
<1>5. /\ FirstChain(e) \in Seq(Line) /\ TakenRoots(FirstChain(e)) = R
      /\ ReplayWith(FirstChain(e), R) = After(ReplayWith(Here, R), e, R)
  BY <1>3, <1>4, ReplayNext
<1>6. /\ ReplayWith(SecondChain(e, f), R) = After(ReplayWith(FirstChain(e), R), f, R)
      /\ TakenRoots(SecondChain(e, f)) = R
  BY <1>3, <1>4, <1>5, ReplaySecond
<1>7. ReplayWith(Here, R) = y
  <2>1. CASE root = NoInput /\ mem.undelivered = <<>>
    <3>1. TakenRoots(Here) \subseteq R
      OBVIOUS
    <3> HIDE DEF R
    <3>2. ReplayWith(Here, R) = mem
      BY <2>1, <3>1, OtherRoots
    <3> QED BY <1>1, <2>1, <3>2, EmptiedIs
  <2>2. CASE caller = "opening" /\ mem.undelivered = <<root>>
    <3>1. ToSet(mem.undelivered) = {root}
      BY <2>2 DEF ToSet
    <3> QED BY <2>2, <3>1 DEF IInv, TruthInv
  <2> QED BY <2>1, <2>2
<1> HIDE DEF R
<1>8. /\ y = [msgs |-> mem.msgs, pending |-> mem.pending, undelivered |-> <<>>,
              turn |-> mem.turn, starts |-> mem.starts]
      /\ y \in Sessions
  BY <1>1, EmptiedIs
<1> HIDE DEF y
<1>9. Fits(y, e)
  BY <1>4 DEF Fits
<1>10. ReplayWith(FirstChain(e), R) = Replayed(y, e, R)
  BY <1>5, <1>7, <1>8, <1>9, AfterIs
<1>11. Replayed(y, e, R) =
         [msgs |-> y.msgs, pending |-> y.pending, undelivered |-> y.undelivered, turn |-> e.turn,
          starts |-> Append(y.starts, [turn |-> e.turn, at |-> Len(y.msgs), root |-> e.root])]
  BY <1>4, <1>8, ReplayedStart
<1>12. /\ HalfStarted(mem, t, root) =
            [msgs |-> mem.msgs, pending |-> mem.pending, undelivered |-> <<>>, turn |-> t,
             starts |-> Append(mem.starts, mark)]
       /\ Started(mem, t, root, d) =
            [msgs |-> mem.msgs \o Carried(root, d), pending |-> Without(mem.pending, d),
             undelivered |-> <<>>, turn |-> t, starts |-> Append(mem.starts, mark)]
  BY <1>1, StartedIs
<1>13. [turn |-> e.turn, at |-> Len(y.msgs), root |-> e.root] = mark
  BY <1>4, <1>8
<1> HIDE DEF mark
<1> DEFINE half == HalfStarted(mem, t, root)
<1>14. Replayed(y, e, R) = half
  BY <1>4, <1>8, <1>11, <1>12, <1>13
<1>15. half \in Sessions
  BY <1>3, <1>8, <1>14, ReplayedType
<1>16. Replay(FirstChain(e)) = half
  BY <1>5, <1>10, <1>14 DEF Replay
<1>17. half.pending = mem.pending
  BY <1>12
<1> HIDE DEF half
<1>18. Fits(half, f)
  <2>1. InState(half, "queued") = InState(mem, "queued")
    BY <1>17 DEF InState
  <2> QED BY <1>4, <2>1 DEF Fits
<1>19. ReplayWith(SecondChain(e, f), R) = Replayed(half, f, R)
  BY <1>6, <1>10, <1>14, <1>15, <1>18, AfterIs
<1>20. Replayed(half, f, R) =
         [msgs |-> half.msgs \o f.msgs, pending |-> Without(half.pending, f.delivered),
          undelivered |-> half.undelivered, turn |-> half.turn, starts |-> half.starts]
  BY <1>4, <1>15, ReplayedMessages
<1>21. half = [msgs |-> mem.msgs, pending |-> mem.pending, undelivered |-> <<>>, turn |-> t,
               starts |-> Append(mem.starts, mark)]
  BY <1>12 DEF half
<1>22. Replayed(half, f, R) = Started(mem, t, root, d)
  BY <1>4, <1>12, <1>20, <1>21
<1>23. Replay(SecondChain(e, f)) = Started(mem, t, root, d)
  BY <1>6, <1>19, <1>22 DEF Replay
<1> QED BY <1>16, <1>23 DEF e, f, half

LEMMA TurnStartKeeps ==
  ASSUME IInv, NEW root \in Inputs \cup {NoInput}, root \in ToSet(mem.undelivered) \cup {NoInput},
         NEW d \in {<<>>} \cup {<<q>> : q \in Queued}, RecordTurnStart(root, d),
         found' = Loaded(lines')
  PROVE  /\ IInv' /\ SameUndo /\ stage = "up" /\ NextLine \in 1..MaxLines
         /\ Keeps(Started(mem, NextLine, root, d), {HalfStarted(mem, NextLine, root)}, "up")
         /\ Carries({HalfStarted(mem, NextLine, root)}, Started(mem, NextLine, root, d), {})
         /\ \/ root = NoInput /\ mem.undelivered = <<>>
            \/ root # NoInput /\ mem.undelivered = <<root>>
         /\ undo = <<>>
<1> DEFINE t == NextLine
           e == TurnStart(leaf, t, root)
           f == Messages(t, t, Carried(root, d), d)
           m == Started(mem, t, root, d)
<1>1. /\ ~failed /\ Record(<<e, f>>, m, "turn", "idle", TRUE)
      /\ IF root # NoInput THEN caller = "opening" /\ root = Last(mem.undelivered)
                           ELSE caller = "idle"
  BY DEF RecordTurnStart, SessionRecord
<1>2. /\ mem \in Sessions /\ leaf \in Nat /\ FileInv /\ ended \in BOOLEAN /\ Len(lines) \in Nat
      /\ MemInv
  BY HereIs DEF IInv
<1>3. d \in Seq(Inputs) /\ d \in Seq(Int) /\ ToSet(d) \subseteq InState(mem, "queued")
  BY <1>2, InStateIs DEF Queued
<1>4. stage = "up" /\ Len(lines) + Len(<<e, f>>) <= MaxLines
  BY <1>1 DEF Record
<1>5. t \in 1..MaxLines /\ t \in Nat
  <2>1. /\ t \in Nat /\ t > 1 /\ (ended => t = Len(lines) + 1) /\ (~ended => t = Len(lines))
    BY <1>2, BegunIs
  <2>2. Len(<<e, f>>) = 2
    OBVIOUS
  <2> HIDE DEF t, e, f
  <2> QED BY <1>2, <1>4, <2>1, <2>2, MaxLinesAssumption
<1>6. /\ \/ root = NoInput /\ mem.undelivered = <<>>
         \/ root # NoInput /\ caller = "opening" /\ mem.undelivered = <<root>>
      /\ root # NoInput => Secured(lines, ended, root)
      /\ caller # "restoring"
  <2>1. CASE root = NoInput
    BY <1>1, <1>2, <1>4, <2>1 DEF MemInv
  <2>2. CASE root # NoInput
    <3>1. caller = "opening" /\ root = Last(mem.undelivered)
      BY <1>1, <2>2
    <3>2. PICK r \in Inputs : mem.undelivered = <<r>> /\ Secured(lines, ended, r)
      BY <1>2, <3>1 DEF MemInv
    <3>3. root = r
      BY <3>1, <3>2 DEF Last
    <3> QED BY <2>2, <3>1, <3>2, <3>3
  <2> QED BY <2>1, <2>2
<1>7. Writable(e)
  BY <1>5, <1>6, TurnStartWritable
<1>8. f \in Line /\ f # Torn /\ f.parent = NextLine /\ f.type # "turn-start"
  <2>1. Carried(root, d) \in Seq(Int)
    BY <1>3, CarriedType
  <2>2. f \in Line
    BY <1>3, <1>5, <2>1, LinesAre
  <2> QED BY <2>2 DEF Messages, Torn
<1>9. /\ m = [msgs |-> mem.msgs \o Carried(root, d), pending |-> Without(mem.pending, d),
              undelivered |-> <<>>, turn |-> t,
              starts |-> Append(mem.starts, [turn |-> t, at |-> Len(mem.msgs), root |-> root])]
      /\ m \in Sessions
  BY <1>2, <1>3, <1>5, <1>6, StartedIs
<1>10. ASSUME Whole
       PROVE  Replay(FirstChain(e)) = HalfStarted(mem, t, root) /\ Replay(SecondChain(e, f)) = m
  BY <1>3, <1>4, <1>5, <1>6, <1>10, TurnStartReplays
<1> HIDE DEF e, f, m, t
<1>11. m.undelivered = <<>>
  BY <1>9
<1>12. Seen(m) = m
  BY <1>9, <1>11, SeenIs
<1>13. Kept("turn") = <<>> /\ Kept("idle") = <<>> /\ undo = <<>>
  BY <1>6, KeptIs
<1>14. Right(m, SecondChain(e, f), Append(Begun(e), f), "turn")
  BY <1>9, <1>10, <1>11, <1>12, <1>13 DEF Right, Callers
<1>15. Leaves("idle", TRUE)
  BY DEF Leaves
<1>18. {} \subseteq NewIds(f)
  OBVIOUS
<1>16. /\ IInv' /\ Keeps(m, {HalfStarted(mem, t, root)}, "up")
       /\ Carries({HalfStarted(mem, t, root)}, m, {})
       /\ \/ stage' = "down" /\ undo' = <<>>
          \/ stage' = "up" /\ mem' = m /\ undo' = Kept("turn")
          \/ stage' = "up" /\ mem' = mem /\ undo' = Kept("idle")
  BY <1>1, <1>7, <1>8, <1>10, <1>14, <1>15, <1>18, RecordTwoKeeps
<1>17. SameUndo
  BY <1>13, <1>16 DEF SameUndo
<1> QED BY <1>4, <1>5, <1>6, <1>13, <1>16, <1>17 DEF m, t

(* When no root waits: one record after the leaf, or a snapshot.             *)
LEMMA PlainKeeps ==
  ASSUME IInv, mem.undelivered = <<>>, NEW e, Writable(e), e.parent = leaf,
         e.type # "turn-start", Fits(mem, e), NEW m \in Sessions, m.undelivered = <<>>,
         \A R : Replayed(mem, e, R) = m, NEW next \in {"idle", "turn"},
         Record(<<e>>, m, next, "idle", TRUE), found' = Loaded(lines')
  PROVE  /\ IInv' /\ Keeps(m, {}, "up") /\ stage = "up"
         /\ undo' = <<>> /\ Carries({}, m, {})
<1>1. stage = "up" /\ e \in Line
  BY DEF Record, Writable
<1>2. mem \in Sessions /\ TruthInv
  BY HereIs DEF IInv
<1>3. Seen(mem) = mem /\ Seen(m) = m
  BY <1>2, SeenIs
<1>4. ASSUME Whole PROVE Replay(FirstChain(e)) = Seen(m)
  <2>1. /\ ReplayWith(FirstChain(e), TakenRoots(Here))
             = After(ReplayWith(Here, TakenRoots(Here)), e, TakenRoots(Here))
        /\ TakenRoots(FirstChain(e)) = TakenRoots(Here)
    BY <1>1, ReplayNext
  <2>2. ReplayWith(Here, TakenRoots(Here)) = mem
    BY <1>1, <1>2, <1>3, <1>4 DEF TruthInv, Replay
  <2>3. After(mem, e, TakenRoots(Here)) = m
    BY <1>2, AfterIs
  <2> QED BY <1>3, <2>1, <2>2, <2>3 DEF Replay
<1>5. Kept(next) = <<>> /\ Kept("idle") = <<>>
  BY KeptIs
<1>6. Right(m, FirstChain(e), Begun(e), next)
  BY <1>4, <1>5 DEF Right, Callers
<1>7. Leaves("idle", TRUE)
  BY DEF Leaves
<1>9. {} \subseteq NewIds(e)
  OBVIOUS
<1>8. /\ IInv' /\ Keeps(m, {}, "up") /\ Carries({}, m, {})
      /\ \/ stage' = "down" /\ undo' = <<>>
         \/ stage' = "up" /\ mem' = m /\ undo' = Kept(next)
         \/ stage' = "up" /\ mem' = mem /\ undo' = Kept("idle")
  BY <1>6, <1>7, <1>9, RecordOneKeeps
<1> QED BY <1>1, <1>5, <1>8

LEMMA SnapshotKeeps ==
  ASSUME IInv, NEW m \in Sessions, m.undelivered = <<>>,
         NEW next \in {"idle", "turn", "restoring"}, Kept(next) # <<>> <=> next = "restoring",
         NEW other, NEW fl, Leaves(other, fl),
         Record(<<Snapshot(m)>>, m, next, other, fl), found' = Loaded(lines')
  PROVE  /\ IInv' /\ Keeps(m, {}, "up") /\ stage = "up" /\ Carries({}, m, {})
         /\ \/ stage' = "down" /\ undo' = <<>>
            \/ stage' = "up" /\ mem' = m /\ undo' = Kept(next)
            \/ stage' = "up" /\ mem' = mem /\ undo' = Kept(other)
<1>1. stage = "up"
  BY DEF Record
<1>2. Seen(m) = m /\ Emptied(m) = m
  BY SeenIs, EmptiedIs
<1>3. Writable(Snapshot(m)) /\ Replay(FirstChain(Snapshot(m))) = m
  BY <1>2, SnapshotNext DEF Replay
<1>4. Right(m, FirstChain(Snapshot(m)), Begun(Snapshot(m)), next)
  BY <1>2, <1>3 DEF Right, Callers
<1>5. {} \subseteq NewIds(Snapshot(m))
  OBVIOUS
<1> QED BY <1>1, <1>3, <1>4, <1>5, RecordOneKeeps

LEMMA StepKeeps ==
  ASSUME IInv, NEW d \in {<<>>} \cup {<<q>> : q \in Queued}, RecordStep(d),
         found' = Loaded(lines')
  PROVE  /\ IInv' /\ SameUndo /\ stage = "up" /\ Keeps(Stepped(mem, d), {}, "up")
         /\ Carries({}, Stepped(mem, d), {}) /\ mem.undelivered = <<>> /\ undo = <<>>
<1> DEFINE ms == IF d = <<>> THEN <<Reply>> ELSE d
           e == Messages(leaf, mem.turn, ms, d)
           m == Stepped(mem, d)
<1>1. caller = "turn" /\ Record(<<e>>, m, "turn", "idle", TRUE)
  BY DEF RecordStep, SessionRecord
<1>2. mem \in Sessions /\ MemInv /\ leaf \in Nat
  BY HereIs DEF IInv
<1>3. mem.undelivered = <<>> /\ undo = <<>>
  BY <1>1, <1>2 DEF MemInv
<1>4. d \in Seq(Inputs) /\ d \in Seq(Int) /\ ToSet(d) \subseteq InState(mem, "queued")
  BY <1>2, InStateIs DEF Queued
<1>5. /\ ms \in Seq(Int)
      /\ m = [msgs |-> mem.msgs \o ms, pending |-> Without(mem.pending, d),
              undelivered |-> mem.undelivered, turn |-> mem.turn, starts |-> mem.starts]
      /\ m \in Sessions
  BY <1>2, <1>4, SteppedIs
<1> HIDE DEF ms
<1>6. mem.turn \in 0..MaxLines
  BY <1>2, SessionHas
<1>7. Writable(e)
  BY <1>4, <1>5, <1>6, WritableRecords
<1>8. /\ e.type = "messages" /\ e.parent = leaf /\ e.msgs = ms /\ e.delivered = d
  BY DEF Messages
<1> HIDE DEF e, m
<1>9. Fits(mem, e)
  BY <1>4, <1>8 DEF Fits
<1>10. ASSUME NEW R PROVE Replayed(mem, e, R) = m
  <2>1. Replayed(mem, e, R) =
          [msgs |-> mem.msgs \o e.msgs, pending |-> Without(mem.pending, e.delivered),
           undelivered |-> mem.undelivered, turn |-> mem.turn, starts |-> mem.starts]
    BY <1>2, <1>8, ReplayedMessages
  <2> QED BY <1>5, <1>8, <2>1
<1>11. m.undelivered = <<>> /\ e.type # "turn-start"
  BY <1>3, <1>5, <1>8
<1>12. IInv' /\ Keeps(m, {}, "up") /\ stage = "up" /\ undo' = <<>> /\ Carries({}, m, {})
  BY <1>1, <1>3, <1>5, <1>7, <1>8, <1>9, <1>10, <1>11, PlainKeeps
<1> QED BY <1>3, <1>12 DEF SameUndo, m

LEMMA TurnEndKeeps ==
  ASSUME IInv, RecordTurnEnd, found' = Loaded(lines')
  PROVE  /\ IInv' /\ SameUndo /\ stage = "up" /\ Keeps(Ended(mem), {}, "up")
         /\ Carries({}, Ended(mem), {}) /\ mem.undelivered = <<>> /\ undo = <<>>
<1> DEFINE e == TurnEnd(leaf, mem.turn)
           m == Ended(mem)
<1>1. caller = "turn" /\ Record(<<e>>, m, "idle", "idle", TRUE)
  BY DEF RecordTurnEnd, SessionRecord
<1>2. mem \in Sessions /\ MemInv /\ leaf \in Nat
  BY HereIs DEF IInv
<1>3. mem.undelivered = <<>> /\ undo = <<>>
  BY <1>1, <1>2 DEF MemInv
<1>4. /\ m = [msgs |-> mem.msgs, pending |-> mem.pending, undelivered |-> mem.undelivered,
              turn |-> NoTurn, starts |-> mem.starts]
      /\ m \in Sessions
  BY <1>2, EndedIs
<1>5. mem.turn \in 0..MaxLines
  BY <1>2, SessionHas
<1>6. Writable(e)
  BY <1>5, WritableRecords
<1>7. e.type = "turn-end" /\ e.parent = leaf /\ e.turn = mem.turn
  BY DEF TurnEnd
<1> HIDE DEF e, m
<1>8. Fits(mem, e)
  BY <1>7 DEF Fits
<1>9. ASSUME NEW R PROVE Replayed(mem, e, R) = m
  <2>1. Replayed(mem, e, R) =
          [msgs |-> mem.msgs, pending |-> mem.pending, undelivered |-> mem.undelivered,
           turn |-> IF mem.turn = e.turn THEN NoTurn ELSE mem.turn, starts |-> mem.starts]
    BY <1>2, <1>7, ReplayedEnd
  <2> QED BY <1>4, <1>7, <2>1
<1>10. m.undelivered = <<>> /\ e.type # "turn-start"
  BY <1>3, <1>4, <1>7
<1>11. IInv' /\ Keeps(m, {}, "up") /\ stage = "up" /\ undo' = <<>> /\ Carries({}, m, {})
  BY <1>1, <1>3, <1>4, <1>6, <1>7, <1>8, <1>9, <1>10, PlainKeeps
<1> QED BY <1>3, <1>11 DEF SameUndo, m

LEMMA CompactKeeps ==
  ASSUME IInv, Compact, found' = Loaded(lines')
  PROVE  /\ IInv' /\ SameUndo /\ stage = "up" /\ Keeps(Compacted(mem), {}, "up")
         /\ Carries({}, Compacted(mem), {}) /\ mem.undelivered = <<>> /\ undo = <<>>
<1> DEFINE m == Compacted(mem)
<1>1. /\ caller \in {"idle", "turn"} /\ mem.undelivered = <<>>
      /\ Record(<<Snapshot(m)>>, m, caller, "idle", TRUE)
  BY DEF Compact, SessionRecord
<1>2. mem \in Sessions
  BY HereIs
<1>3. /\ m = [msgs |-> <<Summary>>, pending |-> mem.pending, undelivered |-> mem.undelivered,
              turn |-> mem.turn, starts |-> <<>>]
      /\ m \in Sessions
  BY <1>2, CompactedIs
<1> HIDE DEF m
<1>4. m.undelivered = <<>>
  BY <1>1, <1>3
<1>5. Kept(caller) = <<>> /\ Kept("idle") = <<>> /\ undo = <<>>
  BY <1>1, KeptIs
<1>6. Leaves("idle", TRUE)
  BY DEF Leaves
<1>7. /\ IInv' /\ Keeps(m, {}, "up") /\ stage = "up" /\ Carries({}, m, {})
      /\ \/ stage' = "down" /\ undo' = <<>>
         \/ stage' = "up" /\ mem' = m /\ undo' = Kept(caller)
         \/ stage' = "up" /\ mem' = mem /\ undo' = Kept("idle")
  BY <1>1, <1>3, <1>4, <1>5, <1>6, SnapshotKeeps
<1> QED BY <1>1, <1>5, <1>7 DEF SameUndo, m

LEMMA RollbackKeeps ==
  ASSUME IInv, NEW s \in ToSet(mem.starts), Rollback(s), found' = Loaded(lines')
  PROVE  /\ IInv' /\ stage = "up" /\ Keeps(RolledBack(mem, s), {}, "up")
         /\ mem.undelivered = <<>> /\ undo' \in {undo, mem.msgs}
         /\ Carries({}, RolledBack(mem, s), {}) /\ undo = <<>>
         /\ mem' \in {mem, RolledBack(mem, s)} \/ undo' = <<>>
<1> DEFINE m == RolledBack(mem, s)
<1>1. /\ caller = "idle" /\ mem.undelivered = <<>> /\ s.at < Len(mem.msgs)
      /\ Record(<<Snapshot(m)>>, m, "restoring", caller, failed)
  BY DEF Rollback, HostRecord
<1>2. mem \in Sessions
  BY HereIs
<1>3. m \in Sessions /\ m.undelivered = <<>>
  BY <1>1, <1>2, RolledBackIs
<1> HIDE DEF m
<1>4. Kept("restoring") = mem.msgs /\ Kept(caller) = <<>> /\ undo = <<>>
  BY <1>1, KeptIs DEF Kept
<1>5. mem.msgs # <<>>
  <2>1. s \in Mark
    <3>1. mem.starts \in Seq(Mark)
      BY <1>2, SessionHas
    <3> QED BY <3>1 DEF ToSet
  <2>2. s.at \in Nat
    BY <2>1 DEF Mark
  <2> QED BY <1>1, <2>2
<1>6. Leaves(caller, failed)
  BY DEF Leaves
<1>7. /\ IInv' /\ Keeps(m, {}, "up") /\ stage = "up" /\ Carries({}, m, {})
      /\ \/ stage' = "down" /\ undo' = <<>>
         \/ stage' = "up" /\ mem' = m /\ undo' = Kept("restoring")
         \/ stage' = "up" /\ mem' = mem /\ undo' = Kept(caller)
  BY <1>1, <1>3, <1>4, <1>5, <1>6, SnapshotKeeps
<1> QED BY <1>1, <1>4, <1>7 DEF m

LEMMA TakeBackKeeps ==
  ASSUME IInv, TakeBack, found' = Loaded(lines')
  PROVE  /\ IInv' /\ stage = "up" /\ Keeps(Replaced(mem, undo), {}, "up")
         /\ mem.undelivered = <<>> /\ undo # <<>> /\ undo' = <<>>
         /\ Carries({}, Replaced(mem, undo), {})
<1> DEFINE m == Replaced(mem, undo)
<1>1. caller = "restoring" /\ Record(<<Snapshot(m)>>, m, "idle", "idle", failed)
  BY DEF TakeBack
<1>2. mem \in Sessions /\ MemInv /\ undo \in Seq(Int)
  BY HereIs DEF IInv, Types
<1>3. mem.undelivered = <<>> /\ undo # <<>>
  BY <1>1, <1>2 DEF MemInv
<1>4. m \in Sessions /\ m.undelivered = <<>>
  BY <1>2, <1>3, ReplacedIs
<1> HIDE DEF m
<1>5. Kept("idle") = <<>>
  BY KeptIs
<1>6. Leaves("idle", failed)
  BY <1>1 DEF Leaves
<1>7. /\ IInv' /\ Keeps(m, {}, "up") /\ stage = "up" /\ Carries({}, m, {})
      /\ \/ stage' = "down" /\ undo' = <<>>
         \/ stage' = "up" /\ mem' = m /\ undo' = Kept("idle")
         \/ stage' = "up" /\ mem' = mem /\ undo' = Kept("idle")
  BY <1>1, <1>4, <1>5, <1>6, SnapshotKeeps
<1> QED BY <1>3, <1>5, <1>7 DEF m

(* The chain c replays m; with the root that opens a turn counted as taken,  *)
(* m without it.                                                            *)
Tells(c, m) ==
  /\ Replay(c) = Seen(m)
  /\ caller = "opening" =>
       ReplayWith(c, TakenRoots(c) \cup ToSet(m.undelivered)) = Emptied(m)

(* The record e, after a chain that replays m, makes p of what waits.         *)
Waits(m, p, e) ==
  \A y \in Sessions : y.pending = m.pending =>
    /\ Fits(y, e)
    /\ \A R : Replayed(y, e, R) = [msgs |-> y.msgs, pending |-> p,
                                  undelivered |-> y.undelivered, turn |-> y.turn,
                                  starts |-> y.starts]
(* The chain c2 is c and e.                                                 *)
GoesOn(c, c2, e) ==
  /\ TakenRoots(c2) = TakenRoots(c)
  /\ \A R : ReplayWith(c2, R) = After(ReplayWith(c, R), e, R)

(* A record that changes only what waits.                                    *)
LEMMA WaitingReplays ==
  ASSUME NEW m0 \in Sessions, NEW p \in Seq(Waiting), NEW m,
         m = [msgs |-> m0.msgs, pending |-> p, undelivered |-> m0.undelivered,
              turn |-> m0.turn, starts |-> m0.starts],
         NEW c, NEW c2, NEW e, Tells(c, m0), Waits(m0, p, e), GoesOn(c, c2, e)
  PROVE  m \in Sessions /\ Tells(c2, m)
<1>1. m \in Sessions
  BY SessionHas, SessionIs
<1>2. ASSUME NEW y \in Sessions, y.pending = m0.pending, NEW R
      PROVE  After(y, e, R) = [msgs |-> y.msgs, pending |-> p, undelivered |-> y.undelivered,
                               turn |-> y.turn, starts |-> y.starts]
  BY <1>2, AfterIs DEF Waits
<1>3. Replay(c2) = Seen(m)
  <2> DEFINE x == Seen(m0)
  <2>1. /\ x = [msgs |-> m0.msgs \o m0.undelivered, pending |-> m0.pending,
                undelivered |-> m0.undelivered, turn |-> m0.turn, starts |-> m0.starts]
        /\ x \in Sessions
    BY SeenIs
  <2>2. Replay(c2) = After(x, e, TakenRoots(c))
    BY DEF Tells, Replay, GoesOn
  <2> HIDE DEF x
  <2>3. Seen(m) = [msgs |-> m.msgs \o m.undelivered, pending |-> m.pending,
                   undelivered |-> m.undelivered, turn |-> m.turn, starts |-> m.starts]
    BY <1>1, SeenIs
  <2>4. x.pending = m0.pending
    BY <2>1
  <2>5. After(x, e, TakenRoots(c)) =
          [msgs |-> x.msgs, pending |-> p, undelivered |-> x.undelivered,
           turn |-> x.turn, starts |-> x.starts]
    BY <1>2, <2>1, <2>4
  <2> QED BY <2>1, <2>2, <2>3, <2>5
<1>4. ASSUME caller = "opening"
      PROVE  ReplayWith(c2, TakenRoots(c2) \cup ToSet(m.undelivered)) = Emptied(m)
  <2> DEFINE x == Emptied(m0)
             R == TakenRoots(c) \cup ToSet(m0.undelivered)
  <2>1. /\ x = [msgs |-> m0.msgs, pending |-> m0.pending, undelivered |-> <<>>,
                turn |-> m0.turn, starts |-> m0.starts]
        /\ x \in Sessions
    BY EmptiedIs
  <2>2. ReplayWith(c2, R) = After(x, e, R)
    BY <1>4 DEF Tells, GoesOn
  <2>3. TakenRoots(c2) \cup ToSet(m.undelivered) = R
    <3>1. m.undelivered = m0.undelivered
      OBVIOUS
    <3> QED BY <3>1 DEF GoesOn
  <2> HIDE DEF x, R
  <2>4. Emptied(m) = [msgs |-> m.msgs, pending |-> m.pending, undelivered |-> <<>>,
                      turn |-> m.turn, starts |-> m.starts]
    BY <1>1, EmptiedIs
  <2>5. x.pending = m0.pending
    BY <2>1
  <2>6. After(x, e, R) =
          [msgs |-> x.msgs, pending |-> p, undelivered |-> x.undelivered,
           turn |-> x.turn, starts |-> x.starts]
    BY <1>2, <2>1, <2>5
  <2>7. After(x, e, R) = Emptied(m)
    BY <2>1, <2>4, <2>6
  <2> QED BY <2>2, <2>3, <2>7
<1> QED BY <1>1, <1>3, <1>4 DEF Tells

(* The session stays where it is.                                           *)
LEMMA CallerRight ==
  ASSUME IInv, stage = "up", NEW m \in Sessions, m.undelivered = mem.undelivered,
         NEW e, Writable(e), NEW f \in Line, f.parent <= NextLine, f.type # "turn-start",
         NEW last, last = Begun(e) \/ last = Append(Begun(e), f), NEW chain,
         Whole => Tells(chain, m)
  PROVE  Right(m, chain, last, caller) /\ Leaves(caller, failed) /\ Kept(caller) = undo
<1>1. MemInv /\ caller \in Callers /\ FileInv /\ ended \in BOOLEAN
  BY HereIs, KeptIs DEF IInv
<1>2. \A r : Secured(lines, ended, r) => Secured(last, TRUE, r)
  <2>1. Wrote(last, TRUE, e, f)
    BY DEF Wrote
  <2> QED BY <1>1, <2>1, SecuredStays
<1>3. caller = "opening" =>
        /\ ~failed
        /\ \E r \in Inputs : m.undelivered = <<r>> /\ Secured(last, TRUE, r)
  BY <1>1, <1>2 DEF MemInv
<1>4. (caller = "idle" /\ ~failed) \/ caller \in {"turn", "restoring"} => m.undelivered = <<>>
  BY <1>1 DEF MemInv
<1>5. Kept(caller) = undo /\ (Kept(caller) # <<>> <=> caller = "restoring")
  BY KeptIs
<1>6. Leaves(caller, failed)
  BY DEF Leaves
<1>7. /\ Whole => Replay(chain) = Seen(m)
      /\ caller = "opening" /\ Whole =>
           ReplayWith(chain, TakenRoots(chain) \cup ToSet(m.undelivered)) = Emptied(m)
  BY DEF Tells
<1> QED BY <1>1, <1>3, <1>4, <1>5, <1>6, <1>7 DEF Right

LEMMA HereTells ==
  ASSUME IInv, stage = "up", Whole
  PROVE  Tells(Here, mem)
BY DEF IInv, TruthInv, Tells

(* Inputs of the queue are withdrawn: to the draft, or for good.             *)
LEMMA RestoredFits ==
  ASSUME NEW m \in Sessions, NEW i \in InState(m, "queued"), NEW e,
         e.type = "user-input-restored", e.ids = <<i>>
  PROVE  Waits(m, Restored(m, i).pending, e)
<1>1. ToSet(<<i>>) = {i}
  BY DEF ToSet
<1>2. ASSUME NEW y \in Sessions, y.pending = m.pending PROVE Fits(y, e)
  <2>1. InState(y, "queued") = InState(m, "queued")
    BY <1>2 DEF InState
  <2> QED BY <1>1, <2>1 DEF Fits
<1>3. ASSUME NEW y \in Sessions, NEW R, y.pending = m.pending
      PROVE  Replayed(y, e, R) =
               [msgs |-> y.msgs, pending |-> Restored(m, i).pending,
                undelivered |-> y.undelivered, turn |-> y.turn, starts |-> y.starts]
  <2> DEFINE p == [n \in DOMAIN m.pending |->
                     IF m.pending[n].id = i
                     THEN [m.pending[n] EXCEPT !.state = "restored"] ELSE m.pending[n]]
             q == [n \in DOMAIN y.pending |->
                     IF y.pending[n].id \in ToSet(e.ids)
                     THEN [y.pending[n] EXCEPT !.state = "restored"] ELSE y.pending[n]]
  <2>1. q = p
    BY <1>1, <1>3
  <2>2. Replayed(y, e, R) = [msgs |-> y.msgs, pending |-> q, undelivered |-> y.undelivered,
                             turn |-> y.turn, starts |-> y.starts]
    BY ReplayedRestored
  <2>3. Restored(m, i) = [msgs |-> m.msgs, pending |-> p, undelivered |-> m.undelivered,
                          turn |-> m.turn, starts |-> m.starts]
    BY RestoredIs
  <2> HIDE DEF p, q
  <2>4. Restored(m, i).pending = p
    BY <2>3
  <2> QED BY <2>1, <2>2, <2>4
<1> QED BY <1>2, <1>3 DEF Waits

LEMMA DiscardedFits ==
  ASSUME NEW m \in Sessions, NEW ids, NEW e, e.type = "user-input-discarded", e.ids = ids,
         ToSet(ids) \subseteq {p.id : p \in ToSet(m.pending)}
  PROVE  Waits(m, Without(m.pending, ids), e)
<1>1. ASSUME NEW y \in Sessions, y.pending = m.pending PROVE Fits(y, e)
  BY <1>1 DEF Fits
<1>2. ASSUME NEW y \in Sessions, NEW R, y.pending = m.pending
      PROVE  Replayed(y, e, R) =
               [msgs |-> y.msgs, pending |-> Without(m.pending, ids),
                undelivered |-> y.undelivered, turn |-> y.turn, starts |-> y.starts]
  <2>1. Replayed(y, e, R) =
          [msgs |-> y.msgs, pending |-> Without(y.pending, e.ids),
           undelivered |-> y.undelivered, turn |-> y.turn, starts |-> y.starts]
    BY ReplayedDiscarded
  <2> QED BY <1>2, <2>1
<1> QED BY <1>1, <1>2 DEF Waits

LEMMA StateIds ==
  ASSUME NEW m, NEW s
  PROVE  InState(m, s) \subseteq {p.id : p \in ToSet(m.pending)}
BY DEF InState

LEMMA TwoTogether ==
  ASSUME NEW e \in Line, NEW f \in Line
  PROVE  <<e>> \o <<>> = <<e>> /\ <<e>> \o <<f>> = <<e, f>>
<1> DEFINE p == <<e>> \o <<f>>
           q == <<e, f>>
<1>1. p \in Seq(Line) /\ Len(p) = 2 /\ p[1] = e /\ p[2] = f
  OBVIOUS
<1>2. q \in Seq(Line) /\ Len(q) = 2 /\ q[1] = e /\ q[2] = f
  OBVIOUS
<1> HIDE DEF p, q
<1>3. \A k \in 1..2 : k = 1 \/ k = 2
  OBVIOUS
<1>4. p = q
  BY <1>1, <1>2, <1>3, SeqEq
<1>5. <<e>> \o <<>> = <<e>>
  BY Pieces
<1> QED BY <1>4, <1>5 DEF p, q

LEMMA MarkDiscardedKeeps ==
  ASSUME IInv, NEW i \in Queued, MarkDiscarded(i), found' = Loaded(lines')
  PROVE  /\ IInv' /\ SameUndo /\ stage = "up" /\ Keeps(Discarded(mem, <<i>>), {}, "up")
         /\ Carries({}, Discarded(mem, <<i>>), {})
<1> DEFINE e == Withdrawn("user-input-discarded", leaf, <<i>>)
           m == Discarded(mem, <<i>>)
<1>1. Record(<<e>>, m, caller, caller, failed)
  BY DEF MarkDiscarded, HostRecord
<1>2. stage = "up"
  BY <1>1 DEF Record
<1>3. /\ mem \in Sessions /\ leaf \in Nat /\ FileInv /\ ended \in BOOLEAN
  BY HereIs
<1>4. <<i>> \in Seq(Inputs) /\ ToSet(<<i>>) \subseteq {p.id : p \in ToSet(mem.pending)}
  <2>1. i \in Inputs /\ i \in {p.id : p \in ToSet(mem.pending)}
    BY <1>3, InStateIs, StateIds DEF Queued
  <2>2. ToSet(<<i>>) = {i}
    BY DEF ToSet
  <2> QED BY <2>1, <2>2
<1>5. Writable(e)
  BY <1>4, WritableRecords
<1>6. /\ e \in Line /\ e.type = "user-input-discarded" /\ e.parent = leaf /\ e.ids = <<i>>
  BY <1>5 DEF Writable, Withdrawn
<1>7. /\ m = [msgs |-> mem.msgs, pending |-> Without(mem.pending, <<i>>),
              undelivered |-> mem.undelivered, turn |-> mem.turn, starts |-> mem.starts]
      /\ m \in Sessions
  BY <1>3, DiscardedIs
<1> HIDE DEF e, m
<1>8. m.undelivered = mem.undelivered
  BY <1>7
<1>9. ASSUME Whole PROVE Tells(FirstChain(e), m)
  <2>1. GoesOn(Here, FirstChain(e), e)
    BY <1>6, ReplayNext DEF GoesOn
  <2>2. Tells(Here, mem)
    BY <1>2, <1>9, HereTells
  <2>3. Waits(mem, Without(mem.pending, <<i>>), e)
    BY <1>3, <1>4, <1>6, DiscardedFits
  <2>4. Without(mem.pending, <<i>>) \in Seq(Waiting)
    BY <1>3, SessionHas, WithoutIs
  <2> QED BY <1>3, <1>7, <2>1, <2>2, <2>3, <2>4, WaitingReplays
<1>10. Other \in Line /\ Other.parent <= NextLine /\ Other.type # "turn-start"
  <2>1. NextLine \in Nat
    BY <1>3, BegunIs, <1>5
  <2> QED BY <1>3, <2>1, OtherIs
<1> HIDE DEF Other
<1>11. Right(m, FirstChain(e), Begun(e), caller) /\ Leaves(caller, failed) /\ Kept(caller) = undo
  BY <1>2, <1>5, <1>7, <1>8, <1>9, <1>10, CallerRight
<1>13. {} \subseteq NewIds(e)
  OBVIOUS
<1>12. /\ IInv' /\ Keeps(m, {}, "up") /\ Carries({}, m, {})
       /\ \/ stage' = "down" /\ undo' = <<>>
          \/ stage' = "up" /\ mem' = m /\ undo' = Kept(caller)
          \/ stage' = "up" /\ mem' = mem /\ undo' = Kept(caller)
  BY <1>1, <1>5, <1>11, <1>13, RecordOneKeeps
<1> QED BY <1>2, <1>11, <1>12 DEF SameUndo, m

LEMMA MarkRestoredKeeps ==
  ASSUME IInv, NEW i \in Queued, NEW c \in Drafts, MarkRestored(i, c), found' = Loaded(lines')
  PROVE  /\ IInv' /\ SameUndo /\ stage = "up"
         /\ Keeps(Discarded(Restored(mem, i), c), {Seen(Restored(mem, i))}, "up")
         /\ Carries({Seen(Restored(mem, i))}, Discarded(Restored(mem, i), c), {})
<1> DEFINE e == Withdrawn("user-input-restored", leaf, <<i>>)
           f == Withdrawn("user-input-discarded", NextLine, c)
           half == Restored(mem, i)
           m == Discarded(half, c)
           es == <<e>> \o (IF c = <<>> THEN <<>> ELSE <<f>>)
<1>1. Record(es, m, caller, caller, failed)
  BY DEF MarkRestored, HostRecord
<1>2. stage = "up"
  BY <1>1 DEF Record
<1>3. /\ mem \in Sessions /\ leaf \in Nat /\ FileInv /\ ended \in BOOLEAN
  BY HereIs
<1>4. <<i>> \in Seq(Inputs) /\ i \in InState(mem, "queued")
  BY <1>3, InStateIs DEF Queued
<1>5. c \in Seq(Inputs) /\ ToSet(c) \subseteq {p.id : p \in ToSet(mem.pending)}
  <2>1. c \in Seq(Inputs) /\ ToSet(c) \subseteq InState(mem, "restored")
    BY <1>3, InStateIs DEF Drafts
  <2> QED BY <2>1, StateIds
<1>6. Writable(e)
  BY <1>4, WritableRecords
<1>7. e \in Line /\ e.type = "user-input-restored" /\ e.parent = leaf /\ e.ids = <<i>>
  BY <1>6 DEF Writable, Withdrawn
<1>8. NextLine \in Nat
  BY <1>3, <1>6, BegunIs
<1>9. /\ f \in Line /\ f # Torn /\ f.parent = NextLine /\ f.type # "turn-start"
      /\ f.type = "user-input-discarded" /\ f.ids = c
  <2>1. f \in Line
    BY <1>5, <1>8, LinesAre
  <2> QED BY <2>1 DEF Withdrawn, Torn
<1>10. /\ half \in Sessions
       /\ {p.id : p \in ToSet(half.pending)} = {p.id : p \in ToSet(mem.pending)}
  BY <1>3, RestoredIs
<1>11. half = [msgs |-> mem.msgs, pending |-> half.pending, undelivered |-> mem.undelivered,
               turn |-> mem.turn, starts |-> mem.starts]
  <2> DEFINE p == [n \in DOMAIN mem.pending |->
                     IF mem.pending[n].id = i
                     THEN [mem.pending[n] EXCEPT !.state = "restored"] ELSE mem.pending[n]]
  <2>1. half = [msgs |-> mem.msgs, pending |-> p, undelivered |-> mem.undelivered,
                turn |-> mem.turn, starts |-> mem.starts]
    BY <1>3, RestoredIs
  <2> HIDE DEF p, half
  <2> QED BY <2>1
<1>12. /\ m = [msgs |-> half.msgs, pending |-> Without(half.pending, c),
               undelivered |-> half.undelivered, turn |-> half.turn, starts |-> half.starts]
       /\ m \in Sessions
  BY <1>10, DiscardedIs
<1>13. c = <<>> => m = half
  BY <1>10, DiscardedIs
<1>14. Waits(mem, half.pending, e)
  BY <1>3, <1>4, <1>7, RestoredFits
<1>15. half.pending \in Seq(Waiting) /\ Without(half.pending, c) \in Seq(Waiting)
  BY <1>10, SessionHas, WithoutIs
<1> HIDE DEF f, half
<1>16. Waits(half, Without(half.pending, c), f)
  BY <1>5, <1>9, <1>10, DiscardedFits
<1> HIDE DEF e, m
<1>17. es = IF c = <<>> THEN <<e>> ELSE <<e, f>>
  <2>1. <<e>> \o <<>> = <<e>> /\ <<e>> \o <<f>> = <<e, f>>
    BY <1>7, <1>9, TwoTogether
  <2> QED BY <2>1
<1> HIDE DEF es
<1>18. half.undelivered = mem.undelivered /\ m.undelivered = mem.undelivered
  BY <1>11, <1>12
<1>19. ASSUME Whole
       PROVE  Tells(FirstChain(e), half) /\ Tells(SecondChain(e, f), m)
  <2>1. GoesOn(Here, FirstChain(e), e) /\ FirstChain(e) \in Seq(Line)
    BY <1>7, ReplayNext DEF GoesOn
  <2>2. Tells(Here, mem)
    BY <1>2, <1>19, HereTells
  <2>3. Tells(FirstChain(e), half)
    BY <1>3, <1>11, <1>14, <1>15, <2>1, <2>2, WaitingReplays
  <2>4. GoesOn(FirstChain(e), SecondChain(e, f), f)
    BY <1>9, <2>1, ReplaySecond DEF GoesOn
  <2>5. Tells(SecondChain(e, f), m)
    BY <1>10, <1>12, <1>15, <1>16, <2>3, <2>4, WaitingReplays
  <2> QED BY <2>3, <2>5
<1>20. f.parent <= NextLine
  BY <1>8, <1>9
<1>21. Leaves(caller, failed) /\ Kept(caller) = undo
  BY KeptIs DEF Leaves
<1>23. {} \subseteq NewIds(e) /\ {} \subseteq NewIds(f)
  OBVIOUS
<1>22. /\ IInv' /\ Keeps(m, {Seen(half)}, "up") /\ Carries({Seen(half)}, m, {})
       /\ \/ stage' = "down" /\ undo' = <<>>
          \/ stage' = "up" /\ mem' = m /\ undo' = Kept(caller)
          \/ stage' = "up" /\ mem' = mem /\ undo' = Kept(caller)
  <2>1. CASE c = <<>>
    <3>1. Right(half, FirstChain(e), Begun(e), caller)
      BY <1>2, <1>6, <1>9, <1>10, <1>18, <1>19, <1>20, CallerRight
    <3>2. Record(<<e>>, half, caller, caller, failed)
      BY <1>1, <1>13, <1>17, <2>1
    <3>3. /\ IInv' /\ Keeps(half, {}, "up") /\ Carries({}, half, {})
          /\ \/ stage' = "down" /\ undo' = <<>>
             \/ stage' = "up" /\ mem' = half /\ undo' = Kept(caller)
             \/ stage' = "up" /\ mem' = mem /\ undo' = Kept(caller)
      BY <1>6, <1>21, <1>23, <3>1, <3>2, RecordOneKeeps
    <3>4. Keeps(half, {Seen(half)}, "up")
      BY <3>3 DEF Keeps
    <3>5. Carries({Seen(half)}, half, {})
      BY <3>3 DEF Carries
    <3> QED BY <1>13, <2>1, <3>3, <3>4, <3>5
  <2>2. CASE c # <<>>
    <3>1. Right(m, SecondChain(e, f), Append(Begun(e), f), caller)
      BY <1>2, <1>6, <1>9, <1>12, <1>18, <1>19, <1>20, CallerRight
    <3>2. Record(<<e, f>>, m, caller, caller, failed)
      BY <1>1, <1>17, <2>2
    <3>3. Whole => Replay(FirstChain(e)) = Seen(half)
      BY <1>19 DEF Tells
    <3> QED BY <1>6, <1>9, <1>21, <1>23, <3>1, <3>2, <3>3, RecordTwoKeeps
  <2> QED BY <2>1, <2>2
<1> QED BY <1>2, <1>21, <1>22 DEF SameUndo, m, half

LEMMA EditTurnKeeps ==
  ASSUME IInv, NEW s \in ToSet(mem.starts), NEW i \in Inputs, EditTurn(s, i),
         found' = Loaded(lines')
  PROVE  /\ IInv' /\ SameUndo /\ stage = "up"
         /\ mem.undelivered = <<>> /\ mem.pending = <<>> /\ mem.turn = NoTurn
         /\ Keeps(Edited(mem, s, i), {RolledBack(mem, s)}, "up")
         /\ Carries({RolledBack(mem, s)}, Edited(mem, s, i), {i})
         /\ undo = <<>> /\ s.at < Len(mem.msgs) /\ Fresh(i)
<1> DEFINE b == RolledBack(mem, s)
           e == Snapshot(b)
           f == UserInput(NextLine, i, TRUE, <<>>)
           m == Edited(mem, s, i)
<1>1. /\ caller = "idle" /\ ~failed /\ mem.undelivered = <<>> /\ mem.pending = <<>>
      /\ mem.turn = NoTurn /\ s.at < Len(mem.msgs) /\ Fresh(i)
      /\ Record(<<Snapshot([b EXCEPT !.pending = <<>>]), f>>, m, "opening", caller, failed)
  BY DEF EditTurn, HostRecord, IsNext
<1>2. stage = "up"
  BY <1>1 DEF Record
<1>3. mem \in Sessions /\ FileInv /\ ended \in BOOLEAN
  BY HereIs
<1>4. b \in Sessions /\ b.undelivered = <<>> /\ b.pending = <<>>
  BY <1>1, <1>3, RolledBackIs
<1>5. /\ m = [msgs |-> b.msgs, pending |-> <<>>, undelivered |-> <<i>>, turn |-> b.turn,
              starts |-> b.starts]
      /\ m \in Sessions /\ [b EXCEPT !.pending = <<>>] = b
  BY <1>1, <1>3, EditedIs
<1>6. Record(<<e, f>>, m, "opening", caller, failed)
  BY <1>1, <1>5
<1> HIDE DEF b, m
<1>7. /\ Writable(e) /\ FirstChain(e) \in Seq(Line) /\ TakenRoots(FirstChain(e)) = {}
      /\ \A R : ReplayWith(FirstChain(e), R) = Emptied(b)
  BY <1>4, SnapshotNext
<1>8. Emptied(b) = b
  BY <1>4, EmptiedIs
<1>9. NextLine \in Nat /\ Len(Begun(e)) = NextLine
  BY <1>3, <1>7, BegunIs
<1>10. <<>> \in Seq(Inputs)
  OBVIOUS
<1>11. /\ f \in Line /\ f # Torn /\ f.parent = NextLine /\ f.type # "turn-start"
       /\ f.type = "user-input" /\ f.id = i /\ f.startsTurn = TRUE /\ f.consumed = <<>>
  <2>1. f \in Line
    BY <1>9, <1>10, LinesAre
  <2> QED BY <2>1 DEF UserInput, Torn
<1> HIDE DEF e, f
<1>12. /\ \A R : ReplayWith(SecondChain(e, f), R) = After(b, f, R)
       /\ TakenRoots(SecondChain(e, f)) = {}
  BY <1>7, <1>8, <1>11, ReplaySecond
<1>13. Fits(b, f)
  BY <1>11 DEF Fits, ToSet
<1>14. Without(b.pending, f.consumed) \o <<>> = <<>>
  <2>1. <<>> \in Seq(Waiting)
    OBVIOUS
  <2>2. Without(b.pending, f.consumed) = <<>>
    BY <1>4, <1>11, <2>1, WithoutNone
  <2> QED BY <2>1, <2>2, ConcatNone
<1>15. ToSet(m.undelivered) = {i} /\ m.undelivered = <<i>>
  <2>1. m.undelivered = <<i>>
    BY <1>5
  <2> QED BY <2>1 DEF ToSet
<1>16. Replay(SecondChain(e, f)) = Seen(m)
  <2>1. Replayed(b, f, {}) =
          [msgs |-> Append(b.msgs, f.id), pending |-> Without(b.pending, f.consumed) \o <<>>,
           undelivered |-> Append(b.undelivered, f.id), turn |-> b.turn, starts |-> b.starts]
    BY <1>4, <1>11, ReplayedOpening
  <2>2. Seen(m) = [msgs |-> m.msgs \o m.undelivered, pending |-> m.pending,
                   undelivered |-> m.undelivered, turn |-> m.turn, starts |-> m.starts]
    BY <1>5, SeenIs
  <2>3. Append(b.msgs, i) = b.msgs \o <<i>> /\ Append(b.undelivered, i) = <<i>>
    <3>1. b.msgs \in Seq(Int) /\ i \in Int /\ <<>> \in Seq(Int)
      BY <1>4, SessionHas, InputsAssumption
    <3>2. Append(b.msgs \o <<>>, i) = b.msgs \o Append(<<>>, i)
      BY <3>1, ConcatAppend
    <3>3. b.msgs \o <<>> = b.msgs
      BY <3>1, ConcatNone
    <3>4. Append(<<>>, i) = <<i>>
      OBVIOUS
    <3> QED BY <1>4, <3>2, <3>3, <3>4
  <2>4. Replay(SecondChain(e, f)) = Replayed(b, f, {})
    BY <1>4, <1>12, <1>13, AfterIs DEF Replay
  <2>5. Replayed(b, f, {}) =
          [msgs |-> b.msgs \o <<i>>, pending |-> <<>>, undelivered |-> <<i>>, turn |-> b.turn,
           starts |-> b.starts]
    BY <1>11, <1>14, <2>1, <2>3
  <2> QED BY <1>5, <2>2, <2>4, <2>5
<1>17. ReplayWith(SecondChain(e, f), {i}) = Emptied(m)
  <2>1. Replayed(b, f, {i}) =
          [msgs |-> b.msgs, pending |-> Without(b.pending, f.consumed) \o <<>>,
           undelivered |-> b.undelivered, turn |-> b.turn, starts |-> b.starts]
    BY <1>4, <1>11, ReplayedTaken
  <2>2. Emptied(m) = [msgs |-> m.msgs, pending |-> m.pending, undelivered |-> <<>>,
                      turn |-> m.turn, starts |-> m.starts]
    BY <1>5, EmptiedIs
  <2>3. ReplayWith(SecondChain(e, f), {i}) = Replayed(b, f, {i})
    BY <1>4, <1>12, <1>13, AfterIs
  <2> QED BY <1>4, <1>5, <1>14, <2>1, <2>2, <2>3
<1>18. Secured(Append(Begun(e), f), TRUE, i)
  <2>1. f.parent <= NextLine
    BY <1>9, <1>11
  <2>2. /\ Good(Append(Begun(e), f)) /\ Len(Append(Begun(e), f)) = NextLine + 1
        /\ Good(Begun(e))
    BY <1>3, <1>7, <1>11, <2>1, BegunGoesOn, BegunIs
  <2>3. NextLine + 1 \in DOMAIN Append(Begun(e), f)
    BY <1>9, <2>2, GoodIs
  <2>4. Append(Begun(e), f)[NextLine + 1] = f
    BY <1>9, <2>2, GoodIs
  <2> QED BY <1>11, <2>3, <2>4 DEF Secured
<1>19. TakenRoots(SecondChain(e, f)) \cup ToSet(m.undelivered) = {i}
  BY <1>12, <1>15
<1>20. Kept("opening") = <<>> /\ Kept(caller) = undo /\ undo = <<>>
  BY <1>1, KeptIs
<1>21. Right(m, SecondChain(e, f), Append(Begun(e), f), "opening")
  BY <1>1, <1>5, <1>15, <1>16, <1>17, <1>18, <1>19, <1>20 DEF Right, Callers
<1>22. Leaves(caller, failed)
  BY DEF Leaves
<1>23. Whole => Replay(FirstChain(e)) = b
  BY <1>7, <1>8 DEF Replay
<1>25. {i} \subseteq NewIds(f)
  BY <1>11 DEF NewIds
<1>24. /\ IInv' /\ Keeps(m, {b}, "up") /\ Carries({b}, m, {i})
       /\ \/ stage' = "down" /\ undo' = <<>>
          \/ stage' = "up" /\ mem' = m /\ undo' = Kept("opening")
          \/ stage' = "up" /\ mem' = mem /\ undo' = Kept(caller)
  BY <1>6, <1>7, <1>11, <1>21, <1>22, <1>23, <1>25, RecordTwoKeeps
<1> QED BY <1>1, <1>2, <1>20, <1>24 DEF SameUndo, m, b

(* Steps that append nothing.                                               *)
LEMMA RollbackEndsKeeps ==
  ASSUME IInv, RollbackEnds, found' = Loaded(lines')
  PROVE  IInv' /\ undo # <<>> /\ undo' = <<>> /\ UNCHANGED <<mem, found, Damaged, stage>>
<1>1. /\ caller = "restoring" /\ caller' = "idle" /\ undo' = <<>>
      /\ lines' = lines /\ ended' = ended /\ mem' = mem /\ leaf' = leaf /\ stage' = stage
      /\ failed' = failed
  BY DEF RollbackEnds
<1>2. Types /\ FileInv /\ MemInv /\ TruthInv
  BY DEF IInv
<1>3. found' = found
  BY <1>1, <1>2 DEF FileInv
<1>4. stage = "up" /\ mem.undelivered = <<>> /\ undo # <<>>
  BY <1>1, <1>2 DEF MemInv, Types
<1>5. <<>> \in Seq(Int)
  OBVIOUS
<1>6. Types' /\ FileInv'
  BY <1>1, <1>2, <1>3, <1>5 DEF Types, FileInv
<1>7. MemInv'
  BY <1>1, <1>4 DEF MemInv
<1>8. Here' = Here /\ (Whole' <=> Whole)
  BY <1>1 DEF Here, Whole
<1>9. TruthInv'
  BY <1>1, <1>2, <1>3, <1>4, <1>8 DEF TruthInv
<1>10. Damaged' = Damaged
  BY <1>1 DEF Damaged
<1> QED BY <1>1, <1>3, <1>4, <1>6, <1>7, <1>9, <1>10 DEF IInv

LEMMA CrashKeeps ==
  ASSUME IInv, Crash, found' = Loaded(lines')
  PROVE  IInv' /\ stage' = "down" /\ Damaged' = FALSE /\ undo' = <<>> /\ UNCHANGED <<mem, found>>
<1>1. /\ caller' = "idle" /\ failed' = FALSE /\ undo' = <<>> /\ stage' = "down"
      /\ lines' = lines /\ ended' = ended /\ mem' = mem /\ leaf' = leaf
  BY DEF Crash, Dies
<1>2. Types /\ FileInv
  BY DEF IInv
<1>3. found' = found
  BY <1>1, <1>2 DEF FileInv
<1>4. <<>> \in Seq(Int)
  OBVIOUS
<1>5. Types' /\ FileInv'
  BY <1>1, <1>2, <1>3, <1>4 DEF Types, FileInv
<1>6. MemInv' /\ TruthInv'
  BY <1>1 DEF MemInv, TruthInv
<1>7. Damaged' = FALSE
  BY <1>1 DEF Damaged
<1> QED BY <1>1, <1>3, <1>5, <1>6, <1>7 DEF IInv

(* The tail is cut, and what was found is loaded.                            *)
LEMMA RepairedIs ==
  ASSUME NEW ls, Good(ls), Loaded(ls) # Nothing
  PROVE  /\ Good(Repaired(ls)) /\ Torn \notin ToSet(Repaired(ls)) /\ Len(Repaired(ls)) <= Len(ls)
         /\ Loaded(Repaired(ls)) = Loaded(ls)
<1> DEFINE w == Repaired(ls)
<1>1. Loaded(ls) = IF Torn \in ToSet(w) THEN Nothing ELSE Replay(ActiveChain(w))
  BY DEF Loaded, Repaired
<1>2. Torn \notin ToSet(w)
  BY <1>1
<1>3. Good(w) /\ Len(w) <= Len(ls)
  <2>1. /\ Len(ls) \in Nat /\ Len(ls) >= 1 /\ ls[1] # Torn
    BY GoodIs
  <2>2. CASE Last(ls) = Torn
    <3>1. Len(ls) > 1
      <4>1. Last(ls) = ls[Len(ls)]
        BY DEF Last
      <4>2. Len(ls) # 1
        BY <2>1, <2>2, <4>1
      <4> QED BY <2>1, <4>2
    <3>2. Good(Front(ls)) /\ Len(Front(ls)) = Len(ls) - 1
      BY <3>1, GoodFront
    <3>3. w = Front(ls)
      BY <2>2 DEF Repaired
    <3> QED BY <2>1, <3>2, <3>3
  <2>3. CASE Last(ls) # Torn
    <3>1. w = ls
      BY <2>3 DEF Repaired
    <3> QED BY <2>1, <3>1
  <2> QED BY <2>2, <2>3
<1>4. Loaded(w) = Replay(Chains(w)[Len(w)])
  BY <1>2, <1>3, LoadedIs
<1> QED BY <1>1, <1>2, <1>3, <1>4 DEF ActiveChain

LEMMA OpenKeeps ==
  ASSUME IInv, Open, found' = Loaded(lines')
  PROVE  /\ IInv' /\ stage = "down" /\ found # Nothing /\ mem' = found /\ stage' = "loaded"
         /\ UNCHANGED <<found, Damaged, undo>>
<1>1. /\ stage = "down" /\ found # Nothing /\ lines' = Repaired(lines) /\ ended' = TRUE
      /\ mem' = found /\ leaf' = Len(lines') /\ stage' = "loaded"
      /\ caller' = caller /\ failed' = failed /\ undo' = undo
  BY DEF Open
<1>2. Types /\ FileInv /\ MemInv
  BY DEF IInv
<1>3. Good(lines) /\ found = Loaded(lines)
  BY <1>2 DEF FileInv
<1>4. /\ Good(lines') /\ Torn \notin ToSet(lines') /\ Len(lines') <= Len(lines)
      /\ found' = found
  BY <1>1, <1>3, RepairedIs
<1>5. DOMAIN lines' = 1..Len(lines') /\ Len(lines') \in Nat /\ Len(lines') >= 1
  BY <1>4, GoodIs
<1>6. found \in Sessions
  BY <1>1, <1>3, LoadedType
<1>7. Len(lines) \in 1..MaxLines /\ MaxLines \in Nat
  BY <1>2, MaxLinesAssumption DEF Types
<1>8. Len(lines') \in 1..MaxLines /\ Len(lines') \in DOMAIN lines'
  BY <1>4, <1>5, <1>7
<1>9. Types'
  BY <1>1, <1>2, <1>6, <1>8 DEF Types
<1>10. FileInv'
  BY <1>1, <1>4 DEF FileInv
<1>11. MemInv'
  BY <1>1, <1>2 DEF MemInv
<1>12. TruthInv'
  BY <1>1, <1>4 DEF TruthInv, Whole
<1>13. Damaged' = Damaged
  BY <1>1 DEF Damaged
<1> QED BY <1>1, <1>4, <1>9, <1>10, <1>11, <1>12, <1>13 DEF IInv

(* A session without interrupted work is taken up as it is.                  *)
LEMMA TakenUp ==
  ASSUME IInv, stage = "loaded", ~Interrupted(mem), Recover, found' = Loaded(lines')
  PROVE  IInv' /\ stage' = "up" /\ UNCHANGED <<mem, found, Damaged, undo>>
<1>1. /\ stage' = "up" /\ lines' = lines /\ ended' = ended /\ mem' = mem /\ leaf' = leaf
      /\ caller' = caller /\ failed' = failed /\ undo' = undo
  BY DEF Recover
<1>2. Types /\ FileInv /\ MemInv /\ TruthInv
  BY DEF IInv
<1>3. found' = found
  BY <1>1, <1>2 DEF FileInv
<1>4. mem.undelivered = <<>> /\ mem \in Sessions /\ Whole /\ leaf = Len(lines) /\ mem = found
  BY <1>2 DEF Interrupted, Types, TruthInv
<1>5. Replay(Here) = Seen(mem)
  <2>1. Good(lines) /\ Torn \notin ToSet(lines) /\ found = Loaded(lines)
    BY <1>2, <1>4 DEF FileInv, Whole
  <2>2. Loaded(lines) = Replay(Here)
    BY <1>4, <2>1, LoadedIs DEF Here
  <2> QED BY <1>4, <2>1, <2>2, SeenIs
<1>6. Types' /\ FileInv'
  BY <1>1, <1>2, <1>3 DEF Types, FileInv
<1>7. MemInv'
  BY <1>1, <1>2, <1>4 DEF MemInv
<1>8. Here' = Here /\ caller = "idle"
  BY <1>1, <1>2 DEF Here, MemInv
<1>9. TruthInv'
  BY <1>1, <1>5, <1>8 DEF TruthInv
<1>10. Damaged' = Damaged
  BY <1>1, <1>4 DEF Damaged, Whole
<1> QED BY <1>1, <1>3, <1>6, <1>7, <1>9, <1>10 DEF IInv

(* Interrupted work is closed with a snapshot.                               *)
LEMMA RecoverKeeps ==
  ASSUME IInv, stage = "loaded", Interrupted(mem), Recover, found' = Loaded(lines')
  PROVE  /\ IInv' /\ Keeps(Recovered(mem), {}, "up") /\ stage' # "loaded" /\ undo' = undo
         /\ Carries({}, Recovered(mem), {}) /\ undo = <<>>
<1> DEFINE m == Recovered(mem)
           e == Snapshot(m)
<1>1. /\ Len(lines) < MaxLines
      /\ \/ /\ Succeeds(<<e>>, m)
            /\ stage' = "up" /\ UNCHANGED <<caller, failed, undo>>
         \/ (\E c \in Cuts(<<e>>) : WriteCut(<<e>>, c)) /\ Dies
  BY DEF Recover
<1>2. /\ Types /\ FileInv /\ MemInv /\ Good(lines) /\ ended \in BOOLEAN /\ ended
      /\ (~ended => Len(lines) > 1)
      /\ Whole /\ mem = found /\ found = Loaded(lines) /\ Len(lines) \in 1..MaxLines
      /\ mem \in Sessions /\ leaf \in DOMAIN lines
  BY DEF IInv, Types, FileInv, TruthInv, Whole
<1>3. m \in Sessions /\ m.undelivered = <<>>
  BY <1>2, RecoveredIs
<1>4. caller = "idle" /\ ~failed /\ undo = <<>> /\ MaxLines \in Nat
  BY <1>2, MaxLinesAssumption DEF MemInv
<1> HIDE DEF m
<1>5. Seen(m) = m /\ Emptied(m) = m
  BY <1>3, SeenIs, EmptiedIs
<1>6. /\ Writable(e) /\ e \in Line /\ FirstChain(e) \in Seq(Line)
      /\ Replay(FirstChain(e)) = m
  BY <1>3, <1>5, SnapshotNext DEF Replay
<1> HIDE DEF e
<1>7. /\ Other \in Line /\ Other # Torn /\ Other.parent = NextLine
      /\ Other.type # "turn-start"
  BY <1>2, OtherIs
<1>8. /\ NextLine = Len(lines) + 1 /\ Len(Begun(e)) = NextLine /\ Len(Begun(Torn)) = NextLine
      /\ ToSet(Begun(e)) = ToSet(lines) \cup {e} /\ Len(lines) \in Nat
  BY <1>2, <1>6, BegunIs, GoodIs
<1>9. Other.parent <= NextLine
  BY <1>7, <1>8
<1> HIDE DEF Other
<1>13. \A ls, en : Wrote(ls, en, e, Other) =>
         Good(ls) /\ en \in BOOLEAN /\ (~en => Len(ls) > 1) /\ Len(ls) >= Len(lines)
  <2>1. FileInv /\ ended \in BOOLEAN
    BY <1>2
  <2>2. Writable(e) /\ Other \in Line /\ Other.parent <= NextLine /\ Other.type # "turn-start"
    BY <1>6, <1>7, <1>9
  <2>3. ASSUME NEW ls, NEW en, Wrote(ls, en, e, Other)
        PROVE  Good(ls) /\ en \in BOOLEAN /\ (~en => Len(ls) > 1) /\ Len(ls) >= Len(lines)
    BY <2>1, <2>2, <2>3, FileKept
  <2> QED BY <2>3
<1>10. /\ Loaded(Begun(Torn)) = found /\ Loaded(Begun(e)) = m
       /\ Chains(Begun(e))[Len(lines) + 1] = FirstChain(e)
  BY <1>2, <1>6, <1>7, FoundAfter, NextChains
<1>14. ASSUME Wrote(lines', ended', e, Other),
              lines' = lines \/ lines' = Begun(Torn) \/ lines' = Begun(e)
       PROVE  Carries({}, m, {})
  <2>1. FileInv /\ ended \in BOOLEAN
    BY <1>2
  <2>2. Grown
    BY <1>6, <1>7, <1>9, <1>14, <2>1, WroteGrows
  <2>3. {} \subseteq NewIds(e)
    OBVIOUS
  <2>4. Whole => Replay(FirstChain(e)) = Seen(m)
    BY <1>5, <1>6
  <2> QED BY <1>6, <1>14, <2>1, <2>2, <2>3, <2>4, OneCarries
<1>11. CASE /\ Succeeds(<<e>>, m)
            /\ stage' = "up" /\ UNCHANGED <<caller, failed, undo>>
  <2>1. lines' = Begun(e) /\ ended' = TRUE /\ leaf' = Len(lines) + 1 /\ mem' = m
    <3>1. Followed(<<e>>) = Begun(e)
      BY <1>2, <1>6, <1>7, FollowedIs
    <3>2. leaf' = NextLine + 1 - 1
      <4>1. Len(<<e>>) = 1
        OBVIOUS
      <4> QED BY <1>11, <4>1 DEF Succeeds
    <3> QED BY <1>8, <1>11, <3>1, <3>2 DEF Succeeds
  <2>2. Wrote(lines', ended', e, Other)
    BY <2>1 DEF Wrote
  <2>3. Good(lines') /\ ended' \in BOOLEAN /\ (~ended' => Len(lines') > 1)
    BY <1>13, <2>2
  <2>4. found' = m
    BY <1>10, <2>1
  <2>5. Len(lines') = Len(lines) + 1 /\ DOMAIN lines' = 1..Len(lines')
    BY <1>8, <2>1, <2>3, GoodIs
  <2>6. Types'
    <3>1. Len(lines') \in 1..MaxLines /\ leaf' \in DOMAIN lines'
      BY <1>1, <1>4, <1>8, <2>1, <2>5
    <3> QED BY <1>2, <1>3, <1>11, <2>1, <2>3, <3>1 DEF Types
  <2>7. FileInv'
    BY <2>3 DEF FileInv
  <2>8. MemInv'
    BY <1>3, <1>4, <1>11, <2>1 DEF MemInv
  <2>9. Torn \notin ToSet(lines')
    <3>1. e # Torn /\ Torn \notin ToSet(lines)
      BY <1>2, <1>6 DEF Writable, Whole
    <3> QED BY <1>8, <2>1, <3>1
  <2>10. TruthInv'
    <3>1. Here' = FirstChain(e)
      BY <1>10, <2>1 DEF Here
    <3>2. Replay(Here') = Seen(mem')
      BY <1>5, <1>6, <2>1, <3>1
    <3>3. caller' = "idle" /\ stage' = "up"
      BY <1>4, <1>11
    <3> QED BY <3>2, <3>3 DEF TruthInv
  <2>11. Damaged' = Damaged
    BY <2>1, <2>9 DEF Damaged
  <2>12. Carries({}, m, {})
    BY <1>14, <2>1, <2>2
  <2> QED BY <1>4, <1>5, <1>11, <2>1, <2>4, <2>6, <2>7, <2>8, <2>10, <2>11, <2>12
          DEF IInv, Keeps, m
<1>12. CASE (\E c \in Cuts(<<e>>) : WriteCut(<<e>>, c)) /\ Dies
  <2>1. PICK c \in Cuts(<<e>>) : WriteCut(<<e>>, c)
    BY <1>12
  <2>2. Wrote(lines', ended', e, Other)
    BY <1>2, <1>6, <1>7, <2>1, CutOne
  <2>3. lines' = lines \/ lines' = Begun(Torn) \/ lines' = Begun(e)
    BY <1>2, <1>6, <2>1, CutOneFound
  <2>4. /\ Good(lines') /\ ended' \in BOOLEAN /\ (~ended' => Len(lines') > 1)
        /\ Len(lines') >= Len(lines)
    BY <1>13, <2>2
  <2>5. found' \in {found, m}
    BY <1>2, <1>10, <2>3
  <2>6. /\ stage' = "down" /\ caller' = "idle" /\ failed' = FALSE /\ undo' = <<>>
        /\ mem' = mem /\ leaf' = leaf
    BY <1>12 DEF Dies
  <2>7. Types'
    <3>1. DOMAIN lines' = 1..Len(lines') /\ Len(lines') \in Nat /\ DOMAIN lines = 1..Len(lines)
      BY <1>2, <2>4, GoodIs
    <3>2. Len(lines') \in 1..MaxLines
      BY <1>1, <1>2, <1>4, <1>8, <2>3, <2>4, <3>1
    <3>3. leaf' \in DOMAIN lines'
      <4>1. leaf \in 1..Len(lines)
        BY <1>2, <3>1
      <4> QED BY <1>8, <2>4, <2>6, <3>1, <4>1
    <3>4. <<>> \in Seq(Int)
      OBVIOUS
    <3> QED BY <1>2, <2>4, <2>6, <3>2, <3>3, <3>4 DEF Types
  <2>8. FileInv'
    BY <2>4 DEF FileInv
  <2>9. MemInv' /\ TruthInv'
    BY <2>6 DEF MemInv, TruthInv
  <2>10. Damaged' = FALSE
    BY <2>6 DEF Damaged
  <2>11. Carries({}, m, {})
    BY <1>14, <2>2, <2>3
  <2> QED BY <1>4, <1>5, <2>5, <2>6, <2>7, <2>8, <2>9, <2>10, <2>11 DEF IInv, Keeps, m
<1> QED BY <1>1, <1>11, <1>12

-----------------------------------------------------------------------------
(* Every step keeps the invariant, and the promise of the journal.           *)

(* The operators of Journal are those of SessionJournal.                     *)
LEMMA SameData ==
  /\ Promise!EmptySession = EmptySession /\ Promise!Nothing = Nothing
  /\ Promise!NoInput = NoInput /\ Promise!NoTurn = NoTurn
  /\ \A s : Promise!ToSet(s) = ToSet(s)
  /\ \A q, ids : Promise!Chosen(q, ids) = Chosen(q, ids)
<1>1. \A q, ids : Promise!Chosen(q, ids) = Chosen(q, ids)
  BY DEF Chosen, Promise!Chosen, FoldLeft, Promise!FoldLeft, MapThenFoldSet,
         Promise!MapThenFoldSet, Max, Promise!Max
<1>2. \A s : Promise!ToSet(s) = ToSet(s)
  BY DEF ToSet, Promise!ToSet
<1>3. /\ Promise!EmptySession = EmptySession /\ Promise!Nothing = Nothing
      /\ Promise!NoInput = NoInput /\ Promise!NoTurn = NoTurn
  BY DEF EmptySession, Promise!EmptySession, Nothing, Promise!Nothing, NoInput, Promise!NoInput,
         NoTurn, Promise!NoTurn
<1> QED BY <1>1, <1>2, <1>3

LEMMA SameQueues ==
  /\ \A q, ids : Promise!Without(q, ids) = Without(q, ids)
  /\ \A m, s : Promise!InState(m, s) = InState(m, s)
  /\ \A m : Promise!Seen(m) = Seen(m)
<1>1. \A q, ids : Promise!Without(q, ids) = Without(q, ids)
  BY SameData DEF Without, Promise!Without
<1>2. \A m, s : Promise!InState(m, s) = InState(m, s)
  BY SameData DEF InState, Promise!InState
<1>3. \A m : Promise!Seen(m) = Seen(m)
  BY DEF Seen, Promise!Seen
<1> QED BY <1>1, <1>2, <1>3

LEMMA SameOperations ==
  /\ \A m, i, b, c : Promise!Received(m, i, b, c) = Received(m, i, b, c)
  /\ \A m, t, r, d : Promise!Started(m, t, r, d) = Started(m, t, r, d)
  /\ \A m, t, r : Promise!HalfStarted(m, t, r) = HalfStarted(m, t, r)
  /\ \A m, d : Promise!Stepped(m, d) = Stepped(m, d)
  /\ \A m : Promise!Ended(m) = Ended(m) /\ Promise!Compacted(m) = Compacted(m)
  /\ \A m, ms : Promise!Replaced(m, ms) = Replaced(m, ms)
  /\ \A m, s : Promise!RolledBack(m, s) = RolledBack(m, s)
  /\ \A m, s, i : Promise!Edited(m, s, i) = Edited(m, s, i)
  /\ \A m, i : Promise!Restored(m, i) = Restored(m, i)
  /\ \A m, ids : Promise!Discarded(m, ids) = Discarded(m, ids)
  /\ \A m : /\ Promise!Recovered(m) = Recovered(m)
            /\ Promise!Interrupted(m) = Interrupted(m)
<1>1. \A m, i, b, c : Promise!Received(m, i, b, c) = Received(m, i, b, c)
  BY SameQueues DEF Received, Promise!Received
<1>2. \A r, d : Promise!Carried(r, d) = Carried(r, d)
  BY DEF Carried, Promise!Carried, NoInput, Promise!NoInput, Note, Promise!Note
<1>3. \A m, t, r, d : Promise!Started(m, t, r, d) = Started(m, t, r, d)
  BY <1>2, SameData, SameQueues DEF Started, Promise!Started
<1>4. \A m, t, r : Promise!HalfStarted(m, t, r) = HalfStarted(m, t, r)
  BY SameData DEF HalfStarted, Promise!HalfStarted
<1>5. \A m, d : Promise!Stepped(m, d) = Stepped(m, d)
  BY SameQueues DEF Stepped, Promise!Stepped, Reply, Promise!Reply
<1>6. \A m : Promise!Ended(m) = Ended(m)
  BY DEF Ended, Promise!Ended, NoTurn, Promise!NoTurn
<1>7. \A m : Promise!Compacted(m) = Compacted(m)
  BY DEF Compacted, Promise!Compacted, Summary, Promise!Summary
<1>8. \A m, ms : Promise!StartsWithin(m, ms) = StartsWithin(m, ms)
  BY SameData DEF StartsWithin, Promise!StartsWithin
<1>9. \A m, ms : Promise!Replaced(m, ms) = Replaced(m, ms)
  BY <1>8, SameData DEF Replaced, Promise!Replaced
<1>10. \A m, s : Promise!RolledBack(m, s) = RolledBack(m, s)
  BY <1>9 DEF RolledBack, Promise!RolledBack
<1>11. \A m, s, i : Promise!Edited(m, s, i) = Edited(m, s, i)
  BY <1>10 DEF Edited, Promise!Edited
<1>12. \A m, i : Promise!Restored(m, i) = Restored(m, i)
  BY DEF Restored, Promise!Restored
<1>13. \A m, ids : Promise!Discarded(m, ids) = Discarded(m, ids)
  BY SameQueues DEF Discarded, Promise!Discarded
<1>14. \A m : Promise!Recovered(m) = Recovered(m)
  BY <1>9 DEF Recovered, Promise!Recovered, Aborted, Promise!Aborted
<1>15. \A m : Promise!Interrupted(m) = Interrupted(m)
  BY DEF Interrupted, Promise!Interrupted, NoTurn, Promise!NoTurn
<1> QED BY <1>1, <1>3, <1>4, <1>5, <1>6, <1>7, <1>9, <1>10, <1>11, <1>12, <1>13, <1>14, <1>15

(* A write that keeps the promise is one of Journal.                         *)
LEMMA SameWrite ==
  ASSUME NEW m, NEW halves, NEW next, Keeps(m, halves, next)
  PROVE  Promise!Write(m, halves, next)
<1>1. Promise!Seen(m) = Seen(m)
  BY SameQueues
<1> QED BY <1>1 DEF Keeps, Promise!Write

LEMMA InitHolds ==
  ASSUME Init
  PROVE  IInv /\ found = EmptySession /\ Damaged = FALSE
<1>1. /\ lines = <<SessionStart>> /\ ended = TRUE /\ mem = EmptySession /\ leaf = 1
      /\ stage = "up" /\ caller = "idle" /\ failed = FALSE /\ undo = <<>>
      /\ found = Loaded(lines)
  BY DEF Init
<1>2. /\ SessionStart \in Line /\ SessionStart # Torn /\ SessionStart.parent = 0
      /\ SessionStart.type = "session-start"
  BY LinesAre DEF SessionStart, Torn, NoParent
<1>3. /\ <<SessionStart>> \in Seq(Line) /\ Len(<<SessionStart>>) = 1
      /\ DOMAIN <<SessionStart>> = 1..1 /\ <<SessionStart>>[1] = SessionStart
  BY <1>2
<1>4. 1..1 = {1}
  OBVIOUS
<1>5. Good(lines)
  BY <1>1, <1>2, <1>3, <1>4 DEF Good, Ordered, RootsWritten
<1>6. ToSet(lines) = {SessionStart}
  BY <1>1, <1>3, <1>4 DEF ToSet
<1>7. Here = <<SessionStart>>
  <2>1. /\ Chains(lines)[0] = <<>>
        /\ \A n \in 1..Len(lines) : Chains(lines)[n] = Append(Chains(lines)[lines[n].parent], lines[n])
    BY <1>5, GoodIs, ChainsAre
  <2>2. Chains(lines)[1] = Append(<<>>, SessionStart)
    BY <1>1, <1>2, <1>3, <2>1
  <2> QED BY <1>1, <2>2 DEF Here
<1>8. EmptySession \in Sessions
  BY NothingIs
<1>9. Seen(EmptySession) = EmptySession
  <2>1. EmptySession.undelivered = <<>>
    BY DEF EmptySession
  <2> QED BY <1>8, <2>1, SeenIs
<1>10. \A R : ReplayWith(<<SessionStart>>, R) = EmptySession
  <2>1. ASSUME NEW R PROVE ReplayWith(<<SessionStart>>, R) = EmptySession
    <3>1. ReplayWith(<<SessionStart>>, R) = After(EmptySession, SessionStart, R)
      BY <1>2, ReplayFirst
    <3>2. Fits(EmptySession, SessionStart)
      BY <1>2 DEF Fits
    <3>3. After(EmptySession, SessionStart, R) = Replayed(EmptySession, SessionStart, R)
      BY <1>8, <3>2, AfterIs
    <3>4. Replayed(EmptySession, SessionStart, R) = EmptySession
      BY <1>2, ReplayedOther
    <3> QED BY <3>1, <3>3, <3>4
  <2> QED BY <2>1
<1>11. Replay(Here) = Seen(mem)
  BY <1>1, <1>7, <1>9, <1>10 DEF Replay
<1>12. found = EmptySession
  <2>1. Loaded(lines) = Replay(Chains(lines)[Len(lines)])
    BY <1>2, <1>5, <1>6, LoadedIs
  <2>2. Loaded(lines) = Replay(Here)
    BY <1>1, <1>3, <2>1 DEF Here
  <2> QED BY <1>1, <1>9, <1>11, <2>2
<1>13. Types
  <2>1. Len(lines) \in 1..MaxLines /\ leaf \in DOMAIN lines
    BY <1>1, <1>3, MaxLinesAssumption
  <2>2. <<>> \in Seq(Int)
    OBVIOUS
  <2> QED BY <1>1, <1>8, <2>1, <2>2 DEF Types
<1>14. FileInv
  BY <1>1, <1>5 DEF FileInv
<1>15. MemInv
  <2>1. mem.undelivered = <<>>
    BY <1>1 DEF EmptySession
  <2> QED BY <1>1, <2>1 DEF MemInv
<1>16. TruthInv
  BY <1>1, <1>11 DEF TruthInv
<1>17. Damaged = FALSE
  BY <1>1, <1>2, <1>6 DEF Damaged
<1> QED BY <1>12, <1>13, <1>14, <1>15, <1>16, <1>17 DEF IInv

LEMMA OperationHolds ==
  ASSUME IInv, Operations, found' = Loaded(lines')
  PROVE  IInv' /\ Promise!Next
<1>1. mem \in Sessions
  BY HereIs
<1> USE SameOperations, SameQueues, SameData, SameWrite
<1>2. ASSUME NEW i \in Inputs, NEW c \in Drafts, RecordUserInput(i, c)
      PROVE  IInv' /\ Promise!Next
  <2>1. /\ IInv' /\ SameUndo /\ stage = "up"
        /\ Keeps(Received(mem, i, caller = "idle", c), {}, "up")
    BY <1>2, UserInputKeeps
  <2>2. (caller = "idle") \in BOOLEAN
    OBVIOUS
  <2>3. Promise!Up(Promise!Received(mem, i, caller = "idle", c), {})
    BY <2>1 DEF Promise!Up
  <2>4. c \in {<<>>} \cup {<<r>> : r \in Promise!InState(mem, "restored")}
    BY DEF Drafts
  <2>5. Promise!RecordUserInput
    BY <2>2, <2>3, <2>4 DEF Promise!RecordUserInput
  <2> QED BY <2>1, <2>5 DEF Promise!Next, Promise!Recording, SameUndo
<1>3. ASSUME NEW root \in Inputs \cup {NoInput}, root \in ToSet(mem.undelivered) \cup {NoInput},
             NEW d \in {<<>>} \cup {<<q>> : q \in Queued}, RecordTurnStart(root, d)
      PROVE  IInv' /\ Promise!Next
  <2>1. /\ IInv' /\ SameUndo /\ stage = "up" /\ NextLine \in 1..MaxLines
        /\ Keeps(Started(mem, NextLine, root, d), {HalfStarted(mem, NextLine, root)}, "up")
    BY <1>3, TurnStartKeeps
  <2>2. Promise!Up(Promise!Started(mem, NextLine, root, d),
                   {Promise!HalfStarted(mem, NextLine, root)})
    BY <2>1 DEF Promise!Up
  <2>3. /\ d \in {<<>>} \cup {<<q>> : q \in Promise!InState(mem, "queued")}
        /\ root \in Promise!ToSet(mem.undelivered) \cup {Promise!NoInput}
    BY <1>3 DEF Queued
  <2>4. Promise!RecordTurnStart
    BY <2>1, <2>2, <2>3 DEF Promise!RecordTurnStart
  <2> QED BY <2>1, <2>4 DEF Promise!Next, Promise!Recording, SameUndo
<1>4. ASSUME NEW d \in {<<>>} \cup {<<q>> : q \in Queued}, RecordStep(d)
      PROVE  IInv' /\ Promise!Next
  <2>1. IInv' /\ SameUndo /\ stage = "up" /\ Keeps(Stepped(mem, d), {}, "up")
    BY <1>4, StepKeeps
  <2>2. Promise!Up(Promise!Stepped(mem, d), {})
    BY <2>1 DEF Promise!Up
  <2>3. d \in {<<>>} \cup {<<q>> : q \in Promise!InState(mem, "queued")}
    BY DEF Queued
  <2>4. Promise!RecordStep
    BY <2>2, <2>3 DEF Promise!RecordStep
  <2> QED BY <2>1, <2>4 DEF Promise!Next, Promise!Recording, SameUndo
<1>5. CASE RecordTurnEnd
  <2>1. IInv' /\ SameUndo /\ stage = "up" /\ Keeps(Ended(mem), {}, "up")
    BY <1>5, TurnEndKeeps
  <2>2. Promise!RecordTurnEnd
    BY <2>1 DEF Promise!RecordTurnEnd, Promise!Up
  <2> QED BY <2>1, <2>2 DEF Promise!Next, Promise!Recording, SameUndo
<1>6. CASE Compact
  <2>1. IInv' /\ SameUndo /\ stage = "up" /\ Keeps(Compacted(mem), {}, "up")
    BY <1>6, CompactKeeps
  <2>2. mem.undelivered = <<>>
    BY <1>6 DEF Compact
  <2>3. Promise!Compact
    BY <2>1, <2>2 DEF Promise!Compact, Promise!Up
  <2> QED BY <2>1, <2>3 DEF Promise!Next, Promise!Recording, SameUndo
<1>7. ASSUME NEW s \in ToSet(mem.starts), Rollback(s)
      PROVE  IInv' /\ Promise!Next
  <2>1. /\ IInv' /\ stage = "up" /\ Keeps(RolledBack(mem, s), {}, "up")
        /\ mem.undelivered = <<>> /\ undo' \in {undo, mem.msgs}
    BY <1>7, RollbackKeeps
  <2>2. Promise!Up(Promise!RolledBack(mem, s), {})
    BY <2>1 DEF Promise!Up
  <2>3. s \in Promise!ToSet(mem.starts)
    OBVIOUS
  <2>4. Promise!Rollback
    BY <2>1, <2>2, <2>3 DEF Promise!Rollback
  <2> QED BY <2>1, <2>4 DEF Promise!Next
<1>8. ASSUME NEW s \in ToSet(mem.starts), NEW i \in Inputs, EditTurn(s, i)
      PROVE  IInv' /\ Promise!Next
  <2>1. /\ IInv' /\ SameUndo /\ stage = "up"
        /\ mem.undelivered = <<>> /\ mem.pending = <<>> /\ mem.turn = NoTurn
        /\ Keeps(Edited(mem, s, i), {RolledBack(mem, s)}, "up")
    BY <1>8, EditTurnKeeps
  <2>2. Promise!Up(Promise!Edited(mem, s, i), {Promise!RolledBack(mem, s)})
    BY <2>1 DEF Promise!Up
  <2>3. s \in Promise!ToSet(mem.starts)
    OBVIOUS
  <2>4. Promise!EditTurn
    BY <2>1, <2>2, <2>3 DEF Promise!EditTurn
  <2> QED BY <2>1, <2>4 DEF Promise!Next, Promise!Recording, SameUndo
<1>9. CASE RollbackEnds
  <2>1. IInv' /\ undo # <<>> /\ undo' = <<>> /\ UNCHANGED <<mem, found, Damaged, stage>>
    BY <1>9, RollbackEndsKeeps
  <2> QED BY <2>1 DEF Promise!Next, Promise!RollbackEnds
<1>10. CASE TakeBack
  <2>1. /\ IInv' /\ stage = "up" /\ Keeps(Replaced(mem, undo), {}, "up")
        /\ mem.undelivered = <<>> /\ undo # <<>> /\ undo' = <<>>
    BY <1>10, TakeBackKeeps
  <2>2. Promise!Up(Promise!Replaced(mem, undo), {})
    BY <2>1 DEF Promise!Up
  <2> QED BY <2>1, <2>2 DEF Promise!Next, Promise!TakeBack
<1>11. ASSUME NEW i \in Queued, NEW c \in Drafts, MarkRestored(i, c)
       PROVE  IInv' /\ Promise!Next
  <2>1. /\ IInv' /\ SameUndo /\ stage = "up"
        /\ Keeps(Discarded(Restored(mem, i), c), {Seen(Restored(mem, i))}, "up")
    BY <1>11, MarkRestoredKeeps
  <2>2. Promise!Up(Promise!Discarded(Promise!Restored(mem, i), c),
                   {Promise!Seen(Promise!Restored(mem, i))})
    BY <2>1 DEF Promise!Up
  <2>3. /\ i \in Promise!InState(mem, "queued")
        /\ c \in {<<>>} \cup {<<r>> : r \in Promise!InState(mem, "restored")}
    BY DEF Queued, Drafts
  <2>4. Promise!MarkRestored
    BY <2>2, <2>3 DEF Promise!MarkRestored
  <2> QED BY <2>1, <2>4 DEF Promise!Next, Promise!Recording, SameUndo
<1>12. ASSUME NEW i \in Queued, MarkDiscarded(i)
       PROVE  IInv' /\ Promise!Next
  <2>1. IInv' /\ SameUndo /\ stage = "up" /\ Keeps(Discarded(mem, <<i>>), {}, "up")
    BY <1>12, MarkDiscardedKeeps
  <2>2. Promise!Up(Promise!Discarded(mem, <<i>>), {})
    BY <2>1 DEF Promise!Up
  <2>3. i \in Promise!InState(mem, "queued")
    BY DEF Queued
  <2>4. Promise!MarkDiscarded
    BY <2>2, <2>3 DEF Promise!MarkDiscarded
  <2> QED BY <2>1, <2>4 DEF Promise!Next, Promise!Recording, SameUndo
<1>13. CASE Crash
  <2>1. /\ IInv' /\ stage' = "down" /\ Damaged' = FALSE /\ undo' = <<>>
        /\ UNCHANGED <<mem, found>>
    BY <1>13, CrashKeeps
  <2> QED BY <2>1 DEF Promise!Next, Promise!Crash
<1>14. CASE Open
  <2>1. /\ IInv' /\ stage = "down" /\ found # Nothing /\ mem' = found /\ stage' = "loaded"
        /\ UNCHANGED <<found, Damaged, undo>>
    BY <1>14, OpenKeeps
  <2> QED BY <2>1 DEF Promise!Next, Promise!Open
<1>15. CASE Recover
  <2>1. stage = "loaded"
    BY <1>15 DEF Recover
  <2>2. CASE ~Interrupted(mem)
    <3>1. IInv' /\ stage' = "up" /\ UNCHANGED <<mem, found, Damaged, undo>>
      BY <1>15, <2>1, <2>2, TakenUp
    <3> QED BY <2>1, <2>2, <3>1 DEF Promise!Next, Promise!Recover
  <2>3. CASE Interrupted(mem)
    <3>1. IInv' /\ Keeps(Recovered(mem), {}, "up") /\ stage' # "loaded" /\ undo' = undo
      BY <1>15, <2>1, <2>3, RecoverKeeps
    <3>2. Promise!Write(Promise!Recovered(mem), {}, "up")
      BY <3>1
    <3> QED BY <2>1, <2>3, <3>1, <3>2 DEF Promise!Next, Promise!Recover
  <2> QED BY <2>2, <2>3
<1>16. \A root \in ToSet(mem.undelivered) : root \in Inputs
  <2>1. mem.undelivered \in Seq(Inputs)
    BY <1>1, SessionHas
  <2> QED BY <2>1 DEF ToSet
<1>17. \A root \in ToSet(mem.undelivered) : RecordTurnStart(root, <<>>) => IInv' /\ Promise!Next
  BY <1>3, <1>16
<1>18. \A d \in {<<>>} \cup {<<q>> : q \in Queued} :
         RecordTurnStart(NoInput, d) => IInv' /\ Promise!Next
  BY <1>3
<1> QED BY <1>2, <1>4, <1>5, <1>6, <1>7, <1>8, <1>9, <1>10, <1>11, <1>12, <1>13, <1>14, <1>15,
           <1>17, <1>18 DEF Operations

LEMMA StepHolds ==
  ASSUME IInv, [Next]_vars
  PROVE  IInv' /\ [Promise!Next]_(Promise!vars)
<1>1. CASE Next
  BY <1>1, OperationHolds DEF Next
<1>2. CASE UNCHANGED vars
  <2>1. /\ lines' = lines /\ ended' = ended /\ mem' = mem /\ leaf' = leaf /\ stage' = stage
        /\ caller' = caller /\ failed' = failed /\ undo' = undo /\ found' = found
    BY <1>2 DEF vars
  <2>2. Types' /\ FileInv' /\ MemInv'
    BY <2>1 DEF IInv, Types, FileInv, MemInv
  <2>3. Here' = Here /\ (Whole' <=> Whole)
    BY <2>1 DEF Here, Whole
  <2>4. TruthInv'
    BY <2>1, <2>3 DEF IInv, TruthInv
  <2>5. Damaged' = Damaged
    BY <2>1 DEF Damaged
  <2> QED BY <2>1, <2>2, <2>4, <2>5 DEF IInv, Promise!vars
<1> QED BY <1>1, <1>2

(* The inductive invariant: types, the file, the place of the undelivered    *)
(* root, and that the chain of the leaf replays what is in memory.           *)
THEOREM Invariant == Spec => []IInv
<1>1. Init => IInv
  BY InitHolds
<1>2. IInv /\ [Next]_vars => IInv'
  BY StepHolds
<1> QED BY <1>1, <1>2, PTL DEF Spec

LEMMA TypesFollow ==
  ASSUME IInv
  PROVE  TypeOK
<1>1. Types /\ Good(lines) /\ mem \in Sessions
  BY DEF IInv, FileInv, Types
<1>2. \A n \in DOMAIN lines : lines[n].parent < n
  BY <1>1 DEF Good, Ordered
<1>3. ToSet(Ids(mem)) \subseteq Inputs /\ mem.turn \in 0..MaxLines
  <2>1. /\ mem.undelivered \in Seq(Inputs) /\ mem.pending \in Seq(Waiting)
        /\ mem.turn \in 0..MaxLines
    BY <1>1, SessionHas
  <2>2. [n \in DOMAIN mem.pending |-> mem.pending[n].id] \in Seq(Inputs)
    <3>1. DOMAIN mem.pending = 1..Len(mem.pending) /\ Len(mem.pending) \in Nat
      BY <2>1
    <3>2. \A n \in 1..Len(mem.pending) : mem.pending[n] \in Waiting
      BY <2>1
    <3>3. \A p \in Waiting : p.id \in Inputs
      BY DEF Waiting
    <3> QED BY <3>1, <3>2, <3>3
  <2>3. Ids(mem) \in Seq(Inputs)
    BY <2>1, <2>2 DEF Ids
  <2> HIDE DEF Ids
  <2>4. ToSet(Ids(mem)) \subseteq Inputs
    BY <2>3 DEF ToSet
  <2> QED BY <2>1, <2>4
<1> QED BY <1>1, <1>2, <1>3 DEF TypeOK, Types

(* Every variable keeps its type, and every record has its parent above it,  *)
(* whatever was cut.                                                        *)
THEOREM TypesHold == Spec => []TypeOK
<1>1. IInv => TypeOK
  BY TypesFollow
<1> QED BY <1>1, Invariant, PTL

(* The transcript keeps the promise of the journal: opening the session       *)
(* replays the state the operations had built, or the one before the write   *)
(* that failed (store.ts, chain.ts).                                        *)
THEOREM ImplementsHolds == Spec => Implements
<1>1. Init => Promise!Init
  <2>1. ASSUME Init PROVE Promise!Init
    <3>1. /\ mem = EmptySession /\ stage = "up" /\ undo = <<>>
          /\ found = EmptySession /\ Damaged = FALSE
      BY <2>1, InitHolds DEF Init
    <3> QED BY <3>1, SameData DEF Promise!Init
  <2> QED BY <2>1
<1>2. IInv /\ [Next]_vars => [Promise!Next]_(Promise!vars)
  BY StepHolds
<1> QED BY <1>1, <1>2, Invariant, PTL DEF Spec, Implements, Promise!Spec

-----------------------------------------------------------------------------
(* What the operations do to the places of the inputs: they are told to the  *)
(* model once, wait once, and do not wait once they are told.               *)

WaitIds(p) == {p[k].id : k \in DOMAIN p}
ToldIn(ms, W) ==
  /\ \A j, k \in DOMAIN ms : ms[j] = ms[k] /\ ms[j] \in Inputs => j = k
  /\ ToSet(ms) \cap Inputs \subseteq W
HeldIn(p, W) ==
  /\ \A j, k \in DOMAIN p : p[j].id = p[k].id => j = k
  /\ WaitIds(p) \subseteq W
Apart(ms, p) == ToSet(ms) \cap WaitIds(p) = {}

LEMMA WaitIdsIs ==
  ASSUME NEW p \in Seq(Waiting)
  PROVE  WaitIds(p) \subseteq Inputs /\ WaitIds(p) = {w.id : w \in ToSet(p)}
<1>1. \A k \in DOMAIN p : p[k] \in Waiting
  OBVIOUS
<1> QED BY <1>1 DEF WaitIds, ToSet, Waiting

LEMMA SoundParts ==
  ASSUME NEW m \in Sessions, NEW W
  PROVE  SoundIn(m, W) <=> ToldIn(m.msgs, W) /\ HeldIn(m.pending, W) /\ Apart(m.msgs, m.pending)
<1>1. m.pending \in Seq(Waiting)
  BY SessionHas
<1>2. WaitIds(m.pending) \subseteq Inputs
  BY <1>1, WaitIdsIs
<1>3. Inside(m) = ToSet(m.msgs) \cup WaitIds(m.pending)
  BY DEF Inside, WaitIds
<1>4. (\A k \in DOMAIN m.pending : m.pending[k].id \notin ToSet(m.msgs))
        <=> Apart(m.msgs, m.pending)
  BY DEF Apart, WaitIds
<1> QED BY <1>2, <1>3, <1>4 DEF SoundIn, Single, ToldIn, HeldIn

LEMMA ToldMore ==
  ASSUME NEW ms \in Seq(Int), NEW v \in Int, NEW W, NEW V, ToldIn(ms, W), W \subseteq V,
         v \in Inputs => v \notin ToSet(ms) /\ v \in V
  PROVE  /\ ToldIn(Append(ms, v), V)
         /\ ToSet(Append(ms, v)) = ToSet(ms) \cup {v}
<1> DEFINE a == Append(ms, v)
<1>1. /\ DOMAIN ms = 1..Len(ms) /\ DOMAIN a = 1..(Len(ms) + 1) /\ Len(ms) \in Nat
      /\ \A j \in 1..Len(ms) : a[j] = ms[j]
      /\ a[Len(ms) + 1] = v
  OBVIOUS
<1>2. ToSet(a) = ToSet(ms) \cup {v}
  <2>1. Range(a) = Range(ms) \cup {v}
    BY AppendHolds
  <2> QED BY <2>1 DEF ToSet, Range
<1> HIDE DEF a
<1>3. ASSUME NEW j \in DOMAIN a, NEW k \in DOMAIN a, a[j] = a[k], a[j] \in Inputs PROVE j = k
  <2>1. \A n \in DOMAIN a : n \in DOMAIN ms \/ n = Len(ms) + 1
    BY <1>1
  <2>2. \A n \in DOMAIN ms : ms[n] \in ToSet(ms) /\ a[n] = ms[n]
    BY <1>1 DEF ToSet
  <2> QED BY <1>1, <1>3, <2>1, <2>2 DEF ToldIn
<1>4. ToldIn(a, V)
  BY <1>2, <1>3 DEF ToldIn
<1> QED BY <1>2, <1>4 DEF a

LEMMA ToldPrefix ==
  ASSUME NEW ms \in Seq(Int), NEW n \in Nat, n <= Len(ms), NEW W, ToldIn(ms, W)
  PROVE  ToldIn(SubSeq(ms, 1, n), W) /\ ToSet(SubSeq(ms, 1, n)) \subseteq ToSet(ms)
<1> DEFINE a == SubSeq(ms, 1, n)
<1>1. /\ DOMAIN ms = 1..Len(ms) /\ DOMAIN a = 1..n /\ Len(ms) \in Nat
      /\ \A j \in 1..n : a[j] = ms[j] /\ j \in 1..Len(ms)
  OBVIOUS
<1> HIDE DEF a
<1>2. ToSet(a) \subseteq ToSet(ms)
  BY <1>1 DEF ToSet
<1>3. ToldIn(a, W)
  BY <1>1, <1>2 DEF ToldIn
<1> QED BY <1>2, <1>3 DEF a

LEMMA HeldMore ==
  ASSUME NEW p \in Seq(Waiting), NEW w \in Waiting, NEW W, NEW V, HeldIn(p, W), W \subseteq V,
         w.id \notin WaitIds(p), w.id \in V
  PROVE  /\ HeldIn(Append(p, w), V)
         /\ WaitIds(Append(p, w)) = WaitIds(p) \cup {w.id}
<1> DEFINE a == Append(p, w)
<1>1. /\ DOMAIN p = 1..Len(p) /\ DOMAIN a = 1..(Len(p) + 1) /\ Len(p) \in Nat
      /\ \A j \in 1..Len(p) : a[j] = p[j]
      /\ a[Len(p) + 1] = w
  OBVIOUS
<1> HIDE DEF a
<1>2. \A n : n \in DOMAIN a <=> n \in DOMAIN p \/ n = Len(p) + 1
  BY <1>1
<1>3. WaitIds(a) = WaitIds(p) \cup {w.id}
  BY <1>1, <1>2 DEF WaitIds
<1>4. ASSUME NEW j \in DOMAIN a, NEW k \in DOMAIN a, a[j].id = a[k].id PROVE j = k
  <2>1. \A n \in DOMAIN p : p[n].id \in WaitIds(p) /\ a[n] = p[n]
    BY <1>1 DEF WaitIds
  <2> QED BY <1>1, <1>2, <1>4, <2>1 DEF HeldIn
<1>5. HeldIn(a, V)
  BY <1>3, <1>4 DEF HeldIn
<1> QED BY <1>3, <1>5 DEF a

(* An input that is taken out leaves the others where they are.              *)
LEMMA HeldWithout ==
  ASSUME NEW p \in Seq(Waiting), NEW ids, NEW W, HeldIn(p, W)
  PROVE  /\ HeldIn(Without(p, ids), W)
         /\ WaitIds(Without(p, ids)) = WaitIds(p) \ ToSet(ids)
<1> DEFINE q == Without(p, ids)
           R == {z \in Waiting \X Waiting : z[1].id # z[2].id}
           S == {w \in ToSet(p) : w.id \notin ToSet(ids)}
<1>1. q \in Seq(Waiting) /\ ToSet(q) = S
  BY WithoutIs
<1>2. Sorted(p, R) => Sorted(q, R)
  <2>1. q = Chosen(p, S)
    BY DEF Without
  <2> HIDE DEF R, S, q
  <2> QED BY <2>1, ChosenHolds
<1>3. Sorted(p, R)
  <2>1. \A j, k \in DOMAIN p : p[j] \in Waiting /\ (j < k => j # k)
    <3>1. DOMAIN p = 1..Len(p) /\ Len(p) \in Nat
      OBVIOUS
    <3> QED BY <3>1
  <2> QED BY <2>1 DEF Sorted, HeldIn
<1>4. WaitIds(q) = {w.id : w \in ToSet(q)} /\ WaitIds(p) = {w.id : w \in ToSet(p)}
  BY <1>1, WaitIdsIs
<1>5. WaitIds(q) = WaitIds(p) \ ToSet(ids)
  BY <1>1, <1>4
<1>6. ASSUME NEW j \in DOMAIN q, NEW k \in DOMAIN q, q[j].id = q[k].id PROVE j = k
  <2>1. j \in Int /\ k \in Int
    <3>1. DOMAIN q = 1..Len(q) /\ Len(q) \in Nat
      BY <1>1
    <3> QED BY <3>1
  <2>2. \A a, b \in DOMAIN q : a < b => <<q[a], q[b]>> \in R
    BY <1>2, <1>3 DEF Sorted
  <2>3. ~(j < k)
    <3>1. <<q[j], q[k]>> \notin R
      BY <1>6
    <3> HIDE DEF R
    <3> QED BY <2>2, <3>1
  <2>4. ~(k < j)
    <3>1. <<q[k], q[j]>> \notin R
      BY <1>6
    <3> HIDE DEF R
    <3> QED BY <2>2, <3>1
  <2> QED BY <2>1, <2>3, <2>4
<1>7. HeldIn(q, W)
  <2> HIDE DEF q
  <2> QED BY <1>5, <1>6 DEF HeldIn
<1> QED BY <1>5, <1>7 DEF q

(* A draft is the input it was in the queue.                                *)
LEMMA HeldRestored ==
  ASSUME NEW m \in Sessions, NEW i, NEW W, HeldIn(m.pending, W)
  PROVE  /\ HeldIn(Restored(m, i).pending, W)
         /\ WaitIds(Restored(m, i).pending) = WaitIds(m.pending)
<1> DEFINE p == m.pending
           q == [n \in DOMAIN p |-> IF p[n].id = i THEN [p[n] EXCEPT !.state = "restored"] ELSE p[n]]
<1>1. m.pending \in Seq(Waiting)
  BY SessionHas
<1>2. Restored(m, i).pending = q
  <2>1. Restored(m, i) = [msgs |-> m.msgs, pending |-> q, undelivered |-> m.undelivered,
                          turn |-> m.turn, starts |-> m.starts]
    BY RestoredIs
  <2> HIDE DEF q
  <2> QED BY <2>1
<1>3. \A n \in DOMAIN p : q[n].id = p[n].id
  <2>1. \A w \in Waiting : [w EXCEPT !.state = "restored"].id = w.id
    BY DEF Waiting
  <2>2. \A n \in DOMAIN p : p[n] \in Waiting
    BY <1>1
  <2>3. \A n \in DOMAIN p : q[n] = IF p[n].id = i THEN [p[n] EXCEPT !.state = "restored"] ELSE p[n]
    OBVIOUS
  <2> HIDE DEF q, p
  <2> QED BY <2>1, <2>2, <2>3
<1>4. DOMAIN q = DOMAIN p
  OBVIOUS
<1> HIDE DEF q
<1>5. WaitIds(q) = WaitIds(p)
  BY <1>3, <1>4 DEF WaitIds
<1>6. HeldIn(q, W)
  BY <1>3, <1>4, <1>5 DEF HeldIn
<1> QED BY <1>2, <1>5, <1>6

LEMMA SeenParts ==
  ASSUME NEW m \in Sessions, NEW W
  PROVE  SoundIn(Seen(m), W) <=> /\ ToldIn(m.msgs \o m.undelivered, W) /\ HeldIn(m.pending, W)
                                 /\ Apart(m.msgs \o m.undelivered, m.pending)
<1> DEFINE x == Seen(m)
           all == m.msgs \o m.undelivered
<1>1. x \in Sessions
  BY SeenIs
<1>2. x = [msgs |-> all, pending |-> m.pending,
           undelivered |-> m.undelivered, turn |-> m.turn, starts |-> m.starts]
  BY SeenIs
<1>3. x.msgs = all /\ x.pending = m.pending
  <2> HIDE DEF x, all
  <2> QED BY <1>2
<1> QED BY <1>1, <1>3, SoundParts

LEMMA MessagesAre ==
  ASSUME NEW m \in Sessions
  PROVE  /\ m.msgs \in Seq(Int) /\ m.pending \in Seq(Waiting) /\ m.undelivered \in Seq(Int)
         /\ m.msgs \o m.undelivered \in Seq(Int)
         /\ m.undelivered = <<>> => m.msgs \o m.undelivered = m.msgs
<1>1. /\ m.msgs \in Seq(Int) /\ m.pending \in Seq(Waiting) /\ m.undelivered \in Seq(Inputs)
      /\ m = [msgs |-> m.msgs, pending |-> m.pending, undelivered |-> m.undelivered,
              turn |-> m.turn, starts |-> m.starts]
  BY SessionHas
<1>2. m.undelivered \in Seq(Int)
  BY <1>1, InputsAssumption
<1>3. m.msgs \o m.undelivered \in Seq(Int)
  BY <1>1, <1>2
<1>4. m.msgs \o <<>> = m.msgs
  BY <1>1, ConcatNone
<1> QED BY <1>1, <1>2, <1>3, <1>4

LEMMA ConcatPrefix ==
  ASSUME NEW p \in Seq(Int), NEW q \in Seq(Int)
  PROVE  /\ Len(p \o q) = Len(p) + Len(q) /\ Len(q) \in Nat /\ Len(p) <= Len(p \o q)
         /\ p = SubSeq(p \o q, 1, Len(p))
<1> DEFINE all == p \o q
           s == SubSeq(all, 1, Len(p))
<1>1. /\ all \in Seq(Int) /\ Len(all) = Len(p) + Len(q) /\ Len(q) \in Nat /\ Len(p) \in Nat
      /\ \A k \in 1..Len(p) : all[k] = p[k]
  OBVIOUS
<1> HIDE DEF all
<1>2. /\ Len(p) <= Len(all) /\ s \in Seq(Int) /\ Len(s) = Len(p)
      /\ \A k \in 1..Len(p) : s[k] = all[k]
  <2>1. Len(p) <= Len(all) /\ 1 \in 1..Len(all) + 1
    BY <1>1
  <2> QED BY <1>1, <2>1
<1> HIDE DEF s
<1>3. p = s
  BY <1>1, <1>2, SeqEq
<1> QED BY <1>1, <1>2, <1>3 DEF s, all

LEMMA IdsInState ==
  ASSUME NEW m \in Sessions, NEW s
  PROVE  InState(m, s) \subseteq WaitIds(m.pending)
BY StateIds, WaitIdsIs, SessionHas

(* One more message: none that waits, unless it stops waiting.               *)
LEMMA TellOne ==
  ASSUME NEW ms \in Seq(Int), NEW p \in Seq(Waiting), NEW v \in Int, NEW d, NEW W,
         ToldIn(ms, W), HeldIn(p, W), Apart(ms, p),
         v \notin Inputs \/ (v \in WaitIds(p) /\ v \in ToSet(d))
  PROVE  /\ ms \o <<v>> = Append(ms, v)
         /\ ToldIn(Append(ms, v), W) /\ HeldIn(Without(p, d), W)
         /\ Apart(Append(ms, v), Without(p, d))
         /\ WaitIds(Without(p, d)) \subseteq WaitIds(p)
<1>1. HeldIn(Without(p, d), W) /\ WaitIds(Without(p, d)) = WaitIds(p) \ ToSet(d)
  BY HeldWithout
<1>2. v \in Inputs => v \notin ToSet(ms) /\ v \in W
  BY DEF Apart, HeldIn
<1>3. ToldIn(Append(ms, v), W) /\ ToSet(Append(ms, v)) = ToSet(ms) \cup {v}
  BY <1>2, ToldMore
<1>4. WaitIds(p) \subseteq Inputs
  BY WaitIdsIs
<1>5. Apart(Append(ms, v), Without(p, d))
  BY <1>1, <1>3, <1>4 DEF Apart
<1>6. ms \o <<v>> = Append(ms, v)
  <2> DEFINE a == ms \o <<v>>
             b == Append(ms, v)
  <2>1. a \in Seq(Int) /\ b \in Seq(Int) /\ Len(a) = Len(b) /\ Len(b) = Len(ms) + 1
        /\ Len(ms) \in Nat
    OBVIOUS
  <2>2. \A k \in 1..(Len(ms) + 1) : a[k] = b[k]
    OBVIOUS
  <2> HIDE DEF a, b
  <2> QED BY <2>1, <2>2, SeqEq DEF a, b
<1> QED BY <1>1, <1>3, <1>5, <1>6

LEMMA ReceivedSound ==
  ASSUME NEW m \in Sessions, NEW i \in Inputs, NEW root \in BOOLEAN, NEW c, NEW W,
         SoundIn(Seen(m), W), i \notin W
  PROVE  /\ SoundIn(Seen(Received(m, i, root, c)), W \cup {i})
         /\ WaitIds(Received(m, i, root, c).pending) \subseteq WaitIds(m.pending) \cup {i}
<1> DEFINE ms == m.msgs \o m.undelivered
           rest == Without(m.pending, c)
           V == W \cup {i}
           n == Received(m, i, root, c)
<1>1. /\ m.msgs \in Seq(Int) /\ m.pending \in Seq(Waiting) /\ m.undelivered \in Seq(Int)
      /\ ms \in Seq(Int) /\ i \in Int
  <2>1. i \in Int
    BY InputsAssumption
  <2> QED BY <2>1, MessagesAre
<1>2. ToldIn(ms, W) /\ HeldIn(m.pending, W) /\ Apart(ms, m.pending)
  BY SeenParts
<1>3. HeldIn(rest, W) /\ WaitIds(rest) = WaitIds(m.pending) \ ToSet(c) /\ rest \in Seq(Waiting)
  BY <1>1, <1>2, HeldWithout, WithoutIs
<1>4. i \notin ToSet(ms) /\ i \notin WaitIds(m.pending) /\ i \in V /\ W \subseteq V
  BY <1>2 DEF ToldIn, HeldIn
<1>5. CASE root
  <2>1. root = TRUE
    BY <1>5
  <2>2. n = [msgs |-> m.msgs, pending |-> rest, undelivered |-> Append(m.undelivered, i),
             turn |-> m.turn, starts |-> m.starts]
        /\ n \in Sessions
    BY <2>1, ReceivedIs
  <2>3. ToldIn(Append(ms, i), V) /\ ToSet(Append(ms, i)) = ToSet(ms) \cup {i}
    <3> HIDE DEF ms, V
    <3> QED BY <1>1, <1>2, <1>4, ToldMore
  <2>4. Append(ms, i) = m.msgs \o Append(m.undelivered, i)
    BY <1>1, ConcatAppend
  <2> HIDE DEF n, ms, rest
  <2>5. n.pending = rest /\ n.msgs \o n.undelivered = Append(ms, i)
    BY <2>2, <2>4
  <2>6. HeldIn(rest, V) /\ Apart(Append(ms, i), rest)
    BY <1>2, <1>3, <1>4, <2>3 DEF HeldIn, Apart
  <2>7. SoundIn(Seen(n), V)
    BY <2>2, <2>3, <2>5, <2>6, SeenParts
  <2> QED BY <1>3, <2>5, <2>7 DEF n
<1>6. CASE ~root
  <2> DEFINE w == [id |-> i, state |-> "queued"]
  <2>1. root = FALSE
    BY <1>6
  <2>2. n = [msgs |-> m.msgs, pending |-> Append(rest, w), undelivered |-> m.undelivered,
             turn |-> m.turn, starts |-> m.starts]
        /\ n \in Sessions
    BY <2>1, ReceivedIs
  <2>3. w \in Waiting /\ w.id = i
    BY DEF Waiting
  <2> HIDE DEF n, rest, w, V
  <2>4. HeldIn(Append(rest, w), V) /\ WaitIds(Append(rest, w)) = WaitIds(rest) \cup {i}
    BY <1>3, <1>4, <2>3, HeldMore
  <2>5. n.pending = Append(rest, w) /\ n.msgs \o n.undelivered = ms
    BY <2>2
  <2> HIDE DEF ms
  <2>6. ToldIn(ms, V) /\ Apart(ms, Append(rest, w))
    BY <1>2, <1>3, <1>4, <2>4 DEF ToldIn, Apart
  <2>7. SoundIn(Seen(n), V)
    BY <2>2, <2>4, <2>5, <2>6, SeenParts
  <2> QED BY <1>3, <2>4, <2>5, <2>7 DEF n, V
<1> QED BY <1>5, <1>6

LEMMA SteppedSound ==
  ASSUME NEW m \in Sessions, m.undelivered = <<>>, NEW W, SoundIn(Seen(m), W),
         NEW d \in {<<>>} \cup {<<q>> : q \in InState(m, "queued")}
  PROVE  /\ SoundIn(Seen(Stepped(m, d)), W)
         /\ WaitIds(Stepped(m, d).pending) \subseteq WaitIds(m.pending)
<1> DEFINE ms == IF d = <<>> THEN <<Reply>> ELSE d
           n == Stepped(m, d)
<1>1. /\ m.msgs \in Seq(Int) /\ m.pending \in Seq(Waiting) /\ m.msgs \o m.undelivered = m.msgs
  BY MessagesAre
<1>2. ToldIn(m.msgs, W) /\ HeldIn(m.pending, W) /\ Apart(m.msgs, m.pending)
  BY <1>1, SeenParts
<1>3. d \in Seq(Int)
  BY InStateIs
<1>4. PICK v \in Int : /\ ms = <<v>>
                       /\ v \notin Inputs \/ (v \in WaitIds(m.pending) /\ v \in ToSet(d))
  <2>1. CASE d = <<>>
    <3>1. Reply \in Int /\ Reply \notin Inputs
      BY InputsAssumption DEF Reply
    <3> QED BY <2>1, <3>1
  <2>2. CASE d # <<>>
    <3>1. PICK q \in InState(m, "queued") : d = <<q>>
      BY <2>2
    <3>2. q \in Inputs /\ q \in WaitIds(m.pending)
      BY InStateIs, IdsInState
    <3>3. q \in Int /\ q \in ToSet(d)
      BY <3>1, <3>2, InputsAssumption DEF ToSet
    <3> QED BY <2>2, <3>1, <3>2, <3>3
  <2> QED BY <2>1, <2>2
<1>5. n = [msgs |-> m.msgs \o ms, pending |-> Without(m.pending, d), undelivered |-> m.undelivered,
           turn |-> m.turn, starts |-> m.starts]
      /\ n \in Sessions
  BY <1>3, SteppedIs
<1> HIDE DEF ms, n
<1>6. /\ m.msgs \o <<v>> = Append(m.msgs, v)
      /\ ToldIn(Append(m.msgs, v), W) /\ HeldIn(Without(m.pending, d), W)
      /\ Apart(Append(m.msgs, v), Without(m.pending, d))
      /\ WaitIds(Without(m.pending, d)) \subseteq WaitIds(m.pending)
  BY <1>1, <1>2, <1>4, TellOne
<1>7. n.msgs = Append(m.msgs, v) /\ n.undelivered = <<>> /\ n.pending = Without(m.pending, d)
  BY <1>4, <1>5, <1>6
<1>8. n.msgs \o n.undelivered = n.msgs
  BY <1>5, <1>7, MessagesAre
<1>9. SoundIn(Seen(n), W)
  BY <1>5, <1>6, <1>7, <1>8, SeenParts
<1> QED BY <1>6, <1>7, <1>9 DEF n

LEMMA StartedSound ==
  ASSUME NEW m \in Sessions, NEW t \in 1..MaxLines, NEW root \in Inputs \cup {NoInput}, NEW W,
         SoundIn(Seen(m), W), NEW d \in {<<>>} \cup {<<q>> : q \in InState(m, "queued")},
         \/ root = NoInput /\ m.undelivered = <<>>
         \/ root # NoInput /\ m.undelivered = <<root>> /\ d = <<>>
  PROVE  /\ SoundIn(HalfStarted(m, t, root), W) /\ SoundIn(Seen(Started(m, t, root, d)), W)
         /\ WaitIds(Started(m, t, root, d).pending) \subseteq WaitIds(m.pending)
<1> DEFINE all == m.msgs \o m.undelivered
           mark == [turn |-> t, at |-> Len(m.msgs), root |-> root]
           h == HalfStarted(m, t, root)
           n == Started(m, t, root, d)
           told == m.msgs \o Carried(root, d)
<1>1. /\ m.msgs \in Seq(Int) /\ m.pending \in Seq(Waiting) /\ m.undelivered \in Seq(Int)
      /\ all \in Seq(Int) /\ (m.undelivered = <<>> => all = m.msgs)
      /\ m.starts \in Seq(Mark) /\ Len(m.msgs) \in Nat
  <2>1. m.starts \in Seq(Mark) /\ m.msgs \in Seq(Int)
    BY SessionHas
  <2>2. Len(m.msgs) \in Nat
    BY <2>1
  <2> QED BY <2>1, <2>2, MessagesAre
<1>2. ToldIn(all, W) /\ HeldIn(m.pending, W) /\ Apart(all, m.pending)
  BY SeenParts
<1>3. d \in Seq(Int)
  BY InStateIs
<1>4. /\ n = [msgs |-> told, pending |-> Without(m.pending, d),
              undelivered |-> <<>>, turn |-> t, starts |-> Append(m.starts, mark)]
      /\ h = [msgs |-> m.msgs, pending |-> m.pending, undelivered |-> <<>>, turn |-> t,
              starts |-> Append(m.starts, mark)]
      /\ n \in Sessions
  BY <1>3, StartedIs
<1>5. Append(m.starts, mark) \in Seq(Mark)
  <2>1. mark \in Mark
    BY <1>1 DEF Mark
  <2> QED BY <1>1, <2>1
<1> HIDE DEF h, n, mark, all, told
<1>6. h \in Sessions /\ h.msgs = m.msgs /\ h.pending = m.pending
  BY <1>1, <1>4, <1>5 DEF Sessions
<1>7. ToldIn(m.msgs, W) /\ Apart(m.msgs, m.pending)
  <2>1. CASE m.undelivered = <<>>
    BY <1>1, <1>2, <2>1
  <2>2. CASE m.undelivered # <<>>
    <3>1. /\ Len(all) = Len(m.msgs) + Len(m.undelivered) /\ Len(m.undelivered) \in Nat
          /\ m.msgs = SubSeq(all, 1, Len(m.msgs)) /\ Len(m.msgs) <= Len(all)
      BY <1>1, ConcatPrefix DEF all
    <3>2. ToldIn(SubSeq(all, 1, Len(m.msgs)), W) /\ ToSet(SubSeq(all, 1, Len(m.msgs))) \subseteq ToSet(all)
      BY <1>1, <1>2, <3>1, ToldPrefix
    <3>3. ToldIn(m.msgs, W) /\ ToSet(m.msgs) \subseteq ToSet(all)
      BY <3>1, <3>2
    <3> QED BY <1>2, <3>3 DEF Apart
  <2> QED BY <2>1, <2>2
<1>8. SoundIn(h, W)
  BY <1>2, <1>6, <1>7, SoundParts
<1>9. /\ ToldIn(told, W) /\ HeldIn(Without(m.pending, d), W)
      /\ Apart(told, Without(m.pending, d))
      /\ WaitIds(Without(m.pending, d)) \subseteq WaitIds(m.pending)
  <2>1. CASE root = NoInput
    <3>1. all = m.msgs
      BY <1>1, <2>1
    <3>2. PICK v \in Int : /\ Carried(root, d) = <<v>>
                           /\ v \notin Inputs \/ (v \in WaitIds(m.pending) /\ v \in ToSet(d))
      <4>1. CASE d = <<>>
        <5>1. Note \in Int /\ Note \notin Inputs
          BY InputsAssumption DEF Note
        <5> QED BY <2>1, <4>1, <5>1 DEF Carried
      <4>2. CASE d # <<>>
        <5>1. PICK q \in InState(m, "queued") : d = <<q>>
          BY <4>2
        <5>2. q \in Inputs /\ q \in WaitIds(m.pending)
          BY InStateIs, IdsInState
        <5>3. q \in Int /\ q \in ToSet(d)
          BY <5>1, <5>2, InputsAssumption DEF ToSet
        <5>4. Carried(root, d) = <<q>>
          BY <2>1, <4>2, <5>1 DEF Carried
        <5> QED BY <5>2, <5>3, <5>4
      <4> QED BY <4>1, <4>2
    <3>3. told = Append(m.msgs, v)
      BY <1>1, <1>2, <1>7, <3>2, TellOne DEF told
    <3> QED BY <1>1, <1>2, <1>7, <3>2, <3>3, TellOne
  <2>2. CASE root # NoInput
    <3>1. m.undelivered = <<root>> /\ d = <<>> /\ root \in Int
      BY <2>2, InputsAssumption
    <3>2. Carried(root, d) = <<root>>
      <4>1. <<root>> \o <<>> = <<root>>
        <5>1. <<root>> \in Seq(Int)
          BY <3>1
        <5> QED BY <5>1, ConcatNone
      <4> QED BY <2>2, <3>1, <4>1 DEF Carried
    <3>3. told = all
      BY <3>1, <3>2 DEF told, all
    <3>4. Without(m.pending, d) = m.pending
      BY <1>1, <3>1, WithoutNone
    <3> QED BY <1>2, <3>3, <3>4
  <2> QED BY <2>1, <2>2
<1>10. n.msgs = told /\ n.undelivered = <<>> /\ n.pending = Without(m.pending, d)
  BY <1>4
<1>11. n.msgs \o n.undelivered = n.msgs
  BY <1>4, <1>10, MessagesAre
<1>12. SoundIn(Seen(n), W)
  BY <1>4, <1>9, <1>10, <1>11, SeenParts
<1> QED BY <1>8, <1>9, <1>10, <1>12 DEF h, n

LEMMA EndedSound ==
  ASSUME NEW m \in Sessions, NEW W, SoundIn(Seen(m), W)
  PROVE  SoundIn(Seen(Ended(m)), W) /\ Ended(m).pending = m.pending
<1> DEFINE n == Ended(m)
<1>1. n = [msgs |-> m.msgs, pending |-> m.pending, undelivered |-> m.undelivered,
           turn |-> NoTurn, starts |-> m.starts]
      /\ n \in Sessions
  BY EndedIs
<1> HIDE DEF n
<1>2. n.msgs = m.msgs /\ n.pending = m.pending /\ n.undelivered = m.undelivered
  BY <1>1
<1>3. ToldIn(n.msgs \o n.undelivered, W) /\ HeldIn(n.pending, W)
      /\ Apart(n.msgs \o n.undelivered, n.pending)
  BY <1>2, SeenParts
<1>4. SoundIn(Seen(n), W)
  BY <1>1, <1>3, SeenParts
<1> QED BY <1>2, <1>4 DEF n

LEMMA CompactedSound ==
  ASSUME NEW m \in Sessions, m.undelivered = <<>>, NEW W, SoundIn(Seen(m), W)
  PROVE  SoundIn(Seen(Compacted(m)), W) /\ Compacted(m).pending = m.pending
<1> DEFINE n == Compacted(m)
<1>1. n = [msgs |-> <<Summary>>, pending |-> m.pending, undelivered |-> m.undelivered,
           turn |-> m.turn, starts |-> <<>>]
      /\ n \in Sessions
  BY CompactedIs
<1> HIDE DEF n
<1>2. n.msgs = <<Summary>> /\ n.pending = m.pending /\ n.undelivered = <<>>
  BY <1>1
<1>3. n.msgs \o n.undelivered = <<Summary>>
  BY <1>1, <1>2, MessagesAre
<1>4. ToSet(<<Summary>>) = {Summary} /\ Summary \notin Inputs
  BY InputsAssumption DEF ToSet, Summary
<1>5. WaitIds(m.pending) \subseteq Inputs /\ HeldIn(m.pending, W)
  BY SessionHas, WaitIdsIs, SeenParts
<1>6. ToldIn(<<Summary>>, W) /\ Apart(<<Summary>>, m.pending)
  BY <1>4, <1>5 DEF ToldIn, Apart
<1>7. SoundIn(Seen(n), W)
  BY <1>1, <1>2, <1>3, <1>5, <1>6, SeenParts
<1> QED BY <1>2, <1>7 DEF n

LEMMA ReplacedSound ==
  ASSUME NEW m \in Sessions, m.undelivered = <<>>, NEW ms \in Seq(Int), NEW W,
         HeldIn(m.pending, W), ToldIn(ms, W), Apart(ms, m.pending)
  PROVE  /\ SoundIn(Seen(Replaced(m, ms)), W) /\ Replaced(m, ms).pending = m.pending
         /\ SoundIn(Replaced(m, ms), W) /\ Replaced(m, ms).msgs = ms
<1> DEFINE n == Replaced(m, ms)
<1>1. n = [msgs |-> ms, pending |-> m.pending, undelivered |-> m.undelivered, turn |-> NoTurn,
           starts |-> StartsWithin(m, ms)]
      /\ n \in Sessions
  BY ReplacedIs
<1> HIDE DEF n
<1>2. n.msgs = ms /\ n.pending = m.pending /\ n.undelivered = <<>>
  BY <1>1
<1>3. n.msgs \o n.undelivered = ms
  BY <1>1, <1>2, MessagesAre
<1>4. n \in Sessions
  BY <1>1
<1>5. SoundIn(Seen(n), W) <=> ToldIn(ms, W) /\ HeldIn(m.pending, W) /\ Apart(ms, m.pending)
  BY <1>2, <1>3, <1>4, SeenParts
<1>6. SoundIn(n, W) <=> ToldIn(ms, W) /\ HeldIn(m.pending, W) /\ Apart(ms, m.pending)
  BY <1>2, <1>4, SoundParts
<1> QED BY <1>2, <1>5, <1>6 DEF n

LEMMA RolledBackSound ==
  ASSUME NEW m \in Sessions, m.undelivered = <<>>, NEW s \in ToSet(m.starts),
         s.at < Len(m.msgs), NEW W, SoundIn(Seen(m), W)
  PROVE  /\ SoundIn(Seen(RolledBack(m, s)), W) /\ RolledBack(m, s).pending = m.pending
         /\ SoundIn(RolledBack(m, s), W)
<1> DEFINE ms == SubSeq(m.msgs, 1, s.at)
<1>1. /\ m.msgs \in Seq(Int) /\ m.starts \in Seq(Mark) /\ m.msgs \o m.undelivered = m.msgs
  BY MessagesAre, SessionHas
<1>2. ToldIn(m.msgs, W) /\ HeldIn(m.pending, W) /\ Apart(m.msgs, m.pending)
  BY <1>1, SeenParts
<1>3. s.at \in Nat
  <2>1. s \in Mark
    BY <1>1 DEF ToSet
  <2> QED BY <2>1 DEF Mark
<1>4. ms \in Seq(Int)
  BY RolledBackIs
<1>5. s.at <= Len(m.msgs)
  BY <1>1, <1>3
<1>6. ToldIn(ms, W) /\ ToSet(ms) \subseteq ToSet(m.msgs)
  BY <1>1, <1>2, <1>3, <1>5, ToldPrefix
<1> HIDE DEF ms
<1>7. Apart(ms, m.pending)
  BY <1>2, <1>6 DEF Apart
<1>8. RolledBack(m, s) = Replaced(m, ms)
  BY DEF RolledBack, ms
<1> QED BY <1>2, <1>4, <1>6, <1>7, <1>8, ReplacedSound

LEMMA EditedSound ==
  ASSUME NEW m \in Sessions, m.undelivered = <<>>, m.pending = <<>>, NEW s \in ToSet(m.starts),
         s.at < Len(m.msgs), NEW i \in Inputs, NEW W, SoundIn(Seen(m), W), i \notin W
  PROVE  SoundIn(Seen(Edited(m, s, i)), W \cup {i}) /\ Edited(m, s, i).pending = <<>>
<1> DEFINE r == RolledBack(m, s)
           n == Edited(m, s, i)
           V == W \cup {i}
<1>1. n = [msgs |-> r.msgs, pending |-> <<>>, undelivered |-> <<i>>, turn |-> r.turn,
           starts |-> r.starts]
      /\ n \in Sessions
  BY EditedIs
<1>2. r \in Sessions /\ SoundIn(r, W) /\ r.pending = <<>>
  BY RolledBackIs, RolledBackSound
<1> HIDE DEF n, r
<1>3. r.msgs \in Seq(Int) /\ ToldIn(r.msgs, W)
  BY <1>2, SoundParts, MessagesAre
<1>4. i \notin ToSet(r.msgs) /\ i \in Int /\ W \subseteq V /\ i \in V
  BY <1>3, InputsAssumption DEF ToldIn
<1>5. ToldIn(Append(r.msgs, i), V)
  <2> HIDE DEF V
  <2> QED BY <1>3, <1>4, ToldMore
<1>6. r.msgs \o <<i>> = Append(r.msgs, i)
  <2>1. <<>> \in Seq(Int) /\ Append(<<>>, i) = <<i>>
    BY <1>4
  <2>2. r.msgs \o <<>> = r.msgs
    BY <1>3, ConcatNone
  <2>3. Append(r.msgs \o <<>>, i) = r.msgs \o Append(<<>>, i)
    BY <1>3, <1>4, <2>1, ConcatAppend
  <2> QED BY <2>1, <2>2, <2>3
<1>7. n.msgs \o n.undelivered = Append(r.msgs, i) /\ n.pending = <<>>
  BY <1>1, <1>6
<1>8. HeldIn(<<>>, V) /\ Apart(Append(r.msgs, i), <<>>)
  BY DEF HeldIn, WaitIds, Apart
<1>9. SoundIn(Seen(n), V)
  BY <1>1, <1>5, <1>7, <1>8, SeenParts
<1> QED BY <1>7, <1>9 DEF n, V

LEMMA DiscardedSound ==
  ASSUME NEW m \in Sessions, NEW ids, NEW W, SoundIn(Seen(m), W)
  PROVE  /\ SoundIn(Seen(Discarded(m, ids)), W)
         /\ WaitIds(Discarded(m, ids).pending) \subseteq WaitIds(m.pending)
<1> DEFINE n == Discarded(m, ids)
<1>1. n = [msgs |-> m.msgs, pending |-> Without(m.pending, ids), undelivered |-> m.undelivered,
           turn |-> m.turn, starts |-> m.starts]
      /\ n \in Sessions
  BY DiscardedIs
<1> HIDE DEF n
<1>2. n.msgs = m.msgs /\ n.pending = Without(m.pending, ids) /\ n.undelivered = m.undelivered
  BY <1>1
<1>3. /\ m.pending \in Seq(Waiting) /\ ToldIn(m.msgs \o m.undelivered, W) /\ HeldIn(m.pending, W)
      /\ Apart(m.msgs \o m.undelivered, m.pending)
  BY SeenParts, SessionHas
<1>4. /\ HeldIn(Without(m.pending, ids), W)
      /\ WaitIds(Without(m.pending, ids)) \subseteq WaitIds(m.pending)
  BY <1>3, HeldWithout
<1>5. Apart(m.msgs \o m.undelivered, Without(m.pending, ids))
  BY <1>3, <1>4 DEF Apart
<1>6. SoundIn(Seen(n), W)
  BY <1>1, <1>2, <1>3, <1>4, <1>5, SeenParts
<1> QED BY <1>2, <1>4, <1>6 DEF n

LEMMA RestoredSound ==
  ASSUME NEW m \in Sessions, NEW i, NEW W, SoundIn(Seen(m), W)
  PROVE  /\ SoundIn(Seen(Restored(m, i)), W)
         /\ WaitIds(Restored(m, i).pending) = WaitIds(m.pending)
<1> DEFINE n == Restored(m, i)
<1>1. n \in Sessions /\ n.msgs = m.msgs /\ n.undelivered = m.undelivered
  <2>1. n = [msgs |-> m.msgs,
             pending |-> [k \in DOMAIN m.pending |->
                            IF m.pending[k].id = i
                            THEN [m.pending[k] EXCEPT !.state = "restored"]
                            ELSE m.pending[k]],
             undelivered |-> m.undelivered, turn |-> m.turn, starts |-> m.starts]
    BY RestoredIs
  <2>2. n \in Sessions
    BY RestoredIs
  <2> HIDE DEF n
  <2> QED BY <2>1, <2>2
<1>2. /\ ToldIn(m.msgs \o m.undelivered, W) /\ HeldIn(m.pending, W)
      /\ Apart(m.msgs \o m.undelivered, m.pending)
  BY SeenParts
<1>3. HeldIn(n.pending, W) /\ WaitIds(n.pending) = WaitIds(m.pending)
  BY <1>2, HeldRestored
<1> HIDE DEF n
<1>4. Apart(m.msgs \o m.undelivered, n.pending)
  BY <1>2, <1>3 DEF Apart
<1>5. SoundIn(Seen(n), W)
  BY <1>1, <1>2, <1>3, <1>4, SeenParts
<1> QED BY <1>3, <1>5 DEF n

LEMMA RecoveredSound ==
  ASSUME NEW m \in Sessions, NEW W, SoundIn(m, W)
  PROVE  SoundIn(Seen(Recovered(m)), W)
<1> DEFINE n == Recovered(m)
<1>1. n = [msgs |-> Append(m.msgs, Aborted), pending |-> m.pending, undelivered |-> <<>>,
           turn |-> NoTurn, starts |-> StartsWithin(m, Append(m.msgs, Aborted))]
      /\ n \in Sessions
  BY RecoveredIs
<1> HIDE DEF n
<1>2. n.msgs = Append(m.msgs, Aborted) /\ n.pending = m.pending /\ n.undelivered = <<>>
  BY <1>1
<1>3. n.msgs \o n.undelivered = n.msgs
  BY <1>1, <1>2, MessagesAre
<1>4. /\ m.msgs \in Seq(Int) /\ m.pending \in Seq(Waiting)
      /\ ToldIn(m.msgs, W) /\ HeldIn(m.pending, W) /\ Apart(m.msgs, m.pending)
  BY SoundParts, SessionHas
<1>5. Aborted \in Int /\ Aborted \notin Inputs
  BY InputsAssumption DEF Aborted
<1>6. ToldIn(Append(m.msgs, Aborted), W) /\ ToSet(Append(m.msgs, Aborted)) = ToSet(m.msgs) \cup {Aborted}
  BY <1>4, <1>5, ToldMore
<1>7. Apart(Append(m.msgs, Aborted), m.pending)
  BY <1>4, <1>5, <1>6, WaitIdsIs DEF Apart
<1>8. SoundIn(Seen(n), W)
  BY <1>1, <1>2, <1>3, <1>4, <1>6, <1>7, SeenParts
<1> QED BY <1>8 DEF n

-----------------------------------------------------------------------------
(* Every operation leaves the file sound, and a rollback can be taken back.   *)

Told == Accepted(lines, Len(lines))

(* What a rollback would bring back has been told, and does not wait.         *)
UndoInv == Whole /\ undo # <<>> => ToldIn(undo, Told) /\ Apart(undo, mem.pending)

(* What is in memory is sound if the file is.                                *)
LEMMA HereSound ==
  ASSUME IInv, AllSound(lines)
  PROVE  /\ stage = "up" /\ Whole => SoundIn(Seen(mem), Told)
         /\ stage = "loaded" => Whole /\ SoundIn(mem, Told)
<1>1. FileInv /\ TruthInv /\ Good(lines) /\ mem \in Sessions /\ leaf \in 1..Len(lines)
      /\ Len(lines) \in Nat
  BY HereIs DEF IInv, FileInv
<1>2. ASSUME Whole, NEW n \in 1..Len(lines) PROVE SoundIn(Replay(Chains(lines)[n]), Told)
  <2>1. TornFree(lines, n)
    <3>1. \A j \in 1..n : j \in DOMAIN lines
      BY <1>1, GoodIs
    <3> QED BY <1>2, <3>1 DEF Whole, TornFree, ToSet
  <2>2. SoundIn(Replay(Chains(lines)[n]), Accepted(lines, n))
    BY <1>2, <2>1 DEF AllSound
  <2>3. Accepted(lines, n) \subseteq Told
    <3>1. 1..n \subseteq 1..Len(lines)
      BY <1>1
    <3> QED BY <3>1 DEF Accepted, Told
  <2> QED BY <2>2, <2>3, SoundMore
<1>3. ASSUME stage = "up", Whole PROVE SoundIn(Seen(mem), Told)
  <2>1. Replay(Here) = Seen(mem)
    BY <1>1, <1>3 DEF TruthInv
  <2>2. SoundIn(Replay(Here), Told)
    BY <1>1, <1>2, <1>3 DEF Here
  <2> QED BY <2>1, <2>2
<1>4. ASSUME stage = "loaded" PROVE Whole /\ SoundIn(mem, Told)
  <2>1. Whole /\ mem = found /\ found = Loaded(lines) /\ leaf = Len(lines)
    BY <1>1, <1>4 DEF TruthInv, FileInv
  <2>2. Loaded(lines) = Replay(Chains(lines)[Len(lines)])
    <3>1. Torn \notin ToSet(lines)
      BY <2>1 DEF Whole
    <3> QED BY <1>1, <3>1, LoadedIs
  <2>3. SoundIn(Replay(Chains(lines)[leaf]), Told)
    BY <1>1, <1>2, <2>1
  <2> QED BY <2>1, <2>2, <2>3
<1> QED BY <1>3, <1>4

(* What a reopening finds has no input twice.                                *)
LEMMA NothingSingle == Single(Nothing)
BY DEF Single, Nothing, EmptySession

LEMMA RepairedSound ==
  ASSUME NEW ls, Good(ls), AllSound(ls)
  PROVE  AllSound(Repaired(ls))
<1>1. CASE Last(ls) = Torn
  <2>1. Len(ls) \in Nat /\ Len(ls) >= 1 /\ ls[1] # Torn
    BY GoodIs
  <2>2. Len(ls) > 1
    BY <1>1, <2>1 DEF Last
  <2> QED BY <1>1, <2>2, SoundFront DEF Repaired
<1>2. CASE Last(ls) # Torn
  BY <1>2 DEF Repaired
<1> QED BY <1>1, <1>2

LEMMA FoundSound ==
  ASSUME IInv, AllSound(lines)
  PROVE  NoDouble
<1>1. Good(lines) /\ found = Loaded(lines)
  BY DEF IInv, FileInv
<1>2. CASE Loaded(lines) = Nothing
  BY <1>1, <1>2, NothingSingle DEF NoDouble
<1>3. CASE Loaded(lines) # Nothing
  <2> DEFINE ls == Repaired(lines)
  <2>1. /\ Good(ls) /\ Torn \notin ToSet(ls) /\ Loaded(ls) = Loaded(lines)
    BY <1>1, <1>3, RepairedIs
  <2>2. AllSound(ls)
    BY <1>1, <1>3, RepairedSound
  <2> HIDE DEF ls
  <2>3. Loaded(ls) = Replay(Chains(ls)[Len(ls)])
    BY <2>1, LoadedIs
  <2>4. Len(ls) \in 1..Len(ls) /\ DOMAIN ls = 1..Len(ls)
    BY <2>1, GoodIs
  <2>5. TornFree(ls, Len(ls))
    BY <2>1, <2>4 DEF TornFree, ToSet
  <2>6. SoundIn(Replay(Chains(ls)[Len(ls)]), Accepted(ls, Len(ls)))
    BY <2>2, <2>4, <2>5 DEF AllSound
  <2> QED BY <1>1, <2>1, <2>3, <2>6 DEF SoundIn, NoDouble
<1> QED BY <1>2, <1>3

(* What a write carries on.                                                  *)
LEMMA CarriedOn ==
  ASSUME AllSound(lines), NEW halves, NEW m, NEW ids, Carries(halves, m, ids),
         Whole => (\A x \in halves : SoundIn(x, Told)) /\ SoundIn(Seen(m), Told \cup ids)
  PROVE  AllSound(lines')
BY DEF Carries, Told

(* What may be taken back stays so when others only begin to wait after it    *)
(* was told.                                                                *)
LEMMA UndoStays ==
  ASSUME UndoInv, Grown, undo' \in {<<>>, undo}, NEW new, new \subseteq Inputs,
         Whole => new \cap Told = {},
         WaitIds(mem'.pending) \subseteq WaitIds(mem.pending) \cup new
  PROVE  UndoInv'
<1> SUFFICES ASSUME Whole', undo' # <<>>
             PROVE  ToldIn(undo', Told') /\ Apart(undo', mem'.pending)
  BY DEF UndoInv
<1>1. undo' = undo /\ Whole /\ Told \subseteq Told'
  BY DEF Grown, Told
<1>2. ToldIn(undo, Told) /\ Apart(undo, mem.pending) /\ new \cap Told = {}
  BY <1>1 DEF UndoInv
<1>3. ToldIn(undo, Told')
  BY <1>1, <1>2 DEF ToldIn
<1>4. Apart(undo, mem'.pending)
  BY <1>2 DEF Apart, ToldIn
<1> QED BY <1>1, <1>3, <1>4

LEMMA NoUndo == undo' = <<>> => UndoInv'
BY DEF UndoInv

LEMMA KeepsMem ==
  ASSUME NEW m, NEW halves, NEW next, Keeps(m, halves, next)
  PROVE  mem' = m \/ mem' = mem
BY DEF Keeps

LEMMA FreshNotTold ==
  ASSUME IInv, NEW i \in Inputs, Fresh(i)
  PROVE  i \notin Told
<1>1. ~WrittenIn(lines, i) /\ Good(lines)
  BY FreshIs DEF IInv, FileInv
<1>2. DOMAIN lines = 1..Len(lines)
  BY <1>1, GoodIs
<1> QED BY <1>1, <1>2 DEF WrittenIn, Told, Accepted

LEMMA UserInputSound ==
  ASSUME IInv, AllSound(lines), UndoInv, NEW i \in Inputs, NEW c \in Drafts,
         RecordUserInput(i, c), found' = Loaded(lines')
  PROVE  AllSound(lines') /\ UndoInv'
<1> DEFINE root == caller = "idle"
           m == Received(mem, i, root, c)
<1>1. SameUndo /\ stage = "up" /\ Keeps(m, {}, "up") /\ Carries({}, m, {i}) /\ mem \in Sessions
  BY UserInputKeeps, HereIs
<1>2. i \notin Told
  BY FreshNotTold DEF RecordUserInput, IsNext
<1>3. ASSUME Whole
      PROVE  /\ SoundIn(Seen(m), Told \cup {i})
             /\ WaitIds(m.pending) \subseteq WaitIds(mem.pending) \cup {i}
  <2>1. SoundIn(Seen(mem), Told) /\ root \in BOOLEAN
    BY <1>1, <1>3, HereSound
  <2> HIDE DEF root
  <2> QED BY <1>1, <1>2, <2>1, ReceivedSound
<1> HIDE DEF m
<1>4. AllSound(lines')
  BY <1>1, <1>3, CarriedOn
<1>5. UndoInv'
  <2>1. Grown /\ undo' \in {<<>>, undo} /\ (mem' = m \/ mem' = mem)
    BY <1>1, KeepsMem DEF Carries, SameUndo
  <2>2. CASE Whole
    <3>1. WaitIds(mem'.pending) \subseteq WaitIds(mem.pending) \cup {i}
      BY <1>3, <2>1, <2>2
    <3>2. {i} \subseteq Inputs /\ {i} \cap Told = {}
      BY <1>2
    <3> QED BY <2>1, <3>1, <3>2, UndoStays
  <2>3. CASE ~Whole
    BY <2>1, <2>3 DEF Grown, UndoInv
  <2> QED BY <2>2, <2>3
<1> QED BY <1>4, <1>5

LEMMA TurnStartSound ==
  ASSUME IInv, AllSound(lines), UndoInv, NEW root \in Inputs \cup {NoInput},
         root \in ToSet(mem.undelivered) \cup {NoInput},
         NEW d \in {<<>>} \cup {<<q>> : q \in Queued}, root # NoInput => d = <<>>,
         RecordTurnStart(root, d), found' = Loaded(lines')
  PROVE  AllSound(lines') /\ UndoInv'
<1> DEFINE t == NextLine
           half == HalfStarted(mem, t, root)
           m == Started(mem, t, root, d)
<1>1. /\ SameUndo /\ stage = "up" /\ t \in 1..MaxLines /\ Carries({half}, m, {})
      /\ \/ root = NoInput /\ mem.undelivered = <<>>
         \/ root # NoInput /\ mem.undelivered = <<root>>
      /\ undo = <<>>
  BY TurnStartKeeps
<1>2. mem \in Sessions
  BY HereIs
<1>3. ASSUME Whole PROVE SoundIn(half, Told) /\ SoundIn(Seen(m), Told)
  <2>1. SoundIn(Seen(mem), Told) /\ d \in {<<>>} \cup {<<q>> : q \in InState(mem, "queued")}
    BY <1>1, <1>3, HereSound DEF Queued
  <2> HIDE DEF t
  <2> QED BY <1>1, <1>2, <2>1, StartedSound
<1> HIDE DEF t, half, m
<1>4. Told \cup {} = Told
  OBVIOUS
<1>5. AllSound(lines')
  BY <1>1, <1>3, <1>4, CarriedOn
<1> QED BY <1>1, <1>5, NoUndo DEF SameUndo

LEMMA StepSound ==
  ASSUME IInv, AllSound(lines), NEW d \in {<<>>} \cup {<<q>> : q \in Queued}, RecordStep(d),
         found' = Loaded(lines')
  PROVE  AllSound(lines') /\ UndoInv'
<1> DEFINE m == Stepped(mem, d)
<1>1. /\ SameUndo /\ stage = "up" /\ Carries({}, m, {}) /\ mem.undelivered = <<>>
      /\ undo = <<>> /\ mem \in Sessions
  BY StepKeeps, HereIs
<1>2. ASSUME Whole PROVE SoundIn(Seen(m), Told)
  BY <1>1, <1>2, HereSound, SteppedSound DEF Queued
<1> HIDE DEF m
<1>3. Told \cup {} = Told
  OBVIOUS
<1>4. AllSound(lines')
  BY <1>1, <1>2, <1>3, CarriedOn
<1> QED BY <1>1, <1>4, NoUndo DEF SameUndo

LEMMA TurnEndSound ==
  ASSUME IInv, AllSound(lines), RecordTurnEnd, found' = Loaded(lines')
  PROVE  AllSound(lines') /\ UndoInv'
<1> DEFINE m == Ended(mem)
<1>1. /\ SameUndo /\ stage = "up" /\ Carries({}, m, {}) /\ undo = <<>> /\ mem \in Sessions
  BY TurnEndKeeps, HereIs
<1>2. ASSUME Whole PROVE SoundIn(Seen(m), Told)
  BY <1>1, <1>2, HereSound, EndedSound
<1> HIDE DEF m
<1>3. Told \cup {} = Told
  OBVIOUS
<1>4. AllSound(lines')
  BY <1>1, <1>2, <1>3, CarriedOn
<1> QED BY <1>1, <1>4, NoUndo DEF SameUndo

LEMMA CompactSound ==
  ASSUME IInv, AllSound(lines), Compact, found' = Loaded(lines')
  PROVE  AllSound(lines') /\ UndoInv'
<1> DEFINE m == Compacted(mem)
<1>1. /\ SameUndo /\ stage = "up" /\ Carries({}, m, {}) /\ mem.undelivered = <<>>
      /\ undo = <<>> /\ mem \in Sessions
  BY CompactKeeps, HereIs
<1>2. ASSUME Whole PROVE SoundIn(Seen(m), Told)
  BY <1>1, <1>2, HereSound, CompactedSound
<1> HIDE DEF m
<1>3. Told \cup {} = Told
  OBVIOUS
<1>4. AllSound(lines')
  BY <1>1, <1>2, <1>3, CarriedOn
<1> QED BY <1>1, <1>4, NoUndo DEF SameUndo

(* The messages before a rollback do not wait: it may be taken back.          *)
LEMMA RollbackSound ==
  ASSUME IInv, AllSound(lines), NEW s \in ToSet(mem.starts), Rollback(s),
         found' = Loaded(lines')
  PROVE  AllSound(lines') /\ UndoInv'
<1> DEFINE m == RolledBack(mem, s)
<1>1. /\ stage = "up" /\ Carries({}, m, {}) /\ mem.undelivered = <<>> /\ undo = <<>>
      /\ undo' \in {undo, mem.msgs} /\ (mem' \in {mem, m} \/ undo' = <<>>)
      /\ mem \in Sessions
  BY RollbackKeeps, HereIs
<1>2. s.at < Len(mem.msgs)
  BY DEF Rollback
<1>3. ASSUME Whole
      PROVE  /\ SoundIn(Seen(m), Told) /\ m.pending = mem.pending
             /\ ToldIn(mem.msgs, Told) /\ Apart(mem.msgs, mem.pending)
  <2>1. SoundIn(Seen(mem), Told)
    BY <1>1, <1>3, HereSound
  <2>2. SoundIn(Seen(m), Told) /\ m.pending = mem.pending
    BY <1>1, <1>2, <2>1, RolledBackSound
  <2>3. mem.msgs \o mem.undelivered = mem.msgs
    BY <1>1, MessagesAre
  <2>4. ToldIn(mem.msgs, Told) /\ Apart(mem.msgs, mem.pending)
    BY <1>1, <2>1, <2>3, SeenParts
  <2> QED BY <2>2, <2>4
<1> HIDE DEF m
<1>4. Told \cup {} = Told
  OBVIOUS
<1>5. AllSound(lines')
  BY <1>1, <1>3, <1>4, CarriedOn
<1>6. ASSUME Whole', undo' # <<>>
      PROVE  ToldIn(undo', Told') /\ Apart(undo', mem'.pending)
  <2>1. Whole /\ Told \subseteq Told'
    BY <1>1, <1>6 DEF Carries, Grown, Told
  <2>2. undo' = mem.msgs /\ mem'.pending = mem.pending
    BY <1>1, <1>3, <1>6, <2>1
  <2>3. ToldIn(mem.msgs, Told')
    BY <1>3, <2>1 DEF ToldIn
  <2> QED BY <1>3, <2>1, <2>2, <2>3
<1>7. UndoInv'
  BY <1>6 DEF UndoInv
<1> QED BY <1>5, <1>7

LEMMA TakeBackSound ==
  ASSUME IInv, AllSound(lines), UndoInv, TakeBack, found' = Loaded(lines')
  PROVE  AllSound(lines') /\ UndoInv'
<1> DEFINE m == Replaced(mem, undo)
<1>1. /\ stage = "up" /\ Carries({}, m, {}) /\ mem.undelivered = <<>> /\ undo # <<>>
      /\ undo' = <<>> /\ mem \in Sessions /\ undo \in Seq(Int)
  BY TakeBackKeeps, HereIs DEF IInv, Types
<1>2. ASSUME Whole PROVE SoundIn(Seen(m), Told)
  <2>1. SoundIn(Seen(mem), Told)
    BY <1>1, <1>2, HereSound
  <2>2. HeldIn(mem.pending, Told)
    BY <1>1, <2>1, SeenParts
  <2>3. ToldIn(undo, Told) /\ Apart(undo, mem.pending)
    BY <1>1, <1>2 DEF UndoInv
  <2> QED BY <1>1, <2>2, <2>3, ReplacedSound
<1> HIDE DEF m
<1>3. Told \cup {} = Told
  OBVIOUS
<1>4. AllSound(lines')
  BY <1>1, <1>2, <1>3, CarriedOn
<1> QED BY <1>1, <1>4, NoUndo

LEMMA EditTurnSound ==
  ASSUME IInv, AllSound(lines), NEW s \in ToSet(mem.starts), NEW i \in Inputs, EditTurn(s, i),
         found' = Loaded(lines')
  PROVE  AllSound(lines') /\ UndoInv'
<1> DEFINE half == RolledBack(mem, s)
           m == Edited(mem, s, i)
<1>1. /\ SameUndo /\ stage = "up" /\ mem.undelivered = <<>> /\ mem.pending = <<>>
      /\ Carries({half}, m, {i})
      /\ undo = <<>> /\ s.at < Len(mem.msgs) /\ Fresh(i)
  BY EditTurnKeeps
<1>2. mem \in Sessions /\ i \notin Told
  BY <1>1, HereIs, FreshNotTold
<1>3. ASSUME Whole PROVE SoundIn(half, Told) /\ SoundIn(Seen(m), Told \cup {i})
  <2>1. SoundIn(Seen(mem), Told)
    BY <1>1, <1>3, HereSound
  <2>2. SoundIn(half, Told)
    BY <1>1, <1>2, <2>1, RolledBackSound
  <2>3. SoundIn(Seen(m), Told \cup {i})
    BY <1>1, <1>2, <2>1, EditedSound
  <2> QED BY <2>2, <2>3
<1> HIDE DEF half, m
<1>4. AllSound(lines')
  BY <1>1, <1>3, CarriedOn
<1> QED BY <1>1, <1>4, NoUndo DEF SameUndo

LEMMA MarkDiscardedSound ==
  ASSUME IInv, AllSound(lines), UndoInv, NEW i \in Queued, MarkDiscarded(i),
         found' = Loaded(lines')
  PROVE  AllSound(lines') /\ UndoInv'
<1> DEFINE m == Discarded(mem, <<i>>)
<1>1. SameUndo /\ stage = "up" /\ Keeps(m, {}, "up") /\ Carries({}, m, {}) /\ mem \in Sessions
  BY MarkDiscardedKeeps, HereIs
<1>2. ASSUME Whole PROVE SoundIn(Seen(m), Told) /\ WaitIds(m.pending) \subseteq WaitIds(mem.pending)
  BY <1>1, <1>2, HereSound, DiscardedSound
<1> HIDE DEF m
<1>3. Told \cup {} = Told
  OBVIOUS
<1>4. AllSound(lines')
  BY <1>1, <1>2, <1>3, CarriedOn
<1>5. UndoInv'
  <2>1. Grown /\ undo' \in {<<>>, undo} /\ (mem' = m \/ mem' = mem)
    BY <1>1, KeepsMem DEF Carries, SameUndo
  <2>2. CASE Whole
    <3>1. WaitIds(mem'.pending) \subseteq WaitIds(mem.pending) \cup {}
      BY <1>2, <2>1, <2>2
    <3>2. {} \subseteq Inputs /\ {} \cap Told = {}
      OBVIOUS
    <3> QED BY <2>1, <3>1, <3>2, UndoStays
  <2>3. CASE ~Whole
    BY <2>1, <2>3 DEF Grown, UndoInv
  <2> QED BY <2>2, <2>3
<1> QED BY <1>4, <1>5

LEMMA MarkRestoredSound ==
  ASSUME IInv, AllSound(lines), UndoInv, NEW i \in Queued, NEW c \in Drafts, MarkRestored(i, c),
         found' = Loaded(lines')
  PROVE  AllSound(lines') /\ UndoInv'
<1> DEFINE r == Restored(mem, i)
           half == Seen(r)
           m == Discarded(r, c)
<1>1. /\ SameUndo /\ stage = "up" /\ Keeps(m, {half}, "up") /\ Carries({half}, m, {})
  BY MarkRestoredKeeps
<1>2. mem \in Sessions /\ r \in Sessions
  BY HereIs, RestoredIs
<1>3. ASSUME Whole
      PROVE  /\ SoundIn(half, Told) /\ SoundIn(Seen(m), Told)
             /\ WaitIds(m.pending) \subseteq WaitIds(mem.pending)
  <2>1. SoundIn(Seen(mem), Told)
    BY <1>1, <1>3, HereSound
  <2>2. SoundIn(half, Told) /\ WaitIds(r.pending) = WaitIds(mem.pending)
    BY <1>2, <2>1, RestoredSound
  <2> HIDE DEF r
  <2>3. SoundIn(Seen(m), Told) /\ WaitIds(m.pending) \subseteq WaitIds(r.pending)
    BY <1>2, <2>2, DiscardedSound
  <2> QED BY <2>2, <2>3
<1> HIDE DEF half, m
<1>4. Told \cup {} = Told
  OBVIOUS
<1>5. AllSound(lines')
  BY <1>1, <1>3, <1>4, CarriedOn
<1>6. UndoInv'
  <2>1. Grown /\ undo' \in {<<>>, undo} /\ (mem' = m \/ mem' = mem)
    BY <1>1, KeepsMem DEF Carries, SameUndo
  <2>2. CASE Whole
    <3>1. WaitIds(mem'.pending) \subseteq WaitIds(mem.pending) \cup {}
      BY <1>3, <2>1, <2>2
    <3>2. {} \subseteq Inputs /\ {} \cap Told = {}
      OBVIOUS
    <3> QED BY <2>1, <3>1, <3>2, UndoStays
  <2>3. CASE ~Whole
    BY <2>1, <2>3 DEF Grown, UndoInv
  <2> QED BY <2>2, <2>3
<1> QED BY <1>5, <1>6

LEMMA RecoverSound ==
  ASSUME IInv, AllSound(lines), UndoInv, Recover, found' = Loaded(lines')
  PROVE  AllSound(lines') /\ UndoInv'
<1>1. stage = "loaded" /\ mem \in Sessions
  BY HereIs DEF Recover
<1>2. CASE Interrupted(mem)
  <2> DEFINE m == Recovered(mem)
  <2>1. Carries({}, m, {}) /\ undo' = undo /\ undo = <<>>
    BY <1>1, <1>2, RecoverKeeps
  <2>2. SoundIn(Seen(m), Told)
    BY <1>1, HereSound, RecoveredSound
  <2> HIDE DEF m
  <2>3. Told \cup {} = Told
    OBVIOUS
  <2>4. AllSound(lines')
    BY <2>1, <2>2, <2>3, CarriedOn
  <2> QED BY <2>1, <2>4, NoUndo
<1>3. CASE ~Interrupted(mem)
  <2>1. lines' = lines /\ undo' = undo
    BY <1>1, <1>3 DEF Recover
  <2>2. undo = <<>>
    BY <1>1 DEF IInv, MemInv
  <2> QED BY <2>1, <2>2, NoUndo
<1> QED BY <1>2, <1>3

LEMMA OperationSound ==
  ASSUME IInv, AllSound(lines), UndoInv, Operations, found' = Loaded(lines')
  PROVE  AllSound(lines') /\ UndoInv'
<1>1. CASE \E i \in Inputs, c \in Drafts : RecordUserInput(i, c)
  BY <1>1, UserInputSound
<1>2. CASE \E root \in ToSet(mem.undelivered) : RecordTurnStart(root, <<>>)
  <2>1. \A root \in ToSet(mem.undelivered) : root \in Inputs
    <3>1. mem.undelivered \in Seq(Inputs)
      BY HereIs, SessionHas
    <3> QED BY <3>1 DEF ToSet
  <2> QED BY <1>2, <2>1, TurnStartSound
<1>3. CASE \E d \in {<<>>} \cup {<<q>> : q \in Queued} : RecordTurnStart(NoInput, d)
  BY <1>3, TurnStartSound
<1>4. CASE \E d \in {<<>>} \cup {<<q>> : q \in Queued} : RecordStep(d)
  BY <1>4, StepSound
<1>5. CASE RecordTurnEnd
  BY <1>5, TurnEndSound
<1>6. CASE Compact
  BY <1>6, CompactSound
<1>7. CASE \E s \in ToSet(mem.starts) : Rollback(s)
  BY <1>7, RollbackSound
<1>8. CASE \E s \in ToSet(mem.starts), i \in Inputs : EditTurn(s, i)
  BY <1>8, EditTurnSound
<1>9. CASE RollbackEnds
  BY <1>9, NoUndo DEF RollbackEnds
<1>10. CASE TakeBack
  BY <1>10, TakeBackSound
<1>11. CASE \E i \in Queued, c \in Drafts : MarkRestored(i, c)
  BY <1>11, MarkRestoredSound
<1>12. CASE \E i \in Queued : MarkDiscarded(i)
  BY <1>12, MarkDiscardedSound
<1>13. CASE Crash
  BY <1>13, NoUndo DEF Crash, Dies
<1>14. CASE Open
  <2>1. stage = "down" /\ lines' = Repaired(lines) /\ undo' = undo
    BY <1>14 DEF Open
  <2>2. undo = <<>> /\ Good(lines)
    BY <2>1 DEF IInv, MemInv, FileInv
  <2>3. AllSound(lines')
    BY <2>1, <2>2, RepairedSound
  <2> QED BY <2>1, <2>2, <2>3, NoUndo
<1>15. CASE Recover
  BY <1>15, RecoverSound
<1> QED BY <1>1, <1>2, <1>3, <1>4, <1>5, <1>6, <1>7, <1>8, <1>9, <1>10, <1>11, <1>12, <1>13,
           <1>14, <1>15 DEF Operations

SoundInv == AllSound(lines) /\ UndoInv

LEMMA InitSound ==
  ASSUME Init
  PROVE  SoundInv
<1>1. IInv /\ found = EmptySession /\ found = Loaded(lines) /\ lines = <<SessionStart>>
      /\ undo = <<>>
  BY InitHolds DEF Init
<1>2. Good(lines) /\ Len(lines) = 1
  BY <1>1 DEF IInv, FileInv
<1>3. Torn \notin ToSet(lines)
  <2>1. ToSet(<<SessionStart>>) = {SessionStart} /\ SessionStart # Torn
    BY DEF ToSet, SessionStart, Torn
  <2> QED BY <1>1, <2>1
<1>4. Replay(Chains(lines)[1]) = EmptySession
  BY <1>1, <1>2, <1>3, LoadedIs
<1>5. SoundIn(EmptySession, Accepted(lines, 1))
  BY DEF SoundIn, Single, Inside, EmptySession, ToSet
<1>6. \A n \in 1..1 : n = 1
  OBVIOUS
<1>7. AllSound(lines)
  BY <1>2, <1>4, <1>5, <1>6 DEF AllSound
<1> QED BY <1>1, <1>7 DEF SoundInv, UndoInv

LEMMA StepSoundInv ==
  ASSUME IInv, SoundInv, [Next]_vars
  PROVE  SoundInv'
<1>1. CASE Next
  BY <1>1, OperationSound DEF Next, SoundInv
<1>2. CASE UNCHANGED vars
  <2>1. lines' = lines /\ ended' = ended /\ mem' = mem /\ undo' = undo
    BY <1>2 DEF vars
  <2> QED BY <2>1 DEF SoundInv, UndoInv, Whole, Told
<1> QED BY <1>1, <1>2

(* No input is at two places in what a reopening finds: not answered twice,   *)
(* not answered and still waiting (chain.ts 251), for any inputs and any     *)
(* number of lines.                                                         *)
THEOREM NoDoubleHolds == Spec => []NoDouble
<1>1. Init => SoundInv
  BY InitSound
<1>2. IInv /\ SoundInv /\ [Next]_vars => SoundInv'
  BY StepSoundInv
<1>3. IInv /\ SoundInv => NoDouble
  BY FoundSound DEF SoundInv
<1> QED BY <1>1, <1>2, <1>3, Invariant, PTL DEF Spec
=============================================================================
