--------------------------- MODULE TaskPlan_proof ---------------------------
(***************************************************************************)
(* TaskPlan's invariants and action properties, for every set of outcomes  *)
(* and evidences and whatever the limits: plans of any length, calls of    *)
(* update with any number of changes.  The items are edited by folds over  *)
(* the changes; DataLemmas says what a fold leaves.                        *)
(***************************************************************************)
EXTENDS TaskPlan, DataLemmas

-----------------------------------------------------------------------------
(* The edits of the items of a plan.                                        *)

(* What the edits of the items rely on: positions and sequences.            *)
LEMMA IndexIs ==
  ASSUME NEW items \in Seq(Items), NEW id
  PROVE  /\ IndexOf(items, id) \in 0..Len(items)
         /\ IndexOf(items, id) # 0 => items[IndexOf(items, id)].id = id
<1> DEFINE I == {i \in 1..Len(items) : items[i].id = id}
<1>1. IndexOf(items, id) = IF I # {} THEN Min(I) ELSE 0
  BY DEF IndexOf, SelectInSeq
<1>2. I # {} => Min(I) \in I
  <2>1. I \in SUBSET Nat
    OBVIOUS
  <2> QED BY <2>1, MinIs
<1> QED BY <1>1, <1>2

LEMMA VerificationIs ==
  ASSUME NEW items \in Seq(Items)
  PROVE  Verification(items) \in 0..Len(items)
<1> DEFINE I == {i \in 1..Len(items) : items[i].kind = "verification"}
<1>1. Verification(items) = IF I # {} THEN Min(I) ELSE 0
  BY DEF Verification, SelectInSeq
<1>2. I # {} => Min(I) \in I
  <2>1. I \in SUBSET Nat
    OBVIOUS
  <2> QED BY <2>1, MinIs
<1> QED BY <1>1, <1>2

LEMMA Inserted ==
  ASSUME NEW S, NEW s \in Seq(S), NEW e \in S, NEW i \in 1..(Len(s) + 1)
  PROVE  /\ InsertAt(s, i, e) \in Seq(S)
         /\ ToSet(s) \subseteq ToSet(InsertAt(s, i, e))
<1> DEFINE a == SubSeq(s, 1, i - 1)
           b == SubSeq(s, i, Len(s))
           r == a \o <<e>> \o b
<1>1. a \in Seq(S) /\ Len(a) = i - 1 /\ \A j \in 1..(i - 1) : a[j] = s[j]
  OBVIOUS
<1>2. b \in Seq(S) /\ Len(b) = Len(s) - i + 1
      /\ \A j \in 1..(Len(s) - i + 1) : b[j] = s[i + j - 1]
  OBVIOUS
<1> HIDE DEF a, b
<1>3. /\ r \in Seq(S) /\ Len(r) = Len(s) + 1
      /\ \A j \in 1..(i - 1) : r[j] = a[j]
      /\ \A j \in 1..(Len(s) - i + 1) : r[i + j] = b[j]
  BY <1>1, <1>2
<1>4. ASSUME NEW j \in 1..Len(s) PROVE \E k \in 1..Len(r) : r[k] = s[j]
  <2>1. CASE j < i
    <3>1. j \in 1..(i - 1) /\ j \in 1..(Len(s) + 1)
      BY <2>1
    <3>2. r[j] = s[j]
      BY <1>1, <1>3, <3>1
    <3> HIDE DEF r
    <3> QED BY <1>3, <3>1, <3>2
  <2>2. CASE j >= i
    <3> DEFINE k == j - i + 1
    <3>1. k \in 1..(Len(s) - i + 1) /\ i + k = j + 1 /\ i + k - 1 = j
      BY <2>2
    <3>2. r[i + k] = b[k] /\ b[k] = s[i + k - 1]
      BY <1>2, <1>3, <3>1
    <3>3. j + 1 \in 1..(Len(s) + 1)
      OBVIOUS
    <3> HIDE DEF r, k
    <3> QED BY <1>3, <3>1, <3>2, <3>3
  <2> QED BY <2>1, <2>2
<1>5. InsertAt(s, i, e) = r
  BY DEF InsertAt, a, b
<1> HIDE DEF r
<1>6. ASSUME NEW x \in ToSet(s) PROVE x \in ToSet(r)
  <2>1. PICK j \in 1..Len(s) : x = s[j]
    BY DEF ToSet
  <2>2. PICK k \in 1..Len(r) : r[k] = s[j]
    BY <1>4
  <2>3. DOMAIN r = 1..Len(r)
    BY <1>3
  <2> QED BY <2>1, <2>2, <2>3 DEF ToSet
<1> QED BY <1>3, <1>5, <1>6

LEMMA Removed ==
  ASSUME NEW S, NEW s \in Seq(S), NEW i \in 1..Len(s)
  PROVE  /\ RemoveAt(s, i) \in Seq(S)
         /\ Len(RemoveAt(s, i)) = Len(s) - 1
         /\ \A j \in 1..Len(s) : j # i => s[j] \in ToSet(RemoveAt(s, i))
<1> DEFINE a == SubSeq(s, 1, i - 1)
           b == SubSeq(s, i + 1, Len(s))
           r == a \o b
<1>1. a \in Seq(S) /\ Len(a) = i - 1 /\ \A j \in 1..(i - 1) : a[j] = s[j]
  OBVIOUS
<1>2. b \in Seq(S) /\ Len(b) = Len(s) - i
      /\ \A j \in 1..(Len(s) - i) : b[j] = s[i + j]
  OBVIOUS
<1> HIDE DEF a, b
<1>3. /\ r \in Seq(S) /\ Len(r) = Len(s) - 1
      /\ \A j \in 1..(i - 1) : r[j] = a[j]
      /\ \A j \in 1..(Len(s) - i) : r[i - 1 + j] = b[j]
  <2>0. a \in Seq(S) /\ b \in Seq(S)
    BY <1>1, <1>2
  <2>1. r \in Seq(S) /\ Len(r) = Len(a) + Len(b)
    BY <2>0
  <2>2. \A j \in 1..Len(a) : r[j] = a[j]
    BY <2>0
  <2>3. \A j \in 1..Len(b) : r[Len(a) + j] = b[j]
    BY <2>0
  <2> HIDE DEF r
  <2> QED BY <1>1, <1>2, <2>1, <2>2, <2>3
<1>4. ASSUME NEW j \in 1..Len(s), j # i PROVE \E k \in 1..Len(r) : r[k] = s[j]
  <2>1. CASE j < i
    <3>1. j \in 1..(i - 1) /\ j \in 1..(Len(s) - 1)
      BY <2>1
    <3>2. r[j] = s[j]
      BY <1>1, <1>3, <3>1
    <3> HIDE DEF r
    <3> QED BY <1>3, <3>1, <3>2
  <2>2. CASE j > i
    <3> DEFINE k == j - i
    <3>1. k \in 1..(Len(s) - i) /\ i + k = j /\ i - 1 + k = j - 1
      BY <2>2
    <3>2. r[i - 1 + k] = b[k] /\ b[k] = s[i + k]
      BY <1>2, <1>3, <3>1
    <3>3. j - 1 \in 1..(Len(s) - 1)
      BY <2>2
    <3> HIDE DEF r, k
    <3> QED BY <1>3, <3>1, <3>2, <3>3
  <2> QED BY <1>4, <2>1, <2>2
<1>5. RemoveAt(s, i) = r
  BY DEF RemoveAt, a, b
<1> HIDE DEF r
<1>6. \A j \in 1..Len(s) : j # i => s[j] \in ToSet(r)
  <2>1. DOMAIN r = 1..Len(r)
    BY <1>3
  <2> QED BY <1>4, <2>1 DEF ToSet
<1> QED BY <1>3, <1>5, <1>6

LEMMA Replaced ==
  ASSUME NEW S, NEW s \in Seq(S), NEW i \in 1..Len(s), NEW e \in S
  PROVE  /\ ReplaceAt(s, i, e) \in Seq(S)
         /\ Len(ReplaceAt(s, i, e)) = Len(s)
         /\ ReplaceAt(s, i, e)[i] = e
         /\ \A j \in 1..Len(s) : j # i => ReplaceAt(s, i, e)[j] = s[j]
BY DEF ReplaceAt

-----------------------------------------------------------------------------
(* The items b can come from the items a: the completed ones are still there. *)
Keeps(a, b) ==
  /\ b \in Seq(Items)
  /\ \A it \in ToSet(a) : it.status = "completed" => it \in ToSet(b)

LEMMA KeepsReplaced ==
  ASSUME NEW a \in Seq(Items), NEW i \in 1..Len(a), NEW e \in Items,
         a[i].status # "completed"
  PROVE  Keeps(a, ReplaceAt(a, i, e))
<1> DEFINE b == ReplaceAt(a, i, e)
<1>1. /\ b \in Seq(Items) /\ Len(b) = Len(a)
      /\ \A j \in 1..Len(a) : j # i => b[j] = a[j]
  BY Replaced
<1> HIDE DEF b
<1>2. ASSUME NEW it \in ToSet(a), it.status = "completed" PROVE it \in ToSet(b)
  <2>1. PICK j \in 1..Len(a) : it = a[j]
    BY DEF ToSet
  <2>2. j # i
    BY <1>2, <2>1
  <2>3. DOMAIN b = 1..Len(a)
    BY <1>1
  <2> QED BY <1>1, <2>1, <2>2, <2>3 DEF ToSet
<1> QED BY <1>1, <1>2 DEF Keeps, b

LEMMA KeepsRemoved ==
  ASSUME NEW a \in Seq(Items), NEW i \in 1..Len(a), a[i].status # "completed"
  PROVE  Keeps(a, RemoveAt(a, i))
<1>1. /\ RemoveAt(a, i) \in Seq(Items)
      /\ \A j \in 1..Len(a) : j # i => a[j] \in ToSet(RemoveAt(a, i))
  BY Removed
<1>2. ASSUME NEW it \in ToSet(a), it.status = "completed"
      PROVE  it \in ToSet(RemoveAt(a, i))
  <2>1. PICK j \in 1..Len(a) : it = a[j]
    BY DEF ToSet
  <2> QED BY <1>1, <1>2, <2>1
<1> QED BY <1>1, <1>2 DEF Keeps

LEMMA KeepsTransitive ==
  ASSUME NEW a, NEW b, NEW c, Keeps(a, b), Keeps(b, c)
  PROVE  Keeps(a, c)
BY DEF Keeps

LEMMA KeepsAdded ==
  ASSUME NEW a \in Seq(Items), a # <<>>, NEW outcome \in Outcomes, NEW after \in Nat,
         AddItem(a, outcome, after) # Refused
  PROVE  Keeps(a, AddItem(a, outcome, after))
<1> DEFINE at == InsertionIndex(a, after)
           next == 1 + CHOOSE n \in Ids(a) : \A m \in Ids(a) : m <= n
           it == NewItem(next, "work", outcome, "pending")
<1>1. AddItem(a, outcome, after) = InsertAt(a, at, it) /\ at # 0
  BY DEF AddItem
<1>2. at \in 1..(Len(a) + 1)
  BY <1>1, IndexIs, VerificationIs DEF InsertionIndex
<1>3. next \in Nat
  <2> DEFINE f == [i \in 1..Len(a) |-> a[i].id]
  <2>1. Len(a) \in Nat /\ Len(a) > 0 /\ \A i \in 1..Len(a) : f[i] \in Nat
    <3>1. \A i \in 1..Len(a) : a[i] \in Items
      OBVIOUS
    <3> QED BY <3>1 DEF Items
  <2>2. \E i \in 1..Len(a) : \A j \in 1..Len(a) : f[j] <= f[i]
    <3> HIDE DEF f
    <3> QED BY <2>1, GreatestValue
  <2>3. \E n \in Ids(a) : \A m \in Ids(a) : m <= n
    BY <2>2 DEF Ids
  <2>4. Ids(a) \subseteq Nat
    <3>1. \A i \in DOMAIN a : a[i] \in Items
      OBVIOUS
    <3> QED BY <3>1 DEF Ids, Items
  <2> QED BY <2>3, <2>4
<1>4. it \in Items
  BY <1>3 DEF NewItem, Items
<1> HIDE DEF at, it
<1> QED BY <1>1, <1>2, <1>4, Inserted DEF Keeps

LEMMA KeepsMoved ==
  ASSUME NEW a \in Seq(Items), NEW i \in 1..Len(a), a[i].status # "completed",
         NEW after \in Nat, MoveItem(a, i, after) # Refused
  PROVE  Keeps(a, MoveItem(a, i, after))
<1> DEFINE b == RemoveAt(a, i)
           at == InsertionIndex(b, after)
<1>1. MoveItem(a, i, after) = InsertAt(b, at, a[i]) /\ at # 0
  BY DEF MoveItem
<1>2. Keeps(a, b)
  BY KeepsRemoved
<1>3. b \in Seq(Items)
  BY <1>2 DEF Keeps
<1>4. at \in 1..(Len(b) + 1)
  <2> HIDE DEF b
  <2> QED BY <1>1, <1>3, IndexIs, VerificationIs DEF InsertionIndex
<1>5. Keeps(b, InsertAt(b, at, a[i]))
  <2> HIDE DEF b, at
  <2> QED BY <1>3, <1>4, Inserted DEF Keeps
<1> HIDE DEF b, at
<1> QED BY <1>1, <1>2, <1>5, KeepsTransitive

LEMMA KeepsChanged ==
  ASSUME NEW a \in Seq(Items), a # <<>>, NEW items, NEW c \in Changes(items),
         items \in Seq(Items), ApplyChange(a, c) # Refused
  PROVE  Keeps(a, ApplyChange(a, c))
<1> DEFINE i == IndexOf(a, c.id)
           e == [a[i] EXCEPT !.outcome = c.outcome]
           edited == IF c.outcome = "keep" THEN a ELSE ReplaceAt(a, i, e)
<1>1. Ids(items) \subseteq Nat
  <2>1. \A j \in DOMAIN items : items[j] \in Items
    OBVIOUS
  <2> QED BY <2>1 DEF Ids, Items
<1>2. /\ c.after \in Nat /\ c.action \in {"add", "edit", "delete"}
      /\ c.outcome \in Outcomes \cup {"keep"}
      /\ c.action = "add" => c.outcome \in Outcomes
  BY <1>1 DEF Changes, NoId
<1>3. CASE c.action = "add"
  BY <1>2, <1>3, KeepsAdded DEF ApplyChange
<1>4. CASE c.action # "add"
  <2>1. i \in 1..Len(a) /\ a[i].status # "completed"
    <3>1. i # 0 /\ a[i].status # "completed"
      BY <1>4 DEF ApplyChange
    <3> HIDE DEF i
    <3> QED BY <3>1, IndexIs DEF i
  <2>2. a[i] \in Items
    <3> HIDE DEF i
    <3> QED BY <2>1
  <2>3. CASE c.action = "edit"
    <3>1. Keeps(a, edited) /\ edited \in Seq(Items) /\ Len(edited) = Len(a)
          /\ edited[i].status # "completed"
      <4>1. CASE c.outcome = "keep"
        BY <2>1, <4>1 DEF Keeps
      <4>2. CASE c.outcome # "keep"
        <5>1. e \in Items /\ e.status = a[i].status
          <6> HIDE DEF i
          <6> QED BY <1>2, <2>2, <4>2 DEF Items
        <5> HIDE DEF i, e
        <5>2. Keeps(a, ReplaceAt(a, i, e)) 
          BY <2>1, <5>1, KeepsReplaced
        <5>3. /\ ReplaceAt(a, i, e) \in Seq(Items) /\ Len(ReplaceAt(a, i, e)) = Len(a)
              /\ ReplaceAt(a, i, e)[i] = e
          BY <2>1, <5>1, Replaced
        <5> QED BY <2>1, <4>2, <5>1, <5>2, <5>3
      <4> QED BY <4>1, <4>2
    <3>2. ApplyChange(a, c) = IF c.after = NoId THEN edited ELSE MoveItem(edited, i, c.after)
      <4>1. i # 0 /\ a[i].status # "completed"
        BY <2>1
      <4> QED BY <1>4, <2>3, <4>1 DEF ApplyChange
    <3> HIDE DEF i, edited
    <3>3. CASE c.after = NoId
      BY <3>1, <3>2, <3>3
    <3>4. CASE c.after # NoId
      <4>1. MoveItem(edited, i, c.after) # Refused
        BY <3>2, <3>4
      <4>2. i \in 1..Len(edited)
        BY <2>1, <3>1
      <4>3. Keeps(edited, MoveItem(edited, i, c.after))
        BY <1>2, <3>1, <4>1, <4>2, KeepsMoved
      <4> QED BY <3>1, <3>2, <3>4, <4>3, KeepsTransitive
    <3> QED BY <3>3, <3>4
  <2>4. CASE c.action # "edit"
    <3>1. ApplyChange(a, c) = RemoveAt(a, i)
      BY <1>4, <2>1, <2>4 DEF ApplyChange, Refused
    <3> HIDE DEF i
    <3> QED BY <2>1, <3>1, KeepsRemoved
  <2> QED BY <2>3, <2>4
<1> QED BY <1>3, <1>4

LEMMA KeepsTransition ==
  ASSUME NEW a \in Seq(Items), a # <<>>, NEW items, NEW t \in Transitions(items),
         t # NoTransition, ApplyTransition(a, t) # Refused
  PROVE  Keeps(a, ApplyTransition(a, t))
<1> DEFINE i == IndexOf(a, t.id)
<1>1. t.evidence \in Evidences \cup {"none"}
  BY DEF Transitions, NoTransition
<1>2. i # 0 /\ i \in 1..Len(a)
  <2>1. i # 0
    BY DEF ApplyTransition
  <2> HIDE DEF i
  <2> QED BY <2>1, IndexIs DEF i
<1>3. CASE t.status = "in_progress"
  <2>1. ApplyTransition(a, t) = Start(a, i)
    BY <1>2, <1>3 DEF ApplyTransition
  <2> HIDE DEF i
  <2>2. CASE a[i].status = "in_progress"
    BY <2>1, <2>2 DEF Start, Keeps
  <2>3. CASE a[i].status # "in_progress"
    <3> DEFINE e == [a[i] EXCEPT !.status = "in_progress"]
    <3>1. Start(a, i) = ReplaceAt(a, i, e) /\ a[i].status # "completed"
      BY <2>1, <2>3 DEF Start
    <3>2. e \in Items
      <4>1. a[i] \in Items
        BY <1>2
      <4> QED BY <4>1 DEF Items
    <3> HIDE DEF e
    <3> QED BY <1>2, <2>1, <3>1, <3>2, KeepsReplaced
  <2> QED BY <2>2, <2>3
<1>4. CASE t.status # "in_progress"
  <2> DEFINE e == [a[i] EXCEPT !.status = "completed", !.evidence = t.evidence]
             done == ReplaceAt(a, i, e)
             J == {j \in 1..Len(done) : done[j].status = "pending"}
             next == IF J # {} THEN Min(J) ELSE 0
  <2>1. ApplyTransition(a, t) = Complete(a, i, t.evidence) /\ t.evidence # "none"
    BY <1>2, <1>4 DEF ApplyTransition
  <2>2. CASE a[i].status = "completed" /\ a[i].evidence = t.evidence
    <3> HIDE DEF i
    <3> QED BY <2>1, <2>2 DEF Complete, Keeps
  <2>3. CASE ~(a[i].status = "completed" /\ a[i].evidence = t.evidence)
    <3>1. /\ a[i].status = "in_progress"
          /\ Complete(a, i, t.evidence) =
               IF next = 0 THEN done
               ELSE ReplaceAt(done, next, [done[next] EXCEPT !.status = "in_progress"])
      <4> HIDE DEF i
      <4> QED BY <2>1, <2>3 DEF Complete, SelectInSeq
    <3>2. e \in Items
      <4> HIDE DEF i
      <4>1. a[i] \in Items
        BY <1>2
      <4> QED BY <1>1, <2>1, <4>1 DEF Items
    <3>3. Keeps(a, done)
      <4> HIDE DEF i, e
      <4> QED BY <1>2, <3>1, <3>2, KeepsReplaced
    <3>4. done \in Seq(Items)
      BY <3>3 DEF Keeps
    <3> HIDE DEF done, i
    <3>5. CASE next = 0
      BY <2>1, <3>1, <3>3, <3>5
    <3>6. CASE next # 0
      <4>1. J \in SUBSET Nat /\ J # {}
        BY <3>4, <3>6
      <4>2. next \in J
        <5> HIDE DEF J
        <5> QED BY <4>1, MinIs
      <4>3. next \in 1..Len(done) /\ done[next].status = "pending"
        BY <4>2
      <4> HIDE DEF next
      <4>4. [done[next] EXCEPT !.status = "in_progress"] \in Items
        <5>1. done[next] \in Items
          BY <3>4, <4>3
        <5> QED BY <5>1 DEF Items
      <4>5. Keeps(done, ReplaceAt(done, next, [done[next] EXCEPT !.status = "in_progress"]))
        BY <3>4, <4>3, <4>4, KeepsReplaced
      <4> QED BY <2>1, <3>1, <3>3, <3>6, <4>5, KeepsTransitive
    <3> QED BY <3>5, <3>6
  <2> QED BY <2>2, <2>3
<1> QED BY <1>3, <1>4

(* The fold of update() over the changes: the function that computes it.     *)
UpdateFold(f, items, changes, n) ==
  f = [s \in SUBSET (1..n) |->
         IF s = {} THEN items
         ELSE IF f[s \ {Max(s)}] = Refused THEN Refused
              ELSE ApplyChange(f[s \ {Max(s)}], changes[Max(s)])]

LEMMA FoldTyped ==
  ASSUME NEW items \in Seq(Items), NEW a \in Seq(Items), NEW c \in Changes(items)
  PROVE  (IF a = Refused THEN Refused ELSE ApplyChange(a, c)) \in Seq(Items)
<1>1. Refused \in Seq(Items)
  BY DEF Refused
<1>2. CASE a = Refused
  BY <1>1, <1>2
<1>3. CASE a # Refused
  <2>1. a # <<>>
    BY <1>3 DEF Refused
  <2>2. CASE ApplyChange(a, c) = Refused
    BY <1>1, <1>3, <2>2
  <2>3. CASE ApplyChange(a, c) # Refused
    <3>1. Keeps(a, ApplyChange(a, c))
      BY <2>1, <2>3, KeepsChanged
    <3>2. ApplyChange(a, c) \in Seq(Items)
      BY <3>1 DEF Keeps
    <3> QED BY <1>3, <3>2
  <2> QED BY <2>2, <2>3
<1> QED BY <1>2, <1>3

LEMMA UpdateFoldExists ==
  ASSUME NEW items \in Seq(Items), NEW n \in Nat, NEW changes \in [1..n -> Changes(items)]
  PROVE  \E f : UpdateFold(f, items, changes, n)
<1> DEFINE D == Seq(Items)
           Step == [z \in D \X (1..n) |->
                      IF z[1] = Refused THEN Refused ELSE ApplyChange(z[1], changes[z[2]])]
<1>1. ASSUME NEW z \in D \X (1..n) PROVE Step[z] \in D
  <2>1. z[1] \in Seq(Items) /\ changes[z[2]] \in Changes(items)
    OBVIOUS
  <2>2. Step[z] = IF z[1] = Refused THEN Refused ELSE ApplyChange(z[1], changes[z[2]])
    OBVIOUS
  <2> HIDE DEF Step
  <2> QED BY <2>1, <2>2, FoldTyped
<1>2. PICK f : FoldFcn(f, n, Step, items)
  <2> HIDE DEF Step
  <2> QED BY FoldExists
<1>3. \A s \in SUBSET (1..n) : f[s] \in D
  <2> HIDE DEF Step, D
  <2> QED BY <1>1, <1>2, FoldType DEF D
<1>4. ASSUME NEW s \in SUBSET (1..n), s # {}
      PROVE  f[s] = IF f[s \ {Max(s)}] = Refused THEN Refused
                    ELSE ApplyChange(f[s \ {Max(s)}], changes[Max(s)])
  <2>1. Max(s) \in 1..n /\ s \ {Max(s)} \in SUBSET (1..n)
    BY <1>4, MaxIs
  <2>2. f[s \ {Max(s)}] \in D
    BY <1>3, <2>1
  <2>3. f[s] = Step[<<f[s \ {Max(s)}], Max(s)>>]
    <3> HIDE DEF Step
    <3> QED BY <1>2, <1>4 DEF FoldFcn
  <2>4. <<f[s \ {Max(s)}], Max(s)>> \in D \X (1..n)
    BY <2>1, <2>2
  <2> HIDE DEF D
  <2> QED BY <2>3, <2>4
<1>5. f[{}] = items
  <2> HIDE DEF Step
  <2> QED BY <1>2, FoldSteps
<1>6. f = [s \in SUBSET (1..n) |-> f[s]]
  <2> HIDE DEF Step
  <2> QED BY <1>2 DEF FoldFcn
<1>7. \A s \in SUBSET (1..n) :
        f[s] = IF s = {} THEN items
               ELSE IF f[s \ {Max(s)}] = Refused THEN Refused
                    ELSE ApplyChange(f[s \ {Max(s)}], changes[Max(s)])
  BY <1>4, <1>5
<1> HIDE DEF Step
<1> QED BY <1>6, <1>7 DEF UpdateFold

LEMMA UpdateFoldKeeps ==
  ASSUME NEW items \in Seq(Items), NEW n \in Nat,
         NEW changes \in [1..n -> Changes(items)], NEW f, UpdateFold(f, items, changes, n)
  PROVE  f[1..n] = Refused \/ Keeps(items, f[1..n])
<1> DEFINE S == {k \in Nat : k <= n => f[1..k] = Refused \/ Keeps(items, f[1..k])}
<1>1. 0 \in S
  <2>1. 1..0 = {} /\ {} \in SUBSET (1..n)
    OBVIOUS
  <2>2. f[1..0] = items
    BY <2>1 DEF UpdateFold
  <2> QED BY <2>2 DEF Keeps
<1>2. ASSUME NEW k \in Nat, k < n, k \in S PROVE k + 1 \in S
  <2> DEFINE a == f[1..k]
             b == f[1..(k + 1)]
             s == 1..(k + 1)
  <2>1. /\ k + 1 \in 1..n /\ s \in SUBSET (1..n) /\ s # {}
        /\ Max(s) = k + 1 /\ s \ {Max(s)} = 1..k
    BY <1>2, Prefix
  <2>3. f[s] = IF f[s \ {Max(s)}] = Refused THEN Refused
               ELSE ApplyChange(f[s \ {Max(s)}], changes[Max(s)])
    <3> HIDE DEF s
    <3> QED BY <2>1 DEF UpdateFold
  <2>4. b = IF a = Refused THEN Refused ELSE ApplyChange(a, changes[k + 1])
    BY <2>1, <2>3
  <2>5. a = Refused \/ Keeps(items, a)
    BY <1>2
  <2>6. changes[k + 1] \in Changes(items)
    BY <2>1
  <2> HIDE DEF a, b
  <2>7. b = Refused \/ Keeps(items, b)
    <3>1. CASE b = Refused
      BY <3>1
    <3>2. CASE b # Refused
      <4>1. a # Refused /\ Keeps(items, a) /\ b = ApplyChange(a, changes[k + 1])
        BY <2>4, <2>5, <3>2
      <4>2. a \in Seq(Items) /\ a # <<>>
        BY <4>1 DEF Keeps, Refused
      <4>3. Keeps(a, b)
        BY <2>6, <3>2, <4>1, <4>2, KeepsChanged
      <4> QED BY <4>1, <4>3, KeepsTransitive
    <3> QED BY <3>1, <3>2
  <2> QED BY <2>7 DEF b
<1>3. 0..n \subseteq S
  <2> HIDE DEF S
  <2> QED BY <1>1, <1>2, InductionTo
<1>4. n \in S
  <2>1. n \in 0..n
    OBVIOUS
  <2> HIDE DEF S
  <2> QED BY <1>3, <2>1
<1> QED BY <1>4

(* Whatever a call of update() may ask for, the items it arrives at are items *)
(* and still hold what was completed (applyItemChange, applyTransition).    *)
THEOREM EditsKeep ==
  ASSUME NEW items \in Seq(Items), NEW n \in Nat,
         NEW changes \in [1..n -> Changes(items)], NEW t \in Transitions(items),
         EditedItems(items, changes, t) # Refused
  PROVE  Keeps(items, EditedItems(items, changes, t))
<1> DEFINE iter == CHOOSE f : UpdateFold(f, items, changes, n)
<1>1. DOMAIN changes = 1..n
  OBVIOUS
<1>2. EditedItems(items, changes, t) =
        IF iter[1..n] = Refused \/ t = NoTransition THEN iter[1..n]
        ELSE ApplyTransition(iter[1..n], t)
  BY <1>1 DEF EditedItems, FoldLeft, MapThenFoldSet, UpdateFold
<1>3. UpdateFold(iter, items, changes, n)
  BY UpdateFoldExists
<1> HIDE DEF iter
<1>4. iter[1..n] # Refused
  <2>1. CASE iter[1..n] = Refused
    <3>1. EditedItems(items, changes, t) = iter[1..n]
      BY <1>2, <2>1
    <3> QED BY <2>1, <3>1
  <2> QED BY <2>1
<1>5. Keeps(items, iter[1..n])
  BY <1>3, <1>4, UpdateFoldKeeps
<1>6. iter[1..n] \in Seq(Items) /\ iter[1..n] # <<>>
  BY <1>4, <1>5 DEF Keeps, Refused
<1>7. CASE t = NoTransition
  BY <1>2, <1>5, <1>7
<1>8. CASE t # NoTransition
  <2>1. EditedItems(items, changes, t) = ApplyTransition(iter[1..n], t)
    BY <1>2, <1>4, <1>8
  <2>2. Keeps(iter[1..n], ApplyTransition(iter[1..n], t))
    BY <1>6, <1>8, <2>1, KeepsTransition
  <2> QED BY <1>5, <2>1, <2>2, KeepsTransitive
<1> QED BY <1>7, <1>8

-----------------------------------------------------------------------------
(* Types.                                                                   *)

Disks == [state : States, turn : BOOLEAN, engaged : Nat, start : States,
          canRollBack : BOOLEAN]

(* The states resume() and update() leave.                                  *)
Resumed(s) == [s EXCEPT !.version = @ + 1, !.reason = "none"]
Updated(s, items) == [s EXCEPT !.version = @ + 1, !.plan.items = items]

LEMMA StatesAre ==
  ASSUME NEW s \in States
  PROVE  /\ s.version \in Nat /\ s.plan.id \in Nat /\ s.plan.items \in Seq(Items)
         /\ s.plan \in [id : Nat, items : Seq(Items)]
         /\ Closed(s) \in States
         /\ \A r \in {"user-cancel", "process-interruption"} : Interrupted(s, r) \in States
         /\ Resumed(s) \in States
<1>1. NoPlan \in [id : Nat, items : Seq(Items)]
  BY DEF NoPlan, NoId
<1>2. s.version \in Nat /\ s.plan \in [id : Nat, items : Seq(Items)]
  BY DEF States
<1>3. Closed(s) \in States
  BY <1>1, <1>2 DEF States, Closed
<1>4. ASSUME NEW r \in {"none", "user-cancel", "process-interruption"}
      PROVE  [s EXCEPT !.version = @ + 1, !.reason = r] \in States
  <2>1. ASSUME NEW n \in Nat PROVE [s EXCEPT !.version = n, !.reason = r] \in States
    BY DEF States
  <2>2. s.version + 1 \in Nat
    BY <1>2
  <2> QED BY <2>1, <2>2
<1>5. ASSUME NEW r \in {"user-cancel", "process-interruption"}
      PROVE  Interrupted(s, r) \in States
  BY <1>4 DEF Interrupted
<1>6. Resumed(s) \in States
  BY <1>4 DEF Resumed
<1> QED BY <1>2, <1>3, <1>5, <1>6

LEMMA EmptyIs == EmptyState \in States /\ NoPlan \in [id : Nat, items : Seq(Items)]
BY DEF States, EmptyState, NoPlan, NoId

LEMMA EditedIs ==
  ASSUME NEW s \in States, NEW items \in Seq(Items)
  PROVE  Updated(s, items) \in States
<1>1. s.version \in Nat /\ s.plan \in [id : Nat, items : Seq(Items)]
      /\ s.reason \in {"none", "user-cancel", "process-interruption"}
  BY DEF States
<1>2. ASSUME NEW n \in Nat PROVE [s EXCEPT !.version = n, !.plan.items = items] \in States
  <2>1. [s.plan EXCEPT !.items = items] \in [id : Nat, items : Seq(Items)]
    BY <1>1
  <2>2. ASSUME NEW p \in [id : Nat, items : Seq(Items)]
        PROVE  [s EXCEPT !.version = n, !.plan = p] \in States
    BY DEF States
  <2>3. [s EXCEPT !.version = n, !.plan.items = items]
          = [s EXCEPT !.version = n, !.plan = [s.plan EXCEPT !.items = items]]
    OBVIOUS
  <2> QED BY <2>1, <2>2, <2>3
<1>3. s.version + 1 \in Nat
  BY <1>1
<1> QED BY <1>2, <1>3 DEF Updated

LEMMA NewPlanIs ==
  ASSUME NEW id \in Nat, NEW outcomes \in Drafts
  PROVE  /\ NewPlan(id, outcomes) \in [id : Nat, items : Seq(Items)]
         /\ Len(NewPlan(id, outcomes).items) = MinDraft
         /\ \A i \in 1..MinDraft : NewPlan(id, outcomes).items[i] =
              NewItem(i, IF i = MinDraft THEN "verification" ELSE "work", outcomes[i],
                      IF i = 1 THEN "in_progress" ELSE "pending")
<1> DEFINE items == [i \in 1..MinDraft |->
      NewItem(i, IF i = MinDraft THEN "verification" ELSE "work", outcomes[i],
              IF i = 1 THEN "in_progress" ELSE "pending")]
<1>1. MinDraft \in Nat
  BY ItemsAssumption
<1>2. outcomes \in Seq(Outcomes) /\ Len(outcomes) = MinDraft /\ DOMAIN outcomes = 1..MinDraft
  BY <1>1 DEF Drafts
<1>3. NewPlan(id, outcomes) = [id |-> id, items |-> items]
  BY <1>2 DEF NewPlan
<1>4. \A i \in 1..MinDraft : items[i] \in Items
  <2> SUFFICES ASSUME NEW i \in 1..MinDraft PROVE items[i] \in Items
    OBVIOUS
  <2>1. outcomes[i] \in Outcomes /\ i \in Nat
    BY <1>1 DEF Drafts
  <2> QED BY <2>1 DEF Items, NewItem
<1>5. items \in Seq(Items) /\ Len(items) = MinDraft
  BY <1>1, <1>4
<1>6. \A i \in 1..MinDraft : items[i] =
              NewItem(i, IF i = MinDraft THEN "verification" ELSE "work", outcomes[i],
                      IF i = 1 THEN "in_progress" ELSE "pending")
  OBVIOUS
<1> HIDE DEF items
<1> QED BY <1>3, <1>5, <1>6

LEMMA WriteTyped ==
  ASSUME TypeOK, NEW w \in Writes, NEW d \in Disks, Write(w, d)
  PROVE  disk' \in Disks /\ failed' \in {"no", "lost", "kept"}
BY DEF TypeOK, Write, Writes, Disks

LEMMA NoStepTyped ==
  ASSUME NoStep
  PROVE  /\ snap' \in States /\ durable' \in States /\ dirty' \in BOOLEAN
         /\ boundary' \in {"none", "create", "close"}
         /\ claimed' \in {"none", "other", "standalone"} /\ resumed' \in Nat
BY EmptyIs DEF NoStep, NoId

LEMMA ToolTyped ==
  ASSUME TypeOK, NEW w \in Writes, NEW s \in States, NEW p \in Nat, ToolMayRun,
         ToolRecorded(w, s, p)
  PROVE  /\ state' \in States /\ snap' \in States /\ durable' \in States
         /\ dirty' \in BOOLEAN /\ resumed' \in Nat
         /\ pc' \in {"tools", "stopped", "over"}
         /\ disk' \in Disks /\ failed' \in {"no", "lost", "kept"}
<1>1. disk \in Disks
  BY DEF TypeOK, Disks
<1>2. ResultRecord(s, p) \in Disks
  <2>1. s.plan.id \in Nat
    BY StatesAre
  <2> QED BY <1>1, <2>1 DEF ResultRecord, Disks
<1>3. disk' \in Disks /\ failed' \in {"no", "lost", "kept"}
  BY <1>2, WriteTyped DEF ToolRecorded
<1>4. CASE w = "ok"
  BY <1>3, <1>4 DEF ToolRecorded, TypeOK, ToolMayRun
<1>5. CASE w # "ok"
  <2>1. /\ state' = durable /\ snap' = EmptyState /\ durable' = EmptyState
        /\ dirty' = FALSE /\ resumed' = 0 /\ pc' \in {"stopped", "over"}
    BY <1>5 DEF ToolRecorded, Restored, LoopLeft, NoId
  <2> QED BY <1>3, <2>1, EmptyIs DEF TypeOK
<1> QED BY <1>4, <1>5

LEMMA ClaimTyped ==
  ASSUME NEW tool \in {"other", "standalone"}, NEW b \in {"none", "create", "close"},
         Claim(tool, b)
  PROVE  /\ claimed' \in {"none", "other", "standalone"}
         /\ boundary' \in {"none", "create", "close"}
BY DEF Claim

(* A tool leaves everything typed that leaves a typed state.                *)
LEMMA ToolStepTyped ==
  ASSUME TypeOK, NEW w \in Writes, NEW s \in States, NEW p \in Nat, ToolMayRun,
         ToolRecorded(w, s, p),
         NEW tool \in {"other", "standalone"}, NEW b \in {"none", "create", "close"},
         Claim(tool, b), UNCHANGED <<engaged, aborted, last, shown>>,
         plans' \in Nat, cut' \in Nat
  PROVE  TypeOK'
<1> USE DEF TypeOK, Disks
<1> QED BY ToolTyped, ClaimTyped

LEMMA CommitTyped ==
  ASSUME TypeOK, NEW w \in Writes, NEW s \in States, NEW changed \in BOOLEAN,
         NEW kind \in {"ask", "tools", "text"}, Commit(w, s, changed, kind)
  PROVE  TypeOK'
<1>1. disk \in Disks /\ s.plan.id \in Nat /\ s.plan \in [id : Nat, items : Seq(Items)]
  BY StatesAre DEF TypeOK, Disks
<1>2. StepRecord(s, changed) \in Disks
  BY <1>1 DEF StepRecord, Disks, TypeOK
<1>3. disk' \in Disks /\ failed' \in {"no", "lost", "kept"}
  BY <1>2, WriteTyped DEF Commit
<1>4. /\ state' \in States /\ shown' \in [id : Nat, items : Seq(Items)]
      /\ engaged' \in BOOLEAN
      /\ pc' \in {"turn", "stopped", "over"} /\ last' \in {"none", "ask", "tools", "text"}
  <2>1. CASE w = "ok"
    <3>1. state' = s /\ pc' = "turn" /\ last' = kind
          /\ shown' = (IF changed THEN s.plan ELSE shown)
      BY <2>1 DEF Commit
    <3>2. engaged' \in BOOLEAN
      BY <2>1 DEF Commit
    <3> QED BY <3>1, <3>2, <1>1 DEF TypeOK
  <2>2. CASE w # "ok"
    BY <2>2 DEF Commit, TypeOK, Restored, LoopLeft
  <2> QED BY <2>1, <2>2
<1>5. NoStep /\ UNCHANGED <<aborted, plans, cut>>
  BY DEF Commit
<1> QED BY <1>3, <1>4, <1>5, NoStepTyped DEF TypeOK, Disks

LEMMA TypesInit == Init => TypeOK
<1> SUFFICES ASSUME Init PROVE TypeOK
  OBVIOUS
<1>1. 0 \in Nat /\ NoId = 0
  BY DEF NoId
<1>2. disk \in Disks
  BY <1>1, EmptyIs DEF Init, Disks
<1>3. /\ state \in States /\ snap \in States /\ durable \in States
      /\ shown \in [id : Nat, items : Seq(Items)]
  BY EmptyIs DEF Init
<1>4. resumed \in Nat /\ plans \in Nat /\ cut \in Nat
  BY <1>1 DEF Init
<1> QED BY <1>2, <1>3, <1>4 DEF Init, TypeOK, Disks

LEMMA TurnTyped ==
  ASSUME TypeOK, NEW w \in Writes, NEW e \in BOOLEAN,
         StartTurn(w, e) \/ Stop \/ BeginStep \/ Compact(w) \/ StepDropped \/ ToolsBegin(w)
  PROVE  TypeOK'
<1>1. disk \in Disks /\ state.plan.id \in Nat
  BY StatesAre DEF TypeOK, Disks
<1>2. CASE StartTurn(w, e)
  <2>1. disk' \in Disks /\ failed' \in {"no", "lost", "kept"}
    <3> DEFINE d == [disk EXCEPT !.turn = TRUE, !.start = state, !.canRollBack = TRUE,
                                 !.engaged = IF e THEN state.plan.id ELSE NoId]
    <3>1. d \in Disks
      BY <1>1 DEF Disks, TypeOK, NoId
    <3> HIDE DEF d
    <3> QED BY <1>2, <3>1, WriteTyped DEF StartTurn, d
  <2> QED BY <1>2, <2>1 DEF StartTurn, TypeOK, Disks, stepVars
<1>3. CASE Stop
  BY <1>3 DEF Stop, TypeOK, stepVars
<1>4. CASE BeginStep
  BY <1>4 DEF BeginStep, TypeOK, NoId
<1>5. CASE Compact(w)
  <2>1. disk' \in Disks /\ failed' \in {"no", "lost", "kept"}
    <3> DEFINE d == [disk EXCEPT !.state = state, !.start = EmptyState, !.canRollBack = FALSE]
    <3>1. d \in Disks
      BY <1>1, EmptyIs DEF Disks, TypeOK
    <3> HIDE DEF d
    <3> QED BY <1>5, <3>1, WriteTyped DEF Compact, d
  <2>2. CASE w = "ok"
    BY <1>5, <2>1, <2>2 DEF Compact, TypeOK, Disks, stepVars
  <2>3. CASE w # "ok"
    BY <1>5, <2>1, <2>3, NoStepTyped DEF Compact, TypeOK, Disks, LoopLeft
  <2> QED BY <2>2, <2>3
<1>6. CASE StepDropped
  BY <1>6, NoStepTyped DEF StepDropped, TypeOK, LoopLeft
<1>7. CASE ToolsBegin(w)
  <2>1. disk' \in Disks /\ failed' \in {"no", "lost", "kept"}
    BY <1>1, <1>7, WriteTyped DEF ToolsBegin
  <2>2. CASE w = "ok"
    BY <1>7, <2>1, <2>2 DEF ToolsBegin, TypeOK, Disks, stepVars
  <2>3. CASE w # "ok"
    BY <1>7, <2>1, <2>3, NoStepTyped DEF ToolsBegin, TypeOK, Disks, LoopLeft
  <2> QED BY <2>2, <2>3
<1> QED BY <1>2, <1>3, <1>4, <1>5, <1>6, <1>7

LEMMA UpdateIs ==
  ASSUME TypeOK, NEW n \in Nat, NEW changes \in [1..n -> Changes(state.plan.items)],
         NEW t \in Transitions(state.plan.items),
         Accepted(state.plan.items, EditedItems(state.plan.items, changes, t))
  PROVE  /\ Keeps(state.plan.items, EditedItems(state.plan.items, changes, t))
         /\ EditedItems(state.plan.items, changes, t) \in Seq(Items)
<1>1. state.plan.items \in Seq(Items)
  BY StatesAre DEF TypeOK
<1>2. EditedItems(state.plan.items, changes, t) # Refused
  BY DEF Accepted
<1>3. Keeps(state.plan.items, EditedItems(state.plan.items, changes, t))
  BY <1>1, <1>2, EditsKeep
<1> QED BY <1>3 DEF Keeps

LEMMA ToolsTyped ==
  ASSUME TypeOK, NEW w \in Writes, Tools(w)
  PROVE  TypeOK'
<1>1. /\ state \in States /\ state.plan.id \in Nat /\ resumed \in Nat /\ plans \in Nat
      /\ cut \in Nat /\ boundary \in {"none", "create", "close"}
  BY StatesAre DEF TypeOK
<1>2. ASSUME NEW outcomes \in Drafts, CreateTool(w, outcomes) PROVE TypeOK'
  <2> DEFINE s == [version |-> state.version + 1, plan |-> NewPlan(plans + 1, outcomes),
                   reason |-> "none"]
  <2>1. s \in States
    <3>1. NewPlan(plans + 1, outcomes) \in [id : Nat, items : Seq(Items)]
      BY <1>1, NewPlanIs
    <3>2. state.version + 1 \in Nat
      BY <1>1, StatesAre
    <3> QED BY <3>1, <3>2 DEF States
  <2>2. /\ ToolMayRun /\ ToolRecorded(w, s, resumed) /\ Claim("standalone", "create")
        /\ plans' \in Nat /\ UNCHANGED <<engaged, aborted, last, shown, cut>>
    BY <1>1, <1>2 DEF CreateTool
  <2> HIDE DEF s
  <2> QED BY <1>1, <2>1, <2>2, ToolStepTyped
<1>3. CASE ResumeTool(w)
  <2> DEFINE s == IF ResumeRequired(state)
                  THEN [state EXCEPT !.version = @ + 1, !.reason = "none"] ELSE state
  <2>1. s \in States
    <3>1. Resumed(state) \in States
      BY <1>1, StatesAre
    <3> QED BY <1>1, <3>1 DEF Resumed
  <2>2. /\ ToolMayRun /\ ToolRecorded(w, s, state.plan.id) /\ Claim("standalone", boundary)
        /\ cut' \in Nat /\ UNCHANGED <<engaged, aborted, last, shown, plans>>
    BY <1>1, <1>3 DEF ResumeTool, NoId
  <2> HIDE DEF s
  <2> QED BY <1>1, <2>1, <2>2, ToolStepTyped
<1>4. ASSUME NEW n \in 0..MaxChanges, NEW changes \in [1..n -> Changes(state.plan.items)],
             NEW t \in Transitions(state.plan.items), UpdateTool(w, changes, t)
      PROVE  TypeOK'
  <2> DEFINE edited == EditedItems(state.plan.items, changes, t)
             s == IF Accepted(state.plan.items, edited)
                  THEN [state EXCEPT !.version = @ + 1, !.plan.items = edited] ELSE state
  <2>1. s \in States
    <3>1. Accepted(state.plan.items, edited) => edited \in Seq(Items)
      BY UpdateIs
    <3> HIDE DEF edited
    <3>2. Accepted(state.plan.items, edited) => Updated(state, edited) \in States
      BY <1>1, <3>1, EditedIs
    <3> QED BY <1>1, <3>2 DEF Updated
  <2>2. /\ ToolMayRun /\ ToolRecorded(w, s, resumed) /\ Claim("other", boundary)
        /\ UNCHANGED <<engaged, aborted, last, shown, plans, cut>>
    BY <1>4 DEF UpdateTool
  <2> HIDE DEF s
  <2> QED BY <1>1, <2>1, <2>2, ToolStepTyped
<1>5. CASE CloseTool(w)
  <2>1. Closed(state) \in States
    BY <1>1, StatesAre
  <2>2. /\ ToolMayRun /\ ToolRecorded(w, Closed(state), resumed)
        /\ Claim("standalone", "close")
        /\ UNCHANGED <<engaged, aborted, last, shown, plans, cut>>
    BY <1>5 DEF CloseTool
  <2> QED BY <1>1, <2>1, <2>2, ToolStepTyped
<1>6. CASE OtherTool(w)
  <2>1. /\ ToolMayRun /\ ToolRecorded(w, state, resumed) /\ Claim("other", boundary)
        /\ UNCHANGED <<engaged, aborted, last, shown, plans, cut>>
    BY <1>6 DEF OtherTool
  <2> QED BY <1>1, <2>1, ToolStepTyped
<1>7. 0..MaxChanges \subseteq Nat
  BY BoundsAssumption
<1> QED BY <1>2, <1>3, <1>4, <1>5, <1>6 DEF Tools

LEMMA EndTyped ==
  ASSUME TypeOK, NEW w \in Writes, NEW b \in BOOLEAN,
         \/ ToolsEnd(w, b) \/ TextEnds(w, b) \/ LeaveLoop \/ MarkStopped(w) \/ EndTurn(w)
         \/ Rollback \/ Restart
  PROVE  TypeOK'
<1>1. /\ disk \in Disks /\ state \in States /\ state.plan.id \in Nat
      /\ Closed(state) \in States /\ dirty \in BOOLEAN
  BY StatesAre DEF TypeOK, Disks
<1>2. CASE ToolsEnd(w, b)
  BY <1>1, <1>2, CommitTyped DEF ToolsEnd
<1>3. CASE TextEnds(w, b)
  BY <1>1, <1>3, CommitTyped DEF TextEnds
<1>4. CASE LeaveLoop
  BY <1>4 DEF LeaveLoop, TypeOK, stepVars
<1>5. ASSUME NEW d \in Disks, WriteIfPossible(w, d)
      PROVE  disk' \in Disks /\ failed' \in {"no", "lost", "kept"}
  BY <1>1, <1>5, WriteTyped DEF WriteIfPossible, TypeOK
<1>6. CASE MarkStopped(w)
  <2> DEFINE s == IF engaged THEN Interrupted(state, "user-cancel") ELSE state
             d == [disk EXCEPT !.state = IF s = state THEN @ ELSE s, !.engaged = NoId]
  <2>1. s \in States
    BY <1>1, StatesAre
  <2>2. d \in Disks
    <3> HIDE DEF s
    <3> QED BY <1>1, <2>1 DEF Disks, NoId
  <2>3. /\ state' = s /\ WriteIfPossible(w, d) /\ pc' = "over" /\ cut' \in Nat
        /\ UNCHANGED <<stepVars, engaged, aborted, last, shown, plans>>
    BY <1>1, <1>6 DEF MarkStopped, TypeOK
  <2> HIDE DEF s, d
  <2>4. disk' \in Disks /\ failed' \in {"no", "lost", "kept"}
    BY <1>5, <2>2, <2>3
  <2> QED BY <2>1, <2>3, <2>4 DEF TypeOK, Disks, stepVars
<1>7. CASE EndTurn(w)
  <2> DEFINE d == [disk EXCEPT !.turn = FALSE, !.engaged = NoId]
  <2>1. d \in Disks
    BY <1>1 DEF Disks, NoId
  <2>2. WriteIfPossible(w, d)
    BY <1>7 DEF EndTurn
  <2> HIDE DEF d
  <2>3. disk' \in Disks /\ failed' \in {"no", "lost", "kept"}
    BY <1>5, <2>1, <2>2
  <2> QED BY <1>7, <2>3 DEF EndTurn, TypeOK, Disks, stepVars
<1>8. CASE Rollback
  <2>1. disk.start \in States /\ disk.start.plan \in [id : Nat, items : Seq(Items)]
    BY <1>1, StatesAre DEF Disks
  <2>2. disk' \in Disks
    BY <1>1, <1>8, <2>1, EmptyIs DEF Rollback, Disks, NoId
  <2> QED BY <1>8, <2>1, <2>2 DEF Rollback, TypeOK, Disks, stepVars, NoId
<1>9. CASE Restart
  <2>1. Recovered \in States
    BY <1>1, StatesAre DEF Disks, Recovered
  <2>2. disk' \in Disks
    BY <1>1, <1>9, <2>1 DEF Restart, Disks, NoId
  <2>3. Recovered.plan \in [id : Nat, items : Seq(Items)]
    BY <2>1, StatesAre
  <2> QED BY <1>1, <1>9, <2>1, <2>2, <2>3, NoStepTyped DEF Restart, TypeOK, Disks
<1> QED BY <1>2, <1>3, <1>4, <1>6, <1>7, <1>8, <1>9

LEMMA TypesStep ==
  ASSUME TypeOK, [Next]_vars
  PROVE  TypeOK'
<1>1. CASE Next
  <2>1. Writes # {} /\ BOOLEAN # {} /\ "ok" \in Writes
    BY DEF Writes
  <2> QED BY <1>1, <2>1, TurnTyped, ToolsTyped, EndTyped DEF Next
<1>2. CASE UNCHANGED vars
  BY <1>2 DEF vars, stepVars, TypeOK
<1> QED BY <1>1, <1>2

(* Every variable of the controller, of the step around it and of the record *)
(* keeps its type, whatever the limits and the milestones (controller.ts).   *)
THEOREM TypeCorrect == Spec => []TypeOK
<1>1. TypeOK /\ [Next]_vars => TypeOK'
  BY TypesStep
<1> QED BY TypesInit, <1>1, PTL DEF Spec

-----------------------------------------------------------------------------
(* The states are ones their schema accepts.                                *)

LEMMA ValuesAre ==
  ASSUME NEW s \in States
  PROVE  /\ Closed(s).plan = NoPlan /\ Closed(s).reason = "none"
         /\ \A r \in {"user-cancel", "process-interruption"} :
              /\ Interrupted(s, r).plan = s.plan
              /\ HasPlan(s) => Interrupted(s, r).reason = r
              /\ ~HasPlan(s) => Interrupted(s, r) = s
         /\ Resumed(s).plan = s.plan /\ Resumed(s).reason = "none"
         /\ Resumed(s).version = s.version + 1
         /\ \A items : /\ Updated(s, items).plan.id = s.plan.id
                       /\ Updated(s, items).plan.items = items
                       /\ Updated(s, items).version = s.version + 1
                       /\ Updated(s, items).reason = s.reason
<1>1. Closed(s).plan = NoPlan /\ Closed(s).reason = "none"
  BY DEF Closed
<1>2. ASSUME NEW r \in {"user-cancel", "process-interruption"}
      PROVE  /\ Interrupted(s, r).plan = s.plan
             /\ HasPlan(s) => Interrupted(s, r).reason = r
             /\ ~HasPlan(s) => Interrupted(s, r) = s
  BY DEF Interrupted, States
<1>3. /\ Resumed(s).plan = s.plan /\ Resumed(s).reason = "none"
      /\ Resumed(s).version = s.version + 1
  BY DEF Resumed, States
<1>4. ASSUME NEW items
      PROVE  /\ Updated(s, items).plan.id = s.plan.id
             /\ Updated(s, items).plan.items = items
             /\ Updated(s, items).version = s.version + 1
             /\ Updated(s, items).reason = s.reason
  BY DEF Updated, States
<1> QED BY <1>1, <1>2, <1>3, <1>4

(* The states a step may go back to are valid as well.                      *)
ValidInv == PlanValid /\ StateValid(snap) /\ StateValid(durable)

LEMMA NewPlanValid ==
  ASSUME NEW id \in Nat, NEW outcomes \in Drafts
  PROVE  ItemsValid(NewPlan(id, outcomes).items)
<1> DEFINE items == NewPlan(id, outcomes).items
<1>1. /\ MinDraft \in Nat /\ 1 < MinDraft /\ MinDraft \in MinItems..MaxItems
  BY ItemsAssumption
<1>2. /\ items \in Seq(Items) /\ Len(items) = MinDraft
      /\ \A i \in 1..MinDraft : items[i] =
              NewItem(i, IF i = MinDraft THEN "verification" ELSE "work", outcomes[i],
                      IF i = 1 THEN "in_progress" ELSE "pending")
  BY NewPlanIs
<1> HIDE DEF items
<1>3. DOMAIN items = 1..MinDraft
  BY <1>1, <1>2
<1>4. \A i \in 1..MinDraft :
        /\ items[i].id = i /\ items[i].evidence = "none"
        /\ (items[i].kind = "verification") <=> (i = MinDraft)
        /\ (items[i].status = "in_progress") <=> (i = 1)
        /\ items[i].status # "completed"
  <2> SUFFICES ASSUME NEW i \in 1..MinDraft
               PROVE  /\ items[i].id = i /\ items[i].evidence = "none"
                      /\ (items[i].kind = "verification") <=> (i = MinDraft)
                      /\ (items[i].status = "in_progress") <=> (i = 1)
                      /\ items[i].status # "completed"
    OBVIOUS
  <2>1. items[i] = NewItem(i, IF i = MinDraft THEN "verification" ELSE "work", outcomes[i],
                      IF i = 1 THEN "in_progress" ELSE "pending")
    BY <1>2
  <2> QED BY <2>1 DEF NewItem
<1>5. Ids(items) = 1..MinDraft
  BY <1>3, <1>4 DEF Ids
<1>6. Cardinality(Ids(items)) = MinDraft
  BY <1>1, <1>5, FS_Interval
<1>7. ItemsValid(items)
  BY <1>1, <1>2, <1>3, <1>4, <1>6 DEF ItemsValid
<1> QED BY <1>7 DEF items

LEMMA ValidOps ==
  ASSUME NEW s \in States, StateValid(s)
  PROVE  /\ StateValid(Closed(s)) /\ StateValid(EmptyState)
         /\ \A r \in {"user-cancel", "process-interruption"} : StateValid(Interrupted(s, r))
         /\ StateValid(Resumed(s))
         /\ \A items : HasPlan(s) /\ items # <<>> /\ ItemsValid(items)
              => StateValid(Updated(s, items))
<1> USE ValuesAre DEF StateValid, HasPlan, ResumeRequired
<1>1. StateValid(Closed(s)) /\ StateValid(EmptyState)
  BY DEF EmptyState
<1>2. ASSUME NEW r \in {"user-cancel", "process-interruption"}
      PROVE  StateValid(Interrupted(s, r))
  <2>1. CASE Interrupted(s, r) = s
    BY <2>1
  <2>2. CASE Interrupted(s, r) # s
    <3>1. HasPlan(s) /\ Interrupted(s, r).plan = s.plan
      BY <2>2 DEF Interrupted
    <3> QED BY <3>1
  <2> QED BY <2>1, <2>2
<1>3. StateValid(Resumed(s))
  OBVIOUS
<1>4. ASSUME NEW items, items # <<>>, ItemsValid(items)
      PROVE  StateValid(Updated(s, items))
  <2>1. Updated(s, items).plan # NoPlan
    BY <1>4 DEF NoPlan
  <2> QED BY <1>4, <2>1
<1> QED BY <1>1, <1>2, <1>3, <1>4

LEMMA ValidInit == Init => ValidInv
BY DEF Init, ValidInv, PlanValid, StateValid, HasPlan, ResumeRequired, EmptyState

LEMMA ToolValid ==
  ASSUME TypeOK, ValidInv, NEW w \in Writes, NEW s \in States, StateValid(s), NEW p \in Nat,
         ToolRecorded(w, s, p)
  PROVE  ValidInv'
<1>1. disk \in Disks
  BY DEF TypeOK, Disks
<1>2. ResultRecord(s, p).state \in {disk.state, s} /\ ResultRecord(s, p).start = disk.start
  BY <1>1 DEF ResultRecord, Disks
<1>3. disk' \in {disk, ResultRecord(s, p)}
  BY DEF ToolRecorded, Write
<1>4. StateValid(disk.state) /\ StateValid(disk.start)
  BY DEF ValidInv, PlanValid
<1>5. StateValid(disk'.state) /\ StateValid(disk'.start)
  BY <1>2, <1>3, <1>4
<1>6. state' \in {s, durable} /\ durable' \in {s, EmptyState} /\ snap' \in {snap, EmptyState}
  BY DEF ToolRecorded, Restored
<1>7. StateValid(EmptyState)
  BY ValidOps
<1>8. StateValid(state') /\ StateValid(durable') /\ StateValid(snap')
  BY <1>6, <1>7 DEF ValidInv
<1> QED BY <1>5, <1>8 DEF ValidInv, PlanValid

LEMMA CommitValid ==
  ASSUME TypeOK, ValidInv, NEW w \in Writes, NEW s \in States, StateValid(s),
         NEW changed \in BOOLEAN, NEW kind, Commit(w, s, changed, kind)
  PROVE  ValidInv'
<1>1. disk \in Disks
  BY DEF TypeOK, Disks
<1>2. StepRecord(s, changed).state \in {disk.state, s}
      /\ StepRecord(s, changed).start = disk.start
  BY <1>1 DEF StepRecord, Disks
<1>3. disk' \in {disk, StepRecord(s, changed)}
  BY DEF Commit, Write
<1>4. StateValid(disk.state) /\ StateValid(disk.start)
  BY DEF ValidInv, PlanValid
<1>5. StateValid(disk'.state) /\ StateValid(disk'.start)
  BY <1>2, <1>3, <1>4
<1>6. state' \in {s, durable} /\ durable' = EmptyState /\ snap' = EmptyState
  BY DEF Commit, Restored, NoStep
<1>7. StateValid(EmptyState)
  BY ValidOps
<1>8. StateValid(state') /\ StateValid(durable') /\ StateValid(snap')
  BY <1>6, <1>7 DEF ValidInv
<1> QED BY <1>5, <1>8 DEF ValidInv, PlanValid

LEMMA ToolsValid ==
  ASSUME TypeOK, ValidInv, NEW w \in Writes, Tools(w)
  PROVE  ValidInv'
<1>1. /\ state \in States /\ StateValid(state) /\ state.plan.id \in Nat /\ resumed \in Nat
      /\ plans \in Nat
  BY StatesAre DEF TypeOK, ValidInv, PlanValid
<1>2. ASSUME NEW outcomes \in Drafts, CreateTool(w, outcomes) PROVE ValidInv'
  <2> DEFINE s == [version |-> state.version + 1, plan |-> NewPlan(plans + 1, outcomes),
                   reason |-> "none"]
  <2>1. s \in States
    <3>1. NewPlan(plans + 1, outcomes) \in [id : Nat, items : Seq(Items)]
      BY <1>1, NewPlanIs
    <3>2. state.version + 1 \in Nat
      BY <1>1, StatesAre
    <3> QED BY <3>1, <3>2 DEF States
  <2>2. ItemsValid(s.plan.items)
    BY <1>1, NewPlanValid
  <2>3. StateValid(s)
    BY <2>2 DEF StateValid, ResumeRequired
  <2>4. ToolRecorded(w, s, resumed)
    BY <1>2 DEF CreateTool
  <2> HIDE DEF s
  <2> QED BY <1>1, <2>1, <2>3, <2>4, ToolValid
<1>3. CASE ResumeTool(w)
  <2> DEFINE s == IF ResumeRequired(state) THEN Resumed(state) ELSE state
  <2>1. s \in States /\ StateValid(s)
    BY <1>1, StatesAre, ValidOps
  <2>2. ToolRecorded(w, s, state.plan.id)
    BY <1>3 DEF ResumeTool, Resumed
  <2> HIDE DEF s
  <2> QED BY <1>1, <2>1, <2>2, ToolValid
<1>4. ASSUME NEW n \in 0..MaxChanges, NEW changes \in [1..n -> Changes(state.plan.items)],
             NEW t \in Transitions(state.plan.items), UpdateTool(w, changes, t)
      PROVE  ValidInv'
  <2> DEFINE edited == EditedItems(state.plan.items, changes, t)
             s == IF Accepted(state.plan.items, edited) THEN Updated(state, edited) ELSE state
  <2>1. Accepted(state.plan.items, edited)
          => edited \in Seq(Items) /\ edited # <<>> /\ ItemsValid(edited)
    BY UpdateIs DEF Accepted, Refused
  <2>2. HasPlan(state) /\ ToolRecorded(w, s, resumed)
    BY <1>4 DEF UpdateTool, MayUpdate, Updated
  <2> HIDE DEF edited
  <2>3. s \in States
    BY <1>1, <2>1, EditedIs
  <2>4. StateValid(s)
    BY <1>1, <2>1, <2>2, ValidOps
  <2> HIDE DEF s
  <2> QED BY <1>1, <2>2, <2>3, <2>4, ToolValid
<1>5. CASE CloseTool(w)
  <2>1. Closed(state) \in States /\ StateValid(Closed(state))
    BY <1>1, StatesAre, ValidOps
  <2>2. ToolRecorded(w, Closed(state), resumed)
    BY <1>5 DEF CloseTool
  <2> QED BY <1>1, <2>1, <2>2, ToolValid
<1>6. CASE OtherTool(w)
  BY <1>1, <1>6, ToolValid DEF OtherTool
<1>7. 0..MaxChanges \subseteq Nat
  BY BoundsAssumption
<1> QED BY <1>2, <1>3, <1>4, <1>5, <1>6 DEF Tools

LEMMA OthersValid ==
  ASSUME TypeOK, ValidInv, NEW w \in Writes, NEW b \in BOOLEAN,
         \/ StartTurn(w, b) \/ Stop \/ BeginStep \/ Compact(w) \/ StepDropped \/ ToolsBegin(w)
         \/ ToolsEnd(w, b) \/ TextEnds(w, b) \/ LeaveLoop \/ MarkStopped(w) \/ EndTurn(w)
         \/ Rollback \/ Restart
  PROVE  ValidInv'
<1>1. /\ disk \in Disks /\ state \in States /\ disk.state \in States /\ dirty \in BOOLEAN
      /\ Closed(state) \in States
  BY StatesAre DEF TypeOK, Disks
<1>2. /\ StateValid(state) /\ StateValid(disk.state) /\ StateValid(disk.start)
      /\ StateValid(snap) /\ StateValid(durable) /\ StateValid(EmptyState)
      /\ StateValid(Closed(state))
      /\ \A r \in {"user-cancel", "process-interruption"} :
           StateValid(Interrupted(state, r)) /\ StateValid(Interrupted(disk.state, r))
  BY <1>1, ValidOps DEF ValidInv, PlanValid
<1> USE DEF ValidInv, PlanValid
<1>3. CASE StartTurn(w, b)
  <2>1. disk'.state = disk.state /\ disk'.start \in {disk.start, state}
    BY <1>1, <1>3 DEF StartTurn, Write, Disks
  <2> QED BY <1>2, <1>3, <2>1 DEF StartTurn, stepVars
<1>4. CASE Stop \/ LeaveLoop
  BY <1>2, <1>4 DEF Stop, LeaveLoop, stepVars
<1>5. CASE BeginStep
  BY <1>2, <1>5 DEF BeginStep
<1>6. CASE Compact(w)
  <2>1. disk'.state \in {disk.state, state} /\ disk'.start \in {disk.start, EmptyState}
    BY <1>1, <1>6 DEF Compact, Write, Disks
  <2>2. /\ state' \in {state, snap} /\ snap' \in {snap, EmptyState}
        /\ durable' \in {durable, EmptyState}
    BY <1>6 DEF Compact, NoStep, stepVars
  <2> QED BY <1>2, <2>1, <2>2
<1>7. CASE StepDropped
  BY <1>2, <1>7 DEF StepDropped, NoStep
<1>8. CASE ToolsBegin(w)
  <2>1. disk' = disk
    BY <1>8 DEF ToolsBegin, Write
  <2>2. /\ state' \in {state, snap} /\ snap' \in {snap, EmptyState}
        /\ durable' \in {durable, EmptyState}
    BY <1>8 DEF ToolsBegin, NoStep, stepVars
  <2> QED BY <1>2, <2>1, <2>2
<1>9. CASE ToolsEnd(w, b)
  BY <1>1, <1>2, <1>9, CommitValid DEF ToolsEnd
<1>10. CASE TextEnds(w, b)
  BY <1>1, <1>2, <1>10, CommitValid DEF TextEnds
<1>11. CASE MarkStopped(w)
  <2>1. state' \in {state, Interrupted(state, "user-cancel")} /\ UNCHANGED <<snap, durable>>
    BY <1>11 DEF MarkStopped, stepVars
  <2>2. disk'.state \in {disk.state, state'} /\ disk'.start = disk.start
    BY <1>1, <1>11 DEF MarkStopped, WriteIfPossible, Write, Disks
  <2> QED BY <1>2, <2>1, <2>2
<1>12. CASE EndTurn(w)
  <2>1. disk'.state = disk.state /\ disk'.start = disk.start
    BY <1>1, <1>12 DEF EndTurn, WriteIfPossible, Write, Disks
  <2> QED BY <1>2, <1>12, <2>1 DEF EndTurn, stepVars
<1>13. CASE Rollback
  <2>1. disk'.state = disk.start /\ disk'.start = EmptyState
    BY <1>1, <1>13 DEF Rollback, Disks
  <2> QED BY <1>2, <1>13, <2>1 DEF Rollback, stepVars
<1>14. CASE Restart
  <2>1. StateValid(Recovered)
    BY <1>2 DEF Recovered
  <2>2. disk'.state = Recovered /\ disk'.start = disk.start
    BY <1>1, <1>14 DEF Restart, Disks
  <2> QED BY <1>2, <1>14, <2>1, <2>2 DEF Restart, NoStep
<1> QED BY <1>3, <1>4, <1>5, <1>6, <1>7, <1>8, <1>9, <1>10, <1>11, <1>12, <1>13, <1>14

LEMMA ValidStep ==
  ASSUME TypeOK, ValidInv, [Next]_vars
  PROVE  ValidInv'
<1>1. CASE Next
  <2>1. BOOLEAN # {} /\ "ok" \in Writes
    BY DEF Writes
  <2> QED BY <1>1, <2>1, ToolsValid, OthersValid DEF Next
<1>2. CASE UNCHANGED vars
  BY <1>2 DEF vars, stepVars, ValidInv, PlanValid
<1> QED BY <1>1, <1>2

(* No sequence of edits, failures and rollbacks leads to a plan that its own *)
(* schema would refuse: parse() in create, finish, clone and open is safe.  *)
THEOREM PlansAreValid == Spec => []PlanValid
<1>1. TypeOK /\ ValidInv /\ [Next]_vars => ValidInv'
  BY ValidStep
<1>2. ValidInv => PlanValid
  BY DEF ValidInv
<1> QED BY ValidInit, TypeCorrect, <1>1, <1>2, PTL DEF Spec

-----------------------------------------------------------------------------
(* Where a turn stands: what it would go back to, what is on record.        *)

InLoop == pc \in {"turn", "model", "tools"}

(* Where a step stands: what it would go back to, what it has on record, and *)
(* the plan it has resumed, after which it runs no other tool.              *)
StepInv ==
  /\ InLoop => failed = "no" /\ disk.turn
  /\ pc = "model" => snap = state
  /\ pc \in {"model", "tools"} => durable = state
  /\ dirty => pc = "tools"
  /\ failed = "no" /\ ~dirty => shown = state.plan
  /\ resumed # NoId => pc = "tools" /\ claimed = "standalone" /\ resumed = state.plan.id
  /\ pc = "stopped" => state.plan = disk.state.plan

(* What the transcript says of the plan the turn executes.                  *)
EngagedInv ==
  /\ InLoop /\ engaged => disk.engaged = state.plan.id
  /\ pc = "stopped" /\ engaged => disk.turn /\ disk.engaged = disk.state.plan.id
  /\ pc = "over" /\ engaged =>
       \/ disk.turn /\ disk.engaged = disk.state.plan.id
       \/ ResumeRequired(disk.state)
  /\ pc = "idle" => ~engaged

LoopInv == StepInv /\ EngagedInv /\ ViewsAgree /\ EngagementIsRecorded

LEMMA LoopInit == Init => LoopInv
BY DEF Init, LoopInv, StepInv, EngagedInv, ViewsAgree, EngagementIsRecorded, InLoop,
       EmptyState, NoId

LEMMA ToolLoop ==
  ASSUME TypeOK, LoopInv, NEW w \in Writes, NEW s \in States, NEW p \in Nat, ToolMayRun,
         ToolRecorded(w, s, p), s = state \/ s.version # state.version,
         p # NoId => p = s.plan.id,
         NEW tool, NEW b, Claim(tool, b), p # NoId => tool = "standalone",
         UNCHANGED <<engaged, aborted, last, shown>>
  PROVE  LoopInv'
<1>1. disk \in Disks
  BY DEF TypeOK, Disks
<1>2. /\ pc = "tools" /\ ~aborted /\ failed = "no" /\ disk.turn /\ durable = state
      /\ state = disk.state /\ (engaged => disk.engaged = state.plan.id)
      /\ disk.engaged \in {NoId, disk.state.plan.id}
      /\ (~dirty => shown = state.plan)
  BY DEF ToolMayRun, LoopInv, StepInv, EngagedInv, ViewsAgree, EngagementIsRecorded, InLoop
<1> DEFINE d == ResultRecord(s, p)
<1>3. /\ d.state = s /\ d.turn = TRUE /\ d.engaged \in {NoId, s.plan.id}
      /\ engaged => d.engaged = s.plan.id
  BY <1>1, <1>2 DEF ResultRecord, Disks
<1> HIDE DEF d
<1>4. CASE w = "ok"
  <2>1. /\ disk' = d /\ failed' = "no" /\ state' = s /\ durable' = s /\ resumed' = p
        /\ dirty' = (dirty \/ s.version # state.version) /\ pc' = "tools" /\ snap' = snap
    BY <1>2, <1>4 DEF ToolRecorded, Write, d
  <2>2. claimed' = tool
    BY <2>1 DEF Claim
  <2>3. StepInv'
    BY <1>2, <1>3, <2>1, <2>2 DEF StepInv, InLoop
  <2>4. EngagedInv'
    BY <1>2, <1>3, <2>1 DEF EngagedInv, InLoop
  <2>5. ViewsAgree' /\ EngagementIsRecorded'
    BY <1>2, <1>3, <2>1 DEF ViewsAgree, EngagementIsRecorded
  <2> QED BY <2>3, <2>4, <2>5 DEF LoopInv
<1>5. CASE w # "ok"
  <2>1. /\ failed' = w /\ w \in {"lost", "kept"} /\ state' = state
        /\ disk' = (IF w = "lost" THEN disk ELSE d)
        /\ dirty' = FALSE /\ pc' = "over" /\ resumed' = NoId
    BY <1>2, <1>5 DEF ToolRecorded, Write, Writes, d, Restored, LoopLeft
  <2>3. StepInv'
    BY <2>1 DEF StepInv, InLoop
  <2>4. EngagedInv'
    BY <1>2, <1>3, <2>1 DEF EngagedInv, InLoop
  <2>5. ViewsAgree' /\ EngagementIsRecorded'
    BY <1>2, <1>3, <2>1 DEF ViewsAgree, EngagementIsRecorded
  <2> QED BY <2>3, <2>4, <2>5 DEF LoopInv
<1> QED BY <1>4, <1>5

(* What the tools leave: the state s, recorded with the engagement p.       *)
ToolLeaves(w, s, p, tool, b) ==
  /\ ToolMayRun /\ ToolRecorded(w, s, p) /\ Claim(tool, b)
  /\ UNCHANGED <<engaged, aborted, last, shown>>
  /\ p # NoId => p = s.plan.id /\ tool = "standalone"

ToolTypes(s, p, tool, b) ==
  /\ s \in States /\ p \in Nat /\ tool \in {"other", "standalone"}
  /\ b \in {"none", "create", "close"}

Created(s) ==
  /\ plans' = plans + 1 /\ cut' = cut /\ ~HasPlan(state)
  /\ s.version = state.version + 1 /\ s.reason = "none"
  /\ s.plan.id = plans + 1 /\ HasPlan(s)
ResumedBy(s) ==
  /\ plans' = plans /\ ResumeRequired(state) /\ s = Resumed(state)
  /\ cut' = IF disk'.state.plan.id = cut /\ ~ResumeRequired(disk'.state)
            THEN NoId ELSE cut
UpdatedBy(s) ==
  /\ plans' = plans /\ cut' = cut /\ ~ResumeRequired(state) /\ HasPlan(state)
  /\ \E items \in Seq(Items) :
       Keeps(state.plan.items, items) /\ items # <<>> /\ s = Updated(state, items)
ClosedBy(s) == plans' = plans /\ cut' = cut /\ HasPlan(state) /\ s = Closed(state)
LeftAlone(s) == plans' = plans /\ cut' \in {cut, NoId} /\ s = state

LEMMA ToolKinds ==
  ASSUME TypeOK, LoopInv, NEW w \in Writes, Tools(w)
  PROVE  \E s, p, tool, b :
           /\ ToolTypes(s, p, tool, b) /\ ToolLeaves(w, s, p, tool, b)
           /\ Created(s) \/ ResumedBy(s) \/ UpdatedBy(s) \/ ClosedBy(s) \/ LeftAlone(s)
<1> USE DEF ToolTypes, ToolLeaves
<1>1. /\ state \in States /\ state.plan.id \in Nat /\ resumed \in Nat /\ plans \in Nat
      /\ boundary \in {"none", "create", "close"}
      /\ \A tool \in {"other", "standalone"} : MayClaim(tool) => resumed = NoId
  <2>1. resumed # NoId => claimed = "standalone"
    BY DEF LoopInv, StepInv
  <2>2. ASSUME NEW tool \in {"other", "standalone"}, MayClaim(tool) PROVE resumed = NoId
    BY <2>1, <2>2 DEF MayClaim
  <2> QED BY <2>2, StatesAre DEF TypeOK
<1>2. ASSUME NEW outcomes \in Drafts, CreateTool(w, outcomes)
      PROVE  \E s, p, tool, b : /\ ToolTypes(s, p, tool, b) /\ ToolLeaves(w, s, p, tool, b)
                                /\ Created(s)
  <2> DEFINE s == [version |-> state.version + 1, plan |-> NewPlan(plans + 1, outcomes),
                   reason |-> "none"]
  <2>1. s \in States
    <3>1. NewPlan(plans + 1, outcomes) \in [id : Nat, items : Seq(Items)]
      BY <1>1, NewPlanIs
    <3>2. state.version + 1 \in Nat
      BY <1>1, StatesAre
    <3> QED BY <3>1, <3>2 DEF States
  <2>2. s.plan.id = plans + 1 /\ s.plan # NoPlan
    <3>1. plans + 1 # 0
      BY <1>1
    <3> QED BY <3>1 DEF NewPlan, NoPlan, NoId
  <2>3. s.version = state.version + 1 /\ s.reason = "none"
    OBVIOUS
  <2>4. /\ ToolMayRun /\ ToolRecorded(w, s, resumed) /\ Claim("standalone", "create")
        /\ UNCHANGED <<engaged, aborted, last, shown>>
        /\ resumed = NoId
    BY <1>1, <1>2 DEF CreateTool
  <2>5. plans' = plans + 1 /\ cut' = cut /\ ~HasPlan(state)
    BY <1>2 DEF CreateTool
  <2> HIDE DEF s
  <2>6. Created(s)
    BY <2>2, <2>3, <2>5 DEF Created, HasPlan
  <2>7. ToolTypes(s, resumed, "standalone", "create")
        /\ ToolLeaves(w, s, resumed, "standalone", "create")
    BY <1>1, <2>1, <2>4
  <2> QED BY <2>6, <2>7
<1>3. ASSUME ResumeTool(w)
      PROVE  \E s, p, tool, b : /\ ToolTypes(s, p, tool, b) /\ ToolLeaves(w, s, p, tool, b)
                                /\ ResumedBy(s) \/ LeftAlone(s)
  <2> DEFINE s == IF ResumeRequired(state) THEN Resumed(state) ELSE state
  <2>1. s \in States /\ s.plan.id = state.plan.id
    BY <1>1, StatesAre, ValuesAre
  <2>2. /\ ToolMayRun /\ ToolRecorded(w, s, state.plan.id) /\ Claim("standalone", boundary)
        /\ UNCHANGED <<engaged, aborted, last, shown>> /\ plans' = plans
        /\ cut' = (IF disk'.state.plan.id = cut /\ ~ResumeRequired(disk'.state)
                   THEN NoId ELSE cut)
    BY <1>3 DEF ResumeTool, Resumed
  <2>3. ResumedBy(s) \/ LeftAlone(s)
    BY <2>2 DEF ResumedBy, LeftAlone
  <2> HIDE DEF s
  <2>4. ToolTypes(s, state.plan.id, "standalone", boundary)
        /\ ToolLeaves(w, s, state.plan.id, "standalone", boundary)
    BY <1>1, <2>1, <2>2
  <2> QED BY <2>3, <2>4
<1>4. ASSUME NEW n \in 0..MaxChanges, NEW changes \in [1..n -> Changes(state.plan.items)],
             NEW t \in Transitions(state.plan.items), UpdateTool(w, changes, t)
      PROVE  \E s, p, tool, b : /\ ToolTypes(s, p, tool, b) /\ ToolLeaves(w, s, p, tool, b)
                                /\ UpdatedBy(s) \/ LeftAlone(s)
  <2> DEFINE edited == EditedItems(state.plan.items, changes, t)
             s == IF Accepted(state.plan.items, edited) THEN Updated(state, edited) ELSE state
  <2>0. n \in Nat
    BY BoundsAssumption
  <2>1. Accepted(state.plan.items, edited)
          => edited \in Seq(Items) /\ edited # <<>> /\ Keeps(state.plan.items, edited)
    BY <2>0, UpdateIs DEF Accepted, Refused
  <2>2. /\ ToolMayRun /\ ToolRecorded(w, s, resumed) /\ Claim("other", boundary)
        /\ UNCHANGED <<engaged, aborted, last, shown>> /\ plans' = plans /\ cut' = cut
        /\ resumed = NoId /\ ~ResumeRequired(state) /\ HasPlan(state)
    BY <1>1, <1>4 DEF UpdateTool, MayUpdate, Updated
  <2> HIDE DEF edited
  <2>3. s \in States
    BY <1>1, <2>1, EditedIs
  <2>4. UpdatedBy(s) \/ LeftAlone(s)
    BY <2>1, <2>2 DEF UpdatedBy, LeftAlone
  <2> HIDE DEF s
  <2>5. ToolTypes(s, resumed, "other", boundary) /\ ToolLeaves(w, s, resumed, "other", boundary)
    BY <1>1, <2>2, <2>3
  <2> QED BY <2>4, <2>5
<1>5. ASSUME CloseTool(w)
      PROVE  \E s, p, tool, b : /\ ToolTypes(s, p, tool, b) /\ ToolLeaves(w, s, p, tool, b)
                                /\ ClosedBy(s)
  <2>1. /\ ToolMayRun /\ ToolRecorded(w, Closed(state), resumed)
        /\ Claim("standalone", "close") /\ HasPlan(state)
        /\ UNCHANGED <<engaged, aborted, last, shown>> /\ plans' = plans /\ cut' = cut
        /\ resumed = NoId
    BY <1>1, <1>5 DEF CloseTool
  <2>2. ClosedBy(Closed(state))
    BY <2>1 DEF ClosedBy
  <2>3. Closed(state) \in States
    BY <1>1, StatesAre
  <2>4. ToolTypes(Closed(state), resumed, "standalone", "close")
        /\ ToolLeaves(w, Closed(state), resumed, "standalone", "close")
    BY <1>1, <2>1, <2>3
  <2> QED BY <2>2, <2>4
<1>6. ASSUME OtherTool(w)
      PROVE  \E s, p, tool, b : /\ ToolTypes(s, p, tool, b) /\ ToolLeaves(w, s, p, tool, b)
                                /\ LeftAlone(s)
  <2>1. /\ ToolMayRun /\ ToolRecorded(w, state, resumed) /\ Claim("other", boundary)
        /\ UNCHANGED <<engaged, aborted, last, shown>> /\ plans' = plans /\ cut' = cut
        /\ resumed = NoId
    BY <1>1, <1>6 DEF OtherTool
  <2>2. ToolTypes(state, resumed, "other", boundary)
        /\ ToolLeaves(w, state, resumed, "other", boundary) /\ LeftAlone(state)
    BY <1>1, <2>1 DEF LeftAlone
  <2> QED BY <2>2
<1> USE DEF Tools
<1> HIDE DEF ToolTypes, ToolLeaves
<1> QED BY <1>2, <1>3, <1>4, <1>5, <1>6

LEMMA ToolsLoop ==
  ASSUME TypeOK, LoopInv, NEW w \in Writes, Tools(w)
  PROVE  LoopInv'
<1>1. PICK s, p, tool, b :
        /\ ToolTypes(s, p, tool, b) /\ ToolLeaves(w, s, p, tool, b)
        /\ Created(s) \/ ResumedBy(s) \/ UpdatedBy(s) \/ ClosedBy(s) \/ LeftAlone(s)
  BY ToolKinds
<1>2. state \in States /\ state.version \in Nat
  BY StatesAre DEF TypeOK
<1>3. s = state \/ s.version = state.version + 1
  BY <1>1, <1>2, ValuesAre
     DEF Created, ResumedBy, UpdatedBy, ClosedBy, LeftAlone, Closed
<1>4. s = state \/ s.version # state.version
  BY <1>2, <1>3
<1> QED BY <1>1, <1>4, ToolLoop DEF ToolTypes, ToolLeaves

LEMMA CommitLoop ==
  ASSUME TypeOK, LoopInv, NEW w \in Writes, NEW s \in States, NEW changed \in BOOLEAN,
         NEW kind, Commit(w, s, changed, kind), pc \in {"model", "tools"},
         \/ s = state /\ changed = dirty
         \/ s = Closed(state) /\ changed = TRUE /\ ~aborted,
         aborted => s = state
  PROVE  LoopInv'
<1>1. disk \in Disks /\ state \in States /\ dirty \in BOOLEAN
  BY DEF TypeOK, Disks
<1>2. /\ failed = "no" /\ disk.turn /\ durable = state
      /\ state = disk.state /\ (engaged => disk.engaged = state.plan.id)
      /\ disk.engaged \in {NoId, disk.state.plan.id}
      /\ (~dirty => shown = state.plan)
      /\ (resumed # NoId => resumed = state.plan.id)
  BY DEF LoopInv, StepInv, EngagedInv, ViewsAgree, EngagementIsRecorded, InLoop
<1> DEFINE d == StepRecord(s, changed)
<1>3. /\ d.turn = TRUE /\ d.engaged \in {NoId, s.plan.id}
      /\ d.state = s
  BY <1>1, <1>2 DEF StepRecord, Disks, Closed, NoPlan
<1>4. ~changed => s = state /\ d.engaged = IF resumed = NoId THEN disk.engaged ELSE resumed
  BY <1>1, <1>2 DEF StepRecord, Disks
<1>5. changed => d.engaged = s.plan.id
  BY <1>1 DEF StepRecord, Disks
<1> HIDE DEF d
<1>6. NoStep /\ UNCHANGED <<aborted, plans, cut>>
  BY DEF Commit
<1>7. CASE w = "ok"
  <2>1. /\ disk' = d /\ failed' = "no" /\ state' = s /\ pc' = "turn"
        /\ shown' = (IF changed THEN s.plan ELSE shown)
        /\ engaged' /\ ~changed => engaged \/ resumed # NoId
    BY <1>7 DEF Commit, Write, d
  <2>2. engaged' => d.engaged = s.plan.id
    <3>1. CASE changed
      BY <1>5, <3>1
    <3>2. CASE ~changed
      BY <1>2, <1>4, <2>1, <3>2
    <3> QED BY <3>1, <3>2
  <2>3. shown' = s.plan
    BY <1>2, <1>4, <2>1
  <2>4. StepInv'
    BY <1>3, <1>6, <2>1, <2>3 DEF StepInv, InLoop, NoStep
  <2>5. EngagedInv'
    BY <2>1, <2>2 DEF EngagedInv, InLoop
  <2>6. ViewsAgree' /\ EngagementIsRecorded'
    BY <1>3, <2>1, <2>2, <2>3 DEF ViewsAgree, EngagementIsRecorded
  <2> QED BY <2>4, <2>5, <2>6 DEF LoopInv
<1>8. CASE w # "ok"
  <2>1. /\ failed' = w /\ w \in {"lost", "kept"} /\ state' = state /\ engaged' = engaged
        /\ disk' = (IF w = "lost" THEN disk ELSE d)
        /\ pc' = (IF aborted THEN "stopped" ELSE "over")
    BY <1>2, <1>8 DEF Commit, Write, Writes, d, Restored, LoopLeft
  <2>2. StepInv'
    BY <1>2, <1>3, <1>6, <2>1 DEF StepInv, InLoop, NoStep
  <2>3. engaged => disk'.turn /\ disk'.engaged = disk'.state.plan.id
    <3>1. CASE w = "lost"
      BY <1>2, <2>1, <3>1
    <3>2. CASE w # "lost" /\ changed
      BY <1>3, <1>5, <2>1, <3>2
    <3>3. CASE w # "lost" /\ ~changed
      BY <1>2, <1>3, <1>4, <2>1, <3>3
    <3> QED BY <3>1, <3>2, <3>3
  <2>4. EngagedInv'
    BY <2>1, <2>3 DEF EngagedInv, InLoop
  <2>5. ViewsAgree' /\ EngagementIsRecorded'
    BY <1>2, <1>3, <2>1 DEF ViewsAgree, EngagementIsRecorded
  <2> QED BY <2>2, <2>4, <2>5 DEF LoopInv
<1> QED BY <1>7, <1>8

LEMMA OthersLoop ==
  ASSUME TypeOK, LoopInv, NEW w \in Writes, NEW b \in BOOLEAN,
         \/ StartTurn(w, b) \/ Stop \/ BeginStep \/ Compact(w) \/ StepDropped \/ ToolsBegin(w)
         \/ ToolsEnd(w, b) \/ TextEnds(w, b) \/ LeaveLoop \/ MarkStopped(w) \/ EndTurn(w)
         \/ Rollback \/ Restart
  PROVE  LoopInv'
<1>1. /\ disk \in Disks /\ state \in States /\ dirty \in BOOLEAN /\ disk.state \in States
      /\ Closed(state) \in States /\ failed \in {"no", "lost", "kept"}
      /\ pc \in {"idle", "turn", "model", "tools", "stopped", "over"}
      /\ aborted \in BOOLEAN
  BY StatesAre DEF TypeOK, Disks
<1> USE DEF InLoop
<1>3. CASE StartTurn(w, b)
  <2> DEFINE d == [disk EXCEPT !.turn = TRUE, !.start = state, !.canRollBack = TRUE,
                               !.engaged = IF b THEN state.plan.id ELSE NoId]
  <2>1. d.turn = TRUE /\ d.state = disk.state
        /\ d.engaged = (IF b THEN state.plan.id ELSE NoId)
    BY <1>1 DEF Disks
  <2> HIDE DEF d
  <2>2. Write(w, d)
    BY <1>3 DEF StartTurn, d
  <2>3. StepInv' /\ EngagedInv' /\ ViewsAgree' /\ EngagementIsRecorded'
    BY <1>3, <2>1, <2>2 DEF StartTurn, stepVars, Write, LoopInv, StepInv, EngagedInv, ViewsAgree,
       EngagementIsRecorded, Writes
  <2> QED BY <2>3 DEF LoopInv
<1>4. CASE Stop
  BY <1>4 DEF Stop, stepVars, LoopInv, StepInv, EngagedInv, ViewsAgree, EngagementIsRecorded
<1>5. CASE BeginStep
  BY <1>5 DEF BeginStep, LoopInv, StepInv, EngagedInv, ViewsAgree, EngagementIsRecorded
<1>6. CASE Compact(w)
  <2> DEFINE d == [disk EXCEPT !.state = state, !.start = EmptyState, !.canRollBack = FALSE]
  <2>1. d.turn = disk.turn /\ d.state = state /\ d.engaged = disk.engaged
    BY <1>1 DEF Disks
  <2> HIDE DEF d
  <2>2. Write(w, d)
    BY <1>6 DEF Compact, d
  <2>3. CASE w = "ok"
    BY <1>6, <2>1, <2>2, <2>3 DEF Compact, stepVars, Write, LoopInv, StepInv, EngagedInv,
       ViewsAgree, EngagementIsRecorded
  <2>4. CASE w # "ok"
    BY <1>6, <2>1, <2>2, <2>4 DEF Compact, NoStep, LoopLeft, Write, Writes, LoopInv, StepInv,
       EngagedInv, ViewsAgree, EngagementIsRecorded
  <2> QED BY <2>3, <2>4
<1>7. CASE StepDropped
  BY <1>7 DEF StepDropped, NoStep, LoopLeft, LoopInv, StepInv, EngagedInv,
     ViewsAgree, EngagementIsRecorded
<1>8. CASE ToolsBegin(w)
  <2>1. disk' = disk /\ failed' = (IF w = "ok" THEN "no" ELSE w)
    BY <1>8 DEF ToolsBegin, Write
  <2>3. CASE w = "ok"
    BY <1>8, <2>1, <2>3 DEF ToolsBegin, stepVars, LoopInv, StepInv, EngagedInv,
       ViewsAgree, EngagementIsRecorded
  <2>4. CASE w # "ok"
    BY <1>8, <2>1, <2>4 DEF ToolsBegin, NoStep, LoopLeft, Writes, LoopInv, StepInv,
       EngagedInv, ViewsAgree, EngagementIsRecorded
  <2> QED BY <2>3, <2>4
<1>9. CASE ToolsEnd(w, b)
  BY <1>1, <1>9, CommitLoop DEF ToolsEnd
<1>10. CASE TextEnds(w, b)
  <2>1. pc = "model" /\ ~aborted /\ dirty = FALSE
    BY <1>1, <1>10 DEF TextEnds, LoopInv, StepInv
  <2>2. CASE b
    BY <1>1, <1>10, <2>1, <2>2, CommitLoop DEF TextEnds
  <2>3. CASE ~b
    BY <1>1, <1>10, <2>1, <2>3, CommitLoop DEF TextEnds
  <2> QED BY <2>2, <2>3
<1>11. CASE LeaveLoop
  BY <1>11 DEF LeaveLoop, stepVars, LoopInv, StepInv, EngagedInv, ViewsAgree, EngagementIsRecorded
<1>12. CASE MarkStopped(w)
  <2> DEFINE s == IF engaged THEN Interrupted(state, "user-cancel") ELSE state
             d == [disk EXCEPT !.state = IF s = state THEN @ ELSE s, !.engaged = NoId]
  <2>1. /\ d.turn = disk.turn /\ d.state = (IF s = state THEN disk.state ELSE s)
        /\ d.engaged = NoId
    BY <1>1 DEF Disks
  <2>2. s.plan = state.plan /\ (engaged /\ HasPlan(state) => ResumeRequired(s))
        /\ (~HasPlan(state) => s = state)
    BY <1>1, ValuesAre DEF ResumeRequired
  <2>3. /\ state' = s /\ WriteIfPossible(w, d) /\ pc' = "over" /\ pc = "stopped"
        /\ UNCHANGED <<stepVars, engaged, aborted, last, shown, plans>>
    BY <1>12 DEF MarkStopped
  <2> HIDE DEF s, d
  <2>4. StepInv'
    BY <2>1, <2>2, <2>3 DEF LoopInv, StepInv, stepVars, WriteIfPossible, Write
  <2>5. ViewsAgree' /\ EngagementIsRecorded'
    BY <2>1, <2>2, <2>3 DEF LoopInv, StepInv, ViewsAgree, EngagementIsRecorded, stepVars,
       WriteIfPossible, Write
  <2>6. EngagedInv'
    BY <1>1, <2>1, <2>2, <2>3 DEF LoopInv, StepInv, EngagedInv, ViewsAgree, stepVars,
       WriteIfPossible, Write, NoId, HasPlan, NoPlan
  <2> QED BY <2>4, <2>5, <2>6 DEF LoopInv
<1>13. CASE EndTurn(w)
  <2> DEFINE d == [disk EXCEPT !.turn = FALSE, !.engaged = NoId]
  <2>1. d.state = disk.state /\ d.engaged = NoId
    BY <1>1 DEF Disks
  <2> HIDE DEF d
  <2>2. WriteIfPossible(w, d)
    BY <1>13 DEF EndTurn, d
  <2>3. StepInv' /\ EngagedInv' /\ ViewsAgree' /\ EngagementIsRecorded'
    BY <1>13, <2>1, <2>2 DEF EndTurn, stepVars, WriteIfPossible, Write, Writes, LoopInv,
       StepInv, EngagedInv, ViewsAgree, EngagementIsRecorded
  <2> QED BY <2>3 DEF LoopInv
<1>14. CASE Rollback
  <2>1. /\ disk'.state = disk.start /\ disk'.engaged = NoId
    BY <1>1, <1>14 DEF Rollback, Disks
  <2> QED BY <1>14, <2>1 DEF Rollback, stepVars, LoopInv, StepInv, EngagedInv, ViewsAgree,
       EngagementIsRecorded
<1>15. CASE Restart
  <2>1. /\ disk'.state = Recovered /\ disk'.engaged = NoId
    BY <1>1, <1>15 DEF Restart, Disks
  <2> QED BY <1>15, <2>1 DEF Restart, NoStep, LoopInv, StepInv, EngagedInv, ViewsAgree,
       EngagementIsRecorded
<1> QED BY <1>3, <1>4, <1>5, <1>6, <1>7, <1>8, <1>9, <1>10, <1>11, <1>12, <1>13, <1>14, <1>15

-----------------------------------------------------------------------------
(* The life of a plan.                                                      *)

LEMMA LoopStep ==
  ASSUME TypeOK, LoopInv, [Next]_vars
  PROVE  LoopInv'
<1>1. CASE Next
  <2>1. BOOLEAN # {} /\ "ok" \in Writes
    BY DEF Writes
  <2> QED BY <1>1, <2>1, ToolsLoop, OthersLoop DEF Next
<1>2. CASE UNCHANGED vars
  BY <1>2 DEF vars, stepVars, LoopInv, StepInv, EngagedInv, ViewsAgree, EngagementIsRecorded,
     InLoop
<1> QED BY <1>1, <1>2

(* Ids are given once, and 0 to no plan.                                    *)
HasId(s) == HasPlan(s) <=> s.plan.id # NoId
IdsInv ==
  /\ state.plan.id <= plans /\ disk.state.plan.id <= plans
  /\ disk.start.plan.id <= plans /\ cut <= plans
  /\ HasId(state) /\ HasId(disk.state) /\ HasId(disk.start)

(* A plan that was cut short waits in memory, and in the transcript unless  *)
(* a restart is still to find the turn that executed it.                    *)
CutInv ==
  /\ cut # NoId /\ state.plan.id = cut => ResumeRequired(state)
  /\ cut # NoId /\ disk.state.plan.id = cut =>
       \/ ResumeRequired(disk.state)
       \/ disk.turn /\ disk.engaged = cut
  /\ cut # NoId /\ state.plan.id = cut /\ disk.state.plan.id = cut
       => state.plan = disk.state.plan

PlanInv == IdsInv /\ CutInv

(* What a step may not do: CutPlanWaits and CompletedStays.                  *)
CutStep ==
  pc # "idle" /\ cut # NoId /\ cut' = cut /\ cut = state.plan.id /\ cut = state'.plan.id
    => state'.plan = state.plan
CompletedStep ==
  \/ Rollback
  \/ disk'.state.plan.id # disk.state.plan.id
  \/ Completed(disk.state) \subseteq Completed(disk'.state)

LEMMA PlanInit == Init => PlanInv
BY DEF Init, PlanInv, IdsInv, CutInv, HasId, HasPlan, EmptyState, NoPlan, NoId

LEMMA ToolsPlan ==
  ASSUME TypeOK, LoopInv, PlanInv, NEW w \in Writes, Tools(w)
  PROVE  PlanInv' /\ CutStep /\ CompletedStep
<1>1. PICK s, p, tool, b :
        /\ ToolTypes(s, p, tool, b) /\ ToolLeaves(w, s, p, tool, b)
        /\ Created(s) \/ ResumedBy(s) \/ UpdatedBy(s) \/ ClosedBy(s) \/ LeftAlone(s)
  BY ToolKinds
<1>2. /\ state \in States /\ disk \in Disks /\ plans \in Nat /\ cut \in Nat
      /\ state.plan.id \in Nat /\ state.plan.items \in Seq(Items) /\ state.version \in Nat
      /\ s \in States /\ s.plan.id \in Nat /\ s.version \in Nat
      /\ disk.start \in States /\ disk.start.plan.id \in Nat
  BY <1>1, StatesAre DEF TypeOK, Disks, ToolTypes
<1>3. pc = "tools" /\ failed = "no" /\ durable = state /\ state = disk.state
  BY <1>1 DEF ToolLeaves, ToolMayRun, LoopInv, StepInv, ViewsAgree, InLoop
<1>4. s = state \/ s.version # state.version
  <2>1. s = state \/ s.version = state.version + 1
    BY <1>1, <1>2, ValuesAre DEF Created, ResumedBy, UpdatedBy, ClosedBy, LeftAlone, Closed
  <2> QED BY <1>2, <2>1
<1>5. /\ state' \in {s, state} /\ disk'.state \in {s, state} /\ disk'.start = disk.start
      /\ w = "ok" => state' = s
      /\ w # "lost" => disk'.state = s
      /\ w = "lost" => disk'.state = state
      /\ w # "ok" => state' = state
  <2>1. ResultRecord(s, p).state = s /\ ResultRecord(s, p).start = disk.start
    BY <1>2, <1>3, <1>4 DEF ResultRecord, Disks
  <2> QED BY <1>1, <1>3, <2>1 DEF ToolLeaves, ToolRecorded, Write, Restored, Writes
<1>6. /\ state.plan.id <= plans /\ disk.start.plan.id <= plans /\ cut <= plans
      /\ HasId(state) /\ HasId(disk.start)
      /\ cut # NoId /\ state.plan.id = cut => ResumeRequired(state)
  BY DEF PlanInv, IdsInv, CutInv
(* Of what a tool leaves, only an update touches the items.                 *)
<1>7. /\ plans' \in Nat /\ plans' >= plans /\ s.plan.id <= plans' /\ HasId(s)
      /\ cut' \in {cut, NoId}
      /\ cut' # NoId /\ cut' = s.plan.id /\ w # "lost" => ResumeRequired(s) /\ s.plan = state.plan
      /\ s.plan.id = state.plan.id => Completed(state) \subseteq Completed(s)
  <2>1. CASE Created(s)
    BY <1>2, <1>6, <2>1 DEF Created, HasId, NoId
  <2>2. CASE ResumedBy(s)
    <3>1. s.plan = state.plan /\ s.reason = "none"
      BY <1>2, <2>2, ValuesAre DEF ResumedBy
    <3>2. w # "lost" /\ cut' = s.plan.id => cut' = NoId
      BY <1>5, <2>2, <3>1 DEF ResumedBy, ResumeRequired
    <3> QED BY <1>2, <1>6, <2>2, <3>1, <3>2 DEF ResumedBy, HasId, HasPlan, Completed
  <2>3. CASE UpdatedBy(s)
    <3>1. PICK items \in Seq(Items) : Keeps(state.plan.items, items) /\ items # <<>>
                                      /\ s = Updated(state, items)
      BY <2>3 DEF UpdatedBy
    <3>2. s.plan.id = state.plan.id /\ s.plan.items = items
      BY <1>2, <3>1, ValuesAre
    <3>3. Completed(state) \subseteq Completed(s)
      BY <3>1, <3>2 DEF Completed, Keeps
    <3>4. HasPlan(state) /\ HasPlan(s)
      BY <2>3, <3>1, <3>2 DEF UpdatedBy, HasPlan, NoPlan
    <3> QED BY <1>2, <1>6, <2>3, <3>2, <3>3, <3>4 DEF UpdatedBy, HasId
  <2>4. CASE ClosedBy(s)
    <3>1. s.plan = NoPlan /\ s.plan.id = NoId
      BY <1>2, <2>4, ValuesAre DEF ClosedBy, NoPlan
    <3>2. state.plan.id # NoId
      BY <1>6, <2>4 DEF ClosedBy, HasId
    <3> QED BY <1>2, <2>4, <3>1, <3>2 DEF ClosedBy, HasId, HasPlan, NoId
  <2>5. CASE LeftAlone(s)
    BY <1>2, <1>6, <2>5 DEF LeftAlone
  <2> QED BY <1>1, <2>1, <2>2, <2>3, <2>4, <2>5
<1>8. IdsInv'
  <2>1. /\ state.plan.id <= plans' /\ disk.start.plan.id <= plans' /\ cut' <= plans'
        /\ s.plan.id <= plans'
    BY <1>2, <1>6, <1>7 DEF NoId
  <2>2. /\ state'.plan.id <= plans' /\ disk'.state.plan.id <= plans'
        /\ disk'.start.plan.id <= plans'
    BY <1>5, <2>1
  <2>3. HasId(state') /\ HasId(disk'.state) /\ HasId(disk'.start)
    BY <1>5, <1>6, <1>7
  <2> QED BY <2>1, <2>2, <2>3 DEF IdsInv, HasId, HasPlan
<1>9. CutInv'
  BY <1>5, <1>6, <1>7 DEF CutInv, ResumeRequired
<1>10. CutStep
  BY <1>5, <1>7 DEF CutStep
<1>11. CompletedStep
  BY <1>3, <1>5, <1>7 DEF CompletedStep
<1> QED BY <1>8, <1>9, <1>10, <1>11 DEF PlanInv

(* A step of the plan's state as the remaining actions make it: every state  *)
(* is one that was there, closed, or with its execution interrupted.        *)
LEMMA CommitPlan ==
  ASSUME TypeOK, LoopInv, PlanInv, NEW w \in Writes, NEW s \in States,
         NEW changed \in BOOLEAN, NEW kind, Commit(w, s, changed, kind),
         pc \in {"model", "tools"},
         s = state \/ (s = Closed(state) /\ changed = TRUE /\ HasPlan(state))
  PROVE  PlanInv' /\ CutStep /\ CompletedStep
<1>1. /\ state \in States /\ disk \in Disks /\ plans \in Nat /\ cut \in Nat
      /\ state.plan.id \in Nat
  BY StatesAre DEF TypeOK, Disks
<1>2. durable = state /\ state = disk.state
  BY DEF LoopInv, StepInv, ViewsAgree, InLoop
<1>3. /\ state' \in {s, state} /\ disk'.state \in {s, state} /\ disk'.start = disk.start
      /\ cut' = cut /\ plans' = plans
  <2>1. StepRecord(s, changed).state = s /\ StepRecord(s, changed).start = disk.start
    BY <1>1, <1>2 DEF StepRecord, Disks
  <2> QED BY <1>2, <2>1 DEF Commit, Write, Restored
<1>4. /\ state.plan.id <= plans /\ disk.start.plan.id <= plans /\ cut <= plans
      /\ HasId(state) /\ HasId(disk.start)
      /\ cut # NoId /\ state.plan.id = cut => ResumeRequired(state)
  BY DEF PlanInv, IdsInv, CutInv
<1>5. s # state => s.plan = NoPlan /\ s.plan.id = NoId /\ state.plan.id # NoId
  BY <1>1, <1>4, ValuesAre DEF NoPlan, HasId
<1>6. s.plan.id <= plans /\ HasId(s)
  BY <1>1, <1>4, <1>5 DEF HasId, HasPlan, NoId
<1>7. IdsInv'
  <2>1. /\ state'.plan.id <= plans /\ disk'.state.plan.id <= plans
        /\ disk'.start.plan.id <= plans
    BY <1>3, <1>4, <1>6
  <2>2. HasId(state') /\ HasId(disk'.state) /\ HasId(disk'.start)
    BY <1>3, <1>4, <1>6
  <2> QED BY <1>3, <1>4, <2>1, <2>2 DEF IdsInv, HasId, HasPlan
<1>8. CutInv'
  BY <1>3, <1>4, <1>5 DEF CutInv, ResumeRequired
<1>9. CutStep
  BY <1>3, <1>5 DEF CutStep
<1>10. CompletedStep
  BY <1>2, <1>3, <1>5 DEF CompletedStep
<1> QED BY <1>7, <1>8, <1>9, <1>10 DEF PlanInv

LEMMA OthersPlan ==
  ASSUME TypeOK, LoopInv, PlanInv, NEW w \in Writes, NEW b \in BOOLEAN,
         \/ StartTurn(w, b) \/ Stop \/ BeginStep \/ Compact(w) \/ StepDropped \/ ToolsBegin(w)
         \/ ToolsEnd(w, b) \/ TextEnds(w, b) \/ LeaveLoop \/ MarkStopped(w) \/ EndTurn(w)
         \/ Rollback \/ Restart
  PROVE  PlanInv' /\ CutStep /\ CompletedStep
<1>1. /\ disk \in Disks /\ state \in States /\ dirty \in BOOLEAN /\ disk.state \in States
      /\ Closed(state) \in States /\ failed \in {"no", "lost", "kept"}
      /\ disk.start \in States /\ state.plan.id \in Nat /\ plans \in Nat /\ cut \in Nat
      /\ engaged \in BOOLEAN
  BY StatesAre DEF TypeOK, Disks
<1>2. ASSUME state' = state, disk'.state = disk.state, disk'.start \in {disk.start, state},
             cut' = cut, plans' = plans,
             failed = "no" \/ (disk'.turn = disk.turn /\ disk'.engaged = disk.engaged)
      PROVE  PlanInv' /\ CutStep /\ CompletedStep
  <2>1. IdsInv'
    BY <1>2 DEF PlanInv, IdsInv, HasId, HasPlan
  <2>2. CutInv'
    <3>1. failed = "no" => state = disk.state
      BY DEF LoopInv, ViewsAgree
    <3> QED BY <1>2, <3>1 DEF PlanInv, CutInv, ResumeRequired
  <2> QED BY <1>2, <2>1, <2>2 DEF PlanInv, CutStep, CompletedStep
<1>3. CASE StartTurn(w, b)
  <2>1. disk'.state = disk.state /\ disk'.start \in {disk.start, state}
    BY <1>1, <1>3 DEF StartTurn, Write, Disks
  <2>2. state' = state /\ cut' = cut /\ plans' = plans /\ failed = "no"
    BY <1>3 DEF StartTurn
  <2> QED BY <1>2, <2>1, <2>2
<1>4. CASE Stop
  BY <1>2, <1>4 DEF Stop
<1>5. CASE BeginStep
  BY <1>2, <1>5 DEF BeginStep
<1>6. CASE Compact(w)
  <2> USE DEF PlanInv, IdsInv, CutInv, HasId, HasPlan, ResumeRequired, CutStep, CompletedStep
  <2>1. disk.state = state /\ snap = state
    BY <1>6 DEF Compact, LoopInv, StepInv, ViewsAgree, InLoop
  <2>2. /\ disk'.state = state /\ disk'.start \in {disk.start, EmptyState}
        /\ state' = state /\ cut' = cut /\ plans' = plans
        /\ disk'.turn = disk.turn /\ disk'.engaged = disk.engaged
    BY <1>1, <1>6, <2>1 DEF Compact, Write, Disks
  <2>3. EmptyState.plan.id <= plans /\ EmptyState.plan = NoPlan /\ EmptyState.plan.id = NoId
    BY <1>1 DEF EmptyState, NoPlan, NoId
  <2> QED BY <2>1, <2>2, <2>3
<1>7. CASE StepDropped
  <2>1. state' = state
    BY <1>7 DEF StepDropped, LoopInv, StepInv
  <2> QED BY <1>2, <1>7, <2>1 DEF StepDropped
<1>8. CASE ToolsBegin(w)
  <2>1. state' = state /\ disk' = disk
    BY <1>8 DEF ToolsBegin, Write, LoopInv, StepInv
  <2> QED BY <1>2, <1>8, <2>1 DEF ToolsBegin
<1>9. CASE ToolsEnd(w, b)
  <2>1. PICK kind : Commit(w, state, dirty, kind) /\ pc = "tools"
    BY <1>9 DEF ToolsEnd
  <2> QED BY <1>1, <2>1, CommitPlan
<1>10. CASE TextEnds(w, b)
  <2>1. CASE b
    BY <1>1, <1>10, <2>1, CommitPlan DEF TextEnds
  <2>2. CASE ~b
    <3>1. FALSE \in BOOLEAN /\ Commit(w, state, FALSE, "text") /\ pc = "model"
      BY <1>10, <2>2 DEF TextEnds
    <3> QED BY <1>1, <3>1, CommitPlan
  <2> QED BY <2>1, <2>2
<1>11. CASE LeaveLoop
  BY <1>2, <1>11 DEF LeaveLoop
<1>12. CASE MarkStopped(w)
  <2> USE DEF PlanInv, IdsInv, CutInv, HasId, HasPlan, ResumeRequired, CutStep, CompletedStep
  <2> DEFINE s == IF engaged THEN Interrupted(state, "user-cancel") ELSE state
             d == [disk EXCEPT !.state = IF s = state THEN @ ELSE s, !.engaged = NoId]
  <2>1. /\ d.turn = disk.turn /\ d.state = (IF s = state THEN disk.state ELSE s)
        /\ d.engaged = NoId /\ d.start = disk.start
    BY <1>1 DEF Disks
  <2>2. s.plan = state.plan /\ (engaged /\ HasPlan(state) => ResumeRequired(s))
        /\ (~(engaged /\ HasPlan(state)) => s = state)
    BY <1>1, ValuesAre
  <2>3. /\ state' = s /\ WriteIfPossible(w, d) /\ pc = "stopped" /\ plans' = plans
        /\ cut' = (IF engaged /\ HasPlan(state) THEN state.plan.id ELSE cut)
    BY <1>12 DEF MarkStopped
  <2> HIDE DEF s, d
  <2>4. /\ disk' \in {disk, d} /\ (failed # "no" => disk' = disk)
    BY <2>3 DEF WriteIfPossible, Write
  <2>5. /\ state.plan = disk.state.plan /\ (failed = "no" => state = disk.state)
        /\ (engaged => disk.turn /\ disk.engaged = disk.state.plan.id)
    BY <2>3 DEF LoopInv, StepInv, ViewsAgree, EngagedInv
  <2>6. disk'.state.plan = state.plan /\ disk'.start = disk.start
    BY <2>1, <2>2, <2>4, <2>5
  <2>7. IdsInv'
    BY <2>2, <2>3, <2>5, <2>6
  <2>8. CutInv'
    <3>1. CASE engaged /\ HasPlan(state)
      BY <2>1, <2>2, <2>3, <2>4, <2>5, <2>6, <3>1
    <3>2. CASE ~(engaged /\ HasPlan(state))
      BY <2>1, <2>2, <2>3, <2>4, <2>5, <2>6, <3>2
    <3> QED BY <3>1, <3>2
  <2> QED BY <2>2, <2>3, <2>5, <2>6, <2>7, <2>8 DEF Completed
<1>13. CASE EndTurn(w)
  <2>1. disk'.state = disk.state /\ disk'.start = disk.start
    BY <1>1, <1>13 DEF EndTurn, WriteIfPossible, Write, Disks
  <2>2. failed = "no" \/ disk' = disk
    BY <1>13 DEF EndTurn, WriteIfPossible
  <2>3. state' = state /\ cut' = cut /\ plans' = plans
    BY <1>13 DEF EndTurn
  <2> QED BY <1>2, <2>1, <2>2, <2>3
<1>14. CASE Rollback
  <2> USE DEF PlanInv, IdsInv, CutInv, HasId, HasPlan, ResumeRequired, CutStep, CompletedStep
  <2>1. /\ disk'.state = disk.start /\ disk'.start = EmptyState /\ state' = disk.start
        /\ plans' = plans /\ pc = "idle"
        /\ cut' = (IF disk.start.plan.id = cut /\ ~ResumeRequired(disk.start)
                   THEN NoId ELSE cut)
    BY <1>1, <1>14 DEF Rollback, Disks
  <2>2. EmptyState.plan.id <= plans /\ EmptyState.plan = NoPlan /\ EmptyState.plan.id = NoId
    BY <1>1 DEF EmptyState, NoPlan, NoId
  <2>3. cut' <= plans
    BY <1>1, <2>1 DEF NoId
  <2> QED BY <1>14, <2>1, <2>2, <2>3
<1>15. CASE Restart
  <2> USE DEF PlanInv, IdsInv, CutInv, HasId, HasPlan, ResumeRequired, CutStep, CompletedStep
  <2>1. /\ disk'.state = Recovered /\ disk'.start = disk.start /\ state' = Recovered
        /\ plans' = plans
        /\ cut' = (IF engaged /\ HasPlan(state) THEN state.plan.id ELSE cut)
    BY <1>1, <1>15 DEF Restart, Disks
  <2>2. /\ Recovered.plan = disk.state.plan
        /\ disk.turn /\ HasPlan(disk.state) /\ disk.engaged = disk.state.plan.id
             => ResumeRequired(Recovered)
        /\ ResumeRequired(disk.state) => ResumeRequired(Recovered)
    BY <1>1, ValuesAre DEF Recovered
  <2>3. engaged => \/ disk.turn /\ disk.engaged = disk.state.plan.id
                   \/ ResumeRequired(disk.state)
                   \/ disk.turn /\ disk.engaged = state.plan.id
    BY DEF LoopInv, StepInv, EngagedInv, InLoop, TypeOK
  <2>4. IdsInv'
    BY <2>1, <2>2
  <2>5. CutInv'
    <3>1. CASE engaged /\ HasPlan(state)
      BY <2>1, <2>2, <2>3, <3>1
    <3>2. CASE ~(engaged /\ HasPlan(state))
      BY <2>1, <2>2, <3>2
    <3> QED BY <3>1, <3>2
  <2>6. CutStep
    BY <2>1, <2>2
  <2>7. CompletedStep
    BY <2>1, <2>2 DEF Completed
  <2> QED BY <2>4, <2>5, <2>6, <2>7
<1> QED BY <1>3, <1>4, <1>5, <1>6, <1>7, <1>8, <1>9, <1>10, <1>11, <1>12, <1>13, <1>14, <1>15

LEMMA PlanStep ==
  ASSUME TypeOK, LoopInv, PlanInv, [Next]_vars
  PROVE  PlanInv' /\ (UNCHANGED vars \/ (CutStep /\ CompletedStep))
<1>1. CASE Next
  <2>1. BOOLEAN # {} /\ "ok" \in Writes
    BY DEF Writes
  <2> QED BY <1>1, <2>1, ToolsPlan, OthersPlan DEF Next
<1>2. CASE UNCHANGED vars
  BY <1>2 DEF vars, stepVars, PlanInv, IdsInv, CutInv, HasId, HasPlan, ResumeRequired
<1> QED BY <1>1, <1>2

-----------------------------------------------------------------------------
(* The theorems about engagement, views and the life of a plan.              *)

LEMMA Invariants == Spec => [](TypeOK /\ LoopInv /\ PlanInv)
<1>1. Init => LoopInv /\ PlanInv
  BY LoopInit, PlanInit
<1>2. TypeOK /\ LoopInv /\ PlanInv /\ [Next]_vars => LoopInv' /\ PlanInv'
  BY LoopStep, PlanStep
<1> QED BY <1>1, <1>2, TypeCorrect, PTL DEF Spec

(* The controller, the transcript and the plan shown are the same at every   *)
(* boundary of a step, whatever record failed and whatever became of it: the *)
(* catch block of runOneStep restores the last record (session.ts 2866).     *)
THEOREM ViewsStayTogether == Spec => []ViewsAgree
<1>1. LoopInv => ViewsAgree
  BY DEF LoopInv
<1> QED BY <1>1, Invariants, PTL

(* The transcript names the plan a turn executes, and no plan but the active *)
(* one: what recoverInterruptedWork needs to interrupt the right plan        *)
(* (store.ts 1444).                                                          *)
THEOREM EngagementIsKept == Spec => []EngagementIsRecorded
<1>1. LoopInv => EngagementIsRecorded
  BY DEF LoopInv
<1> QED BY <1>1, Invariants, PTL

(* A plan cut short by a stop or by the death of the process asks to be      *)
(* resumed, and no turn touches its milestones until it has been             *)
(* (session.ts 1717 and 1961).                                               *)
THEOREM CutPlansWait == Spec => CutPlanWaits
<1>1. PlanInv => (pc = "idle" /\ cut # NoId /\ state.plan.id = cut => ResumeRequired(state))
  BY DEF PlanInv, CutInv
<1>2. TypeOK /\ LoopInv /\ PlanInv /\ [Next]_vars
        => [pc # "idle" /\ cut # NoId /\ cut' = cut /\ cut = state.plan.id
              /\ cut = state'.plan.id => state'.plan = state.plan]_vars
  BY PlanStep DEF CutStep
<1> QED BY <1>1, <1>2, Invariants, PTL DEF Spec, CutPlanWaits

(* A milestone recorded as completed is never altered, removed or reopened   *)
(* while its plan lives, except by a rollback: no sequence of edits and      *)
(* transitions of UpdateTaskItem, no failed record and no restart undoes it  *)
(* (controller.ts).                                                          *)
THEOREM CompletedMilestonesStay == Spec => CompletedStays
<1>1. TypeOK /\ LoopInv /\ PlanInv /\ [Next]_vars
        => [\/ Rollback
            \/ disk'.state.plan.id # disk.state.plan.id
            \/ Completed(disk.state) \subseteq Completed(disk'.state)]_vars
  BY PlanStep DEF CompletedStep
<1> QED BY <1>1, Invariants, PTL DEF Spec, CompletedStays
=============================================================================
