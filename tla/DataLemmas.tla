----------------------------- MODULE DataLemmas -----------------------------
(***************************************************************************)
(* Induction over data for the proofs of this directory, in a form without *)
(* operator parameters: a set of naturals has a least element, because the *)
(* strict subsets of a finite set are well founded; from that, induction    *)
(* over a set, greatest and least elements, and the existence of the        *)
(* function a fold over a sequence computes.  At the end, what sequences    *)
(* that hold nothing twice hold after an edit.                              *)
(***************************************************************************)
EXTENDS Queues, FiniteSetTheorems, WellFoundedInduction, TLAPS

(* A set of naturals that is not empty has a least element.                 *)
THEOREM Least ==
  ASSUME NEW T, T \subseteq Nat, T # {}
  PROVE  \E x \in T : \A y \in T : x <= y
<1> DEFINE R == StrictSubsetOrdering(Nat)
           F == {1..x : x \in T}
<1>1. IsWellFoundedOn(R, FiniteSubsetsOf(Nat))
  BY FS_StrictSubsetOrderingWellFounded
<1>2. F \subseteq FiniteSubsetsOf(Nat)
  <2> SUFFICES ASSUME NEW x \in T PROVE 1..x \in FiniteSubsetsOf(Nat)
    OBVIOUS
  <2>1. IsFiniteSet(1..x)
    BY FS_Interval
  <2> QED
    BY <2>1 DEF FiniteSubsetsOf
<1>3. F # {}
  OBVIOUS
<1>4. \E s \in F : \A z \in F : ~(<<z, s>> \in R)
  <2> HIDE DEF R, F
  <2> QED BY <1>1, <1>2, <1>3, WFMin
<1>5. PICK x \in T : \A y \in T : ~(<<1..y, 1..x>> \in R)
  BY <1>4
<1>6. \A y \in T : x <= y
  <2> SUFFICES ASSUME NEW y \in T, y < x PROVE FALSE
    OBVIOUS
  <2>1. 1..y \in SUBSET Nat /\ 1..x \in SUBSET Nat
    OBVIOUS
  <2>2. x \in 1..x /\ x \notin 1..y /\ 1..y \subseteq 1..x
    OBVIOUS
  <2>3. 1..y # 1..x
    BY <2>2
  <2>4. <<1..y, 1..x>> \in R
    BY <2>1, <2>2, <2>3 DEF StrictSubsetOrdering
  <2> QED BY <1>5, <2>4
<1> QED BY <1>6

(* Induction up to n.                                                       *)
THEOREM InductionTo ==
  ASSUME NEW n \in Nat, NEW S, 0 \in S,
         \A k \in Nat : k < n /\ k \in S => k + 1 \in S
  PROVE  0..n \subseteq S
<1> DEFINE T == (0..n) \ S
<1>1. SUFFICES ASSUME T # {} PROVE FALSE
  OBVIOUS
<1>2. PICK x \in T : \A y \in T : x <= y
  <2> T \subseteq Nat OBVIOUS
  <2> HIDE DEF T
  <2> QED BY Least, <1>1
<1>3. x # 0 /\ x - 1 \in Nat /\ x - 1 < n /\ x - 1 \in 0..n
  OBVIOUS
<1>4. x - 1 \in S
  BY <1>2, <1>3
<1> QED BY <1>3, <1>4

(* A bounded set of naturals that is not empty has a greatest element.      *)
LEMMA Greatest ==
  ASSUME NEW T, T \subseteq Nat, T # {}, NEW b \in Nat, \A x \in T : x <= b
  PROVE  \E x \in T : \A y \in T : y <= x
<1> DEFINE D == {b - x : x \in T}
<1>1. D \subseteq Nat /\ D # {}
  <2>1. \A x \in T : x \in Nat /\ x <= b
    OBVIOUS
  <2>2. \A x \in T : b - x \in Nat
    BY <2>1
  <2> QED BY <2>2
<1>2. \E d \in D : \A e \in D : d <= e
  <2> HIDE DEF D
  <2> QED BY <1>1, Least
<1>3. PICK x \in T : \A y \in T : b - x <= b - y
  BY <1>2
<1> QED BY <1>3

(* Max and Min of the community modules.                                    *)
LEMMA MaxIs ==
  ASSUME NEW n \in Nat, NEW s \in SUBSET (1..n), s # {}
  PROVE  Max(s) \in s /\ \A y \in s : y <= Max(s)
<1>1. \E x \in s : \A y \in s : y <= x
  <2>1. s \subseteq Nat /\ \A x \in s : x <= n
    OBVIOUS
  <2> QED BY <2>1, Greatest
<1>2. \E x \in s : \A y \in s : x >= y
  BY <1>1
<1> QED BY <1>2 DEF Max

LEMMA MinIs ==
  ASSUME NEW s \in SUBSET Nat, s # {}
  PROVE  Min(s) \in s /\ \A y \in s : Min(s) <= y
<1>1. \E x \in s : \A y \in s : x <= y
  BY Least
<1> QED BY <1>1 DEF Min

(* The set of indices a fold has seen after k + 1 of n elements.             *)
LEMMA Prefix ==
  ASSUME NEW n \in Nat, NEW k \in Nat, k < n
  PROVE  /\ k + 1 \in 1..n
         /\ 1..(k + 1) \in SUBSET (1..n) /\ 1..(k + 1) # {}
         /\ Max(1..(k + 1)) = k + 1
         /\ (1..(k + 1)) \ {Max(1..(k + 1))} = 1..k
<1>1. k + 1 \in 1..n /\ 1..(k + 1) \in SUBSET (1..n) /\ k + 1 \in 1..(k + 1)
  OBVIOUS
<1>2. 1..(k + 1) # {}
  BY <1>1
<1>3. Max(1..(k + 1)) \in 1..(k + 1) /\ \A y \in 1..(k + 1) : y <= Max(1..(k + 1))
  BY <1>1, <1>2, MaxIs
<1>4. Max(1..(k + 1)) = k + 1
  BY <1>1, <1>3
<1>5. (1..(k + 1)) \ {k + 1} = 1..k
  OBVIOUS
<1> QED BY <1>1, <1>2, <1>4, <1>5

(* The values of a sequence of naturals have a greatest one.                *)
LEMMA Bounded ==
  ASSUME NEW n \in Nat, NEW f, \A i \in 1..n : f[i] \in Nat
  PROVE  \E b \in Nat : \A i \in 1..n : f[i] <= b
<1> DEFINE S == {k \in Nat : k <= n => \E b \in Nat : \A i \in 1..k : f[i] <= b}
<1>1. 0 \in S
  OBVIOUS
<1>2. ASSUME NEW k \in Nat, k < n, k \in S PROVE k + 1 \in S
  <2>1. PICK b \in Nat : \A i \in 1..k : f[i] <= b
    BY <1>2
  <2>2. f[k + 1] \in Nat
    BY <1>2
  <2>3. ASSUME NEW i \in 1..(k + 1) PROVE f[i] <= b + f[k + 1]
    <3>1. CASE i = k + 1
      BY <2>2, <3>1
    <3>2. CASE i # k + 1
      <4>1. i \in 1..k /\ i \in 1..n
        BY <1>2, <3>2
      <4>2. f[i] \in Nat /\ f[i] <= b
        BY <2>1, <4>1
      <4> QED BY <2>2, <4>2
    <3> QED BY <3>1, <3>2
  <2>4. b + f[k + 1] \in Nat
    BY <2>2
  <2> QED BY <2>3, <2>4
<1>3. 0..n \subseteq S
  <2> HIDE DEF S
  <2> QED BY <1>1, <1>2, InductionTo
<1>4. n \in S
  <2>1. n \in 0..n
    OBVIOUS
  <2> HIDE DEF S
  <2> QED BY <1>3, <2>1
<1> QED BY <1>4

LEMMA GreatestValue ==
  ASSUME NEW n \in Nat, n > 0, NEW f, \A i \in 1..n : f[i] \in Nat
  PROVE  \E i \in 1..n : \A j \in 1..n : f[j] <= f[i]
<1>1. PICK b \in Nat : \A i \in 1..n : f[i] <= b
  BY Bounded
<1> DEFINE T == {f[i] : i \in 1..n}
<1>2. T \subseteq Nat /\ T # {} /\ \A x \in T : x <= b
  BY <1>1
<1>3. \E x \in T : \A y \in T : y <= x
  <2> HIDE DEF T
  <2> QED BY <1>2, Greatest
<1> QED BY <1>3
-----------------------------------------------------------------------------
(* The function by which Folds.tla defines a fold over the set s of indices *)
(* of a sequence, with the steps as the function Step of what has been      *)
(* computed and the next index.                                             *)
FoldFcn(f, n, Step, base) ==
  f = [s \in SUBSET (1..n) |->
         IF s = {} THEN base ELSE Step[<<f[s \ {Max(s)}], Max(s)>>]]

(* It exists.                                                               *)
THEOREM FoldExists ==
  ASSUME NEW n \in Nat, NEW Step, NEW base
  PROVE  \E f : FoldFcn(f, n, Step, base)
<1> DEFINE S == {k \in Nat : \E f : FoldFcn(f, k, Step, base)}
<1>1. 0 \in S
  <2> DEFINE f == [s \in SUBSET (1..0) |-> base]
  <2>1. FoldFcn(f, 0, Step, base)
    BY DEF FoldFcn
  <2> QED BY <2>1
<1>2. ASSUME NEW k \in Nat, k \in S PROVE k + 1 \in S
  <2>1. PICK f : FoldFcn(f, k, Step, base)
    BY <1>2
  <2> DEFINE g == [s \in SUBSET (1..(k + 1)) |->
                     IF k + 1 \in s THEN Step[<<f[s \ {k + 1}], k + 1>>] ELSE f[s]]
  <2>2. ASSUME NEW s \in SUBSET (1..(k + 1)), k + 1 \in s
        PROVE  g[s] = Step[<<g[s \ {Max(s)}], Max(s)>>]
    <3>1. Max(s) = k + 1
      <4>1. Max(s) \in s /\ \A y \in s : y <= Max(s)
        BY <2>2, MaxIs, k + 1 \in Nat
      <4>2. Max(s) \in 1..(k + 1) /\ k + 1 <= Max(s)
        BY <2>2, <4>1
      <4> QED BY <4>2
    <3>2. s \ {k + 1} \in SUBSET (1..(k + 1)) /\ k + 1 \notin s \ {k + 1}
      OBVIOUS
    <3>3. g[s \ {k + 1}] = f[s \ {k + 1}]
      BY <3>2
    <3>4. g[s] = Step[<<f[s \ {k + 1}], k + 1>>]
      BY <2>2
    <3> HIDE DEF g
    <3> QED BY <3>1, <3>3, <3>4
  <2>3. ASSUME NEW s \in SUBSET (1..(k + 1)), k + 1 \notin s
        PROVE  g[s] = IF s = {} THEN base ELSE Step[<<g[s \ {Max(s)}], Max(s)>>]
    <3>1. s \in SUBSET (1..k)
      BY <2>3
    <3>2. g[s] = f[s]
      BY <2>3
    <3>3. CASE s = {}
      BY <3>1, <3>2, <3>3, <2>1 DEF FoldFcn
    <3>4. CASE s # {}
      <4>1. s \ {Max(s)} \in SUBSET (1..(k + 1)) /\ k + 1 \notin s \ {Max(s)}
        BY <2>3
      <4>2. g[s \ {Max(s)}] = f[s \ {Max(s)}]
        BY <4>1
      <4>3. f[s] = Step[<<f[s \ {Max(s)}], Max(s)>>]
        BY <3>1, <3>4, <2>1 DEF FoldFcn
      <4> HIDE DEF g
      <4> QED BY <3>2, <3>4, <4>2, <4>3
    <3> QED BY <3>3, <3>4
  <2>4. \A s \in SUBSET (1..(k + 1)) :
          g[s] = IF s = {} THEN base ELSE Step[<<g[s \ {Max(s)}], Max(s)>>]
    <3> HIDE DEF g
    <3> QED BY <2>2, <2>3
  <2>5. g = [s \in SUBSET (1..(k + 1)) |-> g[s]]
    OBVIOUS
  <2>6. FoldFcn(g, k + 1, Step, base)
    <3> HIDE DEF g
    <3> QED BY <2>4, <2>5 DEF FoldFcn
  <2> QED BY <2>6
<1>3. 0..n \subseteq S
  <2> HIDE DEF S
  <2> QED BY <1>1, <1>2, InductionTo
<1> QED BY <1>3

(* It computes the steps from left to right.                                *)
THEOREM FoldSteps ==
  ASSUME NEW n \in Nat, NEW Step, NEW base, NEW f, FoldFcn(f, n, Step, base)
  PROVE  /\ f[{}] = base
         /\ \A k \in 1..n : f[1..k] = Step[<<f[1..(k - 1)], k>>]
<1>1. f[{}] = base
  BY DEF FoldFcn
<1>2. ASSUME NEW k \in 1..n PROVE f[1..k] = Step[<<f[1..(k - 1)], k>>]
  <2>1. 1..k \in SUBSET (1..n) /\ 1..k # {} /\ k \in 1..k
    OBVIOUS
  <2>2. Max(1..k) = k
    <3>1. Max(1..k) \in 1..k /\ \A y \in 1..k : y <= Max(1..k)
      BY <2>1, MaxIs
    <3> QED BY <2>1, <3>1
  <2>3. (1..k) \ {k} = 1..(k - 1)
    OBVIOUS
  <2> QED BY <2>1, <2>2, <2>3 DEF FoldFcn
<1> QED BY <1>1, <1>2

(* Its values have the type of its steps.                                   *)
THEOREM FoldType ==
  ASSUME NEW n \in Nat, NEW Step, NEW D, NEW base \in D, NEW f,
         FoldFcn(f, n, Step, base), \A z \in D \X (1..n) : Step[z] \in D
  PROVE  \A s \in SUBSET (1..n) : f[s] \in D
<1> DEFINE S == {k \in Nat : k <= n => \A s \in SUBSET (1..k) : f[s] \in D}
<1>1. 0 \in S
  <2>1. f[{}] = base
    BY FoldSteps
  <2>2. \A s \in SUBSET (1..0) : s = {}
    <3>1. \A x : x \notin 1..0
      OBVIOUS
    <3> HIDE DEF S
    <3> QED BY <3>1
  <2> QED BY <2>1, <2>2
<1>2. ASSUME NEW k \in Nat, k < n, k \in S PROVE k + 1 \in S
  <2>1. ASSUME NEW s \in SUBSET (1..(k + 1)), s # {} PROVE f[s] \in D
    <3>0. s \in SUBSET (1..n)
      BY <1>2
    <3>1. Max(s) \in s /\ \A y \in s : y <= Max(s)
      BY <2>1, MaxIs, k + 1 \in Nat
    <3>2. Max(s) \in 1..(k + 1)
      BY <3>1
    <3>3. s \ {Max(s)} \in SUBSET (1..k)
      <4> SUFFICES ASSUME NEW y \in s, y # Max(s) PROVE y \in 1..k
        OBVIOUS
      <4>1. y \in 1..(k + 1) /\ y <= Max(s)
        BY <3>1
      <4> QED BY <3>2, <4>1
    <3>4. f[s \ {Max(s)}] \in D
      BY <1>2, <3>3
    <3>5. f[s] = Step[<<f[s \ {Max(s)}], Max(s)>>]
      BY <2>1, <3>0 DEF FoldFcn
    <3>6. Max(s) \in 1..n
      BY <1>2, <3>2
    <3> QED BY <3>4, <3>5, <3>6
  <2>2. f[{}] \in D
    <3>1. f[{}] = base
      BY FoldSteps
    <3> QED BY <3>1
  <2>3. \A s \in SUBSET (1..(k + 1)) : f[s] \in D
    BY <2>1, <2>2
  <2> QED BY <2>3
<1>3. 0..n \subseteq S
  <2> HIDE DEF S
  <2> QED BY <1>1, <1>2, InductionTo
<1>4. n \in S
  <2>1. n \in 0..n
    OBVIOUS
  <2> HIDE DEF S
  <2> QED BY <1>3, <2>1
<1> QED BY <1>4
-----------------------------------------------------------------------------
(* Sequences that hold nothing twice, by what they hold.                    *)

(* One more at the end.                                                     *)
LEMMA AppendHolds ==
  ASSUME NEW T, NEW q \in Seq(T), NEW e \in T
  PROVE  /\ Append(q, e) \in Seq(T) /\ Range(Append(q, e)) = Range(q) \cup {e}
         /\ IsInjective(q) /\ e \notin Range(q) => IsInjective(Append(q, e))
<1>1. /\ Append(q, e) \in Seq(T) /\ DOMAIN Append(q, e) = 1..(Len(q) + 1)
      /\ DOMAIN q = 1..Len(q) /\ Len(q) \in Nat
      /\ \A k \in 1..Len(q) : Append(q, e)[k] = q[k]
      /\ Append(q, e)[Len(q) + 1] = e
  OBVIOUS
<1>2. \A k : k \in 1..(Len(q) + 1) <=> k \in 1..Len(q) \/ k = Len(q) + 1
  BY <1>1
<1> DEFINE a == Append(q, e)
<1> HIDE DEF a
<1>3. Range(a) = Range(q) \cup {e}
  BY <1>1, <1>2 DEF Range, a
<1>4. ASSUME IsInjective(q), e \notin Range(q) PROVE IsInjective(a)
  BY <1>1, <1>2, <1>4 DEF Range, IsInjective, a
<1> QED BY <1>1, <1>3, <1>4 DEF a

(* The first one taken away.                                                *)
LEMMA TailHolds ==
  ASSUME NEW T, NEW q \in Seq(T), q # <<>>
  PROVE  /\ Tail(q) \in Seq(T) /\ Head(q) \in Range(q)
         /\ Range(Tail(q)) \subseteq Range(q)
         /\ IsInjective(q) => IsInjective(Tail(q)) /\ Head(q) \notin Range(Tail(q))
<1>1. /\ Tail(q) \in Seq(T) /\ DOMAIN Tail(q) = 1..(Len(q) - 1)
      /\ DOMAIN q = 1..Len(q) /\ Len(q) \in Nat /\ Len(q) > 0
      /\ \A k \in 1..(Len(q) - 1) : Tail(q)[k] = q[k + 1]
      /\ Head(q) = q[1]
  OBVIOUS
<1>2. /\ 1 \in DOMAIN q
      /\ \A k \in 1..(Len(q) - 1) : k + 1 \in DOMAIN q /\ k + 1 # 1
      /\ \A k, m \in 1..(Len(q) - 1) : k + 1 = m + 1 => k = m
  BY <1>1
<1> DEFINE t == Tail(q)
<1> HIDE DEF t
<1>3. Range(t) \subseteq Range(q) /\ Head(q) \in Range(q)
  BY <1>1, <1>2 DEF Range, t
<1>4. ASSUME IsInjective(q) PROVE IsInjective(t) /\ Head(q) \notin Range(t)
  <2>1. \A k, m \in DOMAIN q : q[k] = q[m] => k = m
    BY <1>4 DEF IsInjective
  <2>2. IsInjective(t)
    <3> SUFFICES ASSUME NEW k \in DOMAIN t, NEW m \in DOMAIN t, t[k] = t[m] PROVE k = m
      BY DEF IsInjective
    <3>1. k + 1 \in DOMAIN q /\ m + 1 \in DOMAIN q /\ q[k + 1] = q[m + 1]
      BY <1>1, <1>2 DEF t
    <3> QED BY <1>1, <1>2, <2>1, <3>1 DEF t
  <2>3. ASSUME NEW k \in DOMAIN t, t[k] = Head(q) PROVE FALSE
    <3>1. q[k + 1] = q[1] /\ k + 1 \in DOMAIN q /\ k + 1 # 1
      BY <1>1, <1>2, <2>3 DEF t
    <3> QED BY <1>2, <2>1, <3>1
  <2> QED BY <2>2, <2>3 DEF Range
<1> QED BY <1>1, <1>3, <1>4 DEF t

(* Two that have nothing in common, one behind the other.                   *)
LEMMA ConcatHolds ==
  ASSUME NEW T, NEW q \in Seq(T), NEW r \in Seq(T)
  PROVE  /\ q \o r \in Seq(T) /\ Range(q \o r) = Range(q) \cup Range(r)
         /\ IsInjective(q) /\ IsInjective(r) /\ Range(q) \cap Range(r) = {}
              => IsInjective(q \o r)
<1>1. /\ q \o r \in Seq(T) /\ DOMAIN (q \o r) = 1..(Len(q) + Len(r))
      /\ DOMAIN q = 1..Len(q) /\ DOMAIN r = 1..Len(r) /\ Len(q) \in Nat /\ Len(r) \in Nat
      /\ \A k \in 1..(Len(q) + Len(r)) :
           (q \o r)[k] = IF k <= Len(q) THEN q[k] ELSE r[k - Len(q)]
  OBVIOUS
<1> DEFINE c == q \o r
<1> HIDE DEF c
<1>2. ASSUME NEW k \in DOMAIN c
      PROVE  \/ k <= Len(q) /\ k \in DOMAIN q /\ c[k] = q[k]
             \/ k > Len(q) /\ k - Len(q) \in DOMAIN r /\ c[k] = r[k - Len(q)]
  BY <1>1 DEF c
<1>3. /\ \A k \in DOMAIN q : k \in DOMAIN c /\ c[k] = q[k]
      /\ \A k \in DOMAIN r : k + Len(q) \in DOMAIN c /\ c[k + Len(q)] = r[k]
  <2>1. \A k \in DOMAIN q : k \in DOMAIN c /\ c[k] = q[k]
    BY <1>1 DEF c
  <2>2. ASSUME NEW k \in DOMAIN r PROVE k + Len(q) \in DOMAIN c /\ c[k + Len(q)] = r[k]
    <3>1. k + Len(q) \in 1..(Len(q) + Len(r)) /\ ~(k + Len(q) <= Len(q))
          /\ (k + Len(q)) - Len(q) = k
      BY <1>1
    <3> QED BY <1>1, <3>1 DEF c
  <2> QED BY <2>1, <2>2
<1>4. Range(c) = Range(q) \cup Range(r)
  BY <1>2, <1>3 DEF Range
<1>5. ASSUME IsInjective(q), IsInjective(r), Range(q) \cap Range(r) = {}
      PROVE  IsInjective(c)
  <2> SUFFICES ASSUME NEW k \in DOMAIN c, NEW m \in DOMAIN c, c[k] = c[m] PROVE k = m
    BY DEF IsInjective
  <2>1. \A a \in DOMAIN q, b \in DOMAIN r : q[a] # r[b]
    BY <1>5 DEF Range
  <2>2. CASE k <= Len(q) /\ m <= Len(q)
    <3>1. k \in Nat /\ m \in Nat /\ Len(q) \in Nat
      BY <1>1 DEF c
    <3>2. q[k] = q[m] /\ k \in DOMAIN q /\ m \in DOMAIN q
      BY <1>2, <2>2, <3>1
    <3> QED BY <1>5, <3>2 DEF IsInjective
  <2>3. CASE k > Len(q) /\ m > Len(q)
    <3>1. k \in Nat /\ m \in Nat
      BY <1>1 DEF c
    <3>2. r[k - Len(q)] = r[m - Len(q)] /\ k - Len(q) \in DOMAIN r /\ m - Len(q) \in DOMAIN r
      BY <1>1, <1>2, <2>3, <3>1
    <3>3. k - Len(q) = m - Len(q)
      BY <1>5, <3>2 DEF IsInjective
    <3> QED BY <1>1, <3>1, <3>3
  <2>4. k \in Nat /\ m \in Nat /\ Len(q) \in Nat
    BY <1>1 DEF c
  <2> QED BY <1>2, <2>1, <2>2, <2>3, <2>4
<1> QED BY <1>1, <1>4, <1>5 DEF c

(* One taken out.                                                           *)
LEMMA RemoveAtHolds ==
  ASSUME NEW T, NEW q \in Seq(T), NEW k \in DOMAIN q
  PROVE  /\ RemoveAt(q, k) \in Seq(T) /\ Len(RemoveAt(q, k)) = Len(q) - 1
         /\ \A j \in 1..(Len(q) - 1) : RemoveAt(q, k)[j] = IF j < k THEN q[j] ELSE q[j + 1]
         /\ IsInjective(q) => /\ IsInjective(RemoveAt(q, k))
                              /\ Range(RemoveAt(q, k)) = Range(q) \ {q[k]}
<1> DEFINE a == SubSeq(q, 1, k - 1)
           b == SubSeq(q, k + 1, Len(q))
           r == RemoveAt(q, k)
<1>1. DOMAIN q = 1..Len(q) /\ Len(q) \in Nat /\ k \in Nat /\ 1 <= k /\ k <= Len(q)
  OBVIOUS
<1>2. /\ a \in Seq(T) /\ Len(a) = k - 1 /\ \A j \in 1..(k - 1) : a[j] = q[j]
  BY <1>1
<1>3. /\ b \in Seq(T) /\ Len(b) = Len(q) - k /\ \A j \in 1..(Len(q) - k) : b[j] = q[k + j]
  BY <1>1
<1>4. r = a \o b
  BY DEF RemoveAt
<1> HIDE DEF a, b, r
<1>5. r \in Seq(T) /\ Len(r) = Len(q) - 1 /\ DOMAIN r = 1..(Len(q) - 1)
  <2>0. a \in Seq(T) /\ b \in Seq(T)
    BY <1>2, <1>3
  <2>1. a \o b \in Seq(T) /\ Len(a \o b) = Len(a) + Len(b)
    BY <2>0
  <2>2. Len(a) + Len(b) = Len(q) - 1
    BY <1>1, <1>2, <1>3
  <2>3. r \in Seq(T) /\ Len(r) = Len(q) - 1
    BY <1>4, <2>1, <2>2
  <2> QED BY <2>3
<1>6. ASSUME NEW j \in 1..(Len(q) - 1) PROVE r[j] = IF j < k THEN q[j] ELSE q[j + 1]
  <2>1. CASE j < k
    BY <1>1, <1>2, <1>3, <1>4, <2>1
  <2>2. CASE ~(j < k)
    <3>1. j - (k - 1) \in 1..(Len(q) - k) /\ k + (j - (k - 1)) = j + 1
      BY <1>1, <2>2
    <3>2. r[j] = b[j - (k - 1)]
      <4>1. a \in Seq(T) /\ b \in Seq(T)
        BY <1>2, <1>3
      <4>2. \A x \in 1..(Len(a) + Len(b)) :
              (a \o b)[x] = IF x <= Len(a) THEN a[x] ELSE b[x - Len(a)]
        BY <4>1
      <4>3. j \in 1..(Len(a) + Len(b)) /\ ~(j <= Len(a)) /\ Len(a) = k - 1
        BY <1>1, <1>2, <1>3, <2>2
      <4>4. (a \o b)[j] = b[j - Len(a)]
        BY <4>2, <4>3
      <4> QED BY <1>4, <4>3, <4>4
    <3> QED BY <1>3, <2>2, <3>1, <3>2
  <2> QED BY <2>1, <2>2
<1>7. ASSUME IsInjective(q) PROVE IsInjective(r) /\ Range(r) = Range(q) \ {q[k]}
  <2>1. \A m, n \in DOMAIN q : q[m] = q[n] => m = n
    BY <1>7 DEF IsInjective
  <2>2. ASSUME NEW j \in DOMAIN r
        PROVE  \/ j < k /\ j \in DOMAIN q /\ r[j] = q[j]
               \/ j >= k /\ j + 1 \in DOMAIN q /\ r[j] = q[j + 1]
    BY <1>1, <1>5, <1>6
  <2>3. ASSUME NEW j \in DOMAIN q, j # k PROVE \E m \in DOMAIN r : r[m] = q[j]
    <3>1. CASE j < k
      <4>1. j \in DOMAIN r /\ r[j] = q[j]
        BY <1>1, <1>5, <1>6, <3>1
      <4> QED BY <4>1
    <3>2. CASE j > k
      <4>1. j - 1 \in DOMAIN r /\ (j - 1) + 1 = j /\ ~(j - 1 < k)
        BY <1>1, <1>5, <3>2
      <4>2. r[j - 1] = q[j]
        BY <1>5, <1>6, <4>1
      <4> QED BY <4>1, <4>2
    <3> QED BY <1>1, <2>3, <3>1, <3>2
  <2>4. \A j \in DOMAIN r : r[j] \in Range(q) \ {q[k]}
    <3> SUFFICES ASSUME NEW j \in DOMAIN r PROVE r[j] \in Range(q) \ {q[k]}
      OBVIOUS
    <3>1. \E m \in DOMAIN q : m # k /\ r[j] = q[m]
      BY <1>1, <1>5, <2>2
    <3> QED BY <2>1, <3>1 DEF Range
  <2>5. Range(r) = Range(q) \ {q[k]}
    <3>1. ASSUME NEW x \in Range(q), x # q[k] PROVE x \in Range(r)
      BY <2>3, <3>1 DEF Range
    <3> QED BY <2>4, <3>1 DEF Range
  <2>6. IsInjective(r)
    <3> SUFFICES ASSUME NEW m \in DOMAIN r, NEW n \in DOMAIN r, r[m] = r[n] PROVE m = n
      BY DEF IsInjective
    <3>1. m \in Nat /\ n \in Nat
      BY <1>5
    <3>2. CASE m < k /\ n < k
      BY <1>1, <2>1, <2>2, <3>1, <3>2
    <3>3. CASE m >= k /\ n >= k
      <4>1. m + 1 = n + 1
        BY <1>1, <2>1, <2>2, <3>1, <3>3
      <4> QED BY <3>1, <4>1
    <3>4. CASE m < k /\ n >= k
      BY <1>1, <2>1, <2>2, <3>1, <3>4
    <3>5. CASE m >= k /\ n < k
      BY <1>1, <2>1, <2>2, <3>1, <3>5
    <3> QED BY <1>1, <3>1, <3>2, <3>3, <3>4, <3>5
  <2> QED BY <2>5, <2>6
<1> QED BY <1>5, <1>6, <1>7 DEF r

(* One put in.                                                              *)
LEMMA InsertAtHolds ==
  ASSUME NEW T, NEW q \in Seq(T), NEW k \in 1..(Len(q) + 1), NEW e \in T
  PROVE  /\ InsertAt(q, k, e) \in Seq(T) /\ Range(InsertAt(q, k, e)) = Range(q) \cup {e}
         /\ IsInjective(q) /\ e \notin Range(q) => IsInjective(InsertAt(q, k, e))
<1> DEFINE a == SubSeq(q, 1, k - 1)
           b == SubSeq(q, k, Len(q))
           s == <<e>>
<1>1. DOMAIN q = 1..Len(q) /\ Len(q) \in Nat /\ k \in Nat /\ 1 <= k /\ k <= Len(q) + 1
  OBVIOUS
<1>2. /\ a \in Seq(T) /\ Len(a) = k - 1 /\ \A j \in 1..(k - 1) : a[j] = q[j]
  BY <1>1
<1>3. /\ b \in Seq(T) /\ Len(b) = Len(q) - k + 1
      /\ \A j \in 1..(Len(q) - k + 1) : b[j] = q[k + j - 1]
  BY <1>1
<1>4. s \in Seq(T) /\ DOMAIN s = {1} /\ s[1] = e
  OBVIOUS
<1>5. InsertAt(q, k, e) = (a \o s) \o b
  BY DEF InsertAt
<1> HIDE DEF a, b, s
<1>6. DOMAIN a = 1..(k - 1) /\ DOMAIN b = 1..(Len(q) - k + 1)
  BY <1>2, <1>3
<1>7. Range(a) \cup Range(b) = Range(q) /\ Range(s) = {e}
  <2>1. ASSUME NEW j \in DOMAIN q PROVE q[j] \in Range(a) \cup Range(b)
    <3>1. CASE j < k
      <4>1. j \in DOMAIN a /\ a[j] = q[j]
        BY <1>1, <1>2, <1>6, <3>1
      <4> QED BY <4>1 DEF Range
    <3>2. CASE j >= k
      <4>1. j - k + 1 \in DOMAIN b /\ k + (j - k + 1) - 1 = j
        BY <1>1, <1>6, <3>2
      <4>2. b[j - k + 1] = q[j]
        BY <1>3, <1>6, <4>1
      <4> QED BY <4>1, <4>2 DEF Range
    <3> QED BY <1>1, <3>1, <3>2
  <2>2. \A j \in DOMAIN a : a[j] \in Range(q)
    BY <1>1, <1>2, <1>6 DEF Range
  <2>3. ASSUME NEW j \in DOMAIN b PROVE b[j] \in Range(q)
    <3>1. k + j - 1 \in DOMAIN q /\ b[j] = q[k + j - 1]
      BY <1>1, <1>3, <1>6
    <3> QED BY <3>1 DEF Range
  <2>4. Range(s) = {e}
    BY <1>4 DEF Range
  <2>5. Range(q) \subseteq Range(a) \cup Range(b)
    <3> SUFFICES ASSUME NEW x \in Range(q) PROVE x \in Range(a) \cup Range(b)
      OBVIOUS
    <3>1. PICK j \in DOMAIN q : x = q[j]
      BY DEF Range
    <3> QED BY <2>1, <3>1
  <2>6. Range(a) \subseteq Range(q)
    BY <2>2 DEF Range
  <2>7. Range(b) \subseteq Range(q)
    BY <2>3 DEF Range
  <2> QED BY <2>4, <2>5, <2>6, <2>7
<1>8. /\ a \o s \in Seq(T) /\ Range(a \o s) = Range(a) \cup {e}
      /\ (a \o s) \o b \in Seq(T) /\ Range((a \o s) \o b) = Range(a) \cup {e} \cup Range(b)
  <2>1. a \o s \in Seq(T) /\ Range(a \o s) = Range(a) \cup {e}
    BY <1>2, <1>4, <1>7, ConcatHolds
  <2>2. /\ (a \o s) \o b \in Seq(T)
        /\ Range((a \o s) \o b) = Range(a \o s) \cup Range(b)
    <3> DEFINE c == a \o s
    <3>1. c \in Seq(T) /\ b \in Seq(T)
      BY <1>3, <2>1
    <3> HIDE DEF c
    <3>2. c \o b \in Seq(T) /\ Range(c \o b) = Range(c) \cup Range(b)
      BY <3>1, ConcatHolds, ZenonT(60)
    <3> QED BY <3>2 DEF c
  <2> QED BY <2>1, <2>2
<1>9. ASSUME IsInjective(q), e \notin Range(q) PROVE IsInjective((a \o s) \o b)
  <2>1. \A m, n \in DOMAIN q : q[m] = q[n] => m = n
    BY <1>9 DEF IsInjective
  <2>2. IsInjective(a)
    <3> SUFFICES ASSUME NEW m \in DOMAIN a, NEW n \in DOMAIN a, a[m] = a[n] PROVE m = n
      BY DEF IsInjective
    <3>1. m \in DOMAIN q /\ n \in DOMAIN q /\ q[m] = q[n]
      BY <1>1, <1>2, <1>6
    <3> QED BY <2>1, <3>1
  <2>3. IsInjective(b)
    <3> SUFFICES ASSUME NEW m \in DOMAIN b, NEW n \in DOMAIN b, b[m] = b[n] PROVE m = n
      BY DEF IsInjective
    <3>1. k + m - 1 \in DOMAIN q /\ k + n - 1 \in DOMAIN q /\ q[k + m - 1] = q[k + n - 1]
      <4>1. m \in 1..(Len(q) - k + 1) /\ n \in 1..(Len(q) - k + 1)
        BY <1>6
      <4>2. b[m] = q[k + m - 1] /\ b[n] = q[k + n - 1]
        BY <1>3, <4>1
      <4>3. k + m - 1 \in DOMAIN q /\ k + n - 1 \in DOMAIN q
        BY <1>1, <4>1
      <4> QED BY <4>2, <4>3
    <3>2. k + m - 1 = k + n - 1
      BY <2>1, <3>1
    <3> QED BY <1>1, <1>6, <3>2
  <2>4. IsInjective(s)
    BY <1>4 DEF IsInjective
  <2>5. ASSUME NEW m \in DOMAIN a, NEW n \in DOMAIN b, a[m] = b[n] PROVE FALSE
    <3>1. m \in DOMAIN q /\ k + n - 1 \in DOMAIN q /\ q[m] = q[k + n - 1] /\ m # k + n - 1
      <4>1. m \in 1..(k - 1) /\ n \in 1..(Len(q) - k + 1)
        BY <1>6
      <4>2. a[m] = q[m] /\ b[n] = q[k + n - 1]
        BY <1>2, <1>3, <4>1
      <4>3. m \in DOMAIN q /\ k + n - 1 \in DOMAIN q /\ m # k + n - 1
        BY <1>1, <4>1
      <4> QED BY <2>5, <4>2, <4>3
    <3> QED BY <2>1, <3>1
  <2>6. Range(a) \cap Range(b) = {} /\ e \notin Range(a) /\ e \notin Range(b)
    BY <1>7, <1>9, <2>5 DEF Range
  <2>7. Range(a) \cap Range(s) = {} /\ Range(a \o s) \cap Range(b) = {}
    BY <1>7, <1>8, <2>6
  <2>8. IsInjective(a \o s)
    BY <1>2, <1>4, <2>2, <2>4, <2>7, ConcatHolds
  <2> QED BY <1>3, <1>8, <2>3, <2>7, <2>8, ConcatHolds
<1> QED BY <1>5, <1>7, <1>8, <1>9

-----------------------------------------------------------------------------
(* What Chosen takes out of a queue.                                       *)

(* R holds of any two elements of q, in their order.                       *)
Sorted(q, R) == \A j, k \in DOMAIN q : j < k => <<q[j], q[k]>> \in R

(* Two sequences are equal when their elements are.                        *)
LEMMA SeqEq ==
  ASSUME NEW T, NEW p \in Seq(T), NEW q \in Seq(T), Len(p) = Len(q),
         \A k \in 1..Len(q) : p[k] = q[k]
  PROVE  p = q
OBVIOUS

(* The fold of Chosen over q: the function that computes it.                *)
ChosenFold(f, q, n, ids) ==
  f = [s \in SUBSET (1..n) |->
         IF s = {} THEN <<>>
         ELSE IF q[Max(s)] \in ids THEN Append(f[s \ {Max(s)}], q[Max(s)]) ELSE f[s \ {Max(s)}]]

(* There is one, as q is finite.                                          *)
LEMMA ChosenFoldExists ==
  ASSUME NEW T, NEW n \in Nat, NEW q \in [1..n -> T], NEW ids
  PROVE  \E f : ChosenFold(f, q, n, ids)
<1> DEFINE D == Seq(T)
           Step == [z \in D \X (1..n) |->
                      IF q[z[2]] \in ids THEN Append(z[1], q[z[2]]) ELSE z[1]]
<1>1. ASSUME NEW z \in D \X (1..n) PROVE Step[z] \in D
  <2>1. z[1] \in Seq(T) /\ q[z[2]] \in T
    OBVIOUS
  <2>2. Step[z] = IF q[z[2]] \in ids THEN Append(z[1], q[z[2]]) ELSE z[1]
    OBVIOUS
  <2> HIDE DEF Step
  <2> QED BY <2>1, <2>2
<1>2. PICK f : FoldFcn(f, n, Step, <<>>)
  <2> HIDE DEF Step
  <2> QED BY FoldExists
<1>3. \A s \in SUBSET (1..n) : f[s] \in D
  <2>1. <<>> \in D
    OBVIOUS
  <2> HIDE DEF Step, D
  <2> QED BY <1>1, <1>2, <2>1, FoldType
<1>4. ASSUME NEW s \in SUBSET (1..n), s # {}
      PROVE  f[s] = IF q[Max(s)] \in ids THEN Append(f[s \ {Max(s)}], q[Max(s)])
                    ELSE f[s \ {Max(s)}]
  <2>1. Max(s) \in 1..n /\ s \ {Max(s)} \in SUBSET (1..n)
    BY <1>4, MaxIs
  <2>2. f[s \ {Max(s)}] \in D
    BY <1>3, <2>1
  <2>3. f[s] = Step[<<f[s \ {Max(s)}], Max(s)>>]
    <3> HIDE DEF Step
    <3> QED BY <1>2, <1>4 DEF FoldFcn
  <2>4. <<f[s \ {Max(s)}], Max(s)>> \in D \X (1..n)
    BY <2>1, <2>2
  <2> HIDE DEF D
  <2> QED BY <2>3, <2>4
<1>5. f[{}] = <<>>
  <2> HIDE DEF Step
  <2> QED BY <1>2, FoldSteps
<1>6. f = [s \in SUBSET (1..n) |-> f[s]]
  <2> HIDE DEF Step
  <2> QED BY <1>2 DEF FoldFcn
<1>7. \A s \in SUBSET (1..n) :
        f[s] = IF s = {} THEN <<>>
               ELSE IF q[Max(s)] \in ids THEN Append(f[s \ {Max(s)}], q[Max(s)])
                    ELSE f[s \ {Max(s)}]
  BY <1>4, <1>5
<1> HIDE DEF Step
<1> DEFINE G == [s \in SUBSET (1..n) |->
                  IF s = {} THEN <<>>
                  ELSE IF q[Max(s)] \in ids THEN Append(f[s \ {Max(s)}], q[Max(s)])
                       ELSE f[s \ {Max(s)}]]
<1>8. DOMAIN G = SUBSET (1..n) /\ \A s \in SUBSET (1..n) : G[s] = f[s]
  BY <1>7
<1>9. f = G
  <2>1. G = [s \in SUBSET (1..n) |-> G[s]]
    OBVIOUS
  <2> HIDE DEF G
  <2> QED BY <1>6, <1>8, <2>1
<1> QED BY <1>9 DEF ChosenFold

(* What c holds of the first k elements of q.                              *)
ChosenOf(c, q, k, ids, T, R) ==
  /\ c \in Seq(T) /\ Range(c) = {q[j] : j \in 1..k} \cap ids
  /\ Sorted(q, R) => Sorted(c, R)
  /\ (\A j \in 1..k : q[j] \in ids) => Len(c) = k /\ \A j \in 1..k : c[j] = q[j]

(* One more element.                                                       *)
LEMMA ChosenStep ==
  ASSUME NEW T, NEW n \in Nat, NEW q \in [1..n -> T], NEW ids, NEW R, NEW c,
         NEW k \in Nat, k < n, ChosenOf(c, q, k, ids, T, R)
  PROVE  ChosenOf(IF q[k + 1] \in ids THEN Append(c, q[k + 1]) ELSE c, q, k + 1, ids, T, R)
<1>0. /\ k + 1 \in 1..n /\ q[k + 1] \in T /\ DOMAIN q = 1..n
      /\ \A j : j \in 1..(k + 1) <=> j \in 1..k \/ j = k + 1
      /\ \A j \in 1..k : j \in 1..n /\ j < k + 1
  OBVIOUS
<1>1. {q[j] : j \in 1..(k + 1)} = {q[j] : j \in 1..k} \cup {q[k + 1]}
  BY <1>0
<1>2. CASE q[k + 1] \notin ids
  <2>1. k + 1 \in 1..(k + 1)
    OBVIOUS
  <2> QED BY <1>1, <1>2, <2>1 DEF ChosenOf
<1>3. CASE q[k + 1] \in ids
  <2> DEFINE e == q[k + 1]
             a == Append(c, e)
  <2>1. c \in Seq(T) /\ e \in T
    BY <1>0 DEF ChosenOf
  <2>2. a \in Seq(T) /\ Range(a) = Range(c) \cup {e}
    BY <2>1, AppendHolds
  <2>3. Range(a) = {q[j] : j \in 1..(k + 1)} \cap ids
    BY <1>1, <1>3, <2>2 DEF ChosenOf
  <2>4. /\ DOMAIN c = 1..Len(c) /\ DOMAIN a = 1..(Len(c) + 1) /\ Len(c) \in Nat
        /\ \A j \in 1..Len(c) : a[j] = c[j]
        /\ a[Len(c) + 1] = e /\ Len(a) = Len(c) + 1
    BY <2>1
  <2>5. ASSUME Sorted(q, R) PROVE Sorted(a, R)
    <3>1. \A x \in Range(c) : <<x, e>> \in R
      <4>1. \A j \in 1..k : <<q[j], e>> \in R
        BY <1>0, <2>5 DEF Sorted
      <4> QED BY <4>1 DEF ChosenOf
    <3>2. Sorted(c, R)
      BY <2>5 DEF ChosenOf
    <3> HIDE DEF a, e
    <3> SUFFICES ASSUME NEW i \in DOMAIN a, NEW j \in DOMAIN a, i < j PROVE <<a[i], a[j]>> \in R
      BY DEF Sorted
    <3>3. i \in 1..Len(c)
      BY <2>4
    <3>4. CASE j = Len(c) + 1
      BY <2>4, <3>1, <3>3, <3>4 DEF Range
    <3>5. CASE j # Len(c) + 1
      <4>1. j \in 1..Len(c)
        BY <2>4, <3>5
      <4> QED BY <2>4, <3>2, <3>3, <4>1 DEF Sorted
    <3> QED BY <3>4, <3>5
  <2>6. ASSUME \A j \in 1..(k + 1) : q[j] \in ids
        PROVE  Len(a) = k + 1 /\ \A j \in 1..(k + 1) : a[j] = q[j]
    <3>1. Len(c) = k /\ \A j \in 1..k : c[j] = q[j]
      BY <1>0, <2>6 DEF ChosenOf
    <3> HIDE DEF a
    <3> QED BY <1>0, <2>4, <3>1
  <2> QED BY <1>3, <2>2, <2>3, <2>5, <2>6 DEF ChosenOf
<1> QED BY <1>2, <1>3

(* What Chosen picks, and that it keeps what holds of any two elements in    *)
(* their order.                                                            *)
LEMMA ChosenHolds ==
  ASSUME NEW T, NEW q \in Seq(T), NEW ids, NEW R
  PROVE  /\ Chosen(q, ids) \in Seq(T) /\ Range(Chosen(q, ids)) = Range(q) \cap ids
         /\ Sorted(q, R) => Sorted(Chosen(q, ids), R)
         /\ Range(q) \subseteq ids => Chosen(q, ids) = q
<1> DEFINE n == Len(q)
           iter == CHOOSE f : ChosenFold(f, q, n, ids)
<1>1. DOMAIN q = 1..n /\ n \in Nat /\ q \in [1..n -> T]
  OBVIOUS
<1>2. Chosen(q, ids) = iter[1..n]
  BY <1>1 DEF Chosen, FoldLeft, MapThenFoldSet, ChosenFold
<1> HIDE DEF n
<1>3. ChosenFold(iter, q, n, ids)
  BY <1>1, ChosenFoldExists
<1> HIDE DEF iter
<1> DEFINE S == {k \in Nat : k <= n => ChosenOf(iter[1..k], q, k, ids, T, R)}
<1>4. 0 \in S
  <2>1. 1..0 = {} /\ {} \in SUBSET (1..n)
    OBVIOUS
  <2>2. iter[1..0] = <<>>
    BY <2>1, <1>3 DEF ChosenFold
  <2>3. ChosenOf(<<>>, q, 0, ids, T, R)
    BY DEF ChosenOf, Range, Sorted
  <2> QED BY <2>2, <2>3
<1>5. ASSUME NEW k \in Nat, k < n, k \in S PROVE k + 1 \in S
  <2>1. ChosenOf(iter[1..k], q, k, ids, T, R)
    BY <1>1, <1>5
  <2>2. /\ k + 1 \in 1..n /\ 1..(k + 1) \in SUBSET (1..n) /\ 1..(k + 1) # {}
        /\ Max(1..(k + 1)) = k + 1 /\ (1..(k + 1)) \ {Max(1..(k + 1))} = 1..k
    BY <1>1, <1>5, Prefix
  <2>3. iter[1..(k + 1)] = IF q[k + 1] \in ids THEN Append(iter[1..k], q[k + 1]) ELSE iter[1..k]
    BY <1>3, <2>2 DEF ChosenFold
  <2>4. ChosenOf(iter[1..(k + 1)], q, k + 1, ids, T, R)
    <3> DEFINE c == iter[1..k]
    <3>1. ChosenOf(c, q, k, ids, T, R)
      BY <2>1
    <3> HIDE DEF c
    <3>2. ChosenOf(IF q[k + 1] \in ids THEN Append(c, q[k + 1]) ELSE c, q, k + 1, ids, T, R)
      BY <1>1, <1>5, <3>1, ChosenStep
    <3> QED BY <2>3, <3>2 DEF c
  <2> QED BY <2>4
<1>6. n \in S
  <2>1. 0..n \subseteq S
    <3> HIDE DEF S
    <3> QED BY <1>1, <1>4, <1>5, InductionTo
  <2>2. n \in 0..n
    BY <1>1
  <2> HIDE DEF S
  <2> QED BY <2>1, <2>2
<1>7. ChosenOf(iter[1..n], q, n, ids, T, R)
  BY <1>1, <1>6
<1>8. Range(q) = {q[j] : j \in 1..n}
  BY <1>1 DEF Range
<1>9. ASSUME Range(q) \subseteq ids PROVE iter[1..n] = q
  <2>1. \A j \in 1..n : q[j] \in ids
    BY <1>8, <1>9
  <2>2. /\ iter[1..n] \in Seq(T) /\ Len(iter[1..n]) = Len(q)
        /\ \A j \in 1..Len(q) : iter[1..n][j] = q[j]
    BY <1>7, <2>1 DEF ChosenOf, n
  <2> DEFINE c == iter[1..n]
  <2>3. c \in Seq(T) /\ Len(c) = Len(q) /\ \A j \in 1..Len(q) : c[j] = q[j]
    BY <2>2
  <2> HIDE DEF c
  <2>4. c = q
    BY <2>3, SeqEq
  <2> QED BY <2>4 DEF c
<1> QED BY <1>2, <1>7, <1>8, <1>9 DEF ChosenOf
=============================================================================
