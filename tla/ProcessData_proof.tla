---------------------------- MODULE ProcessData_proof ---------------------------
(***************************************************************************)
(* Theorems about the process image (IoMap) and its exchange (ProcessData) *)
(* for any line of slaves, of any lengths.                                 *)
(*                                                                         *)
(* What a fold computes is proved by induction; the induction theorems of  *)
(* the library have an operator for a parameter, so the lemmas here use    *)
(* that the order of the natural numbers is well founded (WFMin), which    *)
(* speaks of sets.                                                         *)
(***************************************************************************)
EXTENDS ProcessData, WellFoundedInduction, FiniteSetTheorems, SequenceTheorems, TLAPS

--------------------------------------------------------------------------------
(* Induction. *)

LEMMA LeastNatural ==
    ASSUME NEW S \in SUBSET Nat, S # {}
    PROVE  \E n \in S : \A m \in S : n <= m
<1> DEFINE R == {x \in Nat \X Nat : x[1] < x[2]}
<1>1. IsWellFoundedOn(R, Nat)
  BY NatLessThanWellFounded, Zenon DEF OpToRel
<1>2. PICK n \in S : \A m \in S : ~ (<<m, n>> \in R)
  <2> HIDE DEF R
  <2>1. QED
    BY <1>1, WFMin, Zenon
<1>3. ASSUME NEW m \in S PROVE n <= m
  <2>1. ~ (<<m, n>> \in R)
    BY <1>2
  <2>2. ~ (m < n)
    BY <2>1
  <2>3. QED
    BY <2>2
<1>4. QED
  BY <1>3

LEMMA Induction ==
    ASSUME NEW S \in SUBSET Nat, 0 \in S, \A n \in S : n + 1 \in S
    PROVE  S = Nat
<1> SUFFICES ASSUME Nat \ S # {} PROVE FALSE
  OBVIOUS
<1>1. PICK n \in Nat \ S : \A m \in Nat \ S : n <= m
  BY LeastNatural
<1>2. n - 1 \in S
  BY <1>1
<1>3. QED
  BY <1>2

\* Induction up to a bound.
LEMMA InductionTo ==
    ASSUME NEW n \in Nat, NEW S, 0 \in S, \A k \in 0 .. n - 1 : k \in S => k + 1 \in S
    PROVE  0 .. n \subseteq S
<1> DEFINE T == {k \in Nat : k <= n => k \in S}
<1>1. \A k \in T : k + 1 \in T
  OBVIOUS
<1>2. T = Nat
  <2>1. T \in SUBSET Nat /\ 0 \in T
    OBVIOUS
  <2>2. QED
    BY <1>1, <2>1, Induction
<1>3. QED
  BY <1>2

--------------------------------------------------------------------------------
(* Folds. *)

LEMMA MaxOf ==
    ASSUME NEW n \in Nat, NEW s \in SUBSET (1 .. n), s # {}
    PROVE  Max(s) \in s /\ \A i \in s : i <= Max(s)
<1> DEFINE T == {n - i : i \in s}
<1>1. T \in SUBSET Nat /\ T # {}
  <2>1. \A i \in s : i \in Nat /\ n - i \in Nat
    OBVIOUS
  <2>2. QED
    BY <2>1
<1>2. PICK t \in T : \A u \in T : t <= u
  BY <1>1, LeastNatural
<1>3. PICK m \in s : t = n - m
  BY <1>2
<1>4. \A i \in s : m >= i
  <2> SUFFICES ASSUME NEW i \in s PROVE m >= i
    OBVIOUS
  <2>1. n - m <= n - i
    BY <1>2, <1>3
  <2>2. QED
    BY <2>1
<1>5. QED
  BY <1>4 DEF Max

LEMMA MaxOfInterval ==
    ASSUME NEW k \in Nat
    PROVE  Max(1 .. k + 1) = k + 1 /\ (1 .. k + 1) \ {k + 1} = 1 .. k /\ 1 .. k + 1 # {}
<1>1. k + 1 \in 1 .. k + 1
  OBVIOUS
<1>2. Max(1 .. k + 1) \in 1 .. k + 1 /\ k + 1 <= Max(1 .. k + 1)
  <2> DEFINE s == 1 .. k + 1
  <2>1. k + 1 \in Nat /\ s \in SUBSET (1 .. k + 1) /\ s # {} /\ k + 1 \in s
    BY <1>1
  <2> HIDE DEF s
  <2>2. Max(s) \in s /\ k + 1 <= Max(s)
    BY <2>1, MaxOf
  <2>3. QED
    BY <2>2 DEF s
<1>3. QED
  BY <1>1, <1>2

\* The recursion that a fold of n elements is, on the subsets of an interval.
IsFold(n, A, base, G, h) ==
    /\ h \in [SUBSET (1 .. n) -> A]
    /\ \A s \in SUBSET (1 .. n) :
         h[s] = IF s = {} THEN base ELSE G[<<Max(s), h[s \ {Max(s)}]>>]
Unfolds(n, A, base, G, h) ==
    /\ h[{}] = base
    /\ \A s \in SUBSET (1 .. n) :
         s # {} /\ h[s \ {Max(s)}] \in A => h[s] = G[<<Max(s), h[s \ {Max(s)}]>>]
FoldsInOrder(n, A, base, G, h) ==
    /\ h[1 .. 0] = base
    /\ \A k \in 0 .. n : h[1 .. k] \in A
    /\ \A k \in 0 .. n - 1 : h[1 .. k + 1] = G[<<k + 1, h[1 .. k]>>]

\* It exists.
LEMMA FoldExists ==
    ASSUME NEW n \in Nat, NEW A, NEW base \in A, NEW G \in [(1 .. n) \X A -> A]
    PROVE  \E h : IsFold(n, A, base, G, h)
<1> DEFINE F(k) == {h \in [SUBSET (1 .. k) -> A] :
                      \A s \in SUBSET (1 .. k) :
                         h[s] = IF s = {} THEN base ELSE G[<<Max(s), h[s \ {Max(s)}]>>]}
           S == {k \in Nat : F(k) # {}}
<1>1. 0 \in S
  <2> DEFINE h == [s \in {{}} |-> base]
  <2>1. SUBSET (1 .. 0) = {{}}
    BY SMT
  <2>2. h \in F(0)
    BY <2>1
  <2>3. QED
    BY <2>2
<1>2. ASSUME NEW k \in 0 .. n - 1, k \in S PROVE k + 1 \in S
  <2>1. PICK h \in F(k) : TRUE
    BY <1>2
  <2> DEFINE g == [s \in SUBSET (1 .. k + 1) |->
                     IF s = {} THEN base ELSE G[<<Max(s), h[s \ {Max(s)}]>>]]
  <2>2. ASSUME NEW s \in SUBSET (1 .. k + 1), s # {}
        PROVE  /\ Max(s) \in s /\ Max(s) \in 1 .. n
               /\ s \ {Max(s)} \in SUBSET (1 .. k)
    <3> DEFINE m == Max(s)
    <3>1. k + 1 \in Nat
      OBVIOUS
    <3>2. Max(s) \in s /\ \A i \in s : i <= Max(s)
      BY <2>2, <3>1, MaxOf, Zenon
    <3> HIDE DEF m, F, S, g
    <3>3. m \in s /\ \A i \in s : i <= m
      BY <3>2 DEF m
    <3>4. m \in 1 .. k + 1
      BY <3>3
    <3>5. m \in 1 .. n
      BY <3>4
    <3>6. s \ {m} \in SUBSET (1 .. k)
      BY <3>3, <3>4
    <3>7. QED
      BY <3>3, <3>5, <3>6 DEF m
  <2>3. \A s \in SUBSET (1 .. k) : g[s] = h[s]
    <3> SUFFICES ASSUME NEW s \in SUBSET (1 .. k) PROVE g[s] = h[s]
      OBVIOUS
    <3>1. s \in SUBSET (1 .. k + 1)
      OBVIOUS
    <3>2. g[s] = IF s = {} THEN base ELSE G[<<Max(s), h[s \ {Max(s)}]>>]
      BY <3>1
    <3>3. h[s] = IF s = {} THEN base ELSE G[<<Max(s), h[s \ {Max(s)}]>>]
      BY <2>1
    <3>4. QED
      BY <3>2, <3>3
  <2>4. h \in [SUBSET (1 .. k) -> A]
    BY <2>1
  <2>5. ASSUME NEW s \in SUBSET (1 .. k + 1), s # {}
        PROVE  G[<<Max(s), h[s \ {Max(s)}]>>] \in A
    BY <2>2, <2>4, <2>5
  <2>6. g \in [SUBSET (1 .. k + 1) -> A]
    <3> HIDE DEF F
    <3>1. QED
      BY <2>5
  <2>7. ASSUME NEW s \in SUBSET (1 .. k + 1)
        PROVE  g[s] = IF s = {} THEN base ELSE G[<<Max(s), g[s \ {Max(s)}]>>]
    BY <2>2, <2>3
  <2>8. g \in F(k + 1)
    <3> HIDE DEF g
    <3>1. QED
      BY <2>6, <2>7
  <2>9. k + 1 \in Nat
    BY <1>2
  <2>10. QED
    BY <2>8, <2>9
<1> HIDE DEF F
<1>3. n \in S
  <2>1. 0 .. n \subseteq S
    <3> HIDE DEF S
    <3>1. QED
      BY <1>1, <1>2, InductionTo
  <2>2. QED
    BY <2>1
<1>4. QED
  BY <1>3 DEF F, IsFold

\* What such a recursion yields for the beginnings of the interval.
LEMMA FoldSteps ==
    ASSUME NEW n \in Nat, NEW A, NEW base \in A, NEW G \in [(1 .. n) \X A -> A],
           NEW h, Unfolds(n, A, base, G, h)
    PROVE  FoldsInOrder(n, A, base, G, h)
<1> DEFINE S == {k \in Nat : h[1 .. k] \in A}
<1>1. 1 .. 0 = {}
  OBVIOUS
<1>2. ASSUME NEW k \in 0 .. n - 1, k \in S
      PROVE  h[1 .. k + 1] = G[<<k + 1, h[1 .. k]>>] /\ k + 1 \in S
  <2>1. 1 .. k + 1 \in SUBSET (1 .. n)
    OBVIOUS
  <2>2. Max(1 .. k + 1) = k + 1 /\ (1 .. k + 1) \ {k + 1} = 1 .. k /\ 1 .. k + 1 # {}
    <3>1. k \in Nat
      OBVIOUS
    <3>2. QED
      BY <3>1, MaxOfInterval, Zenon
  <2>3. h[1 .. k + 1] = G[<<k + 1, h[1 .. k]>>]
    BY <1>2, <2>1, <2>2 DEF Unfolds
  <2>4. <<k + 1, h[1 .. k]>> \in (1 .. n) \X A
    BY <1>2
  <2>5. QED
    BY <2>3, <2>4
<1>3. 0 .. n \subseteq S
  <2>1. 0 \in S
    BY <1>1 DEF Unfolds
  <2>2. QED
    BY <1>2, <2>1, InductionTo
<1>4. QED
  BY <1>1, <1>2, <1>3 DEF Unfolds, FoldsInOrder

--------------------------------------------------------------------------------
(* Sums. *)

\* P[k] is the sum of the first k of n lengths.
Sums(n, f, P) == /\ P \in [0 .. n -> Nat]
                 /\ P[0] = 0
                 /\ \A k \in 0 .. n - 1 : P[k + 1] = P[k] + f[k + 1]

IsSumFold(n, f, h) ==
    h = [t \in SUBSET (1 .. n) |-> IF t = {} THEN 0 ELSE h[t \ {Max(t)}] + f[Max(t)]]

LEMMA MaxInside ==
    ASSUME NEW n \in Nat, NEW t \in SUBSET (1 .. n), t # {}
    PROVE  Max(t) \in 1 .. n /\ t \ {Max(t)} \in SUBSET (1 .. n)
<1>1. Max(t) \in t
  BY MaxOf, Zenon
<1>2. QED
  BY <1>1

LEMMA SumFoldExists ==
    ASSUME NEW n \in Nat, NEW f \in [1 .. n -> Nat]
    PROVE  \E h : IsSumFold(n, f, h)
<1> DEFINE G == [x \in (1 .. n) \X Nat |-> x[2] + f[x[1]]]
<1>1. G \in [(1 .. n) \X Nat -> Nat]
  OBVIOUS
<1>2. \A k \in 1 .. n, m \in Nat : G[<<k, m>>] = m + f[k]
  OBVIOUS
<1> HIDE DEF G
<1>3. PICK g : IsFold(n, Nat, 0, G, g)
  <2>1. 0 \in Nat
    OBVIOUS
  <2>2. QED
    BY <1>1, <2>1, FoldExists, Zenon
<1>4. \A t \in SUBSET (1 .. n) : g[t] = IF t = {} THEN 0 ELSE g[t \ {Max(t)}] + f[Max(t)]
  BY <1>2, <1>3, MaxInside DEF IsFold
<1>5. IsSumFold(n, f, g)
  BY <1>3, <1>4 DEF IsFold, IsSumFold
<1>6. QED
  BY <1>5

LEMMA SumFold ==
    ASSUME NEW n \in Nat, NEW f \in [1 .. n -> Nat], NEW iter, IsSumFold(n, f, iter)
    PROVE  \E P : Sums(n, f, P) /\ P[n] = iter[1 .. n]
<1> DEFINE G == [x \in (1 .. n) \X Nat |-> x[2] + f[x[1]]]
<1>1. G \in [(1 .. n) \X Nat -> Nat]
  OBVIOUS
<1>2. \A k \in 1 .. n, m \in Nat : G[<<k, m>>] = m + f[k]
  OBVIOUS
<1> HIDE DEF G
<1>3. \A t \in SUBSET (1 .. n) : iter[t] = IF t = {} THEN 0 ELSE iter[t \ {Max(t)}] + f[Max(t)]
  BY Zenon DEF IsSumFold
<1>4. FoldsInOrder(n, Nat, 0, G, iter)
  <2>1. iter[{}] = 0
    BY <1>3
  <2>2. \A t \in SUBSET (1 .. n) :
          t # {} /\ iter[t \ {Max(t)}] \in Nat => iter[t] = G[<<Max(t), iter[t \ {Max(t)}]>>]
    BY <1>2, <1>3, MaxInside
  <2>3. Unfolds(n, Nat, 0, G, iter)
    BY <2>1, <2>2 DEF Unfolds
  <2>4. 0 \in Nat
    OBVIOUS
  <2>5. QED
    BY <1>1, <2>3, <2>4, FoldSteps, Zenon
<1> DEFINE P == [k \in 0 .. n |-> iter[1 .. k]]
<1>5. Sums(n, f, P)
  <2>1. P \in [0 .. n -> Nat]
    BY <1>4, Zenon DEF FoldsInOrder
  <2>2. \A k \in 0 .. n : P[k] = iter[1 .. k]
    BY Zenon
  <2>3. P[0] = 0
    BY <1>4, <2>2 DEF FoldsInOrder
  <2>4. ASSUME NEW k \in 0 .. n - 1 PROVE P[k + 1] = P[k] + f[k + 1]
    <3>1. iter[1 .. k + 1] = G[<<k + 1, iter[1 .. k]>>]
      BY <1>4, Zenon DEF FoldsInOrder
    <3>2. k \in 0 .. n /\ k + 1 \in 0 .. n /\ k + 1 \in 1 .. n
      OBVIOUS
    <3>3. iter[1 .. k] \in Nat
      BY <1>4, <3>2, Zenon DEF FoldsInOrder
    <3>4. P[k] = iter[1 .. k] /\ P[k + 1] = iter[1 .. k + 1]
      BY <2>2, <3>2, Zenon
    <3>5. QED
      BY <1>2, <3>1, <3>2, <3>3, <3>4, Zenon
  <2> HIDE DEF P
  <2>5. QED
    BY <2>1, <2>3, <2>4 DEF Sums
<1>6. P[n] = iter[1 .. n]
  OBVIOUS
<1>7. QED
  BY <1>5, <1>6, Zenon

LEMMA SumsAgree ==
    ASSUME NEW n \in Nat, NEW f, NEW P, Sums(n, f, P),
           NEW m \in Nat, NEW g, NEW Q, Sums(m, g, Q),
           NEW k \in Nat, k <= n, k <= m, \A i \in 1 .. k : f[i] = g[i]
    PROVE  P[k] = Q[k]
<1> DEFINE S == {j \in Nat : P[j] = Q[j]}
<1>1. 0 \in S
  BY DEF Sums
<1>2. ASSUME NEW j \in 0 .. k - 1, j \in S PROVE j + 1 \in S
  <2>1. P[j + 1] = P[j] + f[j + 1] /\ Q[j + 1] = Q[j] + g[j + 1] /\ f[j + 1] = g[j + 1]
    BY DEF Sums
  <2>2. QED
    BY <1>2, <2>1
<1>3. 0 .. k \subseteq S
  <2> HIDE DEF S
  <2>1. QED
    BY <1>1, <1>2, InductionTo
<1>4. QED
  BY <1>3

LEMMA SumsMonotonic ==
    ASSUME NEW n \in Nat, NEW f \in [1 .. n -> Nat], NEW P, Sums(n, f, P),
           NEW i \in 0 .. n, NEW j \in i .. n
    PROVE  P[i] <= P[j] /\ P[i] \in Nat /\ P[j] \in Nat
<1> DEFINE S == {k \in Nat : i + k <= n => P[i] <= P[i + k]}
<1>1. 0 \in S
  BY DEF Sums
<1>2. ASSUME NEW k \in 0 .. n - i - 1, k \in S PROVE k + 1 \in S
  <2>1. P[i + k + 1] = P[i + k] + f[i + k + 1] /\ f[i + k + 1] \in Nat /\ P[i + k] \in Nat /\ P[i] \in Nat
    BY DEF Sums
  <2>2. QED
    BY <1>2, <2>1
<1>3. 0 .. n - i \subseteq S
  <2> HIDE DEF S
  <2>1. n - i \in Nat
    OBVIOUS
  <2>2. QED
    BY <1>1, <1>2, <2>1, InductionTo
<1>4. j - i \in 0 .. n - i /\ i + (j - i) = j /\ i \in Nat /\ j \in Nat
  OBVIOUS
<1>5. P[i] <= P[i + (j - i)]
  BY <1>3, <1>4
<1>6. QED
  BY <1>4, <1>5 DEF Sums

LEMMA TotalIsSum ==
    ASSUME NEW s \in Seq(Nat)
    PROVE  \E P : Sums(Len(s), s, P) /\ Total(s) = P[Len(s)]
<1> DEFINE iter[t \in SUBSET (DOMAIN s)] == IF t = {} THEN 0 ELSE iter[t \ {Max(t)}] + s[Max(t)]
<1>1. Total(s) = iter[DOMAIN s]
  BY DEF Total, FoldLeft, MapThenFoldSet
<1>2. DOMAIN s = 1 .. Len(s) /\ Len(s) \in Nat /\ s \in [1 .. Len(s) -> Nat]
  OBVIOUS
<1>3. IsSumFold(Len(s), s, iter)
  <2>1. \E h : IsSumFold(Len(s), s, h)
    BY <1>2, SumFoldExists, Zenon
  <2>2. iter = CHOOSE h : IsSumFold(Len(s), s, h)
    BY <1>2, Zenon DEF IsSumFold
  <2> HIDE DEF iter
  <2>3. QED
    BY <2>1, <2>2, Zenon
<1> HIDE DEF iter
<1>4. \E P : Sums(Len(s), s, P) /\ P[Len(s)] = iter[1 .. Len(s)]
  BY <1>2, <1>3, SumFold, Zenon
<1>5. QED
  BY <1>1, <1>2, <1>4

LEMMA TotalPrefix ==
    ASSUME NEW s \in Seq(Nat), NEW P, Sums(Len(s), s, P), NEW k \in 0 .. Len(s)
    PROVE  Total(SubSeq(s, 1, k)) = P[k]
<1> DEFINE t == SubSeq(s, 1, k)
<1>1. t \in Seq(Nat) /\ Len(t) = k /\ \A i \in 1 .. k : t[i] = s[i]
  OBVIOUS
<1> HIDE DEF t
<1>2. PICK Q : Sums(Len(t), t, Q) /\ Total(t) = Q[Len(t)]
  BY <1>1, TotalIsSum
<1>3. Len(s) \in Nat /\ k \in Nat /\ k <= Len(s) /\ k <= Len(t) /\ Len(t) \in Nat
  BY <1>1
<1>4. Q[k] = P[k]
  <2>1. \A i \in 1 .. k : s[i] = t[i]
    BY <1>1
  <2>2. P[k] = Q[k]
    BY <1>2, <1>3, <2>1, SumsAgree
  <2>3. QED
    BY <2>2
<1>5. QED
  BY <1>1, <1>2, <1>4 DEF t

LEMMA TotalAppend ==
    ASSUME NEW s \in Seq(Nat), NEW x \in Nat
    PROVE  Total(Append(s, x)) = Total(s) + x /\ Total(s) \in Nat
<1> DEFINE t == Append(s, x)
<1>1. /\ t \in Seq(Nat) /\ Len(t) = Len(s) + 1 /\ t[Len(s) + 1] = x
      /\ SubSeq(t, 1, Len(s)) = s
  OBVIOUS
<1> HIDE DEF t
<1>2. PICK Q : Sums(Len(t), t, Q) /\ Total(t) = Q[Len(t)]
  BY <1>1, TotalIsSum
<1>3. Len(s) \in 0 .. Len(t) /\ Len(s) \in 0 .. Len(t) - 1 /\ Len(s) \in Nat
  BY <1>1
<1>4. Total(s) = Q[Len(s)]
  BY <1>1, <1>2, <1>3, TotalPrefix
<1>5. Q[Len(s) + 1] = Q[Len(s)] + x /\ Q[Len(s)] \in Nat
  BY <1>1, <1>2, <1>3 DEF Sums
<1>6. QED
  BY <1>1, <1>2, <1>4, <1>5 DEF t

LEMMA TotalNone == Total(<<>>) = 0
<1>1. <<>> \in Seq(Nat) /\ Len(<<>>) = 0
  OBVIOUS
<1>2. PICK Q : Sums(0, <<>>, Q) /\ Total(<<>>) = Q[0]
  BY <1>1, TotalIsSum
<1>3. QED
  BY <1>2 DEF Sums

\* A sync manager that ecx_map_sm has given process data.
SyncManager == [start : Nat, len : Nat \ {0}]
SyncManagers == Seq(SyncManager)
Lengths(sm) == [i \in 1 .. Len(sm) |-> sm[i].len]

LEMMA SumLenIsSum ==
    ASSUME NEW sm \in Seq(SyncManager)
    PROVE  \E L : Sums(Len(sm), Lengths(sm), L) /\ \A k \in 0 .. Len(sm) : SumLen(sm, 1, k) = L[k]
<1> DEFINE LenOf(t) == FoldLeft(LAMBDA n, m : n + m.len, 0, t)
<1>1. ASSUME NEW t \in Seq(SyncManager)
      PROVE  \E L : Sums(Len(t), Lengths(t), L) /\ LenOf(t) = L[Len(t)]
  <2> DEFINE iter[u \in SUBSET (DOMAIN t)] ==
               IF u = {} THEN 0 ELSE iter[u \ {Max(u)}] + t[Max(u)].len
  <2>1. LenOf(t) = iter[DOMAIN t]
    BY DEF FoldLeft, MapThenFoldSet
  <2>2. DOMAIN t = 1 .. Len(t) /\ Len(t) \in Nat
    OBVIOUS
  <2>3. Lengths(t) \in [1 .. Len(t) -> Nat]
    <3>1. \A i \in 1 .. Len(t) : t[i] \in SyncManager
      OBVIOUS
    <3>2. \A i \in 1 .. Len(t) : t[i].len \in Nat
      BY <3>1 DEF SyncManager
    <3>3. QED
      BY <3>2, Zenon DEF Lengths
  <2>4. \A u \in SUBSET (1 .. Len(t)) : u # {} => Max(u) \in 1 .. Len(t)
    <3> SUFFICES ASSUME NEW u \in SUBSET (1 .. Len(t)), u # {} PROVE Max(u) \in 1 .. Len(t)
      OBVIOUS
    <3>1. Max(u) \in u
      BY <2>2, MaxOf, Zenon
    <3>2. QED
      BY <3>1
  <2>5. \A h : [u \in SUBSET (1 .. Len(t)) |-> IF u = {} THEN 0 ELSE h[u \ {Max(u)}] + t[Max(u)].len]
             = [u \in SUBSET (1 .. Len(t)) |-> IF u = {} THEN 0 ELSE h[u \ {Max(u)}] + Lengths(t)[Max(u)]]
    BY <2>4 DEF Lengths
  <2>6. IsSumFold(Len(t), Lengths(t), iter)
    <3>1. PICK g : IsSumFold(Len(t), Lengths(t), g)
      BY <2>2, <2>3, SumFoldExists, Zenon
    <3>2. g = [u \in SUBSET (DOMAIN t) |-> IF u = {} THEN 0 ELSE g[u \ {Max(u)}] + t[Max(u)].len]
      BY <2>2, <2>5, <3>1, Zenon DEF IsSumFold
    <3>3. iter = [u \in SUBSET (DOMAIN t) |-> IF u = {} THEN 0 ELSE iter[u \ {Max(u)}] + t[Max(u)].len]
      BY <3>2, Zenon
    <3> HIDE DEF iter
    <3>4. QED
      BY <2>2, <2>5, <3>3, Zenon DEF IsSumFold
  <2> HIDE DEF iter, LenOf
  <2>7. \E L : Sums(Len(t), Lengths(t), L) /\ L[Len(t)] = iter[1 .. Len(t)]
    BY <2>2, <2>3, <2>6, SumFold, Zenon
  <2>8. QED
    BY <2>1, <2>2, <2>7
<1>2. \A k : SumLen(sm, 1, k) = LenOf(SubSeq(sm, 1, k))
  BY DEF SumLen
<1> HIDE DEF LenOf
<1>3. PICK L : Sums(Len(sm), Lengths(sm), L)
  BY <1>1
<1>4. ASSUME NEW k \in 0 .. Len(sm) PROVE SumLen(sm, 1, k) = L[k]
  <2> DEFINE t == SubSeq(sm, 1, k)
  <2>1. t \in Seq(SyncManager) /\ Len(t) = k /\ \A i \in 1 .. k : t[i] = sm[i]
    OBVIOUS
  <2> HIDE DEF t
  <2>2. PICK M : Sums(Len(t), Lengths(t), M) /\ LenOf(t) = M[Len(t)]
    BY <1>1, <2>1
  <2>3. \A i \in 1 .. k : Lengths(sm)[i] = Lengths(t)[i]
    BY <2>1 DEF Lengths
  <2>4. Len(sm) \in Nat /\ Len(t) \in Nat /\ k \in Nat /\ k <= Len(sm) /\ k <= Len(t)
    BY <2>1
  <2>5. L[k] = M[k]
    BY <1>3, <2>2, <2>3, <2>4, SumsAgree
  <2>6. QED
    BY <1>2, <2>1, <2>2, <2>5 DEF t
<1>5. QED
  BY <1>3, <1>4

--------------------------------------------------------------------------------
(* The mapping of one slave. *)

Goal(bits) == (bits + 7) \div 8
Unmapped(log, bit) == [fmmus |-> <<>>, done |-> 0, smc |-> 1, LogAddr |-> log, BitPos |-> bit]
\* A turn of the outer loop, and none when all is mapped.
Turn(sm, bits, st) == IF st.done < Goal(bits) THEN MapFmmu(sm, bits, st) ELSE st

\* What a turn preserves holds of the result, and the loop has mapped everything.
LEMMA CreateResult ==
    ASSUME NEW sm \in Seq(SyncManager), NEW bits, NEW log, NEW bit,
           NEW A, Unmapped(log, bit) \in A,
           \A st \in A : /\ Turn(sm, bits, st) \in A
                         /\ st.smc \in Nat
                         /\ st.done < Goal(bits) => /\ st.smc <= Len(sm)
                                                    /\ Turn(sm, bits, st).smc > st.smc
    PROVE  /\ CreateMappings(sm, bits, log, bit) \in A
           /\ ~ (CreateMappings(sm, bits, log, bit).done < Goal(bits))
<1> DEFINE n == Len(sm)
           base == Unmapped(log, bit)
           T(st) == Turn(sm, bits, st)
           iter[t \in SUBSET (DOMAIN sm)] == IF t = {} THEN base ELSE T(iter[t \ {Max(t)}])
           G == [x \in (1 .. n) \X A |-> T(x[2])]
<1>1. CreateMappings(sm, bits, log, bit) = iter[DOMAIN sm]
  BY DEF CreateMappings, FoldLeft, MapThenFoldSet, Turn, Goal, Unmapped
<1>2. DOMAIN sm = 1 .. n /\ n \in Nat
  OBVIOUS
<1> HIDE DEF n, T, base
<1>3. base \in A /\ \A st \in A : T(st) \in A
  BY DEF base, T
<1>4. G \in [(1 .. n) \X A -> A]
  BY <1>3
<1>5. \A k \in 1 .. n, st \in A : G[<<k, st>>] = T(st)
  OBVIOUS
<1> HIDE DEF G
<1>6. PICK g : IsFold(n, A, base, G, g)
  BY <1>2, <1>3, <1>4, FoldExists, Zenon
<1>7. g = [t \in SUBSET (DOMAIN sm) |-> IF t = {} THEN base ELSE T(g[t \ {Max(t)}])]
  <2>1. \A t \in SUBSET (1 .. n) : g[t] = IF t = {} THEN base ELSE T(g[t \ {Max(t)}])
    BY <1>2, <1>5, <1>6, MaxInside DEF IsFold
  <2>2. QED
    BY <1>2, <1>6, <2>1 DEF IsFold
<1>8. \A t \in SUBSET (1 .. n) : iter[t] = IF t = {} THEN base ELSE T(iter[t \ {Max(t)}])
  <2>1. iter = [t \in SUBSET (DOMAIN sm) |-> IF t = {} THEN base ELSE T(iter[t \ {Max(t)}])]
    BY <1>7, Zenon
  <2> HIDE DEF iter
  <2>2. QED
    BY <1>2, <2>1, Zenon
<1> HIDE DEF iter
<1>9. FoldsInOrder(n, A, base, G, iter)
  <2>1. iter[{}] = base
    BY <1>8
  <2>2. \A t \in SUBSET (1 .. n) :
          t # {} /\ iter[t \ {Max(t)}] \in A => iter[t] = G[<<Max(t), iter[t \ {Max(t)}]>>]
    BY <1>2, <1>5, <1>8, MaxInside
  <2>3. Unfolds(n, A, base, G, iter)
    BY <2>1, <2>2 DEF Unfolds
  <2>4. QED
    BY <1>2, <1>3, <1>4, <2>3, FoldSteps, Zenon
<1> DEFINE h == [k \in 0 .. n |-> iter[1 .. k]]
<1>10. /\ \A k \in 0 .. n : h[k] \in A
       /\ h[0] = base
       /\ \A k \in 0 .. n - 1 : h[k + 1] = T(h[k])
  <2>1. \A k \in 0 .. n : h[k] = iter[1 .. k]
    BY Zenon
  <2>2. \A k \in 0 .. n : h[k] \in A
    BY <1>9, <2>1, Zenon DEF FoldsInOrder
  <2>3. h[0] = base
    BY <1>2, <1>9, <2>1 DEF FoldsInOrder
  <2>4. ASSUME NEW k \in 0 .. n - 1 PROVE h[k + 1] = T(h[k])
    <3>1. iter[1 .. k + 1] = G[<<k + 1, iter[1 .. k]>>]
      BY <1>9, Zenon DEF FoldsInOrder
    <3>2. k \in 0 .. n /\ k + 1 \in 0 .. n /\ k + 1 \in 1 .. n
      BY <1>2
    <3>3. h[k] = iter[1 .. k] /\ h[k + 1] = iter[1 .. k + 1]
      BY <2>1, <3>2, Zenon
    <3>4. QED
      BY <1>5, <2>2, <3>1, <3>2, <3>3, Zenon
  <2>5. QED
    BY <2>2, <2>3, <2>4
<1>11. h[n] = iter[1 .. n]
  BY <1>2
<1> HIDE DEF h
<1> DEFINE S == {k \in Nat : h[k].done < Goal(bits) => h[k].smc >= k + 1}
<1>12. 0 \in S
  BY <1>10 DEF base, Unmapped
<1>13. ASSUME NEW k \in 0 .. n - 1, k \in S PROVE k + 1 \in S
  <2>1. h[k] \in A /\ h[k + 1] \in A /\ h[k + 1] = T(h[k])
    BY <1>2, <1>10
  <2>2. CASE h[k].done < Goal(bits)
    BY <1>2, <1>13, <2>1, <2>2 DEF T
  <2>3. CASE ~ (h[k].done < Goal(bits))
    BY <1>2, <1>13, <2>1, <2>3 DEF T, Turn
  <2>4. QED
    BY <2>2, <2>3
<1>14. n \in S
  <2> HIDE DEF S
  <2>1. 0 .. n \subseteq S
    BY <1>2, <1>12, <1>13, InductionTo
  <2>2. QED
    BY <1>2, <2>1
<1>15. h[n] \in A /\ ~ (h[n].done < Goal(bits))
  <2>1. h[n] \in A
    BY <1>2, <1>10
  <2>2. QED
    BY <1>2, <1>14, <2>1 DEF n
<1>16. QED
  BY <1>1, <1>2, <1>11, <1>15

LEMMA EndAddrType ==
    ASSUME NEW sm \in Seq(SyncManager), NEW k \in 1 .. Len(sm)
    PROVE  sm[k].start \in Nat /\ sm[k].len \in Nat \ {0} /\ EndAddr(sm[k]) = sm[k].start + sm[k].len
           /\ EndAddr(sm[k]) \in Nat
<1>1. sm[k] \in SyncManager
  OBVIOUS
<1>2. sm[k].start \in Nat /\ sm[k].len \in Nat \ {0}
  BY <1>1 DEF SyncManager
<1>3. EndAddr(sm[k]) = sm[k].start + sm[k].len
  BY DEF EndAddr
<1>4. QED
  BY <1>2, <1>3

\* The sync managers of one FMMU: they connect and bits are missing until the
\* last, behind which none are, or nothing connects.
LEMMA RunEndOf ==
    ASSUME NEW sm \in Seq(SyncManager), NEW L, Sums(Len(sm), Lengths(sm), L),
           \A k \in 0 .. Len(sm) : SumLen(sm, 1, k) = L[k],
           NEW i \in 1 .. Len(sm), NEW bits \in Nat,
           NEW j, j = RunEnd(sm, i, bits)
    PROVE  /\ j \in i .. Len(sm)
           /\ \A k \in i .. j - 1 : sm[k + 1].start <= EndAddr(sm[k]) /\ 8 * L[k] < bits
           /\ j = Len(sm) \/ 8 * L[j] >= bits \/ sm[j + 1].start > EndAddr(sm[j])
<1> DEFINE Stop(k) == k = Len(sm) \/ ~ (8 * SumLen(sm, 1, k) < bits) \/ ~ (sm[k + 1].start <= EndAddr(sm[k]))
           S == {k \in i .. Len(sm) : Stop(k)}
<1>1. \A k \in 0 .. Len(sm) : L[k] \in Nat /\ SumLen(sm, 1, k) = L[k]
  BY DEF Sums
<1>2. \A k \in 1 .. Len(sm) : sm[k].start \in Nat /\ EndAddr(sm[k]) \in Nat
  BY EndAddrType
<1>3. S \in SUBSET Nat /\ Len(sm) \in S
  OBVIOUS
<1>4. PICK m \in S : \A k \in S : m <= k
  <2> HIDE DEF S
  <2>1. QED
    BY <1>3, LeastNatural
<1>5. m \in i .. Len(sm) /\ Stop(m) /\ \A k \in i .. m - 1 : ~ Stop(k)
  <2>1. \A k \in i .. m - 1 : k \in i .. Len(sm) /\ ~ (m <= k)
    OBVIOUS
  <2> HIDE DEF Stop
  <2>2. QED
    BY <1>4, <2>1
<1>6. \A k \in i .. Len(sm) : Stop(k) <=> \/ k = Len(sm)
                                          \/ 8 * SumLen(sm, 1, k) >= bits
                                          \/ sm[k + 1].start > EndAddr(sm[k])
  <2> SUFFICES ASSUME NEW k \in i .. Len(sm)
               PROVE  Stop(k) <=> \/ k = Len(sm)
                                  \/ 8 * SumLen(sm, 1, k) >= bits
                                  \/ sm[k + 1].start > EndAddr(sm[k])
    OBVIOUS
  <2>1. k \in 0 .. Len(sm) /\ k \in 1 .. Len(sm) /\ (k # Len(sm) => k + 1 \in 1 .. Len(sm))
    OBVIOUS
  <2>2. SumLen(sm, 1, k) \in Nat
    BY <1>1, <2>1
  <2>3. k # Len(sm) => sm[k + 1].start \in Nat /\ EndAddr(sm[k]) \in Nat
    BY <1>2, <2>1
  <2>4. QED
    BY <2>2, <2>3, SMTT(30)
<1>7. /\ \A k \in i .. m - 1 : sm[k + 1].start <= EndAddr(sm[k]) /\ 8 * SumLen(sm, 1, k) < bits
      /\ m = Len(sm) \/ 8 * SumLen(sm, 1, m) >= bits \/ sm[m + 1].start > EndAddr(sm[m])
  <2>1. \A k \in i .. m - 1 : ~ Stop(k) => sm[k + 1].start <= EndAddr(sm[k]) /\ 8 * SumLen(sm, 1, k) < bits
    OBVIOUS
  <2> HIDE DEF Stop
  <2>2. QED
    BY <1>5, <1>6, <2>1
<1>8. /\ j \in i .. Len(sm)
      /\ \A k \in i .. j - 1 : sm[k + 1].start <= EndAddr(sm[k]) /\ 8 * SumLen(sm, 1, k) < bits
      /\ j = Len(sm) \/ 8 * SumLen(sm, 1, j) >= bits \/ sm[j + 1].start > EndAddr(sm[j])
  BY <1>5, <1>7, Zenon DEF RunEnd
<1>9. j \in 0 .. Len(sm) /\ \A k \in i .. j - 1 : k \in 0 .. Len(sm)
  BY <1>8
<1>10. QED
  BY <1>1, <1>8, <1>9

Fmmu == [LogStart : Nat, LogStartbit : 0 .. 7, LogLength : Nat \ {0}, LogEndbit : 0 .. 7, PhysStart : Nat]
FirstBit(f) == 8 * f.LogStart + f.LogStartbit
LastBit(f) == 8 * (f.LogStart + f.LogLength - 1) + f.LogEndbit
\* The bytes that are in use when the next free bit is this one.
ByteEnd(log, bit) == IF bit > 0 THEN log + 1 ELSE log

\* The FMMU lies from one free bit on and before another.
Between(f, log, bit, end, endbit) ==
    /\ 8 * log + bit <= FirstBit(f)
    /\ log <= f.LogStart
    /\ LastBit(f) < 8 * end + endbit
    /\ f.LogStart + f.LogLength <= ByteEnd(end, endbit)

BitPlace(r, log, bit, phys, bits) ==
    /\ r.fmmu \in Fmmu /\ r.LogAddr \in {log, log + 1} /\ r.BitPos \in 0 .. 7
    /\ 8 * r.LogAddr + r.BitPos = 8 * log + bit + bits
    /\ FirstBit(r.fmmu) = 8 * log + bit
    /\ LastBit(r.fmmu) = 8 * log + bit + bits - 1
    /\ r.fmmu.PhysStart = phys /\ r.fmmu.LogStart = log
    /\ Between(r.fmmu, log, bit, r.LogAddr, r.BitPos)

LEMMA BitFmmuPlace ==
    ASSUME NEW log \in Nat, NEW bit \in 0 .. 7, NEW phys \in Nat, NEW bits \in 1 .. 7,
           NEW r, r = BitFmmu(log, bit, phys, bits)
    PROVE  BitPlace(r, log, bit, phys, bits)
<1> DEFINE last == Carry(log, bit + bits - 1)
           next == Carry(last[1], last[2] + 1)
           f == [LogStart |-> log, LogStartbit |-> bit, LogLength |-> last[1] - log + 1,
                 LogEndbit |-> last[2], PhysStart |-> phys]
<1>1. r.fmmu = f /\ r.LogAddr = next[1] /\ r.BitPos = next[2]
  BY DEF BitFmmu
<1>2. /\ last[1] \in {log, log + 1} /\ last[2] \in 0 .. 7
      /\ 8 * last[1] + last[2] = 8 * log + bit + bits - 1
  <2>1. CASE bit + bits - 1 > 7
    BY <2>1 DEF Carry
  <2>2. CASE ~ (bit + bits - 1 > 7)
    BY <2>2 DEF Carry
  <2>3. QED
    BY <2>1, <2>2
<1> HIDE DEF last
<1>3. /\ next[2] \in 0 .. 7
      /\ 8 * next[1] + next[2] = 8 * last[1] + last[2] + 1
      /\ \/ next[1] = last[1] + 1 /\ next[2] = 0
         \/ next[1] = last[1] /\ next[2] > 0
  <2>1. CASE last[2] + 1 > 7
    BY <1>2, <2>1 DEF Carry
  <2>2. CASE ~ (last[2] + 1 > 7)
    BY <1>2, <2>2 DEF Carry
  <2>3. QED
    BY <2>1, <2>2
<1> HIDE DEF next
<1>4. next[1] \in {log, log + 1} /\ 8 * next[1] + next[2] = 8 * log + bit + bits
  BY <1>2, <1>3
<1>5. last[1] - log + 1 \in Nat \ {0}
  BY <1>2
<1>6. /\ f.LogStart = log /\ f.LogStartbit = bit /\ f.LogLength = last[1] - log + 1
      /\ f.LogEndbit = last[2] /\ f.PhysStart = phys /\ f \in Fmmu
  BY <1>2, <1>5 DEF Fmmu
<1> HIDE DEF f
<1>7. FirstBit(f) = 8 * log + bit /\ LastBit(f) = 8 * log + bit + bits - 1
  BY <1>2, <1>6 DEF FirstBit, LastBit
<1>8. Between(f, log, bit, next[1], next[2])
  BY <1>2, <1>3, <1>4, <1>6, <1>7 DEF Between, ByteEnd
<1>9. QED
  BY <1>1, <1>3, <1>4, <1>6, <1>7, <1>8 DEF BitPlace

BytePlace(r, log, bit, phys, size) ==
    /\ r.fmmu \in Fmmu /\ r.LogAddr = ByteEnd(log, bit) + size /\ r.BitPos = 0
    /\ FirstBit(r.fmmu) = 8 * ByteEnd(log, bit)
    /\ LastBit(r.fmmu) = 8 * (ByteEnd(log, bit) + size) - 1
    /\ r.fmmu.PhysStart = phys /\ r.fmmu.LogStart = ByteEnd(log, bit)
    /\ r.fmmu.LogLength = size
    /\ Between(r.fmmu, log, bit, r.LogAddr, r.BitPos)

LEMMA ByteFmmuPlace ==
    ASSUME NEW log \in Nat, NEW bit \in 0 .. 7, NEW phys \in Nat, NEW size \in Nat \ {0},
           NEW r, r = ByteFmmu(log, bit, phys, size)
    PROVE  BytePlace(r, log, bit, phys, size)
<1> DEFINE start == ByteEnd(log, bit)
           f == [LogStart |-> start, LogStartbit |-> 0, LogLength |-> size,
                 LogEndbit |-> 7, PhysStart |-> phys]
<1>1. r.fmmu = f /\ r.LogAddr = start + size /\ r.BitPos = 0
  BY DEF ByteFmmu, ByteEnd
<1>2. start \in Nat /\ log <= start /\ 8 * log + bit <= 8 * start
  BY DEF ByteEnd
<1> HIDE DEF start
<1>3. /\ f.LogStart = start /\ f.LogStartbit = 0 /\ f.LogLength = size
      /\ f.LogEndbit = 7 /\ f.PhysStart = phys /\ f \in Fmmu
  BY <1>2 DEF Fmmu
<1> HIDE DEF f
<1>4. FirstBit(f) = 8 * start /\ LastBit(f) = 8 * (start + size) - 1
  BY <1>2, <1>3 DEF FirstBit, LastBit
<1>5. Between(f, log, bit, start + size, 0)
  BY <1>2, <1>3, <1>4 DEF Between, ByteEnd
<1>6. QED
  BY <1>1, <1>2, <1>3, <1>4, <1>5 DEF start, BytePlace

\* A later free bit is behind the FMMU, too.
LEMMA BetweenWiden ==
    ASSUME NEW f \in Fmmu, NEW log \in Nat, NEW bit \in 0 .. 7, NEW end \in Nat, NEW endbit \in 0 .. 7,
           Between(f, log, bit, end, endbit),
           NEW log2 \in Nat, NEW bit2 \in 0 .. 7, NEW end2 \in Nat, NEW endbit2 \in 0 .. 7,
           8 * log2 + bit2 <= 8 * log + bit, 8 * end + endbit <= 8 * end2 + endbit2
    PROVE  Between(f, log2, bit2, end2, endbit2)
<1>1. f.LogStart \in Nat /\ f.LogStartbit \in 0 .. 7 /\ f.LogLength \in Nat \ {0} /\ f.LogEndbit \in 0 .. 7
  BY DEF Fmmu
<1>2. log2 <= log /\ ByteEnd(end, endbit) <= ByteEnd(end2, endbit2) /\ ByteEnd(end2, endbit2) \in Nat
      /\ ByteEnd(end, endbit) \in Nat
  BY DEF ByteEnd
<1>3. FirstBit(f) \in Nat /\ LastBit(f) \in Nat
  BY <1>1 DEF FirstBit, LastBit
<1>4. QED
  BY <1>1, <1>2, <1>3 DEF Between

\* The sync managers of a slave are as long as the process data in them.
HasRoom(sm, bits) == bits <= 8 * SumLen(sm, 1, Len(sm))

\* States of the loop that maps the first bits of one direction of a slave.
Progress(sm, bits, log, bit) ==
    {st \in [fmmus : Seq(Fmmu), done : Nat, smc : Nat, LogAddr : Nat, BitPos : 0 .. 7] :
        /\ 8 * log + bit <= 8 * st.LogAddr + st.BitPos
        /\ \A i \in 1 .. Len(st.fmmus) : Between(st.fmmus[i], log, bit, st.LogAddr, st.BitPos)
        /\ st.done < Goal(bits) => st.smc \in 1 .. Len(sm)
        /\ st.done = 0 => st = Unmapped(log, bit)
        /\ st.done > 0 => st.fmmus # <<>>
        /\ st.done > 0 /\ bits > 7 => /\ st.done <= Goal(bits) /\ st.BitPos = 0
                                      /\ st.LogAddr = ByteEnd(log, bit) + st.done
        /\ st.done > 0 /\ bits <= 7 => 8 * st.LogAddr + st.BitPos = 8 * log + bit + bits}

LEMMA GoalOf ==
    ASSUME NEW bits \in Nat, bits > 0
    PROVE  /\ Goal(bits) \in Nat \ {0}
           /\ 8 * Goal(bits) >= bits /\ 8 * Goal(bits) <= bits + 7
           /\ bits <= 7 => Goal(bits) = 1 /\ bytesOf(bits) = 0
           /\ bits > 7 => bytesOf(bits) = Goal(bits)
           /\ \A n \in Nat : 8 * n >= bits <=> n >= Goal(bits)
BY DEF Goal, bytesOf

LEMMA AppendElement ==
    ASSUME NEW S, NEW s \in Seq(S), NEW x \in S
    PROVE  /\ Append(s, x) \in Seq(S) /\ Append(s, x) # <<>>
           /\ Len(Append(s, x)) = Len(s) + 1
           /\ \A i \in 1 .. Len(Append(s, x)) :
                Append(s, x)[i] = IF i = Len(s) + 1 THEN x ELSE s[i]
<1>1. Append(s, x) \in Seq(S) /\ Append(s, x) # <<>> /\ Len(Append(s, x)) = Len(s) + 1
  BY SMTT(30)
<1>2. \A i \in 1 .. Len(s) + 1 : Append(s, x)[i] = IF i = Len(s) + 1 THEN x ELSE s[i]
  OBVIOUS
<1>3. QED
  BY <1>1, <1>2, Zenon

LEMMA TurnProgress ==
    ASSUME NEW sm \in SyncManagers, NEW bits \in Nat, bits > 0, HasRoom(sm, bits),
           NEW log \in Nat, NEW bit \in 0 .. 7,
           NEW st \in Progress(sm, bits, log, bit), st.done < Goal(bits)
    PROVE  /\ Turn(sm, bits, st) \in Progress(sm, bits, log, bit)
           /\ Turn(sm, bits, st).smc > st.smc
<1>1. PICK L : Sums(Len(sm), Lengths(sm), L) /\ \A k \in 0 .. Len(sm) : SumLen(sm, 1, k) = L[k]
  BY SumLenIsSum DEF SyncManagers
<1>2. /\ st.done \in Nat /\ st.LogAddr \in Nat /\ st.BitPos \in 0 .. 7
      /\ 8 * log + bit <= 8 * st.LogAddr + st.BitPos
  BY DEF Progress
<1>20. /\ st.fmmus \in Seq(Fmmu)
       /\ \A i \in 1 .. Len(st.fmmus) : Between(st.fmmus[i], log, bit, st.LogAddr, st.BitPos)
  BY DEF Progress
<1>21. st.smc \in 1 .. Len(sm) /\ Len(sm) \in Nat
  BY DEF Progress, SyncManagers
<1> DEFINE last == RunEnd(sm, st.smc, bits)
           phys == sm[st.smc].start
<1>3. /\ last \in st.smc .. Len(sm)
      /\ \A k \in st.smc .. last - 1 : sm[k + 1].start <= EndAddr(sm[k]) /\ 8 * L[k] < bits
      /\ last = Len(sm) \/ 8 * L[last] >= bits \/ sm[last + 1].start > EndAddr(sm[last])
  <2> HIDE DEF last
  <2>1. last = RunEnd(sm, st.smc, bits)
    BY DEF last
  <2>2. QED
    BY <1>1, <1>21, <2>1, RunEndOf DEF SyncManagers
<1>4. phys \in Nat
  BY <1>21, EndAddrType DEF SyncManagers
<1>5. L[last] \in Nat /\ SumLen(sm, 1, last) = L[last] /\ L[last] >= 1
  <2>1. last \in 0 .. Len(sm) /\ last - 1 \in 0 .. Len(sm) - 1 /\ last \in 1 .. Len(sm) /\ (last - 1) + 1 = last
    BY <1>21, <1>3
  <2> HIDE DEF last
  <2>2. L[last] = L[last - 1] + Lengths(sm)[last] /\ L[last - 1] \in Nat
    BY <1>1, <2>1, SMTT(30) DEF Sums
  <2>3. Lengths(sm)[last] \in Nat \ {0}
    BY <2>1, EndAddrType DEF Lengths, SyncManagers
  <2>4. QED
    BY <1>1, <2>1, <2>2, <2>3
<1> DEFINE n == Len(sm)
           size == SizeOf(bytesOf(bits), SumLen(sm, 1, last), st.done)
           r == IF bytesOf(bits) = 0 THEN BitFmmu(st.LogAddr, st.BitPos, phys, bits)
                ELSE ByteFmmu(st.LogAddr, st.BitPos, phys, size)
           new == [fmmus |-> Append(st.fmmus, r.fmmu), done |-> st.done + r.fmmu.LogLength,
                   smc |-> last + 1, LogAddr |-> r.LogAddr, BitPos |-> r.BitPos]
<1>6. Turn(sm, bits, st) = new
  BY DEF Turn, MapFmmu
<1> HIDE DEF last, phys, n
<1>7. /\ r.fmmu \in Fmmu /\ r.LogAddr \in Nat /\ r.BitPos \in 0 .. 7
      /\ 8 * st.LogAddr + st.BitPos <= 8 * r.LogAddr + r.BitPos
      /\ Between(r.fmmu, st.LogAddr, st.BitPos, r.LogAddr, r.BitPos)
      /\ st.done + r.fmmu.LogLength < Goal(bits) => last # n
      /\ bits > 7 => /\ st.done + r.fmmu.LogLength <= Goal(bits) /\ r.BitPos = 0
                     /\ r.LogAddr = ByteEnd(log, bit) + st.done + r.fmmu.LogLength
      /\ bits <= 7 => 8 * r.LogAddr + r.BitPos = 8 * log + bit + bits
  <2>1. CASE bits <= 7
    <3>1. bytesOf(bits) = 0 /\ Goal(bits) = 1 /\ bits \in 1 .. 7
      BY <2>1, GoalOf
    <3>2. st.LogAddr = log /\ st.BitPos = bit /\ st.done = 0
      BY <1>2, <3>1 DEF Progress, Unmapped
    <3>3. r = BitFmmu(log, bit, phys, bits)
      BY <3>1, <3>2
    <3> HIDE DEF r
    <3>4. r.fmmu \in Fmmu /\ r.LogAddr \in {log, log + 1} /\ r.BitPos \in 0 .. 7
          /\ 8 * r.LogAddr + r.BitPos = 8 * log + bit + bits
          /\ Between(r.fmmu, log, bit, r.LogAddr, r.BitPos)
      <4>1. BitPlace(r, log, bit, phys, bits)
        BY <1>4, <3>1, <3>3, BitFmmuPlace, Zenon
      <4>2. QED
        BY <4>1 DEF BitPlace
    <3>5. r.fmmu.LogLength \in Nat \ {0}
      BY <3>4 DEF Fmmu
    <3>6. QED
      BY <2>1, <3>1, <3>2, <3>4, <3>5
  <2>2. CASE bits > 7
    <3>1. bytesOf(bits) = Goal(bits) /\ Goal(bits) \in Nat \ {0}
      BY <2>2, GoalOf
    <3>2. size = IF L[last] + st.done > Goal(bits) THEN Goal(bits) - st.done ELSE L[last]
      BY <1>5, <3>1 DEF SizeOf
    <3>3. r = ByteFmmu(st.LogAddr, st.BitPos, phys, size)
      BY <3>1
    <3> HIDE DEF r, size
    <3>4. size \in Nat \ {0} /\ st.done + size <= Goal(bits)
      BY <1>2, <1>5, <3>1, <3>2
    <3>5. r.fmmu \in Fmmu /\ r.LogAddr = ByteEnd(st.LogAddr, st.BitPos) + size /\ r.BitPos = 0
          /\ r.fmmu.LogLength = size
          /\ Between(r.fmmu, st.LogAddr, st.BitPos, r.LogAddr, r.BitPos)
      <4>1. BytePlace(r, st.LogAddr, st.BitPos, phys, size)
        BY <1>2, <1>4, <3>3, <3>4, ByteFmmuPlace, Zenon
      <4>2. QED
        BY <4>1 DEF BytePlace
    <3>6. ByteEnd(st.LogAddr, st.BitPos) = ByteEnd(log, bit) + st.done
      <4>1. CASE st.done = 0
        BY <4>1 DEF Progress, Unmapped, ByteEnd
      <4>2. CASE st.done > 0
        BY <2>2, <4>2 DEF Progress, ByteEnd
      <4>3. QED
        BY <1>2, <4>1, <4>2
    <3>7. ByteEnd(log, bit) \in Nat /\ ByteEnd(st.LogAddr, st.BitPos) \in Nat
      BY <1>2 DEF ByteEnd
    <3>8. 8 * st.LogAddr + st.BitPos <= 8 * r.LogAddr
      BY <1>2, <3>4, <3>5 DEF ByteEnd
    <3>9. st.done + size < Goal(bits) => last # n
      <4> SUFFICES ASSUME st.done + size < Goal(bits), last = n PROVE FALSE
        OBVIOUS
      <4>1. L[last] < Goal(bits)
        BY <1>2, <1>5, <3>1, <3>2, <3>4
      <4>2. 8 * L[last] >= bits
        BY <1>5 DEF HasRoom, n
      <4>3. L[last] >= Goal(bits)
        BY <1>5, <4>2, GoalOf
      <4>4. QED
        BY <1>5, <3>1, <4>1, <4>3
    <3>10. QED
      BY <1>2, <2>2, <3>4, <3>5, <3>6, <3>7, <3>8, <3>9
  <2>3. QED
    BY <2>1, <2>2
<1>8. r.fmmu.LogLength \in Nat \ {0}
  BY <1>7 DEF Fmmu
<1> HIDE DEF r
<1>22. /\ last + 1 \in Nat /\ last + 1 > st.smc
       /\ last # n => last + 1 \in 1 .. Len(sm)
  BY <1>21, <1>3 DEF n
<1>23. Append(st.fmmus, r.fmmu) \in Seq(Fmmu) /\ Append(st.fmmus, r.fmmu) # <<>>
  <2>1. r.fmmu \in Fmmu
    BY <1>7
  <2>2. QED
    BY <1>20, <2>1, AppendElement, ZenonT(60)
<1>24. st.done + r.fmmu.LogLength \in Nat \ {0}
  BY <1>2, <1>8
<1>9. /\ new.fmmus = Append(st.fmmus, r.fmmu) /\ new.done = st.done + r.fmmu.LogLength
      /\ new.smc = last + 1 /\ new.LogAddr = r.LogAddr /\ new.BitPos = r.BitPos
  OBVIOUS
<1>25. new \in [fmmus : Seq(Fmmu), done : Nat, smc : Nat, LogAddr : Nat, BitPos : 0 .. 7]
  BY <1>7, <1>22, <1>23, <1>24
<1> HIDE DEF new
<1>10. \A i \in 1 .. Len(new.fmmus) : Between(new.fmmus[i], log, bit, r.LogAddr, r.BitPos)
  <2> SUFFICES ASSUME NEW i \in 1 .. Len(new.fmmus)
               PROVE  Between(new.fmmus[i], log, bit, r.LogAddr, r.BitPos)
    OBVIOUS
  <2>1. CASE i = Len(st.fmmus) + 1
    <3>1. new.fmmus[i] = r.fmmu
      BY <1>9, <1>20, <2>1
    <3>2. Between(r.fmmu, log, bit, r.LogAddr, r.BitPos)
      <4>1. 8 * r.LogAddr + r.BitPos <= 8 * r.LogAddr + r.BitPos
        BY <1>7, SMTT(30)
      <4>2. QED
        BY <1>2, <1>7, <4>1, BetweenWiden, ZenonT(60)
    <3>3. QED
      BY <3>1, <3>2
  <2>2. CASE i # Len(st.fmmus) + 1
    <3>1. i \in 1 .. Len(st.fmmus) /\ new.fmmus[i] = st.fmmus[i] /\ st.fmmus[i] \in Fmmu
      <4>1. i \in 1 .. Len(Append(st.fmmus, r.fmmu))
        BY <1>9
      <4>2. QED
        BY <1>9, <1>20, <2>2, <4>1
    <3>2. Between(st.fmmus[i], log, bit, st.LogAddr, st.BitPos)
      BY <1>20, <3>1
    <3>3. st.fmmus[i] \in Fmmu
      BY <3>1
    <3>4. Between(st.fmmus[i], log, bit, r.LogAddr, r.BitPos)
      <4>1. /\ 8 * log + bit <= 8 * log + bit
            /\ 8 * st.LogAddr + st.BitPos <= 8 * r.LogAddr + r.BitPos
        BY <1>7
      <4>2. QED
        BY <1>2, <1>7, <3>2, <3>3, <4>1, BetweenWiden, Zenon
    <3>5. QED
      BY <3>1, <3>4
  <2>3. QED
    BY <2>1, <2>2
<1>11. 8 * log + bit <= 8 * r.LogAddr + r.BitPos
  BY <1>2, <1>7
<1>12. new \in Progress(sm, bits, log, bit)
  <2>1. new.done > 0 /\ ~ (new.done = 0)
    BY <1>9, <1>24
  <2>2. bits > 7 => new.done <= Goal(bits) /\ new.BitPos = 0 /\ new.LogAddr = ByteEnd(log, bit) + new.done
    <3>1. ByteEnd(log, bit) \in Nat
      BY DEF ByteEnd
    <3>2. QED
      BY <1>2, <1>7, <1>8, <1>9, <3>1
  <2>3. new.done < Goal(bits) => new.smc \in 1 .. Len(sm)
    BY <1>7, <1>9, <1>22
  <2>4. bits <= 7 => 8 * new.LogAddr + new.BitPos = 8 * log + bit + bits
    BY <1>7, <1>9
  <2>5. QED
    BY <1>9, <1>10, <1>11, <1>23, <1>25, <2>1, <2>2, <2>3, <2>4, Zenon DEF Progress
<1>13. QED
  BY <1>6, <1>9, <1>12, <1>22

\* The loop starts with the first sync manager.
LEMMA NothingMapped ==
    ASSUME NEW sm \in SyncManagers, NEW bits \in Nat, bits > 0, HasRoom(sm, bits),
           NEW log \in Nat, NEW bit \in 0 .. 7
    PROVE  Unmapped(log, bit) \in Progress(sm, bits, log, bit)
<1>1. Len(sm) >= 1
  <2> SUFFICES ASSUME Len(sm) = 0 PROVE FALSE
    BY DEF SyncManagers
  <2>1. PICK L : Sums(Len(sm), Lengths(sm), L) /\ \A k \in 0 .. Len(sm) : SumLen(sm, 1, k) = L[k]
    BY SumLenIsSum DEF SyncManagers
  <2>2. SumLen(sm, 1, Len(sm)) = 0
    BY <2>1 DEF Sums
  <2>3. QED
    BY <2>2 DEF HasRoom
<1>2. 1 \in 1 .. Len(sm)
  BY <1>1 DEF SyncManagers
<1>3. Unmapped(log, bit) \in [fmmus : Seq(Fmmu), done : Nat, smc : Nat, LogAddr : Nat, BitPos : 0 .. 7]
  BY DEF Unmapped
<1>4. QED
  BY <1>2, <1>3 DEF Progress, Unmapped

\* What ecx_config_create_output_mappings and ..._input_mappings make of a
\* direction with process data.
Mapping(m, bits, log, bit) ==
    /\ m.fmmus \in Seq(Fmmu) /\ m.fmmus # <<>>
    /\ m.LogAddr \in Nat /\ m.BitPos \in 0 .. 7
    /\ 8 * log + bit <= 8 * m.LogAddr + m.BitPos
    /\ \A i \in 1 .. Len(m.fmmus) : Between(m.fmmus[i], log, bit, m.LogAddr, m.BitPos)
    /\ bits > 7 => m.BitPos = 0 /\ m.LogAddr = ByteEnd(log, bit) + Goal(bits)
    /\ bits <= 7 => 8 * m.LogAddr + m.BitPos = 8 * log + bit + bits

LEMMA MappingPlace ==
    ASSUME NEW sm \in SyncManagers, NEW bits \in Nat, bits > 0, HasRoom(sm, bits),
           NEW log \in Nat, NEW bit \in 0 .. 7
    PROVE  Mapping(CreateMappings(sm, bits, log, bit), bits, log, bit)
<1> DEFINE A == Progress(sm, bits, log, bit)
           m == CreateMappings(sm, bits, log, bit)
<1>1. Goal(bits) \in Nat \ {0}
  BY GoalOf
<1>2. Unmapped(log, bit) \in A
  BY NothingMapped, Zenon
<1>3. ASSUME NEW st \in A
      PROVE  /\ Turn(sm, bits, st) \in A
             /\ st.smc \in Nat
             /\ st.done < Goal(bits) => /\ st.smc <= Len(sm)
                                        /\ Turn(sm, bits, st).smc > st.smc
  <2>1. st.smc \in Nat /\ (st.done < Goal(bits) => st.smc <= Len(sm))
    BY DEF Progress, SyncManagers
  <2>2. CASE st.done < Goal(bits)
    BY <2>1, <2>2, TurnProgress, Zenon
  <2>3. CASE ~ (st.done < Goal(bits))
    BY <2>1, <2>3 DEF Turn
  <2>4. QED
    BY <2>2, <2>3
<1>4. m \in A /\ ~ (m.done < Goal(bits))
  <2> HIDE DEF A
  <2>1. sm \in Seq(SyncManager)
    BY DEF SyncManagers
  <2>2. QED
    BY <1>2, <1>3, <2>1, CreateResult, Zenon
<1> HIDE DEF m
<1>5. m.done \in Nat
  BY <1>4 DEF Progress
<1>6. m.done > 0 /\ m.done >= Goal(bits)
  BY <1>1, <1>4, <1>5
<1>7. m.fmmus \in Seq(Fmmu) /\ m.fmmus # <<>>
  BY <1>4, <1>6 DEF Progress
<1>8. /\ m.LogAddr \in Nat /\ m.BitPos \in 0 .. 7
      /\ 8 * log + bit <= 8 * m.LogAddr + m.BitPos
      /\ \A i \in 1 .. Len(m.fmmus) : Between(m.fmmus[i], log, bit, m.LogAddr, m.BitPos)
  BY <1>4 DEF Progress
<1>9. bits > 7 => m.BitPos = 0 /\ m.LogAddr = ByteEnd(log, bit) + Goal(bits)
  <2>1. bits > 7 => m.done <= Goal(bits) /\ m.BitPos = 0 /\ m.LogAddr = ByteEnd(log, bit) + m.done
    BY <1>4, <1>6 DEF Progress
  <2>2. bits > 7 => m.done = Goal(bits)
    BY <1>1, <1>5, <1>6, <2>1
  <2>3. QED
    BY <2>1, <2>2
<1>10. bits <= 7 => 8 * m.LogAddr + m.BitPos = 8 * log + bit + bits
  BY <1>4, <1>6 DEF Progress
<1>11. QED
  BY <1>7, <1>8, <1>9, <1>10 DEF Mapping, m

--------------------------------------------------------------------------------
(* The map of a group. *)

\* What ecx_map_sm leaves: the sync managers of each slave hold its process data.
SlaveData == [bits : Nat, sm : SyncManagers]
SlaveConfig == [out : SlaveData, in : SlaveData, blockLRW : BOOLEAN]
RealNetworks ==
    \A n \in Networks :
        /\ n.slaves \in Seq(SlaveConfig)
        /\ \A s \in 1 .. Len(n.slaves), d \in Dirs : HasRoom(n.slaves[s][d].sm, n.slaves[s][d].bits)

Fmmus == Seq(Fmmu)
ListOK ==
    /\ Slaves \in Nat
    /\ overlap \in BOOLEAN
    /\ \A s \in Slave : slavelist[s].blockLRW \in BOOLEAN
    /\ \A s \in Slave, d \in Dirs :
         bitsOf(s, d) \in Nat /\ smOf(s, d) \in SyncManagers /\ HasRoom(smOf(s, d), bitsOf(s, d))
LoopOK ==
    /\ phase \in IF overlap THEN {"overlap", "mapped"} ELSE {"out", "in", "mapped"}
    /\ cur \in 1 .. Slaves + 1
    /\ LogAddr \in Nat
    /\ BitPos \in 0 .. 7
    /\ overlap => BitPos = 0
    /\ phase = "mapped" => BitPos = 0

\* The loops have been at this direction of this slave.
Done(s, d) == \/ phase = "mapped"
              \/ phase = "overlap" /\ s < cur
              \/ phase = "out" /\ d = "out" /\ s < cur
              \/ phase = "in" /\ (d = "out" \/ s < cur)
HasFmmu == \A s \in Slave, d \in Dirs : fmmu[s][d] # NoFmmu <=> Done(s, d) /\ bitsOf(s, d) > 0

Placed(s, d, log, bit, end, endbit) ==
    \A i \in 1 .. Len(fmmu[s][d]) : Between(fmmu[s][d][i], log, bit, end, endbit)
AllPlaced == \A s \in Slave, d \in Dirs : Placed(s, d, 0, 0, LogAddr, BitPos)

Apart(s, d, t, e) ==
    \A i \in 1 .. Len(fmmu[s][d]), j \in 1 .. Len(fmmu[t][e]) :
        \/ LastBit(fmmu[s][d][i]) < FirstBit(fmmu[t][e][j])
        \/ LastBit(fmmu[t][e][j]) < FirstBit(fmmu[s][d][i])
AllApart ==
    \A s, t \in Slave, d, e \in Dirs : <<s, d>> # <<t, e>> /\ (overlap => s # t) => Apart(s, d, t, e)

FmmuOK == fmmu \in [Slave -> [Dirs -> Fmmus]]
MapInv == ListOK /\ LoopOK /\ FmmuOK /\ HasFmmu /\ AllPlaced /\ AllApart

LEMMA InitMapInv ==
    ASSUME RealNetworks, Init
    PROVE  MapInv
<1>1. PICK n \in Networks : slavelist = n.slaves /\ overlap = n.overlap
  BY DEF Init
<1>2. slavelist \in Seq(SlaveConfig) /\ overlap \in BOOLEAN /\ Len(slavelist) >= 1
  BY <1>1, IoAssumption DEF RealNetworks
<1>3. ASSUME NEW s \in Slave
      PROVE  /\ slavelist[s].blockLRW \in BOOLEAN
             /\ slavelist[s].out \in SlaveData /\ slavelist[s].in \in SlaveData
  <2>1. slavelist[s] \in SlaveConfig
    BY <1>2 DEF Slave, Slaves
  <2>2. QED
    BY <2>1 DEF SlaveConfig
<1>4. ASSUME NEW s \in Slave, NEW d \in Dirs
      PROVE  bitsOf(s, d) \in Nat /\ smOf(s, d) \in SyncManagers /\ HasRoom(smOf(s, d), bitsOf(s, d))
  <2>1. slavelist[s][d] \in SlaveData
    <3>1. CASE d = "out"
      BY <1>3, <3>1
    <3>2. CASE d = "in"
      BY <1>3, <3>2
    <3>3. QED
      BY <3>1, <3>2 DEF Dirs
  <2>2. HasRoom(slavelist[s][d].sm, slavelist[s][d].bits)
    BY <1>1 DEF RealNetworks, Slave, Slaves
  <2>3. QED
    BY <2>1, <2>2 DEF SlaveData, bitsOf, smOf
<1>5. ListOK
  BY <1>2, <1>3, <1>4 DEF ListOK, Slaves
<1>6. Slaves \in Nat
  BY <1>2 DEF Slaves
<1>7. \A s \in Slave, d \in Dirs : fmmu[s][d] = <<>>
  BY DEF Init, NoFmmu
<1>8. Len(<<>>) = 0 /\ <<>> \in Fmmus
  BY DEF Fmmus
<1>9. FmmuOK
  BY <1>8 DEF Init, NoFmmu, FmmuOK
<1>10. LoopOK
  BY <1>2, <1>6 DEF Init, LoopOK
<1>11. HasFmmu
  BY <1>7 DEF Init, HasFmmu, NoFmmu, Done, Slave
<1>12. AllPlaced /\ AllApart
  BY <1>7, <1>8 DEF AllPlaced, AllApart, Placed, Apart
<1>13. QED
  BY <1>5, <1>9, <1>10, <1>11, <1>12 DEF MapInv

\* The step gives directions D of slave c FMMUs behind all the others.
Fresh(s, d) ==
    \A i \in 1 .. Len(fmmu'[s][d]) : Between(fmmu'[s][d][i], LogAddr, BitPos, LogAddr', BitPos')
Extends(c, D) ==
    /\ LogAddr' \in Nat /\ BitPos' \in 0 .. 7
    /\ 8 * LogAddr + BitPos <= 8 * LogAddr' + BitPos'
    /\ D \subseteq Dirs
    /\ \A d, e \in D : d # e => overlap
    /\ \A s \in Slave, d \in Dirs : s # c \/ d \notin D => fmmu'[s][d] = fmmu[s][d]
    /\ \A d \in D : Fresh(c, d)
    /\ UNCHANGED <<slavelist, overlap>>

LEMMA FirstLast ==
    ASSUME NEW f \in Fmmu
    PROVE  FirstBit(f) \in Nat /\ LastBit(f) \in Int
BY DEF FirstBit, LastBit, Fmmu

LEMMA FmmuType ==
    ASSUME FmmuOK, NEW s \in Slave, NEW d \in Dirs, NEW i \in 1 .. Len(fmmu[s][d])
    PROVE  fmmu[s][d][i] \in Fmmu
<1>1. fmmu[s][d] \in Seq(Fmmu)
  BY DEF FmmuOK, Fmmus
<1>2. QED
  BY <1>1

LEMMA FmmusBehind ==
    ASSUME LoopOK, FmmuOK, FmmuOK', AllPlaced, AllApart, NEW c, NEW D, Extends(c, D)
    PROVE  AllPlaced' /\ AllApart'
<1>1. Slave' = Slave /\ overlap' = overlap
  BY DEF Extends, Slave, Slaves
<1>2. LogAddr \in Nat /\ BitPos \in 0 .. 7 /\ LogAddr' \in Nat /\ BitPos' \in 0 .. 7
  BY DEF LoopOK, Extends
<1>3. ASSUME NEW s \in Slave, NEW d \in Dirs, NEW i \in 1 .. Len(fmmu'[s][d])
      PROVE  fmmu'[s][d][i] \in Fmmu
  <2>1. fmmu'[s][d] \in Seq(Fmmu)
    BY <1>1 DEF FmmuOK, Fmmus
  <2>2. QED
    BY <2>1
<1>4. ASSUME NEW s \in Slave, NEW d \in Dirs, s # c \/ d \notin D, NEW i \in 1 .. Len(fmmu'[s][d])
      PROVE  Between(fmmu'[s][d][i], 0, 0, LogAddr, BitPos)
  <2>1. fmmu'[s][d] = fmmu[s][d]
    BY <1>4 DEF Extends
  <2>2. QED
    BY <2>1 DEF AllPlaced, Placed
<1>5. ASSUME NEW d \in D, NEW i \in 1 .. Len(fmmu'[c][d])
      PROVE  Between(fmmu'[c][d][i], LogAddr, BitPos, LogAddr', BitPos')
  BY DEF Extends, Fresh
<1>6. /\ 0 \in Nat /\ 0 \in 0 .. 7 /\ 8 * 0 + 0 <= 8 * LogAddr + BitPos /\ 8 * 0 + 0 <= 8 * 0 + 0
      /\ 8 * LogAddr + BitPos <= 8 * LogAddr' + BitPos'
      /\ 8 * LogAddr' + BitPos' <= 8 * LogAddr' + BitPos'
  <2>1. 8 * LogAddr + BitPos <= 8 * LogAddr' + BitPos'
    BY DEF Extends
  <2>2. 8 * LogAddr' + BitPos' <= 8 * LogAddr' + BitPos'
    <3>1. \A a \in Nat, b \in 0 .. 7 : 8 * a + b <= 8 * a + b
      OBVIOUS
    <3>2. QED
      BY <1>2, <3>1, Zenon
  <2>3. 0 \in Nat /\ 0 \in 0 .. 7 /\ 8 * 0 + 0 <= 8 * LogAddr + BitPos /\ 8 * 0 + 0 <= 8 * 0 + 0
    BY <1>2
  <2>4. QED
    BY <2>1, <2>2, <2>3, Zenon
<1>7. ASSUME NEW s \in Slave, NEW d \in Dirs, NEW i \in 1 .. Len(fmmu'[s][d])
      PROVE  Between(fmmu'[s][d][i], 0, 0, LogAddr', BitPos')
  <2>1. CASE s # c \/ d \notin D
    BY <1>2, <1>3, <1>4, <1>6, <2>1, BetweenWiden, Zenon
  <2>2. CASE s = c /\ d \in D
    BY <1>2, <1>3, <1>5, <1>6, <2>2, BetweenWiden, Zenon
  <2>3. QED
    BY <2>1, <2>2
<1>8. AllPlaced'
  BY <1>1, <1>7 DEF AllPlaced, Placed
<1>9. ASSUME NEW s \in Slave, NEW d \in Dirs, NEW t \in Slave, NEW e \in Dirs,
             <<s, d>> # <<t, e>>, overlap => s # t,
             NEW i \in 1 .. Len(fmmu'[s][d]), NEW j \in 1 .. Len(fmmu'[t][e])
      PROVE  \/ LastBit(fmmu'[s][d][i]) < FirstBit(fmmu'[t][e][j])
             \/ LastBit(fmmu'[t][e][j]) < FirstBit(fmmu'[s][d][i])
  <2> DEFINE f == fmmu'[s][d][i]
             g == fmmu'[t][e][j]
             pos == 8 * LogAddr + BitPos
  <2>1. FirstBit(f) \in Nat /\ LastBit(f) \in Int /\ FirstBit(g) \in Nat /\ LastBit(g) \in Int /\ pos \in Nat
    <3>1. f \in Fmmu /\ g \in Fmmu
      BY <1>3
    <3>2. pos \in Nat
      BY <1>2
    <3> HIDE DEF f, g, pos
    <3>3. QED
      BY <3>1, <3>2, FirstLast
  <2>2. CASE (s # c \/ d \notin D) /\ (t # c \/ e \notin D)
    <3>1. fmmu'[s][d] = fmmu[s][d] /\ fmmu'[t][e] = fmmu[t][e]
      BY <2>2 DEF Extends
    <3>2. Apart(s, d, t, e)
      BY <1>9 DEF AllApart
    <3>3. QED
      BY <3>1, <3>2 DEF Apart
  <2>3. CASE s = c /\ d \in D /\ ~ (t = c /\ e \in D)
    <3>1. pos <= FirstBit(f)
      BY <1>5, <2>3 DEF Between
    <3>2. LastBit(g) < pos
      BY <1>4, <2>3 DEF Between
    <3> HIDE DEF f, g, pos
    <3>3. LastBit(g) < FirstBit(f)
      BY <2>1, <3>1, <3>2
    <3>4. QED
      BY <3>3 DEF f, g
  <2>4. CASE t = c /\ e \in D /\ ~ (s = c /\ d \in D)
    <3>1. pos <= FirstBit(g)
      BY <1>5, <2>4 DEF Between
    <3>2. LastBit(f) < pos
      BY <1>4, <2>4 DEF Between
    <3> HIDE DEF f, g, pos
    <3>3. LastBit(f) < FirstBit(g)
      BY <2>1, <3>1, <3>2
    <3>4. QED
      BY <3>3 DEF f, g
  <2>5. CASE s = c /\ d \in D /\ t = c /\ e \in D
    BY <1>9, <2>5 DEF Extends
  <2>6. QED
    BY <2>2, <2>3, <2>4, <2>5
<1>10. AllApart'
  BY <1>1, <1>9 DEF AllApart, Apart
<1>11. QED
  BY <1>8, <1>10

LEMMA MapSlaveCur ==
    ASSUME MapInv, NEW d, NEW counter, NEW blocked, MapSlave(d, counter, blocked)
    PROVE  cur \in Slave /\ cur \in Nat /\ Slaves \in Nat
<1>1. cur <= Slaves
  BY DEF MapSlave
<1>2. cur \in 1 .. Slaves + 1 /\ Slaves \in Nat
  BY DEF MapInv, LoopOK, ListOK
<1>3. QED
  BY <1>1, <1>2 DEF Slave

\* Both functions map the directions one after the other.
LEMMA MapSlaveMapping ==
    ASSUME MapInv, NEW d \in Dirs, NEW counter, NEW blocked, MapSlave(d, counter, blocked), bitsOf(cur, d) > 0,
           NEW m, m = CreateMappings(smOf(cur, d), bitsOf(cur, d), LogAddr, BitPos)
    PROVE  /\ Mapping(m, bitsOf(cur, d), LogAddr, BitPos)
           /\ fmmu' = [fmmu EXCEPT ![cur][d] = m.fmmus]
           /\ LogAddr' = m.LogAddr /\ BitPos' = m.BitPos
           /\ Account(LogAddr' - LogAddr)
<1>1. cur \in Slave
  BY MapSlaveCur
<1>2. LogAddr \in Nat /\ BitPos \in 0 .. 7
  BY DEF MapInv, LoopOK
<1>3. bitsOf(cur, d) \in Nat /\ smOf(cur, d) \in SyncManagers /\ HasRoom(smOf(cur, d), bitsOf(cur, d))
  BY <1>1 DEF MapInv, ListOK
<1>4. Mapping(m, bitsOf(cur, d), LogAddr, BitPos)
  BY <1>2, <1>3, MappingPlace, Zenon
<1>5. QED
  BY <1>4, Zenon DEF MapSlave

LEMMA MapSlaveExtends ==
    ASSUME MapInv, NEW d \in Dirs, NEW counter, NEW blocked, MapSlave(d, counter, blocked), bitsOf(cur, d) > 0
    PROVE  FmmuOK' /\ Extends(cur, {d}) /\ fmmu'[cur][d] # NoFmmu
<1>1. cur \in Slave /\ FmmuOK
  BY MapSlaveCur DEF MapInv
<1>2. UNCHANGED <<slavelist, overlap>>
  BY DEF MapSlave
<1>3. Slave' = Slave
  BY <1>2 DEF Slave, Slaves
<1> DEFINE m == CreateMappings(smOf(cur, d), bitsOf(cur, d), LogAddr, BitPos)
<1>4. /\ Mapping(m, bitsOf(cur, d), LogAddr, BitPos)
      /\ fmmu' = [fmmu EXCEPT ![cur][d] = m.fmmus]
      /\ LogAddr' = m.LogAddr /\ BitPos' = m.BitPos
  BY MapSlaveMapping, Zenon
<1> HIDE DEF m
<1>5. m.fmmus \in Fmmus /\ m.fmmus # <<>>
  BY <1>4 DEF Mapping, Fmmus
<1>6. FmmuOK'
  BY <1>1, <1>3, <1>4, <1>5 DEF FmmuOK
<1>7. \A s \in Slave, e \in Dirs : fmmu'[s][e] = IF s = cur /\ e = d THEN m.fmmus ELSE fmmu[s][e]
  BY <1>1, <1>4 DEF FmmuOK
<1>8. LogAddr' \in Nat /\ BitPos' \in 0 .. 7 /\ 8 * LogAddr + BitPos <= 8 * LogAddr' + BitPos'
  BY <1>4 DEF Mapping
<1>9. Fresh(cur, d)
  BY <1>1, <1>4, <1>7 DEF Fresh, Mapping
<1>10. Extends(cur, {d})
  BY <1>2, <1>7, <1>8, <1>9 DEF Extends
<1>11. QED
  BY <1>1, <1>5, <1>6, <1>7, <1>10 DEF NoFmmu

LEMMA MapSlaveInv ==
    ASSUME MapInv, NEW d \in Dirs, phase = d, NEW counter, NEW blocked, MapSlave(d, counter, blocked)
    PROVE  MapInv'
<1>1. cur \in Slave /\ cur \in Nat /\ Slaves \in Nat
  BY MapSlaveCur
<1>2. UNCHANGED <<slavelist, overlap, phase>> /\ cur' = cur + 1
  BY DEF MapSlave
<1>3. ListOK'
  BY <1>2 DEF MapInv, ListOK, Slaves, Slave, bitsOf, smOf
<1>4. ~ overlap /\ phase # "mapped"
  BY DEF MapInv, LoopOK, ListOK, Dirs
<1>5. Slave' = Slave /\ Slaves' = Slaves
  BY <1>2 DEF Slave, Slaves
<1>6. \A s \in Slave, e \in Dirs : Done(s, e)' <=> Done(s, e) \/ (s = cur /\ e = d)
  BY <1>1, <1>2, <1>4 DEF Done, Dirs, Slave
<1>7. ~ Done(cur, d)
  BY <1>1, <1>4 DEF Done
<1>8. LoopOK /\ FmmuOK /\ HasFmmu /\ AllPlaced /\ AllApart /\ cur <= Slaves
  BY DEF MapInv, MapSlave
<1>9. LogAddr \in Nat /\ BitPos \in 0 .. 7
  BY <1>8 DEF LoopOK
<1>10. CASE bitsOf(cur, d) > 0
  <2>1. FmmuOK' /\ Extends(cur, {d}) /\ fmmu'[cur][d] # NoFmmu
    BY <1>10, MapSlaveExtends, Zenon
  <2>2. HasFmmu'
    <3>1. \A s \in Slave, e \in Dirs : s # cur \/ e # d => fmmu'[s][e] = fmmu[s][e]
      BY <2>1 DEF Extends
    <3>2. QED
      BY <1>2, <1>5, <1>6, <1>7, <1>8, <1>10, <2>1, <3>1 DEF HasFmmu, bitsOf
  <2>3. AllPlaced' /\ AllApart'
    BY <1>8, <2>1, FmmusBehind, Zenon
  <2>4. LoopOK'
    <3>1. LogAddr' \in Nat /\ BitPos' \in 0 .. 7
      BY <2>1 DEF Extends
    <3>2. QED
      BY <1>1, <1>2, <1>4, <1>5, <1>8, <3>1 DEF LoopOK
  <2>5. QED
    BY <1>3, <2>1, <2>2, <2>3, <2>4 DEF MapInv
<1>11. CASE ~ (bitsOf(cur, d) > 0)
  <2>1. UNCHANGED <<fmmu, LogAddr, BitPos>>
    BY <1>11 DEF MapSlave
  <2>2. FmmuOK' /\ AllPlaced' /\ AllApart'
    BY <1>2, <1>5, <1>8, <2>1 DEF FmmuOK, AllPlaced, AllApart, Placed, Apart
  <2>3. HasFmmu'
    BY <1>2, <1>5, <1>6, <1>8, <1>11, <2>1 DEF HasFmmu, bitsOf
  <2>4. LoopOK'
    BY <1>1, <1>2, <1>4, <1>5, <1>8, <2>1 DEF LoopOK
  <2>5. QED
    BY <1>3, <2>2, <2>3, <2>4 DEF MapInv
<1>12. QED
  BY <1>10, <1>11

\* "if (BitPos)": the loops go on with a fresh byte.
LEMMA CloseByteFacts ==
    ASSUME MapInv, CloseByte
    PROVE  /\ LogAddr' = ByteEnd(LogAddr, BitPos) /\ BitPos' = 0 /\ LogAddr' \in Nat
           /\ 8 * LogAddr + BitPos <= 8 * LogAddr' + BitPos'
           /\ BitPos > 0 => Account(1) /\ LogAddr' = LogAddr + 1
           /\ BitPos = 0 => UNCHANGED <<LogAddr, BitPos, closed, segmentsize>>
<1>1. LogAddr \in Nat /\ BitPos \in 0 .. 7
  BY DEF MapInv, LoopOK
<1>2. CASE BitPos > 0
  BY <1>1, <1>2 DEF CloseByte, ByteEnd
<1>3. CASE BitPos = 0
  BY <1>1, <1>3 DEF CloseByte, ByteEnd
<1>4. QED
  BY <1>1, <1>2, <1>3

LEMMA CloseInv ==
    ASSUME MapInv, CloseOutputs \/ CloseInputs
    PROVE  MapInv'
<1>1. CloseByte /\ UNCHANGED <<slavelist, overlap, fmmu>> /\ cur > Slaves
  BY DEF CloseOutputs, CloseInputs
<1>2. LoopOK /\ FmmuOK /\ HasFmmu /\ AllPlaced /\ AllApart /\ Slaves \in Nat
  BY DEF MapInv, ListOK
<1>3. LogAddr \in Nat /\ BitPos \in 0 .. 7 /\ cur \in Nat
  BY <1>2 DEF LoopOK
<1>4. Slave' = Slave /\ Slaves' = Slaves
  BY <1>1 DEF Slave, Slaves
<1>5. ListOK'
  BY <1>1 DEF MapInv, ListOK, Slaves, Slave, bitsOf, smOf
<1>6. LogAddr' \in Nat /\ BitPos' = 0 /\ 8 * LogAddr + BitPos <= 8 * LogAddr' + BitPos'
  BY <1>1, CloseByteFacts
<1>7. FmmuOK'
  BY <1>1, <1>2, <1>4 DEF FmmuOK
<1>8. AllPlaced' /\ AllApart'
  <2>1. Extends(1, {})
    BY <1>1, <1>6 DEF Extends
  <2>2. QED
    BY <1>2, <1>7, <2>1, FmmusBehind, Zenon
<1>9. \/ phase = "out" /\ phase' = "in" /\ cur' = 1
      \/ phase = "in" /\ phase' = "mapped" /\ cur' = cur
  BY DEF CloseOutputs, CloseInputs
<1>10. ~ overlap
  BY <1>2, <1>9 DEF LoopOK
<1>11. LoopOK'
  BY <1>1, <1>2, <1>4, <1>6, <1>9, <1>10 DEF LoopOK
<1>12. HasFmmu'
  <2>1. \A s \in Slave, d \in Dirs : Done(s, d)' <=> Done(s, d)
    BY <1>1, <1>2, <1>3, <1>9 DEF Done, Dirs, Slave
  <2>2. QED
    BY <1>1, <1>2, <1>4, <2>1 DEF HasFmmu, bitsOf
<1>13. QED
  BY <1>5, <1>7, <1>8, <1>11, <1>12 DEF MapInv

\* One slave of the overlapping map.
LEMMA MapFromPlace ==
    ASSUME MapInv, overlap, NEW s \in Slave, NEW d \in Dirs
    PROVE  /\ MapFrom(s, d).fmmus \in Fmmus
           /\ MapFrom(s, d).fmmus # <<>> <=> bitsOf(s, d) > 0
           /\ MapFrom(s, d).LogAddr \in Nat /\ MapFrom(s, d).BitPos \in 0 .. 7
           /\ 8 * LogAddr <= 8 * MapFrom(s, d).LogAddr + MapFrom(s, d).BitPos
           /\ bitsOf(s, d) > 7 => MapFrom(s, d).BitPos = 0
           /\ ByteEnd(MapFrom(s, d).LogAddr, MapFrom(s, d).BitPos) = LogAddr + Goal(bitsOf(s, d))
           /\ \A i \in 1 .. Len(MapFrom(s, d).fmmus) :
                Between(MapFrom(s, d).fmmus[i], LogAddr, 0, MapFrom(s, d).LogAddr, MapFrom(s, d).BitPos)
<1>1. LogAddr \in Nat
  BY DEF MapInv, LoopOK
<1>2. bitsOf(s, d) \in Nat /\ smOf(s, d) \in SyncManagers /\ HasRoom(smOf(s, d), bitsOf(s, d))
  BY DEF MapInv, ListOK
<1>3. CASE bitsOf(s, d) = 0
  <2>1. MapFrom(s, d) = [fmmus |-> <<>>, LogAddr |-> LogAddr, BitPos |-> 0]
    BY <1>3 DEF MapFrom, NoFmmu
  <2>2. MapFrom(s, d).fmmus = <<>> /\ MapFrom(s, d).LogAddr = LogAddr /\ MapFrom(s, d).BitPos = 0
    BY <2>1
  <2>3. <<>> \in Fmmus /\ Len(<<>>) = 0
    BY DEF Fmmus
  <2>4. Goal(0) = 0
    BY DEF Goal
  <2>5. ByteEnd(LogAddr, 0) = LogAddr + Goal(bitsOf(s, d))
    BY <1>1, <1>3, <2>4 DEF ByteEnd
  <2>6. \A i \in 1 .. Len(MapFrom(s, d).fmmus) :
                Between(MapFrom(s, d).fmmus[i], LogAddr, 0, MapFrom(s, d).LogAddr, MapFrom(s, d).BitPos)
    BY <2>2, <2>3
  <2> HIDE DEF MapFrom
  <2>7. QED
    BY <1>1, <1>3, <2>2, <2>3, <2>5, <2>6
<1>4. CASE bitsOf(s, d) # 0
  <2> DEFINE m == MapFrom(s, d)
  <2>1. m = CreateMappings(smOf(s, d), bitsOf(s, d), LogAddr, 0)
    BY <1>4 DEF MapFrom
  <2>2. bitsOf(s, d) > 0 /\ 0 \in 0 .. 7
    BY <1>2, <1>4
  <2>3. Mapping(m, bitsOf(s, d), LogAddr, 0)
    BY <1>1, <1>2, <2>1, <2>2, MappingPlace, Zenon
  <2> HIDE DEF m
  <2>4. m.fmmus \in Fmmus /\ m.fmmus # <<>>
    BY <2>3 DEF Mapping, Fmmus
  <2>5. m.LogAddr \in Nat /\ m.BitPos \in 0 .. 7 /\ 8 * LogAddr <= 8 * m.LogAddr + m.BitPos
    BY <1>1, <2>3 DEF Mapping
  <2>6. ByteEnd(m.LogAddr, m.BitPos) = LogAddr + Goal(bitsOf(s, d)) /\ (bitsOf(s, d) > 7 => m.BitPos = 0)
    <3>1. CASE bitsOf(s, d) > 7
      BY <1>1, <2>3, <3>1 DEF Mapping, ByteEnd
    <3>2. CASE bitsOf(s, d) <= 7
      <4>1. 8 * m.LogAddr + m.BitPos = 8 * LogAddr + bitsOf(s, d)
        BY <1>1, <2>3, <3>2 DEF Mapping
      <4>2. m.LogAddr = LogAddr /\ m.BitPos > 0
        BY <1>1, <1>2, <2>2, <2>5, <3>2, <4>1
      <4>3. Goal(bitsOf(s, d)) = 1
        BY <1>2, <2>2, <3>2, GoalOf
      <4>4. QED
        BY <1>1, <1>2, <3>2, <4>2, <4>3 DEF ByteEnd
    <3>3. QED
      BY <1>2, <3>1, <3>2
  <2>7. \A i \in 1 .. Len(m.fmmus) : Between(m.fmmus[i], LogAddr, 0, m.LogAddr, m.BitPos)
    BY <2>3 DEF Mapping
  <2>8. QED
    BY <2>2, <2>4, <2>5, <2>6, <2>7 DEF m
<1>5. QED
  BY <1>3, <1>4

\* The bytes behind which the outputs and the inputs of the present slave end.
SlaveEnd(s, d) == LogAddr + Goal(bitsOf(s, d))

LEMMA MapFromEnd ==
    ASSUME MapInv, overlap, NEW s \in Slave, NEW d \in Dirs, NEW i \in 1 .. Len(MapFrom(s, d).fmmus)
    PROVE  /\ MapFrom(s, d).fmmus[i] \in Fmmu
           /\ Between(MapFrom(s, d).fmmus[i], LogAddr, 0, SlaveEnd(s, d), 0)
<1> DEFINE m == MapFrom(s, d)
<1>1. /\ m.fmmus \in Fmmus /\ m.LogAddr \in Nat /\ m.BitPos \in 0 .. 7
      /\ ByteEnd(m.LogAddr, m.BitPos) = SlaveEnd(s, d)
      /\ Between(m.fmmus[i], LogAddr, 0, m.LogAddr, m.BitPos)
  BY MapFromPlace DEF SlaveEnd
<1>2. LogAddr \in Nat
  BY DEF MapInv, LoopOK
<1> HIDE DEF m
<1>3. i \in 1 .. Len(m.fmmus)
  BY DEF m
<1>4. m.fmmus[i] \in Fmmu
  BY <1>1, <1>3 DEF Fmmus
<1>5. SlaveEnd(s, d) \in Nat
  BY <1>1 DEF ByteEnd
<1>6. 8 * m.LogAddr + m.BitPos <= 8 * SlaveEnd(s, d) + 0
  BY <1>1, <1>5 DEF ByteEnd
<1>7. 0 \in 0 .. 7 /\ 8 * LogAddr + 0 <= 8 * LogAddr + 0
  BY <1>2
<1>8. Between(m.fmmus[i], LogAddr, 0, SlaveEnd(s, d), 0)
  BY <1>1, <1>2, <1>4, <1>5, <1>6, <1>7, BetweenWiden, Zenon
<1>9. QED
  BY <1>4, <1>8 DEF m

LEMMA MapOverlapFacts ==
    ASSUME MapInv, MapOverlap
    PROVE  /\ cur \in Slave /\ cur \in Nat /\ overlap /\ BitPos = 0 /\ LogAddr \in Nat
           /\ SlaveEnd(cur, "out") \in Nat /\ SlaveEnd(cur, "in") \in Nat
           /\ LogAddr <= SlaveEnd(cur, "out") /\ LogAddr <= SlaveEnd(cur, "in")
           /\ fmmu' = [fmmu EXCEPT ![cur] = [d \in Dirs |-> MapFrom(cur, d).fmmus]]
           /\ LogAddr' = IF SlaveEnd(cur, "in") > SlaveEnd(cur, "out")
                           THEN SlaveEnd(cur, "in") ELSE SlaveEnd(cur, "out")
           /\ Account(LogAddr' - LogAddr)
           /\ group' = [group EXCEPT !.Obytes = SlaveEnd(cur, "out"), !.Ibytes = SlaveEnd(cur, "in"),
                         !.outputsWKC = IF bitsOf(cur, "out") > 0 THEN @ + 1 ELSE @,
                         !.inputsWKC = IF bitsOf(cur, "in") > 0 THEN @ + 1 ELSE @,
                         !.blockLRW = @ \/ slavelist[cur].blockLRW]
<1>1. cur <= Slaves /\ phase = "overlap"
  BY DEF MapOverlap
<1>2. cur \in 1 .. Slaves + 1 /\ Slaves \in Nat
  BY DEF MapInv, LoopOK, ListOK
<1>3. cur \in Slave /\ cur \in Nat
  BY <1>1, <1>2 DEF Slave
<1>4. overlap /\ BitPos = 0 /\ LogAddr \in Nat
  BY <1>1 DEF MapInv, LoopOK, ListOK
<1>5. \A d \in Dirs : ByteEnd(MapFrom(cur, d).LogAddr, MapFrom(cur, d).BitPos) = SlaveEnd(cur, d)
  BY <1>3, <1>4, MapFromPlace DEF SlaveEnd
<1>6. \A d \in Dirs : SlaveEnd(cur, d) \in Nat /\ LogAddr <= SlaveEnd(cur, d)
  <2> SUFFICES ASSUME NEW d \in Dirs PROVE SlaveEnd(cur, d) \in Nat /\ LogAddr <= SlaveEnd(cur, d)
    OBVIOUS
  <2>1. bitsOf(cur, d) \in Nat
    BY <1>3 DEF MapInv, ListOK
  <2>2. Goal(bitsOf(cur, d)) \in Nat
    BY <2>1 DEF Goal
  <2>3. QED
    BY <1>4, <2>2 DEF SlaveEnd
<1>7. "out" \in Dirs /\ "in" \in Dirs
  BY DEF Dirs
<1> DEFINE so == IF MapFrom(cur, "out").BitPos > 0 THEN MapFrom(cur, "out").LogAddr + 1
                 ELSE MapFrom(cur, "out").LogAddr
           si == IF MapFrom(cur, "in").BitPos > 0 THEN MapFrom(cur, "in").LogAddr + 1
                 ELSE MapFrom(cur, "in").LogAddr
<1>8. so = SlaveEnd(cur, "out") /\ si = SlaveEnd(cur, "in")
  BY <1>5, <1>7 DEF ByteEnd
<1>9. /\ fmmu' = [fmmu EXCEPT ![cur] = [d \in Dirs |-> IF d = "out" THEN MapFrom(cur, "out").fmmus
                                                         ELSE MapFrom(cur, "in").fmmus]]
      /\ LogAddr' = IF si > so THEN si ELSE so
      /\ Account((IF si > so THEN si ELSE so) - LogAddr)
      /\ group' = [group EXCEPT !.Obytes = so, !.Ibytes = si,
                         !.outputsWKC = IF bitsOf(cur, "out") > 0 THEN @ + 1 ELSE @,
                         !.inputsWKC = IF bitsOf(cur, "in") > 0 THEN @ + 1 ELSE @,
                         !.blockLRW = @ \/ slavelist[cur].blockLRW]
  BY Zenon DEF MapOverlap
<1>10. [d \in Dirs |-> IF d = "out" THEN MapFrom(cur, "out").fmmus ELSE MapFrom(cur, "in").fmmus]
         = [d \in Dirs |-> MapFrom(cur, d).fmmus]
  BY DEF Dirs
<1> HIDE DEF so, si
<1>11. Account(LogAddr' - LogAddr)
  BY <1>9
<1>12. QED
  BY <1>3, <1>4, <1>6, <1>7, <1>8, <1>9, <1>10, <1>11

LEMMA MapOverlapExtends ==
    ASSUME MapInv, MapOverlap
    PROVE  FmmuOK' /\ Extends(cur, Dirs)
<1>1. /\ cur \in Slave /\ cur \in Nat /\ overlap /\ BitPos = 0 /\ LogAddr \in Nat
      /\ fmmu' = [fmmu EXCEPT ![cur] = [d \in Dirs |-> MapFrom(cur, d).fmmus]]
      /\ LogAddr' = IF SlaveEnd(cur, "in") > SlaveEnd(cur, "out")
                      THEN SlaveEnd(cur, "in") ELSE SlaveEnd(cur, "out")
      /\ SlaveEnd(cur, "out") \in Nat /\ SlaveEnd(cur, "in") \in Nat
      /\ LogAddr <= SlaveEnd(cur, "out") /\ LogAddr <= SlaveEnd(cur, "in")
  BY MapOverlapFacts, Zenon
<1>2. UNCHANGED <<slavelist, overlap, phase, BitPos>> /\ cur' = cur + 1 /\ phase = "overlap" /\ cur <= Slaves
  BY DEF MapOverlap
<1>3. Slave' = Slave /\ Slaves' = Slaves
  BY <1>2 DEF Slave, Slaves
<1>4. LoopOK /\ FmmuOK /\ HasFmmu /\ AllPlaced /\ AllApart /\ Slaves \in Nat
  BY DEF MapInv, ListOK
<1>5. \A d \in Dirs : /\ MapFrom(cur, d).fmmus \in Fmmus
                      /\ MapFrom(cur, d).fmmus # <<>> <=> bitsOf(cur, d) > 0
  BY <1>1, MapFromPlace
<1>6. FmmuOK'
  BY <1>1, <1>3, <1>4, <1>5 DEF FmmuOK
<1>7. \A s \in Slave, d \in Dirs : fmmu'[s][d] = IF s = cur THEN MapFrom(cur, d).fmmus ELSE fmmu[s][d]
  BY <1>1, <1>4 DEF FmmuOK
<1>8. \A d \in Dirs : SlaveEnd(cur, d) <= LogAddr'
  BY <1>1 DEF Dirs
<1>9. LogAddr' \in Nat /\ BitPos' = 0 /\ LogAddr <= LogAddr'
  BY <1>1, <1>2
<1>10. ASSUME NEW d \in Dirs PROVE Fresh(cur, d)
  <2> SUFFICES ASSUME NEW i \in 1 .. Len(MapFrom(cur, d).fmmus)
               PROVE  Between(MapFrom(cur, d).fmmus[i], LogAddr, BitPos, LogAddr', BitPos')
    BY <1>1, <1>7 DEF Fresh
  <2>1. Between(MapFrom(cur, d).fmmus[i], LogAddr, 0, SlaveEnd(cur, d), 0) /\ MapFrom(cur, d).fmmus[i] \in Fmmu
    BY <1>1, MapFromEnd, Zenon
  <2>2. 0 \in 0 .. 7 /\ 8 * LogAddr + 0 <= 8 * LogAddr + 0 /\ SlaveEnd(cur, d) \in Nat
    BY <1>1 DEF Dirs
  <2>3. 8 * SlaveEnd(cur, d) + 0 <= 8 * LogAddr' + 0
    BY <1>8, <1>9, <2>2
  <2>4. Between(MapFrom(cur, d).fmmus[i], LogAddr, 0, LogAddr', 0)
    BY <1>1, <1>9, <2>1, <2>2, <2>3, BetweenWiden, Zenon
  <2>5. QED
    BY <1>1, <1>9, <2>4
<1>11. Extends(cur, Dirs)
  <2>1. 8 * LogAddr + BitPos <= 8 * LogAddr' + BitPos' /\ BitPos' \in 0 .. 7
    BY <1>1, <1>9
  <2>2. QED
    BY <1>1, <1>2, <1>7, <1>9, <1>10, <2>1 DEF Extends
<1>12. QED
  BY <1>6, <1>11

LEMMA MapOverlapInv ==
    ASSUME MapInv, MapOverlap
    PROVE  MapInv'
<1>1. /\ cur \in Slave /\ cur \in Nat /\ overlap /\ BitPos = 0 /\ LogAddr \in Nat
      /\ fmmu' = [fmmu EXCEPT ![cur] = [d \in Dirs |-> MapFrom(cur, d).fmmus]]
      /\ LogAddr' = IF SlaveEnd(cur, "in") > SlaveEnd(cur, "out")
                      THEN SlaveEnd(cur, "in") ELSE SlaveEnd(cur, "out")
      /\ SlaveEnd(cur, "out") \in Nat /\ SlaveEnd(cur, "in") \in Nat
      /\ LogAddr <= SlaveEnd(cur, "out") /\ LogAddr <= SlaveEnd(cur, "in")
  BY MapOverlapFacts, Zenon
<1>2. UNCHANGED <<slavelist, overlap, phase, BitPos>> /\ cur' = cur + 1 /\ phase = "overlap" /\ cur <= Slaves
  BY DEF MapOverlap
<1>3. ListOK'
  BY <1>2 DEF MapInv, ListOK, Slaves, Slave, bitsOf, smOf
<1>4. Slave' = Slave /\ Slaves' = Slaves
  BY <1>2 DEF Slave, Slaves
<1>5. LoopOK /\ FmmuOK /\ HasFmmu /\ AllPlaced /\ AllApart /\ Slaves \in Nat
  BY DEF MapInv, ListOK
<1>6. \A d \in Dirs : /\ MapFrom(cur, d).fmmus \in Fmmus
                      /\ MapFrom(cur, d).fmmus # <<>> <=> bitsOf(cur, d) > 0
  BY <1>1, MapFromPlace
<1>7. FmmuOK' /\ Extends(cur, Dirs)
  BY MapOverlapExtends, Zenon
<1>8. \A s \in Slave, d \in Dirs : fmmu'[s][d] = IF s = cur THEN MapFrom(cur, d).fmmus ELSE fmmu[s][d]
  BY <1>1, <1>5 DEF FmmuOK
<1>9. LogAddr' \in Nat /\ BitPos' = 0 /\ LogAddr <= LogAddr'
  BY <1>1, <1>2
<1>10. AllPlaced' /\ AllApart'
  BY <1>5, <1>7, FmmusBehind, Zenon
<1>11. LoopOK'
  <2>1. cur + 1 \in 1 .. Slaves + 1
    BY <1>1, <1>2, <1>5
  <2>2. QED
    BY <1>1, <1>2, <1>4, <1>5, <1>9, <2>1 DEF LoopOK
<1>12. HasFmmu'
  <2>1. \A s \in Slave, d \in Dirs : Done(s, d)' <=> Done(s, d) \/ s = cur
    BY <1>1, <1>2, <1>5 DEF Done, Slave
  <2>2. QED
    BY <1>1, <1>2, <1>4, <1>5, <1>6, <1>8, <2>1 DEF HasFmmu, bitsOf, NoFmmu
<1>13. QED
  BY <1>3, <1>7, <1>10, <1>11, <1>12 DEF MapInv

LEMMA CloseOverlapInv ==
    ASSUME MapInv, CloseOverlap
    PROVE  MapInv'
<1>1. /\ UNCHANGED <<slavelist, overlap, fmmu, cur, LogAddr, BitPos>>
      /\ cur > Slaves /\ phase = "overlap" /\ phase' = "mapped"
  BY DEF CloseOverlap
<1>2. Slave' = Slave /\ Slaves' = Slaves
  BY <1>1 DEF Slave, Slaves
<1>3. LoopOK /\ FmmuOK /\ HasFmmu /\ AllPlaced /\ AllApart /\ Slaves \in Nat /\ overlap \in BOOLEAN
  BY DEF MapInv, ListOK
<1>4. ListOK'
  BY <1>1 DEF MapInv, ListOK, Slaves, Slave, bitsOf, smOf
<1>5. FmmuOK' /\ AllPlaced' /\ AllApart'
  BY <1>1, <1>2, <1>3 DEF FmmuOK, AllPlaced, AllApart, Placed, Apart
<1>6. LoopOK'
  BY <1>1, <1>2, <1>3 DEF LoopOK
<1>7. HasFmmu'
  <2>1. cur \in Nat
    BY <1>3 DEF LoopOK
  <2>2. \A s \in Slave, d \in Dirs : Done(s, d)' <=> Done(s, d)
    BY <1>1, <1>3, <2>1 DEF Done, Slave
  <2>3. QED
    BY <1>1, <1>2, <1>3, <2>2 DEF HasFmmu, bitsOf
<1>8. QED
  BY <1>4, <1>5, <1>6, <1>7 DEF MapInv

LEMMA NextMapInv ==
    ASSUME MapInv, [Next]_vars
    PROVE  MapInv'
<1>1. CASE MapOutput
  BY <1>1, MapSlaveInv DEF MapOutput, Dirs
<1>2. CASE MapInput
  BY <1>2, MapSlaveInv DEF MapInput, Dirs
<1>3. CASE CloseOutputs \/ CloseInputs
  BY <1>3, CloseInv
<1>4. CASE MapOverlap
  BY <1>4, MapOverlapInv
<1>5. CASE CloseOverlap
  BY <1>5, CloseOverlapInv
<1>6. CASE UNCHANGED vars
  <2>1. UNCHANGED <<slavelist, overlap, fmmu, phase, cur, LogAddr, BitPos>>
    BY <1>6 DEF vars
  <2>2. Slave' = Slave /\ Slaves' = Slaves
    BY <2>1 DEF Slave, Slaves
  <2>3. ListOK'
    BY <2>1, <2>2 DEF MapInv, ListOK, bitsOf, smOf
  <2>4. LoopOK'
    BY <2>1, <2>2 DEF MapInv, LoopOK
  <2>5. FmmuOK' /\ HasFmmu'
    BY <2>1, <2>2 DEF MapInv, FmmuOK, HasFmmu, Done, bitsOf
  <2>6. AllPlaced' /\ AllApart'
    BY <2>1, <2>2 DEF MapInv, AllPlaced, AllApart, Placed, Apart
  <2>7. QED
    BY <2>3, <2>4, <2>5, <2>6 DEF MapInv
<1>7. QED
  BY <1>1, <1>2, <1>3, <1>4, <1>5, <1>6 DEF Next, MapStep, Mapped

LEMMA BitsDisjoint ==
    ASSUME MapInv
    PROVE  NoSharedBit
<1> SUFFICES ASSUME NEW s \in Slave, NEW t \in Slave, NEW d \in Dirs, NEW e \in Dirs,
                    <<s, d>> # <<t, e>>, overlap => s # t,
                    NEW b, b \in Bits(s, d), b \in Bits(t, e)
             PROVE  FALSE
  BY DEF NoSharedBit
<1>1. PICK i \in DOMAIN fmmu[s][d] : b \in LogBits(fmmu[s][d][i])
  BY DEF Bits
<1>2. PICK j \in DOMAIN fmmu[t][e] : b \in LogBits(fmmu[t][e][j])
  BY DEF Bits
<1>3. i \in 1 .. Len(fmmu[s][d]) /\ j \in 1 .. Len(fmmu[t][e])
  <2>1. fmmu[s][d] \in Seq(Fmmu) /\ fmmu[t][e] \in Seq(Fmmu)
    BY DEF MapInv, FmmuOK, Fmmus
  <2>2. QED
    BY <2>1
<1> DEFINE f == fmmu[s][d][i]
           g == fmmu[t][e][j]
<1>4. f \in Fmmu /\ g \in Fmmu
  BY <1>3, FmmuType DEF MapInv
<1>5. Apart(s, d, t, e)
  BY DEF MapInv, AllApart
<1>6. LastBit(f) < FirstBit(g) \/ LastBit(g) < FirstBit(f)
  BY <1>3, <1>5 DEF Apart
<1>7. b \in FirstBit(f) .. LastBit(f) /\ b \in FirstBit(g) .. LastBit(g)
  BY <1>1, <1>2 DEF LogBits, FirstBit, LastBit
<1> HIDE DEF f, g
<1>8. FirstBit(f) \in Nat /\ LastBit(f) \in Int /\ FirstBit(g) \in Nat /\ LastBit(g) \in Int
  BY <1>4, FirstLast
<1>9. QED
  BY <1>6, <1>7, <1>8

\* Every FMMU lies inside the logical addresses given out so far, and no two of
\* them share a bit, in every state of the two loops over the slaves
\* (ecx_config_map_group, ecx_config_overlap_map_group).
THEOREM MapInvariant ==
    ASSUME RealNetworks
    PROVE  Spec => []MapInv
<1>1. Init => MapInv
  BY InitMapInv
<1>2. MapInv /\ [Next]_vars => MapInv'
  BY NextMapInv
<1>3. QED
  BY <1>1, <1>2, PTL DEF Spec

\* The exchange leaves the map as it is.
LEMMA ExchangeMaps == ExchangeSpec => Spec
<1>1. ExchangeInit => Init
  BY DEF ExchangeInit
<1>2. [ExchangeNext]_allVars => [Next]_vars
  BY DEF ExchangeNext, Exchange, MapFirst, SendProcessData, FrameBack, FrameMissing, ReceiveDone,
         Ended, Next, allVars
<1>3. QED
  BY <1>1, <1>2, PTL DEF ExchangeSpec, Spec

\* No two slaves share a bit of the outputs or of the inputs, and unless the map
\* overlaps on purpose no output shares one with an input, whatever the order of
\* bit oriented and byte oriented slaves is (ecx_config_map_group and
\* ecx_config_overlap_map_group).
THEOREM NoBitIsShared ==
    ASSUME RealNetworks
    PROVE  ExchangeSpec => []NoSharedBit
<1>1. MapInv => NoSharedBit
  BY BitsDisjoint
<1>2. QED
  BY <1>1, MapInvariant, ExchangeMaps, PTL

--------------------------------------------------------------------------------
(* Segments. *)

\* Every slave fits in a frame, also behind a byte that bit oriented slaves began.
SlavesFit ==
    \A n \in Networks : \A s \in 1 .. Len(n.slaves), d \in Dirs : Goal(n.slaves[s][d].bits) + 1 <= MaxSegment
\* Half full segments are enough for the image.
SmallImage == 2 * LogAddr <= (MAXIOSEGMENTS - 1) * MaxSegment

Sizes == Seq(Nat)
\* Two segments that follow each other are longer than one frame: what opened the
\* second did not fit in the first.
SegmentsOK ==
    /\ Total(closed) + segmentsize = LogAddr
    /\ Len(closed) * MaxSegment <= Total(closed) + LogAddr
    /\ segmentsize <= MaxSegment
    /\ \A i \in 1 .. Len(closed) : closed[i] <= MaxSegment

LEMMA TotalType ==
    ASSUME NEW s \in Sizes
    PROVE  Total(s) \in Nat /\ Len(s) \in Nat
<1>1. s \in Seq(Nat) /\ 0 \in Nat
  BY DEF Sizes
<1>2. QED
  BY <1>1, TotalAppend

\* diff bytes join the present segment or open the next one.
LEMMA AccountFacts ==
    ASSUME closed \in Sizes, segmentsize \in Nat, LogAddr \in Nat,
           NEW diff \in Nat, Account(diff)
    PROVE  /\ closed' \in Sizes /\ segmentsize' \in Nat
           /\ \/ closed' = closed /\ segmentsize' >= segmentsize
              \/ closed' = Append(closed, segmentsize)
<1>1. CASE ~ (segmentsize + diff > MaxSegment)
  <2>1. segmentsize' = segmentsize + diff /\ closed' = closed
    BY <1>1 DEF Account
  <2>2. QED
    BY <2>1
<1>2. CASE segmentsize + diff > MaxSegment
  <2>1. \/ closed' = Append(closed, segmentsize) /\ segmentsize' = diff
        \/ closed' = closed /\ segmentsize' = segmentsize
    BY <1>2 DEF Account
  <2>2. Append(closed, segmentsize) \in Sizes
    BY AppendElement DEF Sizes
  <2>3. segmentsize >= segmentsize
    OBVIOUS
  <2>4. QED
    BY <2>1, <2>2, <2>3, Zenon
<1>3. QED
  BY <1>1, <1>2

LEMMA MoreSegments ==
    ASSUME NEW n \in Nat, NEW M \in Nat \ {0}, NEW total \in Nat, NEW log \in Nat, NEW size \in Nat,
           NEW diff \in Nat, NEW N \in Nat \ {0},
           total + size = log, n * M <= total + log, size + diff > M,
           2 * (log + diff) <= (N - 1) * M
    PROVE  /\ n < N - 1
           /\ (n + 1) * M <= (total + size) + (log + diff)
<1>1. (n + 1) * M = n * M + M /\ n * M \in Nat
  OBVIOUS
<1> DEFINE p == n * M
           q == (N - 1) * M
<1>2. p \in Nat /\ q \in Int
  OBVIOUS
<1>3. p + M < q
  <2>1. p <= total + log /\ 2 * (log + diff) <= q
    OBVIOUS
  <2> HIDE DEF p, q
  <2>2. QED
    BY <1>2, <2>1
<1>4. n + 1 < N - 1
  <2> SUFFICES ASSUME N - 1 <= n + 1 PROVE FALSE
    OBVIOUS
  <2>1. n + 1 - (N - 1) \in Nat
    OBVIOUS
  <2>2. (n + 1 - (N - 1)) * M \in Nat
    BY <2>1
  <2>3. (n + 1 - (N - 1)) * M = p + M - q
    OBVIOUS
  <2> HIDE DEF p, q
  <2>4. QED
    BY <1>2, <1>3, <2>2, <2>3
<1>5. p + M <= (total + size) + (log + diff)
  <2>1. p <= total + log
    OBVIOUS
  <2> HIDE DEF p, q
  <2>2. QED
    BY <1>2, <2>1
<1>6. QED
  BY <1>1, <1>4, <1>5

LEMMA AccountKeeps ==
    ASSUME closed \in Sizes, segmentsize \in Nat, LogAddr \in Nat, SegmentsOK,
           NEW diff \in Nat, diff <= MaxSegment, LogAddr' = LogAddr + diff, Account(diff), SmallImage'
    PROVE  SegmentsOK'
<1> DEFINE n == Len(closed)
           T == Total(closed)
<1>1. n \in Nat /\ T \in Nat /\ MaxSegment \in Nat \ {0} /\ MAXIOSEGMENTS \in Nat \ {0}
  BY TotalType, IoAssumption
<1>2. /\ T + segmentsize = LogAddr /\ n * MaxSegment <= T + LogAddr
      /\ segmentsize <= MaxSegment
      /\ \A i \in 1 .. Len(closed) : closed[i] <= MaxSegment
  BY DEF SegmentsOK
<1>3. CASE ~ (segmentsize + diff > MaxSegment)
  <2>1. segmentsize' = segmentsize + diff /\ closed' = closed
    BY <1>3 DEF Account
  <2>2. Total(closed') = T /\ Len(closed') = n
    BY <2>1
  <2>3. \A i \in 1 .. Len(closed') : closed'[i] <= MaxSegment
    BY <1>2, <2>1
  <2>4. n * MaxSegment \in Nat
    BY <1>1
  <2> DEFINE p == n * MaxSegment
  <2> HIDE DEF n, T, p
  <2>5. p \in Nat /\ p <= T + LogAddr
    BY <1>2, <2>4 DEF p
  <2>6. /\ T + (segmentsize + diff) = LogAddr + diff /\ p <= T + (LogAddr + diff)
        /\ segmentsize + diff <= MaxSegment
    BY <1>1, <1>2, <1>3, <2>5
  <2>7. /\ Total(closed') + segmentsize' = LogAddr'
        /\ Len(closed') * MaxSegment <= Total(closed') + LogAddr'
        /\ segmentsize' <= MaxSegment
    BY <2>1, <2>2, <2>6 DEF p
  <2>8. QED
    BY <2>3, <2>7 DEF SegmentsOK
<1>4. CASE segmentsize + diff > MaxSegment
  <2>1. n < MAXIOSEGMENTS - 1 /\ (n + 1) * MaxSegment <= (T + segmentsize) + (LogAddr + diff)
    <3>1. 2 * (LogAddr + diff) <= (MAXIOSEGMENTS - 1) * MaxSegment
      BY DEF SmallImage
    <3> HIDE DEF n, T
    <3>2. QED
      BY <1>1, <1>2, <1>4, <3>1, MoreSegments, Zenon
  <2>2. closed' = Append(closed, segmentsize) /\ segmentsize' = diff
    BY <1>4, <2>1 DEF Account
  <2>3. /\ Len(Append(closed, segmentsize)) = n + 1
        /\ \A i \in 1 .. Len(Append(closed, segmentsize)) :
             Append(closed, segmentsize)[i] = IF i = Len(closed) + 1 THEN segmentsize ELSE closed[i]
        /\ Total(Append(closed, segmentsize)) = T + segmentsize
    BY AppendElement, TotalAppend, SMTT(30) DEF Sizes
  <2>4. \A i \in 1 .. Len(closed') : closed'[i] <= MaxSegment
    <3> SUFFICES ASSUME NEW i \in 1 .. n + 1 PROVE closed'[i] <= MaxSegment
      BY <2>2, <2>3
    <3>1. closed'[i] = IF i = n + 1 THEN segmentsize ELSE closed[i]
      BY <2>2, <2>3
    <3>2. i # n + 1 => i \in 1 .. Len(closed)
      BY <1>1
    <3>3. QED
      BY <1>2, <3>1, <3>2
  <2>5. T + segmentsize + diff = LogAddr + diff
    BY <1>1, <1>2
  <2>6. QED
    BY <2>1, <2>2, <2>3, <2>4, <2>5 DEF SegmentsOK
<1>5. QED
  BY <1>3, <1>4

\* What every step of the map does to the segments.
ListFits == \A s \in Slave, d \in Dirs : Goal(bitsOf(s, d)) + 1 <= MaxSegment
SegmentStep ==
    \/ \E diff \in 0 .. MaxSegment : LogAddr' = LogAddr + diff /\ Account(diff)
    \/ UNCHANGED <<LogAddr, closed, segmentsize>>

LEMMA StepIsSegmentStep ==
    ASSUME MapInv, ListFits, MapStep
    PROVE  SegmentStep
<1>1. LogAddr \in Nat /\ BitPos \in 0 .. 7 /\ MaxSegment \in Nat \ {0}
  BY IoAssumption DEF MapInv, LoopOK
<1>2. ASSUME NEW d \in Dirs, NEW counter, NEW blocked, MapSlave(d, counter, blocked)
      PROVE  SegmentStep
  <2>1. cur \in Slave
    BY <1>2, MapSlaveCur
  <2>2. CASE bitsOf(cur, d) > 0
    <3> DEFINE m == CreateMappings(smOf(cur, d), bitsOf(cur, d), LogAddr, BitPos)
               diff == m.LogAddr - LogAddr
    <3>1. /\ Mapping(m, bitsOf(cur, d), LogAddr, BitPos)
          /\ LogAddr' = m.LogAddr /\ Account(LogAddr' - LogAddr)
      BY <1>2, <2>2, MapSlaveMapping, Zenon
    <3> HIDE DEF m
    <3>2. bitsOf(cur, d) \in Nat /\ Goal(bitsOf(cur, d)) + 1 <= MaxSegment
      BY <2>1 DEF MapInv, ListOK, ListFits
    <3>3. Goal(bitsOf(cur, d)) \in Nat \ {0}
      BY <2>2, <3>2, GoalOf
    <3>4. m.LogAddr \in Nat /\ m.BitPos \in 0 .. 7 /\ 8 * LogAddr + BitPos <= 8 * m.LogAddr + m.BitPos
      BY <3>1 DEF Mapping
    <3>5. m.LogAddr <= LogAddr + Goal(bitsOf(cur, d)) + 1
      <4>1. CASE bitsOf(cur, d) > 7
        BY <1>1, <3>1, <3>3, <4>1 DEF Mapping, ByteEnd
      <4>2. CASE bitsOf(cur, d) <= 7
        <5>1. 8 * m.LogAddr + m.BitPos = 8 * LogAddr + BitPos + bitsOf(cur, d)
          BY <3>1, <4>2 DEF Mapping
        <5>2. QED
          BY <1>1, <3>2, <3>3, <3>4, <4>2, <5>1
      <4>3. QED
        BY <3>2, <4>1, <4>2
    <3>6. LogAddr <= m.LogAddr
      BY <1>1, <3>4
    <3>7. diff \in 0 .. MaxSegment /\ m.LogAddr = LogAddr + diff
      BY <1>1, <3>2, <3>3, <3>4, <3>5, <3>6
    <3>8. Account(diff)
      BY <3>1
    <3> HIDE DEF diff
    <3>9. QED
      BY <3>1, <3>7, <3>8, Zenon DEF SegmentStep
  <2>3. CASE ~ (bitsOf(cur, d) > 0)
    BY <1>2, <2>3 DEF MapSlave, SegmentStep
  <2>4. QED
    BY <2>2, <2>3
<1>3. ASSUME CloseByte
      PROVE  SegmentStep
  <2>1. 1 \in 0 .. MaxSegment
    BY <1>1
  <2>2. CASE BitPos > 0
    BY <1>3, <2>1, <2>2, CloseByteFacts DEF SegmentStep
  <2>3. CASE BitPos = 0
    BY <1>3, <2>3, CloseByteFacts DEF SegmentStep
  <2>4. QED
    BY <1>1, <2>2, <2>3
<1>4. ASSUME MapOverlap
      PROVE  SegmentStep
  <2>1. /\ cur \in Slave /\ Account(LogAddr' - LogAddr)
        /\ SlaveEnd(cur, "out") \in Nat /\ SlaveEnd(cur, "in") \in Nat
        /\ LogAddr <= SlaveEnd(cur, "out") /\ LogAddr <= SlaveEnd(cur, "in")
        /\ LogAddr' = IF SlaveEnd(cur, "in") > SlaveEnd(cur, "out")
                        THEN SlaveEnd(cur, "in") ELSE SlaveEnd(cur, "out")
    BY <1>4, MapOverlapFacts, Zenon
  <2>2. PICK d \in Dirs : LogAddr' = SlaveEnd(cur, d)
    BY <2>1 DEF Dirs
  <2>3. bitsOf(cur, d) \in Nat /\ Goal(bitsOf(cur, d)) + 1 <= MaxSegment
    BY <2>1 DEF MapInv, ListOK, ListFits
  <2>4. Goal(bitsOf(cur, d)) \in Nat
    BY <2>3 DEF Goal
  <2>5. Goal(bitsOf(cur, d)) \in 0 .. MaxSegment /\ LogAddr' = LogAddr + Goal(bitsOf(cur, d))
    BY <1>1, <2>2, <2>3, <2>4 DEF SlaveEnd
  <2>6. (LogAddr + Goal(bitsOf(cur, d))) - LogAddr = Goal(bitsOf(cur, d))
    BY <1>1, <2>4
  <2>7. Account(Goal(bitsOf(cur, d)))
    BY <2>1, <2>5, <2>6
  <2>8. QED
    BY <2>5, <2>7, Zenon DEF SegmentStep
<1>5. CASE MapOutput
  BY <1>2, <1>5 DEF MapOutput, Dirs
<1>6. CASE MapInput
  BY <1>2, <1>6 DEF MapInput, Dirs
<1>7. CASE CloseOutputs \/ CloseInputs
  BY <1>3, <1>7 DEF CloseOutputs, CloseInputs
<1>8. CASE MapOverlap
  BY <1>4, <1>8
<1>9. CASE CloseOverlap
  BY <1>9 DEF CloseOverlap, SegmentStep
<1>10. QED
  BY <1>5, <1>6, <1>7, <1>8, <1>9 DEF MapStep

LEMMA SegmentStepFacts ==
    ASSUME closed \in Sizes, segmentsize \in Nat, LogAddr \in Nat, SegmentStep, SmallImage => SegmentsOK
    PROVE  /\ closed' \in Sizes /\ segmentsize' \in Nat
           /\ LogAddr' \in Nat /\ LogAddr' >= LogAddr
           /\ \/ closed' = closed /\ segmentsize' >= segmentsize
              \/ closed' = Append(closed, segmentsize)
           /\ SmallImage' => SmallImage /\ SegmentsOK'
<1>1. CASE UNCHANGED <<LogAddr, closed, segmentsize>>
  <2>1. closed' = closed /\ segmentsize' = segmentsize /\ LogAddr' = LogAddr
    BY <1>1
  <2>2. LogAddr >= LogAddr /\ segmentsize >= segmentsize
    OBVIOUS
  <2>3. (SmallImage' => SmallImage) /\ (SegmentsOK => SegmentsOK')
    BY <2>1 DEF SmallImage, SegmentsOK
  <2>4. QED
    BY <2>1, <2>2, <2>3, Zenon
<1>2. ASSUME NEW diff \in 0 .. MaxSegment, LogAddr' = LogAddr + diff, Account(diff)
      PROVE  /\ closed' \in Sizes /\ segmentsize' \in Nat
             /\ LogAddr' \in Nat /\ LogAddr' >= LogAddr
             /\ \/ closed' = closed /\ segmentsize' >= segmentsize
                \/ closed' = Append(closed, segmentsize)
             /\ SmallImage' => SmallImage /\ SegmentsOK'
  <2>1. diff \in Nat /\ diff <= MaxSegment /\ LogAddr + diff \in Nat /\ LogAddr + diff >= LogAddr
    BY IoAssumption
  <2>2. /\ closed' \in Sizes /\ segmentsize' \in Nat
        /\ \/ closed' = closed /\ segmentsize' >= segmentsize
           \/ closed' = Append(closed, segmentsize)
    BY <1>2, <2>1, AccountFacts, Zenon
  <2>3. SmallImage' => SmallImage
    <3> DEFINE q == (MAXIOSEGMENTS - 1) * MaxSegment
    <3>1. q \in Int
      BY IoAssumption
    <3>2. (2 * (LogAddr + diff) <= q) => (2 * LogAddr <= q)
      <4> HIDE DEF q
      <4>1. QED
        BY <2>1, <3>1
    <3>3. QED
      BY <1>2, <3>2 DEF SmallImage
  <2>4. SmallImage' => SegmentsOK'
    BY <1>2, <2>1, <2>3, AccountKeeps, Zenon
  <2>5. LogAddr' \in Nat /\ LogAddr' >= LogAddr
    BY <1>2, <2>1
  <2>6. QED
    BY <2>2, <2>3, <2>4, <2>5, Zenon
<1>3. QED
  BY <1>1, <1>2, Zenon DEF SegmentStep

\* The segments with the one that is being filled.
Segments == Append(closed, segmentsize)
GroupType ==
    [Obytes : Nat, Ibytes : Nat, inputs : Nat, IOsegment : Sizes, Isegment : Nat, Ioffset : Nat,
     outputsWKC : Nat, inputsWKC : Nat, blockLRW : BOOLEAN]
\* The inputs start at byte Ioffset of segment Isegment.
InputsStart ==
    /\ group.Isegment \in 0 .. Len(closed)
    /\ group.Ioffset <= Segments[group.Isegment + 1]
    /\ Total(SubSeq(Segments, 1, group.Isegment)) + group.Ioffset = group.Obytes
SegInv ==
    /\ closed \in Sizes /\ segmentsize \in Nat
    /\ ListFits
    /\ SmallImage => SegmentsOK
    /\ SmallImage /\ ~ overlap /\ phase # "out" => InputsStart
    /\ phase = "mapped" => group.IOsegment = Segments

LEMMA SamePrefix ==
    ASSUME NEW s \in Sizes, NEW t \in Sizes, NEW k \in Nat, k <= Len(s), k <= Len(t),
           \A i \in 1 .. k : s[i] = t[i]
    PROVE  SubSeq(s, 1, k) = SubSeq(t, 1, k)
<1>1. SubSeq(s, 1, k) = [i \in 1 .. k |-> s[i]] /\ SubSeq(t, 1, k) = [i \in 1 .. k |-> t[i]]
  BY DEF Sizes
<1>2. QED
  BY <1>1

LEMMA AppendSizes ==
    ASSUME NEW c \in Sizes, NEW z \in Nat
    PROVE  /\ Append(c, z) \in Sizes /\ Len(Append(c, z)) = Len(c) + 1 /\ Len(c) \in Nat
           /\ \A i \in 1 .. Len(c) + 1 : Append(c, z)[i] = IF i = Len(c) + 1 THEN z ELSE c[i]
           /\ SubSeq(Append(c, z), 1, Len(c)) = c
           /\ Total(Append(c, z)) = Total(c) + z
<1>1. c \in Seq(Nat) /\ Len(c) \in Nat
  BY DEF Sizes
<1>2. Append(c, z) \in Seq(Nat) /\ Len(Append(c, z)) = Len(c) + 1 /\ SubSeq(Append(c, z), 1, Len(c)) = c
  BY <1>1
<1>3. \A i \in 1 .. Len(Append(c, z)) : Append(c, z)[i] = IF i = Len(c) + 1 THEN z ELSE c[i]
  BY <1>1, AppendElement, ZenonT(60)
<1>4. Total(Append(c, z)) = Total(c) + z
  BY <1>1, TotalAppend, Zenon
<1>5. QED
  BY <1>1, <1>2, <1>3, <1>4, Zenon DEF Sizes

\* More bytes leave the start of the inputs where it is.
LEMMA InputsStartStays ==
    ASSUME closed \in Sizes, segmentsize \in Nat, InputsStart, closed' \in Sizes, segmentsize' \in Nat,
           group'.Isegment = group.Isegment, group'.Ioffset = group.Ioffset, group'.Obytes = group.Obytes,
           group.Ioffset \in Nat,
           \/ closed' = closed /\ segmentsize' >= segmentsize
           \/ closed' = Append(closed, segmentsize)
    PROVE  InputsStart'
<1> DEFINE s == Segments
           n == Len(closed)
           k == group.Isegment
           off == group.Ioffset
<1>1. /\ s \in Sizes /\ Len(s) = n + 1 /\ n \in Nat
      /\ \A i \in 1 .. n + 1 : s[i] = IF i = n + 1 THEN segmentsize ELSE closed[i]
  BY AppendSizes DEF Segments
<1>2. k \in 0 .. n /\ off <= s[k + 1] /\ Total(SubSeq(s, 1, k)) + off = group.Obytes
  BY DEF InputsStart
<1> SUFFICES ASSUME NEW t, t = Segments', NEW m, m = Len(closed')
             PROVE  k \in 0 .. m /\ off <= t[k + 1] /\ Total(SubSeq(t, 1, k)) + off = group.Obytes
  BY DEF InputsStart
<1>3. /\ t \in Sizes /\ Len(t) = m + 1 /\ m \in Nat
      /\ \A i \in 1 .. m + 1 : t[i] = IF i = m + 1 THEN segmentsize' ELSE closed'[i]
  <2>1. /\ Segments' \in Sizes /\ Len(Segments') = Len(closed') + 1 /\ Len(closed') \in Nat
        /\ \A i \in 1 .. Len(closed') + 1 :
             Segments'[i] = IF i = Len(closed') + 1 THEN segmentsize' ELSE closed'[i]
    <3>1. Segments' = Append(closed', segmentsize')
      BY DEF Segments
    <3>2. QED
      BY <3>1, AppendSizes, ZenonT(60)
  <2>2. QED
    BY <2>1
<1> HIDE DEF s, n, k, off
<1>4. s[k + 1] \in Nat
  <2>1. k + 1 \in 1 .. Len(s)
    BY <1>1, <1>2
  <2>2. QED
    BY <1>1, <2>1 DEF Sizes
<1>5. CASE closed' = closed /\ segmentsize' >= segmentsize
  <2>1. m = n
    BY <1>5 DEF n
  <2>2. \A i \in 1 .. k : s[i] = t[i]
    BY <1>1, <1>2, <1>3, <1>5, <2>1
  <2>3. t[k + 1] >= s[k + 1]
    <3>1. CASE k = n
      <4>1. t[k + 1] = segmentsize' /\ s[k + 1] = segmentsize
        BY <1>1, <1>3, <2>1, <3>1
      <4>2. QED
        BY <1>5, <4>1
    <3>2. CASE k # n
      <4>1. t[k + 1] = s[k + 1]
        BY <1>1, <1>2, <1>3, <1>5, <2>1, <3>2
      <4>2. QED
        BY <1>4, <4>1
    <3>3. QED
      BY <3>1, <3>2
  <2>4. SubSeq(s, 1, k) = SubSeq(t, 1, k)
    <3>1. k \in Nat /\ k <= Len(s) /\ k <= Len(t)
      BY <1>1, <1>2, <1>3, <2>1
    <3>2. QED
      BY <1>1, <1>3, <2>2, <3>1, SamePrefix, Zenon
  <2>5. t[k + 1] \in Nat
    <3>1. k + 1 \in 1 .. Len(t)
      BY <1>2, <1>3, <2>1
    <3>2. QED
      BY <1>3, <3>1 DEF Sizes
  <2>6. off <= t[k + 1]
    <3>1. off \in Nat
      BY DEF off
    <3>2. QED
      BY <1>2, <1>4, <2>3, <2>5, <3>1
  <2>7. QED
    BY <1>2, <2>1, <2>4, <2>6
<1>6. CASE closed' = Append(closed, segmentsize)
  <2>1. closed' = s
    BY <1>6 DEF s, Segments
  <2>2. m = n + 1
    BY <1>1, <2>1
  <2>3. k \in 0 .. m /\ \A i \in 1 .. k + 1 : t[i] = s[i]
    BY <1>1, <1>2, <1>3, <2>1, <2>2
  <2>4. SubSeq(s, 1, k) = SubSeq(t, 1, k)
    <3>1. k \in Nat /\ k <= Len(s) /\ k <= Len(t) /\ \A i \in 1 .. k : s[i] = t[i]
      BY <1>1, <1>2, <1>3, <2>2, <2>3
    <3>2. QED
      BY <1>1, <1>3, <3>1, SamePrefix, Zenon
  <2>5. t[k + 1] = s[k + 1]
    BY <1>1, <1>2, <2>3
  <2>6. QED
    BY <1>2, <2>3, <2>4, <2>5
<1>7. QED
  BY <1>5, <1>6

--------------------------------------------------------------------------------
(* What the group remembers of its map. *)

Contributors(d) == {s \in Slave : Done(s, d) /\ bitsOf(s, d) > 0}
CountersOK == /\ group.outputsWKC = Cardinality(Contributors("out"))
              /\ group.inputsWKC = Cardinality(Contributors("in"))

\* Without overlap the inputs begin behind the outputs.
Behind ==
    /\ group.Obytes <= LogAddr
    /\ phase = "out" => group.Obytes = 0
    /\ phase # "out" => \A s \in Slave : /\ Placed(s, "out", 0, 0, group.Obytes, 0)
                                         /\ Placed(s, "in", group.Obytes, 0, LogAddr, BitPos)
    /\ phase = "mapped" => group.Ibytes = LogAddr - group.Obytes
\* With overlap both begin at 0.
Together ==
    /\ group.Isegment = 0 /\ group.Ioffset = 0
    /\ group.Obytes <= LogAddr /\ group.Ibytes <= LogAddr
    /\ LogAddr = group.Obytes \/ LogAddr = group.Ibytes
    /\ \A s \in Slave : /\ Placed(s, "out", 0, 0, group.Obytes, 0)
                        /\ Placed(s, "in", 0, 0, group.Ibytes, 0)
GroupInv ==
    /\ group \in GroupType
    /\ CountersOK
    /\ IF overlap THEN Together ELSE Behind
    /\ phase = "mapped" => group.inputs = group.Obytes

LEMMA GroupFields ==
    ASSUME group \in GroupType
    PROVE  /\ group.Obytes \in Nat /\ group.Ibytes \in Nat /\ group.inputs \in Nat
           /\ group.IOsegment \in Sizes /\ group.Isegment \in Nat /\ group.Ioffset \in Nat
           /\ group.outputsWKC \in Nat /\ group.inputsWKC \in Nat /\ group.blockLRW \in BOOLEAN
BY DEF GroupType

LEMMA MapOutputGroup ==
    ASSUME group \in GroupType, MapOutput
    PROVE  /\ group' \in GroupType
           /\ group'.outputsWKC = IF bitsOf(cur, "out") > 0 THEN group.outputsWKC + 1 ELSE group.outputsWKC
           /\ group'.inputsWKC = group.inputsWKC /\ group'.Obytes = group.Obytes
           /\ group'.Ibytes = group.Ibytes /\ group'.inputs = group.inputs
           /\ group'.Isegment = group.Isegment /\ group'.Ioffset = group.Ioffset
           /\ group'.IOsegment = group.IOsegment
<1>1. group' = [group EXCEPT !["outputsWKC"] = IF bitsOf(cur, "out") > 0 THEN @ + 1 ELSE @,
                             !.blockLRW = @ \/ FALSE]
  BY DEF MapOutput, MapSlave
<1> DEFINE w == IF bitsOf(cur, "out") > 0 THEN group.outputsWKC + 1 ELSE group.outputsWKC
           b == group.blockLRW
<1>2. w \in Nat /\ b \in BOOLEAN
  BY GroupFields
<1>3. group' = [group EXCEPT !.outputsWKC = w, !.blockLRW = b]
  BY <1>1, GroupFields
<1> HIDE DEF w, b
<1>4. QED
  BY <1>2, <1>3 DEF GroupType, w

LEMMA MapInputGroup ==
    ASSUME group \in GroupType, MapInv, MapInput
    PROVE  /\ group' \in GroupType
           /\ group'.inputsWKC = IF bitsOf(cur, "in") > 0 THEN group.inputsWKC + 1 ELSE group.inputsWKC
           /\ group'.outputsWKC = group.outputsWKC /\ group'.Obytes = group.Obytes
           /\ group'.Ibytes = group.Ibytes /\ group'.inputs = group.inputs
           /\ group'.Isegment = group.Isegment /\ group'.Ioffset = group.Ioffset
           /\ group'.IOsegment = group.IOsegment
<1>1. group' = [group EXCEPT !["inputsWKC"] = IF bitsOf(cur, "in") > 0 THEN @ + 1 ELSE @,
                             !.blockLRW = @ \/ slavelist[cur].blockLRW]
  BY DEF MapInput, MapSlave
<1>2. cur \in Slave
  BY MapSlaveCur DEF MapInput
<1>3. slavelist[cur].blockLRW \in BOOLEAN
  BY <1>2 DEF MapInv, ListOK
<1> DEFINE w == IF bitsOf(cur, "in") > 0 THEN group.inputsWKC + 1 ELSE group.inputsWKC
           b == group.blockLRW \/ slavelist[cur].blockLRW
<1>4. w \in Nat /\ b \in BOOLEAN
  BY <1>3, GroupFields
<1>5. group' = [group EXCEPT !.inputsWKC = w, !.blockLRW = b]
  BY <1>1
<1> HIDE DEF w, b
<1>6. QED
  BY <1>4, <1>5 DEF GroupType, w

LEMMA CloseOutputsGroup ==
    ASSUME group \in GroupType, CloseOutputs, LogAddr' \in Nat, segmentsize' \in Nat, Len(closed') \in Nat
    PROVE  /\ group' \in GroupType
           /\ group'.outputsWKC = group.outputsWKC /\ group'.inputsWKC = group.inputsWKC
           /\ group'.Obytes = LogAddr' /\ group'.Isegment = Len(closed') /\ group'.Ioffset = segmentsize'
<1>1. group' = [group EXCEPT !.Obytes = LogAddr', !.Isegment = Len(closed'), !.Ioffset = segmentsize']
  BY DEF CloseOutputs
<1>2. QED
  BY <1>1 DEF GroupType

LEMMA CloseInputsGroup ==
    ASSUME group \in GroupType, CloseInputs, LogAddr' \in Nat, LogAddr' >= group.Obytes,
           Append(closed', segmentsize') \in Sizes
    PROVE  /\ group' \in GroupType
           /\ group'.outputsWKC = group.outputsWKC /\ group'.inputsWKC = group.inputsWKC
           /\ group'.Obytes = group.Obytes /\ group'.Isegment = group.Isegment
           /\ group'.Ioffset = group.Ioffset /\ group'.inputs = group.Obytes
           /\ group'.Ibytes = LogAddr' - group.Obytes
           /\ group'.IOsegment = Append(closed', segmentsize')
<1>1. group' = [group EXCEPT !.IOsegment = Append(closed', segmentsize'),
                             !.inputs = group.Obytes, !.Ibytes = LogAddr' - group.Obytes]
  BY DEF CloseInputs
<1>2. LogAddr' - group.Obytes \in Nat
  BY GroupFields
<1>3. QED
  BY <1>1, <1>2 DEF GroupType

LEMMA MapOverlapGroup ==
    ASSUME group \in GroupType, MapInv, MapOverlap
    PROVE  /\ group' \in GroupType
           /\ group'.outputsWKC = IF bitsOf(cur, "out") > 0 THEN group.outputsWKC + 1 ELSE group.outputsWKC
           /\ group'.inputsWKC = IF bitsOf(cur, "in") > 0 THEN group.inputsWKC + 1 ELSE group.inputsWKC
           /\ group'.Obytes = SlaveEnd(cur, "out") /\ group'.Ibytes = SlaveEnd(cur, "in")
           /\ group'.Isegment = group.Isegment /\ group'.Ioffset = group.Ioffset
<1>1. /\ cur \in Slave /\ SlaveEnd(cur, "out") \in Nat /\ SlaveEnd(cur, "in") \in Nat
      /\ group' = [group EXCEPT !.Obytes = SlaveEnd(cur, "out"), !.Ibytes = SlaveEnd(cur, "in"),
                         !.outputsWKC = IF bitsOf(cur, "out") > 0 THEN @ + 1 ELSE @,
                         !.inputsWKC = IF bitsOf(cur, "in") > 0 THEN @ + 1 ELSE @,
                         !.blockLRW = @ \/ slavelist[cur].blockLRW]
  BY MapOverlapFacts, Zenon
<1>2. slavelist[cur].blockLRW \in BOOLEAN
  BY <1>1 DEF MapInv, ListOK
<1> DEFINE w == IF bitsOf(cur, "out") > 0 THEN group.outputsWKC + 1 ELSE group.outputsWKC
           v == IF bitsOf(cur, "in") > 0 THEN group.inputsWKC + 1 ELSE group.inputsWKC
           b == group.blockLRW \/ slavelist[cur].blockLRW
           o == SlaveEnd(cur, "out")
           i == SlaveEnd(cur, "in")
<1>3. w \in Nat /\ v \in Nat /\ b \in BOOLEAN /\ o \in Nat /\ i \in Nat
  BY <1>1, <1>2, GroupFields
<1>4. group' = [group EXCEPT !.Obytes = o, !.Ibytes = i, !.outputsWKC = w, !.inputsWKC = v, !.blockLRW = b]
  BY <1>1
<1> HIDE DEF w, v, b, o, i
<1>5. /\ group' \in GroupType /\ group'.outputsWKC = w /\ group'.inputsWKC = v
      /\ group'.Obytes = o /\ group'.Ibytes = i
      /\ group'.Isegment = group.Isegment /\ group'.Ioffset = group.Ioffset
  BY <1>3, <1>4 DEF GroupType
<1>6. QED
  BY <1>5 DEF w, v, o, i

LEMMA CloseOverlapGroup ==
    ASSUME group \in GroupType, CloseOverlap, Append(closed, segmentsize) \in Sizes
    PROVE  /\ group' \in GroupType
           /\ group'.outputsWKC = group.outputsWKC /\ group'.inputsWKC = group.inputsWKC
           /\ group'.Obytes = group.Obytes /\ group'.Ibytes = group.Ibytes
           /\ group'.inputs = group.Obytes /\ group'.IOsegment = Append(closed, segmentsize)
           /\ group'.Isegment = group.Isegment /\ group'.Ioffset = group.Ioffset
<1>1. group' = [group EXCEPT !.IOsegment = Append(closed, segmentsize), !.inputs = group.Obytes]
  BY DEF CloseOverlap
<1>2. QED
  BY <1>1, GroupFields DEF GroupType

--------------------------------------------------------------------------------
(* The image and its segments fit. *)

LEMMA SegInvStep ==
    ASSUME MapInv, GroupInv, SegInv, MapStep
    PROVE  SegInv'
<1>1. /\ closed \in Sizes /\ segmentsize \in Nat /\ ListFits /\ LogAddr \in Nat
      /\ (SmallImage => SegmentsOK) /\ group \in GroupType
  BY DEF SegInv, MapInv, LoopOK, GroupInv
<1>2. SegmentStep
  BY <1>1, StepIsSegmentStep
<1>3. /\ closed' \in Sizes /\ segmentsize' \in Nat
      /\ LogAddr' \in Nat /\ LogAddr' >= LogAddr
      /\ \/ closed' = closed /\ segmentsize' >= segmentsize
         \/ closed' = Append(closed, segmentsize)
      /\ SmallImage' => SmallImage /\ SegmentsOK'
  BY <1>1, <1>2, SegmentStepFacts, Zenon
<1>4. UNCHANGED <<slavelist, overlap>>
  BY DEF MapStep, MapOutput, MapInput, MapSlave, CloseOutputs, CloseInputs, MapOverlap, CloseOverlap
<1>5. ListFits'
  BY <1>1, <1>4 DEF ListFits, Slave, Slaves, bitsOf
<1>6. /\ Append(closed', segmentsize') \in Sizes /\ Len(closed') \in Nat
      /\ Append(closed', segmentsize')[Len(closed') + 1] = segmentsize'
      /\ SubSeq(Append(closed', segmentsize'), 1, Len(closed')) = closed'
  <2>1. \A c \in Sizes, z \in Nat :
           /\ Append(c, z) \in Sizes /\ Len(c) \in Nat
           /\ Append(c, z)[Len(c) + 1] = z
           /\ SubSeq(Append(c, z), 1, Len(c)) = c
    <3> SUFFICES ASSUME NEW c \in Sizes, NEW z \in Nat
                 PROVE  /\ Append(c, z) \in Sizes /\ Len(c) \in Nat
                        /\ Append(c, z)[Len(c) + 1] = z
                        /\ SubSeq(Append(c, z), 1, Len(c)) = c
      OBVIOUS
    <3>1. /\ Append(c, z) \in Sizes /\ Len(c) \in Nat
          /\ \A i \in 1 .. Len(c) + 1 : Append(c, z)[i] = IF i = Len(c) + 1 THEN z ELSE c[i]
          /\ SubSeq(Append(c, z), 1, Len(c)) = c
      BY AppendSizes, Zenon
    <3>2. Len(c) + 1 \in 1 .. Len(c) + 1
      BY <3>1
    <3>3. QED
      BY <3>1, <3>2, Zenon
  <2>2. QED
    BY <1>3, <2>1, Zenon
<1>7. Segments' = Append(closed', segmentsize')
  BY DEF Segments
<1>8. CASE MapOutput
  <2>1. phase' = "out"
    BY <1>8 DEF MapOutput, MapSlave
  <2>2. QED
    BY <1>3, <1>5, <2>1 DEF SegInv
<1>9. CASE CloseOutputs
  <2>1. /\ group'.Obytes = LogAddr' /\ group'.Isegment = Len(closed') /\ group'.Ioffset = segmentsize'
        /\ phase' = "in"
    BY <1>1, <1>3, <1>6, <1>9, CloseOutputsGroup DEF CloseOutputs
  <2>2. Len(closed') \in 0 .. Len(closed')
    <3>1. \A n \in Nat : n \in 0 .. n
      OBVIOUS
    <3>2. QED
      BY <1>6, <3>1, Zenon
  <2>3. segmentsize' <= segmentsize'
    <3>1. \A n \in Nat : n <= n
      OBVIOUS
    <3>2. QED
      BY <1>3, <3>1, Zenon
  <2>4. SmallImage' => Total(closed') + segmentsize' = LogAddr'
    BY <1>3 DEF SegmentsOK
  <2>5. SmallImage' => InputsStart'
    BY <1>6, <1>7, <2>1, <2>2, <2>3, <2>4, Zenon DEF InputsStart
  <2>6. QED
    BY <1>3, <1>5, <2>1, <2>5 DEF SegInv
<1>10. CASE MapInput
  <2>1. /\ group'.Isegment = group.Isegment /\ group'.Ioffset = group.Ioffset /\ group'.Obytes = group.Obytes
        /\ group.Ioffset \in Nat
    BY <1>1, <1>10, MapInputGroup, GroupFields
  <2>2. phase = "in" /\ phase' = "in"
    BY <1>10 DEF MapInput, MapSlave
  <2>3. SmallImage' /\ ~ overlap => InputsStart
    BY <1>3, <2>2 DEF SegInv
  <2>4. SmallImage' /\ ~ overlap => InputsStart'
    BY <1>1, <1>3, <2>1, <2>3, InputsStartStays, Zenon
  <2>5. QED
    BY <1>3, <1>4, <1>5, <2>2, <2>4 DEF SegInv
<1>11. CASE CloseInputs
  <2>1. phase = "in" /\ phase' = "mapped"
    BY <1>11 DEF CloseInputs
  <2>2. LogAddr' >= group.Obytes
    <3>1. group.Obytes <= LogAddr /\ group.Obytes \in Nat
      BY <1>1, <2>1, GroupFields DEF GroupInv, Behind, MapInv, LoopOK
    <3>2. QED
      BY <1>1, <1>3, <3>1
  <2>3. /\ group'.Isegment = group.Isegment /\ group'.Ioffset = group.Ioffset /\ group'.Obytes = group.Obytes
        /\ group'.IOsegment = Append(closed', segmentsize')
        /\ group.Ioffset \in Nat
    BY <1>1, <1>3, <1>6, <1>11, <2>2, CloseInputsGroup, GroupFields
  <2>4. SmallImage' /\ ~ overlap => InputsStart
    BY <1>3, <2>1 DEF SegInv
  <2>5. SmallImage' /\ ~ overlap => InputsStart'
    BY <1>1, <1>3, <2>3, <2>4, InputsStartStays, Zenon
  <2>6. QED
    BY <1>3, <1>4, <1>5, <1>7, <2>1, <2>3, <2>5 DEF SegInv
<1>12. CASE MapOverlap
  <2>1. overlap /\ phase' = "overlap"
    BY <1>12 DEF MapOverlap, MapInv, LoopOK, ListOK
  <2>2. QED
    BY <1>3, <1>4, <1>5, <2>1 DEF SegInv
<1>13. CASE CloseOverlap
  <2>1. overlap
    BY <1>13 DEF CloseOverlap, MapInv, LoopOK, ListOK
  <2>2. closed' = closed /\ segmentsize' = segmentsize
    BY <1>13 DEF CloseOverlap
  <2>3. group'.IOsegment = Append(closed, segmentsize)
    BY <1>1, <1>6, <1>13, <2>2, CloseOverlapGroup
  <2>4. QED
    BY <1>3, <1>4, <1>5, <1>7, <2>1, <2>2, <2>3 DEF SegInv
<1>14. QED
  BY <1>8, <1>9, <1>10, <1>11, <1>12, <1>13 DEF MapStep

\* A slave that is mapped contributes once more.
LEMMA CountOneMore ==
    ASSUME Slaves \in Nat, NEW A \in SUBSET Slave, NEW c \in Slave, c \notin A
    PROVE  Cardinality(A) \in Nat /\ Cardinality(A \cup {c}) = Cardinality(A) + 1
<1>1. IsFiniteSet(Slave)
  BY FS_Interval DEF Slave
<1>2. IsFiniteSet(A)
  BY <1>1, FS_Subset
<1>3. QED
  BY <1>2, FS_AddElement, FS_CardinalityType

LEMMA PlacedWiden ==
    ASSUME FmmuOK, NEW s \in Slave, NEW d \in Dirs,
           NEW log \in Nat, NEW bit \in 0 .. 7, NEW end \in Nat, NEW endbit \in 0 .. 7,
           Placed(s, d, log, bit, end, endbit),
           NEW log2 \in Nat, NEW bit2 \in 0 .. 7, NEW end2 \in Nat, NEW endbit2 \in 0 .. 7,
           8 * log2 + bit2 <= 8 * log + bit, 8 * end + endbit <= 8 * end2 + endbit2
    PROVE  Placed(s, d, log2, bit2, end2, endbit2)
<1> SUFFICES ASSUME NEW i \in 1 .. Len(fmmu[s][d])
             PROVE  Between(fmmu[s][d][i], log2, bit2, end2, endbit2)
  BY DEF Placed
<1>1. fmmu[s][d][i] \in Fmmu
  BY FmmuType
<1>2. Between(fmmu[s][d][i], log, bit, end, endbit)
  BY DEF Placed
<1>3. QED
  BY <1>1, <1>2, BetweenWiden, Zenon

\* FMMUs that stay and places that end later.
LEMMA PlacedStays ==
    ASSUME FmmuOK, NEW s \in Slave, NEW d \in Dirs, fmmu'[s][d] = fmmu[s][d],
           NEW log \in Nat, NEW bit \in 0 .. 7, NEW end \in Nat, NEW endbit \in 0 .. 7,
           Placed(s, d, log, bit, end, endbit),
           NEW end2 \in Nat, NEW endbit2 \in 0 .. 7, 8 * end + endbit <= 8 * end2 + endbit2
    PROVE  \A i \in 1 .. Len(fmmu'[s][d]) : Between(fmmu'[s][d][i], log, bit, end2, endbit2)
<1>1. 8 * log + bit <= 8 * log + bit
  OBVIOUS
<1>2. Placed(s, d, log, bit, end2, endbit2)
  BY <1>1, PlacedWiden, Zenon
<1>3. QED
  BY <1>2 DEF Placed

LEMMA ContributorsOfStep ==
    ASSUME MapInv, MapInv', CountersOK, UNCHANGED <<slavelist, overlap>>, NEW c \in Slave, NEW D \in SUBSET Dirs,
           \A s \in Slave, e \in Dirs : Done(s, e)' <=> Done(s, e) \/ (s = c /\ e \in D),
           \A e \in D : ~ Done(c, e),
           NEW counter \in [Dirs -> Nat],
           counter["out"] = group.outputsWKC, counter["in"] = group.inputsWKC,
           group'.outputsWKC = IF "out" \in D /\ bitsOf(c, "out") > 0 THEN counter["out"] + 1 ELSE counter["out"],
           group'.inputsWKC = IF "in" \in D /\ bitsOf(c, "in") > 0 THEN counter["in"] + 1 ELSE counter["in"]
    PROVE  CountersOK'
<1>1. Slave' = Slave /\ Slaves \in Nat
  BY DEF Slave, Slaves, MapInv, ListOK
<1>2. \A s \in Slave, e \in Dirs : bitsOf(s, e)' = bitsOf(s, e)
  BY DEF bitsOf
<1>3. ASSUME NEW d \in Dirs
      PROVE  Cardinality(Contributors(d)') =
               IF d \in D /\ bitsOf(c, d) > 0 THEN Cardinality(Contributors(d)) + 1
                                              ELSE Cardinality(Contributors(d))
  <2>1. CASE d \in D
    <3>1. c \notin Contributors(d) /\ Contributors(d) \in SUBSET Slave
      BY <2>1 DEF Contributors
    <3>2. Contributors(d)' = IF bitsOf(c, d) > 0 THEN Contributors(d) \cup {c} ELSE Contributors(d)
      BY <1>1, <1>2, <2>1 DEF Contributors
    <3>3. Cardinality(Contributors(d) \cup {c}) = Cardinality(Contributors(d)) + 1
      BY <1>1, <3>1, CountOneMore, Zenon
    <3>4. QED
      BY <2>1, <3>2, <3>3, Zenon
  <2>2. CASE d \notin D
    <3>1. Contributors(d)' = Contributors(d)
      BY <1>1, <1>2, <2>2 DEF Contributors
    <3>2. QED
      BY <2>2, <3>1
  <2>3. QED
    BY <2>1, <2>2
<1>4. "out" \in Dirs /\ "in" \in Dirs
  BY DEF Dirs
<1>5. Cardinality(Contributors("out")) = counter["out"] /\ Cardinality(Contributors("in")) = counter["in"]
  BY DEF CountersOK
<1>6. /\ Cardinality(Contributors("out")') = group'.outputsWKC
      /\ Cardinality(Contributors("in")') = group'.inputsWKC
  BY <1>3, <1>4, <1>5, Zenon
<1>7. QED
  BY <1>6 DEF CountersOK

LEMMA GroupInvMapOutput ==
    ASSUME MapInv, MapInv', GroupInv, MapOutput
    PROVE  GroupInv'
<1>1. /\ phase = "out" /\ phase' = "out" /\ cur' = cur + 1 /\ UNCHANGED <<slavelist, overlap>>
      /\ ~ overlap /\ group \in GroupType /\ CountersOK /\ Behind
  BY DEF MapOutput, MapSlave, MapInv, LoopOK, GroupInv
<1>2. cur \in Slave /\ cur \in Nat
  BY MapSlaveCur DEF MapOutput
<1>3. /\ group' \in GroupType
      /\ group'.outputsWKC = IF bitsOf(cur, "out") > 0 THEN group.outputsWKC + 1 ELSE group.outputsWKC
      /\ group'.inputsWKC = group.inputsWKC /\ group'.Obytes = group.Obytes
  BY <1>1, MapOutputGroup
<1>4. CountersOK'
  <2> DEFINE counter == [d \in Dirs |-> IF d = "out" THEN group.outputsWKC ELSE group.inputsWKC]
  <2>1. counter \in [Dirs -> Nat]
    BY <1>1, GroupFields
  <2>2. counter["out"] = group.outputsWKC /\ counter["in"] = group.inputsWKC
    BY DEF Dirs
  <2> HIDE DEF counter
  <2>3. \A s \in Slave, e \in Dirs : Done(s, e)' <=> Done(s, e) \/ (s = cur /\ e \in {"out"})
    BY <1>1, <1>2 DEF Done, Dirs, Slave
  <2>4. \A e \in {"out"} : ~ Done(cur, e)
    BY <1>1, <1>2 DEF Done
  <2>5. /\ group'.outputsWKC = IF "out" \in {"out"} /\ bitsOf(cur, "out") > 0
                                 THEN counter["out"] + 1 ELSE counter["out"]
        /\ group'.inputsWKC = IF "in" \in {"out"} /\ bitsOf(cur, "in") > 0
                                 THEN counter["in"] + 1 ELSE counter["in"]
    BY <1>3, <2>2
  <2>6. {"out"} \in SUBSET Dirs
    BY DEF Dirs
  <2>7. QED
    BY <1>1, <1>2, <2>1, <2>2, <2>3, <2>4, <2>5, <2>6, ContributorsOfStep, Zenon
<1>5. Behind'
  <2>1. group'.Obytes = 0 /\ LogAddr' \in Nat
    BY <1>1, <1>3 DEF Behind, MapInv, LoopOK
  <2>2. QED
    BY <1>1, <2>1 DEF Behind
<1>6. QED
  BY <1>1, <1>3, <1>4, <1>5 DEF GroupInv

LEMMA GroupInvMapInput ==
    ASSUME MapInv, MapInv', GroupInv, MapInput
    PROVE  GroupInv'
<1>1. /\ phase = "in" /\ phase' = "in" /\ cur' = cur + 1 /\ UNCHANGED <<slavelist, overlap>>
      /\ ~ overlap /\ group \in GroupType /\ CountersOK /\ Behind
  BY DEF MapInput, MapSlave, MapInv, LoopOK, GroupInv
<1>2. cur \in Slave /\ cur \in Nat
  BY MapSlaveCur DEF MapInput
<1>3. /\ group' \in GroupType
      /\ group'.inputsWKC = IF bitsOf(cur, "in") > 0 THEN group.inputsWKC + 1 ELSE group.inputsWKC
      /\ group'.outputsWKC = group.outputsWKC /\ group'.Obytes = group.Obytes
  BY <1>1, MapInputGroup
<1>4. CountersOK'
  <2> DEFINE counter == [d \in Dirs |-> IF d = "out" THEN group.outputsWKC ELSE group.inputsWKC]
  <2>1. counter \in [Dirs -> Nat]
    BY <1>1, GroupFields
  <2>2. counter["out"] = group.outputsWKC /\ counter["in"] = group.inputsWKC
    BY DEF Dirs
  <2> HIDE DEF counter
  <2>3. \A s \in Slave, e \in Dirs : Done(s, e)' <=> Done(s, e) \/ (s = cur /\ e \in {"in"})
    BY <1>1, <1>2 DEF Done, Dirs, Slave
  <2>4. \A e \in {"in"} : ~ Done(cur, e)
    BY <1>1, <1>2 DEF Done
  <2>5. /\ group'.outputsWKC = IF "out" \in {"in"} /\ bitsOf(cur, "out") > 0
                                 THEN counter["out"] + 1 ELSE counter["out"]
        /\ group'.inputsWKC = IF "in" \in {"in"} /\ bitsOf(cur, "in") > 0
                                 THEN counter["in"] + 1 ELSE counter["in"]
    BY <1>3, <2>2
  <2>6. {"in"} \in SUBSET Dirs
    BY DEF Dirs
  <2>7. QED
    BY <1>1, <1>2, <2>1, <2>2, <2>3, <2>4, <2>5, <2>6, ContributorsOfStep, Zenon
<1>5. Slave' = Slave
  BY <1>1 DEF Slave, Slaves
<1>6. /\ FmmuOK /\ FmmuOK' /\ LogAddr \in Nat /\ BitPos \in 0 .. 7 /\ LogAddr' \in Nat /\ BitPos' \in 0 .. 7
      /\ group.Obytes \in Nat /\ group.Obytes <= LogAddr
  BY <1>1, GroupFields DEF MapInv, LoopOK, Behind
<1>7. ASSUME NEW s \in Slave
      PROVE  /\ Placed(s, "out", 0, 0, group.Obytes, 0)
             /\ Placed(s, "in", group.Obytes, 0, LogAddr, BitPos)
  BY <1>1, <1>7 DEF Behind
<1>8. 8 * LogAddr + BitPos <= 8 * LogAddr' + BitPos'
  <2>1. CASE bitsOf(cur, "in") > 0
    BY <2>1, MapSlaveExtends DEF MapInput, Extends, Dirs
  <2>2. CASE ~ (bitsOf(cur, "in") > 0)
    <3>1. LogAddr' = LogAddr /\ BitPos' = BitPos
      BY <2>2 DEF MapInput, MapSlave
    <3>2. 8 * LogAddr + BitPos <= 8 * LogAddr + BitPos
      BY <1>6
    <3>3. QED
      BY <3>1, <3>2, Zenon
  <2>3. QED
    BY <2>1, <2>2
<1>9. ASSUME NEW s \in Slave
      PROVE  fmmu'[s]["out"] = fmmu[s]["out"] /\ (s # cur => fmmu'[s]["in"] = fmmu[s]["in"])
  <2>1. CASE bitsOf(cur, "in") > 0
    BY <2>1, MapSlaveExtends DEF MapInput, Extends, Dirs
  <2>2. CASE ~ (bitsOf(cur, "in") > 0)
    BY <2>2 DEF MapInput, MapSlave
  <2>3. QED
    BY <2>1, <2>2
<1>10. LogAddr' >= group.Obytes
  <2>1. \A a \in Nat, b \in 0 .. 7 : 8 * LogAddr + BitPos <= 8 * a + b => LogAddr <= a
    BY <1>6
  <2>2. LogAddr <= LogAddr'
    BY <1>6, <1>8, <2>1, Zenon
  <2>3. QED
    BY <1>6, <2>2
<1>11. ASSUME NEW s \in Slave
       PROVE  Placed(s, "in", group.Obytes, 0, LogAddr, BitPos)'
  <2>0. "in" \in Dirs /\ 0 \in 0 .. 7
    BY DEF Dirs
  <2>1. CASE s # cur \/ ~ (bitsOf(cur, "in") > 0)
    <3>1. fmmu'[s]["in"] = fmmu[s]["in"]
      BY <1>9, <2>1 DEF MapInput, MapSlave
    <3>2. \A i \in 1 .. Len(fmmu'[s]["in"]) : Between(fmmu'[s]["in"][i], group.Obytes, 0, LogAddr', BitPos')
      BY <1>6, <1>7, <1>8, <2>0, <3>1, PlacedStays, Zenon
    <3>3. QED
      BY <1>3, <3>2 DEF Placed
  <2>2. CASE s = cur /\ bitsOf(cur, "in") > 0
    <3> SUFFICES ASSUME NEW i \in 1 .. Len(fmmu'[s]["in"])
                 PROVE  Between(fmmu'[s]["in"][i], group.Obytes, 0, LogAddr', BitPos')
      BY <1>3 DEF Placed
    <3>1. Between(fmmu'[s]["in"][i], LogAddr, BitPos, LogAddr', BitPos')
      BY <2>0, <2>2, MapSlaveExtends DEF MapInput, Extends, Fresh
    <3>2. fmmu'[s]["in"] \in Seq(Fmmu)
      BY <1>5, <1>6, <2>0 DEF FmmuOK, Fmmus
    <3>3. fmmu'[s]["in"][i] \in Fmmu
      BY <3>2
    <3>4. 8 * group.Obytes + 0 <= 8 * LogAddr + BitPos
      BY <1>6
    <3>5. 8 * LogAddr' + BitPos' <= 8 * LogAddr' + BitPos'
      <4>1. \A a \in Nat, b \in 0 .. 7 : 8 * a + b <= 8 * a + b
        OBVIOUS
      <4>2. QED
        BY <1>6, <4>1, Zenon
    <3>6. QED
      BY <1>6, <2>0, <3>1, <3>3, <3>4, <3>5, BetweenWiden, Zenon
  <2>3. QED
    BY <2>1, <2>2
<1>12. ASSUME NEW s \in Slave
       PROVE  Placed(s, "out", 0, 0, group.Obytes, 0)'
  BY <1>3, <1>7, <1>9 DEF Placed
<1>13. Behind'
  BY <1>1, <1>3, <1>5, <1>10, <1>11, <1>12 DEF Behind
<1>14. QED
  BY <1>1, <1>3, <1>4, <1>13 DEF GroupInv

\* Steps between the loops map no slave.
LEMMA CountersStay ==
    ASSUME MapInv, CountersOK, UNCHANGED <<slavelist, overlap>>,
           \A s \in Slave, e \in Dirs : Done(s, e)' <=> Done(s, e),
           group'.outputsWKC = group.outputsWKC, group'.inputsWKC = group.inputsWKC
    PROVE  CountersOK'
<1>1. Slave' = Slave /\ \A s \in Slave, e \in Dirs : bitsOf(s, e)' = bitsOf(s, e)
  BY DEF Slave, Slaves, bitsOf
<1>2. Contributors("out")' = Contributors("out") /\ Contributors("in")' = Contributors("in")
  BY <1>1 DEF Contributors, Dirs
<1>3. QED
  BY <1>2 DEF CountersOK

LEMMA GroupInvCloseOutputs ==
    ASSUME MapInv, MapInv', GroupInv, CloseOutputs, segmentsize' \in Nat, Len(closed') \in Nat
    PROVE  GroupInv'
<1>1. /\ phase = "out" /\ phase' = "in" /\ cur' = 1 /\ cur > Slaves /\ UNCHANGED <<slavelist, overlap, fmmu>>
      /\ ~ overlap /\ group \in GroupType /\ CountersOK
  BY DEF CloseOutputs, MapInv, LoopOK, GroupInv
<1>2. LogAddr' \in Nat /\ BitPos' = 0
  BY CloseByteFacts DEF CloseOutputs
<1>3. /\ group' \in GroupType
      /\ group'.outputsWKC = group.outputsWKC /\ group'.inputsWKC = group.inputsWKC
      /\ group'.Obytes = LogAddr'
  BY <1>1, <1>2, CloseOutputsGroup
<1>4. Slave' = Slave /\ Slaves \in Nat /\ cur \in Nat
  BY <1>1 DEF Slave, Slaves, MapInv, ListOK, LoopOK
<1>5. CountersOK'
  <2>1. \A s \in Slave, d \in Dirs : Done(s, d)' <=> Done(s, d)
    BY <1>1, <1>4 DEF Done, Dirs, Slave
  <2>2. QED
    BY <1>1, <1>3, <2>1, CountersStay, Zenon
<1>6. ASSUME NEW s \in Slave
      PROVE  /\ Placed(s, "out", 0, 0, group.Obytes, 0)'
             /\ Placed(s, "in", group.Obytes, 0, LogAddr, BitPos)'
  <2>1. "out" \in Dirs /\ "in" \in Dirs
    BY DEF Dirs
  <2>2. Placed(s, "out", 0, 0, LogAddr, BitPos)'
    BY <1>4, <2>1 DEF MapInv, AllPlaced
  <2>3. fmmu'[s]["in"] = <<>>
    BY <1>1, <1>4, <2>1 DEF MapInv, HasFmmu, Done, NoFmmu, Slave
  <2>4. \A i \in 1 .. Len(fmmu'[s]["in"]) : FALSE
    BY <2>3
  <2>5. QED
    BY <1>2, <1>3, <2>2, <2>4 DEF Placed
<1>7. LogAddr' <= LogAddr'
  <2>1. \A n \in Nat : n <= n
    OBVIOUS
  <2>2. QED
    BY <1>2, <2>1, Zenon
<1>8. Behind'
  BY <1>1, <1>3, <1>4, <1>6, <1>7 DEF Behind
<1>9. QED
  BY <1>1, <1>3, <1>5, <1>8 DEF GroupInv

LEMMA GroupInvCloseInputs ==
    ASSUME MapInv, MapInv', GroupInv, CloseInputs, Append(closed', segmentsize') \in Sizes
    PROVE  GroupInv'
<1>1. /\ phase = "in" /\ phase' = "mapped" /\ cur' = cur /\ cur > Slaves
      /\ UNCHANGED <<slavelist, overlap, fmmu>>
      /\ ~ overlap /\ group \in GroupType /\ CountersOK /\ Behind
  BY DEF CloseInputs, MapInv, LoopOK, GroupInv
<1>2. /\ LogAddr' \in Nat /\ BitPos' = 0 /\ 8 * LogAddr + BitPos <= 8 * LogAddr' + BitPos'
      /\ LogAddr \in Nat /\ BitPos \in 0 .. 7
  BY CloseByteFacts DEF CloseInputs, MapInv, LoopOK
<1>3. group.Obytes \in Nat /\ group.Obytes <= LogAddr
  BY <1>1, GroupFields DEF Behind
<1>4. LogAddr' >= group.Obytes
  <2>1. \A a \in Nat, b \in 0 .. 7 : 8 * LogAddr + BitPos <= 8 * a + b => LogAddr <= a
    BY <1>2
  <2>2. BitPos' \in 0 .. 7
    BY <1>2
  <2>3. LogAddr <= LogAddr'
    BY <1>2, <2>1, <2>2, Zenon
  <2>4. QED
    BY <1>2, <1>3, <2>3
<1>5. /\ group' \in GroupType
      /\ group'.outputsWKC = group.outputsWKC /\ group'.inputsWKC = group.inputsWKC
      /\ group'.Obytes = group.Obytes /\ group'.inputs = group.Obytes
      /\ group'.Ibytes = LogAddr' - group.Obytes
  BY <1>1, <1>2, <1>4, CloseInputsGroup
<1>6. Slave' = Slave /\ Slaves \in Nat /\ cur \in Nat
  BY <1>1 DEF Slave, Slaves, MapInv, ListOK, LoopOK
<1>7. CountersOK'
  <2>1. \A s \in Slave, d \in Dirs : Done(s, d)' <=> Done(s, d)
    BY <1>1, <1>6 DEF Done, Dirs, Slave
  <2>2. QED
    BY <1>1, <1>5, <2>1, CountersStay, Zenon
<1>8. ASSUME NEW s \in Slave
      PROVE  /\ Placed(s, "out", 0, 0, group.Obytes, 0)'
             /\ Placed(s, "in", group.Obytes, 0, LogAddr, BitPos)'
  <2>1. FmmuOK /\ "in" \in Dirs /\ 0 \in 0 .. 7 /\ BitPos' \in 0 .. 7
    BY <1>2 DEF Dirs, MapInv
  <2>2. /\ Placed(s, "out", 0, 0, group.Obytes, 0)
        /\ Placed(s, "in", group.Obytes, 0, LogAddr, BitPos)
    BY <1>1 DEF Behind
  <2>3. fmmu'[s]["in"] = fmmu[s]["in"] /\ fmmu'[s]["out"] = fmmu[s]["out"]
    BY <1>1
  <2>4. \A i \in 1 .. Len(fmmu'[s]["in"]) : Between(fmmu'[s]["in"][i], group.Obytes, 0, LogAddr', BitPos')
    BY <1>2, <1>3, <2>1, <2>2, <2>3, PlacedStays, Zenon
  <2>5. QED
    BY <1>5, <2>2, <2>3, <2>4 DEF Placed
<1>9. Behind'
  BY <1>1, <1>4, <1>5, <1>6, <1>8 DEF Behind
<1>10. QED
  BY <1>1, <1>5, <1>7, <1>9 DEF GroupInv

LEMMA GroupInvMapOverlap ==
    ASSUME MapInv, MapInv', GroupInv, MapOverlap
    PROVE  GroupInv'
<1>1. /\ phase = "overlap" /\ phase' = "overlap" /\ cur' = cur + 1 /\ UNCHANGED <<slavelist, overlap>>
      /\ overlap /\ group \in GroupType /\ CountersOK /\ Together
  BY DEF MapOverlap, MapInv, LoopOK, ListOK, GroupInv
<1>2. /\ cur \in Slave /\ cur \in Nat /\ BitPos = 0 /\ LogAddr \in Nat
      /\ fmmu' = [fmmu EXCEPT ![cur] = [d \in Dirs |-> MapFrom(cur, d).fmmus]]
      /\ LogAddr' = IF SlaveEnd(cur, "in") > SlaveEnd(cur, "out")
                      THEN SlaveEnd(cur, "in") ELSE SlaveEnd(cur, "out")
      /\ SlaveEnd(cur, "out") \in Nat /\ SlaveEnd(cur, "in") \in Nat
      /\ LogAddr <= SlaveEnd(cur, "out") /\ LogAddr <= SlaveEnd(cur, "in")
  BY MapOverlapFacts, Zenon
<1>3. /\ group' \in GroupType
      /\ group'.outputsWKC = IF bitsOf(cur, "out") > 0 THEN group.outputsWKC + 1 ELSE group.outputsWKC
      /\ group'.inputsWKC = IF bitsOf(cur, "in") > 0 THEN group.inputsWKC + 1 ELSE group.inputsWKC
      /\ group'.Obytes = SlaveEnd(cur, "out") /\ group'.Ibytes = SlaveEnd(cur, "in")
      /\ group'.Isegment = group.Isegment /\ group'.Ioffset = group.Ioffset
  BY <1>1, MapOverlapGroup
<1>4. Slave' = Slave /\ "out" \in Dirs /\ "in" \in Dirs /\ FmmuOK
  BY <1>1 DEF Slave, Slaves, Dirs, MapInv
<1>5. CountersOK'
  <2> DEFINE counter == [d \in Dirs |-> IF d = "out" THEN group.outputsWKC ELSE group.inputsWKC]
  <2>1. counter \in [Dirs -> Nat]
    BY <1>1, GroupFields
  <2>2. counter["out"] = group.outputsWKC /\ counter["in"] = group.inputsWKC
    BY DEF Dirs
  <2> HIDE DEF counter
  <2>3. \A s \in Slave, e \in Dirs : Done(s, e)' <=> Done(s, e) \/ (s = cur /\ e \in Dirs)
    BY <1>1, <1>2 DEF Done, Slave
  <2>4. \A e \in Dirs : ~ Done(cur, e)
    BY <1>1, <1>2 DEF Done
  <2>5. /\ group'.outputsWKC = IF "out" \in Dirs /\ bitsOf(cur, "out") > 0
                                 THEN counter["out"] + 1 ELSE counter["out"]
        /\ group'.inputsWKC = IF "in" \in Dirs /\ bitsOf(cur, "in") > 0
                                 THEN counter["in"] + 1 ELSE counter["in"]
    BY <1>3, <1>4, <2>2
  <2>6. Dirs \in SUBSET Dirs
    OBVIOUS
  <2>7. QED
    BY <1>1, <1>2, <2>1, <2>2, <2>3, <2>4, <2>5, <2>6, ContributorsOfStep, Zenon
<1>6. ASSUME NEW s \in Slave, NEW d \in Dirs
      PROVE  \A i \in 1 .. Len(fmmu'[s][d]) : Between(fmmu'[s][d][i], 0, 0, SlaveEnd(cur, d), 0)
  <2>1. 0 \in 0 .. 7 /\ 0 \in Nat /\ SlaveEnd(cur, d) \in Nat /\ LogAddr <= SlaveEnd(cur, d)
    BY <1>2 DEF Dirs
  <2>2. 8 * LogAddr + 0 <= 8 * SlaveEnd(cur, d) + 0 /\ 8 * 0 + 0 <= 8 * LogAddr + 0
    BY <1>2, <2>1
  <2>3. CASE s # cur
    <3>1. fmmu'[s][d] = fmmu[s][d]
      BY <1>2, <1>4, <2>3 DEF FmmuOK
    <3>2. Placed(s, d, 0, 0, LogAddr, 0)
      BY <1>2 DEF MapInv, AllPlaced
    <3>3. QED
      BY <1>2, <1>4, <2>1, <2>2, <3>1, <3>2, PlacedStays, Zenon
  <2>4. CASE s = cur
    <3>1. fmmu'[cur][d] = MapFrom(cur, d).fmmus
      BY <1>2, <1>4 DEF FmmuOK
    <3> SUFFICES ASSUME NEW i \in 1 .. Len(MapFrom(cur, d).fmmus)
                 PROVE  Between(MapFrom(cur, d).fmmus[i], 0, 0, SlaveEnd(cur, d), 0)
      BY <2>4, <3>1
    <3>2. Between(MapFrom(cur, d).fmmus[i], LogAddr, 0, SlaveEnd(cur, d), 0) /\ MapFrom(cur, d).fmmus[i] \in Fmmu
      BY <1>1, <1>2, MapFromEnd, Zenon
    <3>3. 8 * SlaveEnd(cur, d) + 0 <= 8 * SlaveEnd(cur, d) + 0
      BY <2>1
    <3>4. QED
      BY <1>2, <2>1, <2>2, <3>2, <3>3, BetweenWiden, Zenon
  <2>5. QED
    BY <2>3, <2>4
<1>7. ASSUME NEW s \in Slave
      PROVE  Placed(s, "out", 0, 0, group.Obytes, 0)' /\ Placed(s, "in", 0, 0, group.Ibytes, 0)'
  BY <1>3, <1>4, <1>6 DEF Placed
<1>8. /\ group'.Obytes <= LogAddr' /\ group'.Ibytes <= LogAddr'
      /\ LogAddr' = group'.Obytes \/ LogAddr' = group'.Ibytes
  <2> DEFINE a == SlaveEnd(cur, "out")
             b == SlaveEnd(cur, "in")
  <2>1. a \in Nat /\ b \in Nat
    BY <1>2
  <2>2. LogAddr' = IF b > a THEN b ELSE a
    BY <1>2
  <2> HIDE DEF a, b
  <2>3. a <= (IF b > a THEN b ELSE a) /\ b <= (IF b > a THEN b ELSE a)
    BY <2>1
  <2>4. QED
    BY <1>3, <2>2, <2>3 DEF a, b
<1>9. Together'
  BY <1>1, <1>3, <1>4, <1>7, <1>8 DEF Together
<1>10. QED
  BY <1>1, <1>3, <1>5, <1>9 DEF GroupInv

LEMMA GroupInvCloseOverlap ==
    ASSUME MapInv, MapInv', GroupInv, CloseOverlap, Append(closed, segmentsize) \in Sizes
    PROVE  GroupInv'
<1>1. /\ phase = "overlap" /\ phase' = "mapped" /\ cur > Slaves
      /\ UNCHANGED <<slavelist, overlap, fmmu, cur, LogAddr>>
      /\ overlap /\ group \in GroupType /\ CountersOK /\ Together
  BY DEF CloseOverlap, MapInv, LoopOK, ListOK, GroupInv
<1>2. /\ group' \in GroupType
      /\ group'.outputsWKC = group.outputsWKC /\ group'.inputsWKC = group.inputsWKC
      /\ group'.Obytes = group.Obytes /\ group'.Ibytes = group.Ibytes
      /\ group'.inputs = group.Obytes
      /\ group'.Isegment = group.Isegment /\ group'.Ioffset = group.Ioffset
  BY <1>1, CloseOverlapGroup
<1>3. Slave' = Slave /\ Slaves \in Nat /\ cur \in Nat
  BY <1>1 DEF Slave, Slaves, MapInv, ListOK, LoopOK
<1>4. CountersOK'
  <2>1. \A s \in Slave, d \in Dirs : Done(s, d)' <=> Done(s, d)
    BY <1>1, <1>3 DEF Done, Slave
  <2>2. QED
    BY <1>1, <1>2, <2>1, CountersStay, Zenon
<1>5. Together'
  BY <1>1, <1>2, <1>3 DEF Together, Placed
<1>6. QED
  BY <1>1, <1>2, <1>4, <1>5 DEF GroupInv

ImageInv == MapInv /\ GroupInv /\ SegInv

LEMMA InitSegInv ==
    ASSUME SlavesFit, Init
    PROVE  SegInv
<1>1. closed = <<>> /\ segmentsize = 0 /\ LogAddr = 0 /\ phase = IF overlap THEN "overlap" ELSE "out"
  BY DEF Init
<1>2. <<>> \in Sizes /\ Len(<<>>) = 0 /\ Total(<<>>) = 0 /\ 0 \in Nat
  BY TotalNone DEF Sizes
<1>3. ListFits
  BY DEF Init, SlavesFit, ListFits, Slave, Slaves, bitsOf
<1>4. SegmentsOK
  BY <1>1, <1>2, IoAssumption DEF SegmentsOK
<1>5. phase # "mapped" /\ (~ overlap => phase = "out")
  BY <1>1
<1>6. QED
  BY <1>1, <1>2, <1>3, <1>4, <1>5 DEF SegInv

LEMMA InitImageInv ==
    ASSUME RealNetworks, SlavesFit, Init
    PROVE  ImageInv
<1>1. MapInv
  BY InitMapInv
<1>2. /\ group = NoGroup /\ closed = <<>> /\ segmentsize = 0 /\ LogAddr = 0 /\ BitPos = 0 /\ cur = 1
      /\ phase = IF overlap THEN "overlap" ELSE "out"
      /\ \A s \in Slave, d \in Dirs : fmmu[s][d] = <<>>
  BY DEF Init, NoFmmu
<1>3. <<>> \in Sizes /\ Len(<<>>) = 0 /\ Total(<<>>) = 0 /\ 0 \in Nat
  BY TotalNone DEF Sizes
<1>4. group \in GroupType
  BY <1>2, <1>3 DEF GroupType, NoGroup
<1>5. CountersOK
  <2>1. \A s \in Slave, d \in Dirs : ~ Done(s, d)
    BY <1>2 DEF Done, Slave
  <2>2. Contributors("out") = {} /\ Contributors("in") = {}
    BY <2>1 DEF Contributors, Dirs
  <2>3. group.outputsWKC = 0 /\ group.inputsWKC = 0
    BY <1>2 DEF NoGroup
  <2>4. QED
    BY <2>2, <2>3, FS_EmptySet DEF CountersOK
<1>6. /\ group.Obytes = 0 /\ group.Ibytes = 0 /\ group.inputs = 0 /\ phase # "mapped"
      /\ group.Isegment = 0 /\ group.Ioffset = 0
  BY <1>2 DEF NoGroup
<1>7. CASE overlap
  <2>1. Together
    BY <1>2, <1>3, <1>6 DEF Together, Placed, Dirs
  <2>2. GroupInv
    BY <1>4, <1>5, <1>6, <1>7, <2>1 DEF GroupInv
  <2>3. QED
    BY <1>1, <2>2, InitSegInv DEF ImageInv
<1>8. CASE ~ overlap
  <2>1. Behind
    BY <1>2, <1>6, <1>8 DEF Behind
  <2>2. GroupInv
    BY <1>4, <1>5, <1>6, <1>8, <2>1 DEF GroupInv
  <2>3. QED
    BY <1>1, <2>2, InitSegInv DEF ImageInv
<1>9. QED
  BY <1>7, <1>8

LEMMA NextImageInv ==
    ASSUME ImageInv, [Next]_vars
    PROVE  ImageInv'
<1>1. MapInv /\ GroupInv /\ SegInv /\ MapInv'
  BY NextMapInv DEF ImageInv
<1>2. CASE MapStep
  <2>1. SegInv'
    BY <1>1, <1>2, SegInvStep
  <2>2. closed' \in Sizes /\ segmentsize' \in Nat
    BY <2>1 DEF SegInv
  <2>3. Len(closed') \in Nat /\ Append(closed', segmentsize') \in Sizes
    BY <2>2, AppendSizes, Zenon
  <2>4. CloseOverlap => Append(closed, segmentsize) \in Sizes
    BY <1>1, AppendSizes, Zenon DEF SegInv
  <2>5. GroupInv'
    BY <1>1, <1>2, <2>2, <2>3, <2>4, GroupInvMapOutput, GroupInvMapInput, GroupInvCloseOutputs,
       GroupInvCloseInputs, GroupInvMapOverlap, GroupInvCloseOverlap, Zenon DEF MapStep
  <2>6. QED
    BY <1>1, <2>1, <2>5 DEF ImageInv
<1>3. CASE UNCHANGED vars
  <2>1. UNCHANGED <<slavelist, overlap, fmmu, phase, cur, LogAddr, BitPos, closed, segmentsize, group>>
    BY <1>3 DEF vars
  <2>2. Slave' = Slave
    BY <2>1 DEF Slave, Slaves
  <2>3. Contributors("out")' = Contributors("out") /\ Contributors("in")' = Contributors("in")
    BY <2>1, <2>2 DEF Contributors, Done, bitsOf
  <2>4. CountersOK'
    BY <1>1, <2>1, <2>3 DEF GroupInv, CountersOK
  <2>5. (Together => Together') /\ (Behind => Behind')
    BY <2>1, <2>2 DEF Together, Behind, Placed
  <2>6. GroupInv'
    BY <1>1, <2>1, <2>4, <2>5 DEF GroupInv
  <2>7. ListFits'
    BY <1>1, <2>1, <2>2 DEF SegInv, ListFits, bitsOf
  <2>8. (SmallImage' <=> SmallImage) /\ (SegmentsOK => SegmentsOK') /\ (InputsStart => InputsStart')
        /\ Segments' = Segments
    BY <2>1 DEF SmallImage, SegmentsOK, InputsStart, Segments
  <2>9. SegInv'
    BY <1>1, <2>1, <2>7, <2>8 DEF SegInv
  <2>10. QED
    BY <1>1, <2>6, <2>9 DEF ImageInv
<1>4. QED
  BY <1>2, <1>3 DEF Next, Mapped

\* The sizes of the group and of its segments follow the logical address as the
\* loops go: Obytes and Ibytes are the bytes of the outputs and of the inputs, the
\* segments are as long as the image, and two that follow each other are longer
\* than one frame (ecx_config_map_group, ecx_config_overlap_map_group).
THEOREM ImageInvariant ==
    ASSUME RealNetworks, SlavesFit
    PROVE  Spec => []ImageInv
<1>1. Init => ImageInv
  BY InitImageInv
<1>2. ImageInv /\ [Next]_vars => ImageInv'
  BY NextImageInv
<1>3. QED
  BY <1>1, <1>2, PTL DEF Spec

LEMMA ImageIsCovered ==
    ASSUME ImageInv, SmallImage
    PROVE  SegmentsCover
<1> SUFFICES ASSUME phase = "mapped"
             PROVE  /\ Total(group.IOsegment) = LogAddr
                    /\ \A i \in DOMAIN group.IOsegment : group.IOsegment[i] <= MaxSegment
                    /\ ~overlap => Total(SubSeq(group.IOsegment, 1, group.Isegment)) + group.Ioffset = group.Obytes
  BY DEF SegmentsCover
<1>1. closed \in Sizes /\ segmentsize \in Nat /\ SegmentsOK /\ group.IOsegment = Segments
  BY DEF ImageInv, SegInv
<1>2. /\ Segments \in Sizes /\ Len(Segments) = Len(closed) + 1 /\ Len(closed) \in Nat
      /\ \A i \in 1 .. Len(closed) + 1 : Segments[i] = IF i = Len(closed) + 1 THEN segmentsize ELSE closed[i]
      /\ Total(Segments) = Total(closed) + segmentsize
  BY <1>1, AppendSizes, Zenon DEF Segments
<1>3. Total(Segments) = LogAddr
  BY <1>1, <1>2 DEF SegmentsOK
<1>4. \A i \in DOMAIN Segments : Segments[i] <= MaxSegment
  <2>1. DOMAIN Segments = 1 .. Len(closed) + 1
    BY <1>2 DEF Sizes
  <2>2. \A i \in 1 .. Len(closed) : closed[i] <= MaxSegment
    BY <1>1 DEF SegmentsOK
  <2>3. segmentsize <= MaxSegment
    BY <1>1 DEF SegmentsOK
  <2> SUFFICES ASSUME NEW i \in 1 .. Len(closed) + 1 PROVE Segments[i] <= MaxSegment
    BY <2>1
  <2>4. i # Len(closed) + 1 => i \in 1 .. Len(closed)
    BY <1>2
  <2>5. QED
    BY <1>2, <2>2, <2>3, <2>4
<1>5. ~ overlap => Total(SubSeq(Segments, 1, group.Isegment)) + group.Ioffset = group.Obytes
  BY DEF ImageInv, SegInv, InputsStart
<1>6. QED
  BY <1>1, <1>3, <1>4, <1>5

\* The segments are exactly the logical bytes of the group, each fits in a frame
\* if every slave does, and the inputs start where Isegment and Ioffset say, for
\* an image that fits in half full segments (the loops of ecx_config_map_group and
\* ecx_config_overlap_map_group that fill IOsegment).
THEOREM SegmentsAreImage ==
    ASSUME RealNetworks, SlavesFit
    PROVE  ExchangeSpec => [](SmallImage => SegmentsCover)
<1>1. ImageInv => (SmallImage => SegmentsCover)
  BY ImageIsCovered
<1>2. QED
  BY <1>1, ImageInvariant, ExchangeMaps, PTL

--------------------------------------------------------------------------------
(* The datagrams of an exchange. *)

LEMMA SizesType ==
    ASSUME NEW s \in Sizes
    PROVE  Len(s) \in Nat /\ DOMAIN s = 1 .. Len(s) /\ s \in [1 .. Len(s) -> Nat]
BY DEF Sizes

\* The loop takes segments until exactly the whole length is out, or all of them.
LEMMA TurnsTaken ==
    ASSUME NEW s \in Sizes, Len(s) # 0, NEW P, Sums(Len(s), s, P), NEW length \in Nat
    PROVE  LET n == Turns(s, length)
           IN /\ n \in 1 .. Len(s)
              /\ n = Len(s) \/ P[n] = length
              /\ \A m \in 1 .. n - 1 : P[m] # length
<1> DEFINE N == Len(s)
           S == {n \in 1 .. N : n = N \/ P[n] = length}
           Good(n) == /\ n = N \/ Total(SubSeq(s, 1, n)) = length
                      /\ \A m \in 1 .. n - 1 : Total(SubSeq(s, 1, m)) # length
<1>1. N \in Nat /\ N # 0 /\ P \in [0 .. N -> Nat]
  BY SizesType DEF Sums
<1>2. \A k \in 0 .. N : Total(SubSeq(s, 1, k)) = P[k]
  BY TotalPrefix, Zenon DEF Sizes
<1> HIDE DEF N
<1>3. S \in SUBSET Nat /\ N \in S
  BY <1>1
<1>4. PICK n \in S : \A m \in S : n <= m
  BY <1>3, LeastNatural
<1>5. n \in 1 .. N /\ \A m \in 1 .. n - 1 : m \in 1 .. N /\ m \in 0 .. N /\ ~ (n <= m)
  BY <1>1, <1>4
<1>6. n \in 0 .. N
  BY <1>5
<1>7. \A m \in 1 .. n - 1 : P[m] \in Nat /\ ~ (P[m] = length)
  BY <1>1, <1>4, <1>5
<1>8. \A m \in 1 .. n - 1 : Total(SubSeq(s, 1, m)) # length
  <2>1. \A m \in 1 .. n - 1 : P[m] # length
    BY <1>7
  <2>2. QED
    BY <1>2, <1>5, <2>1
<1>9. \E m \in 1 .. N : Good(m)
  <2>1. Good(n)
    BY <1>2, <1>4, <1>6, <1>8
  <2>2. QED
    BY <1>5, <2>1
<1>10. Turns(s, length) = CHOOSE m \in 1 .. N : Good(m)
  BY DEF Turns, N
<1>11. Turns(s, length) \in 1 .. N /\ Good(Turns(s, length))
  <2> HIDE DEF Good
  <2>1. QED
    BY <1>9, <1>10
<1>12. Turns(s, length) \in 0 .. N /\ \A m \in 1 .. Turns(s, length) - 1 : m \in 0 .. N
  <2>1. \A t \in 1 .. N : t \in 0 .. N /\ \A m \in 1 .. t - 1 : m \in 0 .. N
    BY <1>1
  <2>2. Turns(s, length) \in 1 .. N
    BY <1>11, Zenon
  <2>3. QED
    BY <2>1, <2>2, Zenon
<1>13. QED
  BY <1>2, <1>11, <1>12 DEF N

\* The loop that cuts takes segments until the whole length is out.
LEMMA CutTurnsTaken ==
    ASSUME NEW s \in Sizes, Len(s) # 0, NEW P, Sums(Len(s), s, P), NEW length \in Nat
    PROVE  LET n == CutTurns(s, length)
           IN /\ n \in 1 .. Len(s)
              /\ n = Len(s) \/ P[n] >= length
              /\ \A m \in 1 .. n - 1 : P[m] < length
<1> DEFINE N == Len(s)
           S == {n \in 1 .. N : n = N \/ P[n] >= length}
           Good(n) == /\ n = N \/ Total(SubSeq(s, 1, n)) >= length
                      /\ \A m \in 1 .. n - 1 : Total(SubSeq(s, 1, m)) < length
<1>1. N \in Nat /\ N # 0 /\ P \in [0 .. N -> Nat]
  BY SizesType DEF Sums
<1>2. \A k \in 0 .. N : Total(SubSeq(s, 1, k)) = P[k]
  BY TotalPrefix, Zenon DEF Sizes
<1> HIDE DEF N
<1>3. S \in SUBSET Nat /\ N \in S
  BY <1>1
<1>4. PICK n \in S : \A m \in S : n <= m
  BY <1>3, LeastNatural
<1>5. n \in 1 .. N /\ \A m \in 1 .. n - 1 : m \in 1 .. N /\ m \in 0 .. N /\ ~ (n <= m)
  BY <1>1, <1>4
<1>6. n \in 0 .. N
  BY <1>5
<1>7. \A m \in 1 .. n - 1 : P[m] \in Nat /\ ~ (P[m] >= length)
  BY <1>1, <1>4, <1>5
<1>8. \A m \in 1 .. n - 1 : Total(SubSeq(s, 1, m)) < length
  <2>1. \A m \in 1 .. n - 1 : P[m] < length
    BY <1>7
  <2>2. QED
    BY <1>2, <1>5, <2>1
<1>9. \E m \in 1 .. N : Good(m)
  <2>1. Good(n)
    BY <1>2, <1>4, <1>6, <1>8
  <2>2. QED
    BY <1>5, <2>1
<1>10. CutTurns(s, length) = CHOOSE m \in 1 .. N : Good(m)
  BY DEF CutTurns, N
<1>11. CutTurns(s, length) \in 1 .. N /\ Good(CutTurns(s, length))
  <2> HIDE DEF Good
  <2>1. QED
    BY <1>9, <1>10
<1>12. CutTurns(s, length) \in 0 .. N /\ \A m \in 1 .. CutTurns(s, length) - 1 : m \in 0 .. N
  <2>1. \A t \in 1 .. N : t \in 0 .. N /\ \A m \in 1 .. t - 1 : m \in 0 .. N
    BY <1>1
  <2>2. CutTurns(s, length) \in 1 .. N
    BY <1>11, Zenon
  <2>3. QED
    BY <2>1, <2>2, Zenon
<1>13. QED
  BY <1>2, <1>11, <1>12 DEF N

Datagram(F, i, cmd, log, from, to) ==
    /\ F[i].cmd = cmd /\ F[i].log \in Nat /\ F[i].len \in Nat /\ F[i].to \in Nat /\ F[i].from \in Nat
    /\ F[i].to + log = F[i].log + to /\ F[i].from + log = F[i].log + from
\* The datagrams F carry length bytes, from the logical byte log on, each once.
Divided(F, cmd, log, from, to, length) ==
    /\ DOMAIN F = 1 .. Len(F) /\ Len(F) \in Nat
    /\ \A i \in DOMAIN F : /\ Datagram(F, i, cmd, log, from, to)
                           /\ log <= F[i].log /\ F[i].log + F[i].len <= log + length
    /\ \A i, j \in DOMAIN F : i # j => BytesOf(F[i]) \cap BytesOf(F[j]) = {}
    /\ \A b \in log .. log + length - 1 : \E i \in DOMAIN F : b \in BytesOf(F[i])

LEMMA DatagramRecords ==
    ASSUME NEW s \in Sizes, Len(s) # 0, NEW P, Sums(Len(s), s, P), NEW cmd, NEW length \in Nat,
           NEW log \in Nat, NEW from \in Nat, NEW to \in Nat, NEW F,
           F = Datagrams(cmd, s, length, log, from, to)
    PROVE  /\ Len(F) \in 1 .. Len(s) /\ DOMAIN F = 1 .. Len(F)
           /\ \A i \in DOMAIN F :
                /\ i \in 1 .. Len(s) /\ i - 1 \in 0 .. Len(s)
                /\ P[i] = P[i - 1] + F[i].len
                /\ F[i] = [cmd |-> cmd, log |-> log + P[i - 1], from |-> from + P[i - 1],
                           to |-> to + P[i - 1], len |-> s[i]]
           /\ Len(F) = Len(s) \/ P[Len(F)] = length
<1> DEFINE n == Turns(s, length)
<1>1. n \in 1 .. Len(s) /\ (n = Len(s) \/ P[n] = length)
  BY TurnsTaken, Zenon
<1>2. Len(s) \in Nat
  BY SizesType
<1>3. \A k \in 0 .. Len(s) : Total(SubSeq(s, 1, k)) = P[k]
  BY TotalPrefix, Zenon DEF Sizes
<1>4. F = [i \in 1 .. n |->
             [cmd |-> cmd, log |-> log + Total(SubSeq(s, 1, i - 1)),
              from |-> from + Total(SubSeq(s, 1, i - 1)),
              to |-> to + Total(SubSeq(s, 1, i - 1)), len |-> s[i]]]
  BY DEF Datagrams
<1> HIDE DEF n
<1>5. DOMAIN F = 1 .. n /\ Len(F) = n
  BY <1>1, <1>2, <1>4
<1>6. ASSUME NEW i \in 1 .. n
      PROVE  /\ i \in 1 .. Len(s) /\ i - 1 \in 0 .. Len(s)
             /\ P[i] = P[i - 1] + F[i].len
             /\ F[i] = [cmd |-> cmd, log |-> log + P[i - 1], from |-> from + P[i - 1],
                        to |-> to + P[i - 1], len |-> s[i]]
  <2>1. i \in 1 .. Len(s) /\ i - 1 \in 0 .. Len(s) /\ i - 1 \in 0 .. Len(s) - 1 /\ i - 1 + 1 = i
    BY <1>1, <1>2
  <2>2. Total(SubSeq(s, 1, i - 1)) = P[i - 1]
    BY <1>3, <2>1, Zenon
  <2>3. F[i] = [cmd |-> cmd, log |-> log + P[i - 1], from |-> from + P[i - 1],
                to |-> to + P[i - 1], len |-> s[i]]
    BY <1>4, <2>2, Zenon
  <2>4. P[i - 1 + 1] = P[i - 1] + s[i - 1 + 1]
    BY <2>1 DEF Sums
  <2>5. QED
    BY <2>1, <2>3, <2>4
<1>7. QED
  BY <1>1, <1>5, <1>6

\* Lengths that add up to the whole are taken to the last byte, each byte once.
LEMMA DatagramsDivide ==
    ASSUME NEW s \in Sizes, Len(s) # 0, NEW cmd, NEW length \in Nat,
           length <= Total(s),
           NEW log \in Nat, NEW from \in Nat, NEW to \in Nat
    PROVE  LET F == Datagrams(cmd, s, length, log, from, to)
           IN /\ length = Total(s) => Divided(F, cmd, log, from, to, length)
              /\ \A i \in DOMAIN F : Datagram(F, i, cmd, log, from, to) /\ F[i].log + F[i].len <= log + Total(s)
<1> DEFINE F == Datagrams(cmd, s, length, log, from, to)
           N == Len(s)
           n == Len(F)
           total == Total(s)
<1>1. PICK P : Sums(N, s, P) /\ Total(s) = P[N]
  BY TotalIsSum DEF Sizes
<1>2. /\ N \in Nat /\ s \in [1 .. N -> Nat] /\ P \in [0 .. N -> Nat] /\ P[0] = 0 /\ P[N] = total
      /\ total \in Nat
  BY <1>1, SizesType DEF Sums
<1>3. /\ n \in 1 .. N /\ DOMAIN F = 1 .. n
      /\ \A i \in DOMAIN F :
           /\ i \in 1 .. N /\ i - 1 \in 0 .. N
           /\ P[i] = P[i - 1] + F[i].len
           /\ F[i] = [cmd |-> cmd, log |-> log + P[i - 1], from |-> from + P[i - 1],
                      to |-> to + P[i - 1], len |-> s[i]]
      /\ n = N \/ P[n] = length
  <2>1. Len(s) # 0 /\ F = Datagrams(cmd, s, length, log, from, to) /\ Sums(Len(s), s, P)
    BY <1>1
  <2> HIDE DEF F
  <2>2. QED
    BY <2>1, DatagramRecords, SMTT(30)
<1>4. \A i, j \in 0 .. N : i <= j => P[i] <= P[j] /\ P[i] \in Nat /\ P[j] \in Nat
  <2> SUFFICES ASSUME NEW i \in 0 .. N, NEW j \in 0 .. N, i <= j
               PROVE  P[i] <= P[j] /\ P[i] \in Nat /\ P[j] \in Nat
    OBVIOUS
  <2>1. j \in i .. N
    BY <1>2
  <2>2. QED
    BY <1>1, <1>2, <2>1, SumsMonotonic, Zenon
<1> HIDE DEF F, N, n, total
<1>5. ASSUME NEW i \in DOMAIN F
      PROVE  /\ i \in 1 .. N /\ i - 1 \in 0 .. N /\ i \in 0 .. N
             /\ P[i - 1] \in Nat /\ P[i] \in Nat
             /\ F[i].cmd = cmd /\ F[i].log = log + P[i - 1] /\ F[i].from = from + P[i - 1]
             /\ F[i].to = to + P[i - 1] /\ F[i].len \in Nat /\ F[i].log + F[i].len = log + P[i]
  <2>1. i \in 1 .. N /\ i - 1 \in 0 .. N /\ i \in 0 .. N /\ i - 1 <= i
    <3>1. i \in 1 .. N
      BY <1>3, Zenon
    <3>2. QED
      BY <1>2, <3>1
  <2>2. P[i - 1] \in Nat /\ P[i] \in Nat
    BY <1>4, <2>1
  <2>3. /\ F[i].cmd = cmd /\ F[i].log = log + P[i - 1] /\ F[i].from = from + P[i - 1]
        /\ F[i].to = to + P[i - 1] /\ F[i].len = s[i] /\ P[i] = P[i - 1] + F[i].len
    BY <1>3
  <2>4. s[i] \in Nat
    BY <1>2, <2>1
  <2>5. QED
    BY <2>1, <2>2, <2>3, <2>4, SMTT(30)
<1>6. ASSUME NEW i \in DOMAIN F
      PROVE  Datagram(F, i, cmd, log, from, to) /\ log <= F[i].log
  <2>1. PICK x \in Nat : /\ F[i].cmd = cmd /\ F[i].log = log + x /\ F[i].from = from + x
                         /\ F[i].to = to + x /\ F[i].len \in Nat
    BY <1>5, Zenon
  <2>2. /\ log + x \in Nat /\ to + x \in Nat /\ from + x \in Nat /\ log <= log + x
        /\ (to + x) + log = (log + x) + to /\ (from + x) + log = (log + x) + from
    OBVIOUS
  <2>3. QED
    BY <2>1, <2>2, Zenon DEF Datagram
<1>7. ASSUME NEW i \in DOMAIN F PROVE F[i].log + F[i].len <= log + total
  <2>1. P[i] <= P[N] /\ P[i] \in Nat
    BY <1>2, <1>4, <1>5, SMTT(30)
  <2>2. QED
    BY <1>2, <1>5, <2>1
<1>8. ASSUME NEW i \in DOMAIN F, NEW j \in DOMAIN F, i < j PROVE BytesOf(F[i]) \cap BytesOf(F[j]) = {}
  <2>1. i <= j - 1 /\ i \in 0 .. N /\ j - 1 \in 0 .. N
    <3>1. i \in 1 .. N /\ j \in 1 .. N
      BY <1>5, Zenon
    <3>2. QED
      BY <1>2, <1>8, <3>1
  <2>2. P[i] <= P[j - 1] /\ P[i] \in Nat /\ P[j - 1] \in Nat
    BY <1>4, <2>1
  <2>3. F[i].log + F[i].len = log + P[i] /\ F[j].log = log + P[j - 1] /\ F[i].log \in Nat /\ F[j].log \in Nat
    BY <1>5, <1>6 DEF Datagram
  <2>4. F[i].log + F[i].len <= F[j].log /\ F[i].len \in Nat /\ F[j].len \in Nat
    <3>1. log + P[i] <= log + P[j - 1]
      BY <2>2
    <3>2. F[i].len \in Nat /\ F[j].len \in Nat
      BY <1>5, Zenon
    <3>3. QED
      BY <2>3, <3>1, <3>2, Zenon
  <2>5. \A a, b \in Nat, c, d \in Nat : a + c <= b => (a .. a + c - 1) \cap (b .. b + d - 1) = {}
    OBVIOUS
  <2>6. QED
    BY <2>3, <2>4, <2>5, Zenon DEF BytesOf
<1>9. ASSUME length = total, NEW b \in log .. log + length - 1 PROVE \E i \in DOMAIN F : b \in BytesOf(F[i])
  <2> DEFINE S == {i \in 1 .. n : b < log + P[i]}
  <2>1. P[n] = total
    <3>1. n = N \/ P[n] >= P[N]
      BY <1>2, <1>3, <1>9
    <3>2. n \in 0 .. N /\ N \in 0 .. N /\ n <= N
      BY <1>2, <1>3
    <3>3. P[n] <= P[N] /\ P[n] \in Nat /\ P[N] \in Nat
      BY <1>4, <3>2
    <3>4. QED
      BY <1>2, <3>1, <3>3
  <2>2. n \in S /\ S \in SUBSET Nat
    BY <1>3, <1>9, <2>1
  <2>3. PICK i \in S : \A m \in S : i <= m
    BY <2>2, LeastNatural
  <2>4. i \in DOMAIN F /\ i \in Nat /\ b < log + P[i]
    BY <1>3, <2>3
  <2>5. log + P[i - 1] <= b
    <3>1. CASE i = 1
      BY <1>2, <3>1
    <3>2. CASE i # 1
      <4>1. i - 1 \in 1 .. n /\ ~ (i <= i - 1)
        <5>1. i \in 1 .. n
          BY <2>3
        <5>2. n \in Nat
          BY <1>2, <1>3
        <5>3. QED
          BY <3>2, <5>1, <5>2
      <4>2. ~ (b < log + P[i - 1])
        BY <2>3, <4>1
      <4>3. P[i - 1] \in Nat
        BY <1>5, <2>4
      <4>4. QED
        BY <4>2, <4>3
    <3>3. QED
      BY <3>1, <3>2
  <2>6. b \in BytesOf(F[i])
    <3>1. F[i].log = log + P[i - 1] /\ F[i].log + F[i].len = log + P[i] /\ P[i] \in Nat /\ P[i - 1] \in Nat
      BY <1>5, <2>4, Zenon
    <3>2. b \in Int /\ F[i].log <= b /\ b < F[i].log + F[i].len /\ F[i].log \in Nat /\ F[i].len \in Nat
      BY <1>5, <2>4, <2>5, <3>1, SMTT(30)
    <3>3. b \in F[i].log .. F[i].log + F[i].len - 1
      BY <3>2
    <3>4. QED
      BY <3>3, Zenon DEF BytesOf
  <2>7. QED
    BY <2>4, <2>6
<1>10. length = total => Divided(F, cmd, log, from, to, length)
  <2>1. DOMAIN F = 1 .. Len(F) /\ Len(F) \in Nat
    <3>1. n \in Nat
      BY <1>2, <1>3
    <3>2. QED
      BY <1>3, <3>1, Zenon DEF n
  <2>2. \A i, j \in DOMAIN F : i # j => BytesOf(F[i]) \cap BytesOf(F[j]) = {}
    <3> SUFFICES ASSUME NEW i \in DOMAIN F, NEW j \in DOMAIN F, i # j
                 PROVE  BytesOf(F[i]) \cap BytesOf(F[j]) = {}
      OBVIOUS
    <3>1. i < j \/ j < i
      BY <2>1
    <3>2. QED
      BY <1>8, <3>1
  <2>3. QED
    BY <1>6, <1>7, <1>9, <2>1, <2>2 DEF Divided
<1>11. QED
  BY <1>6, <1>7, <1>10, Zenon DEF F, total

LEMMA TotalOfSums ==
    ASSUME NEW s \in Sizes, NEW P, Sums(Len(s), s, P)
    PROVE  Total(s) = P[Len(s)]
<1>1. Len(s) \in 0 .. Len(s) /\ SubSeq(s, 1, Len(s)) = s
  BY DEF Sizes
<1>2. Total(SubSeq(s, 1, Len(s))) = P[Len(s)]
  BY <1>1, TotalPrefix, Zenon DEF Sizes
<1>3. QED
  BY <1>1, <1>2

\* The segments from the (k + 1)-th on, without the first off bytes.
LEMMA CutFront ==
    ASSUME NEW s \in Sizes, NEW k \in Nat, k < Len(s), NEW off \in Nat, off <= s[k + 1]
    PROVE  LET t == [SubSeq(s, k + 1, Len(s)) EXCEPT ![1] = @ - off]
           IN /\ t \in Sizes /\ Len(t) # 0
              /\ Total(t) + Total(SubSeq(s, 1, k)) + off = Total(s)
              /\ Total(t) \in Nat /\ Total(SubSeq(s, 1, k)) \in Nat
<1> DEFINE N == Len(s)
           r == SubSeq(s, k + 1, N)
           t == [r EXCEPT ![1] = @ - off]
           m == N - k
<1>1. PICK P : Sums(N, s, P) /\ Total(s) = P[N]
  BY TotalIsSum DEF Sizes
<1>2. N \in Nat /\ s \in [1 .. N -> Nat] /\ P \in [0 .. N -> Nat] /\ k \in 0 .. N /\ k + 1 \in 1 .. N
  BY <1>1, SizesType DEF Sums
<1>3. r = [i \in 1 .. m |-> s[k + i]]
  BY <1>2 DEF Sizes
<1>4. t = [i \in 1 .. m |-> IF i = 1 THEN s[k + 1] - off ELSE s[k + i]]
  BY <1>3
<1>5. m \in Nat /\ m # 0 /\ \A i \in 1 .. m : k + i \in 1 .. N /\ s[k + i] \in Nat
  <2>1. N \in Nat /\ k \in 0 .. N /\ k < N
    BY <1>2
  <2> HIDE DEF N
  <2>2. m \in Nat /\ m # 0 /\ \A i \in 1 .. m : k + i \in 1 .. N
    BY <2>1
  <2>3. QED
    BY <1>2, <2>2, Zenon
<1>6. s[k + 1] \in Nat /\ s[k + 1] - off \in Nat
  BY <1>2
<1> HIDE DEF t, r, N, m
<1>7. t \in [1 .. m -> Nat]
  BY <1>4, <1>5, <1>6
<1>8. t \in Sizes /\ Len(t) = m
  BY <1>5, <1>7, SMTT(30) DEF Sizes
<1> DEFINE Q == [j \in 0 .. m |-> IF j = 0 THEN 0 ELSE P[k + j] - P[k] - off]
<1>9. \A j \in 1 .. m : P[k + j] \in Nat /\ P[k] \in Nat /\ P[k + j] - P[k] - off \in Nat
  <2> SUFFICES ASSUME NEW j \in 1 .. m
               PROVE  P[k + j] \in Nat /\ P[k] \in Nat /\ P[k + j] - P[k] - off \in Nat
    OBVIOUS
  <2>1. k + 1 \in 0 .. N /\ k + j \in k + 1 .. N /\ k \in 0 .. N - 1
    BY <1>2 DEF m
  <2>2. P[k + 1] <= P[k + j] /\ P[k + j] \in Nat /\ P[k + 1] \in Nat
    BY <1>1, <1>2, <2>1, SumsMonotonic, Zenon
  <2>3. P[k + 1] = P[k] + s[k + 1] /\ P[k] \in Nat
    BY <1>1, <1>2, <2>1 DEF Sums
  <2>4. QED
    BY <1>6, <2>2, <2>3, SMTT(30)
<1>10. Sums(m, t, Q)
  <2>1. Q \in [0 .. m -> Nat] /\ Q[0] = 0
    <3>1. \A j \in 0 .. m : j = 0 \/ j \in 1 .. m
      BY <1>5
    <3>2. \A j \in 0 .. m : (IF j = 0 THEN 0 ELSE P[k + j] - P[k] - off) \in Nat
      BY <1>9, <3>1
    <3>3. 0 \in 0 .. m
      BY <1>5
    <3>4. QED
      BY <3>2, <3>3, Zenon
  <2>2. ASSUME NEW j \in 0 .. m - 1 PROVE Q[j + 1] = Q[j] + t[j + 1]
    <3>1. j \in 0 .. m /\ j + 1 \in 0 .. m /\ j + 1 \in 1 .. m /\ k + j \in 0 .. N - 1
      BY <1>2, <1>5 DEF m
    <3>2. P[(k + j) + 1] = P[k + j] + s[(k + j) + 1]
      BY <1>1, <3>1, Zenon DEF Sums
    <3>3. (k + j) + 1 = k + (j + 1)
      BY <1>2, <1>5
    <3>4. P[k + (j + 1)] = P[k + j] + s[k + (j + 1)]
      BY <3>2, <3>3, Zenon
    <3>5. Q[j + 1] = P[k + (j + 1)] - P[k] - off
      BY <1>5, <3>1
    <3>6. P[k + (j + 1)] \in Nat /\ P[k] \in Nat
      BY <1>9, <3>1
    <3>7. CASE j = 0
      <4>1. Q[j] = 0 /\ t[j + 1] = s[k + 1] - off /\ k + (j + 1) = k + 1 /\ k + j = k
        BY <1>4, <1>5, <2>1, <3>1, <3>7
      <4>2. QED
        BY <1>6, <3>4, <3>5, <3>6, <4>1
    <3>8. CASE j # 0
      <4>1. Q[j] = P[k + j] - P[k] - off
        BY <3>1, <3>8
      <4>2. t[j + 1] = s[k + (j + 1)]
        <5>1. j + 1 # 1
          BY <3>1, <3>8
        <5>2. QED
          BY <1>4, <3>1, <5>1
      <4>3. P[k + j] \in Nat /\ s[k + (j + 1)] \in Nat
        <5>1. j \in 1 .. m
          BY <1>5, <3>1, <3>8
        <5>2. QED
          BY <1>5, <1>9, <3>1, <5>1
      <4> HIDE DEF Q
      <4>4. QED
        BY <3>4, <3>5, <3>6, <4>1, <4>2, <4>3, SMTT(30)
    <3>9. QED
      BY <3>7, <3>8
  <2> HIDE DEF Q
  <2>3. QED
    BY <2>1, <2>2 DEF Sums
<1>11. Total(t) = P[N] - P[k] - off
  <2>1. Total(t) = Q[m]
    <3> HIDE DEF Q
    <3>1. QED
      BY <1>8, <1>10, TotalOfSums
  <2>2. Q[m] = P[k + m] - P[k] - off /\ k + m = N
    BY <1>2, <1>5 DEF m
  <2>3. QED
    BY <2>1, <2>2
<1>12. Total(SubSeq(s, 1, k)) = P[k]
  BY <1>1, <1>2, TotalPrefix, Zenon DEF N, Sizes
<1>13. P[N] \in Nat /\ P[k] \in Nat /\ P[N] - P[k] - off \in Nat
  <2>1. m \in 1 .. m /\ k + m = N
    BY <1>2, <1>5 DEF m
  <2>2. QED
    BY <1>9, <2>1
<1>14. QED
  <2>1. Total(t) + Total(SubSeq(s, 1, k)) + off = Total(s)
    BY <1>1, <1>11, <1>12, <1>13
  <2>2. Total(t) \in Nat /\ Total(SubSeq(s, 1, k)) \in Nat
    BY <1>11, <1>12, <1>13, Zenon
  <2>3. t \in Sizes /\ Len(t) # 0
    BY <1>5, <1>8
  <2>4. QED
    BY <2>1, <2>2, <2>3, Zenon DEF t, r, N

\* The first n segments, the last one cut so that length bytes remain.
LEMMA CutBack ==
    ASSUME NEW s \in Sizes, Len(s) # 0, NEW length \in Nat, length # 0
    PROVE  LET n == CutTurns(s, length)
               t == [SubSeq(s, 1, n) EXCEPT ![n] = length - Total(SubSeq(s, 1, n - 1))]
           IN t \in Sizes /\ Len(t) # 0 /\ Total(t) = length
<1> DEFINE n == CutTurns(s, length)
           r == SubSeq(s, 1, n)
           N == Len(s)
<1>1. PICK P : Sums(N, s, P) /\ Total(s) = P[N]
  BY TotalIsSum DEF Sizes
<1>2. N \in Nat /\ s \in [1 .. N -> Nat] /\ P \in [0 .. N -> Nat]
  BY <1>1, SizesType DEF Sums
<1>3. n \in 1 .. N /\ \A m \in 1 .. n - 1 : P[m] < length
  BY <1>1, CutTurnsTaken, Zenon
<1> HIDE DEF n
<1>4. r = [i \in 1 .. n |-> s[i]] /\ n \in Nat /\ n # 0 /\ n - 1 \in 0 .. N /\ n - 1 \in Nat
  BY <1>2, <1>3 DEF Sizes
<1>5. Total(SubSeq(s, 1, n - 1)) = P[n - 1]
  BY <1>1, <1>4, TotalPrefix, Zenon DEF Sizes
<1> DEFINE left == length - P[n - 1]
           t == [r EXCEPT ![n] = left]
<1>6. left \in Nat /\ P[n - 1] \in Nat /\ P[n - 1] + left = length
  <2>1. P[n - 1] \in Nat /\ P[0] = 0
    BY <1>1, <1>2, <1>4 DEF Sums
  <2>2. P[n - 1] <= length
    <3>1. CASE n = 1
      BY <2>1, <3>1
    <3>2. CASE n # 1
      <4>1. n - 1 \in 1 .. n - 1
        BY <1>4, <3>2
      <4>2. QED
        BY <1>3, <2>1, <4>1
    <3>3. QED
      BY <3>1, <3>2
  <2>3. QED
    BY <2>1, <2>2
<1> HIDE DEF left, r
<1>7. t = [i \in 1 .. n |-> IF i = n THEN left ELSE s[i]]
  BY <1>4
<1> HIDE DEF t
<1>8. \A i \in 1 .. n : i \in 1 .. N
  BY <1>2, <1>3
<1>9. t \in [1 .. n -> Nat]
  BY <1>2, <1>6, <1>7, <1>8
<1>10. t \in Sizes /\ Len(t) = n
  BY <1>4, <1>9 DEF Sizes
<1>11. PICK Q : Sums(n, t, Q) /\ Total(t) = Q[n]
  BY <1>10, TotalIsSum DEF Sizes
<1>12. Q[n - 1] = P[n - 1]
  <2>1. \A i \in 1 .. n - 1 : i \in 1 .. n /\ i # n
    BY <1>4
  <2>2. \A i \in 1 .. n - 1 : t[i] = s[i]
    BY <1>7, <2>1
  <2>3. n - 1 <= n /\ n - 1 <= N
    BY <1>2, <1>3
  <2>4. PICK k \in Nat : k = n - 1
    BY <1>4
  <2> HIDE DEF N
  <2>5. k <= n /\ k <= N /\ \A i \in 1 .. k : t[i] = s[i]
    BY <2>2, <2>3, <2>4, Zenon
  <2>6. Sums(n, t, Q) /\ Sums(N, s, P) /\ n \in Nat /\ N \in Nat
    BY <1>1, <1>2, <1>4, <1>11
  <2>7. Q[k] = P[k]
    BY <2>5, <2>6, SumsAgree
  <2>8. QED
    BY <2>4, <2>7, Zenon
<1>13. Q[n] = Q[n - 1] + t[n]
  <2>1. n - 1 \in 0 .. n - 1 /\ (n - 1) + 1 = n
    BY <1>4
  <2>2. Q[(n - 1) + 1] = Q[n - 1] + t[(n - 1) + 1]
    BY <1>11, <2>1, Zenon DEF Sums
  <2>3. QED
    BY <2>1, <2>2, Zenon
<1>14. t[n] = left
  <2>1. n \in 1 .. n
    BY <1>4
  <2>2. QED
    BY <1>7, <2>1
<1>15. Total(t) = length
  BY <1>6, <1>11, <1>12, <1>13, <1>14, Zenon
<1>16. QED
  BY <1>4, <1>5, <1>10, <1>15, Zenon DEF t, r, left, n

LEMMA MappedImage ==
    ASSUME ImageInv, SmallImage, phase = "mapped"
    PROVE  /\ group.IOsegment \in Sizes /\ Len(group.IOsegment) # 0
           /\ Total(group.IOsegment) = LogAddr /\ LogAddr \in Nat
           /\ group.Obytes \in Nat /\ group.Ibytes \in Nat /\ group.inputs = group.Obytes
           /\ group.Isegment \in Nat /\ group.Isegment < Len(group.IOsegment)
           /\ group.Ioffset \in Nat /\ group.Ioffset <= group.IOsegment[group.Isegment + 1]
           /\ IF overlap
                THEN /\ LogAddr = bigger /\ group.Isegment = 0 /\ group.Ioffset = 0
                ELSE /\ LogAddr = group.Obytes + group.Ibytes
                     /\ Total(SubSeq(group.IOsegment, 1, group.Isegment)) + group.Ioffset = group.Obytes
<1>1. /\ closed \in Sizes /\ segmentsize \in Nat /\ group.IOsegment = Segments /\ group \in GroupType
      /\ group.inputs = group.Obytes /\ LogAddr \in Nat
  BY DEF ImageInv, SegInv, GroupInv, MapInv, LoopOK
<1>2. /\ Segments \in Sizes /\ Len(Segments) = Len(closed) + 1 /\ Len(closed) \in Nat
  BY <1>1, AppendSizes, Zenon DEF Segments
<1>3. Total(group.IOsegment) = LogAddr
  BY ImageIsCovered DEF SegmentsCover
<1>4. Len(group.IOsegment) # 0 /\ group.IOsegment \in Sizes
  BY <1>1, <1>2
<1>5. /\ group.Obytes \in Nat /\ group.Ibytes \in Nat /\ group.Isegment \in Nat /\ group.Ioffset \in Nat
  BY <1>1, GroupFields, Zenon
<1>6. CASE overlap
  <2>1. /\ group.Isegment = 0 /\ group.Ioffset = 0
        /\ group.Obytes <= LogAddr /\ group.Ibytes <= LogAddr
        /\ LogAddr = group.Obytes \/ LogAddr = group.Ibytes
    BY <1>6 DEF ImageInv, GroupInv, Together
  <2>2. LogAddr = bigger
    BY <1>1, <1>5, <2>1 DEF bigger
  <2>3. group.IOsegment[0 + 1] \in Nat /\ 0 < Len(group.IOsegment)
    BY <1>1, <1>2, SizesType
  <2>4. 0 <= group.IOsegment[0 + 1]
    BY <2>3
  <2>5. QED
    BY <1>1, <1>3, <1>4, <1>5, <1>6, <2>1, <2>2, <2>3, <2>4, Zenon
<1>7. CASE ~ overlap
  <2>1. InputsStart /\ group.Obytes <= LogAddr /\ group.Ibytes = LogAddr - group.Obytes
    BY <1>7 DEF ImageInv, SegInv, GroupInv, Behind
  <2>2. LogAddr = group.Obytes + group.Ibytes
    BY <1>1, <1>5, <2>1
  <2>3. group.Isegment \in 0 .. Len(closed)
    BY <2>1 DEF InputsStart
  <2>4. group.Isegment < Len(group.IOsegment)
    BY <1>1, <1>2, <2>3
  <2>5. /\ group.Ioffset <= group.IOsegment[group.Isegment + 1]
        /\ Total(SubSeq(group.IOsegment, 1, group.Isegment)) + group.Ioffset = group.Obytes
    BY <1>1, <2>1 DEF InputsStart
  <2>6. QED
    BY <1>1, <1>3, <1>4, <1>5, <1>7, <2>2, <2>4, <2>5, Zenon
<1>8. QED
  BY <1>6, <1>7

LEMMA LrwDivided ==
    ASSUME ImageInv, SmallImage, phase = "mapped"
    PROVE  Divided(LrwDatagrams, "LRW", 0, 0, IF overlap THEN group.Obytes ELSE 0, LogAddr)
<1>1. /\ group.IOsegment \in Sizes /\ Len(group.IOsegment) # 0
      /\ Total(group.IOsegment) = LogAddr /\ LogAddr \in Nat
      /\ group.Obytes \in Nat /\ group.inputs = group.Obytes
      /\ LogAddr = IF overlap THEN bigger ELSE group.Obytes + group.Ibytes
  BY MappedImage
<1> DEFINE to == IF overlap THEN group.Obytes ELSE 0
           data == IF group.Obytes > 0 THEN 0 ELSE group.inputs
           offset == IF overlap /\ group.Obytes > 0 THEN group.Obytes ELSE 0
<1>2. data = 0 /\ data + offset = to /\ to \in Nat
  BY <1>1
<1>3. LrwDatagrams = Datagrams("LRW", group.IOsegment, LogAddr, 0, data, data + offset)
  BY <1>1, Zenon DEF LrwDatagrams
<1>4. LrwDatagrams = Datagrams("LRW", group.IOsegment, LogAddr, 0, 0, to)
  BY <1>2, <1>3, Zenon
<1>5. 0 \in Nat
  OBVIOUS
<1> HIDE DEF to
<1>6. LogAddr <= Total(group.IOsegment)
  BY <1>1
<1>7. Divided(Datagrams("LRW", group.IOsegment, LogAddr, 0, 0, to), "LRW", 0, 0, to, LogAddr)
  BY <1>1, <1>2, <1>5, <1>6, DatagramsDivide, Zenon
<1>8. QED
  BY <1>4, <1>7, Zenon DEF to

LEMMA OutputsDivided ==
    ASSUME ImageInv, SmallImage, phase = "mapped", group.Obytes # 0
    PROVE  Divided(OutputDatagrams, "LWR", 0, 0, 0, group.Obytes)
<1>1. /\ group.IOsegment \in Sizes /\ Len(group.IOsegment) # 0 /\ group.Obytes \in Nat
  BY MappedImage
<1> DEFINE n == CutTurns(group.IOsegment, group.Obytes)
           sizes == [SubSeq(group.IOsegment, 1, n) EXCEPT
                          ![n] = group.Obytes - Total(SubSeq(group.IOsegment, 1, n - 1))]
<1>2. sizes \in Sizes /\ Len(sizes) # 0 /\ Total(sizes) = group.Obytes
  BY <1>1, CutBack
<1>3. OutputDatagrams = Datagrams("LWR", sizes, group.Obytes, 0, 0, 0)
  BY Zenon DEF OutputDatagrams
<1>4. 0 \in Nat
  OBVIOUS
<1> HIDE DEF sizes
<1>5. group.Obytes <= Total(sizes)
  BY <1>1, <1>2
<1>6. Divided(Datagrams("LWR", sizes, group.Obytes, 0, 0, 0), "LWR", 0, 0, 0, group.Obytes)
  BY <1>1, <1>2, <1>4, <1>5, DatagramsDivide, Zenon
<1>7. QED
  BY <1>3, <1>6, Zenon

FrontCut(s, k, off) ==
    LET t == [SubSeq(s, k + 1, Len(s)) EXCEPT ![1] = @ - off]
    IN /\ t \in Sizes /\ Len(t) # 0
       /\ Total(t) + Total(SubSeq(s, 1, k)) + off = Total(s)
       /\ Total(t) \in Nat /\ Total(SubSeq(s, 1, k)) \in Nat

LEMMA FrontCutHolds ==
    ASSUME NEW s \in Sizes, NEW k \in Nat, k < Len(s), NEW off \in Nat, off <= s[k + 1]
    PROVE  FrontCut(s, k, off)
BY CutFront DEF FrontCut

LEMMA InputsDivided ==
    ASSUME ImageInv, SmallImage, phase = "mapped", group.Ibytes # 0
    PROVE  /\ ~ overlap => Divided(InputDatagrams, "LRD", group.Obytes, group.Obytes, group.Obytes, group.Ibytes)
           /\ overlap => \A i \in DOMAIN InputDatagrams :
                /\ Datagram(InputDatagrams, i, "LRD", group.Obytes, group.Obytes, group.Obytes)
                /\ InputDatagrams[i].log + InputDatagrams[i].len <= group.Obytes + LogAddr
<1>1. /\ group.IOsegment \in Sizes /\ Len(group.IOsegment) # 0
      /\ Total(group.IOsegment) = LogAddr /\ LogAddr \in Nat
      /\ group.Obytes \in Nat /\ group.Ibytes \in Nat /\ group.inputs = group.Obytes
      /\ group.Isegment \in Nat /\ group.Isegment < Len(group.IOsegment)
      /\ group.Ioffset \in Nat /\ group.Ioffset <= group.IOsegment[group.Isegment + 1]
      /\ IF overlap
           THEN /\ LogAddr = bigger /\ group.Isegment = 0 /\ group.Ioffset = 0
           ELSE /\ LogAddr = group.Obytes + group.Ibytes
                /\ Total(SubSeq(group.IOsegment, 1, group.Isegment)) + group.Ioffset = group.Obytes
  BY MappedImage
<1> DEFINE s == group.IOsegment
           k == group.Isegment
           off == group.Ioffset
           t == [SubSeq(s, k + 1, Len(s)) EXCEPT ![1] = @ - off]
<1>2. /\ t \in Sizes /\ Len(t) # 0 /\ Total(t) + Total(SubSeq(s, 1, k)) + off = LogAddr
      /\ Total(t) \in Nat /\ Total(SubSeq(s, 1, k)) \in Nat
  <2>1. FrontCut(s, k, off)
    BY <1>1, FrontCutHolds, Zenon
  <2>2. QED
    BY <1>1, <2>1, Zenon DEF FrontCut
<1>3. InputDatagrams = Datagrams("LRD", t, group.Ibytes, group.Obytes, group.Obytes, group.Obytes)
  BY <1>1, Zenon DEF InputDatagrams
<1> HIDE DEF t
<1>4. CASE ~ overlap
  <2>1. Total(t) = group.Ibytes
    <3> HIDE DEF s, k, off
    <3>1. Total(SubSeq(s, 1, k)) + off = group.Obytes /\ LogAddr = group.Obytes + group.Ibytes /\ off \in Nat
      BY <1>1, <1>4 DEF s, k, off
    <3>2. QED
      BY <1>1, <1>2, <3>1
  <2>2. group.Ibytes <= Total(t)
    BY <1>1, <2>1
  <2>3. Divided(Datagrams("LRD", t, group.Ibytes, group.Obytes, group.Obytes, group.Obytes),
                "LRD", group.Obytes, group.Obytes, group.Obytes, group.Ibytes)
    BY <1>1, <1>2, <2>1, <2>2, DatagramsDivide, Zenon
  <2>4. QED
    BY <1>3, <1>4, <2>3, Zenon
<1>5. CASE overlap
  <2>1. Total(t) = LogAddr
    <3>1. k = 0 /\ off = 0
      BY <1>1, <1>5
    <3>2. SubSeq(s, 1, 0) = <<>>
      BY <1>1 DEF Sizes
    <3>3. Total(SubSeq(s, 1, k)) = 0
      BY <3>1, <3>2, TotalNone
    <3>4. QED
      BY <1>2, <3>1, <3>3
  <2>2. group.Ibytes <= Total(t)
    BY <1>1, <1>5, <2>1 DEF bigger
  <2>3. \A i \in DOMAIN Datagrams("LRD", t, group.Ibytes, group.Obytes, group.Obytes, group.Obytes) :
          /\ Datagram(Datagrams("LRD", t, group.Ibytes, group.Obytes, group.Obytes, group.Obytes), i,
                      "LRD", group.Obytes, group.Obytes, group.Obytes)
          /\ Datagrams("LRD", t, group.Ibytes, group.Obytes, group.Obytes, group.Obytes)[i].log
               + Datagrams("LRD", t, group.Ibytes, group.Obytes, group.Obytes, group.Obytes)[i].len
                 <= group.Obytes + LogAddr
    BY <1>1, <1>2, <2>1, <2>2, DatagramsDivide, Zenon
  <2>4. QED
    BY <1>3, <1>5, <2>3, Zenon
<1>6. QED
  BY <1>4, <1>5

FrameRecord == [cmd : {"LRD", "LWR", "LRW"}, log : Nat, from : Nat, to : Nat, len : Nat]
Frames == Seq(FrameRecord)

LEMMA DatagramsType ==
    ASSUME NEW s \in Sizes, Len(s) # 0, NEW cmd \in {"LRD", "LWR", "LRW"}, NEW length \in Nat,
           NEW log \in Nat, NEW from \in Nat, NEW to \in Nat
    PROVE  Datagrams(cmd, s, length, log, from, to) \in Frames
<1> DEFINE n == Turns(s, length)
           F == [i \in 1 .. n |->
                   [cmd |-> cmd, log |-> log + Total(SubSeq(s, 1, i - 1)),
                    from |-> from + Total(SubSeq(s, 1, i - 1)),
                    to |-> to + Total(SubSeq(s, 1, i - 1)), len |-> s[i]]]
<1>1. PICK P : Sums(Len(s), s, P) /\ Total(s) = P[Len(s)]
  BY TotalIsSum DEF Sizes
<1>2. Len(s) \in Nat /\ s \in [1 .. Len(s) -> Nat] /\ n \in 1 .. Len(s)
  BY <1>1, SizesType, TurnsTaken
<1>3. Datagrams(cmd, s, length, log, from, to) = F
  BY Zenon DEF Datagrams
<1>4. ASSUME NEW i \in 1 .. n PROVE F[i] \in FrameRecord
  <2> DEFINE off == Total(SubSeq(s, 1, i - 1))
  <2>1. i \in 1 .. Len(s) /\ i - 1 \in 0 .. Len(s) /\ SubSeq(s, 1, i - 1) \in Sizes
    BY <1>2 DEF Sizes
  <2>2. off \in Nat
    BY <2>1, TotalType
  <2>3. s[i] \in Nat
    BY <1>2, <2>1
  <2>4. F[i] = [cmd |-> cmd, log |-> log + off, from |-> from + off, to |-> to + off, len |-> s[i]]
    BY Zenon
  <2> HIDE DEF off, F
  <2>5. log + off \in Nat /\ from + off \in Nat /\ to + off \in Nat
    BY <2>2
  <2>6. QED
    BY <2>3, <2>4, <2>5 DEF FrameRecord
<1>5. n \in Nat /\ F = [i \in 1 .. n |-> F[i]]
  BY <1>2
<1> HIDE DEF F
<1>6. F \in Seq(FrameRecord)
  BY <1>4, <1>5
<1>7. QED
  BY <1>3, <1>6 DEF Frames

LEMMA AllDatagramsType ==
    ASSUME ImageInv, SmallImage, phase = "mapped"
    PROVE  /\ LrwDatagrams \in Frames
           /\ InputDatagrams \in Frames
           /\ OutputDatagrams \in Frames
           /\ AllDatagrams \in Frames
<1>1. /\ group.IOsegment \in Sizes /\ Len(group.IOsegment) # 0 /\ LogAddr \in Nat
      /\ group.Obytes \in Nat /\ group.Ibytes \in Nat /\ group.inputs = group.Obytes
      /\ group.Isegment \in Nat /\ group.Isegment < Len(group.IOsegment)
      /\ group.Ioffset \in Nat /\ group.Ioffset <= group.IOsegment[group.Isegment + 1]
  BY MappedImage
<1>2. <<>> \in Frames /\ 0 \in Nat
  BY DEF Frames
<1>3. LrwDatagrams \in Frames
  <2> DEFINE length == IF overlap THEN bigger ELSE group.Obytes + group.Ibytes
             data == IF group.Obytes > 0 THEN 0 ELSE group.inputs
             offset == IF overlap /\ group.Obytes > 0 THEN group.Obytes ELSE 0
  <2>1. length \in Nat /\ data \in Nat /\ data + offset \in Nat
    BY <1>1 DEF bigger
  <2>2. LrwDatagrams = Datagrams("LRW", group.IOsegment, length, 0, data, data + offset)
    BY Zenon DEF LrwDatagrams
  <2>3. "LRW" \in {"LRD", "LWR", "LRW"}
    OBVIOUS
  <2> HIDE DEF length, data, offset
  <2>4. QED
    BY <1>1, <1>2, <2>1, <2>2, <2>3, DatagramsType, Zenon
<1>4. InputDatagrams \in Frames
  <2>1. CASE group.Ibytes = 0
    BY <1>2, <2>1, Zenon DEF InputDatagrams
  <2>2. CASE group.Ibytes # 0
    <3> DEFINE t == [SubSeq(group.IOsegment, group.Isegment + 1, Len(group.IOsegment))
                       EXCEPT ![1] = @ - group.Ioffset]
    <3>1. t \in Sizes /\ Len(t) # 0
      BY <1>1, CutFront
    <3>2. InputDatagrams = Datagrams("LRD", t, group.Ibytes, group.Obytes, group.inputs, group.inputs)
      BY <2>2, Zenon DEF InputDatagrams
    <3>3. "LRD" \in {"LRD", "LWR", "LRW"} /\ group.inputs \in Nat
      BY <1>1
    <3> HIDE DEF t
    <3>4. QED
      BY <1>1, <3>1, <3>2, <3>3, DatagramsType, Zenon
  <2>3. QED
    BY <2>1, <2>2
<1>5. OutputDatagrams \in Frames
  <2>1. CASE group.Obytes = 0
    BY <1>2, <2>1, Zenon DEF OutputDatagrams
  <2>2. CASE group.Obytes # 0
    <3> DEFINE n == CutTurns(group.IOsegment, group.Obytes)
               sizes == [SubSeq(group.IOsegment, 1, n) EXCEPT
                           ![n] = group.Obytes - Total(SubSeq(group.IOsegment, 1, n - 1))]
    <3>1. sizes \in Sizes /\ Len(sizes) # 0
      BY <1>1, <2>2, CutBack
    <3>2. OutputDatagrams = Datagrams("LWR", sizes, group.Obytes, 0, 0, 0)
      BY <2>2, Zenon DEF OutputDatagrams
    <3>3. "LWR" \in {"LRD", "LWR", "LRW"}
      OBVIOUS
    <3> HIDE DEF sizes
    <3>4. QED
      BY <1>1, <1>2, <3>1, <3>2, <3>3, DatagramsType, Zenon
  <2>3. QED
    BY <2>1, <2>2
<1>6. InputDatagrams \o OutputDatagrams \in Frames
  BY <1>4, <1>5 DEF Frames
<1>7. QED
  BY <1>2, <1>3, <1>4, <1>5, <1>6, Zenon DEF AllDatagrams

\* Every datagram of two lists in a row is a datagram of one of them.
LEMMA InARow ==
    ASSUME NEW F \in Frames, NEW G \in Frames
    PROVE  /\ DOMAIN (F \o G) = 1 .. Len(F \o G) /\ Len(F \o G) = Len(F) + Len(G)
           /\ DOMAIN F = 1 .. Len(F) /\ DOMAIN G = 1 .. Len(G) /\ Len(F) \in Nat /\ Len(G) \in Nat
           /\ \A i \in DOMAIN (F \o G) :
                IF i <= Len(F) THEN i \in DOMAIN F /\ (F \o G)[i] = F[i]
                               ELSE i - Len(F) \in DOMAIN G /\ (F \o G)[i] = G[i - Len(F)]
BY DEF Frames

--------------------------------------------------------------------------------
(* The answers stay in the image. *)

\* With overlap the inputs reach as far as the outputs.
InputsReachOutputs == overlap => group.Obytes <= group.Ibytes
IoBytes == group.Obytes + group.Ibytes
SentInv ==
    /\ pulled \in Nat /\ cycle \in Nat /\ stage \in {"idle", "sent"}
    /\ cycle = 0 => stage = "idle" /\ image = <<>>
    /\ cycle > 0 => phase = "mapped" /\ frames = AllDatagrams

LEMMA InitSentInv ==
    ASSUME ExchangeInit
    PROVE  SentInv
BY DEF ExchangeInit, SentInv

LEMMA NextSentInv ==
    ASSUME SentInv, [ExchangeNext]_allVars
    PROVE  SentInv'
<1>1. CASE MapFirst
  <2>1. phase # "mapped" /\ UNCHANGED exchangeVars
    BY <1>1 DEF MapFirst, MapStep, MapOutput, CloseOutputs, MapInput, CloseInputs, MapOverlap, CloseOverlap
  <2>2. QED
    BY <2>1 DEF SentInv, exchangeVars
<1>2. ASSUME UNCHANGED vars PROVE AllDatagrams' = AllDatagrams /\ phase' = phase
  <2>1. group' = group /\ overlap' = overlap /\ phase' = phase
    BY <1>2 DEF vars
  <2>2. QED
    BY <2>1 DEF AllDatagrams, InputDatagrams, OutputDatagrams, LrwDatagrams, bigger
<1>3. CASE SendProcessData
  <2>1. /\ phase = "mapped" /\ UNCHANGED vars /\ frames' = AllDatagrams /\ stage' = "sent"
        /\ cycle' = cycle + 1 /\ pulled' = 0
    BY <1>3 DEF SendProcessData
  <2>2. cycle' \in Nat /\ cycle' # 0
    BY <2>1 DEF SentInv
  <2>3. QED
    BY <1>2, <2>1, <2>2 DEF SentInv
<1>4. CASE FrameBack \/ FrameMissing
  <2>1. /\ stage = "sent" /\ UNCHANGED <<vars, stage, cycle, frames>> /\ pulled' = pulled + 1
    BY <1>4 DEF FrameBack, FrameMissing
  <2>2. cycle # 0
    BY <2>1 DEF SentInv
  <2>3. QED
    BY <1>2, <2>1, <2>2 DEF SentInv
<1>5. CASE ReceiveDone
  <2>1. /\ stage = "sent" /\ stage' = "idle" /\ UNCHANGED <<vars, cycle, frames, image>> /\ pulled' = 0
    BY <1>5 DEF ReceiveDone
  <2>2. QED
    BY <1>2, <2>1 DEF SentInv
<1>6. CASE UNCHANGED allVars
  <2>1. UNCHANGED vars /\ UNCHANGED <<stage, cycle, frames, pulled, image>>
    BY <1>6 DEF allVars, exchangeVars
  <2>2. QED
    BY <1>2, <2>1 DEF SentInv
<1>7. QED
  BY <1>1, <1>3, <1>4, <1>5, <1>6 DEF ExchangeNext, Exchange, Ended

\* No datagram that brings bytes back reaches behind the image.
LEMMA DatagramsFit ==
    ASSUME ImageInv, SmallImage, InputsReachOutputs, phase = "mapped",
           NEW i \in DOMAIN AllDatagrams, AllDatagrams[i].cmd # "LWR"
    PROVE  AllDatagrams[i].to + AllDatagrams[i].len <= IoBytes
<1> DEFINE O == group.Obytes
           I == group.Ibytes
<1>1. /\ O \in Nat /\ I \in Nat /\ LogAddr \in Nat
      /\ LogAddr = IF overlap THEN bigger ELSE O + I
  BY MappedImage
<1>2. overlap => LogAddr = I
  BY <1>1 DEF InputsReachOutputs, bigger
<1>3. AllDatagrams \in Frames /\ InputDatagrams \in Frames /\ OutputDatagrams \in Frames
  BY AllDatagramsType
<1>4. O + I # 0
  <2> SUFFICES ASSUME O + I = 0 PROVE FALSE
    OBVIOUS
  <2>1. AllDatagrams = <<>>
    BY DEF AllDatagrams
  <2>2. QED
    BY <2>1
<1>5. CASE ~ group.blockLRW
  <2>1. AllDatagrams = LrwDatagrams
    BY <1>4, <1>5 DEF AllDatagrams
  <2> DEFINE to == IF overlap THEN O ELSE 0
             f == AllDatagrams[i]
  <2>2. Divided(AllDatagrams, "LRW", 0, 0, to, LogAddr)
    BY <2>1, LrwDivided
  <2>3. f.log \in Nat /\ f.len \in Nat /\ f.to \in Nat /\ f.to + 0 = f.log + to /\ f.log + f.len <= 0 + LogAddr
    BY <2>2, Zenon DEF Divided, Datagram
  <2>4. to \in Nat /\ to + LogAddr = O + I
    BY <1>1, <1>2
  <2> HIDE DEF f, to, O, I
  <2>5. f.to + f.len <= O + I
    BY <1>1, <2>3, <2>4
  <2>6. QED
    BY <2>5 DEF f, O, I, IoBytes
<1>6. CASE group.blockLRW
  <2>1. AllDatagrams = InputDatagrams \o OutputDatagrams
    BY <1>4, <1>6 DEF AllDatagrams
  <2> DEFINE F == InputDatagrams
             G == OutputDatagrams
  <2>2. i \in DOMAIN (F \o G)
    BY <2>1
  <2>3. CASE i \in DOMAIN F /\ AllDatagrams[i] = F[i]
    <3>1. I # 0
      <4> SUFFICES ASSUME I = 0 PROVE FALSE
        OBVIOUS
      <4>1. F = <<>>
        BY DEF InputDatagrams
      <4>2. QED
        BY <2>3, <4>1
    <3> DEFINE f == F[i]
    <3>2. /\ f.log \in Nat /\ f.len \in Nat /\ f.to \in Nat /\ f.to + O = f.log + O
          /\ f.log + f.len <= O + I
      <4>1. CASE ~ overlap
        <5>1. Divided(F, "LRD", O, O, O, I)
          BY <3>1, <4>1, InputsDivided
        <5>2. QED
          BY <2>3, <5>1, Zenon DEF Divided, Datagram
      <4>2. CASE overlap
        <5>1. Datagram(F, i, "LRD", O, O, O) /\ f.log + f.len <= O + LogAddr
          BY <2>3, <3>1, <4>2, InputsDivided
        <5>2. QED
          BY <1>2, <4>2, <5>1, Zenon DEF Datagram
      <4>3. QED
        BY <4>1, <4>2
    <3> HIDE DEF f, O, I
    <3>3. f.to + f.len <= O + I
      BY <1>1, <3>2
    <3>4. QED
      BY <2>3, <3>3, Zenon DEF f, O, I, IoBytes
  <2>4. CASE i - Len(F) \in DOMAIN G /\ AllDatagrams[i] = G[i - Len(F)]
    <3>1. O # 0
      <4> SUFFICES ASSUME O = 0 PROVE FALSE
        OBVIOUS
      <4>1. G = <<>>
        BY DEF OutputDatagrams
      <4>2. QED
        BY <2>4, <4>1
    <3>2. Divided(G, "LWR", 0, 0, 0, O)
      BY <3>1, OutputsDivided
    <3>3. AllDatagrams[i].cmd = "LWR"
      BY <2>4, <3>2, Zenon DEF Divided, Datagram
    <3>4. QED
      BY <3>3
  <2>5. QED
    BY <1>3, <2>1, <2>2, <2>3, <2>4, InARow, ZenonT(60)
<1>7. QED
  BY <1>5, <1>6

StayInv == SmallImage /\ InputsReachOutputs => StaysInImage

LEMMA NextStayInv ==
    ASSUME ImageInv, SentInv, SentInv', StayInv, [ExchangeNext]_allVars
    PROVE  StayInv'
<1>1. CASE cycle' = 0
  <2>1. image' = <<>>
    BY <1>1 DEF SentInv
  <2>2. StaysInImage'
    BY <2>1 DEF StaysInImage
  <2>3. QED
    BY <2>2 DEF StayInv
<1> DEFINE Fits(im) == \A b \in DOMAIN im : im[b] # NoByte => b < IoBytes
<1>2. CASE cycle' # 0
  <2>1. phase' = "mapped"
    BY <1>2 DEF SentInv
  <2>2. UNCHANGED vars
    <3>1. CASE MapFirst
      <4>1. phase # "mapped" /\ cycle' = cycle
        BY <3>1 DEF MapFirst, exchangeVars, MapStep, MapOutput, CloseOutputs, MapInput, CloseInputs,
                    MapOverlap, CloseOverlap
      <4>2. QED
        BY <1>2, <4>1 DEF SentInv
    <3>2. QED
      BY <3>1 DEF ExchangeNext, Exchange, Ended, SendProcessData, FrameBack, FrameMissing, ReceiveDone, allVars
  <2>3. group' = group /\ overlap' = overlap /\ LogAddr' = LogAddr
    BY <2>2 DEF vars
  <2>4. StaysInImage' <=> Fits(image')
    BY <2>3 DEF StaysInImage, IoBytes
  <2> SUFFICES ASSUME SmallImage, InputsReachOutputs PROVE Fits(image')
    BY <2>3, <2>4 DEF StayInv, SmallImage, InputsReachOutputs
  <2>5. Fits(image)
    BY DEF StayInv, StaysInImage, IoBytes
  <2>6. CASE SendProcessData
    <3>1. image' = [b \in ImageBytes |-> NoByte]
      BY <2>6 DEF SendProcessData
    <3>2. QED
      BY <3>1
  <2>7. CASE FrameBack
    <3>1. stage = "sent" /\ pulled < pushed
      BY <2>7 DEF FrameBack
    <3>2. phase = "mapped" /\ frames = AllDatagrams
      BY <3>1 DEF SentInv
    <3>3. frames \in Frames
      BY <3>2, AllDatagramsType
    <3>4. pulled + 1 \in DOMAIN frames
      <4>1. Len(frames) \in Nat /\ DOMAIN frames = 1 .. Len(frames)
        BY <3>3 DEF Frames
      <4>2. pushed <= Len(frames) /\ pushed \in Nat
        BY <4>1, BufAssumption DEF pushed
      <4>3. pulled \in Nat
        BY DEF SentInv
      <4>4. QED
        BY <3>1, <4>1, <4>2, <4>3
    <3> DEFINE f == frames[pulled + 1]
    <3>5. PICK S \in SUBSET Slave : image' = CopyBack(f, S)
      BY <2>7 DEF FrameBack
    <3>6. f \in FrameRecord
      BY <3>3, <3>4 DEF Frames
    <3>7. f.to \in Nat /\ f.len \in Nat
      BY <3>6 DEF FrameRecord
    <3>8. f.cmd # "LWR" => f.to + f.len <= IoBytes
      BY <3>2, <3>4, DatagramsFit
    <3> HIDE DEF f
    <3>9. CASE f.cmd = "LWR"
      BY <2>5, <3>5, <3>9 DEF CopyBack
    <3>10. CASE f.cmd # "LWR"
      <4>1. image' = [b \in DOMAIN image |-> IF b \in f.to .. f.to + f.len - 1
                                             THEN <<f.log + b - f.to, S>> ELSE image[b]]
        BY <3>5, <3>10, Zenon DEF CopyBack
      <4>2. IoBytes \in Nat
        BY <3>2, MappedImage DEF IoBytes
      <4>3. \A b \in f.to .. f.to + f.len - 1 : b < IoBytes
        BY <3>7, <3>8, <3>10, <4>2
      <4>4. QED
        BY <2>5, <4>1, <4>3
    <3>11. QED
      BY <3>9, <3>10
  <2>8. CASE image' = image
    BY <2>5, <2>8
  <2>9. QED
    BY <2>6, <2>7, <2>8 DEF ExchangeNext, Exchange, Ended, MapFirst, FrameMissing, ReceiveDone,
                            allVars, exchangeVars
<1>3. QED
  BY <1>1, <1>2

\* Receive writes nothing but the Obytes + Ibytes that config_map returned as the
\* size of the IOmap (ecx_receive_processdata_group), as long as an overlapping
\* map has at least as many inputs as outputs.
THEOREM AnswersStayInImage ==
    ASSUME RealNetworks, SlavesFit
    PROVE  ExchangeSpec => [](SmallImage /\ InputsReachOutputs => StaysInImage)
<1>1. ExchangeInit => SentInv /\ StayInv
  <2>1. ExchangeInit => StayInv
    BY DEF ExchangeInit, StayInv, StaysInImage
  <2>2. QED
    BY <2>1, InitSentInv
<1>2. ImageInv /\ SentInv /\ StayInv /\ [ExchangeNext]_allVars => SentInv' /\ StayInv'
  BY NextSentInv, NextStayInv
<1>3. ExchangeSpec => []ImageInv
  BY ImageInvariant, ExchangeMaps, PTL
<1>4. StayInv => (SmallImage /\ InputsReachOutputs => StaysInImage)
  BY DEF StayInv
<1>5. QED
  BY <1>1, <1>2, <1>3, <1>4, PTL DEF ExchangeSpec

--------------------------------------------------------------------------------
(* Every byte of a slave travels in a datagram that reads or writes it. *)

\* Where the image holds an input byte, from its logical address on.
Back == IF overlap THEN group.Obytes ELSE 0
Serves(f, d) == IF d = "in" THEN f.cmd # "LWR" ELSE f.cmd # "LRD"
Straight(F) ==
    /\ \A i \in DOMAIN F : F[i].from = F[i].log /\ (F[i].cmd # "LWR" => F[i].to = F[i].log + Back)
    /\ \A d \in Dirs, i, j \in DOMAIN F :
         i # j /\ Serves(F[i], d) /\ Serves(F[j], d) => BytesOf(F[i]) \cap BytesOf(F[j]) = {}
Serving(F) ==
    \A s \in Slave, d \in Dirs : \A b \in FmmuBytes(s, d) :
        \E i \in DOMAIN F : Serves(F[i], d) /\ b \in BytesOf(F[i])

LEMMA BytesPlaced ==
    ASSUME MapInv, NEW s \in Slave, NEW d \in Dirs, NEW log \in Nat, NEW end \in Nat,
           Placed(s, d, log, 0, end, 0)
    PROVE  FmmuBytes(s, d) \subseteq log .. end - 1
<1> SUFFICES ASSUME NEW f \in ToSet(fmmu[s][d]), NEW b \in f.LogStart .. f.LogStart + f.LogLength - 1
             PROVE  b \in log .. end - 1
  BY DEF FmmuBytes
<1>1. fmmu[s][d] \in Seq(Fmmu)
  BY DEF MapInv, FmmuOK, Fmmus
<1>2. PICK i \in 1 .. Len(fmmu[s][d]) : f = fmmu[s][d][i]
  BY <1>1 DEF ToSet
<1>3. f \in Fmmu
  BY <1>1, <1>2
<1>4. log <= f.LogStart /\ f.LogStart + f.LogLength <= end
  <2>1. ByteEnd(end, 0) = end
    BY DEF ByteEnd
  <2>2. QED
    BY <1>2, <2>1 DEF Placed, Between
<1>5. f.LogStart \in Nat /\ f.LogLength \in Nat
  BY <1>3 DEF Fmmu
<1>6. QED
  BY <1>4, <1>5

LEMMA BytesOfSlave ==
    ASSUME ImageInv, SmallImage, phase = "mapped", NEW s \in Slave
    PROVE  /\ FmmuBytes(s, "out") \subseteq 0 .. group.Obytes - 1
           /\ ~ overlap => FmmuBytes(s, "in") \subseteq group.Obytes .. group.Obytes + group.Ibytes - 1
           /\ FmmuBytes(s, "in") \subseteq 0 .. LogAddr - 1
           /\ FmmuBytes(s, "out") \subseteq 0 .. LogAddr - 1
<1>1. /\ group.Obytes \in Nat /\ group.Ibytes \in Nat /\ LogAddr \in Nat /\ MapInv /\ 0 \in Nat
      /\ ~ overlap => LogAddr = group.Obytes + group.Ibytes
  BY MappedImage DEF ImageInv
<1>2. "out" \in Dirs /\ "in" \in Dirs /\ BitPos = 0
  BY DEF Dirs, ImageInv, MapInv, LoopOK
<1>3. Placed(s, "out", 0, 0, group.Obytes, 0)
  BY DEF ImageInv, GroupInv, Together, Behind
<1>4. ~ overlap => Placed(s, "in", group.Obytes, 0, group.Obytes + group.Ibytes, 0)
  BY <1>1, <1>2 DEF ImageInv, GroupInv, Behind
<1>5. Placed(s, "in", 0, 0, LogAddr, 0) /\ Placed(s, "out", 0, 0, LogAddr, 0)
  BY <1>2 DEF ImageInv, MapInv, AllPlaced
<1>6. group.Obytes + group.Ibytes \in Nat
  BY <1>1
<1>7. FmmuBytes(s, "out") \subseteq 0 .. group.Obytes - 1
  BY <1>1, <1>2, <1>3, BytesPlaced, Zenon
<1>8. ~ overlap => FmmuBytes(s, "in") \subseteq group.Obytes .. group.Obytes + group.Ibytes - 1
  <2>1. ~ overlap => FmmuBytes(s, "in") \subseteq group.Obytes .. (group.Obytes + group.Ibytes) - 1
    BY <1>1, <1>2, <1>4, <1>6, BytesPlaced, Zenon
  <2>2. (group.Obytes + group.Ibytes) - 1 = group.Obytes + group.Ibytes - 1
    BY <1>1
  <2>3. QED
    BY <2>1, <2>2, Zenon
<1>9. FmmuBytes(s, "in") \subseteq 0 .. LogAddr - 1 /\ FmmuBytes(s, "out") \subseteq 0 .. LogAddr - 1
  BY <1>1, <1>2, <1>5, BytesPlaced, Zenon
<1>10. QED
  BY <1>7, <1>8, <1>9, Zenon

LEMMA DivisionIsStraight ==
    ASSUME NEW F \in Frames, NEW cmd, NEW log \in Nat, NEW to \in Nat, NEW length \in Nat,
           Divided(F, cmd, log, log, to, length), cmd # "LWR" => to = log + Back, Back \in Nat
    PROVE  \A i \in DOMAIN F : /\ F[i].cmd = cmd /\ F[i].from = F[i].log
                               /\ F[i].cmd # "LWR" => F[i].to = F[i].log + Back
<1> SUFFICES ASSUME NEW i \in DOMAIN F
             PROVE  /\ F[i].cmd = cmd /\ F[i].from = F[i].log
                    /\ F[i].cmd # "LWR" => F[i].to = F[i].log + Back
  OBVIOUS
<1> DEFINE f == F[i]
<1>1. /\ f.cmd = cmd /\ f.log \in Nat /\ f.len \in Nat /\ f.to \in Nat /\ f.from \in Nat
      /\ f.to + log = f.log + to /\ f.from + log = f.log + log
  BY Zenon DEF Divided, Datagram
<1> HIDE DEF f
<1>2. f.from = f.log
  BY <1>1
<1>3. to = log + Back => f.to = f.log + Back
  BY <1>1
<1>4. QED
  BY <1>1, <1>2, <1>3, Zenon DEF f

LEMMA LrwServes ==
    ASSUME ImageInv, SmallImage, phase = "mapped"
    PROVE  Straight(LrwDatagrams) /\ Serving(LrwDatagrams)
<1> DEFINE F == LrwDatagrams
<1>1. /\ group.Obytes \in Nat /\ LogAddr \in Nat /\ F \in Frames /\ 0 \in Nat /\ Back \in Nat /\ Back = 0 + Back
  BY MappedImage, AllDatagramsType DEF Back
<1>2. Divided(F, "LRW", 0, 0, Back, LogAddr)
  BY LrwDivided, Zenon DEF Back
<1>3. \A i \in DOMAIN F : /\ F[i].cmd = "LRW" /\ F[i].from = F[i].log
                          /\ F[i].cmd # "LWR" => F[i].to = F[i].log + Back
  BY <1>1, <1>2, DivisionIsStraight, Zenon
<1>4. Straight(F)
  BY <1>2, <1>3, Zenon DEF Straight, Divided
<1>5. Serving(F)
  <2> SUFFICES ASSUME NEW s \in Slave, NEW d \in Dirs, NEW b \in FmmuBytes(s, d)
               PROVE  \E i \in DOMAIN F : Serves(F[i], d) /\ b \in BytesOf(F[i])
    BY DEF Serving
  <2>1. b \in 0 .. LogAddr - 1
    BY BytesOfSlave DEF Dirs
  <2>2. b \in 0 .. 0 + LogAddr - 1
    BY <1>1, <2>1
  <2>3. PICK i \in DOMAIN F : b \in BytesOf(F[i])
    BY <1>2, <2>2, Zenon DEF Divided
  <2>4. Serves(F[i], d)
    BY <1>3 DEF Serves
  <2>5. QED
    BY <2>3, <2>4
<1>6. QED
  BY <1>4, <1>5

LEMMA RowServes ==
    ASSUME ImageInv, SmallImage, phase = "mapped", ~ overlap
    PROVE  Straight(InputDatagrams \o OutputDatagrams) /\ Serving(InputDatagrams \o OutputDatagrams)
<1> DEFINE F == InputDatagrams
           G == OutputDatagrams
           H == F \o G
           O == group.Obytes
           I == group.Ibytes
<1>1. /\ O \in Nat /\ I \in Nat /\ F \in Frames /\ G \in Frames /\ 0 \in Nat
      /\ Back = 0 /\ Back \in Nat /\ O = O + Back /\ O + I \in Nat
  BY MappedImage, AllDatagramsType DEF Back
<1>2. /\ DOMAIN H = 1 .. Len(H) /\ Len(H) = Len(F) + Len(G)
      /\ DOMAIN F = 1 .. Len(F) /\ DOMAIN G = 1 .. Len(G) /\ Len(F) \in Nat /\ Len(G) \in Nat
      /\ \A i \in DOMAIN H : IF i <= Len(F) THEN i \in DOMAIN F /\ H[i] = F[i]
                               ELSE i - Len(F) \in DOMAIN G /\ H[i] = G[i - Len(F)]
  BY <1>1, InARow, Zenon
<1>3. DOMAIN F # {} => I # 0
  <2>1. I = 0 => F = <<>>
    BY DEF InputDatagrams
  <2>2. DOMAIN <<>> = {}
    OBVIOUS
  <2>3. QED
    BY <2>1, <2>2
<1>4. DOMAIN G # {} => O # 0
  <2>1. O = 0 => G = <<>>
    BY DEF OutputDatagrams
  <2>2. DOMAIN <<>> = {}
    OBVIOUS
  <2>3. QED
    BY <2>1, <2>2
<1>5. I # 0 => Divided(F, "LRD", O, O, O, I)
  BY InputsDivided
<1>6. O # 0 => Divided(G, "LWR", 0, 0, 0, O)
  BY OutputsDivided
<1> HIDE DEF F, G, H, O, I
<1>7. \A i \in DOMAIN F : /\ F[i].cmd = "LRD" /\ F[i].from = F[i].log
                          /\ F[i].cmd # "LWR" => F[i].to = F[i].log + Back
  <2>1. CASE DOMAIN F = {}
    BY <2>1
  <2>2. CASE DOMAIN F # {}
    BY <1>1, <1>3, <1>5, <2>2, DivisionIsStraight, Zenon
  <2>3. QED
    BY <2>1, <2>2
<1>8. \A i \in DOMAIN G : /\ G[i].cmd = "LWR" /\ G[i].from = G[i].log
  <2>1. CASE DOMAIN G = {}
    BY <2>1
  <2>2. CASE DOMAIN G # {}
    BY <1>1, <1>4, <1>6, <2>2, DivisionIsStraight, ZenonT(60)
  <2>3. QED
    BY <2>1, <2>2
<1>9. \A i \in DOMAIN H : \/ i \in DOMAIN F /\ H[i] = F[i] /\ H[i].cmd = "LRD"
                          \/ i - Len(F) \in DOMAIN G /\ H[i] = G[i - Len(F)] /\ H[i].cmd = "LWR"
  BY <1>2, <1>7, <1>8
<1>10. ASSUME NEW d \in Dirs, NEW i \in DOMAIN H, NEW j \in DOMAIN H,
              i # j, Serves(H[i], d), Serves(H[j], d)
       PROVE  BytesOf(H[i]) \cap BytesOf(H[j]) = {}
  <2>1. CASE i \in DOMAIN F /\ H[i] = F[i] /\ H[i].cmd = "LRD"
    <3>1. d = "in"
      BY <1>10, <2>1 DEF Serves, Dirs
    <3>2. H[j].cmd # "LWR"
      BY <1>10, <3>1 DEF Serves
    <3>3. j \in DOMAIN F /\ H[j] = F[j]
      BY <1>9, <3>2
    <3>4. Divided(F, "LRD", O, O, O, I)
      BY <1>3, <1>5, <2>1
    <3>5. QED
      BY <1>10, <2>1, <3>3, <3>4, Zenon DEF Divided
  <2>2. CASE i - Len(F) \in DOMAIN G /\ H[i] = G[i - Len(F)] /\ H[i].cmd = "LWR"
    <3>1. d = "out"
      BY <1>10, <2>2 DEF Serves, Dirs
    <3>2. H[j].cmd # "LRD"
      BY <1>10, <3>1 DEF Serves
    <3>3. j - Len(F) \in DOMAIN G /\ H[j] = G[j - Len(F)]
      BY <1>9, <3>2
    <3>4. Divided(G, "LWR", 0, 0, 0, O)
      BY <1>4, <1>6, <2>2
    <3>5. i - Len(F) # j - Len(F)
      BY <1>2, <1>10
    <3>6. QED
      BY <2>2, <3>3, <3>4, <3>5, Zenon DEF Divided
  <2>3. QED
    BY <1>9, <2>1, <2>2
<1>11. Straight(H)
  <2>1. \A i \in DOMAIN H : H[i].from = H[i].log /\ (H[i].cmd # "LWR" => H[i].to = H[i].log + Back)
    BY <1>7, <1>8, <1>9
  <2>2. QED
    BY <1>10, <2>1, Zenon DEF Straight
<1>12. ASSUME NEW s \in Slave, NEW b \in FmmuBytes(s, "in")
       PROVE  \E i \in DOMAIN H : Serves(H[i], "in") /\ b \in BytesOf(H[i])
  <2>1. b \in O .. O + I - 1
    BY BytesOfSlave DEF O, I
  <2>2. I # 0
    BY <1>1, <2>1
  <2>3. PICK i \in DOMAIN F : b \in BytesOf(F[i])
    BY <1>5, <2>1, <2>2, Zenon DEF Divided
  <2>4. i \in DOMAIN H /\ i <= Len(F)
    BY <1>2
  <2>5. H[i] = F[i] /\ H[i].cmd = "LRD"
    BY <1>2, <1>7, <2>4
  <2>6. Serves(H[i], "in")
    BY <2>5 DEF Serves
  <2>7. QED
    BY <2>3, <2>4, <2>5, <2>6
<1>13. ASSUME NEW s \in Slave, NEW b \in FmmuBytes(s, "out")
       PROVE  \E i \in DOMAIN H : Serves(H[i], "out") /\ b \in BytesOf(H[i])
  <2>1. b \in 0 .. O - 1
    BY BytesOfSlave DEF O
  <2>2. O # 0 /\ b \in 0 .. 0 + O - 1
    BY <1>1, <2>1
  <2>3. PICK i \in DOMAIN G : b \in BytesOf(G[i])
    BY <1>6, <2>2, Zenon DEF Divided
  <2>4. i + Len(F) \in DOMAIN H /\ ~ (i + Len(F) <= Len(F)) /\ (i + Len(F)) - Len(F) = i
    BY <1>2
  <2>5. H[i + Len(F)] = G[i] /\ H[i + Len(F)].cmd = "LWR"
    BY <1>2, <1>8, <2>4
  <2>6. Serves(H[i + Len(F)], "out")
    BY <2>5 DEF Serves
  <2>7. QED
    BY <2>3, <2>4, <2>5, <2>6
<1>14. Serving(H)
  BY <1>12, <1>13 DEF Serving, Dirs
<1>15. QED
  BY <1>11, <1>14 DEF H, F, G

--------------------------------------------------------------------------------
(* The work counter proves the exchange. *)

Touches(i, s, d) == Serves(frames[i], d) /\ FmmuBytes(s, d) \cap BytesOf(frames[i]) # {}
\* No slave has its outputs or its inputs in two datagrams.
Unsplit ==
    \A s \in Slave, d \in Dirs, i, j \in DOMAIN frames :
        Touches(i, s, d) /\ Touches(j, s, d) => i = j
Exchangeable == SmallImage /\ Unsplit /\ ~ (overlap /\ group.blockLRW)

LEMMA FramesServe ==
    ASSUME ImageInv, SentInv, SmallImage, ~ (overlap /\ group.blockLRW), cycle > 0
    PROVE  /\ phase = "mapped" /\ frames \in Frames
           /\ Straight(frames) /\ Serving(frames)
<1>1. phase = "mapped" /\ frames = AllDatagrams
  BY DEF SentInv
<1>2. frames \in Frames
  BY <1>1, AllDatagramsType
<1>3. CASE group.Obytes + group.Ibytes = 0
  <2>1. AllDatagrams = <<>> /\ DOMAIN <<>> = {}
    BY <1>3 DEF AllDatagrams
  <2>2. LogAddr = 0
    BY <1>1, <1>3, MappedImage DEF bigger
  <2>3. \A s \in Slave, d \in Dirs : FmmuBytes(s, d) \subseteq 0 .. LogAddr - 1
    BY <1>1, BytesOfSlave DEF Dirs
  <2>4. 0 .. LogAddr - 1 = {}
    BY <2>2
  <2>5. Straight(frames) /\ Serving(frames)
    <3>1. DOMAIN frames = {}
      BY <1>1, <2>1
    <3>2. QED
      BY <2>3, <2>4, <3>1, Zenon DEF Straight, Serving
  <2>6. QED
    BY <1>1, <1>2, <2>5
<1>4. CASE group.Obytes + group.Ibytes # 0 /\ ~ group.blockLRW
  <2>1. frames = LrwDatagrams
    BY <1>1, <1>4 DEF AllDatagrams
  <2>2. QED
    BY <1>1, <1>2, <2>1, LrwServes
<1>5. CASE group.Obytes + group.Ibytes # 0 /\ group.blockLRW
  <2>1. frames = InputDatagrams \o OutputDatagrams
    BY <1>1, <1>5 DEF AllDatagrams
  <2>2. QED
    BY <1>1, <1>2, <1>5, <2>1, RowServes
<1>6. QED
  BY <1>3, <1>4, <1>5

\* The datagram that has a byte of the slave has all of them.
LEMMA WholeInOne ==
    ASSUME Serving(frames), Unsplit, NEW s \in Slave, NEW d \in Dirs, NEW i \in DOMAIN frames, Touches(i, s, d)
    PROVE  FmmuBytes(s, d) \subseteq BytesOf(frames[i])
<1> SUFFICES ASSUME NEW b \in FmmuBytes(s, d) PROVE b \in BytesOf(frames[i])
  OBVIOUS
<1>1. PICK j \in DOMAIN frames : Serves(frames[j], d) /\ b \in BytesOf(frames[j])
  BY DEF Serving
<1>2. Touches(j, s, d)
  BY <1>1 DEF Touches
<1>3. i = j
  BY <1>2 DEF Unsplit
<1>4. QED
  BY <1>1, <1>3

Counting(f, S, d) == IF Serves(f, d) THEN Reached(f, S, d) ELSE {}

LEMMA CountedSlaves ==
    ASSUME NEW f \in FrameRecord, NEW S, IsFiniteSet(S)
    PROVE  /\ Counted(f, S) = Cardinality(Counting(f, S, "in")) + 2 * Cardinality(Counting(f, S, "out"))
           /\ Counting(f, S, "in") \subseteq S /\ Counting(f, S, "out") \subseteq S
<1> DEFINE x == Cardinality(Reached(f, S, "in"))
           y == Cardinality(Reached(f, S, "out"))
<1>1. Reached(f, S, "in") \subseteq S /\ Reached(f, S, "out") \subseteq S
  BY DEF Reached
<1>2. x \in Nat /\ y \in Nat
  BY <1>1, FS_Subset, FS_CardinalityType
<1>3. f.cmd \in {"LRD", "LWR", "LRW"}
  BY DEF FrameRecord
<1>4. Counted(f, S) = (IF Serves(f, "in") THEN x ELSE 0) + 2 * (IF Serves(f, "out") THEN y ELSE 0)
  <2>1. WorkCounter(f, S) = CASE f.cmd = "LRD" -> x [] f.cmd = "LWR" -> y [] f.cmd = "LRW" -> x + 2 * y
    BY Zenon DEF WorkCounter
  <2> HIDE DEF x, y
  <2>2. CASE f.cmd = "LRD"
    BY <1>2, <2>1, <2>2 DEF Counted, Serves
  <2>3. CASE f.cmd = "LWR"
    BY <1>2, <2>1, <2>3 DEF Counted, Serves
  <2>4. CASE f.cmd = "LRW"
    BY <1>2, <2>1, <2>4 DEF Counted, Serves
  <2>5. QED
    BY <1>3, <2>2, <2>3, <2>4
<1>5. /\ Cardinality(Counting(f, S, "in")) = IF Serves(f, "in") THEN x ELSE 0
      /\ Cardinality(Counting(f, S, "out")) = IF Serves(f, "out") THEN y ELSE 0
  BY FS_EmptySet DEF Counting
<1>6. QED
  BY <1>1, <1>4, <1>5 DEF Counting

\* An input byte of the slaves that have just answered is fresh.
FreshByte(s, b) == /\ b + Back \in DOMAIN image
                   /\ \E S : s \in S /\ image[b + Back] = <<b, S>>
\* The slave has taken an output byte, and what it took is what the program stored.
TakenByte(s, b) == \E S : /\ s \in S /\ <<b, b, S>> \in carried
                          /\ \A c \in carried : c[1] = b \/ c[2] = b => c = <<b, b, S>>
\* The slaves whose data was in the datagrams so far.
Passed(d) == {s \in Slave : \E i \in 1 .. pulled : Touches(i, s, d)}
CarriedBy(c, i) == c[1] = c[2] /\ Serves(frames[i], "out") /\ c[2] \in BytesOf(frames[i])
CopiesOK ==
    /\ pulled <= Len(frames)
    /\ DOMAIN image = ImageBytes
    /\ \A c \in carried : \E i \in 1 .. pulled : CarriedBy(c, i)
\* The work counter counts the slaves in R, which answered, and W, which took
\* their outputs.
Accounted(R, W) ==
    /\ R \subseteq Contributors("in") /\ W \subseteq Contributors("out")
    /\ wkc = Cardinality(R) + 2 * Cardinality(W)
    /\ \A s \in R : \A b \in FmmuBytes(s, "in") : FreshByte(s, b)
    /\ \A s \in W : \A b \in FmmuBytes(s, "out") : TakenByte(s, b)
SentCount == \E R, W : Accounted(R, W) /\ R \subseteq Passed("in") /\ W \subseteq Passed("out")
WkcInv ==
    Exchangeable /\ cycle > 0 =>
        IF stage = "sent" THEN CopiesOK /\ SentCount
                          ELSE wkc = NoFrame \/ \E R, W : Accounted(R, W)

\* Nothing else of a slave is in the datagrams before the one that is to come.
LEMMA NotBefore ==
    ASSUME frames \in Frames, Straight(frames), NEW d \in Dirs, NEW k \in DOMAIN frames, Serves(frames[k], d),
           NEW i \in 1 .. k - 1, Serves(frames[i], d), NEW b \in BytesOf(frames[i])
    PROVE  i \in DOMAIN frames /\ b \notin BytesOf(frames[k])
<1>1. i \in DOMAIN frames /\ i # k
  BY DEF Frames
<1>2. BytesOf(frames[i]) \cap BytesOf(frames[k]) = {}
  BY <1>1, Zenon DEF Straight
<1>3. QED
  BY <1>1, <1>2

LEMMA StillFresh ==
    ASSUME frames \in Frames, Straight(frames), Serving(frames), Unsplit, Back \in Nat, UNCHANGED <<vars, frames>>,
           NEW k \in DOMAIN frames, NEW S, image' = CopyBack(frames[k], S),
           NEW s \in Slave, NEW i \in 1 .. k - 1, Touches(i, s, "in"),
           NEW b \in FmmuBytes(s, "in"), b \in Nat, FreshByte(s, b)
    PROVE  FreshByte(s, b)'
<1> DEFINE f == frames[k]
           m == b + Back
<1>1. Back' = Back
  BY DEF vars, Back
<1>2. image'[m] = image[m] /\ DOMAIN image' = DOMAIN image
  <2>1. CASE f.cmd = "LWR"
    BY <2>1 DEF CopyBack
  <2>2. CASE f.cmd # "LWR"
    <3>1. image' = [c \in DOMAIN image |-> IF c \in f.to .. f.to + f.len - 1
                                           THEN <<f.log + c - f.to, S>> ELSE image[c]]
      BY <2>2, Zenon DEF CopyBack
    <3>2. f \in FrameRecord /\ f.to = f.log + Back
      BY <2>2 DEF Frames, Straight
    <3>3. b \notin BytesOf(f)
      <4>1. "in" \in Dirs /\ Serves(f, "in") /\ Serves(frames[i], "in")
        BY <2>2 DEF Dirs, Serves, Touches
      <4>2. i \in DOMAIN frames
        BY DEF Frames
      <4>3. b \in BytesOf(frames[i])
        BY <4>1, <4>2, WholeInOne
      <4>4. QED
        BY <4>1, <4>3, NotBefore
    <3>4. m \notin f.to .. f.to + f.len - 1
      <4>1. f.log \in Nat /\ f.len \in Nat /\ f.to \in Nat
        BY <3>2 DEF FrameRecord
      <4>2. b \notin f.log .. f.log + f.len - 1
        BY <3>3 DEF BytesOf
      <4> HIDE DEF f
      <4>3. QED
        BY <3>2, <4>1, <4>2
    <3>5. m \in DOMAIN image
      BY DEF FreshByte
    <3> HIDE DEF m, f
    <3>6. QED
      BY <3>1, <3>4, <3>5
  <2>3. QED
    BY <2>1, <2>2
<1>3. QED
  BY <1>1, <1>2 DEF FreshByte

LEMMA NowFresh ==
    ASSUME frames \in Frames, Straight(frames), Serving(frames), Unsplit, Back \in Nat, UNCHANGED <<vars, frames>>,
           NEW k \in DOMAIN frames, NEW S, image' = CopyBack(frames[k], S),
           NEW s \in Slave, s \in S, Touches(k, s, "in"),
           NEW b \in FmmuBytes(s, "in"), b \in Nat, b + Back \in DOMAIN image
    PROVE  FreshByte(s, b)'
<1> DEFINE f == frames[k]
           m == b + Back
<1>1. Back' = Back
  BY DEF vars, Back
<1>2. f.cmd # "LWR"
  BY DEF Touches, Serves
<1>3. image' = [c \in DOMAIN image |-> IF c \in f.to .. f.to + f.len - 1
                                       THEN <<f.log + c - f.to, S>> ELSE image[c]]
  BY <1>2, Zenon DEF CopyBack
<1>4. f \in FrameRecord /\ f.to = f.log + Back
  BY <1>2 DEF Frames, Straight
<1>5. b \in BytesOf(f)
  BY WholeInOne DEF Dirs
<1>6. m \in f.to .. f.to + f.len - 1 /\ f.log + m - f.to = b
  <2>1. f.log \in Nat /\ f.len \in Nat /\ f.to \in Nat
    BY <1>4 DEF FrameRecord
  <2>2. b \in f.log .. f.log + f.len - 1
    BY <1>5 DEF BytesOf
  <2> HIDE DEF f
  <2>3. QED
    BY <1>4, <2>1, <2>2
<1>7. image'[m] = <<b, S>> /\ m \in DOMAIN image'
  <2>1. m \in DOMAIN image
    OBVIOUS
  <2> HIDE DEF f, m
  <2>2. QED
    BY <1>3, <1>6, <2>1
<1>8. QED
  BY <1>1, <1>7 DEF FreshByte

LEMMA TakenFrom ==
    ASSUME NEW f \in FrameRecord, f.from = f.log, NEW S
    PROVE  /\ \A c \in Taken(f, S) : Serves(f, "out") /\ c[2] \in BytesOf(f) /\ c = <<c[2], c[2], S>>
           /\ Serves(f, "out") => \A b \in BytesOf(f) : <<b, b, S>> \in Taken(f, S)
<1>1. f.log \in Nat /\ f.len \in Nat
  BY DEF FrameRecord
<1>2. CASE f.cmd = "LRD"
  BY <1>2 DEF Taken, Serves
<1>3. CASE f.cmd # "LRD"
  <2>1. Taken(f, S) = {<<f.from + i, f.log + i, S>> : i \in 0 .. f.len - 1} /\ Serves(f, "out")
    BY <1>3 DEF Taken, Serves
  <2>2. \A i \in 0 .. f.len - 1 : f.log + i \in BytesOf(f)
    BY <1>1 DEF BytesOf
  <2>3. \A c \in Taken(f, S) : c[2] \in BytesOf(f) /\ c = <<c[2], c[2], S>>
    BY <2>1, <2>2
  <2>4. \A b \in BytesOf(f) : b - f.log \in 0 .. f.len - 1 /\ f.log + (b - f.log) = b
    BY <1>1 DEF BytesOf
  <2>5. \A b \in BytesOf(f) : <<b, b, S>> \in Taken(f, S)
    BY <2>1, <2>4
  <2>6. QED
    BY <2>1, <2>3, <2>5
<1>4. QED
  BY <1>2, <1>3

LEMMA StillTaken ==
    ASSUME frames \in Frames, Straight(frames), Serving(frames), Unsplit,
           NEW k \in DOMAIN frames, NEW S, carried' = carried \cup Taken(frames[k], S),
           NEW s \in Slave, NEW i \in 1 .. k - 1, Touches(i, s, "out"),
           NEW b \in FmmuBytes(s, "out"), TakenByte(s, b)
    PROVE  TakenByte(s, b)'
<1> DEFINE f == frames[k]
<1>1. PICK T : /\ s \in T /\ <<b, b, T>> \in carried
               /\ \A c \in carried : c[1] = b \/ c[2] = b => c = <<b, b, T>>
  BY DEF TakenByte
<1>2. f \in FrameRecord /\ f.from = f.log
  BY DEF Frames, Straight
<1>3. ASSUME NEW c \in Taken(f, S) PROVE c[1] # b /\ c[2] # b
  <2>1. Serves(f, "out") /\ c[2] \in BytesOf(f) /\ c = <<c[2], c[2], S>>
    BY <1>2, TakenFrom, Zenon
  <2>2. i \in DOMAIN frames /\ "out" \in Dirs /\ Serves(frames[i], "out")
    BY DEF Frames, Dirs, Touches
  <2>3. b \in BytesOf(frames[i])
    BY <2>2, WholeInOne
  <2>4. b \notin BytesOf(f)
    BY <2>1, <2>2, <2>3, NotBefore
  <2>5. c[1] = c[2]
    BY <2>1
  <2>6. QED
    BY <2>1, <2>4, <2>5
<1>4. /\ <<b, b, T>> \in carried'
      /\ \A c \in carried' : c[1] = b \/ c[2] = b => c = <<b, b, T>>
  BY <1>1, <1>3
<1>5. QED
  BY <1>1, <1>4 DEF TakenByte

LEMMA NowTaken ==
    ASSUME frames \in Frames, Straight(frames), Serving(frames), Unsplit,
           NEW k \in DOMAIN frames, NEW S, carried' = carried \cup Taken(frames[k], S),
           \A c \in carried : \E i \in 1 .. k - 1 : CarriedBy(c, i),
           NEW s \in Slave, s \in S, Touches(k, s, "out"),
           NEW b \in FmmuBytes(s, "out")
    PROVE  TakenByte(s, b)'
<1> DEFINE f == frames[k]
<1>1. f \in FrameRecord /\ f.from = f.log
  BY DEF Frames, Straight
<1>2. "out" \in Dirs /\ Serves(f, "out") /\ b \in BytesOf(f)
  BY WholeInOne DEF Dirs, Touches
<1>3. <<b, b, S>> \in Taken(f, S)
  BY <1>1, <1>2, TakenFrom, Zenon
<1>4. ASSUME NEW c \in Taken(f, S), c[1] = b \/ c[2] = b PROVE c = <<b, b, S>>
  <2>1. c = <<c[2], c[2], S>>
    BY <1>1, TakenFrom, Zenon
  <2>2. c[1] = c[2]
    BY <2>1
  <2>3. QED
    BY <1>4, <2>1, <2>2
<1>5. ASSUME NEW c \in carried PROVE c[1] # b /\ c[2] # b
  <2>1. PICK i \in 1 .. k - 1 : CarriedBy(c, i)
    OBVIOUS
  <2>2. c[1] = c[2] /\ Serves(frames[i], "out") /\ c[2] \in BytesOf(frames[i])
    BY <2>1 DEF CarriedBy
  <2>3. c[2] \notin BytesOf(f)
    BY <1>2, <2>2, NotBefore
  <2>4. QED
    BY <1>2, <2>2, <2>3
<1>6. /\ <<b, b, S>> \in carried'
      /\ \A c \in carried' : c[1] = b \/ c[2] = b => c = <<b, b, S>>
  BY <1>3, <1>4, <1>5
<1>7. QED
  BY <1>6 DEF TakenByte

\* Who has a byte of a direction has an FMMU for it and is counted on.
LEMMA TouchedContributes ==
    ASSUME MapInv, phase = "mapped", NEW s \in Slave, NEW d \in Dirs, FmmuBytes(s, d) # {}
    PROVE  s \in Contributors(d)
<1>1. fmmu[s][d] # NoFmmu
  <2> SUFFICES ASSUME fmmu[s][d] = <<>> PROVE FALSE
    BY DEF NoFmmu
  <2>1. ToSet(fmmu[s][d]) = {}
    BY DEF ToSet
  <2>2. FmmuBytes(s, d) = {}
    BY <2>1 DEF FmmuBytes
  <2>3. QED
    BY <2>2
<1>2. Done(s, d) /\ bitsOf(s, d) > 0
  BY <1>1 DEF MapInv, HasFmmu
<1>3. QED
  BY <1>2 DEF Contributors

LEMMA MoreCounted ==
    ASSUME NEW R, NEW X, IsFiniteSet(R), IsFiniteSet(X), R \cap X = {}
    PROVE  /\ IsFiniteSet(R \cup X) /\ Cardinality(R \cup X) = Cardinality(R) + Cardinality(X)
           /\ Cardinality(R) \in Nat /\ Cardinality(X) \in Nat
<1>1. Cardinality(R) \in Nat /\ Cardinality(X) \in Nat
  BY FS_CardinalityType
<1>2. Cardinality(R \cup X) = Cardinality(R) + Cardinality(X) - Cardinality(R \cap X) /\ IsFiniteSet(R \cup X)
  BY FS_Union
<1>3. Cardinality(R \cap X) = 0
  BY FS_EmptySet
<1>4. QED
  BY <1>1, <1>2, <1>3

LEMMA SameMap ==
    ASSUME UNCHANGED vars
    PROVE  /\ Slave' = Slave /\ Back' = Back /\ ImageBytes' = ImageBytes
           /\ \A d : Contributors(d)' = Contributors(d)
           /\ \A s, d : FmmuBytes(s, d)' = FmmuBytes(s, d)
           /\ frames' = frames => \A i, s, d : Touches(i, s, d)' <=> Touches(i, s, d)
           /\ (SmallImage' <=> SmallImage) /\ (frames' = frames => (Unsplit' <=> Unsplit))
           /\ overlap' = overlap /\ group' = group /\ phase' = phase
<1>1. /\ slavelist' = slavelist /\ overlap' = overlap /\ fmmu' = fmmu /\ phase' = phase /\ cur' = cur
      /\ LogAddr' = LogAddr /\ group' = group
  BY DEF vars
<1>2. Slave' = Slave /\ Back' = Back /\ ImageBytes' = ImageBytes /\ (SmallImage' <=> SmallImage)
  BY <1>1 DEF Slave, Slaves, Back, ImageBytes, SmallImage
<1>3. \A d : Contributors(d)' = Contributors(d)
  BY <1>1, <1>2 DEF Contributors, Done, bitsOf
<1>4. \A s, d : FmmuBytes(s, d)' = FmmuBytes(s, d)
  BY <1>1 DEF FmmuBytes
<1>5. frames' = frames => \A i, s, d : Touches(i, s, d)' <=> Touches(i, s, d)
  BY <1>4 DEF Touches
<1>6. frames' = frames => (Unsplit' <=> Unsplit)
  BY <1>2, <1>5 DEF Unsplit
<1>7. QED
  BY <1>1, <1>2, <1>3, <1>4, <1>5, <1>6

LEMMA PassedGrows ==
    ASSUME UNCHANGED vars, frames' = frames, pulled \in Nat, pulled' = pulled + 1, NEW d
    PROVE  /\ Passed(d) \subseteq Passed(d)'
           /\ \A s \in Slave : Touches(pulled + 1, s, d) => s \in Passed(d)'
<1>1. Slave' = Slave /\ \A i, s : Touches(i, s, d)' <=> Touches(i, s, d)
  BY SameMap
<1>2. Passed(d)' = {s \in Slave : \E i \in 1 .. pulled + 1 : Touches(i, s, d)}
  BY <1>1 DEF Passed
<1>3. 1 .. pulled \subseteq 1 .. pulled + 1 /\ pulled + 1 \in 1 .. pulled + 1
  OBVIOUS
<1>4. QED
  BY <1>2, <1>3 DEF Passed

LEMMA FrameBackWkc ==
    ASSUME ImageInv, SentInv, Exchangeable, CopiesOK, SentCount, FrameBack
    PROVE  CopiesOK' /\ SentCount'
<1>1. /\ stage = "sent" /\ pulled < pushed /\ pulled \in Nat /\ pulled' = pulled + 1
      /\ UNCHANGED vars /\ frames' = frames /\ cycle > 0
  BY DEF FrameBack, SentInv
<1>2. /\ phase = "mapped" /\ frames \in Frames /\ Straight(frames) /\ Serving(frames)
      /\ SmallImage /\ Unsplit
  BY <1>1, FramesServe DEF Exchangeable
<1> DEFINE k == pulled + 1
           f == frames[k]
<1>3. /\ k \in DOMAIN frames /\ k \in Nat /\ pulled = k - 1 /\ k <= Len(frames)
  <2>1. Len(frames) \in Nat /\ DOMAIN frames = 1 .. Len(frames)
    BY <1>2 DEF Frames
  <2>2. pushed <= Len(frames) /\ pushed \in Nat
    BY <2>1, BufAssumption DEF pushed
  <2>3. QED
    BY <1>1, <2>1, <2>2
<1>4. PICK S \in SUBSET Slave : /\ wkc' = Counted(f, S) + IF isDc(k) THEN 0 ELSE wkc
                                /\ image' = CopyBack(f, S)
                                /\ carried' = carried \cup Taken(f, S)
  BY DEF FrameBack
<1>5. f \in FrameRecord
  BY <1>2, <1>3 DEF Frames
<1>6. PICK R, W : Accounted(R, W) /\ R \subseteq Passed("in") /\ W \subseteq Passed("out")
  BY DEF SentCount
<1> DEFINE X == Counting(f, S, "in")
           Y == Counting(f, S, "out")
<1> HIDE DEF k
<1>7. IsFiniteSet(Slave)
  <2>1. Slaves \in Nat
    BY DEF ImageInv, MapInv, ListOK
  <2>2. QED
    BY <2>1, FS_Interval DEF Slave
<1>8. IsFiniteSet(S)
  BY <1>7, FS_Subset
<1>9. /\ Counted(f, S) = Cardinality(X) + 2 * Cardinality(Y) /\ X \subseteq S /\ Y \subseteq S
  BY <1>5, <1>8, CountedSlaves
<1>10. /\ \A s \in X : s \in Slave /\ s \in S /\ Touches(k, s, "in")
       /\ \A s \in Y : s \in Slave /\ s \in S /\ Touches(k, s, "out")
  BY DEF Counting, Reached, Touches
<1>11. /\ \A s \in R : s \in Slave /\ \E i \in 1 .. k - 1 : Touches(i, s, "in")
       /\ \A s \in W : s \in Slave /\ \E i \in 1 .. k - 1 : Touches(i, s, "out")
  BY <1>3, <1>6 DEF Passed
<1> HIDE DEF X, Y, f
<1>12. R \cap X = {} /\ W \cap Y = {}
  <2>1. \A i \in 1 .. k - 1 : i \in DOMAIN frames /\ i # k
    BY <1>2, <1>3 DEF Frames
  <2>2. \A s \in Slave, d \in Dirs : \A i \in 1 .. k - 1 : ~ (Touches(i, s, d) /\ Touches(k, s, d))
    BY <1>2, <1>3, <2>1, Zenon DEF Unsplit
  <2>3. "in" \in Dirs /\ "out" \in Dirs
    BY DEF Dirs
  <2>4. QED
    BY <1>10, <1>11, <2>2, <2>3
<1>13. IsFiniteSet(R) /\ IsFiniteSet(W) /\ IsFiniteSet(X) /\ IsFiniteSet(Y)
  <2>1. R \in SUBSET Slave /\ W \in SUBSET Slave /\ X \in SUBSET S /\ Y \in SUBSET S
    BY <1>9, <1>11
  <2>2. QED
    BY <1>7, <1>8, <2>1, FS_Subset
<1>14. wkc' = Cardinality(R \cup X) + 2 * Cardinality(W \cup Y)
  <2>1. /\ Cardinality(R \cup X) = Cardinality(R) + Cardinality(X)
        /\ Cardinality(W \cup Y) = Cardinality(W) + Cardinality(Y)
        /\ Cardinality(R) \in Nat /\ Cardinality(X) \in Nat
        /\ Cardinality(W) \in Nat /\ Cardinality(Y) \in Nat
    BY <1>12, <1>13, MoreCounted
  <2>2. wkc = Cardinality(R) + 2 * Cardinality(W)
    BY <1>6 DEF Accounted
  <2>3. isDc(k) => wkc = 0
    <3> SUFFICES ASSUME k = 1 PROVE wkc = 0
      BY DEF isDc
    <3>1. R = {} /\ W = {}
      BY <1>11
    <3>2. QED
      BY <2>2, <3>1, FS_EmptySet
  <2>4. wkc' = Cardinality(X) + 2 * Cardinality(Y) + wkc
    <3>1. wkc' = Counted(f, S) + wkc
      BY <1>4, <2>3
    <3>2. QED
      BY <1>9, <2>1, <2>2, <3>1
  <2>5. QED
    BY <2>1, <2>2, <2>4
<1>15. /\ Slave' = Slave /\ ImageBytes' = ImageBytes
       /\ Contributors("in")' = Contributors("in") /\ Contributors("out")' = Contributors("out")
       /\ \A s, d : FmmuBytes(s, d)' = FmmuBytes(s, d)
  BY <1>1, SameMap
<1>16. X \subseteq Contributors("in") /\ Y \subseteq Contributors("out")
  <2>1. MapInv /\ "in" \in Dirs /\ "out" \in Dirs
    BY DEF ImageInv, Dirs
  <2>2. \A s \in X : s \in Contributors("in")
    BY <1>2, <1>10, <2>1, TouchedContributes DEF Touches
  <2>3. \A s \in Y : s \in Contributors("out")
    BY <1>2, <1>10, <2>1, TouchedContributes DEF Touches
  <2>4. QED
    BY <2>2, <2>3
<1>17. Back \in Nat /\ \A s \in Slave : \A b \in FmmuBytes(s, "in") : b \in Nat /\ b + Back \in DOMAIN image
  <2>1. /\ LogAddr \in Nat /\ group.Obytes \in Nat /\ group.Ibytes \in Nat
        /\ LogAddr = IF overlap THEN bigger ELSE group.Obytes + group.Ibytes
    BY <1>2, MappedImage
  <2>2. LogAddr + Back <= 2 * (group.Obytes + group.Ibytes) /\ Back \in Nat
    BY <2>1 DEF Back, bigger
  <2>3. ASSUME NEW s \in Slave, NEW b \in FmmuBytes(s, "in") PROVE b \in Nat /\ b + Back \in ImageBytes
    <3>1. b \in 0 .. LogAddr - 1
      BY <1>2, BytesOfSlave
    <3>2. QED
      BY <2>1, <2>2, <3>1 DEF ImageBytes
  <2>4. QED
    BY <2>2, <2>3 DEF CopiesOK
<1>18. image' = CopyBack(frames[k], S) /\ carried' = carried \cup Taken(frames[k], S) /\ UNCHANGED <<vars, frames>>
  BY <1>1, <1>4 DEF f
<1>19. ASSUME NEW s \in R \cup X, NEW b \in FmmuBytes(s, "in") PROVE FreshByte(s, b)'
  <2>1. CASE s \in R
    <3>1. PICK i \in 1 .. k - 1 : Touches(i, s, "in")
      BY <1>11, <2>1
    <3>2. s \in Slave /\ FreshByte(s, b)
      BY <1>6, <1>11, <2>1 DEF Accounted
    <3>3. QED
      BY <1>2, <1>3, <1>17, <1>18, <3>1, <3>2, StillFresh, Zenon
  <2>2. CASE s \in X
    BY <1>2, <1>3, <1>10, <1>17, <1>18, <2>2, NowFresh, Zenon
  <2>3. QED
    BY <2>1, <2>2
<1>20. ASSUME NEW s \in W \cup Y, NEW b \in FmmuBytes(s, "out") PROVE TakenByte(s, b)'
  <2>1. CASE s \in W
    <3>1. PICK i \in 1 .. k - 1 : Touches(i, s, "out")
      BY <1>11, <2>1
    <3>2. s \in Slave /\ TakenByte(s, b)
      BY <1>6, <1>11, <2>1 DEF Accounted
    <3>3. QED
      BY <1>2, <1>3, <1>18, <3>1, <3>2, StillTaken, Zenon
  <2>2. CASE s \in Y
    <3>1. \A c \in carried : \E i \in 1 .. k - 1 : CarriedBy(c, i)
      BY <1>3 DEF CopiesOK
    <3>2. QED
      BY <1>2, <1>3, <1>10, <1>18, <2>2, <3>1, NowTaken, Zenon
  <2>3. QED
    BY <2>1, <2>2
<1>21. R \cup X \subseteq Passed("in")' /\ W \cup Y \subseteq Passed("out")'
  BY <1>1, <1>6, <1>10, PassedGrows DEF k
<1>22. PICK U, V : U = R \cup X /\ V = W \cup Y
  OBVIOUS
<1>23. SentCount'
  <2>1. U \subseteq Contributors("in")' /\ V \subseteq Contributors("out")'
    BY <1>6, <1>15, <1>16, <1>22 DEF Accounted
  <2>2. wkc' = Cardinality(U) + 2 * Cardinality(V)
    BY <1>14, <1>22
  <2>3. /\ \A s \in U : \A b \in FmmuBytes(s, "in")' : FreshByte(s, b)'
        /\ \A s \in V : \A b \in FmmuBytes(s, "out")' : TakenByte(s, b)'
    BY <1>15, <1>19, <1>20, <1>22
  <2>4. Accounted(U, V)'
    BY <2>1, <2>2, <2>3 DEF Accounted
  <2>5. U \subseteq Passed("in")' /\ V \subseteq Passed("out")'
    BY <1>21, <1>22
  <2>6. QED
    BY <2>4, <2>5 DEF SentCount
<1>24. CopiesOK'
  <2>1. DOMAIN image' = DOMAIN image
    BY <1>18 DEF CopyBack
  <2>2. pulled' <= Len(frames')
    BY <1>1, <1>3 DEF k
  <2>3. ASSUME NEW c \in carried' PROVE \E i \in 1 .. pulled' : CarriedBy(c, i)'
    <3>1. \A i : CarriedBy(c, i)' <=> CarriedBy(c, i)
      BY <1>1 DEF CarriedBy
    <3>2. CASE c \in carried
      <4>1. PICK i \in 1 .. pulled : CarriedBy(c, i)
        BY <3>2 DEF CopiesOK
      <4>2. i \in 1 .. pulled'
        BY <1>1
      <4>3. QED
        BY <3>1, <4>1, <4>2
    <3>3. CASE c \in Taken(f, S)
      <4>1. f.from = f.log
        BY <1>2, <1>3 DEF Straight, f
      <4>2. Serves(f, "out") /\ c[2] \in BytesOf(f) /\ c = <<c[2], c[2], S>>
        BY <1>5, <3>3, <4>1, TakenFrom, Zenon
      <4>3. CarriedBy(c, k)
        BY <4>2 DEF CarriedBy, f
      <4>4. k \in 1 .. pulled'
        BY <1>1, <1>3 DEF k
      <4>5. QED
        BY <3>1, <4>3, <4>4
    <3>4. QED
      BY <1>4, <3>2, <3>3
  <2>4. QED
    BY <1>15, <2>1, <2>2, <2>3 DEF CopiesOK
<1>25. QED
  BY <1>23, <1>24

LEMMA SameAccount ==
    ASSUME UNCHANGED vars, image' = image, carried' = carried, wkc' = wkc, NEW CONSTANT R, NEW CONSTANT W, Accounted(R, W)
    PROVE  Accounted(R, W)'
<1>1. /\ Contributors("in")' = Contributors("in") /\ Contributors("out")' = Contributors("out")
      /\ \A s, d : FmmuBytes(s, d)' = FmmuBytes(s, d)
      /\ Back' = Back
  BY SameMap
<1>2. \A s, b : (FreshByte(s, b)' <=> FreshByte(s, b)) /\ (TakenByte(s, b)' <=> TakenByte(s, b))
  BY <1>1 DEF FreshByte, TakenByte
<1>3. R \subseteq Contributors("in")' /\ W \subseteq Contributors("out")'
  BY <1>1 DEF Accounted
<1>4. wkc' = Cardinality(R) + 2 * Cardinality(W)
  BY DEF Accounted
<1>5. /\ \A s \in R : \A b \in FmmuBytes(s, "in")' : FreshByte(s, b)'
      /\ \A s \in W : \A b \in FmmuBytes(s, "out")' : TakenByte(s, b)'
  BY <1>1, <1>2 DEF Accounted
<1>6. QED
  BY <1>3, <1>4, <1>5 DEF Accounted

LEMMA FrameMissingWkc ==
    ASSUME SentInv, CopiesOK, SentCount, frames \in Frames, FrameMissing
    PROVE  CopiesOK' /\ SentCount'
<1>1. /\ pulled < pushed /\ pulled \in Nat /\ pulled' = pulled + 1 /\ frames' = frames
      /\ UNCHANGED vars /\ image' = image /\ carried' = carried /\ wkc' = wkc
  BY DEF FrameMissing, SentInv
<1>2. pulled + 1 <= Len(frames)
  <2>1. Len(frames) \in Nat
    BY DEF Frames
  <2>2. pushed <= Len(frames) /\ pushed \in Nat
    BY <2>1, BufAssumption DEF pushed
  <2>3. QED
    BY <1>1, <2>1, <2>2
<1>3. ImageBytes' = ImageBytes
  BY <1>1, SameMap
<1>4. CopiesOK'
  <2>1. \A c, i : CarriedBy(c, i)' <=> CarriedBy(c, i)
    BY <1>1 DEF CarriedBy
  <2>2. 1 .. pulled \subseteq 1 .. pulled'
    BY <1>1
  <2>3. QED
    BY <1>1, <1>2, <1>3, <2>1, <2>2 DEF CopiesOK
<1>5. PICK R, W : Accounted(R, W) /\ R \subseteq Passed("in") /\ W \subseteq Passed("out")
  BY DEF SentCount
<1>6. Accounted(R, W)'
  BY <1>1, <1>5, SameAccount
<1>7. R \subseteq Passed("in")' /\ W \subseteq Passed("out")'
  BY <1>1, <1>5, PassedGrows
<1>8. QED
  BY <1>4, <1>6, <1>7 DEF SentCount

LEMMA ReceiveDoneWkc ==
    ASSUME SentCount, ReceiveDone
    PROVE  (wkc = NoFrame \/ \E R, W : Accounted(R, W))'
<1>1. /\ UNCHANGED vars /\ image' = image /\ carried' = carried
      /\ wkc' = IF valid THEN wkc ELSE NoFrame
  BY DEF ReceiveDone
<1>2. PICK R, W : Accounted(R, W)
  BY DEF SentCount
<1>3. CASE ~ valid
  <2>1. wkc' = NoFrame /\ NoFrame' = NoFrame
    BY <1>1, <1>3 DEF NoFrame
  <2>2. QED
    BY <2>1
<1>4. CASE valid
  <2>1. wkc' = wkc
    BY <1>1, <1>4
  <2>2. Accounted(R, W)'
    BY <1>1, <1>2, <2>1, SameAccount
  <2>3. QED
    BY <2>2
<1>5. QED
  BY <1>3, <1>4

LEMMA SendWkc ==
    ASSUME ImageInv, SmallImage, SendProcessData
    PROVE  CopiesOK' /\ SentCount'
<1>1. /\ phase = "mapped" /\ frames' = AllDatagrams /\ pulled' = 0 /\ wkc' = 0 /\ carried' = {}
      /\ image' = [b \in ImageBytes |-> NoByte] /\ UNCHANGED vars
  BY DEF SendProcessData
<1>2. ImageBytes' = ImageBytes
  BY <1>1, SameMap
<1>3. frames' \in Frames
  BY <1>1, AllDatagramsType
<1>4. 0 <= Len(frames')
  BY <1>3 DEF Frames
<1>5. DOMAIN image' = ImageBytes
  BY <1>1
<1>6. CopiesOK'
  BY <1>1, <1>2, <1>4, <1>5 DEF CopiesOK
<1>7. Accounted({}, {})'
  BY <1>1, FS_EmptySet DEF Accounted
<1>8. QED
  BY <1>6, <1>7 DEF SentCount

LEMMA NextWkcInv ==
    ASSUME ImageInv, SentInv, WkcInv, [ExchangeNext]_allVars
    PROVE  WkcInv'
<1> SUFFICES ASSUME Exchangeable', cycle' > 0
             PROVE  IF stage' = "sent" THEN CopiesOK' /\ SentCount'
                                       ELSE (wkc = NoFrame \/ \E R, W : Accounted(R, W))'
  BY DEF WkcInv
<1>1. UNCHANGED vars => (SmallImage' <=> SmallImage) /\ overlap' = overlap /\ group' = group
  BY SameMap
<1>2. CASE SendProcessData
  <2>1. UNCHANGED vars /\ stage' = "sent"
    BY <1>2 DEF SendProcessData
  <2>2. SmallImage
    BY <1>1, <2>1 DEF Exchangeable
  <2>3. QED
    BY <1>2, <2>1, <2>2, SendWkc
<1>3. ASSUME UNCHANGED vars, frames' = frames, cycle' = cycle
      PROVE  Exchangeable /\ cycle > 0
  <2>1. (Unsplit' <=> Unsplit) /\ SmallImage
    BY <1>1, <1>3, SameMap DEF Exchangeable
  <2>2. QED
    BY <1>1, <1>3, <2>1 DEF Exchangeable
<1>4. CASE FrameBack
  <2>1. UNCHANGED vars /\ frames' = frames /\ cycle' = cycle /\ stage = "sent" /\ stage' = "sent"
    BY <1>4 DEF FrameBack
  <2>2. Exchangeable /\ CopiesOK /\ SentCount
    BY <1>3, <2>1 DEF WkcInv
  <2>3. QED
    BY <1>4, <2>1, <2>2, FrameBackWkc
<1>5. CASE FrameMissing
  <2>1. UNCHANGED vars /\ frames' = frames /\ cycle' = cycle /\ stage = "sent" /\ stage' = "sent"
    BY <1>5 DEF FrameMissing
  <2>2. Exchangeable /\ CopiesOK /\ SentCount
    BY <1>3, <2>1 DEF WkcInv
  <2>3. frames \in Frames
    BY <1>3, <2>1, <2>2, FramesServe DEF Exchangeable
  <2>4. QED
    BY <1>5, <2>1, <2>2, <2>3, FrameMissingWkc
<1>6. CASE ReceiveDone
  <2>1. UNCHANGED vars /\ frames' = frames /\ cycle' = cycle /\ stage = "sent" /\ stage' = "idle"
    BY <1>6 DEF ReceiveDone
  <2>2. SentCount
    BY <1>3, <2>1 DEF WkcInv
  <2>3. (wkc = NoFrame \/ \E R, W : Accounted(R, W))'
    BY <1>6, <2>2, ReceiveDoneWkc
  <2>4. QED
    BY <2>1, <2>3
<1>7. CASE MapFirst
  <2>1. phase # "mapped" /\ cycle' = cycle
    BY <1>7 DEF MapFirst, exchangeVars, MapStep, MapOutput, CloseOutputs, MapInput, CloseInputs,
                MapOverlap, CloseOverlap
  <2>2. QED
    BY <2>1 DEF SentInv
<1>8. CASE UNCHANGED allVars
  <2>1. /\ UNCHANGED vars /\ frames' = frames /\ cycle' = cycle /\ stage' = stage /\ pulled' = pulled
        /\ image' = image /\ carried' = carried /\ wkc' = wkc
    BY <1>8 DEF allVars, exchangeVars
  <2>2. WkcInv /\ Exchangeable /\ cycle > 0
    BY <1>3, <2>1
  <2>3. ASSUME NEW CONSTANT R, NEW CONSTANT W, Accounted(R, W) PROVE Accounted(R, W)'
    BY <2>1, <2>3, SameAccount
  <2>4. CASE stage = "sent"
    <3>1. CopiesOK /\ SentCount
      BY <2>2, <2>4 DEF WkcInv
    <3>2. CopiesOK'
      BY <2>1, <3>1, SameMap DEF CopiesOK, CarriedBy
    <3>3. PICK R, W : Accounted(R, W) /\ R \subseteq Passed("in") /\ W \subseteq Passed("out")
      BY <3>1 DEF SentCount
    <3>4. Passed("in")' = Passed("in") /\ Passed("out")' = Passed("out")
      BY <2>1, SameMap DEF Passed
    <3>5. SentCount'
      BY <2>3, <3>3, <3>4 DEF SentCount
    <3>6. QED
      BY <2>1, <2>4, <3>2, <3>5
  <2>5. CASE stage # "sent"
    <3>1. wkc = NoFrame \/ \E R, W : Accounted(R, W)
      BY <2>2, <2>5 DEF WkcInv
    <3>2. CASE wkc = NoFrame
      <4>1. wkc' = NoFrame'
        BY <2>1, <3>2 DEF NoFrame
      <4>2. QED
        BY <2>1, <2>5, <4>1
    <3>3. CASE \E R, W : Accounted(R, W)
      <4>1. PICK R, W : Accounted(R, W)
        BY <3>3
      <4>2. Accounted(R, W)'
        BY <2>3, <4>1
      <4>3. QED
        BY <2>1, <2>5, <4>2
    <3>4. QED
      BY <3>1, <3>2, <3>3
  <2>6. QED
    BY <2>4, <2>5
<1>9. QED
  BY <1>2, <1>4, <1>5, <1>6, <1>7, <1>8 DEF ExchangeNext, Exchange, Ended

\* Both counters are reached only if every slave is counted.
LEMMA AllCounted ==
    ASSUME NEW C, NEW D, IsFiniteSet(C), IsFiniteSet(D), NEW R \in SUBSET C, NEW W \in SUBSET D
    PROVE  /\ Cardinality(R) + 2 * Cardinality(W) <= 2 * Cardinality(D) + Cardinality(C)
           /\ Cardinality(R) + 2 * Cardinality(W) >= 2 * Cardinality(D) + Cardinality(C) => R = C /\ W = D
<1>1. /\ Cardinality(R) <= Cardinality(C) /\ Cardinality(W) <= Cardinality(D)
      /\ IsFiniteSet(R) /\ IsFiniteSet(W)
      /\ (Cardinality(C) = Cardinality(R) => C = R) /\ (Cardinality(D) = Cardinality(W) => D = W)
  BY FS_Subset
<1>2. /\ Cardinality(R) \in Nat /\ Cardinality(C) \in Nat
      /\ Cardinality(W) \in Nat /\ Cardinality(D) \in Nat
  BY <1>1, FS_CardinalityType
<1>3. QED
  BY <1>1, <1>2

\* A bit that an FMMU ties to the slave lies in a byte of the FMMU.
LEMMA BitOfByte ==
    ASSUME MapInv, NEW s \in Slave, NEW d \in Dirs, NEW i \in DOMAIN fmmu[s][d],
           NEW l \in LogBits(fmmu[s][d][i])
    PROVE  l \in Nat /\ l \div 8 \in FmmuBytes(s, d)
<1> DEFINE f == fmmu[s][d][i]
<1>1. fmmu[s][d] \in Seq(Fmmu)
  BY DEF MapInv, FmmuOK, Fmmus
<1>2. f \in Fmmu /\ f \in ToSet(fmmu[s][d])
  BY <1>1 DEF ToSet
<1>3. /\ f.LogStart \in Nat /\ f.LogStartbit \in 0 .. 7 /\ f.LogLength \in Nat \ {0} /\ f.LogEndbit \in 0 .. 7
  BY <1>2 DEF Fmmu
<1>4. l \in 8 * f.LogStart + f.LogStartbit .. 8 * (f.LogStart + f.LogLength - 1) + f.LogEndbit
  BY DEF LogBits
<1>5. l \div 8 \in f.LogStart .. f.LogStart + f.LogLength - 1 /\ l \in Nat
  <2> HIDE DEF f
  <2>1. QED
    BY <1>3, <1>4
<1>6. QED
  BY <1>2, <1>5 DEF FmmuBytes

LEMMA PointedByte ==
    ASSUME ImageInv, SmallImage, PointerMeetsData, phase = "mapped",
           NEW s \in Slave, NEW d \in Dirs, NEW k \in DataBits(s, d)
    PROVE  \E b \in FmmuBytes(s, d) :
             /\ b \in Nat /\ LogicalByte(s, d, k) = {b} /\ s \in Contributors(d)
             /\ PointerByte(s, d, k) = b + (IF d = "in" THEN Back ELSE 0)
<1> DEFINE moved == IF overlap /\ d = "in" THEN group.Obytes ELSE 0
           p == PointerBit(s, d)
           l == p + k - 8 * moved
<1>1. bitsOf(s, d) \in Nat /\ MapInv /\ group.Obytes \in Nat
  BY MappedImage DEF ImageInv, MapInv, ListOK
<1>2. k \in Nat /\ bitsOf(s, d) > 0
  BY <1>1 DEF DataBits
<1>3. LogicalOf(s, d, k) = {l}
  <2>1. LogicalOf(s, d, k) = {PointerBit(s, d) + k - IF overlap /\ d = "in" THEN 8 * group.Obytes ELSE 0}
    BY DEF PointerMeetsData
  <2>2. (IF overlap /\ d = "in" THEN 8 * group.Obytes ELSE 0) = 8 * moved
    OBVIOUS
  <2>3. QED
    BY <2>1, <2>2
<1>4. PICK i \in DOMAIN fmmu[s][d] : l \in LogBits(fmmu[s][d][i])
  <2>1. l \in LogicalOf(s, d, k)
    BY <1>3
  <2>2. QED
    BY <2>1 DEF LogicalOf
<1>5. l \in Nat /\ l \div 8 \in FmmuBytes(s, d)
  BY <1>1, <1>4, BitOfByte
<1>6. p \in Nat /\ moved \in Nat
  <2> DEFINE f == fmmu[s][d][1]
  <2>1. Done(s, d) /\ fmmu[s][d] # <<>>
    BY <1>1, <1>2 DEF Done, MapInv, HasFmmu, NoFmmu
  <2>2. f \in Fmmu
    BY <1>1, <2>1 DEF MapInv, FmmuOK, Fmmus
  <2>3. f.LogStart \in Nat /\ f.LogStartbit \in Nat
    BY <2>2 DEF Fmmu
  <2>4. p = 8 * (moved + f.LogStart) + f.LogStartbit
    BY DEF PointerBit
  <2>5. moved \in Nat
    BY <1>1
  <2> HIDE DEF f, moved, p
  <2>6. QED
    BY <2>3, <2>4, <2>5
<1>7. (p + k) \div 8 = (l \div 8) + moved
  <2> HIDE DEF p, moved
  <2>1. QED
    BY <1>2, <1>5, <1>6
<1>8. moved = IF d = "in" THEN Back ELSE 0
  BY DEF Back
<1>9. LogicalByte(s, d, k) = {l \div 8} /\ PointerByte(s, d, k) = (p + k) \div 8
  BY <1>3 DEF LogicalByte, PointerByte
<1>10. s \in Contributors(d)
  BY <1>1, <1>5, TouchedContributes
<1>11. l \div 8 \in Nat
  <2> HIDE DEF l
  <2>1. QED
    BY <1>5
<1> HIDE DEF l, p, moved
<1>12. QED
  BY <1>5, <1>7, <1>8, <1>9, <1>10, <1>11

LEMMA WkcProves ==
    ASSUME ImageInv, SentInv, WkcInv, Exchangeable
    PROVE  CountsOnce /\ (PointerMeetsData => WkcProvesExchange)
<1> SUFFICES ASSUME Received
             PROVE  /\ wkc <= expectedWKC
                    /\ PointerMeetsData /\ wkc >= expectedWKC =>
                         \A s \in Slave : /\ \A k \in DataBits(s, "in") : InputFresh(s, k)
                                          /\ \A k \in DataBits(s, "out") : OutputTaken(s, k)
  BY DEF CountsOnce, WkcProvesExchange
<1> DEFINE C == Contributors("in")
           D == Contributors("out")
<1>1. cycle > 0 /\ stage # "sent" /\ phase = "mapped" /\ SmallImage
  BY DEF Received, SentInv, Exchangeable
<1>2. wkc = NoFrame \/ \E R, W : Accounted(R, W)
  BY <1>1 DEF WkcInv
<1>3. IsFiniteSet(C) /\ IsFiniteSet(D)
  <2>1. Slaves \in Nat /\ C \in SUBSET Slave /\ D \in SUBSET Slave
    BY DEF ImageInv, MapInv, ListOK, Contributors
  <2>2. IsFiniteSet(Slave)
    BY <2>1, FS_Interval DEF Slave
  <2>3. QED
    BY <2>1, <2>2, FS_Subset
<1>4. expectedWKC = 2 * Cardinality(D) + Cardinality(C) /\ Cardinality(C) \in Nat /\ Cardinality(D) \in Nat
  BY <1>3, FS_CardinalityType DEF ImageInv, GroupInv, CountersOK, expectedWKC
<1>5. CASE wkc = NoFrame
  <2>1. wkc <= expectedWKC /\ ~ (wkc >= expectedWKC)
    <3>1. wkc = -1
      BY <1>5 DEF NoFrame
    <3> HIDE DEF C, D
    <3>2. QED
      BY <1>4, <3>1
  <2>2. QED
    BY <2>1
<1>6. CASE \E R, W : Accounted(R, W)
  <2>1. PICK R, W : Accounted(R, W)
    BY <1>6
  <2>2. R \in SUBSET C /\ W \in SUBSET D /\ wkc = Cardinality(R) + 2 * Cardinality(W)
    BY <2>1 DEF Accounted
  <2>3. wkc <= expectedWKC /\ (wkc >= expectedWKC => R = C /\ W = D)
    BY <1>3, <1>4, <2>2, AllCounted
  <2> SUFFICES ASSUME PointerMeetsData, wkc >= expectedWKC, NEW s \in Slave
               PROVE  /\ \A k \in DataBits(s, "in") : InputFresh(s, k)
                      /\ \A k \in DataBits(s, "out") : OutputTaken(s, k)
    BY <2>3
  <2>4. "in" \in Dirs /\ "out" \in Dirs
    BY DEF Dirs
  <2>5. ASSUME NEW k \in DataBits(s, "in") PROVE InputFresh(s, k)
    <3>1. PICK b \in FmmuBytes(s, "in") :
             /\ b \in Nat /\ LogicalByte(s, "in", k) = {b} /\ s \in C
             /\ PointerByte(s, "in", k) = b + Back
      BY <1>1, <2>4, PointedByte
    <3>2. FreshByte(s, b)
      BY <2>1, <2>3, <3>1 DEF Accounted
    <3>3. PICK S : s \in S /\ image[b + Back] = <<b, S>> /\ b + Back \in DOMAIN image
      BY <3>2 DEF FreshByte
    <3>4. <<b, S>> # NoByte /\ <<b, S>>[1] = b /\ <<b, S>>[2] = S
      BY DEF NoByte
    <3>5. QED
      BY <3>1, <3>3, <3>4 DEF InputFresh
  <2>6. ASSUME NEW k \in DataBits(s, "out") PROVE OutputTaken(s, k)
    <3>1. PICK b \in FmmuBytes(s, "out") :
             /\ b \in Nat /\ LogicalByte(s, "out", k) = {b} /\ s \in D
             /\ PointerByte(s, "out", k) = b
      <4>1. \A b \in Nat : b + 0 = b
        OBVIOUS
      <4>2. QED
        BY <1>1, <2>4, <4>1, PointedByte
    <3>2. TakenByte(s, b)
      BY <2>1, <2>3, <3>1 DEF Accounted
    <3>3. PICK S : /\ s \in S /\ <<b, b, S>> \in carried
                   /\ \A c \in carried : c[1] = b \/ c[2] = b => c = <<b, b, S>>
      BY <3>2 DEF TakenByte
    <3>4. {c \in carried : c[2] \in LogicalByte(s, "out", k) /\ s \in c[3]} = {<<b, b, S>>}
      BY <3>1, <3>3
    <3>5. <<b, b, S>> \in {d \in carried : d[1] = PointerByte(s, "out", k)}
      BY <3>1, <3>3
    <3>6. QED
      BY <3>4, <3>5 DEF OutputTaken
  <2>7. QED
    BY <2>5, <2>6
<1>7. QED
  BY <1>2, <1>5, <1>6

\* A counter that reaches expectedWKC proves the exchange: when every frame of a
\* cycle came back and the slaves counted as often as ecx_config_map_group expects,
\* each of them took all of its outputs of this cycle and put all of its inputs of
\* this cycle into the answer; and the counter never passes that number.
THEOREM WorkCounterProves ==
    ASSUME RealNetworks, SlavesFit
    PROVE  ExchangeSpec => [](/\ Exchangeable => CountsOnce
                              /\ Exchangeable /\ PointerMeetsData => WkcProvesExchange)
<1> DEFINE Proves == /\ Exchangeable => CountsOnce
                     /\ Exchangeable /\ PointerMeetsData => WkcProvesExchange
<1>1. ExchangeInit => SentInv /\ WkcInv
  <2>1. ExchangeInit => WkcInv
    BY DEF ExchangeInit, WkcInv
  <2>2. QED
    BY <2>1, InitSentInv
<1>2. ImageInv /\ SentInv /\ WkcInv /\ [ExchangeNext]_allVars => SentInv' /\ WkcInv'
  BY NextSentInv, NextWkcInv
<1>3. ExchangeSpec => []ImageInv
  BY ImageInvariant, ExchangeMaps, PTL
<1>4. ImageInv /\ SentInv /\ WkcInv => Proves
  BY WkcProves
<1>5. QED
  BY <1>1, <1>2, <1>3, <1>4, PTL DEF ExchangeSpec

--------------------------------------------------------------------------------
(* The pointers of the program meet the process data. *)

\* The sync managers of a slave lie in the order of their addresses, and memory
\* that is none of the process data lies between two of them at most once: what
\* two FMMUs for each direction can cover.
Gap(sm, k) == EndAddr(sm[k]) < sm[k + 1].start
TwoRuns(sm) ==
    /\ \A k \in 1 .. Len(sm) - 1 : EndAddr(sm[k]) <= sm[k + 1].start
    /\ \A j, k \in 1 .. Len(sm) - 1 : Gap(sm, j) /\ Gap(sm, k) => j = k

\* DataBit for the sync managers of one slave.
DataOf(sm, k) ==
    LET i == CHOOSE i \in DOMAIN sm : 8 * SumLen(sm, 1, i - 1) <= k /\ k < 8 * SumLen(sm, 1, i)
    IN 8 * sm[i].start + k - 8 * SumLen(sm, 1, i - 1)

\* L[k] is the length of the first k sync managers.
Ends(sm, L) == Sums(Len(sm), Lengths(sm), L) /\ \A k \in 0 .. Len(sm) : SumLen(sm, 1, k) = L[k]

LEMMA EndsType ==
    ASSUME NEW sm \in SyncManagers, NEW L, Ends(sm, L)
    PROVE  /\ Len(sm) \in Nat /\ DOMAIN sm = 1 .. Len(sm)
           /\ L[0] = 0
           /\ \A k \in 0 .. Len(sm) : L[k] \in Nat
           /\ \A k \in 1 .. Len(sm) : /\ L[k] = L[k - 1] + sm[k].len
                                      /\ sm[k].start \in Nat /\ sm[k].len \in Nat \ {0}
                                      /\ EndAddr(sm[k]) = sm[k].start + sm[k].len
           /\ \A i \in 0 .. Len(sm) : \A j \in i .. Len(sm) : L[i] <= L[j]
<1>1. Len(sm) \in Nat /\ DOMAIN sm = 1 .. Len(sm) /\ sm \in Seq(SyncManager)
  BY DEF SyncManagers
<1>2. L[0] = 0 /\ \A k \in 0 .. Len(sm) : L[k] \in Nat
  BY DEF Ends, Sums
<1>3. ASSUME NEW k \in 1 .. Len(sm)
      PROVE  /\ L[k] = L[k - 1] + sm[k].len
             /\ sm[k].start \in Nat /\ sm[k].len \in Nat \ {0}
             /\ EndAddr(sm[k]) = sm[k].start + sm[k].len
  <2>1. sm[k].start \in Nat /\ sm[k].len \in Nat \ {0} /\ EndAddr(sm[k]) = sm[k].start + sm[k].len
    BY <1>1, EndAddrType
  <2>2. k - 1 \in 0 .. Len(sm) - 1 /\ (k - 1) + 1 = k
    BY <1>1
  <2>3. L[(k - 1) + 1] = L[k - 1] + Lengths(sm)[(k - 1) + 1]
    BY <2>2, Zenon DEF Ends, Sums
  <2>4. Lengths(sm)[k] = sm[k].len
    BY DEF Lengths
  <2>5. QED
    BY <2>1, <2>2, <2>3, <2>4
<1>4. Lengths(sm) \in [1 .. Len(sm) -> Nat]
  <2>1. \A k \in 1 .. Len(sm) : sm[k].len \in Nat
    BY <1>3
  <2>2. QED
    BY <2>1, Zenon DEF Lengths
<1>5. \A i \in 0 .. Len(sm) : \A j \in i .. Len(sm) : L[i] <= L[j]
  <2>1. Sums(Len(sm), Lengths(sm), L)
    BY DEF Ends
  <2>2. QED
    BY <1>1, <1>4, <2>1, SumsMonotonic, Zenon
<1>6. QED
  BY <1>1, <1>2, <1>3, <1>5

\* Where the k-th bit lies when the i-th sync manager holds it.
LEMMA DataAt ==
    ASSUME NEW sm \in SyncManagers, NEW L, Ends(sm, L),
           NEW i \in 1 .. Len(sm), NEW k \in Nat, 8 * L[i - 1] <= k, k < 8 * L[i]
    PROVE  DataOf(sm, k) = 8 * sm[i].start + k - 8 * L[i - 1]
<1> DEFINE Holds(j) == 8 * SumLen(sm, 1, j - 1) <= k /\ k < 8 * SumLen(sm, 1, j)
<1>1. Len(sm) \in Nat /\ DOMAIN sm = 1 .. Len(sm)
  BY EndsType
<1>2. /\ \A j \in 0 .. Len(sm) : L[j] \in Nat
      /\ \A a \in 0 .. Len(sm) : \A b \in a .. Len(sm) : L[a] <= L[b]
  BY EndsType, Zenon
<1>3. \A j \in 0 .. Len(sm) : SumLen(sm, 1, j) = L[j]
  BY DEF Ends
<1>4. \A j \in 1 .. Len(sm) : Holds(j) <=> 8 * L[j - 1] <= k /\ k < 8 * L[j]
  <2> SUFFICES ASSUME NEW j \in 1 .. Len(sm) PROVE Holds(j) <=> 8 * L[j - 1] <= k /\ k < 8 * L[j]
    OBVIOUS
  <2>1. j - 1 \in 0 .. Len(sm) /\ j \in 0 .. Len(sm)
    BY <1>1
  <2>2. SumLen(sm, 1, j - 1) = L[j - 1] /\ SumLen(sm, 1, j) = L[j]
    BY <1>3, <2>1
  <2>3. QED
    BY <2>2, Zenon
<1>5. Holds(i)
  BY <1>4, Zenon
<1>6. ASSUME NEW j \in 1 .. Len(sm), Holds(j) PROVE j = i
  <2>1. 8 * L[j - 1] <= k /\ k < 8 * L[j]
    BY <1>4, <1>6, Zenon
  <2>2. /\ i - 1 \in 0 .. Len(sm) /\ i \in 0 .. Len(sm) /\ j - 1 \in 0 .. Len(sm) /\ j \in 0 .. Len(sm)
        /\ j < i => i - 1 \in j .. Len(sm)
        /\ i < j => j - 1 \in i .. Len(sm)
    BY <1>1
  <2>3. j < i => L[j] <= L[i - 1]
    BY <1>2, <2>2
  <2>4. i < j => L[i] <= L[j - 1]
    BY <1>2, <2>2
  <2>5. L[i - 1] \in Nat /\ L[i] \in Nat /\ L[j - 1] \in Nat /\ L[j] \in Nat
    BY <1>2, <2>2
  <2> HIDE DEF Holds
  <2>8. ~ (j < i)
    BY <2>1, <2>3, <2>5
  <2>9. ~ (i < j)
    BY <2>1, <2>4, <2>5
  <2>6. ~ (j < i) /\ ~ (i < j)
    BY <2>8, <2>9
  <2>7. QED
    BY <1>1, <2>6
<1>7. (CHOOSE j \in DOMAIN sm : Holds(j)) = i
  <2> HIDE DEF Holds
  <2>1. QED
    BY <1>1, <1>5, <1>6
<1>8. DataOf(sm, k) = 8 * sm[i].start + k - 8 * SumLen(sm, 1, i - 1)
  BY <1>7, Zenon DEF DataOf
<1>9. SumLen(sm, 1, i - 1) = L[i - 1]
  BY <1>1, <1>3
<1>10. QED
  BY <1>8, <1>9

\* Every bit is in one of them.
LEMMA HeldBit ==
    ASSUME NEW sm \in SyncManagers, NEW L, Ends(sm, L),
           NEW k \in Nat, k < 8 * L[Len(sm)]
    PROVE  \E i \in 1 .. Len(sm) : 8 * L[i - 1] <= k /\ k < 8 * L[i]
<1>1. Len(sm) \in Nat /\ L[0] = 0 /\ \A j \in 0 .. Len(sm) : L[j] \in Nat
  BY EndsType, Zenon
<1> DEFINE S == {j \in 1 .. Len(sm) : k < 8 * L[j]}
<1>2. S \in SUBSET Nat /\ Len(sm) \in S
  <2>1. Len(sm) # 0
    BY <1>1
  <2>2. QED
    BY <1>1, <2>1
<1>3. PICK i \in S : \A j \in S : i <= j
  <2> HIDE DEF S
  <2>1. QED
    BY <1>2, LeastNatural
<1>4. i \in 1 .. Len(sm) /\ k < 8 * L[i]
  OBVIOUS
<1>5. 8 * L[i - 1] <= k
  <2>1. CASE i = 1
    BY <1>1, <2>1
  <2>2. CASE i # 1
    <3>1. i - 1 \in 1 .. Len(sm) /\ ~ (i <= i - 1) /\ i - 1 \in 0 .. Len(sm)
      BY <1>1, <1>4, <2>2
    <3>2. i - 1 \notin S
      BY <1>3, <3>1
    <3>3. ~ (k < 8 * L[i - 1]) /\ L[i - 1] \in Nat
      BY <1>1, <3>1, <3>2
    <3>4. QED
      BY <3>3
  <2>3. QED
    BY <2>1, <2>2
<1>6. QED
  BY <1>4, <1>5

LEMMA RunStarts ==
    ASSUME NEW sm \in SyncManagers, NEW L, Ends(sm, L),
           NEW i \in 1 .. Len(sm), NEW j \in i .. Len(sm),
           \A k \in i .. j - 1 : sm[k + 1].start = EndAddr(sm[k])
    PROVE  \A p \in i .. j : sm[p].start + L[i - 1] = sm[i].start + L[p - 1]
<1> DEFINE S == {t \in Nat : sm[i + t].start + L[i - 1] = sm[i].start + L[(i + t) - 1]}
<1>1. /\ Len(sm) \in Nat
      /\ \A k \in 0 .. Len(sm) : L[k] \in Nat
      /\ \A k \in 1 .. Len(sm) : /\ L[k] = L[k - 1] + sm[k].len
                                 /\ sm[k].start \in Nat /\ sm[k].len \in Nat \ {0}
                                 /\ EndAddr(sm[k]) = sm[k].start + sm[k].len
  BY EndsType, Zenon
<1>2. 0 \in S
  <2>1. i + 0 = i
    OBVIOUS
  <2>2. QED
    BY <2>1
<1>3. ASSUME NEW t \in 0 .. (j - i) - 1, t \in S PROVE t + 1 \in S
  <2> DEFINE p == i + t
  <2>1. /\ p \in i .. j - 1 /\ p \in 1 .. Len(sm) /\ p + 1 \in 1 .. Len(sm)
        /\ p - 1 \in 0 .. Len(sm) /\ i - 1 \in 0 .. Len(sm)
        /\ i + (t + 1) = p + 1 /\ (p + 1) - 1 = p /\ t + 1 \in Nat
    BY <1>1
  <2>2. sm[p].start + L[i - 1] = sm[i].start + L[p - 1]
    BY <1>3
  <2> HIDE DEF p
  <2>3. sm[p + 1].start = sm[p].start + sm[p].len
    BY <1>1, <2>1
  <2>4. L[p] = L[p - 1] + sm[p].len
    BY <1>1, <2>1
  <2>5. sm[p].start \in Nat /\ sm[i].start \in Nat /\ sm[p].len \in Nat /\ L[p - 1] \in Nat /\ L[i - 1] \in Nat
    BY <1>1, <2>1
  <2>6. sm[p + 1].start + L[i - 1] = sm[i].start + L[p]
    <3> DEFINE a == sm[p].start
               b == L[i - 1]
               c == sm[p].len
               e == sm[i].start
               f == L[p - 1]
    <3>1. a \in Nat /\ b \in Nat /\ c \in Nat /\ e \in Nat /\ f \in Nat /\ a + b = e + f
      BY <2>2, <2>5
    <3>2. sm[p + 1].start = a + c /\ L[p] = f + c
      BY <2>3, <2>4
    <3> HIDE DEF a, b, c, e, f
    <3>3. (a + c) + b = e + (f + c)
      BY <3>1
    <3>4. sm[p + 1].start + b = e + L[p]
      BY <3>2, <3>3, Zenon
    <3>5. QED
      BY <3>4 DEF b, e
  <2>7. QED
    BY <2>1, <2>6
<1>4. 0 .. j - i \subseteq S
  <2> HIDE DEF S
  <2>1. j - i \in Nat
    BY <1>1
  <2>2. QED
    BY <1>2, <1>3, <2>1, InductionTo
<1>5. ASSUME NEW p \in i .. j PROVE sm[p].start + L[i - 1] = sm[i].start + L[p - 1]
  <2>1. p - i \in 0 .. j - i /\ i + (p - i) = p
    BY <1>1
  <2>2. p - i \in S
    BY <1>4, <2>1
  <2>3. QED
    BY <2>1, <2>2
<1>6. QED
  BY <1>5

\* Sync managers that connect hold their bits in one piece of memory.
LEMMA RunData ==
    ASSUME NEW sm \in SyncManagers, NEW L, Ends(sm, L),
           NEW i \in 1 .. Len(sm), NEW j \in i .. Len(sm),
           \A k \in i .. j - 1 : sm[k + 1].start = EndAddr(sm[k]),
           NEW q \in Nat, 8 * L[i - 1] + q < 8 * L[j]
    PROVE  DataOf(sm, 8 * L[i - 1] + q) = 8 * sm[i].start + q
<1> DEFINE k == 8 * L[i - 1] + q
<1>1. Len(sm) \in Nat /\ (\A a \in 0 .. Len(sm) : L[a] \in Nat) /\ \A a \in 1 .. Len(sm) : sm[a].start \in Nat
  BY EndsType, Zenon
<1>2. \A a \in 0 .. Len(sm) : \A b \in a .. Len(sm) : L[a] <= L[b]
  BY EndsType, Zenon
<1>3. /\ i - 1 \in 0 .. Len(sm) /\ j \in 0 .. Len(sm) /\ Len(sm) \in j .. Len(sm)
      /\ L[i - 1] \in Nat /\ L[j] \in Nat /\ L[Len(sm)] \in Nat /\ L[j] <= L[Len(sm)]
  BY <1>1, <1>2
<1>4. k \in Nat /\ k < 8 * L[j] /\ k < 8 * L[Len(sm)] /\ 8 * L[i - 1] <= k /\ k - 8 * L[i - 1] = q
  BY <1>3, SMTT(30)
<1> HIDE DEF k
<1>5. PICK p \in 1 .. Len(sm) : 8 * L[p - 1] <= k /\ k < 8 * L[p]
  BY <1>4, HeldBit
<1>6. p \in 0 .. Len(sm) /\ p - 1 \in 0 .. Len(sm) /\ L[p] \in Nat /\ L[p - 1] \in Nat
  BY <1>1
<1>7. ~ (p < i)
  <2> SUFFICES ASSUME p < i PROVE FALSE
    OBVIOUS
  <2>1. i - 1 \in p .. Len(sm)
    BY <1>1
  <2>2. L[p] <= L[i - 1]
    BY <1>2, <1>6, <2>1
  <2>3. QED
    BY <1>3, <1>4, <1>5, <1>6, <2>2, SMTT(30)
<1>8. ~ (j < p)
  <2> SUFFICES ASSUME j < p PROVE FALSE
    OBVIOUS
  <2>1. p - 1 \in j .. Len(sm)
    BY <1>1
  <2>2. L[j] <= L[p - 1]
    BY <1>2, <1>3, <2>1
  <2>3. \A a, b, c \in Nat : a <= b /\ 8 * b <= c => ~ (c < 8 * a)
    OBVIOUS
  <2>4. QED
    BY <1>3, <1>4, <1>5, <1>6, <2>2, <2>3, Zenon
<1>9. p \in i .. j
  BY <1>1, <1>7, <1>8
<1>10. sm[p].start + L[i - 1] = sm[i].start + L[p - 1]
  BY <1>9, RunStarts
<1>11. DataOf(sm, k) = 8 * sm[p].start + k - 8 * L[p - 1]
  BY <1>4, <1>5, DataAt
<1>12. sm[p].start \in Nat /\ sm[i].start \in Nat
  BY <1>1
<1>13. DataOf(sm, k) = 8 * sm[i].start + q
  <2> DEFINE a == sm[p].start
             b == L[i - 1]
             c == sm[i].start
             e == L[p - 1]
  <2>1. a \in Nat /\ b \in Nat /\ c \in Nat /\ e \in Nat /\ k \in Nat /\ k - 8 * b = q /\ a + b = c + e
    BY <1>3, <1>4, <1>6, <1>10, <1>12
  <2>2. DataOf(sm, k) = 8 * a + k - 8 * e
    BY <1>11
  <2> HIDE DEF a, b, c, e
  <2>3. 8 * a + k - 8 * e = 8 * c + q
    BY <2>1
  <2>4. QED
    BY <2>2, <2>3, Zenon DEF c
<1>14. QED
  BY <1>13 DEF k

LEMMA StartsInOrder ==
    ASSUME NEW sm \in SyncManagers, TwoRuns(sm), NEW p \in 1 .. Len(sm), NEW q \in p + 1 .. Len(sm)
    PROVE  EndAddr(sm[p]) <= sm[q].start
<1> DEFINE S == {t \in Nat : EndAddr(sm[p]) <= sm[(p + 1) + t].start}
<1>1. Len(sm) \in Nat /\ sm \in Seq(SyncManager)
  BY DEF SyncManagers
<1>2. \A k \in 1 .. Len(sm) : sm[k].start \in Nat /\ EndAddr(sm[k]) \in Nat /\ sm[k].start <= EndAddr(sm[k])
  <2> SUFFICES ASSUME NEW k \in 1 .. Len(sm)
               PROVE  sm[k].start \in Nat /\ EndAddr(sm[k]) \in Nat /\ sm[k].start <= EndAddr(sm[k])
    OBVIOUS
  <2>1. sm[k].start \in Nat /\ sm[k].len \in Nat \ {0} /\ EndAddr(sm[k]) = sm[k].start + sm[k].len
    BY <1>1, EndAddrType
  <2>2. QED
    BY <2>1
<1>3. \A k \in 1 .. Len(sm) - 1 : EndAddr(sm[k]) <= sm[k + 1].start
  BY DEF TwoRuns
<1>4. 0 \in S
  <2>1. p \in 1 .. Len(sm) - 1 /\ (p + 1) + 0 = p + 1
    BY <1>1
  <2>2. QED
    BY <1>3, <2>1
<1>5. ASSUME NEW t \in 0 .. (q - (p + 1)) - 1, t \in S PROVE t + 1 \in S
  <2> DEFINE r == (p + 1) + t
  <2>1. /\ r \in 1 .. Len(sm) - 1 /\ r \in 1 .. Len(sm) /\ r + 1 \in 1 .. Len(sm)
        /\ (p + 1) + (t + 1) = r + 1 /\ t + 1 \in Nat
    BY <1>1
  <2>2. EndAddr(sm[p]) <= sm[r].start
    BY <1>5
  <2> HIDE DEF r
  <2>3. EndAddr(sm[r]) <= sm[r + 1].start
    BY <1>3, <2>1
  <2>4. EndAddr(sm[p]) \in Nat /\ sm[r].start \in Nat /\ EndAddr(sm[r]) \in Nat /\ sm[r + 1].start \in Nat
        /\ sm[r].start <= EndAddr(sm[r])
    BY <1>2, <2>1
  <2>5. EndAddr(sm[p]) <= sm[r + 1].start
    BY <2>2, <2>3, <2>4
  <2>6. QED
    BY <2>1, <2>5
<1>6. 0 .. q - (p + 1) \subseteq S
  <2> HIDE DEF S
  <2>1. q - (p + 1) \in Nat
    BY <1>1
  <2>2. QED
    BY <1>4, <1>5, <2>1, InductionTo
<1>7. q - (p + 1) \in 0 .. q - (p + 1) /\ (p + 1) + (q - (p + 1)) = q
  BY <1>1
<1>8. q - (p + 1) \in S
  BY <1>6, <1>7
<1>9. QED
  BY <1>7, <1>8

\* The bits of the process data lie in the order in which the program counts them.
LEMMA DataInOrder ==
    ASSUME NEW sm \in SyncManagers, TwoRuns(sm), NEW L, Ends(sm, L),
           NEW k \in Nat, NEW l \in Nat, k < l, l < 8 * L[Len(sm)]
    PROVE  DataOf(sm, k) < DataOf(sm, l)
<1>1. /\ Len(sm) \in Nat
      /\ \A a \in 0 .. Len(sm) : L[a] \in Nat
      /\ \A a \in 1 .. Len(sm) : /\ L[a] = L[a - 1] + sm[a].len
                                 /\ sm[a].start \in Nat /\ sm[a].len \in Nat \ {0}
                                 /\ EndAddr(sm[a]) = sm[a].start + sm[a].len
  BY EndsType, Zenon
<1>2. \A a \in 0 .. Len(sm) : \A b \in a .. Len(sm) : L[a] <= L[b]
  BY EndsType, Zenon
<1>3. k < 8 * L[Len(sm)]
  <2>1. L[Len(sm)] \in Nat
    BY <1>1
  <2>2. QED
    BY <2>1
<1>4. PICK p \in 1 .. Len(sm) : 8 * L[p - 1] <= k /\ k < 8 * L[p]
  BY <1>3, HeldBit
<1>5. PICK q \in 1 .. Len(sm) : 8 * L[q - 1] <= l /\ l < 8 * L[q]
  BY HeldBit
<1>6. /\ p \in 0 .. Len(sm) /\ p - 1 \in 0 .. Len(sm) /\ L[p] \in Nat /\ L[p - 1] \in Nat
      /\ q \in 0 .. Len(sm) /\ q - 1 \in 0 .. Len(sm) /\ L[q] \in Nat /\ L[q - 1] \in Nat
  BY <1>1
<1>7. DataOf(sm, k) = 8 * sm[p].start + k - 8 * L[p - 1]
  BY <1>4, DataAt
<1>8. DataOf(sm, l) = 8 * sm[q].start + l - 8 * L[q - 1]
  BY <1>5, DataAt
<1>9. ~ (q < p)
  <2> SUFFICES ASSUME q < p PROVE FALSE
    OBVIOUS
  <2>1. p - 1 \in q .. Len(sm)
    BY <1>1
  <2>2. L[q] <= L[p - 1]
    BY <1>2, <1>6, <2>1
  <2>3. QED
    BY <1>4, <1>5, <1>6, <2>2
<1>10. /\ sm[p].start \in Nat /\ sm[q].start \in Nat /\ sm[p].len \in Nat
       /\ L[p] = L[p - 1] + sm[p].len /\ EndAddr(sm[p]) = sm[p].start + sm[p].len
  BY <1>1
<1>11. CASE p = q
  BY <1>6, <1>7, <1>8, <1>10, <1>11, SMTT(30)
<1>12. CASE p < q
  <2>1. q \in p + 1 .. Len(sm)
    BY <1>1, <1>12
  <2>2. EndAddr(sm[p]) <= sm[q].start
    BY <2>1, StartsInOrder
  <2>3. \A a, b, c, e, f, g, h, m \in Nat :
          /\ e < 8 * (c + b) /\ 8 * c <= e /\ a + b <= f /\ 8 * h <= m
          => 8 * a + e - 8 * c < 8 * f + m - 8 * h
    OBVIOUS
  <2>4. k < 8 * (L[p - 1] + sm[p].len) /\ sm[p].start + sm[p].len <= sm[q].start
    BY <1>4, <1>10, <2>2, Zenon
  <2>5. 8 * sm[p].start + k - 8 * L[p - 1] < 8 * sm[q].start + l - 8 * L[q - 1]
    BY <1>4, <1>5, <1>6, <1>10, <2>3, <2>4, Zenon
  <2>6. QED
    BY <1>7, <1>8, <2>5, Zenon
<1>13. QED
  BY <1>1, <1>9, <1>11, <1>12

\* FMMUs that tie the m logical bits from the first on to the first m data bits.
Tied(fs, sm, first, m) ==
    /\ \A i \in 1 .. Len(fs) : \A l \in LogBits(fs[i]) :
          l - first \in 0 .. m - 1 /\ PhysBit(fs[i], l) = DataOf(sm, l - first)
    /\ \A k \in 0 .. m - 1 : \E i \in 1 .. Len(fs) : first + k \in LogBits(fs[i])
    /\ fs # <<>> => FirstBit(fs[1]) = first

LEMMA BitsOfFmmu ==
    ASSUME NEW f
    PROVE  /\ LogBits(f) = FirstBit(f) .. LastBit(f)
           /\ \A l : PhysBit(f, l) = 8 * f.PhysStart + l - FirstBit(f)
BY DEF LogBits, PhysBit, FirstBit, LastBit

LEMMA TiedMore ==
    ASSUME NEW sm, NEW fs \in Fmmus, NEW first \in Nat, NEW m \in Nat, Tied(fs, sm, first, m),
           NEW f \in Fmmu, NEW more \in Nat \ {0},
           FirstBit(f) = first + m, LastBit(f) = first + m + more - 1,
           \A q \in 0 .. more - 1 : DataOf(sm, m + q) = 8 * f.PhysStart + q
    PROVE  Tied(Append(fs, f), sm, first, m + more)
<1> DEFINE gs == Append(fs, f)
<1>1. /\ gs \in Seq(Fmmu) /\ gs # <<>> /\ Len(gs) = Len(fs) + 1 /\ Len(fs) \in Nat
      /\ \A i \in 1 .. Len(gs) : gs[i] = IF i = Len(fs) + 1 THEN f ELSE fs[i]
  <2>1. fs \in Seq(Fmmu) /\ Len(fs) \in Nat
    BY DEF Fmmus
  <2>2. /\ Append(fs, f) \in Seq(Fmmu) /\ Append(fs, f) # <<>> /\ Len(Append(fs, f)) = Len(fs) + 1
        /\ \A i \in 1 .. Len(Append(fs, f)) : Append(fs, f)[i] = IF i = Len(fs) + 1 THEN f ELSE fs[i]
    BY <2>1, AppendElement
  <2>3. QED
    BY <2>1, <2>2
<1>2. fs # <<>> => Len(fs) >= 1
  BY <1>1 DEF Fmmus
<1> HIDE DEF gs
<1>3. LogBits(f) = first + m .. first + m + more - 1
  BY BitsOfFmmu, Zenon
<1>4. \A l : PhysBit(f, l) = 8 * f.PhysStart + l - (first + m)
  BY BitsOfFmmu, Zenon
<1>5. f.PhysStart \in Nat
  BY DEF Fmmu
<1>6. ASSUME NEW i \in 1 .. Len(gs), NEW l \in LogBits(gs[i])
      PROVE  l - first \in 0 .. (m + more) - 1 /\ PhysBit(gs[i], l) = DataOf(sm, l - first)
  <2>1. CASE i = Len(fs) + 1
    <3>1. gs[i] = f /\ l \in first + m .. first + m + more - 1
      BY <1>1, <1>3, <1>6, <2>1
    <3> DEFINE q == l - (first + m)
    <3>2. q \in 0 .. more - 1 /\ l - first = m + q /\ l - first \in 0 .. (m + more) - 1
      BY <3>1
    <3>3. PhysBit(f, l) = 8 * f.PhysStart + q
      BY <1>4, <1>5, <3>1
    <3> HIDE DEF q
    <3>4. DataOf(sm, m + q) = 8 * f.PhysStart + q
      BY <3>2
    <3>5. QED
      BY <3>1, <3>2, <3>3, <3>4, Zenon
  <2>2. CASE i # Len(fs) + 1
    <3>1. i \in 1 .. Len(fs) /\ gs[i] = fs[i]
      BY <1>1, <2>2
    <3>2. l - first \in 0 .. m - 1 /\ PhysBit(fs[i], l) = DataOf(sm, l - first)
      BY <1>6, <3>1, Zenon DEF Tied
    <3>3. 0 .. m - 1 \subseteq 0 .. (m + more) - 1
      OBVIOUS
    <3>4. QED
      BY <3>1, <3>2, <3>3, Zenon
  <2>3. QED
    BY <2>1, <2>2
<1>7. ASSUME NEW k \in 0 .. (m + more) - 1
      PROVE  \E i \in 1 .. Len(gs) : first + k \in LogBits(gs[i])
  <2>1. CASE k < m
    <3>1. k \in 0 .. m - 1
      BY <2>1
    <3>2. PICK i \in 1 .. Len(fs) : first + k \in LogBits(fs[i])
      BY <3>1, Zenon DEF Tied
    <3>3. i \in 1 .. Len(gs) /\ gs[i] = fs[i]
      BY <1>1
    <3>4. QED
      BY <3>2, <3>3
  <2>2. CASE ~ (k < m)
    <3>1. first + k \in first + m .. first + m + more - 1
      BY <2>2
    <3>2. Len(gs) \in 1 .. Len(gs) /\ gs[Len(gs)] = f
      BY <1>1
    <3>3. QED
      BY <1>3, <3>1, <3>2, Zenon
  <2>3. QED
    BY <2>1, <2>2
<1>8. FirstBit(gs[1]) = first
  <2>1. 1 \in 1 .. Len(gs)
    BY <1>1
  <2>2. CASE fs = <<>>
    <3>1. Len(fs) = 0 /\ gs[1] = f
      BY <1>1, <2>1, <2>2
    <3>2. m = 0
      <4> SUFFICES ASSUME m # 0 PROVE FALSE
        OBVIOUS
      <4>1. 0 \in 0 .. m - 1
        OBVIOUS
      <4>2. \E i \in 1 .. Len(fs) : first + 0 \in LogBits(fs[i])
        BY <4>1, Zenon DEF Tied
      <4>3. QED
        BY <3>1, <4>2
    <3>3. QED
      BY <3>1, <3>2
  <2>3. CASE fs # <<>>
    <3>1. gs[1] = fs[1]
      BY <1>1, <1>2, <2>1, <2>3
    <3>2. QED
      BY <2>3, <3>1, Zenon DEF Tied
  <2>4. QED
    BY <2>2, <2>3
<1>9. Tied(gs, sm, first, m + more)
  BY <1>6, <1>7, <1>8 DEF Tied
<1>10. QED
  BY <1>9 DEF gs

\* A bit of the data has one logical bit, as far from the first as the program
\* counts.
Meets(fs, sm, bits) ==
    \A k \in 0 .. bits - 1 :
        {l \in UNION {LogBits(fs[i]) : i \in DOMAIN fs} :
            \E i \in DOMAIN fs : l \in LogBits(fs[i]) /\ PhysBit(fs[i], l) = DataOf(sm, k)}
        = {FirstBit(fs[1]) + k}

LEMMA TiedMeets ==
    ASSUME NEW sm \in SyncManagers, TwoRuns(sm), NEW L, Ends(sm, L),
           NEW fs \in Fmmus, fs # <<>>, NEW first \in Nat, NEW m \in Nat, Tied(fs, sm, first, m),
           m <= 8 * L[Len(sm)], NEW bits \in Nat, bits <= m
    PROVE  Meets(fs, sm, bits)
<1> SUFFICES ASSUME NEW k \in 0 .. bits - 1
             PROVE  {l \in UNION {LogBits(fs[i]) : i \in DOMAIN fs} :
                       \E i \in DOMAIN fs : l \in LogBits(fs[i]) /\ PhysBit(fs[i], l) = DataOf(sm, k)}
                    = {FirstBit(fs[1]) + k}
  BY DEF Meets
<1>1. DOMAIN fs = 1 .. Len(fs)
  BY DEF Fmmus
<1>2. FirstBit(fs[1]) = first
  BY DEF Tied
<1>3. k \in 0 .. m - 1 /\ k \in Nat /\ (first + k) - first = k
  OBVIOUS
<1>4. L[Len(sm)] \in Nat
  <2>1. Len(sm) \in Nat /\ \A a \in 0 .. Len(sm) : L[a] \in Nat
    BY EndsType, Zenon
  <2>2. QED
    BY <2>1
<1>5. PICK i \in 1 .. Len(fs) : first + k \in LogBits(fs[i])
  BY <1>3, Zenon DEF Tied
<1>6. PhysBit(fs[i], first + k) = DataOf(sm, k)
  <2>1. PhysBit(fs[i], first + k) = DataOf(sm, (first + k) - first)
    BY <1>5, Zenon DEF Tied
  <2>2. QED
    BY <1>3, <2>1, Zenon
<1>7. ASSUME NEW j \in 1 .. Len(fs), NEW l \in LogBits(fs[j]), PhysBit(fs[j], l) = DataOf(sm, k)
      PROVE  l = first + k
  <2>1. l - first \in 0 .. m - 1 /\ DataOf(sm, l - first) = DataOf(sm, k)
    BY <1>7, Zenon DEF Tied
  <2> DEFINE h == l - first
  <2>2. l \in Int
    <3>1. fs[j] \in Fmmu
      BY DEF Fmmus
    <3>2. LogBits(fs[j]) = FirstBit(fs[j]) .. LastBit(fs[j])
      BY BitsOfFmmu, Zenon
    <3>3. FirstBit(fs[j]) \in Nat /\ LastBit(fs[j]) \in Int
      BY <3>1, FirstLast
    <3>4. QED
      BY <1>7, <3>2, <3>3
  <2>3. h \in Nat /\ h < 8 * L[Len(sm)] /\ k < 8 * L[Len(sm)] /\ l = first + h
    BY <1>3, <1>4, <2>1, <2>2
  <2>4. DataOf(sm, h) = DataOf(sm, k)
    BY <2>1
  <2> HIDE DEF h
  <2>5. \A a \in Nat : a < 8 * L[Len(sm)] => DataOf(sm, a) \in Int
    <3> SUFFICES ASSUME NEW a \in Nat, a < 8 * L[Len(sm)] PROVE DataOf(sm, a) \in Int
      OBVIOUS
    <3>1. PICK p \in 1 .. Len(sm) : 8 * L[p - 1] <= a /\ a < 8 * L[p]
      BY HeldBit
    <3>2. DataOf(sm, a) = 8 * sm[p].start + a - 8 * L[p - 1]
      BY <3>1, DataAt
    <3>3. Len(sm) \in Nat /\ (\A b \in 0 .. Len(sm) : L[b] \in Nat) /\ \A b \in 1 .. Len(sm) : sm[b].start \in Nat
      BY EndsType, Zenon
    <3> DEFINE b == sm[p].start
               c == L[p - 1]
    <3>4. b \in Nat /\ c \in Nat /\ DataOf(sm, a) = 8 * b + a - 8 * c
      BY <3>2, <3>3, SMTT(30)
    <3> HIDE DEF b, c
    <3>5. 8 * b + a - 8 * c \in Int
      BY <3>4
    <3>6. QED
      BY <3>4, <3>5, Zenon
  <2>6. ~ (h < k)
    <3> SUFFICES ASSUME h < k PROVE FALSE
      OBVIOUS
    <3>1. DataOf(sm, h) < DataOf(sm, k)
      BY <1>3, <2>3, DataInOrder, Zenon
    <3>2. DataOf(sm, h) \in Int
      BY <2>3, <2>5
    <3>3. QED
      BY <2>4, <3>1, <3>2
  <2>7. ~ (k < h)
    <3> SUFFICES ASSUME k < h PROVE FALSE
      OBVIOUS
    <3>1. DataOf(sm, k) < DataOf(sm, h)
      BY <1>3, <2>3, DataInOrder, Zenon
    <3>2. DataOf(sm, h) \in Int
      BY <2>3, <2>5
    <3>3. QED
      BY <2>4, <3>1, <3>2
  <2>8. QED
    BY <1>3, <2>3, <2>6, <2>7
<1>8. QED
  BY <1>1, <1>2, <1>5, <1>6, <1>7

\* The loop over the sync managers of a slave, as far as the pointers go: what it
\* mapped is tied, and when data is missing it stands behind the gap.
FreeBit(log, bit, bits) == IF bits > 7 THEN 8 * ByteEnd(log, bit) ELSE 8 * log + bit
MappedBits(bits, done) == IF bits > 7 THEN 8 * done ELSE IF done = 0 THEN 0 ELSE bits
Pointing(sm, bits, log, bit) ==
    {st \in Progress(sm, bits, log, bit) :
        /\ Tied(st.fmmus, sm, FreeBit(log, bit, bits), MappedBits(bits, st.done))
        /\ st.done < Goal(bits) => /\ st.done = SumLen(sm, 1, st.smc - 1)
                                   /\ st.smc > 1 => Gap(sm, st.smc - 1)}

\* The sync managers of one FMMU connect.
LEMMA RunConnects ==
    ASSUME NEW sm \in SyncManagers, TwoRuns(sm), NEW i \in 1 .. Len(sm), NEW j \in i .. Len(sm),
           \A k \in i .. j - 1 : sm[k + 1].start <= EndAddr(sm[k])
    PROVE  \A k \in i .. j - 1 : sm[k + 1].start = EndAddr(sm[k])
<1> SUFFICES ASSUME NEW k \in i .. j - 1 PROVE sm[k + 1].start = EndAddr(sm[k])
  OBVIOUS
<1>1. Len(sm) \in Nat /\ sm \in Seq(SyncManager)
  BY DEF SyncManagers
<1>2. k \in 1 .. Len(sm) - 1 /\ k \in 1 .. Len(sm) /\ k + 1 \in 1 .. Len(sm)
  BY <1>1
<1>3. sm[k + 1].start \in Nat /\ EndAddr(sm[k]) \in Nat
  BY <1>1, <1>2, EndAddrType, Zenon
<1>4. EndAddr(sm[k]) <= sm[k + 1].start /\ sm[k + 1].start <= EndAddr(sm[k])
  BY <1>2 DEF TwoRuns
<1>5. QED
  BY <1>3, <1>4

\* How much the FMMU of a run takes, and what is left for the next.
LEMMA RunSize ==
    ASSUME NEW sm \in SyncManagers, TwoRuns(sm), NEW L, Ends(sm, L),
           NEW bits \in Nat, bits > 7, HasRoom(sm, bits),
           NEW i \in 1 .. Len(sm), NEW done \in Nat, done < Goal(bits), done = L[i - 1],
           i > 1 => Gap(sm, i - 1),
           NEW j \in i .. Len(sm),
           j = Len(sm) \/ 8 * L[j] >= bits \/ sm[j + 1].start > EndAddr(sm[j]),
           NEW size, size = IF L[j] + done > Goal(bits) THEN Goal(bits) - done ELSE L[j]
    PROVE  /\ size \in Nat \ {0} /\ size <= L[j] - L[i - 1]
           /\ done + size < Goal(bits) => /\ done + size = L[j] /\ j < Len(sm)
                                          /\ Gap(sm, j)
<1>1. /\ Len(sm) \in Nat /\ L[0] = 0
      /\ \A a \in 0 .. Len(sm) : L[a] \in Nat
      /\ \A a \in 1 .. Len(sm) : L[a] = L[a - 1] + sm[a].len /\ sm[a].start \in Nat /\ sm[a].len \in Nat \ {0}
  BY EndsType, Zenon
<1>2. \A a \in 0 .. Len(sm) : \A b \in a .. Len(sm) : L[a] <= L[b]
  BY EndsType, Zenon
<1>3. /\ i \in Nat /\ j \in Nat /\ i >= 1 /\ j >= i /\ j <= Len(sm)
      /\ j \in 0 .. Len(sm) /\ j - 1 \in 0 .. Len(sm) /\ i - 1 \in 0 .. Len(sm) /\ j - 1 \in i - 1 .. Len(sm)
      /\ j \in 1 .. Len(sm) /\ Len(sm) \in 0 .. Len(sm)
  BY <1>1, SMTT(30)
<1>4. L[j] \in Nat /\ L[j] > L[i - 1] /\ L[i - 1] \in Nat
  <2>1. L[i - 1] <= L[j - 1]
    BY <1>2, <1>3
  <2>2. L[j] = L[j - 1] + sm[j].len /\ sm[j].len \in Nat \ {0}
    BY <1>1, <1>3
  <2>3. L[j] \in Nat /\ L[j - 1] \in Nat /\ L[i - 1] \in Nat
    BY <1>1, <1>3
  <2>4. QED
    BY <2>1, <2>2, <2>3, SMTT(30)
<1>5. Goal(bits) \in Nat /\ \A n \in Nat : 8 * n >= bits <=> n >= Goal(bits)
  BY GoalOf
<1>6. L[Len(sm)] \in Nat /\ L[Len(sm)] >= Goal(bits)
  <2>1. L[Len(sm)] \in Nat /\ SumLen(sm, 1, Len(sm)) = L[Len(sm)]
    BY <1>1, <1>3 DEF Ends
  <2>2. 8 * L[Len(sm)] >= bits
    BY <2>1 DEF HasRoom
  <2>3. QED
    BY <1>5, <2>1, <2>2
<1>7. L[j] < Goal(bits) => j < Len(sm) /\ Gap(sm, j)
  <2> SUFFICES ASSUME L[j] < Goal(bits) PROVE j < Len(sm) /\ Gap(sm, j)
    OBVIOUS
  <2>1. j # Len(sm)
    BY <1>4, <1>5, <1>6
  <2>2. ~ (8 * L[j] >= bits)
    BY <1>4, <1>5
  <2>3. sm[j + 1].start > EndAddr(sm[j])
    BY <2>1, <2>2
  <2>4. j + 1 \in 1 .. Len(sm) /\ j < Len(sm)
    BY <1>1, <1>3, <2>1, SMTT(30)
  <2>5. sm[j + 1].start \in Nat /\ EndAddr(sm[j]) \in Nat
    BY <1>3, <2>4, EndAddrType DEF SyncManagers
  <2>6. QED
    BY <2>3, <2>4, <2>5 DEF Gap
<1>8. CASE i = 1
  <2>1. done = 0 /\ L[i - 1] = 0
    BY <1>1, <1>8
  <2>2. size = IF L[j] > Goal(bits) THEN Goal(bits) ELSE L[j]
    BY <1>4, <1>5, <2>1
  <2>3. QED
    BY <1>4, <1>5, <1>7, <2>1, <2>2
<1>9. CASE i # 1
  <2>1. i > 1 /\ Gap(sm, i - 1)
    BY <1>3, <1>9
  <2>2. L[j] >= Goal(bits)
    <3> DEFINE x == L[j]
               g == Goal(bits)
    <3>0. x \in Nat /\ g \in Nat
      BY <1>4, <1>5
    <3> SUFFICES ASSUME x < g PROVE FALSE
      <4> HIDE DEF x, g
      <4>1. x < g \/ x >= g
        BY <3>0
      <4>2. QED
        BY <4>1 DEF x, g
    <3>1. j < Len(sm) /\ Gap(sm, j)
      BY <1>7
    <3>2. j \in 1 .. Len(sm) - 1 /\ i - 1 \in 1 .. Len(sm) - 1 /\ j # i - 1
      BY <1>1, <1>3, <2>1, <3>1
    <3>3. QED
      BY <2>1, <3>1, <3>2, Zenon DEF TwoRuns
  <2>3. done > 0
    <3>1. i - 1 \in 1 .. Len(sm) /\ (i - 1) - 1 \in 0 .. Len(sm)
      BY <1>1, <1>3, <2>1
    <3>2. L[i - 1] = L[(i - 1) - 1] + sm[i - 1].len /\ sm[i - 1].len \in Nat \ {0} /\ L[(i - 1) - 1] \in Nat
      BY <1>1, <3>1
    <3>3. QED
      BY <3>2
  <2> DEFINE x == L[j]
             y == L[i - 1]
             g == Goal(bits)
  <2>4. x \in Nat /\ y \in Nat /\ g \in Nat /\ x >= g /\ y < g /\ done = y /\ done > 0
        /\ size = IF x + done > g THEN g - done ELSE x
    BY <1>4, <1>5, <2>2, <2>3
  <2> HIDE DEF x, y, g
  <2>5. size \in Nat \ {0} /\ size <= x - y /\ ~ (done + size < g)
    BY <2>4
  <2>6. QED
    BY <2>5, Zenon DEF x, y, g
<1>10. QED
  BY <1>8, <1>9

RunAt(sm, L, bits, i, j, done, size) ==
    /\ sm \in SyncManagers /\ TwoRuns(sm) /\ Ends(sm, L)
    /\ bits \in Nat /\ bits > 7 /\ HasRoom(sm, bits)
    /\ i \in 1 .. Len(sm) /\ done \in Nat /\ done < Goal(bits) /\ done = L[i - 1]
    /\ i > 1 => Gap(sm, i - 1)
    /\ j \in i .. Len(sm)
    /\ j = Len(sm) \/ 8 * L[j] >= bits \/ sm[j + 1].start > EndAddr(sm[j])
    /\ size = IF L[j] + done > Goal(bits) THEN Goal(bits) - done ELSE L[j]

RunFits(sm, L, bits, i, j, done, size) ==
    /\ size \in Nat \ {0} /\ size <= L[j] - L[i - 1]
    /\ done + size < Goal(bits) => /\ done + size = L[j] /\ j < Len(sm)
                                   /\ Gap(sm, j)

LEMMA RunFitsHolds ==
    ASSUME NEW sm, NEW L, NEW bits, NEW i, NEW j, NEW done, NEW size,
           RunAt(sm, L, bits, i, j, done, size)
    PROVE  RunFits(sm, L, bits, i, j, done, size)
<1>1. /\ sm \in SyncManagers /\ TwoRuns(sm) /\ Ends(sm, L)
      /\ bits \in Nat /\ bits > 7 /\ HasRoom(sm, bits)
      /\ i \in 1 .. Len(sm) /\ done \in Nat /\ done < Goal(bits) /\ done = L[i - 1]
      /\ i > 1 => Gap(sm, i - 1)
      /\ j \in i .. Len(sm)
      /\ j = Len(sm) \/ 8 * L[j] >= bits \/ sm[j + 1].start > EndAddr(sm[j])
      /\ size = IF L[j] + done > Goal(bits) THEN Goal(bits) - done ELSE L[j]
  BY Zenon DEF RunAt
<1>2. /\ size \in Nat \ {0} /\ size <= L[j] - L[i - 1]
      /\ done + size < Goal(bits) => /\ done + size = L[j] /\ j < Len(sm)
                                     /\ Gap(sm, j)
  BY <1>1, RunSize, SMTT(30)
<1>3. QED
  BY <1>2, Zenon DEF RunFits

LEMMA TurnPoints ==
    ASSUME NEW sm \in SyncManagers, TwoRuns(sm), NEW bits \in Nat, bits > 0, HasRoom(sm, bits),
           NEW log \in Nat, NEW bit \in 0 .. 7,
           NEW st \in Pointing(sm, bits, log, bit), st.done < Goal(bits)
    PROVE  Turn(sm, bits, st) \in Pointing(sm, bits, log, bit)
<1>1. PICK L : Ends(sm, L)
  BY SumLenIsSum DEF SyncManagers, Ends
<1>2. /\ st \in Progress(sm, bits, log, bit)
      /\ Tied(st.fmmus, sm, FreeBit(log, bit, bits), MappedBits(bits, st.done))
      /\ st.done = SumLen(sm, 1, st.smc - 1)
      /\ st.smc > 1 => Gap(sm, st.smc - 1)
  BY DEF Pointing
<1>3. /\ st.done \in Nat /\ st.LogAddr \in Nat /\ st.BitPos \in 0 .. 7
      /\ st.fmmus \in Fmmus
      /\ st.smc \in 1 .. Len(sm)
  BY <1>2 DEF Progress, Fmmus
<1>4. Turn(sm, bits, st) \in Progress(sm, bits, log, bit)
  BY <1>2, TurnProgress, Zenon
<1> DEFINE i == st.smc
           last == RunEnd(sm, i, bits)
           phys == sm[i].start
<1>5. /\ last \in i .. Len(sm)
      /\ \A k \in i .. last - 1 : sm[k + 1].start <= EndAddr(sm[k])
      /\ last = Len(sm) \/ 8 * L[last] >= bits \/ sm[last + 1].start > EndAddr(sm[last])
  <2> HIDE DEF last
  <2>1. last = RunEnd(sm, i, bits)
    BY DEF last
  <2>2. Sums(Len(sm), Lengths(sm), L) /\ \A k \in 0 .. Len(sm) : SumLen(sm, 1, k) = L[k]
    BY <1>1 DEF Ends
  <2>3. QED
    BY <1>3, <2>1, <2>2, RunEndOf DEF SyncManagers
<1>6. /\ Len(sm) \in Nat
      /\ L[0] = 0
      /\ \A a \in 0 .. Len(sm) : L[a] \in Nat /\ SumLen(sm, 1, a) = L[a]
      /\ \A a \in 1 .. Len(sm) : L[a] = L[a - 1] + sm[a].len /\ sm[a].start \in Nat /\ sm[a].len \in Nat \ {0}
  BY <1>1, EndsType, ZenonT(60) DEF Ends
<1> DEFINE size == SizeOf(bytesOf(bits), SumLen(sm, 1, last), st.done)
           r == IF bytesOf(bits) = 0 THEN BitFmmu(st.LogAddr, st.BitPos, phys, bits)
                ELSE ByteFmmu(st.LogAddr, st.BitPos, phys, size)
           new == [fmmus |-> Append(st.fmmus, r.fmmu), done |-> st.done + r.fmmu.LogLength,
                   smc |-> last + 1, LogAddr |-> r.LogAddr, BitPos |-> r.BitPos]
<1>7. Turn(sm, bits, st) = new
  BY DEF Turn, MapFmmu
<1>8. /\ new.fmmus = Append(st.fmmus, r.fmmu) /\ new.done = st.done + r.fmmu.LogLength
      /\ new.smc = last + 1
  OBVIOUS
<1> HIDE DEF new
<1>9. phys \in Nat /\ i \in 1 .. Len(sm) /\ i \in Nat /\ i - 1 \in 0 .. Len(sm) /\ st.done = L[i - 1]
      /\ (i > 1 => Gap(sm, i - 1))
  <2>1. i \in 1 .. Len(sm) /\ i \in Nat /\ i - 1 \in 0 .. Len(sm)
    BY <1>3, <1>6
  <2>2. phys \in Nat
    BY <1>6, <2>1
  <2>3. SumLen(sm, 1, i - 1) = L[i - 1]
    BY <1>6, <2>1
  <2>4. QED
    BY <1>2, <2>1, <2>2, <2>3
<1>10. /\ last \in 1 .. Len(sm) /\ last \in 0 .. Len(sm) /\ last \in Nat /\ L[last] \in Nat
       /\ SumLen(sm, 1, last) = L[last]
  <2>1. last \in 1 .. Len(sm) /\ last \in 0 .. Len(sm) /\ last \in Nat
    <3> HIDE DEF last
    <3>1. QED
      BY <1>5, <1>6, <1>9
  <2>2. QED
    BY <1>6, <2>1
<1> HIDE DEF last, phys, i
<1>11. i = st.smc /\ phys = sm[i].start
  BY DEF i, phys
<1>12. CASE bits <= 7
  <2>1. bytesOf(bits) = 0 /\ Goal(bits) = 1 /\ bits \in 1 .. 7 /\ ~ (bits > 7)
    BY <1>12, GoalOf
  <2>2. st.done = 0
    BY <1>3, <2>1
  <2>3. st.LogAddr = log /\ st.BitPos = bit /\ st.fmmus = <<>> /\ i = 1
    BY <1>2, <1>11, <2>2 DEF Progress, Unmapped
  <2>4. r = BitFmmu(log, bit, phys, bits)
    BY <2>1, <2>3
  <2> HIDE DEF r
  <2>5. /\ r.fmmu \in Fmmu /\ r.fmmu.PhysStart = phys
        /\ FirstBit(r.fmmu) = 8 * log + bit /\ LastBit(r.fmmu) = 8 * log + bit + bits - 1
    <3>1. BitPlace(r, log, bit, phys, bits)
      BY <1>9, <2>1, <2>4, BitFmmuPlace, Zenon
    <3>2. QED
      BY <3>1 DEF BitPlace
  <2>6. r.fmmu.LogLength \in Nat \ {0}
    BY <2>5 DEF Fmmu
  <2>7. new.done \in Nat /\ ~ (new.done < Goal(bits)) /\ new.done # 0
    BY <1>8, <2>1, <2>2, <2>6
  <2>8. Tied(new.fmmus, sm, 8 * log + bit, 0 + bits)
    <3>1. 8 * log + bit \in Nat /\ 0 \in Nat /\ bits \in Nat \ {0}
      BY <2>1
    <3>2. Tied(st.fmmus, sm, 8 * log + bit, 0)
      BY <1>2, <2>1, <2>2, Zenon DEF FreeBit, MappedBits
    <3>3. FirstBit(r.fmmu) = (8 * log + bit) + 0 /\ LastBit(r.fmmu) = (8 * log + bit) + 0 + bits - 1
      BY <2>1, <2>5
    <3>4. ASSUME NEW q \in 0 .. bits - 1 PROVE DataOf(sm, 0 + q) = 8 * r.fmmu.PhysStart + q
      <4>1. 1 \in 1 .. Len(sm) /\ i - 1 = 0
        BY <1>9, <2>3
      <4>2. L[1] = L[0] + sm[1].len /\ sm[1].len \in Nat \ {0} /\ sm[1].start \in Nat /\ L[1 - 1] = 0
        BY <1>6, <4>1
      <4>3. q \in Nat /\ 0 + q = q /\ 8 * L[1 - 1] <= q /\ q < 8 * L[1]
        BY <1>6, <2>1, <4>2
      <4>4. DataOf(sm, q) = 8 * sm[1].start + q - 8 * L[1 - 1]
        BY <1>1, <4>1, <4>3, DataAt
      <4>5. DataOf(sm, q) = 8 * sm[1].start + q
        BY <4>2, <4>3, <4>4
      <4>6. QED
        BY <1>11, <2>3, <2>5, <4>3, <4>5
    <3>5. Tied(Append(st.fmmus, r.fmmu), sm, 8 * log + bit, 0 + bits)
      BY <1>3, <2>5, <3>1, <3>2, <3>3, <3>4, TiedMore
    <3>6. QED
      BY <1>8, <3>5
  <2>9. FreeBit(log, bit, bits) = 8 * log + bit /\ MappedBits(bits, new.done) = 0 + bits
    BY <2>1, <2>7 DEF FreeBit, MappedBits
  <2>10. new \in Pointing(sm, bits, log, bit)
    BY <1>4, <1>7, <2>7, <2>8, <2>9 DEF Pointing
  <2>11. QED
    BY <1>7, <2>10
<1>13. CASE bits > 7
  <2>1. bytesOf(bits) = Goal(bits) /\ Goal(bits) \in Nat \ {0}
    BY <1>13, GoalOf
  <2>2. size = IF L[last] + st.done > Goal(bits) THEN Goal(bits) - st.done ELSE L[last]
    BY <1>10, <2>1 DEF SizeOf
  <2>3. r = ByteFmmu(st.LogAddr, st.BitPos, phys, size)
    BY <2>1
  <2> HIDE DEF r, size
  <2>4. /\ size \in Nat \ {0} /\ size <= L[last] - L[i - 1]
        /\ st.done + size < Goal(bits) => /\ st.done + size = L[last] /\ last < Len(sm)
                                          /\ Gap(sm, last)
    <3> DEFINE done == st.done
    <3>1. last \in i .. Len(sm)
      BY <1>5 DEF i
    <3>2. last = Len(sm) \/ 8 * L[last] >= bits \/ sm[last + 1].start > EndAddr(sm[last])
      BY <1>5
    <3>3. done \in Nat /\ done < Goal(bits) /\ done = L[i - 1]
          /\ size = IF L[last] + done > Goal(bits) THEN Goal(bits) - done ELSE L[last]
      BY <1>3, <1>9, <2>2
    <3>4. i \in 1 .. Len(sm) /\ (i > 1 => Gap(sm, i - 1)) /\ bits > 7
      BY <1>9, <1>13
    <3> HIDE DEF done
    <3>5. /\ size \in Nat \ {0} /\ size <= L[last] - L[i - 1]
          /\ done + size < Goal(bits) => /\ done + size = L[last] /\ last < Len(sm)
                                         /\ Gap(sm, last)
      <4>1. RunAt(sm, L, bits, i, last, done, size)
        BY <1>1, <3>1, <3>2, <3>3, <3>4 DEF RunAt
      <4>2. RunFits(sm, L, bits, i, last, done, size)
        BY <4>1, RunFitsHolds, Zenon
      <4>3. QED
        BY <4>2, Zenon DEF RunFits
    <3>6. QED
      BY <3>5, Zenon DEF done
  <2> DEFINE start == ByteEnd(st.LogAddr, st.BitPos)
             base == ByteEnd(log, bit)
             m == 8 * st.done
  <2>5. /\ r.fmmu \in Fmmu /\ r.fmmu.LogLength = size /\ r.fmmu.PhysStart = phys
        /\ FirstBit(r.fmmu) = 8 * start /\ LastBit(r.fmmu) = 8 * (start + size) - 1
    <3>1. BytePlace(r, st.LogAddr, st.BitPos, phys, size)
      BY <1>3, <1>9, <2>3, <2>4, ByteFmmuPlace, Zenon
    <3>2. QED
      BY <3>1 DEF BytePlace
  <2>6. start = base + st.done
    <3>1. CASE st.done = 0
      BY <1>2, <3>1 DEF Progress, Unmapped, ByteEnd
    <3>2. CASE st.done > 0
      BY <1>2, <1>13, <3>2 DEF Progress, ByteEnd
    <3>3. QED
      BY <1>3, <3>1, <3>2
  <2>7. base \in Nat
    BY DEF ByteEnd
  <2> HIDE DEF start, base
  <2>8. new.done = st.done + size /\ new.done \in Nat
    BY <1>3, <1>8, <2>4, <2>5
  <2>9. FreeBit(log, bit, bits) = 8 * base /\ MappedBits(bits, new.done) = m + 8 * size
        /\ MappedBits(bits, st.done) = m
    <3>1. 8 * (st.done + size) = 8 * st.done + 8 * size
      BY <1>3, <2>4
    <3>2. QED
      BY <1>13, <2>8, <3>1, Zenon DEF FreeBit, MappedBits, base
  <2>10. Tied(new.fmmus, sm, 8 * base, m + 8 * size)
    <3>1. 8 * base \in Nat /\ m \in Nat /\ 8 * size \in Nat \ {0}
      BY <1>3, <2>4, <2>7
    <3>2. Tied(st.fmmus, sm, 8 * base, m)
      BY <1>2, <2>9, Zenon
    <3>3. FirstBit(r.fmmu) = 8 * base + m /\ LastBit(r.fmmu) = 8 * base + m + 8 * size - 1
      <4> DEFINE done == st.done
      <4>1. /\ done \in Nat /\ size \in Nat /\ base \in Nat /\ start = base + done /\ m = 8 * done
            /\ FirstBit(r.fmmu) = 8 * start /\ LastBit(r.fmmu) = 8 * (start + size) - 1
        BY <1>3, <2>4, <2>5, <2>6, <2>7
      <4> HIDE DEF done, m
      <4>2. 8 * start = 8 * base + m /\ 8 * (start + size) - 1 = 8 * base + m + 8 * size - 1
        BY <4>1
      <4>3. QED
        BY <4>1, <4>2, Zenon
    <3>4. ASSUME NEW q \in 0 .. 8 * size - 1 PROVE DataOf(sm, m + q) = 8 * r.fmmu.PhysStart + q
      <4>1. last \in i .. Len(sm) /\ \A k \in i .. last - 1 : sm[k + 1].start <= EndAddr(sm[k])
        BY <1>5 DEF i
      <4>2. \A k \in i .. last - 1 : sm[k + 1].start = EndAddr(sm[k])
        BY <1>9, <4>1, RunConnects
      <4>3. q \in Nat /\ 8 * L[i - 1] + q < 8 * L[last] /\ m + q = 8 * L[i - 1] + q
        <5>1. L[i - 1] \in Nat
          BY <1>3, <1>9
        <5>2. QED
          BY <1>9, <1>10, <2>4, <5>1, SMTT(30)
      <4>4. DataOf(sm, 8 * L[i - 1] + q) = 8 * sm[i].start + q
        BY <1>1, <1>9, <4>1, <4>2, <4>3, RunData
      <4>5. QED
        BY <1>11, <2>5, <4>3, <4>4
    <3> HIDE DEF m
    <3>5. Tied(Append(st.fmmus, r.fmmu), sm, 8 * base, m + 8 * size)
      BY <1>3, <2>5, <3>1, <3>2, <3>3, <3>4, TiedMore
    <3>6. QED
      BY <1>8, <3>5
  <2> HIDE DEF m
  <2>11. new.done < Goal(bits) => /\ new.done = SumLen(sm, 1, new.smc - 1)
                                  /\ new.smc > 1 => Gap(sm, new.smc - 1)
    <3> SUFFICES ASSUME new.done < Goal(bits)
                 PROVE  new.done = SumLen(sm, 1, new.smc - 1) /\ Gap(sm, new.smc - 1)
      OBVIOUS
    <3>1. new.smc - 1 = last
      BY <1>8, <1>10
    <3>2. new.done = L[last] /\ Gap(sm, last)
      BY <2>4, <2>8
    <3>3. QED
      BY <1>10, <3>1, <3>2
  <2>12. new \in Pointing(sm, bits, log, bit)
    BY <1>4, <1>7, <2>9, <2>10, <2>11 DEF Pointing
  <2>13. QED
    BY <1>7, <2>12
<1>14. QED
  BY <1>12, <1>13

\* What the loop yields.
LEMMA MappingMeets ==
    ASSUME NEW sm \in SyncManagers, TwoRuns(sm), NEW bits \in Nat, bits > 0, HasRoom(sm, bits),
           NEW log \in Nat, NEW bit \in 0 .. 7
    PROVE  Meets(CreateMappings(sm, bits, log, bit).fmmus, sm, bits)
<1> DEFINE A == Pointing(sm, bits, log, bit)
           m == CreateMappings(sm, bits, log, bit)
           first == FreeBit(log, bit, bits)
<1>1. PICK L : Ends(sm, L)
  BY SumLenIsSum DEF SyncManagers, Ends
<1>2. Goal(bits) \in Nat \ {0} /\ 8 * Goal(bits) >= bits /\ \A n \in Nat : 8 * n >= bits <=> n >= Goal(bits)
  BY GoalOf
<1>3. Len(sm) \in Nat /\ L[0] = 0 /\ L[Len(sm)] \in Nat /\ SumLen(sm, 1, 0) = 0
      /\ SumLen(sm, 1, Len(sm)) = L[Len(sm)]
  <2>1. Len(sm) \in Nat /\ L[0] = 0 /\ \A a \in 0 .. Len(sm) : L[a] \in Nat /\ SumLen(sm, 1, a) = L[a]
    BY <1>1, EndsType, Zenon DEF Ends
  <2>2. 0 \in 0 .. Len(sm) /\ Len(sm) \in 0 .. Len(sm)
    BY <2>1
  <2>3. QED
    BY <2>1, <2>2
<1>4. first \in Nat
  <2>1. ByteEnd(log, bit) \in Nat
    BY DEF ByteEnd
  <2>2. QED
    BY <2>1 DEF FreeBit
<1>5. Unmapped(log, bit) \in A
  <2> DEFINE u == Unmapped(log, bit)
  <2>1. u \in Progress(sm, bits, log, bit)
    BY NothingMapped, Zenon
  <2>2. u.fmmus = <<>> /\ u.done = 0 /\ u.smc = 1
    BY DEF Unmapped
  <2> HIDE DEF u, first
  <2>3. MappedBits(bits, u.done) = 0
    BY <2>2 DEF MappedBits
  <2>4. Tied(<<>>, sm, first, 0)
    BY DEF Tied
  <2>5. u.done = SumLen(sm, 1, u.smc - 1) /\ ~ (u.smc > 1)
    BY <1>3, <2>2
  <2>6. u \in Pointing(sm, bits, log, bit)
    BY <2>1, <2>2, <2>3, <2>4, <2>5 DEF Pointing, first
  <2>7. QED
    BY <2>6 DEF u
<1>6. ASSUME NEW st \in A
      PROVE  /\ Turn(sm, bits, st) \in A
             /\ st.smc \in Nat
             /\ st.done < Goal(bits) => /\ st.smc <= Len(sm)
                                        /\ Turn(sm, bits, st).smc > st.smc
  <2>1. st \in Progress(sm, bits, log, bit)
    BY DEF Pointing
  <2>2. st.smc \in Nat /\ (st.done < Goal(bits) => st.smc <= Len(sm))
    BY <2>1 DEF Progress, SyncManagers
  <2>3. CASE st.done < Goal(bits)
    <3>1. Turn(sm, bits, st) \in A
      BY <2>3, TurnPoints, Zenon
    <3>2. Turn(sm, bits, st).smc > st.smc
      BY <2>1, <2>3, TurnProgress, Zenon
    <3>3. QED
      BY <2>2, <3>1, <3>2
  <2>4. CASE ~ (st.done < Goal(bits))
    BY <2>2, <2>4 DEF Turn
  <2>5. QED
    BY <2>3, <2>4
<1>7. m \in A /\ ~ (m.done < Goal(bits))
  <2> HIDE DEF A
  <2>1. sm \in Seq(SyncManager)
    BY DEF SyncManagers
  <2>2. QED
    BY <1>5, <1>6, <2>1, CreateResult, Zenon
<1> HIDE DEF m, first
<1>8. m \in Progress(sm, bits, log, bit) /\ Tied(m.fmmus, sm, first, MappedBits(bits, m.done))
  BY <1>7 DEF Pointing, first
<1>9. m.done \in Nat /\ m.done > 0 /\ m.done >= Goal(bits)
  <2>1. m.done \in Nat
    BY <1>8 DEF Progress
  <2>2. QED
    BY <1>2, <1>7, <2>1
<1>10. m.fmmus \in Fmmus /\ m.fmmus # <<>> /\ (bits > 7 => m.done <= Goal(bits))
  BY <1>8, <1>9 DEF Progress, Fmmus
<1>11. bits <= 8 * L[Len(sm)] /\ 8 * Goal(bits) <= 8 * L[Len(sm)]
  <2>1. bits <= 8 * L[Len(sm)]
    BY <1>3 DEF HasRoom
  <2>2. L[Len(sm)] >= Goal(bits)
    BY <1>2, <1>3, <2>1
  <2>3. QED
    BY <1>2, <1>3, <2>1, <2>2
<1> DEFINE n == MappedBits(bits, m.done)
<1>12. n \in Nat /\ bits <= n /\ n <= 8 * L[Len(sm)]
  <2>1. CASE bits > 7
    <3>1. m.done = Goal(bits)
      BY <1>2, <1>9, <1>10, <2>1
    <3>2. n = 8 * Goal(bits)
      BY <2>1, <3>1 DEF MappedBits
    <3> HIDE DEF n
    <3>3. QED
      BY <1>2, <1>11, <3>2
  <2>2. CASE ~ (bits > 7)
    <3>1. n = bits
      BY <1>9, <2>2 DEF MappedBits
    <3> HIDE DEF n
    <3>2. QED
      BY <1>11, <3>1
  <2>3. QED
    BY <2>1, <2>2
<1> HIDE DEF n
<1>13. Tied(m.fmmus, sm, first, n)
  BY <1>8 DEF n
<1>14. Meets(m.fmmus, sm, bits)
  BY <1>1, <1>4, <1>10, <1>12, <1>13, TiedMeets
<1>15. QED
  BY <1>14 DEF m

\* The sync managers of every slave: no memory but at most one gap between them.
TwoRunNetworks ==
    \A n \in Networks : \A s \in 1 .. Len(n.slaves), d \in Dirs : TwoRuns(n.slaves[s][d].sm)
PointInv ==
    \A s \in Slave, d \in Dirs :
        /\ TwoRuns(smOf(s, d))
        /\ fmmu[s][d] # NoFmmu => Meets(fmmu[s][d], smOf(s, d), bitsOf(s, d))

LEMMA InitPointInv ==
    ASSUME TwoRunNetworks, Init
    PROVE  PointInv
<1>1. PICK n \in Networks : slavelist = n.slaves
  BY DEF Init
<1>2. \A s \in Slave, d \in Dirs : TwoRuns(smOf(s, d))
  BY <1>1 DEF TwoRunNetworks, Slave, Slaves, smOf
<1>3. \A s \in Slave, d \in Dirs : fmmu[s][d] = NoFmmu
  BY DEF Init
<1>4. QED
  BY <1>2, <1>3 DEF PointInv

LEMMA MapSlavePoints ==
    ASSUME MapInv, PointInv, NEW d \in Dirs, NEW counter, NEW blocked, MapSlave(d, counter, blocked)
    PROVE  PointInv'
<1>1. cur \in Slave /\ FmmuOK
  BY MapSlaveCur DEF MapInv
<1>2. Slave' = Slave /\ (\A s, e : smOf(s, e)' = smOf(s, e) /\ bitsOf(s, e)' = bitsOf(s, e))
  BY DEF MapSlave, Slave, Slaves, smOf, bitsOf
<1>3. CASE bitsOf(cur, d) > 0
  <2> DEFINE m == CreateMappings(smOf(cur, d), bitsOf(cur, d), LogAddr, BitPos)
  <2>1. fmmu' = [fmmu EXCEPT ![cur][d] = m.fmmus]
    BY <1>3, MapSlaveMapping, Zenon
  <2>2. Meets(m.fmmus, smOf(cur, d), bitsOf(cur, d))
    <3>1. /\ smOf(cur, d) \in SyncManagers /\ bitsOf(cur, d) \in Nat /\ HasRoom(smOf(cur, d), bitsOf(cur, d))
          /\ LogAddr \in Nat /\ BitPos \in 0 .. 7
      BY <1>1 DEF MapInv, ListOK, LoopOK
    <3>2. TwoRuns(smOf(cur, d))
      BY <1>1 DEF PointInv
    <3>3. QED
      BY <1>3, <3>1, <3>2, MappingMeets, Zenon
  <2> HIDE DEF m
  <2>3. \A s \in Slave, e \in Dirs : fmmu'[s][e] = IF s = cur /\ e = d THEN m.fmmus ELSE fmmu[s][e]
    BY <1>1, <2>1 DEF FmmuOK
  <2>4. QED
    BY <1>2, <2>2, <2>3 DEF PointInv
<1>4. CASE ~ (bitsOf(cur, d) > 0)
  <2>1. fmmu' = fmmu
    BY <1>4 DEF MapSlave
  <2>2. QED
    BY <1>2, <2>1 DEF PointInv
<1>5. QED
  BY <1>3, <1>4

LEMMA MapOverlapPoints ==
    ASSUME MapInv, PointInv, MapOverlap
    PROVE  PointInv'
<1>1. /\ cur \in Slave /\ FmmuOK /\ LogAddr \in Nat
      /\ fmmu' = [fmmu EXCEPT ![cur] = [d \in Dirs |-> MapFrom(cur, d).fmmus]]
  BY MapOverlapFacts DEF MapInv
<1>2. Slave' = Slave /\ (\A s, e : smOf(s, e)' = smOf(s, e) /\ bitsOf(s, e)' = bitsOf(s, e))
  BY DEF MapOverlap, Slave, Slaves, smOf, bitsOf
<1>3. ASSUME NEW d \in Dirs, MapFrom(cur, d).fmmus # NoFmmu
      PROVE  Meets(MapFrom(cur, d).fmmus, smOf(cur, d), bitsOf(cur, d))
  <2>1. /\ smOf(cur, d) \in SyncManagers /\ bitsOf(cur, d) \in Nat /\ HasRoom(smOf(cur, d), bitsOf(cur, d))
        /\ 0 \in 0 .. 7
    BY <1>1 DEF MapInv, ListOK
  <2>2. TwoRuns(smOf(cur, d))
    BY <1>1 DEF PointInv
  <2>3. bitsOf(cur, d) # 0
    <3>1. bitsOf(cur, d) = 0 => MapFrom(cur, d).fmmus = NoFmmu
      BY DEF MapFrom
    <3>2. QED
      BY <1>3, <3>1
  <2>4. MapFrom(cur, d) = CreateMappings(smOf(cur, d), bitsOf(cur, d), LogAddr, 0)
    BY <2>3 DEF MapFrom
  <2>5. bitsOf(cur, d) > 0
    BY <2>1, <2>3
  <2>6. QED
    BY <1>1, <2>1, <2>2, <2>4, <2>5, MappingMeets, Zenon
<1>4. \A s \in Slave, d \in Dirs : fmmu'[s][d] = IF s = cur THEN MapFrom(cur, d).fmmus ELSE fmmu[s][d]
  BY <1>1 DEF FmmuOK
<1>5. QED
  BY <1>2, <1>3, <1>4 DEF PointInv

LEMMA NextPointInv ==
    ASSUME MapInv, PointInv, [Next]_vars
    PROVE  PointInv'
<1>1. CASE MapOutput \/ MapInput
  BY <1>1, MapSlavePoints DEF MapOutput, MapInput, Dirs
<1>2. CASE MapOverlap
  BY <1>2, MapOverlapPoints
<1>3. CASE CloseOutputs \/ CloseInputs \/ CloseOverlap \/ UNCHANGED vars
  <2>1. UNCHANGED <<slavelist, fmmu>>
    BY <1>3 DEF CloseOutputs, CloseInputs, CloseOverlap, vars
  <2>2. QED
    BY <2>1 DEF PointInv, Slave, Slaves, smOf, bitsOf
<1>4. QED
  BY <1>1, <1>2, <1>3 DEF Next, MapStep, Mapped

LEMMA PointersMeet ==
    ASSUME ImageInv, PointInv
    PROVE  PointerMeetsData
<1> SUFFICES ASSUME phase = "mapped", NEW s \in Slave, NEW d \in Dirs, NEW k \in DataBits(s, d)
             PROVE  LogicalOf(s, d, k)
                    = {PointerBit(s, d) + k - IF overlap /\ d = "in" THEN 8 * group.Obytes ELSE 0}
  BY DEF PointerMeetsData
<1> DEFINE moved == IF overlap /\ d = "in" THEN group.Obytes ELSE 0
           f == fmmu[s][d][1]
<1>1. bitsOf(s, d) \in Nat /\ MapInv /\ group.Obytes \in Nat
  BY DEF ImageInv, MapInv, ListOK, GroupInv, GroupType
<1>2. k \in Nat /\ k \in 0 .. bitsOf(s, d) - 1 /\ bitsOf(s, d) > 0
  BY <1>1 DEF DataBits
<1>3. fmmu[s][d] # NoFmmu
  BY <1>1, <1>2 DEF Done, MapInv, HasFmmu
<1>4. f \in Fmmu
  BY <1>1, <1>3 DEF MapInv, FmmuOK, Fmmus, NoFmmu
<1>5. FirstBit(f) \in Nat /\ f.LogStart \in Nat /\ f.LogStartbit \in Nat
      /\ FirstBit(f) = 8 * f.LogStart + f.LogStartbit
  BY <1>4, FirstLast DEF Fmmu, FirstBit
<1>6. LogicalOf(s, d, k) = {FirstBit(f) + k}
  <2>1. Meets(fmmu[s][d], smOf(s, d), bitsOf(s, d))
    BY <1>3 DEF PointInv
  <2>2. DataBit(s, d, k) = DataOf(smOf(s, d), k)
    BY DEF DataBit, DataOf
  <2>3. QED
    BY <1>2, <2>1, <2>2, Zenon DEF Meets, LogicalOf
<1>7. PointerBit(s, d) = 8 * (moved + f.LogStart) + f.LogStartbit
  BY DEF PointerBit
<1>8. (IF overlap /\ d = "in" THEN 8 * group.Obytes ELSE 0) = 8 * moved
  OBVIOUS
<1>9. moved \in Nat
  BY <1>1
<1> HIDE DEF moved, f
<1>10. PointerBit(s, d) + k - 8 * moved = FirstBit(f) + k
  BY <1>2, <1>5, <1>7, <1>9
<1>11. QED
  BY <1>6, <1>8, <1>10

\* What the program reads and writes at slavelist[s].inputs and .outputs is the
\* process data of that slave, bit by bit in the order of its sync managers, also
\* when the two functions that map a slave break it up in two FMMUs.
THEOREM PointersMeetData ==
    ASSUME RealNetworks, SlavesFit, TwoRunNetworks
    PROVE  ExchangeSpec => []PointerMeetsData
<1>1. Init => PointInv
  BY InitPointInv
<1>2. MapInv /\ PointInv /\ [Next]_vars => PointInv'
  BY NextPointInv
<1>3. Spec => []PointInv
  BY <1>1, <1>2, MapInvariant, PTL DEF Spec
<1>4. ImageInv /\ PointInv => PointerMeetsData
  BY PointersMeet
<1>5. QED
  BY <1>3, <1>4, ImageInvariant, ExchangeMaps, PTL

\* The same without the premise on the pointers: a work counter that reaches
\* expectedWKC proves the exchange for every slave and every byte the program
\* points at (ecx_receive_processdata_group, and ecatcheck that reads wkc).
THEOREM ExchangeProved ==
    ASSUME RealNetworks, SlavesFit, TwoRunNetworks
    PROVE  ExchangeSpec => [](Exchangeable => WkcProvesExchange)
BY WorkCounterProves, PointersMeetData, PTL
--------------------------------------------------------------------------------
(* No slave is cut in two. *)

\* No slave has less than a byte of outputs or of inputs, where these would share
\* a byte with the next slave's ("if Obits > 7", "if Ibits > 7"); an overlapping
\* map starts every slave with a fresh byte.
Aligned ==
    \A n \in Networks : n.overlap \/ \A s \in 1 .. Len(n.slaves), d \in Dirs :
        n.slaves[s][d].bits = 0 \/ n.slaves[s][d].bits > 7
ListAligned == overlap \/ \A s \in Slave, d \in Dirs : bitsOf(s, d) = 0 \/ bitsOf(s, d) > 7

\* The bytes of the slave lie on one side of the logical byte c.
NotAcross(c, s, d) == \A a, b \in FmmuBytes(s, d) : a < c => b < c
Cuts == {Total(SubSeq(closed, 1, k)) : k \in 1 .. Len(closed)}
UncutInv ==
    /\ ListAligned
    /\ BitPos = 0
    /\ SmallImage => \A c \in Cuts, s \in Slave, d \in Dirs : NotAcross(c, s, d)

LEMMA InitUncut ==
    ASSUME Aligned, Init
    PROVE  UncutInv
<1>1. PICK n \in Networks : slavelist = n.slaves /\ overlap = n.overlap
  BY DEF Init
<1>2. ListAligned
  BY <1>1 DEF Aligned, ListAligned, Slave, Slaves, bitsOf
<1>3. closed = <<>> /\ Len(<<>>) = 0 /\ BitPos = 0
  BY DEF Init
<1>4. Cuts = {}
  BY <1>3 DEF Cuts
<1>5. QED
  BY <1>2, <1>3, <1>4 DEF UncutInv

LEMMA UnchangedExtends ==
    ASSUME MapInv, BitPos = 0, UNCHANGED <<slavelist, overlap, fmmu, LogAddr, BitPos>>
    PROVE  BitPos' = 0 /\ Extends(1, {})
<1>1. LogAddr \in Nat /\ LogAddr' = LogAddr /\ BitPos' = 0
  BY DEF MapInv, LoopOK
<1>2. QED
  BY <1>1 DEF Extends

LEMMA StepExtends ==
    ASSUME MapInv, ListAligned, BitPos = 0, [Next]_vars
    PROVE  BitPos' = 0 /\ \E c, D : Extends(c, D)
<1>1. ASSUME UNCHANGED <<slavelist, overlap, fmmu, LogAddr, BitPos>>
      PROVE  BitPos' = 0 /\ \E c, D : Extends(c, D)
  BY <1>1, UnchangedExtends, Zenon
<1>2. ASSUME NEW d \in Dirs, phase = d, NEW counter, NEW blocked, MapSlave(d, counter, blocked)
      PROVE  BitPos' = 0 /\ \E c, D : Extends(c, D)
  <2>1. CASE bitsOf(cur, d) > 0
    <3>1. Extends(cur, {d})
      BY <1>2, <2>1, MapSlaveExtends, Zenon
    <3> DEFINE m == CreateMappings(smOf(cur, d), bitsOf(cur, d), LogAddr, BitPos)
    <3>2. Mapping(m, bitsOf(cur, d), LogAddr, BitPos) /\ BitPos' = m.BitPos
      BY <1>2, <2>1, MapSlaveMapping, Zenon
    <3> HIDE DEF m
    <3>3. cur \in Slave
      BY <1>2, MapSlaveCur
    <3>4. ~ overlap
      BY <1>2 DEF MapInv, LoopOK, ListOK, Dirs
    <3>5. bitsOf(cur, d) \in Nat
      BY <3>3 DEF MapInv, ListOK
    <3>6. bitsOf(cur, d) > 7
      BY <2>1, <3>3, <3>4, <3>5 DEF ListAligned
    <3>7. BitPos' = 0
      BY <3>2, <3>6 DEF Mapping
    <3>8. QED
      BY <3>1, <3>7, Zenon
  <2>2. CASE ~ (bitsOf(cur, d) > 0)
    <3>1. UNCHANGED <<slavelist, overlap, fmmu, LogAddr, BitPos>>
      BY <1>2, <2>2 DEF MapSlave
    <3>2. QED
      BY <1>1, <3>1
  <2>3. QED
    BY <2>1, <2>2
<1>3. CASE MapOutput
  BY <1>2, <1>3 DEF MapOutput, Dirs
<1>4. CASE MapInput
  BY <1>2, <1>4 DEF MapInput, Dirs
<1>5. CASE CloseOutputs \/ CloseInputs
  <2>1. CloseByte /\ UNCHANGED <<slavelist, overlap, fmmu>>
    BY <1>5 DEF CloseOutputs, CloseInputs
  <2>2. UNCHANGED <<LogAddr, BitPos>>
    BY <2>1, CloseByteFacts
  <2>3. QED
    BY <1>1, <2>1, <2>2
<1>6. CASE MapOverlap
  <2>1. Extends(cur, Dirs)
    BY <1>6, MapOverlapExtends, Zenon
  <2>2. BitPos' = 0
    BY <1>6 DEF MapOverlap
  <2>3. QED
    BY <2>1, <2>2, Zenon
<1>7. CASE CloseOverlap
  BY <1>1, <1>7 DEF CloseOverlap
<1>8. CASE UNCHANGED vars
  BY <1>1, <1>8 DEF vars
<1>9. QED
  BY <1>3, <1>4, <1>5, <1>6, <1>7, <1>8 DEF Next, MapStep, Mapped

\* What a step adds to a slave lies behind every cut, and it cuts behind what was
\* there before.
LEMMA StepCuts ==
    ASSUME MapInv, FmmuOK', BitPos = 0, NEW c, NEW D, Extends(c, D),
           NEW s \in Slave, NEW d \in Dirs, NEW cut \in Nat, cut <= LogAddr,
           NotAcross(cut, s, d) \/ cut = LogAddr
    PROVE  NotAcross(cut, s, d)'
<1>1. Slave' = Slave
  BY DEF Extends, Slave, Slaves
<1>2. LogAddr \in Nat
  BY DEF MapInv, LoopOK
<1>3. CASE s # c \/ d \notin D
  <2>1. fmmu'[s][d] = fmmu[s][d]
    BY <1>3 DEF Extends
  <2>2. FmmuBytes(s, d)' = FmmuBytes(s, d)
    BY <2>1 DEF FmmuBytes
  <2>3. CASE NotAcross(cut, s, d)
    BY <2>2, <2>3 DEF NotAcross
  <2>4. CASE cut = LogAddr
    <3>1. Placed(s, d, 0, 0, LogAddr, 0) /\ 0 \in Nat
      BY DEF MapInv, AllPlaced
    <3>2. FmmuBytes(s, d) \subseteq 0 .. LogAddr - 1
      BY <1>2, <3>1, BytesPlaced, Zenon
    <3>3. \A b \in FmmuBytes(s, d) : b < LogAddr
      BY <1>2, <3>2
    <3>4. QED
      BY <2>2, <2>4, <3>3 DEF NotAcross
  <2>5. QED
    BY <2>3, <2>4
<1>4. CASE s = c /\ d \in D
  <2>1. Fresh(s, d)
    BY <1>4 DEF Extends
  <2>2. ASSUME NEW b \in FmmuBytes(s, d)' PROVE ~ (b < cut)
    <3>1. \E i \in 1 .. Len(fmmu'[s][d]) :
             /\ fmmu'[s][d][i] \in Fmmu
             /\ b \in fmmu'[s][d][i].LogStart .. fmmu'[s][d][i].LogStart + fmmu'[s][d][i].LogLength - 1
      <4>1. PICK f \in ToSet(fmmu'[s][d]) : b \in f.LogStart .. f.LogStart + f.LogLength - 1
        BY <2>2 DEF FmmuBytes
      <4>2. fmmu'[s][d] \in Seq(Fmmu)
        BY <1>1 DEF FmmuOK, Fmmus
      <4>3. PICK i \in 1 .. Len(fmmu'[s][d]) : f = fmmu'[s][d][i]
        BY <4>1, <4>2 DEF ToSet
      <4>4. f \in Fmmu
        BY <4>2, <4>3
      <4>5. QED
        BY <4>1, <4>3, <4>4
    <3>2. PICK i \in 1 .. Len(fmmu'[s][d]) :
             /\ fmmu'[s][d][i] \in Fmmu
             /\ b \in fmmu'[s][d][i].LogStart .. fmmu'[s][d][i].LogStart + fmmu'[s][d][i].LogLength - 1
      BY <3>1
    <3>3. LogAddr <= fmmu'[s][d][i].LogStart
      BY <2>1 DEF Fresh, Between
    <3>4. fmmu'[s][d][i].LogStart \in Nat
      BY <3>2 DEF Fmmu
    <3>5. QED
      BY <1>2, <3>2, <3>3, <3>4
  <2>3. QED
    BY <2>2 DEF NotAcross
<1>5. QED
  BY <1>3, <1>4

LEMMA CutsInside ==
    ASSUME closed \in Sizes, NEW c \in Cuts
    PROVE  c \in Nat /\ c <= Total(closed)
<1>1. PICK P : Sums(Len(closed), closed, P) /\ Total(closed) = P[Len(closed)]
  BY TotalIsSum DEF Sizes
<1>2. PICK k \in 1 .. Len(closed) : c = Total(SubSeq(closed, 1, k))
  BY DEF Cuts
<1>3. Len(closed) \in Nat /\ closed \in [1 .. Len(closed) -> Nat]
  BY SizesType
<1>4. k \in 0 .. Len(closed) /\ Len(closed) \in k .. Len(closed)
  BY <1>2, <1>3
<1>5. c = P[k]
  BY <1>1, <1>2, <1>4, TotalPrefix, Zenon DEF Sizes
<1>6. P[k] <= P[Len(closed)] /\ P[k] \in Nat
  BY <1>1, <1>3, <1>4, SumsMonotonic, Zenon
<1>7. QED
  BY <1>1, <1>5, <1>6

LEMMA CutsGrow ==
    ASSUME closed \in Sizes, segmentsize \in Nat,
           closed' = closed \/ closed' = Append(closed, segmentsize),
           NEW c \in Cuts'
    PROVE  c \in Cuts \/ c = Total(closed) + segmentsize
<1>1. CASE closed' = closed
  BY <1>1 DEF Cuts
<1>2. CASE closed' = Append(closed, segmentsize)
  <2> DEFINE t == Append(closed, segmentsize)
  <2>1. /\ t \in Sizes /\ Len(t) = Len(closed) + 1 /\ Len(closed) \in Nat
        /\ \A i \in 1 .. Len(closed) + 1 : t[i] = IF i = Len(closed) + 1 THEN segmentsize ELSE closed[i]
        /\ Total(t) = Total(closed) + segmentsize
    BY AppendSizes, Zenon
  <2>2. PICK k \in 1 .. Len(t) : c = Total(SubSeq(t, 1, k))
    BY <1>2 DEF Cuts
  <2> HIDE DEF t
  <2>3. CASE k = Len(closed) + 1
    <3>1. SubSeq(t, 1, Len(t)) = t
      BY <2>1 DEF Sizes
    <3>2. QED
      BY <2>1, <2>2, <2>3, <3>1
  <2>4. CASE k # Len(closed) + 1
    <3>1. k \in 1 .. Len(closed) /\ k \in Nat /\ k <= Len(t) /\ k <= Len(closed)
      BY <2>1, <2>2, <2>4
    <3>2. \A i \in 1 .. k : t[i] = closed[i]
      BY <2>1, <3>1
    <3>3. SubSeq(t, 1, k) = SubSeq(closed, 1, k)
      BY <2>1, <3>1, <3>2, SamePrefix, Zenon
    <3>4. QED
      BY <2>2, <3>1, <3>3 DEF Cuts
  <2>5. QED
    BY <2>3, <2>4
<1>3. QED
  BY <1>1, <1>2

LEMMA NextUncut ==
    ASSUME ImageInv, FmmuOK', UncutInv, [Next]_vars
    PROVE  UncutInv'
<1>1. MapInv /\ ListFits /\ closed \in Sizes /\ segmentsize \in Nat /\ LogAddr \in Nat
      /\ (SmallImage => SegmentsOK)
  BY DEF ImageInv, SegInv, MapInv, LoopOK
<1>2. ListAligned /\ BitPos = 0
  BY DEF UncutInv
<1>3. BitPos' = 0 /\ \E c, D : Extends(c, D)
  BY <1>1, <1>2, StepExtends, Zenon
<1>4. PICK c, D : Extends(c, D)
  BY <1>3
<1>5. slavelist' = slavelist /\ overlap' = overlap
  BY <1>4 DEF Extends
<1>6. Slave' = Slave
  BY <1>5 DEF Slave, Slaves
<1>7. ListAligned'
  BY <1>2, <1>5, <1>6 DEF ListAligned, bitsOf
<1>8. SegmentStep
  <2>1. CASE MapStep
    BY <1>1, <2>1, StepIsSegmentStep, Zenon
  <2>2. CASE UNCHANGED vars
    BY <2>2 DEF vars, SegmentStep
  <2>3. QED
    BY <2>1, <2>2, Zenon DEF Next, Mapped
<1>9. /\ closed' = closed \/ closed' = Append(closed, segmentsize)
      /\ SmallImage' => SmallImage /\ SegmentsOK'
  BY <1>1, <1>8, SegmentStepFacts, Zenon
<1>10. ASSUME SmallImage', NEW cut \in Cuts', NEW s \in Slave, NEW d \in Dirs
       PROVE  NotAcross(cut, s, d)'
  <2>1. SmallImage /\ SegmentsOK
    BY <1>1, <1>9, <1>10
  <2>2. Total(closed) + segmentsize = LogAddr /\ Total(closed) \in Nat
    BY <1>1, <2>1, TotalType DEF SegmentsOK
  <2>3. cut \in Cuts \/ cut = LogAddr
    BY <1>1, <1>9, <1>10, <2>2, CutsGrow
  <2>4. CASE cut \in Cuts
    <3>1. cut \in Nat /\ cut <= Total(closed)
      BY <1>1, <2>4, CutsInside, Zenon
    <3>2. cut <= LogAddr
      BY <1>1, <2>2, <3>1
    <3>3. NotAcross(cut, s, d)
      BY <1>10, <2>1, <2>4 DEF UncutInv
    <3>4. QED
      BY <1>1, <1>2, <1>4, <1>10, <3>1, <3>2, <3>3, StepCuts, Zenon
  <2>5. CASE cut = LogAddr
    <3>1. cut \in Nat /\ cut <= LogAddr
      BY <1>1, <2>5
    <3>2. QED
      BY <1>1, <1>2, <1>4, <1>10, <2>5, <3>1, StepCuts, Zenon
  <2>6. QED
    BY <2>3, <2>4, <2>5
<1>11. QED
  BY <1>3, <1>6, <1>7, <1>10 DEF UncutInv

OnePart(F, s, d) ==
    \A i, j \in DOMAIN F :
        /\ FmmuBytes(s, d) \cap BytesOf(F[i]) # {}
        /\ FmmuBytes(s, d) \cap BytesOf(F[j]) # {}
        => i = j

LEMMA ByteBefore ==
    ASSUME NEW log \in Nat, NEW p \in Nat, NEW len \in Nat, NEW a \in log + p .. log + p + len - 1
    PROVE  a \in Int /\ a < log + (p + len)
OBVIOUS

LEMMA ByteBehind ==
    ASSUME NEW log \in Nat, NEW p \in Nat, NEW q \in Nat, p <= q, NEW len \in Nat,
           NEW b \in log + q .. log + q + len - 1
    PROVE  b \in Int /\ ~ (b < log + p)
OBVIOUS

\* Datagrams that meet at cuts that are not across a slave.
LEMMA DatagramsWhole ==
    ASSUME NEW z \in Sizes, Len(z) # 0, NEW cmd, NEW length \in Nat,
           NEW log \in Nat, NEW from \in Nat, NEW to \in Nat, NEW F,
           F = Datagrams(cmd, z, length, log, from, to), NEW s, NEW d,
           \A k \in 1 .. Len(z) - 1 : NotAcross(log + Total(SubSeq(z, 1, k)), s, d)
    PROVE  OnePart(F, s, d)
<1>1. PICK P : Sums(Len(z), z, P) /\ Total(z) = P[Len(z)]
  BY TotalIsSum DEF Sizes
<1>2. Len(z) \in Nat /\ z \in [1 .. Len(z) -> Nat]
  BY SizesType
<1>3. /\ Len(F) \in 1 .. Len(z) /\ DOMAIN F = 1 .. Len(F)
      /\ \A i \in DOMAIN F :
           /\ i \in 1 .. Len(z) /\ i - 1 \in 0 .. Len(z)
           /\ P[i] = P[i - 1] + F[i].len
           /\ F[i] = [cmd |-> cmd, log |-> log + P[i - 1], from |-> from + P[i - 1],
                      to |-> to + P[i - 1], len |-> z[i]]
  BY <1>1, DatagramRecords, SMTT(30)
<1>4. ASSUME NEW i \in DOMAIN F, NEW j \in DOMAIN F, i < j,
             NEW a \in FmmuBytes(s, d), a \in BytesOf(F[i]),
             NEW b \in FmmuBytes(s, d), b \in BytesOf(F[j])
      PROVE  FALSE
  <2>1. /\ i \in 1 .. Len(z) - 1 /\ i \in 0 .. Len(z) /\ i - 1 \in 0 .. Len(z)
        /\ j - 1 \in i .. Len(z) /\ j - 1 \in 0 .. Len(z)
    BY <1>2, <1>3, <1>4
  <2>2. P[i] <= P[j - 1] /\ P[i] \in Nat /\ P[j - 1] \in Nat
    BY <1>1, <1>2, <2>1, SumsMonotonic, Zenon
  <2>3. P[i - 1] \in Nat
    BY <1>1, <2>1 DEF Sums
  <2>4. P[i] = P[i - 1] + F[i].len /\ F[i].log = log + P[i - 1] /\ F[i].len = z[i] /\ z[i] \in Nat
    BY <1>2, <1>3
  <2>5. F[j].log = log + P[j - 1] /\ F[j].len = z[j] /\ z[j] \in Nat
    BY <1>2, <1>3
  <2>6. a \in Int /\ a < log + P[i]
    <3>1. a \in F[i].log .. F[i].log + F[i].len - 1
      BY <1>4, Zenon DEF BytesOf
    <3>2. a \in log + P[i - 1] .. log + P[i - 1] + F[i].len - 1
      BY <2>4, <3>1, Zenon
    <3>3. F[i].len \in Nat
      BY <2>4
    <3>4. a \in Int /\ a < log + (P[i - 1] + F[i].len)
      BY <2>3, <3>2, <3>3, ByteBefore, Zenon
    <3>5. QED
      BY <2>4, <3>4, Zenon
  <2>7. b \in Int /\ ~ (b < log + P[i])
    <3>1. b \in F[j].log .. F[j].log + F[j].len - 1
      BY <1>4, Zenon DEF BytesOf
    <3>2. b \in log + P[j - 1] .. log + P[j - 1] + F[j].len - 1
      BY <2>5, <3>1, Zenon
    <3>3. F[j].len \in Nat
      BY <2>5
    <3>4. QED
      BY <2>2, <3>2, <3>3, ByteBehind, Zenon
  <2>8. Total(SubSeq(z, 1, i)) = P[i]
    BY <1>1, <2>1, TotalPrefix, Zenon DEF Sizes
  <2>9. NotAcross(log + P[i], s, d)
    BY <2>1, <2>8
  <2>10. QED
    BY <1>4, <2>6, <2>7, <2>9 DEF NotAcross
<1>5. ASSUME NEW i \in DOMAIN F, NEW j \in DOMAIN F, i # j,
             FmmuBytes(s, d) \cap BytesOf(F[i]) # {}, FmmuBytes(s, d) \cap BytesOf(F[j]) # {}
      PROVE  FALSE
  <2>1. PICK a \in FmmuBytes(s, d) : a \in BytesOf(F[i])
    BY <1>5
  <2>2. PICK b \in FmmuBytes(s, d) : b \in BytesOf(F[j])
    BY <1>5
  <2>3. i < j \/ j < i
    BY <1>2, <1>3, <1>5
  <2>4. QED
    BY <1>4, <2>1, <2>2, <2>3
<1>6. QED
  BY <1>5 DEF OnePart

\* The segments of the mapped image meet at cuts.
LEMMA SegmentsUncut ==
    ASSUME ImageInv, UncutInv, SmallImage, phase = "mapped", NEW s \in Slave, NEW d \in Dirs,
           NEW k \in 1 .. Len(group.IOsegment) - 1
    PROVE  NotAcross(Total(SubSeq(group.IOsegment, 1, k)), s, d)
<1>1. closed \in Sizes /\ segmentsize \in Nat /\ group.IOsegment = Segments
  BY DEF ImageInv, SegInv
<1>2. /\ Segments \in Sizes /\ Len(Segments) = Len(closed) + 1 /\ Len(closed) \in Nat
      /\ \A i \in 1 .. Len(closed) + 1 : Segments[i] = IF i = Len(closed) + 1 THEN segmentsize ELSE closed[i]
  BY <1>1, AppendSizes, Zenon DEF Segments
<1>3. k \in 1 .. Len(closed) /\ k \in Nat /\ k <= Len(closed) /\ k <= Len(Segments)
  BY <1>1, <1>2
<1>4. \A i \in 1 .. k : Segments[i] = closed[i]
  BY <1>2, <1>3
<1>5. SubSeq(Segments, 1, k) = SubSeq(closed, 1, k)
  BY <1>1, <1>2, <1>3, <1>4, SamePrefix, Zenon
<1>6. Total(SubSeq(group.IOsegment, 1, k)) \in Cuts
  BY <1>1, <1>3, <1>5 DEF Cuts
<1>7. QED
  BY <1>6 DEF UncutInv

LEMMA PrefixType ==
    ASSUME NEW z \in Sizes, NEW k \in 0 .. Len(z)
    PROVE  Total(SubSeq(z, 1, k)) \in Nat
<1>1. PICK P : Sums(Len(z), z, P) /\ Total(z) = P[Len(z)]
  BY TotalIsSum DEF Sizes
<1>2. Total(SubSeq(z, 1, k)) = P[k]
  BY <1>1, TotalPrefix, Zenon DEF Sizes
<1>3. QED
  BY <1>1, <1>2 DEF Sums

LEMMA LrwWhole ==
    ASSUME ImageInv, UncutInv, SmallImage, phase = "mapped", NEW s \in Slave, NEW d \in Dirs
    PROVE  OnePart(LrwDatagrams, s, d)
<1>1. /\ group.IOsegment \in Sizes /\ Len(group.IOsegment) # 0
      /\ group.Obytes \in Nat /\ group.Ibytes \in Nat /\ group.inputs = group.Obytes
  BY MappedImage
<1> DEFINE length == IF overlap THEN bigger ELSE group.Obytes + group.Ibytes
           data == IF group.Obytes > 0 THEN 0 ELSE group.inputs
           offset == IF overlap /\ group.Obytes > 0 THEN group.Obytes ELSE 0
<1>2. length \in Nat /\ data \in Nat /\ data + offset \in Nat /\ 0 \in Nat
  BY <1>1 DEF bigger
<1>3. LrwDatagrams = Datagrams("LRW", group.IOsegment, length, 0, data, data + offset)
  BY Zenon DEF LrwDatagrams
<1> HIDE DEF length, data, offset
<1>4. \A k \in 1 .. Len(group.IOsegment) - 1 : NotAcross(0 + Total(SubSeq(group.IOsegment, 1, k)), s, d)
  <2> SUFFICES ASSUME NEW k \in 1 .. Len(group.IOsegment) - 1
               PROVE  NotAcross(0 + Total(SubSeq(group.IOsegment, 1, k)), s, d)
    OBVIOUS
  <2>1. NotAcross(Total(SubSeq(group.IOsegment, 1, k)), s, d)
    BY SegmentsUncut, Zenon
  <2>2. k \in 0 .. Len(group.IOsegment)
    BY <1>1, SizesType
  <2>3. Total(SubSeq(group.IOsegment, 1, k)) \in Nat
    BY <1>1, <2>2, PrefixType, Zenon
  <2>4. 0 + Total(SubSeq(group.IOsegment, 1, k)) = Total(SubSeq(group.IOsegment, 1, k))
    BY <2>3
  <2>5. QED
    BY <2>1, <2>4
<1>5. QED
  BY <1>1, <1>2, <1>3, <1>4, DatagramsWhole, Zenon

LEMMA OutputsWhole ==
    ASSUME ImageInv, UncutInv, SmallImage, phase = "mapped", group.Obytes # 0, NEW s \in Slave, NEW d \in Dirs
    PROVE  OnePart(OutputDatagrams, s, d)
<1>1. /\ group.IOsegment \in Sizes /\ Len(group.IOsegment) # 0 /\ group.Obytes \in Nat /\ 0 \in Nat
  BY MappedImage
<1> DEFINE z == group.IOsegment
           n == CutTurns(z, group.Obytes)
           t == [SubSeq(z, 1, n) EXCEPT ![n] = group.Obytes - Total(SubSeq(z, 1, n - 1))]
<1>2. t \in Sizes /\ Len(t) # 0
  BY <1>1, CutBack
<1>3. OutputDatagrams = Datagrams("LWR", t, group.Obytes, 0, 0, 0)
  BY Zenon DEF OutputDatagrams
<1>4. n \in 1 .. Len(z) /\ Len(z) \in Nat
  <2>1. PICK P : Sums(Len(z), z, P) /\ Total(z) = P[Len(z)]
    BY <1>1, TotalIsSum DEF Sizes
  <2>2. n \in 1 .. Len(z)
    BY <1>1, <2>1, CutTurnsTaken, Zenon
  <2>3. QED
    BY <1>1, <2>2, SizesType
<1> HIDE DEF n
<1>5. Len(t) = n /\ \A i \in 1 .. n - 1 : t[i] = z[i]
  <2>1. SubSeq(z, 1, n) = [i \in 1 .. n |-> z[i]]
    BY <1>1, <1>4 DEF Sizes
  <2>2. t = [i \in 1 .. n |-> IF i = n THEN group.Obytes - Total(SubSeq(z, 1, n - 1)) ELSE z[i]]
    BY <2>1
  <2> HIDE DEF t
  <2>3. DOMAIN t = 1 .. n
    BY <2>2
  <2>4. DOMAIN t = 1 .. Len(t) /\ Len(t) \in Nat
    BY <1>2, SizesType
  <2>5. Len(t) = n
    BY <1>4, <2>3, <2>4
  <2>6. QED
    BY <1>4, <2>2, <2>5
<1> HIDE DEF t
<1>6. ASSUME NEW k \in 1 .. Len(t) - 1 PROVE NotAcross(0 + Total(SubSeq(t, 1, k)), s, d)
  <2>1. /\ k \in Nat /\ k <= Len(t) /\ k <= Len(z) /\ k \in 1 .. Len(z) - 1 /\ k \in 0 .. Len(t)
        /\ \A i \in 1 .. k : i \in 1 .. n - 1
    BY <1>4, <1>5
  <2>2. \A i \in 1 .. k : t[i] = z[i]
    BY <1>5, <2>1
  <2> HIDE DEF z
  <2>3. SubSeq(t, 1, k) = SubSeq(z, 1, k)
    BY <1>1, <1>2, <2>1, <2>2, SamePrefix, Zenon DEF z
  <2>4. NotAcross(Total(SubSeq(z, 1, k)), s, d)
    BY <2>1, SegmentsUncut, Zenon DEF z
  <2>5. Total(SubSeq(t, 1, k)) \in Nat
    BY <1>2, <2>1, PrefixType, Zenon
  <2>6. \A x \in Nat : 0 + x = x
    OBVIOUS
  <2>7. 0 + Total(SubSeq(t, 1, k)) = Total(SubSeq(z, 1, k))
    BY <2>3, <2>5, <2>6, Zenon
  <2>8. QED
    BY <2>4, <2>7, Zenon
<1>7. QED
  BY <1>1, <1>2, <1>3, <1>6, DatagramsWhole, Zenon

LEMMA SameInterval ==
    ASSUME NEW m \in Nat, NEW n \in Nat, 1 .. m = 1 .. n
    PROVE  m = n
<1>1. m # 0 => m \in 1 .. n
  OBVIOUS
<1>2. n # 0 => n \in 1 .. m
  OBVIOUS
<1>3. QED
  BY <1>1, <1>2

IsFrontCut(t, z, k, off) == t = [SubSeq(z, k + 1, Len(z)) EXCEPT ![1] = @ - off]

\* The beginning of a list cut in front, measured from the cut.
LEMMA FrontPrefix ==
    ASSUME NEW z \in Sizes, NEW k \in Nat, k < Len(z), NEW off \in Nat, off <= z[k + 1],
           NEW t, IsFrontCut(t, z, k, off), NEW i \in 1 .. Len(z) - k
    PROVE  Total(SubSeq(z, 1, k)) + off + Total(SubSeq(t, 1, i)) = Total(SubSeq(z, 1, k + i))
<1> DEFINE u == SubSeq(z, 1, k + i)
           v == [SubSeq(u, k + 1, Len(u)) EXCEPT ![1] = @ - off]
<1>1. Len(z) \in Nat /\ z \in Seq(Nat)
  BY DEF Sizes
<1>2. u \in Sizes /\ Len(u) = k + i /\ \A j \in 1 .. k + i : u[j] = z[j]
  BY <1>1 DEF Sizes
<1>3. SubSeq(z, k + 1, Len(z)) = [j \in 1 .. Len(z) - k |-> z[k + j]]
  BY <1>1
<1>4. t = [j \in 1 .. Len(z) - k |-> IF j = 1 THEN z[k + 1] - off ELSE z[k + j]]
  BY <1>1, <1>3 DEF IsFrontCut
<1>5. \A j \in 1 .. i : k + j \in 1 .. k + i
  BY <1>1
<1>6. SubSeq(u, k + 1, k + i) = [j \in 1 .. i |-> u[k + j]]
  <2> HIDE DEF u
  <2>1. (k + i) - (k + 1) + 1 = i
    BY <1>1
  <2>2. QED
    BY <1>1, <1>2, <2>1 DEF Sizes
<1> HIDE DEF u
<1>7. SubSeq(u, k + 1, Len(u)) = [j \in 1 .. i |-> z[k + j]]
  BY <1>2, <1>5, <1>6
<1>8. v = [j \in 1 .. i |-> IF j = 1 THEN z[k + 1] - off ELSE z[k + j]]
  BY <1>1, <1>7
<1>9. /\ v \in Sizes /\ Len(v) # 0
      /\ Total(v) + Total(SubSeq(u, 1, k)) + off = Total(u)
      /\ Total(v) \in Nat /\ Total(SubSeq(u, 1, k)) \in Nat
  <2>1. k < Len(u) /\ off <= u[k + 1]
    BY <1>1, <1>2
  <2>2. FrontCut(u, k, off)
    BY <1>2, <2>1, FrontCutHolds, Zenon
  <2>3. QED
    BY <2>2, Zenon DEF FrontCut
<1> HIDE DEF v
<1>10. t \in Sizes /\ Len(t) = Len(z) - k
  <2>1. FrontCut(z, k, off)
    BY FrontCutHolds, Zenon
  <2>2. t \in Sizes
    BY <2>1, Zenon DEF FrontCut, IsFrontCut
  <2>3. DOMAIN t = 1 .. Len(z) - k
    BY <1>4
  <2>4. DOMAIN t = 1 .. Len(t) /\ Len(t) \in Nat
    BY <2>2, SizesType
  <2>5. Len(z) - k \in Nat
    BY <1>1
  <2>6. QED
    BY <2>2, <2>3, <2>4, <2>5, SameInterval, Zenon
<1>11. SubSeq(t, 1, i) = v
  <2>1. SubSeq(t, 1, i) = [j \in 1 .. i |-> t[j]]
    BY <1>1, <1>10 DEF Sizes
  <2>2. \A j \in 1 .. i : j \in 1 .. Len(z) - k
    BY <1>1
  <2>3. QED
    BY <1>4, <1>8, <2>1, <2>2
<1>12. SubSeq(u, 1, k) = SubSeq(z, 1, k)
  <2>1. k <= Len(u) /\ k <= Len(z) /\ \A j \in 1 .. k : u[j] = z[j]
    BY <1>1, <1>2
  <2>2. QED
    BY <1>2, <2>1, SamePrefix, Zenon
<1>13. Total(SubSeq(z, 1, k)) + off + Total(SubSeq(t, 1, i)) = Total(u)
  <2>1. \A x, y \in Nat : x + y + off = y + off + x
    OBVIOUS
  <2>2. Total(SubSeq(u, 1, k)) + off + Total(v) = Total(u)
    BY <1>9, <2>1, Zenon
  <2>3. QED
    BY <1>11, <1>12, <2>2, Zenon
<1>14. QED
  BY <1>13 DEF u

LEMMA InputsWhole ==
    ASSUME ImageInv, UncutInv, SmallImage, phase = "mapped", ~ overlap, group.Ibytes # 0,
           NEW s \in Slave, NEW d \in Dirs
    PROVE  OnePart(InputDatagrams, s, d)
<1> DEFINE z == group.IOsegment
           k == group.Isegment
           off == group.Ioffset
           t == [SubSeq(z, k + 1, Len(z)) EXCEPT ![1] = @ - off]
<1>1. /\ z \in Sizes /\ Len(z) # 0 /\ group.Obytes \in Nat /\ group.Ibytes \in Nat
      /\ group.inputs = group.Obytes
      /\ k \in Nat /\ k < Len(z) /\ off \in Nat /\ off <= z[k + 1]
      /\ Total(SubSeq(z, 1, k)) + off = group.Obytes
  BY MappedImage
<1>2. InputDatagrams = Datagrams("LRD", t, group.Ibytes, group.Obytes, group.Obytes, group.Obytes)
  BY <1>1, Zenon DEF InputDatagrams
<1>3. t \in Sizes /\ Len(t) # 0 /\ Len(t) = Len(z) - k
  <2> HIDE DEF z, k, off
  <2>1. FrontCut(z, k, off)
    BY <1>1, FrontCutHolds, Zenon
  <2>2. t \in Sizes /\ Len(t) # 0
    BY <2>1, Zenon DEF FrontCut
  <2>3. Len(z) \in Nat /\ z \in Seq(Nat)
    BY <1>1 DEF Sizes
  <2>4. SubSeq(z, k + 1, Len(z)) = [j \in 1 .. Len(z) - k |-> z[k + j]]
    BY <1>1, <2>3
  <2>5. DOMAIN t = 1 .. Len(z) - k
    BY <2>4
  <2>6. DOMAIN t = 1 .. Len(t) /\ Len(t) \in Nat
    BY <2>2, SizesType
  <2>7. Len(z) - k \in Nat
    BY <1>1, <2>3
  <2>8. QED
    BY <2>2, <2>5, <2>6, <2>7, SameInterval, Zenon
<1>4. ASSUME NEW i \in 1 .. Len(t) - 1
      PROVE  NotAcross(group.Obytes + Total(SubSeq(t, 1, i)), s, d)
  <2>1. i \in 1 .. Len(z) - k /\ k + i \in 1 .. Len(z) - 1
    <3> HIDE DEF t, k, z
    <3>1. Len(z) \in Nat
      BY <1>1, SizesType
    <3>2. QED
      BY <1>1, <1>3, <3>1
  <2>2. Total(SubSeq(z, 1, k)) + off + Total(SubSeq(t, 1, i)) = Total(SubSeq(z, 1, k + i))
    <3>1. IsFrontCut(t, z, k, off)
      BY Zenon DEF IsFrontCut
    <3> HIDE DEF z, k, off, t
    <3>2. QED
      BY <1>1, <2>1, <3>1, FrontPrefix, SMTT(30)
  <2>3. NotAcross(Total(SubSeq(z, 1, k + i)), s, d)
    BY <2>1, SegmentsUncut, Zenon
  <2> HIDE DEF z, k, off, t
  <2>4. group.Obytes + Total(SubSeq(t, 1, i)) = Total(SubSeq(z, 1, k + i))
    BY <1>1, <2>2, Zenon
  <2>5. QED
    BY <2>3, <2>4, Zenon
<1> HIDE DEF z, k, off, t
<1>5. QED
  BY <1>1, <1>2, <1>3, <1>4, DatagramsWhole, Zenon

LEMMA DatagramsCmd ==
    ASSUME NEW cmd, NEW z, NEW length, NEW log, NEW from, NEW to, NEW F,
           F = Datagrams(cmd, z, length, log, from, to)
    PROVE  \A i \in DOMAIN F : F[i].cmd = cmd
BY DEF Datagrams

\* A cycle sends the outputs of a slave in one datagram, and its inputs.
LEMMA FramesWhole ==
    ASSUME ImageInv, SentInv, UncutInv, SmallImage, ~ (overlap /\ group.blockLRW), cycle > 0
    PROVE  Unsplit
<1>1. phase = "mapped" /\ frames = AllDatagrams
  BY DEF SentInv
<1> SUFFICES ASSUME NEW s \in Slave, NEW d \in Dirs, NEW i \in DOMAIN frames, NEW j \in DOMAIN frames,
                    Touches(i, s, d), Touches(j, s, d)
             PROVE  i = j
  BY DEF Unsplit
<1>2. /\ Serves(frames[i], d) /\ FmmuBytes(s, d) \cap BytesOf(frames[i]) # {}
      /\ Serves(frames[j], d) /\ FmmuBytes(s, d) \cap BytesOf(frames[j]) # {}
  BY DEF Touches
<1>3. group.Obytes + group.Ibytes # 0
  <2>1. DOMAIN <<>> = {}
    OBVIOUS
  <2>2. QED
    BY <1>1, <2>1 DEF AllDatagrams
<1>4. CASE ~ group.blockLRW
  <2>1. frames = LrwDatagrams
    BY <1>1, <1>3, <1>4 DEF AllDatagrams
  <2>2. OnePart(frames, s, d)
    BY <1>1, <2>1, LrwWhole
  <2>3. QED
    BY <1>2, <2>2 DEF OnePart
<1>5. CASE group.blockLRW
  <2> DEFINE F == InputDatagrams
             G == OutputDatagrams
  <2>1. frames = F \o G /\ ~ overlap
    BY <1>1, <1>3, <1>5 DEF AllDatagrams
  <2>2. F \in Frames /\ G \in Frames
    BY <1>1, AllDatagramsType
  <2>3. /\ Len(F) \in Nat
        /\ \A n \in DOMAIN frames :
             IF n <= Len(F) THEN n \in DOMAIN F /\ frames[n] = F[n]
                            ELSE n - Len(F) \in DOMAIN G /\ frames[n] = G[n - Len(F)]
    BY <2>1, <2>2, InARow, Zenon
  <2>4. DOMAIN F # {} => group.Ibytes # 0
    <3>1. DOMAIN <<>> = {}
      OBVIOUS
    <3>2. QED
      BY <3>1 DEF InputDatagrams
  <2>5. DOMAIN G # {} => group.Obytes # 0
    <3>1. DOMAIN <<>> = {}
      OBVIOUS
    <3>2. QED
      BY <3>1 DEF OutputDatagrams
  <2>6. \A n \in DOMAIN F : F[n].cmd = "LRD"
    <3>1. CASE DOMAIN F = {}
      BY <3>1
    <3>2. CASE DOMAIN F # {}
      <4> DEFINE t == [SubSeq(group.IOsegment, group.Isegment + 1, Len(group.IOsegment))
                         EXCEPT ![1] = @ - group.Ioffset]
      <4>1. InputDatagrams = Datagrams("LRD", t, group.Ibytes, group.Obytes, group.inputs, group.inputs)
        BY <2>4, <3>2, Zenon DEF InputDatagrams
      <4> HIDE DEF t
      <4>2. QED
        BY <4>1, DatagramsCmd, SMTT(30)
    <3>3. QED
      BY <3>1, <3>2
  <2>7. \A n \in DOMAIN G : G[n].cmd = "LWR"
    <3>1. CASE DOMAIN G = {}
      BY <3>1
    <3>2. CASE DOMAIN G # {}
      <4> DEFINE n == CutTurns(group.IOsegment, group.Obytes)
                 t == [SubSeq(group.IOsegment, 1, n) EXCEPT
                         ![n] = group.Obytes - Total(SubSeq(group.IOsegment, 1, n - 1))]
      <4>1. OutputDatagrams = Datagrams("LWR", t, group.Obytes, 0, 0, 0)
        BY <2>5, <3>2, Zenon DEF OutputDatagrams
      <4> HIDE DEF t
      <4>2. QED
        BY <4>1, DatagramsCmd, SMTT(30)
    <3>3. QED
      BY <3>1, <3>2
  <2>8. i \in Nat /\ j \in Nat
    BY <2>1, <2>2, InARow
  <2> HIDE DEF F, G
  <2>9. CASE d = "in"
    <3>1. i \in DOMAIN F /\ frames[i] = F[i] /\ j \in DOMAIN F /\ frames[j] = F[j]
      BY <1>2, <2>3, <2>7, <2>9 DEF Serves
    <3>2. OnePart(F, s, d)
      BY <1>1, <2>1, <2>4, <3>1, InputsWhole, Zenon DEF F
    <3>3. QED
      BY <1>2, <3>1, <3>2 DEF OnePart
  <2>10. CASE d = "out"
    <3>1. /\ i - Len(F) \in DOMAIN G /\ frames[i] = G[i - Len(F)]
          /\ j - Len(F) \in DOMAIN G /\ frames[j] = G[j - Len(F)]
      BY <1>2, <2>3, <2>6, <2>10 DEF Serves
    <3>2. OnePart(G, s, d)
      BY <1>1, <2>5, <3>1, OutputsWhole, Zenon DEF G
    <3>3. i - Len(F) = j - Len(F)
      BY <1>2, <3>1, <3>2, Zenon DEF OnePart
    <3>4. QED
      BY <2>3, <2>8, <3>3
  <2>11. QED
    BY <2>9, <2>10 DEF Dirs
<1>6. QED
  BY <1>4, <1>5

\* For byte oriented slaves nothing is left to the state but the size of the image:
\* each datagram of a cycle has the whole outputs or inputs of a slave
\* (the loops over IOsegment in ecx_main_send_processdata), and a work counter that
\* reaches expectedWKC proves the exchange.
THEOREM AlignedExchange ==
    ASSUME RealNetworks, SlavesFit, TwoRunNetworks, Aligned
    PROVE  ExchangeSpec => [](SmallImage /\ ~ (overlap /\ group.blockLRW) => WkcProvesExchange /\ CountsOnce)
<1>1. Init => UncutInv
  BY InitUncut
<1>2. MapInv' => FmmuOK'
  BY DEF MapInv
<1>3. ImageInv /\ ImageInv' /\ UncutInv /\ [Next]_vars => UncutInv'
  BY <1>2, NextUncut DEF ImageInv
<1>4. Spec => []UncutInv
  BY <1>1, <1>3, ImageInvariant, PTL DEF Spec
<1>5. ExchangeSpec => []SentInv
  <2>1. ExchangeInit => SentInv
    BY InitSentInv
  <2>2. SentInv /\ [ExchangeNext]_allVars => SentInv'
    BY NextSentInv
  <2>3. QED
    BY <2>1, <2>2, PTL DEF ExchangeSpec
<1>6. /\ ImageInv /\ SentInv /\ UncutInv
      /\ (Exchangeable => WkcProvesExchange) /\ (Exchangeable => CountsOnce)
      => (SmallImage /\ ~ (overlap /\ group.blockLRW) => WkcProvesExchange /\ CountsOnce)
  <2> SUFFICES ASSUME ImageInv, SentInv, UncutInv, Exchangeable => WkcProvesExchange, Exchangeable => CountsOnce,
                      SmallImage, ~ (overlap /\ group.blockLRW)
               PROVE  WkcProvesExchange /\ CountsOnce
    OBVIOUS
  <2>1. CASE cycle > 0
    BY <2>1, FramesWhole DEF Exchangeable
  <2>2. CASE ~ (cycle > 0)
    BY <2>2 DEF WkcProvesExchange, CountsOnce, Received
  <2>3. QED
    BY <2>1, <2>2
<1>7. ExchangeSpec => [](Exchangeable => CountsOnce)
  BY WorkCounterProves, PTL
<1>8. QED
  BY <1>4, <1>5, <1>6, <1>7, ExchangeProved, ImageInvariant, ExchangeMaps, PTL
================================================================================
