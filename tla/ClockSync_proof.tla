----------------------------- MODULE ClockSync_proof -----------------------------
(***************************************************************************)
(* Proofs about distributed clocks: the search for the parent of a slave   *)
(* finds the one it is plugged into, in a network of any size and shape,   *)
(* and the sync pulses start in time, for any cycle times and shifts, any  *)
(* clock of the slave and any times its datagrams take.                    *)
(***************************************************************************)
EXTENDS ClockSync, WellFoundedInduction, FiniteSetTheorems, TLAPS

--------------------------------------------------------------------------------
(* The parents. *)

\* Slaves are numbered as the datagram reaches them: those between a slave and its
\* parent are below the parent, too, and each is plugged into a port of its own.
InOrder(w) ==
    \E n \in Nat \ {0} :
        /\ w.up \in [1 .. n -> Nat] /\ w.port \in [1 .. n -> Port \ {0}]
        /\ w.up[1] = 0
        /\ \A i \in 2 .. n : w.up[i] \in 1 .. i - 1
        /\ \A i \in 2 .. n : \A m \in w.up[i] + 1 .. i - 1 : w.up[m] >= w.up[i]
        /\ \A i, j \in 1 .. n : w.up[i] = w.up[j] /\ w.port[i] = w.port[j] => i = j

\* Induction downwards.
LEMMA DownTo ==
    ASSUME NEW k \in Nat, NEW S, k \in S, \A s \in 1 .. k - 1 : s + 1 \in S => s \in S
    PROVE  1 .. k \subseteq S
<1> DEFINE T == {s \in 1 .. k : s \notin S}
           U == {k - s : s \in T}
           R == {x \in Nat \X Nat : x[1] < x[2]}
<1> SUFFICES ASSUME T # {} PROVE FALSE
  OBVIOUS
<1>1. U \in SUBSET Nat /\ U # {}
  <2>1. \A s \in T : k - s \in Nat
    OBVIOUS
  <2>2. QED
    BY <2>1
<1>2. IsWellFoundedOn(R, Nat)
  BY NatLessThanWellFounded, Zenon DEF OpToRel
<1>3. PICK u \in U : \A v \in U : ~ (<<v, u>> \in R)
  <2> HIDE DEF R, U
  <2>1. IsWellFoundedOn(R, U)
    BY <1>1, <1>2, IsWellFoundedOnSubset, Zenon
  <2>2. QED
    BY <1>1, <1>2, WFMin, Zenon
<1>4. PICK s \in T : u = k - s
  BY <1>3
<1>5. s + 1 \notin T
  <2>1. SUFFICES ASSUME s + 1 \in T PROVE FALSE
    OBVIOUS
  <2>2. k - (s + 1) \in U /\ k - (s + 1) \in Nat /\ u \in Nat /\ k - (s + 1) < u
    BY <1>1, <1>4, <2>1
  <2>3. QED
    BY <1>3, <2>2
<1>6. s # k /\ s \in 1 .. k - 1
  BY <1>4
<1>7. s + 1 \in S
  BY <1>5, <1>6
<1>8. QED
  BY <1>4, <1>6, <1>7

LEMMA IntervalCount ==
    ASSUME NEW a \in Int, NEW b \in Int, a <= b + 1
    PROVE  IsFiniteSet(a .. b) /\ Cardinality(a .. b) = b + 1 - a
<1>1. IsFiniteSet(a .. b) /\ Cardinality(a .. b) = IF a > b THEN 0 ELSE b - a + 1
  BY FS_Interval, Zenon
<1>2. QED
  BY <1>1

\* The slaves that are plugged into one of those from s on.
Below(w, s, k) == {c \in Slaves(w) : w.up[c] \in s .. k}
LEMMA BelowFinite ==
    ASSUME NEW n \in Nat, NEW w, Slaves(w) = 1 .. n, NEW s, NEW k
    PROVE  IsFiniteSet(Below(w, s, k)) /\ Cardinality(Below(w, s, k)) \in Nat
           /\ IsFiniteSet(Children(w, s)) /\ Cardinality(Children(w, s)) \in Nat
<1>1. IsFiniteSet(1 .. n)
  BY FS_Interval
<1>2. Below(w, s, k) \in SUBSET (1 .. n) /\ Children(w, s) \in SUBSET (1 .. n)
  BY DEF Below, Children
<1>3. QED
  BY <1>1, <1>2, FS_Subset, FS_CardinalityType

\* They are plugged into s, or into one after it.
LEMMA BelowSplit ==
    ASSUME NEW n \in Nat, NEW w, Slaves(w) = 1 .. n, w.up \in [1 .. n -> Nat],
           NEW s \in Nat, NEW k \in Nat, s <= k
    PROVE  Cardinality(Below(w, s, k)) = Cardinality(Children(w, s))
                                         + IF s = k THEN 0 ELSE Cardinality(Below(w, s + 1, k))
<1> DEFINE C == Children(w, s)
           B == Below(w, s + 1, k)
<1>1. Below(w, s, k) = C \cup B
  BY DEF Below, Children
<1>2. C \cap B = {}
  BY DEF Below, Children
<1>3. /\ IsFiniteSet(C) /\ Cardinality(C) \in Nat
      /\ IsFiniteSet(B) /\ Cardinality(B) \in Nat
  BY BelowFinite
<1>4. s = k => B = {}
  BY DEF Below
<1> HIDE DEF C, B
<1>5. Cardinality(C \cup B) = Cardinality(C) + Cardinality(B) - Cardinality(C \cap B)
  BY <1>3, FS_Union
<1>6. Cardinality(C \cap B) = 0
  BY <1>2, FS_EmptySet
<1>7. s = k => Cardinality(B) = 0
  BY <1>4, FS_EmptySet
<1>8. Cardinality(Below(w, s, k)) = Cardinality(C) + Cardinality(B)
  BY <1>1, <1>3, <1>5, <1>6
<1>9. QED
  BY <1>3, <1>7, <1>8 DEF C, B

\* What holds of a network of n slaves that InOrder describes.
Wired(w, n) ==
    /\ n \in Nat \ {0} /\ Slaves(w) = 1 .. n
    /\ w.up \in [1 .. n -> Nat] /\ w.port \in [1 .. n -> Port \ {0}]
    /\ w.up[1] = 0
    /\ \A i \in 2 .. n : w.up[i] \in 1 .. i - 1
    /\ \A i \in 2 .. n : \A m \in w.up[i] + 1 .. i - 1 : w.up[m] >= w.up[i]
    /\ \A i, j \in 1 .. n : w.up[i] = w.up[j] /\ w.port[i] = w.port[j] => i = j

\* A slave has its port 0 open and one for each slave plugged into it.
LEMMA OpenPortsCount ==
    ASSUME NEW w, NEW n, Wired(w, n), NEW s \in 1 .. n
    PROVE  /\ Cardinality(Children(w, s)) \in 0 .. 3
           /\ Cardinality(OpenPorts(w, s)) = 1 + Cardinality(Children(w, s))
<1> DEFINE C == Children(w, s)
           P == {w.port[c] : c \in C}
           f == [c \in C |-> w.port[c]]
<1>1. C \subseteq 1 .. n /\ \A c \in C : w.up[c] = s
  BY DEF Wired, Children
<1>2. \A c \in C : w.port[c] \in 1 .. 3
  BY <1>1 DEF Wired, Port
<1>3. f \in Bijection(C, P)
  <2>1. f \in [C -> P]
    OBVIOUS
  <2>2. \A a, b \in C : f[a] = f[b] => a = b
    BY <1>1 DEF Wired
  <2>3. \A t \in P : \E a \in C : f[a] = t
    OBVIOUS
  <2> HIDE DEF f, C, P
  <2>4. QED
    BY <2>1, <2>2, <2>3 DEF Bijection, Injection, Surjection, IsInjective
<1>4. IsFiniteSet(C) /\ Cardinality(C) \in Nat
  BY BelowFinite DEF Wired
<1>5. P \in SUBSET (1 .. 3) /\ 0 \notin P
  BY <1>2
<1>6. OpenPorts(w, s) = P \cup {0}
  BY DEF OpenPorts
<1> HIDE DEF C, P, f
<1>7. IsFiniteSet(P) /\ Cardinality(P) = Cardinality(C)
  <2>1. ExistsBijection(C, P)
    BY <1>3, Zenon DEF ExistsBijection
  <2>2. QED
    BY <1>4, <2>1, FS_Bijection
<1>8. Cardinality(P) <= 3
  <2>1. IsFiniteSet(1 .. 3) /\ Cardinality(1 .. 3) = 3
    <3>1. 1 \in Int /\ 3 \in Int /\ 1 <= 3 + 1 /\ 3 + 1 - 1 = 3
      OBVIOUS
    <3>2. QED
      BY <3>1, IntervalCount, Zenon
  <2>2. QED
    BY <1>5, <2>1, FS_Subset
<1>9. Cardinality(P \cup {0}) = Cardinality(P) + 1
  BY <1>5, <1>7, FS_AddElement
<1>10. QED
  BY <1>4, <1>6, <1>7, <1>8, <1>9 DEF C

\* More of the slaves between a slave and the one it is plugged into are plugged into
\* each other than there are of them; from any slave after it on, fewer.
LEMMA BelowParent ==
    ASSUME NEW w, NEW n, Wired(w, n), NEW i \in 2 .. n
    PROVE  /\ Cardinality(Below(w, w.up[i], i - 1)) >= i - w.up[i]
           /\ \A s \in w.up[i] + 1 .. i - 1 : Cardinality(Below(w, s, i - 1)) < i - s
<1> DEFINE p == w.up[i]
<1>1. p \in 1 .. i - 1 /\ n \in Nat /\ i \in Nat
  BY DEF Wired
<1>2. \A s, k : IsFiniteSet(Below(w, s, k)) /\ Cardinality(Below(w, s, k)) \in Nat
  BY BelowFinite DEF Wired
<1>3. Cardinality(Below(w, p, i - 1)) >= i - p
  <2>1. \A c \in p + 1 .. i : c \in 1 .. n /\ w.up[c] \in p .. i - 1
    <3> SUFFICES ASSUME NEW c \in p + 1 .. i PROVE c \in 1 .. n /\ w.up[c] \in p .. i - 1
      OBVIOUS
    <3>1. c \in 2 .. n /\ w.up[c] \in 1 .. c - 1
      BY <1>1 DEF Wired
    <3>2. w.up[c] >= p
      <4>1. CASE c = i
        BY <1>1, <4>1
      <4>2. CASE c \in p + 1 .. i - 1
        BY <1>1, <4>2 DEF Wired
      <4>3. QED
        BY <1>1, <4>1, <4>2
    <3>3. QED
      BY <1>1, <3>1, <3>2
  <2>2. p + 1 .. i \in SUBSET Below(w, p, i - 1)
    BY <2>1 DEF Below, Wired
  <2>3. IsFiniteSet(Below(w, p, i - 1))
    BY <1>2
  <2> HIDE DEF p
  <2>4. Cardinality(p + 1 .. i) = i - p
    BY <1>1, IntervalCount
  <2>5. Cardinality(p + 1 .. i) <= Cardinality(Below(w, p, i - 1))
    BY <2>2, <2>3, FS_Subset
  <2>6. QED
    BY <2>4, <2>5
<1>4. ASSUME NEW s \in p + 1 .. i - 1 PROVE Cardinality(Below(w, s, i - 1)) < i - s
  <2>1. ASSUME NEW c \in Below(w, s, i - 1) PROVE c \in s + 1 .. i - 1
    <3>1. c \in 1 .. n /\ w.up[c] \in s .. i - 1
      BY <2>1 DEF Below, Wired
    <3>2. c \in 2 .. n /\ w.up[c] \in 1 .. c - 1
      <4>1. c # 1
        <5>1. p >= 1 /\ s >= 1 /\ w.up[c] # 0
          BY <1>1, <3>1
        <5>2. QED
          BY <5>1 DEF Wired
      <4>2. QED
        BY <1>1, <3>1, <4>1 DEF Wired
    <3>3. c # i
      BY <1>1, <3>1
    <3>4. c > i => FALSE
      <4>1. SUFFICES ASSUME c > i PROVE FALSE
        OBVIOUS
      <4>2. i \in w.up[c] + 1 .. c - 1
        BY <1>1, <3>1, <3>2, <4>1
      <4>3. w.up[i] >= w.up[c]
        BY <3>2, <4>2 DEF Wired
      <4>4. QED
        BY <1>1, <3>1, <4>3
    <3>5. QED
      BY <1>1, <3>1, <3>2, <3>3, <3>4
  <2>2. Below(w, s, i - 1) \in SUBSET (s + 1 .. i - 1)
    BY <2>1
  <2> HIDE DEF p
  <2>3. IsFiniteSet(s + 1 .. i - 1) /\ Cardinality(s + 1 .. i - 1) = i - 1 - s
    <3>1. s + 1 \in Int /\ i - 1 \in Int /\ s + 1 <= i - 1 + 1
      BY <1>1, <1>4
    <3>2. Cardinality(s + 1 .. i - 1) = i - 1 + 1 - (s + 1)
      BY <3>1, IntervalCount
    <3>3. QED
      BY <1>1, <3>1, <3>2, IntervalCount
  <2>4. Cardinality(Below(w, s, i - 1)) <= Cardinality(s + 1 .. i - 1)
    BY <2>2, <2>3, FS_Subset
  <2>5. QED
    BY <1>1, <1>2, <2>3, <2>4
<1>5. QED
  BY <1>3, <1>4

\* What the search adds up from slave s to the one before i.
Surplus(w, s, i) == Cardinality(Below(w, s, i - 1)) - (i - s)
Weight(list, s) == CASE list[s].topology = 1 -> -1 [] list[s].topology = 3 -> 1
                     [] list[s].topology = 4 -> 2 [] OTHER -> 0
\* topoc of SearchParent
Sums(list, i, f) == f = [s \in 1 .. i - 1 |-> Weight(list, s) + (IF s = i - 1 THEN 0 ELSE f[s + 1])]

\* A slave weighs one less than the slaves plugged into it.
LEMMA WeightIs ==
    ASSUME NEW w, NEW n, Wired(w, n), NEW s \in 1 .. n, NEW list,
           list[s].topology = Cardinality(OpenPorts(w, s))
    PROVE  /\ Weight(list, s) = Cardinality(Children(w, s)) - 1
           /\ list[s].topology > 1 <=> Cardinality(Children(w, s)) > 0
<1> DEFINE c == Cardinality(Children(w, s))
           t == list[s].topology
<1>1. c \in 0 .. 3 /\ t = 1 + c
  BY OpenPortsCount
<1>2. Weight(list, s) = CASE t = 1 -> -1 [] t = 3 -> 1 [] t = 4 -> 2 [] OTHER -> 0
  BY DEF Weight
<1> HIDE DEF c, t
<1>3. Weight(list, s) = c - 1 /\ (t > 1 <=> c > 0)
  BY <1>1, <1>2
<1>4. QED
  BY <1>3 DEF c, t

LEMMA SurplusStep ==
    ASSUME NEW w, NEW n, Wired(w, n), NEW i \in 2 .. n, NEW s \in 1 .. i - 1
    PROVE  /\ Surplus(w, s, i) \in Int
           /\ Surplus(w, s, i) = Cardinality(Children(w, s)) - 1 + (IF s = i - 1 THEN 0 ELSE Surplus(w, s + 1, i))
<1> DEFINE b == Cardinality(Below(w, s, i - 1))
           a == Cardinality(Below(w, s + 1, i - 1))
           c == Cardinality(Children(w, s))
<1>1. a \in Nat /\ b \in Nat /\ c \in Nat
  BY BelowFinite DEF Wired
<1>2. n \in Nat /\ i \in Nat /\ s \in Nat /\ i - 1 \in Nat /\ s <= i - 1
  BY DEF Wired
<1>3. b = c + IF s = i - 1 THEN 0 ELSE a
  <2>1. Slaves(w) = 1 .. n /\ w.up \in [1 .. n -> Nat]
    BY DEF Wired
  <2>2. QED
    BY <1>2, <2>1, BelowSplit
<1>4. Surplus(w, s, i) = b - (i - s) /\ Surplus(w, s + 1, i) = a - (i - (s + 1))
  BY DEF Surplus
<1> HIDE DEF a, b, c
<1>5. /\ Surplus(w, s, i) \in Int
      /\ Surplus(w, s, i) = c - 1 + (IF s = i - 1 THEN 0 ELSE Surplus(w, s + 1, i))
  BY <1>1, <1>2, <1>3, <1>4
<1>6. QED
  BY <1>5 DEF c

\* The sums the search makes are defined, and they are the surplus.
LEMMA SumsAre ==
    ASSUME NEW w, NEW n, Wired(w, n), NEW i \in 2 .. n, NEW list,
           \A s \in 1 .. i - 1 : list[s].topology = Cardinality(OpenPorts(w, s))
    PROVE  /\ \E f : Sums(list, i, f)
           /\ \A f : Sums(list, i, f) => \A s \in 1 .. i - 1 : f[s] = Surplus(w, s, i)
<1>1. n \in Nat /\ i \in Nat /\ i - 1 \in Nat \ {0}
  BY DEF Wired
<1>2. ASSUME NEW s \in 1 .. i - 1
      PROVE  /\ Surplus(w, s, i) \in Int
             /\ Surplus(w, s, i) = Weight(list, s) + (IF s = i - 1 THEN 0 ELSE Surplus(w, s + 1, i))
  <2>1. s \in 1 .. n
    BY <1>1
  <2>2. Weight(list, s) = Cardinality(Children(w, s)) - 1
    BY <2>1, WeightIs
  <2>3. QED
    BY <2>2, SurplusStep
<1>3. \E f : Sums(list, i, f)
  <2> DEFINE f == [s \in 1 .. i - 1 |-> Surplus(w, s, i)]
  <2>1. \A s \in 1 .. i - 1 : s # i - 1 => s + 1 \in 1 .. i - 1
    BY <1>1
  <2>2. \A s \in 1 .. i - 1 : (IF s = i - 1 THEN 0 ELSE f[s + 1]) = (IF s = i - 1 THEN 0 ELSE Surplus(w, s + 1, i))
    BY <2>1
  <2>3. f = [s \in 1 .. i - 1 |-> Weight(list, s) + (IF s = i - 1 THEN 0 ELSE f[s + 1])]
    BY <1>2, <2>2
  <2>4. QED
    BY <2>3, Zenon DEF Sums
<1>4. ASSUME NEW f, Sums(list, i, f) PROVE \A s \in 1 .. i - 1 : f[s] = Surplus(w, s, i)
  <2> DEFINE S == {s \in 1 .. i - 1 : f[s] = Surplus(w, s, i)}
  <2>1. \A s \in 1 .. i - 1 : f[s] = Weight(list, s) + (IF s = i - 1 THEN 0 ELSE f[s + 1])
    BY <1>4, Zenon DEF Sums
  <2>2. i - 1 \in S
    BY <1>1, <1>2, <2>1
  <2>3. \A s \in 1 .. (i - 1) - 1 : s + 1 \in S => s \in S
    BY <1>1, <1>2, <2>1
  <2> HIDE DEF S
  <2>4. 1 .. i - 1 \subseteq S
    BY <1>1, <2>2, <2>3, DownTo
  <2>5. QED
    BY <2>4 DEF S
<1>5. QED
  BY <1>3, <1>4

\* The search finds the slave that this one is plugged into.
LEMMA ParentFound ==
    ASSUME NEW w, NEW n, Wired(w, n), NEW i \in 1 .. n, NEW list,
           \A s \in 1 .. i - 1 : list[s].topology = Cardinality(OpenPorts(w, s))
    PROVE  SearchParent(list, i) = w.up[i]
<1>1. CASE i = 1
  BY <1>1 DEF SearchParent, Wired
<1>2. CASE i # 1
  <2>1. n \in Nat /\ i \in 2 .. n /\ w.up[i] \in 1 .. i - 1 /\ i \in Nat
    BY <1>2 DEF Wired
  <2> DEFINE topoc == CHOOSE f : Sums(list, i, f)
             Found(s) == s = 1 \/ (topoc[s] >= 0 /\ list[s].topology > 1)
             p == w.up[i]
  <2>2. SearchParent(list, i) = CHOOSE s \in 1 .. i - 1 : Found(s) /\ \A t \in s + 1 .. i - 1 : ~Found(t)
    BY <1>2, Zenon DEF SearchParent, Sums, Weight
  <2>3. Sums(list, i, topoc)
    BY <2>1, SumsAre, Zenon
  <2>4. \A s \in 1 .. i - 1 : topoc[s] = Surplus(w, s, i)
    BY <2>1, <2>3, SumsAre, Zenon
  <2> HIDE DEF topoc
  <2>5. p \in 1 .. i - 1 /\ Found(p)
    <3>1. Cardinality(Below(w, p, i - 1)) >= i - p /\ Cardinality(Below(w, p, i - 1)) \in Nat
      BY <2>1, BelowParent, BelowFinite DEF Wired
    <3>2. topoc[p] >= 0
      BY <2>1, <2>4, <3>1 DEF Surplus
    <3>3. Cardinality(Children(w, p)) > 0
      <4>1. i \in Children(w, p) /\ IsFiniteSet(Children(w, p)) /\ Cardinality(Children(w, p)) \in Nat
        <5>1. Slaves(w) = 1 .. n
          BY DEF Wired
        <5>2. i \in Children(w, p)
          BY <5>1 DEF Children
        <5>3. QED
          BY <2>1, <5>1, <5>2, BelowFinite
      <4>2. Cardinality(Children(w, p)) # 0
        BY <4>1, FS_EmptySet
      <4>3. QED
        BY <4>1, <4>2
    <3>4. list[p].topology > 1
      BY <2>1, <3>3, WeightIs
    <3>5. QED
      BY <2>1, <3>2, <3>4
  <2>6. ASSUME NEW t \in p + 1 .. i - 1 PROVE ~Found(t)
    <3>1. Cardinality(Below(w, t, i - 1)) < i - t /\ Cardinality(Below(w, t, i - 1)) \in Nat
      BY <2>1, BelowParent, BelowFinite DEF Wired
    <3>2. t \in 1 .. i - 1 /\ t # 1
      BY <2>1
    <3>3. ~ (topoc[t] >= 0)
      BY <2>1, <2>4, <3>1, <3>2 DEF Surplus
    <3>4. QED
      BY <3>2, <3>3
  <2> HIDE DEF Found
  <2>7. \A s \in 1 .. i - 1 : Found(s) /\ (\A t \in s + 1 .. i - 1 : ~Found(t)) => s = p
    <3> SUFFICES ASSUME NEW s \in 1 .. i - 1, Found(s), \A t \in s + 1 .. i - 1 : ~Found(t) PROVE s = p
      OBVIOUS
    <3> HIDE DEF p
    <3>1. ~ (s > p)
      BY <2>1, <2>5, <2>6
    <3>2. ~ (s < p)
      BY <2>1, <2>5
    <3>3. QED
      BY <2>1, <2>5, <3>1, <3>2
  <2>8. QED
    BY <2>2, <2>5, <2>6, <2>7
<1>3. QED
  BY <1>1, <1>2

\* Every network is numbered so.
OrderedNetworks == \A w \in Networks : InOrder(w)

LEMMA OrderedIsWired ==
    ASSUME OrderedNetworks, NEW w \in Networks
    PROVE  /\ Cardinality(Slaves(w)) \in Nat \ {0}
           /\ Wired(w, Cardinality(Slaves(w)))
<1>1. PICK n \in Nat \ {0} :
        /\ w.up \in [1 .. n -> Nat] /\ w.port \in [1 .. n -> Port \ {0}]
        /\ w.up[1] = 0
        /\ \A i \in 2 .. n : w.up[i] \in 1 .. i - 1
        /\ \A i \in 2 .. n : \A m \in w.up[i] + 1 .. i - 1 : w.up[m] >= w.up[i]
        /\ \A i, j \in 1 .. n : w.up[i] = w.up[j] /\ w.port[i] = w.port[j] => i = j
  BY DEF OrderedNetworks, InOrder
<1>2. Slaves(w) = 1 .. n
  BY <1>1 DEF Slaves
<1>3. Cardinality(1 .. n) = n
  <2>1. 1 \in Int /\ n \in Int /\ 1 <= n + 1 /\ n + 1 - 1 = n
    OBVIOUS
  <2>2. QED
    BY <2>1, IntervalCount, Zenon
<1>4. Wired(w, n)
  BY <1>1, <1>2, Zenon DEF Wired
<1>5. QED
  BY <1>2, <1>3, <1>4

Fields == DOMAIN Unknown
\* Discovered(i): what the master knows of the wires of slave i is true.
Discovered(i) == slavelist[i].topology = Cardinality(OpenPorts(net, i)) /\ slavelist[i].parent = net.up[i]
ParentInv ==
    /\ net \in Networks /\ losses \in Nat
    /\ slave \in 1 .. slavecount
    /\ DOMAIN slavelist = 0 .. slavecount
    /\ \A i \in 0 .. slavecount : DOMAIN slavelist[i] = Fields
    /\ losses = 0 => \A i \in 1 .. slavecount : (pc = "discover" => i < slave) => Discovered(i)

LEMMA FieldsAre == {"topology", "activeports", "consumedports", "hasdc", "parent", "DCrt", "entryport",
                    "parentport", "pdelay", "DCnext", "DCprevious"} = Fields
BY DEF Fields, Unknown

LEMMA ParentInit == ASSUME OrderedNetworks, Init PROVE ParentInv
<1>1. net \in Networks /\ slavecount \in Nat \ {0}
  BY OrderedIsWired DEF Init, slavecount
<1>2. DOMAIN slavelist = 0 .. slavecount /\ \A i \in 0 .. slavecount : slavelist[i] = Unknown
  BY DEF Init
<1>3. slave = 1 /\ losses = 0 /\ pc = "discover"
  BY DEF Init
<1>4. \A i \in 1 .. slavecount : ~ (i < 1)
  BY <1>1
<1>5. QED
  BY <1>1, <1>2, <1>3, <1>4 DEF ParentInv, Fields

\* The losses of a step.
LEMMA LossesGrow == ASSUME losses \in Nat, Lose \/ Arrive PROVE losses' \in Nat /\ (losses' = 0 => losses = 0 /\ Arrive)
BY DEF Lose, Arrive

\* The slave just discovered gets its own parent, the earlier ones keep theirs.
LEMMA DiscoverKeeps == ASSUME OrderedNetworks, ParentInv, Discover PROVE ParentInv'
<1>1. PICK dc \in {net.dc[slave], FALSE}, ports \in {OpenPorts(net, slave), {}} :
        /\ IF dc = net.dc[slave] /\ ports # {} THEN Arrive ELSE Lose
        /\ LET found == [slavelist EXCEPT ![slave].hasdc = dc, ![slave].activeports = ports,
                                          ![slave].topology = Cardinality(ports)]
           IN slavelist' = [found EXCEPT ![slave].parent = SearchParent(found, slave)]
  BY DEF Discover
<1>2. net' = net /\ slavecount' = slavecount /\ pc = "discover"
  BY DEF Discover, slavecount, Slaves
<1>3. losses \in Nat /\ net \in Networks
  BY DEF ParentInv
<1>4. slavecount \in Nat \ {0} /\ Wired(net, slavecount)
  BY <1>3, OrderedIsWired DEF slavecount
<1> DEFINE n == slavecount
           topo == Cardinality(ports)
           found == [slavelist EXCEPT ![slave].hasdc = dc, ![slave].activeports = ports, ![slave].topology = topo]
           parent == SearchParent(found, slave)
<1>5. slave \in 1 .. n /\ DOMAIN slavelist = 0 .. n /\ \A i \in 0 .. n : DOMAIN slavelist[i] = Fields
  BY DEF ParentInv
<1>6. slavelist' = [found EXCEPT ![slave].parent = parent]
  BY <1>1
<1>7. /\ DOMAIN found = 0 .. n /\ \A i \in 0 .. n : DOMAIN found[i] = Fields
      /\ \A i \in 0 .. n : found[i].topology = IF i = slave THEN topo ELSE slavelist[i].topology
      /\ \A i \in 0 .. n : found[i].parent = slavelist[i].parent
  <2> HIDE DEF topo
  <2>1. QED
    BY <1>5, FieldsAre
<1>8. /\ DOMAIN slavelist' = 0 .. n /\ \A i \in 0 .. n : DOMAIN slavelist'[i] = Fields
      /\ \A i \in 0 .. n : slavelist'[i].topology = found[i].topology
      /\ \A i \in 0 .. n : slavelist'[i].parent = IF i = slave THEN parent ELSE slavelist[i].parent
  <2> HIDE DEF found, parent
  <2>1. QED
    BY <1>5, <1>6, <1>7, FieldsAre
<1>9. losses' \in Nat /\ (losses' = 0 => losses = 0 /\ ports = OpenPorts(net, slave))
  <2>1. IF dc = net.dc[slave] /\ ports # {} THEN Arrive ELSE Lose
    BY <1>1
  <2>2. ports # {} => ports = OpenPorts(net, slave)
    BY <1>1
  <2>3. Lose => losses' \in Nat /\ losses' # 0
    BY <1>3 DEF Lose
  <2>4. Arrive => losses' = losses
    BY DEF Arrive
  <2>5. QED
    BY <1>3, <2>1, <2>2, <2>3, <2>4
<1>10. ASSUME losses' = 0 PROVE \A i \in 1 .. n : i <= slave => Discovered(i)'
  <2>1. \A i \in 1 .. slave - 1 : Discovered(i)
    BY <1>2, <1>4, <1>5, <1>9, <1>10 DEF ParentInv
  <2>2. topo = Cardinality(OpenPorts(net, slave))
    BY <1>9, <1>10
  <2> HIDE DEF topo, found
  <2>3. \A i \in 1 .. slave - 1 : found[i].topology = Cardinality(OpenPorts(net, i))
    BY <1>4, <1>5, <1>7, <2>1 DEF Discovered
  <2>4. parent = net.up[slave]
    BY <1>4, <1>5, <2>3, ParentFound
  <2> HIDE DEF parent
  <2>5. \A i \in 1 .. n : i <= slave => /\ slavelist'[i].topology = Cardinality(OpenPorts(net, i))
                                        /\ slavelist'[i].parent = net.up[i]
    BY <1>4, <1>5, <1>7, <1>8, <2>1, <2>2, <2>4 DEF Discovered
  <2>6. QED
    BY <1>2, <2>5 DEF Discovered
<1>11. slave' \in 1 .. n /\ (pc' = "discover" => slave' = slave + 1) /\ (pc' # "discover" => slave = n)
  <2>1. CASE slave = n
    BY <1>2, <1>4, <1>5, <2>1 DEF Discover
  <2>2. CASE slave # n
    BY <1>2, <1>4, <1>5, <2>2 DEF Discover
  <2>3. QED
    BY <2>1, <2>2
<1> HIDE DEF found, parent, topo
<1>12. losses' = 0 => \A i \in 1 .. n : (pc' = "discover" => i < slave') => Discovered(i)'
  BY <1>4, <1>5, <1>10, <1>11
<1>13. QED
  BY <1>2, <1>3, <1>8, <1>9, <1>11, <1>12 DEF ParentInv

\* A record of a slave, and a list of them, whose wires are the same.
SameWires(a, b) == DOMAIN b = DOMAIN a /\ b.topology = a.topology /\ b.parent = a.parent
SameList(l, m) == DOMAIN m = DOMAIN l /\ \A i \in DOMAIN l : SameWires(l[i], m[i])

\* Once all slaves are discovered, no step changes what is known of the wires.
LEMMA LaterKeeps ==
    ASSUME ParentInv, pc # "discover", net' = net, losses' \in Nat, losses' = 0 => losses = 0,
           slave' \in 1 .. slavecount, SameList(slavelist, slavelist')
    PROVE  ParentInv'
<1>1. slavecount' = slavecount /\ net' \in Networks
  BY DEF slavecount, Slaves, ParentInv
<1>2. /\ DOMAIN slavelist' = 0 .. slavecount /\ \A i \in 0 .. slavecount : DOMAIN slavelist'[i] = Fields
      /\ \A i \in 0 .. slavecount : /\ slavelist'[i].topology = slavelist[i].topology
                                    /\ slavelist'[i].parent = slavelist[i].parent
  BY DEF ParentInv, SameList, SameWires
<1>3. losses' = 0 => \A i \in 1 .. slavecount : Discovered(i)
  BY DEF ParentInv
<1>4. 1 .. slavecount \subseteq 0 .. slavecount
  OBVIOUS
<1>5. losses' = 0 => \A i \in 1 .. slavecount : Discovered(i)'
  BY <1>2, <1>3, <1>4 DEF Discovered
<1>6. QED
  BY <1>1, <1>2, <1>5 DEF ParentInv

LEMMA NextSlaveIs ==
    ASSUME ParentInv, pc # "discover", NextSlave, OrderedNetworks
    PROVE  slave' \in 1 .. slavecount
<1>1. slavecount \in Nat \ {0} /\ slave \in 1 .. slavecount
  BY OrderedIsWired DEF ParentInv, slavecount
<1>2. CASE slave = slavecount
  BY <1>1, <1>2 DEF NextSlave
<1>3. CASE slave # slavecount
  BY <1>1, <1>3 DEF NextSlave
<1>4. QED
  BY <1>2, <1>3

\* A delay changes the records of the slave, of the clock before it and of its parent,
\* and nothing of their wires.
LEMMA FindKeeps ==
    ASSUME ParentInv, NEW lost, NEW written, FindDelay(lost, written)
    PROVE  SameList(slavelist, slavelist')
<1> DEFINE times == ReadTimes(lost)
           timed == [slavelist[slave] EXCEPT !.DCrt = times, !.DCprevious = prevDCslave]
<1>1. PICK entry \in EntryPorts(timed) :
         LET entered == [timed EXCEPT !.entryport = entry, !.consumedports = timed.activeports \ {entry}]
             listed == [slavelist EXCEPT ![slave] = entered, ![prevDCslave].DCnext = slave, ![0].hasdc = TRUE]
             up == ClockParent(listed, slave)
             p == listed[up.parent]
             placed == [entered EXCEPT !.parentport = IF p.topology = 1 THEN p.entryport ELSE ecx_parentport(p)]
             pdelay == Propagation(placed, p, up.child, up.parent)
         IN IF up.parent = 0
              THEN slavelist' = listed /\ ht' = timed.DCrt[3] /\ UNCHANGED delays
              ELSE /\ slavelist' = [listed EXCEPT ![slave] = [placed EXCEPT !.pdelay = pdelay],
                                                  ![up.parent] = Consume(p)]
                   /\ ht' = pdelay
                   /\ delays' = IF written THEN [delays EXCEPT ![slave] = pdelay] ELSE delays
  BY DEF FindDelay
<1> DEFINE left == timed.activeports \ {entry}
           entered == [timed EXCEPT !.entryport = entry, !.consumedports = left]
           listed == [slavelist EXCEPT ![slave] = entered, ![prevDCslave].DCnext = slave, ![0].hasdc = TRUE]
           up == ClockParent(listed, slave)
           u == up.parent
           p == listed[u]
           port == IF p.topology = 1 THEN p.entryport ELSE ecx_parentport(p)
           placed == [entered EXCEPT !.parentport = port]
           pdelay == Propagation(placed, p, up.child, u)
           final == [placed EXCEPT !.pdelay = pdelay]
           eaten == p.consumedports \ {ecx_parentport(p)}
           consumed == [p EXCEPT !.consumedports = eaten]
<1>2. slavelist' \in {listed, [listed EXCEPT ![slave] = final, ![u] = consumed]}
  BY <1>1 DEF Consume
<1>3. DOMAIN slavelist = 0 .. slavecount /\ \A i \in 0 .. slavecount : DOMAIN slavelist[i] = Fields
  BY DEF ParentInv
<1>4. slave \in 0 .. slavecount
  BY DEF ParentInv
<1>5. SameWires(slavelist[slave], timed)
  <2> HIDE DEF times
  <2>1. QED
    BY <1>3, <1>4, FieldsAre DEF SameWires
<1>6. SameWires(slavelist[slave], entered)
  <2> HIDE DEF timed, left
  <2>1. QED
    BY <1>3, <1>4, <1>5, FieldsAre DEF SameWires
<1>7. SameWires(slavelist[slave], final)
  <2> HIDE DEF entered, port, pdelay
  <2>1. QED
    BY <1>3, <1>4, <1>6, FieldsAre DEF SameWires
<1>8. SameList(slavelist, listed)
  <2> HIDE DEF entered
  <2>1. QED
    BY <1>3, <1>4, <1>6, FieldsAre DEF SameList, SameWires
<1>9. SameList(slavelist, [listed EXCEPT ![slave] = final, ![u] = consumed])
  <2>1. u \in DOMAIN slavelist => SameWires(slavelist[u], consumed)
    <3> HIDE DEF listed, u, eaten
    <3>1. QED
      BY <1>3, <1>8, FieldsAre DEF SameList, SameWires
  <2> HIDE DEF listed, u, consumed, final
  <2>2. QED
    BY <1>3, <1>4, <1>7, <1>8, <2>1 DEF SameList, SameWires
<1>10. QED
  BY <1>2, <1>8, <1>9

LEMMA HoldKeeps ==
    ASSUME ParentInv, HoldRootParent
    PROVE  SameList(slavelist, slavelist')
<1> DEFINE s == slavelist[slave]
           ports == s.activeports
           zero == [p \in Port |-> 0]
           hold == IF s.parent > 0 /\ slavelist[s.parent].topology > 2 THEN s.parent ELSE parenthold
           opened == [slavelist EXCEPT ![slave].consumedports = ports, ![slave].DCrt = zero]
           eaten == opened[hold].consumedports \ {ecx_parentport(opened[hold])}
<1>1. slavelist' \in {opened, [opened EXCEPT ![hold].consumedports = eaten]}
  BY DEF HoldRootParent, Consume
<1>2. DOMAIN slavelist = 0 .. slavecount /\ \A i \in 0 .. slavecount : DOMAIN slavelist[i] = Fields
  BY DEF ParentInv
<1>3. slave \in 0 .. slavecount
  BY DEF ParentInv
<1>4. SameList(slavelist, opened)
  <2> HIDE DEF ports, zero
  <2>1. QED
    BY <1>2, <1>3, FieldsAre DEF SameList, SameWires
<1>5. SameList(slavelist, [opened EXCEPT ![hold].consumedports = eaten])
  <2> HIDE DEF hold, eaten, opened
  <2>1. QED
    BY <1>2, <1>4, FieldsAre DEF SameList, SameWires
<1>6. QED
  BY <1>1, <1>4, <1>5

LEMMA WiringKeepsParents == ASSUME OrderedNetworks, ParentInv, Next PROVE ParentInv'
<1>1. losses \in Nat /\ slave \in 1 .. slavecount
  BY DEF ParentInv
<1>2. SameList(slavelist, slavelist)
  BY DEF SameList, SameWires
<1>3. CASE Latch
  <2>1. pc # "discover" /\ net' = net /\ slavelist' = slavelist /\ slave' = slave /\ (Arrive \/ Lose)
    BY <1>3 DEF Latch
  <2>2. QED
    BY <1>1, <1>2, <2>1, LaterKeeps, LossesGrow
<1>4. CASE DelayOfClock
  <2>1. pc # "discover" /\ net' = net /\ NextSlave /\ (Arrive \/ Lose)
    BY <1>4 DEF DelayOfClock
  <2>2. SameList(slavelist, slavelist')
    <3>1. PICK lost \in {{}} \cup {{p} : p \in Port}, written \in BOOLEAN : FindDelay(lost, written)
      BY <1>4, Zenon DEF DelayOfClock
    <3>2. QED
      BY <3>1, FindKeeps, Zenon
  <2>3. QED
    BY <1>1, <2>1, <2>2, LaterKeeps, LossesGrow, NextSlaveIs
<1>5. CASE HoldRootParent
  <2>1. pc # "discover" /\ net' = net /\ NextSlave /\ losses' = losses
    BY <1>5 DEF HoldRootParent
  <2>2. SameList(slavelist, slavelist')
    BY <1>5, HoldKeeps
  <2>3. QED
    BY <1>1, <2>1, <2>2, LaterKeeps, NextSlaveIs
<1>6. CASE Done
  <2>1. pc # "discover" /\ net' = net /\ slavelist' = slavelist /\ slave' = slave /\ losses' = losses
    BY <1>6 DEF Done, vars
  <2>2. QED
    BY <1>1, <1>2, <2>1, LaterKeeps
<1>7. QED
  BY <1>3, <1>4, <1>5, <1>6, DiscoverKeeps DEF Next

\* The calls and the loop that come later touch no record of a slave.
LEMMA DatagramKeepsParents ==
    ASSUME ParentInv, UNCHANGED <<net, slavelist, pc, slave>>, Arrive \/ Lose
    PROVE  ParentInv'
<1>1. losses' \in Nat /\ (losses' = 0 => losses = 0)
  BY LossesGrow DEF ParentInv
<1>2. slavecount' = slavecount
  BY DEF slavecount, Slaves
<1>3. \A i : Discovered(i)' <=> Discovered(i)
  BY DEF Discovered
<1>4. QED
  BY <1>1, <1>2, <1>3 DEF ParentInv

LEMMA ParentsStay ==
    ASSUME ParentInv, UNCHANGED vars
    PROVE  ParentInv'
<1>1. UNCHANGED <<net, slavelist, pc, slave, losses>>
  BY DEF vars
<1>2. slavecount' = slavecount
  BY <1>1 DEF slavecount, Slaves
<1>3. \A i : Discovered(i)' <=> Discovered(i)
  BY <1>1 DEF Discovered
<1>4. QED
  BY <1>1, <1>2, <1>3 DEF ParentInv

\* A slave is plugged into the one that the search for its parent finds, for every
\* network whose slaves are numbered as the datagram reaches them, however many there
\* are and wherever its lines split, if no datagram was lost ("search for parent",
\* ecx_config_init): neither the delays nor the start of the pulses change it.
THEOREM EveryParentIsReal == ASSUME OrderedNetworks PROVE SyncSpec => []ParentIsReal
<1>1. SyncInit => ParentInv
  BY ParentInit DEF SyncInit
<1>2. ASSUME ParentInv, [SyncNext]_<<vars, syncVars, loopVars>> PROVE ParentInv'
  <2>1. CASE Next
    BY <1>2, <2>1, WiringKeepsParents
  <2>2. CASE UNCHANGED vars
    BY <1>2, <2>2, ParentsStay
  <2>3. Call \/ EnterLoop => UNCHANGED vars
    BY DEF Call, EnterLoop
  <2>4. ASSUME CallSteps \/ Turn PROVE UNCHANGED <<net, slavelist, pc, slave>> /\ (Arrive \/ Lose)
    BY <2>4 DEF CallSteps, StopCyclic, WriteAccess, ReadSystime, WriteStart, WriteCycle0, WriteCycle1,
                Activate, Datagram, Turn
  <2>5. QED
    BY <1>2, <2>1, <2>2, <2>3, <2>4, DatagramKeepsParents DEF SyncNext
<1>3. ASSUME OrderedNetworks, ParentInv PROVE ParentIsReal
  <2>1. SUFFICES ASSUME Undisturbed, NEW i \in Slaves(net) PROVE slavelist[i].parent = net.up[i]
    BY DEF ParentIsReal
  <2>2. pc = "done" /\ losses = 0
    BY <2>1 DEF Undisturbed
  <2>3. i \in 1 .. slavecount
    BY <1>3, <2>1, OrderedIsWired DEF Wired, ParentInv, slavecount
  <2>4. QED
    BY <1>3, <2>2, <2>3 DEF ParentInv, Discovered
<1>4. QED
  BY <1>1, <1>2, <1>3, PTL DEF SyncSpec

--------------------------------------------------------------------------------
(* The pulses. *)

USE DcAssumption, SyncAssumption DEF DcAssumption, SyncAssumption

Calling == {"stop", "cuc", "time", "start", "cycle0", "cycle1", "act"}

--------------------------------------------------------------------------------
(* Whole multiples. *)

LEMMA Multiple == ASSUME NEW n \in Nat \ {0}, NEW k \in Int PROVE (n * k) % n = 0
<1> DEFINE q == (n * k) \div n
           r == (n * k) % n
<1>1. n * k \in Int
  OBVIOUS
<1>2. q \in Int /\ r \in 0 .. n - 1 /\ n * k = n * q + r
  BY <1>1
<1> HIDE DEF q, r
<1>3. n * (k - q) = r
  BY <1>2
<1>4. ASSUME k - q >= 1 PROVE FALSE
  <2>1. n * (k - q) >= n
    BY <1>2, <1>4
  <2>2. QED
    BY <1>2, <1>3, <2>1
<1>5. ASSUME k - q <= -1 PROVE FALSE
  <2>1. n * (k - q) <= -n
    BY <1>2, <1>5
  <2>2. QED
    BY <1>2, <1>3, <2>1
<1>6. k - q = 0
  BY <1>2, <1>4, <1>5
<1>7. r = 0
  BY <1>2, <1>3, <1>6
<1>8. QED
  BY <1>7 DEF r

\* The next multiple of n above t.
LEMMA RoundedUp ==
    ASSUME NEW n \in Nat \ {0}, NEW t \in Int
    PROVE  /\ (t \div n) * n + n \in Int
           /\ (t \div n) * n + n > t
           /\ ((t \div n) * n + n) % n = 0
<1> DEFINE q == t \div n
<1>1. q \in Int /\ t = n * q + (t % n) /\ t % n \in 0 .. n - 1
  OBVIOUS
<1> HIDE DEF q
<1>2. q * n + n = n * (q + 1)
  BY <1>1
<1>3. (n * (q + 1)) % n = 0
  BY <1>1, Multiple
<1>4. n * q = q * n
  BY <1>1
<1>5. q * n + n \in Int /\ q * n + n > t /\ (q * n + n) % n = 0
  BY <1>1, <1>2, <1>3, <1>4
<1>6. QED
  BY <1>5 DEF q

LEMMA CycleType ==
    ASSUME NEW c \in Calls
    PROVE  TrueCyclTime(c) \in Nat /\ (c.CyclTime0 > 0 => TrueCyclTime(c) > 0)
<1>1. c.CyclTime0 \in Nat /\ c.CyclTime1 \in Nat /\ (c.sync1 => c.CyclTime0 > 0)
  OBVIOUS
<1>2. CASE c.sync1
  <2> DEFINE q == c.CyclTime1 \div c.CyclTime0
  <2>1. q \in Nat
    BY <1>1, <1>2
  <2>2. TrueCyclTime(c) = (q + 1) * c.CyclTime0
    BY <1>2 DEF TrueCyclTime
  <2> HIDE DEF q
  <2>3. (q + 1) * c.CyclTime0 \in Nat /\ (q + 1) * c.CyclTime0 >= c.CyclTime0
    BY <1>1, <2>1
  <2>4. QED
    BY <1>1, <1>2, <2>2, <2>3
<1>3. CASE ~c.sync1
  BY <1>1, <1>3 DEF TrueCyclTime
<1>4. QED
  BY <1>2, <1>3

\* "always a whole multiple of CyclTime rounded up plus the shifttime"
LEMMA TriggerIsAhead ==
    ASSUME NEW c \in Calls, t1 \in Nat
    PROVE  /\ FirstTrigger(c) \in Int
           /\ FirstTrigger(c) >= t1 + SyncDelay + c.CyclShift
           /\ c.CyclTime0 > 0 => (FirstTrigger(c) - c.CyclShift) % TrueCyclTime(c) = 0
<1> DEFINE n == TrueCyclTime(c)
           t == t1 + SyncDelay
           up == (t \div n) * n + n
<1>1. c.CyclTime0 \in Nat /\ c.CyclShift \in Int /\ t \in Int
  OBVIOUS
<1>2. CASE c.CyclTime0 = 0
  BY <1>1, <1>2 DEF FirstTrigger
<1>3. CASE c.CyclTime0 > 0
  <2>1. n \in Nat \ {0}
    BY <1>3, CycleType
  <2>2. FirstTrigger(c) = up + c.CyclShift
    BY <1>1, <1>3 DEF FirstTrigger
  <2> HIDE DEF n, t
  <2>3. up \in Int /\ up > t /\ up % n = 0
    BY <1>1, <2>1, RoundedUp
  <2> HIDE DEF up
  <2>4. /\ up + c.CyclShift \in Int /\ up + c.CyclShift >= t + c.CyclShift
        /\ up + c.CyclShift - c.CyclShift = up
    BY <1>1, <2>3
  <2>5. QED
    BY <1>1, <2>2, <2>3, <2>4 DEF n, t
<1>4. QED
  BY <1>1, <1>2, <1>3

--------------------------------------------------------------------------------
(* The call. *)

\* "here 100ms": the first pulse is so far away, the shift included, that the
\* datagrams of the call have time to tell the slave of it.
PulseIsAhead == \A c \in Calls : c.act => SyncDelay + c.CyclShift > 4 * Timeout

LEMMA StartInit == SyncInit => StartInv
BY DEF SyncInit, Init, StartInv, Sent

LEMMA WiringKeeps == ASSUME StartInv, Next /\ UNCHANGED <<syncVars, loopVars>> PROVE StartInv'
<1>1. /\ losses' \in Nat /\ (losses' = 0 => losses = 0)
  <2>1. Discover => Arrive \/ Lose
    BY DEF Discover
  <2>2. Latch => Arrive \/ Lose
    BY DEF Latch
  <2>3. DelayOfClock => Arrive \/ Lose
    BY DEF DelayOfClock
  <2>4. HoldRootParent \/ Done => losses' = losses
    BY DEF HoldRootParent, Done, vars
  <2>5. QED
    BY <2>1, <2>2, <2>3, <2>4 DEF StartInv, Next, Arrive, Lose
<1>2. UNCHANGED <<at, call, now, t1, sync>>
  BY DEF syncVars
<1>3. FirstTrigger(call)' = FirstTrigger(call) /\ Spent' = Spent
  BY <1>2 DEF FirstTrigger, TrueCyclTime, Spent
<1>4. QED
  BY <1>1, <1>2, <1>3 DEF StartInv, Sent

LEMMA CallKeeps == ASSUME StartInv, Call PROVE StartInv'
<1>1. /\ losses' = losses /\ sync' = sync /\ call' \in Calls /\ now' = Now /\ t1' = 0 /\ at' = "stop"
  BY DEF Call, vars
<1>2. QED
  BY <1>1 DEF StartInv, Sent

LEMMA LoopKeeps == ASSUME StartInv, EnterLoop \/ Turn PROVE StartInv'
<1>1. CASE EnterLoop
  BY <1>1 DEF EnterLoop, StartInv, Sent, vars
<1>2. CASE Turn
  BY <1>2 DEF Turn, StartInv, Sent, syncVars, Arrive, Lose
<1>3. QED
  BY <1>1, <1>2

\* What a datagram of the call does to the clock, the losses and the rest.
LEMMA Sends ==
    ASSUME StartInv, CallSteps
    PROVE  /\ at \in Calling /\ call' = call
           /\ now' \in Nat /\ losses' \in Nat
           /\ losses' = 0 => losses = 0 /\ now' <= now + Timeout
<1> USE DEF StartInv, Calling, Datagram, Arrive, Lose
<1>1. CASE StopCyclic
  BY <1>1 DEF StopCyclic
<1>2. CASE WriteAccess
  BY <1>2 DEF WriteAccess
<1>3. CASE ReadSystime
  BY <1>3 DEF ReadSystime
<1>4. CASE WriteStart
  BY <1>4 DEF WriteStart
<1>5. CASE WriteCycle0
  BY <1>5 DEF WriteCycle0
<1>6. CASE WriteCycle1
  BY <1>6 DEF WriteCycle1
<1>7. CASE Activate
  BY <1>7 DEF Activate
<1>8. QED
  BY <1>1, <1>2, <1>3, <1>4, <1>5, <1>6, <1>7 DEF CallSteps

Registers == [start : Int, cycle0 : Nat, cycle1 : Nat, on : BOOLEAN, both : BOOLEAN, fires : BOOLEAN]

\* What a write of the start time and of a cycle time leaves alone.
LEMMA StartWritten ==
    ASSUME NEW r \in Registers, NEW n \in Int
    PROVE  [r EXCEPT !.start = n] \in Registers /\ [r EXCEPT !.start = n].start = n
BY DEF Registers

LEMMA CycleWritten ==
    ASSUME NEW r \in Registers, NEW m \in Nat
    PROVE  /\ [r EXCEPT !.cycle0 = m] \in Registers
           /\ [r EXCEPT !.cycle0 = m].cycle0 = m /\ [r EXCEPT !.cycle0 = m].start = r.start
           /\ [r EXCEPT !.cycle1 = m] \in Registers
           /\ [r EXCEPT !.cycle1 = m].start = r.start /\ [r EXCEPT !.cycle1 = m].cycle0 = r.cycle0
BY DEF Registers

LEMMA StepsKeep == ASSUME PulseIsAhead, StartInv, CallSteps PROVE StartInv'
<1>1. /\ call' = call /\ now' \in Nat /\ losses' \in Nat
      /\ losses' = 0 => losses = 0 /\ now' <= now + Timeout
  BY Sends
<1>2. sync \in Registers /\ call \in Calls /\ now \in Nat /\ t1 \in Nat /\ losses \in Nat
  BY DEF StartInv, Registers
<1>3. /\ call.CyclTime0 \in Nat /\ call.CyclTime1 \in Nat /\ call.CyclShift \in Int
      /\ call.sync1 \in BOOLEAN /\ call.act \in BOOLEAN
  BY <1>2
<1>4. /\ FirstTrigger(call) \in Int
      /\ FirstTrigger(call) >= t1 + SyncDelay + call.CyclShift
  BY <1>2, TriggerIsAhead
<1>5. t1' = t1 => FirstTrigger(call)' = FirstTrigger(call)
  BY <1>1 DEF FirstTrigger, TrueCyclTime
<1>6. losses = 0 => /\ Sent({"set"}) => now <= t1 + Spent * Timeout
                    /\ Sent({"start"}) => sync.start = FirstTrigger(call)
                    /\ Sent({"start", "cycle0"}) => sync.cycle0 = call.CyclTime0
  BY DEF StartInv
<1> SUFFICES /\ sync' \in Registers /\ t1' \in Nat
             /\ losses' = 0 =>
                  /\ Sent({"set"})' => now' <= t1' + Spent' * Timeout
                  /\ Sent({"start"})' => sync'.start = FirstTrigger(call)'
                  /\ Sent({"start", "cycle0"})' => sync'.cycle0 = call.CyclTime0
                  /\ at' = "set" => sync'.on = call.act /\ sync'.fires = call.act
  BY <1>1, <1>2 DEF StartInv, Registers
<1> USE DEF Datagram, Arrive, Lose
<1>7. CASE StopCyclic
  <2>1. sync' \in {sync, [sync EXCEPT !.on = FALSE, !.fires = FALSE]} /\ at' = "cuc" /\ t1' = t1
    BY <1>7 DEF StopCyclic
  <2>2. sync' \in Registers
    BY <1>2, <2>1 DEF Registers
  <2>3. QED
    BY <1>2, <2>1, <2>2 DEF Sent
<1>8. CASE WriteAccess
  BY <1>2, <1>8 DEF WriteAccess, Sent
<1>9. CASE ReadSystime
  <2>1. at' = "start" /\ sync' = sync /\ t1' \in Nat
    BY <1>2, <1>9 DEF ReadSystime
  <2>2. losses' = 0 => t1' = now
    BY <1>2, <1>9 DEF ReadSystime
  <2>3. losses' = 0 => now' <= t1' + 1 * Timeout
    BY <1>1, <2>2
  <2>4. QED
    BY <1>2, <2>1, <2>3 DEF Sent, Spent
<1>10. CASE WriteStart
  <2>1. at = "start" /\ at' = "cycle0" /\ t1' = t1
    BY <1>10 DEF WriteStart
  <2>2. sync' \in {sync, [sync EXCEPT !.start = FirstTrigger(call)]}
    BY <1>10 DEF WriteStart
  <2>3. losses' = 0 => sync' = [sync EXCEPT !.start = FirstTrigger(call)]
    BY <1>2, <1>10 DEF WriteStart
  <2>4. sync' \in Registers /\ (losses' = 0 => sync'.start = FirstTrigger(call))
    BY <1>2, <1>4, <2>2, <2>3, StartWritten
  <2>5. losses' = 0 => now' <= t1' + 2 * Timeout
    BY <1>1, <1>2, <1>6, <2>1 DEF Sent, Spent
  <2>6. QED
    BY <1>2, <1>5, <2>1, <2>4, <2>5 DEF Sent, Spent
<1>11. CASE WriteCycle0
  <2>1. at = "cycle0" /\ at' \in {"cycle1", "act"} /\ t1' = t1
    BY <1>11 DEF WriteCycle0
  <2>2. sync' \in {sync, [sync EXCEPT !.cycle0 = call.CyclTime0]}
    BY <1>11 DEF WriteCycle0
  <2>3. losses' = 0 => sync' = [sync EXCEPT !.cycle0 = call.CyclTime0]
    BY <1>2, <1>11 DEF WriteCycle0
  <2>4. /\ sync' \in Registers
        /\ losses' = 0 => sync'.start = sync.start /\ sync'.cycle0 = call.CyclTime0
    <3> DEFINE new == [sync EXCEPT !.cycle0 = call.CyclTime0]
    <3>1. new \in Registers /\ new.start = sync.start /\ new.cycle0 = call.CyclTime0
      BY <1>2, <1>3, CycleWritten, Zenon
    <3>2. sync' \in {sync, new} /\ (losses' = 0 => sync' = new)
      BY <2>2, <2>3
    <3> HIDE DEF new
    <3>3. QED
      BY <1>2, <3>1, <3>2
  <2>5. losses' = 0 => now' <= t1' + 3 * Timeout
    BY <1>1, <1>2, <1>6, <2>1 DEF Sent, Spent
  <2>6. Sent({"start"}) /\ Spent' \in {3, 4}
    BY <2>1 DEF Sent, Spent
  <2>7. losses' = 0 => now' <= t1' + Spent' * Timeout
    BY <1>1, <1>2, <2>1, <2>5, <2>6
  <2>8. QED
    BY <1>1, <1>2, <1>5, <1>6, <2>1, <2>4, <2>6, <2>7 DEF Sent
<1>12. CASE WriteCycle1
  <2>1. at = "cycle1" /\ at' = "act" /\ t1' = t1
    BY <1>12 DEF WriteCycle1
  <2>2. sync' \in {sync, [sync EXCEPT !.cycle1 = call.CyclTime1]}
    BY <1>12 DEF WriteCycle1
  <2>3. /\ sync' \in Registers /\ sync'.start = sync.start /\ sync'.cycle0 = sync.cycle0
    <3> DEFINE new == [sync EXCEPT !.cycle1 = call.CyclTime1]
    <3>1. new \in Registers /\ new.start = sync.start /\ new.cycle0 = sync.cycle0
      BY <1>2, <1>3, CycleWritten, Zenon
    <3>2. sync' \in {sync, new}
      BY <2>2
    <3> HIDE DEF new
    <3>3. QED
      BY <1>2, <3>1, <3>2
  <2>4. losses' = 0 => now' <= t1' + 4 * Timeout
    BY <1>1, <1>2, <1>6, <2>1 DEF Sent, Spent
  <2>5. QED
    BY <1>1, <1>2, <1>5, <1>6, <2>1, <2>3, <2>4 DEF Sent, Spent
<1>13. CASE Activate
  <2> DEFINE fires == call.act /\ sync.start > now
             both == call.act /\ call.sync1
             new == [sync EXCEPT !.on = call.act, !.both = both, !.fires = fires]
  <2>1. at = "act" /\ at' = "set" /\ t1' = t1
    BY <1>13 DEF Activate
  <2>2. sync' \in {sync, new}
    BY <1>13 DEF Activate
  <2>3. losses' = 0 => sync' = new
    BY <1>2, <1>13 DEF Activate
  <2>4. fires \in BOOLEAN /\ both \in BOOLEAN
    OBVIOUS
  <2>5. losses = 0 => sync.start = FirstTrigger(call) /\ sync.cycle0 = call.CyclTime0
                      /\ now <= t1 + 4 * Timeout
    BY <1>6, <2>1 DEF Sent, Spent
  <2>6. call.act => SyncDelay + call.CyclShift > 4 * Timeout
    BY <1>2 DEF PulseIsAhead
  <2>7. losses = 0 => fires = call.act
    <3>1. ASSUME losses = 0, call.act PROVE sync.start > now
      BY <1>2, <1>3, <1>4, <2>5, <2>6, <3>1
    <3>2. QED
      BY <1>3, <3>1
  <2> HIDE DEF fires, both
  <2>8. /\ sync' \in Registers
        /\ losses' = 0 => /\ sync'.start = sync.start /\ sync'.cycle0 = sync.cycle0
                          /\ sync'.on = call.act /\ sync'.fires = fires
    <3>1. /\ new \in Registers
          /\ new.start = sync.start /\ new.cycle0 = sync.cycle0 /\ new.on = call.act /\ new.fires = fires
      BY <1>2, <1>3, <2>4 DEF Registers
    <3> HIDE DEF new
    <3>2. QED
      BY <1>2, <2>2, <2>3, <3>1
  <2>9. QED
    BY <1>1, <1>2, <1>5, <2>1, <2>5, <2>7, <2>8 DEF Sent
<1>14. QED
  BY <1>7, <1>8, <1>9, <1>10, <1>11, <1>12, <1>13 DEF CallSteps

LEMMA StartInvHolds == ASSUME PulseIsAhead PROVE SyncSpec => []StartInv
<1>1. ASSUME StartInv, [SyncNext]_<<vars, syncVars, loopVars>> PROVE StartInv'
  <2>1. CASE UNCHANGED <<vars, syncVars, loopVars>>
    BY <1>1, <2>1 DEF StartInv, vars, syncVars, Sent, Spent, FirstTrigger, TrueCyclTime
  <2>2. QED
    BY <1>1, <2>1, WiringKeeps, CallKeeps, StepsKeep, LoopKeeps DEF SyncNext
<1>2. QED
  BY <1>1, StartInit, PTL DEF SyncSpec

\* A slave that was told to fire does so, from a whole multiple of its cycle plus the
\* shift on, if no datagram of the call was lost: whatever the cycles and shifts, the
\* clock of the slave and the time each datagram takes, up to the timeout of a frame,
\* as long as the first pulse is further away than the datagrams of a call may take.
THEOREM PulsesStartInTime == ASSUME PulseIsAhead PROVE SyncSpec => []SyncStarts
<1>1. ASSUME StartInv PROVE SyncStarts
  <2>1. call \in Calls /\ t1 \in Nat
    BY <1>1 DEF StartInv
  <2>2. call.CyclTime0 > 0 => (FirstTrigger(call) - call.CyclShift) % TrueCyclTime(call) = 0
    BY <2>1, TriggerIsAhead
  <2>3. QED
    BY <1>1, <2>2 DEF StartInv, Sent, SyncStarts
<1>2. QED
  BY <1>1, StartInvHolds, PTL
================================================================================
