---------------------------- MODULE ConfigTree_proofs ----------------------------
(***************************************************************************)
(* Proofs about ConfigTree, for any names, kinds of components and files.  *)
(***************************************************************************)
EXTENDS ConfigTree, SequenceTheorems, FunctionTheorems, FiniteSetTheorems, TLAPS

-------------------------------------------------------------------------------
(***************************************************************************)
(* Induction over data: a set of numbers has a least one                   *)
(***************************************************************************)
LEMMA LeastNumber ==
  ASSUME NEW T, T \subseteq Nat, T # {}
  PROVE  \E n \in T : \A m \in T : n <= m
<1> DEFINE U == {0..n : n \in T}
<1>1. IsWellFoundedOn(StrictSubsetOrdering(Nat), FiniteSubsetsOf(Nat))
  BY FS_StrictSubsetOrderingWellFounded
<1>2. U # {}
  OBVIOUS
<1>3. U \subseteq FiniteSubsetsOf(Nat)
  <2> SUFFICES ASSUME NEW n \in T PROVE 0..n \in FiniteSubsetsOf(Nat)
    OBVIOUS
  <2>1. IsFiniteSet(0..n) /\ 0..n \subseteq Nat
    BY FS_Interval
  <2> QED BY <2>1 DEF FiniteSubsetsOf
<1>4. PICK x \in U : \A y \in U : <<y, x>> \notin StrictSubsetOrdering(Nat)
  <2> HIDE DEF U
  <2> QED BY <1>1, <1>2, <1>3, WFMin
<1>5. PICK n \in T : x = 0..n
  BY <1>4
<1>6. ASSUME NEW m \in T, m < n PROVE FALSE
  <2>1. 0..m \subseteq 0..n /\ n \in 0..n /\ n \notin 0..m
    BY <1>6
  <2>2. <<0..m, 0..n>> \in (SUBSET Nat) \X (SUBSET Nat)
    OBVIOUS
  <2>3. <<0..m, 0..n>> \in StrictSubsetOrdering(Nat)
    BY <2>1, <2>2 DEF StrictSubsetOrdering
  <2> QED BY <2>3, <1>4, <1>5
<1> QED BY <1>6

-------------------------------------------------------------------------------
(***************************************************************************)
(* Joined sequences                                                        *)
(***************************************************************************)
Joins(g, s) == g = [i \in 1..Len(s) |-> IF i = 1 THEN s[i] ELSE g[i - 1] \o s[i]]

LEMMA JoinsAt ==
  ASSUME NEW s, NEW g, Joins(g, s), NEW i \in 1..Len(s)
  PROVE  g[i] = IF i = 1 THEN s[i] ELSE g[i - 1] \o s[i]
BY DEF Joins

LEMMA JoinsUnique ==
  ASSUME NEW s, Len(s) \in Nat, NEW g, NEW h, NEW n \in 0..Len(s), NEW t, Len(t) \in Nat,
         n <= Len(t), \A i \in 1..n : t[i] = s[i],
         Joins(g, s), Joins(h, t)
  PROVE  \A i \in 1..n : g[i] = h[i]
<1> DEFINE Bad == {i \in 1..n : g[i] # h[i]}
<1> SUFFICES ASSUME Bad # {} PROVE FALSE
  OBVIOUS
<1>1. PICK i \in Bad : \A j \in Bad : i <= j
  <2>1. Bad \subseteq Nat
    OBVIOUS
  <2> HIDE DEF Bad
  <2> QED BY <2>1, LeastNumber
<1>2. /\ i \in 1..n /\ i \in 1..Len(s) /\ i \in 1..Len(t) /\ g[i] # h[i]
      /\ \A j \in 1..n : j < i => g[j] = h[j]
  BY <1>1
<1>3. g[i] = IF i = 1 THEN s[i] ELSE g[i - 1] \o s[i]
  BY <1>2 DEF Joins
<1>4. h[i] = IF i = 1 THEN t[i] ELSE h[i - 1] \o t[i]
  BY <1>2 DEF Joins
<1> QED BY <1>2, <1>3, <1>4

LEMMA JoinsExists ==
  ASSUME NEW T, NEW s \in Seq(Seq(T))
  PROVE  \E g \in [1..Len(s) -> Seq(T)] : Joins(g, s)
<1> DEFINE Start(n) == SubSeq(s, 1, n)
           Good(n) == \E g \in [1..n -> Seq(T)] : Joins(g, Start(n))
           Bad == {n \in 0..Len(s) : ~Good(n)}
<1>0. \A n \in 0..Len(s) : /\ Len(Start(n)) = n /\ Start(n) \in Seq(Seq(T))
                           /\ \A i \in 1..n : Start(n)[i] = s[i] /\ s[i] \in Seq(T)
  OBVIOUS
<1>1. Bad = {}
  <2> SUFFICES ASSUME Bad # {} PROVE FALSE
    OBVIOUS
  <2>1. PICK n \in Bad : \A m \in Bad : n <= m
    <3>1. Bad \subseteq Nat
      OBVIOUS
    <3> HIDE DEF Bad
    <3> QED BY <3>1, LeastNumber
  <2>2. CASE n = 0
    <3> DEFINE e == [i \in 1..0 |-> <<>>]
    <3>1. e \in [1..0 -> Seq(T)]
      OBVIOUS
    <3>2. Joins(e, Start(0))
      <4>1. Len(Start(0)) = 0
        BY <1>0
      <4> QED BY <4>1 DEF Joins
    <3> QED BY <3>1, <3>2, <2>1, <2>2
  <2>3. CASE n # 0
    <3>0. n \in 0..Len(s) /\ n \in Nat
      BY <2>1
    <3>1. n - 1 \in 0..Len(s) /\ Good(n - 1)
      <4> HIDE DEF Good
      <4> QED BY <2>1, <2>3
    <3>2. PICK g \in [1..(n - 1) -> Seq(T)] : Joins(g, Start(n - 1))
      BY <3>1
    <3> DEFINE h == [i \in 1..n |-> IF i < n THEN g[i]
                                    ELSE IF n = 1 THEN s[n] ELSE g[n - 1] \o s[n]]
    <3>3. \A i \in 1..(n - 1) : g[i] = IF i = 1 THEN s[i] ELSE g[i - 1] \o s[i]
      BY <3>1, <3>2, <1>0 DEF Joins
    <3>4. h \in [1..n -> Seq(T)]
      <4>1. s[n] \in Seq(T)
        BY <1>0, <2>1, <2>3
      <4> QED BY <4>1, <2>3, <3>2
    <3>5. \A i \in 1..n : h[i] = IF i = 1 THEN s[i] ELSE h[i - 1] \o s[i]
      <4> SUFFICES ASSUME NEW i \in 1..n
                   PROVE  h[i] = IF i = 1 THEN s[i] ELSE h[i - 1] \o s[i]
        OBVIOUS
      <4>1. CASE i < n
        <5>1. i \in 1..(n - 1) /\ h[i] = g[i]
          BY <3>0, <4>1
        <5>2. i # 1 => i - 1 \in 1..n /\ i - 1 < n /\ h[i - 1] = g[i - 1]
          BY <3>0, <4>1
        <5> HIDE DEF h
        <5> QED BY <3>3, <5>1, <5>2
      <4>2. CASE i = n
        BY <3>0, <4>2
      <4> QED BY <3>0, <4>1, <4>2
    <3>6. Joins(h, Start(n))
      <4>1. h = [i \in 1..n |-> IF i = 1 THEN s[i] ELSE h[i - 1] \o s[i]]
        <5> DEFINE k == [i \in 1..n |-> IF i = 1 THEN s[i] ELSE h[i - 1] \o s[i]]
        <5>1. DOMAIN h = 1..n /\ DOMAIN k = 1..n /\ \A i \in 1..n : h[i] = k[i]
          BY <3>5
        <5>2. h = [i \in 1..n |-> h[i]]
          OBVIOUS
        <5> HIDE DEF h
        <5> QED BY <5>1, <5>2
      <4>2. Len(Start(n)) = n /\ \A i \in 1..n : Start(n)[i] = s[i]
        BY <1>0
      <4> HIDE DEF h, Start
      <4> QED BY <4>1, <4>2 DEF Joins
    <3> HIDE DEF h
    <3> QED BY <3>4, <3>6, <2>1
  <2> QED BY <2>2, <2>3
<1>2. Good(Len(s))
  BY <1>1
<1>3. Start(Len(s)) = s
  BY SubSeqFull
<1> QED BY <1>2, <1>3

\* Sequences joined are joined one by one.
LEMMA FlattenAppend ==
  ASSUME NEW T, NEW s \in Seq(Seq(T)), NEW e \in Seq(T)
  PROVE  /\ FlattenSeq(s) \in Seq(T)
         /\ FlattenSeq(Append(s, e)) = FlattenSeq(s) \o e
<1> DEFINE F(q) == CHOOSE g : Joins(g, q)
<1>1. ASSUME NEW q \in Seq(Seq(T)), q # <<>>
      PROVE  /\ FlattenSeq(q) = F(q)[Len(q)] /\ Joins(F(q), q)
             /\ F(q) \in [1..Len(q) -> Seq(T)]
  <2>1. Len(q) # 0
    BY <1>1
  <2>2. FlattenSeq(q) = F(q)[Len(q)]
    BY <2>1 DEF FlattenSeq, Joins
  <2>3. PICK g \in [1..Len(q) -> Seq(T)] : Joins(g, q)
    BY JoinsExists
  <2>4. Joins(F(q), q)
    BY <2>3
  <2>5. \A i \in 1..Len(q) : F(q)[i] = g[i]
    <3>1. Len(q) \in Nat /\ Len(q) \in 0..Len(q) /\ Len(q) <= Len(q)
      OBVIOUS
    <3> HIDE DEF F
    <3> QED BY <2>3, <2>4, <3>1, JoinsUnique
  <2>6. F(q) = [i \in 1..Len(q) |-> F(q)[i]]
    <3> HIDE DEF F
    <3> QED BY <2>4 DEF Joins
  <2> HIDE DEF F
  <2> QED BY <2>2, <2>3, <2>4, <2>5, <2>6
<1> DEFINE a == Append(s, e)
<1>2. a \in Seq(Seq(T)) /\ Len(a) = Len(s) + 1 /\ a # <<>> /\ a[Len(a)] = e
      /\ \A i \in 1..Len(s) : a[i] = s[i]
  BY AppendProperties
<1>3. F(a)[Len(a)] = IF Len(a) = 1 THEN e ELSE F(a)[Len(s)] \o e
  <2>1. Joins(F(a), a)
    BY <1>1, <1>2
  <2>2. Len(s) \in Nat
    OBVIOUS
  <2> HIDE DEF F, a
  <2>3. F(a)[Len(a)] = IF Len(a) = 1 THEN a[Len(a)] ELSE F(a)[Len(a) - 1] \o a[Len(a)]
    <3>1. Len(a) \in 1..Len(a)
      BY <2>2, <1>2
    <3> HIDE DEF F, a
    <3> QED BY <2>1, <3>1, JoinsAt
  <2> QED BY <2>2, <2>3, <1>2
<1>4. CASE s = <<>>
  <2>1. FlattenSeq(s) = <<>>
    BY <1>4 DEF FlattenSeq
  <2>2. FlattenSeq(a) = e
    <3> HIDE DEF F, a
    <3> QED BY <1>1, <1>2, <1>3, <1>4
  <2> QED BY <2>1, <2>2
<1>5. CASE s # <<>>
  <2>1. Joins(F(a), a) /\ Joins(F(s), s)
    BY <1>1, <1>2, <1>5
  <2>2. F(a)[Len(s)] = F(s)[Len(s)]
    <3>1. /\ Len(s) \in 0..Len(s) /\ Len(s) <= Len(a) /\ Len(s) \in 1..Len(s)
          /\ Len(s) \in Nat /\ Len(a) \in Nat
      BY <1>2, <1>5
    <3> HIDE DEF F, a
    <3>2. \A i \in 1..Len(s) : a[i] = s[i]
      BY <1>2
    <3>3. \A i \in 1..Len(s) : F(s)[i] = F(a)[i]
      BY <2>1, <3>1, <3>2, JoinsUnique
    <3> QED BY <3>1, <3>3
  <2>3. FlattenSeq(s) = F(s)[Len(s)] /\ FlattenSeq(a) = F(a)[Len(a)]
    BY <1>1, <1>2, <1>5
  <2>4. Len(a) # 1 /\ F(s)[Len(s)] \in Seq(T)
    <3>1. F(s) \in [1..Len(s) -> Seq(T)]
      BY <1>1, <1>5
    <3>2. Len(s) \in 1..Len(s) /\ Len(s) # 0
      BY <1>5
    <3> HIDE DEF F, a
    <3>3. Len(a) # 1
      BY <1>2, <3>2
    <3>4. F(s)[Len(s)] \in Seq(T)
      BY <3>1, <3>2
    <3> QED BY <3>3, <3>4
  <2> HIDE DEF F, a
  <2> QED BY <2>2, <2>3, <2>4, <1>3 DEF a
<1> QED BY <1>4, <1>5

-------------------------------------------------------------------------------
(***************************************************************************)
(* Paths                                                                   *)
(***************************************************************************)
Item == [name : Name, type : {"object", "array", "link"}, mask : SUBSET (0..11), parent : Nat]
IsTree(s) == s \in Seq(Item) /\ \A i \in 1..Len(s) : s[i].parent < i

Walks(g, s) ==
  g = [i \in 0..Len(s) |-> IF i = 0 THEN <<>> ELSE Append(g[s[i].parent], s[i].name)]
PathOf(s) == CHOOSE g : Walks(g, s)

LEMMA NodePathIsPathOf == NodePath = PathOf(items)
BY DEF NodePath, PathOf, Walks

LEMMA WalksAt ==
  ASSUME NEW s, NEW g, Walks(g, s), NEW i \in 0..Len(s)
  PROVE  g[i] = IF i = 0 THEN <<>> ELSE Append(g[s[i].parent], s[i].name)
BY DEF Walks

LEMMA TreeAt ==
  ASSUME NEW s, IsTree(s), NEW i \in 1..Len(s)
  PROVE  /\ Len(s) \in Nat /\ s[i] \in Item
         /\ s[i].name \in Name /\ s[i].parent \in 0..Len(s) /\ s[i].parent \in 0..(i - 1)
<1>1. s \in Seq(Item) /\ s[i].parent < i
  BY DEF IsTree
<1>2. s[i] \in Item /\ Len(s) \in Nat
  BY <1>1
<1> QED BY <1>1, <1>2 DEF Item

LEMMA WalksUnique ==
  ASSUME NEW s, NEW t, IsTree(s), Len(t) \in Nat, NEW n \in 0..Len(s), n <= Len(t),
         \A i \in 1..n : t[i] = s[i],
         NEW g, NEW h, Walks(g, s), Walks(h, t)
  PROVE  \A i \in 0..n : g[i] = h[i]
<1> DEFINE Bad == {i \in 0..n : g[i] # h[i]}
<1> SUFFICES ASSUME Bad # {} PROVE FALSE
  OBVIOUS
<1>1. PICK i \in Bad : \A j \in Bad : i <= j
  <2>1. Bad \subseteq Nat
    OBVIOUS
  <2> HIDE DEF Bad
  <2> QED BY <2>1, LeastNumber
<1>2. Len(s) \in Nat
  BY DEF IsTree
<1>3. /\ i \in 0..n /\ i \in 0..Len(s) /\ i \in 0..Len(t) /\ g[i] # h[i]
      /\ \A j \in 0..n : j < i => g[j] = h[j]
  BY <1>1, <1>2
<1>4. g[i] = IF i = 0 THEN <<>> ELSE Append(g[s[i].parent], s[i].name)
  BY <1>3, WalksAt
<1>5. h[i] = IF i = 0 THEN <<>> ELSE Append(h[t[i].parent], t[i].name)
  BY <1>3, WalksAt
<1>6. CASE i = 0
  BY <1>3, <1>4, <1>5, <1>6
<1>7. CASE i # 0
  <2>1. i \in 1..Len(s) /\ i \in 1..n
    BY <1>2, <1>3, <1>7
  <2>2. s[i].parent \in 0..(i - 1)
    BY <2>1, TreeAt
  <2>3. g[s[i].parent] = h[s[i].parent]
    BY <1>2, <1>3, <2>2
  <2>4. t[i] = s[i]
    BY <2>1
  <2> QED BY <1>3, <1>4, <1>5, <1>7, <2>3, <2>4
<1> QED BY <1>6, <1>7

LEMMA WalksExists ==
  ASSUME NEW s, IsTree(s)
  PROVE  \E g \in [0..Len(s) -> Path] : Walks(g, s)
<1> DEFINE Upto(g, n) ==
             /\ g \in [0..n -> Path]
             /\ \A i \in 0..n : g[i] = IF i = 0 THEN <<>> ELSE Append(g[s[i].parent], s[i].name)
           Good(n) == \E g : Upto(g, n)
           Bad == {n \in 0..Len(s) : ~Good(n)}
<1>0. Len(s) \in Nat
  BY DEF IsTree
<1>1. Bad = {}
  <2> SUFFICES ASSUME Bad # {} PROVE FALSE
    OBVIOUS
  <2>1. PICK n \in Bad : \A m \in Bad : n <= m
    <3>1. Bad \subseteq Nat
      OBVIOUS
    <3> HIDE DEF Bad
    <3> QED BY <3>1, LeastNumber
  <2>2. CASE n = 0
    <3> DEFINE e == [i \in 0..0 |-> <<>>]
    <3>1. Upto(e, 0)
      BY DEF Path
    <3> QED BY <3>1, <2>1, <2>2
  <2>3. CASE n # 0
    <3>0. n \in 1..Len(s) /\ n \in Nat
      BY <1>0, <2>1, <2>3
    <3>1. n - 1 \in 0..Len(s) /\ Good(n - 1)
      <4> HIDE DEF Good
      <4> QED BY <1>0, <2>1, <2>3
    <3>2. PICK g : Upto(g, n - 1)
      BY <3>1
    <3> DEFINE h == [i \in 0..n |-> IF i < n THEN g[i]
                                    ELSE Append(g[s[n].parent], s[n].name)]
    <3>3. s[n].name \in Name /\ s[n].parent \in 0..(n - 1)
      BY <3>0, TreeAt
    <3>4. h \in [0..n -> Path]
      <4>1. Append(g[s[n].parent], s[n].name) \in Path
        BY <3>2, <3>3 DEF Path
      <4>2. \A i \in 0..n : i < n => i \in 0..(n - 1) /\ g[i] \in Path
        BY <3>0, <3>2
      <4> QED BY <4>1, <4>2
    <3>5. ASSUME NEW i \in 0..n
          PROVE  h[i] = IF i = 0 THEN <<>> ELSE Append(h[s[i].parent], s[i].name)
      <4>1. CASE i = n
        <5>1. h[i] = Append(g[s[n].parent], s[n].name)
          BY <3>0, <4>1
        <5>2. h[s[n].parent] = g[s[n].parent]
          BY <3>0, <3>3
        <5> HIDE DEF h
        <5> QED BY <2>3, <4>1, <5>1, <5>2
      <4>2. CASE i < n
        <5>1. i \in 0..(n - 1) /\ h[i] = g[i]
          BY <3>0, <4>2
        <5>2. g[i] = IF i = 0 THEN <<>> ELSE Append(g[s[i].parent], s[i].name)
          BY <3>2, <5>1
        <5>3. i # 0 => h[s[i].parent] = g[s[i].parent]
          <6> SUFFICES ASSUME i # 0 PROVE h[s[i].parent] = g[s[i].parent]
            OBVIOUS
          <6>1. i \in 1..Len(s)
            BY <1>0, <3>0, <5>1
          <6>2. s[i].parent \in 0..(i - 1)
            BY <6>1, TreeAt
          <6>3. s[i].parent \in 0..n /\ s[i].parent < n
            BY <3>0, <5>1, <6>2
          <6> QED BY <6>3
        <5> HIDE DEF h
        <5> QED BY <5>1, <5>2, <5>3
      <4> QED BY <3>0, <4>1, <4>2
    <3>6. Upto(h, n)
      <4> HIDE DEF h
      <4> QED BY <3>4, <3>5
    <3> HIDE DEF h, Upto
    <3> QED BY <3>6, <2>1
  <2> QED BY <2>2, <2>3
<1>2. PICK g : Upto(g, Len(s))
  <2> HIDE DEF Upto
  <2> QED BY <1>0, <1>1
<1>3. g = [i \in 0..Len(s) |-> g[i]]
  BY <1>2
<1>4. Walks(g, s)
  <2> DEFINE k == [i \in 0..Len(s) |->
                     IF i = 0 THEN <<>> ELSE Append(g[s[i].parent], s[i].name)]
  <2>1. \A i \in 0..Len(s) : g[i] = k[i]
    BY <1>2
  <2>2. g = k
    BY <1>3, <2>1
  <2> QED BY <2>2 DEF Walks
<1> QED BY <1>2, <1>4

\* The path of an item is its parent's and its name, and a new item changes no other's.
LEMMA PathOfItem ==
  ASSUME NEW s, IsTree(s)
  PROVE  /\ PathOf(s) \in [0..Len(s) -> Path]
         /\ PathOf(s)[0] = <<>>
         /\ \A i \in 1..Len(s) : PathOf(s)[i] = Append(PathOf(s)[s[i].parent], s[i].name)
<1>0. Len(s) \in Nat
  BY DEF IsTree
<1>1. PICK g \in [0..Len(s) -> Path] : Walks(g, s)
  BY WalksExists
<1>2. Walks(PathOf(s), s)
  BY <1>1 DEF PathOf
<1>3. \A i \in 0..Len(s) : PathOf(s)[i] = g[i]
  BY <1>0, <1>1, <1>2, WalksUnique
<1>4. PathOf(s) = [i \in 0..Len(s) |-> PathOf(s)[i]]
  BY <1>2 DEF Walks
<1>5. PathOf(s) \in [0..Len(s) -> Path]
  BY <1>1, <1>3, <1>4
<1>6. \A i \in 0..Len(s) : 
        PathOf(s)[i] = IF i = 0 THEN <<>> ELSE Append(PathOf(s)[s[i].parent], s[i].name)
  BY <1>2, WalksAt
<1> QED BY <1>0, <1>5, <1>6

LEMMA PathOfAppend ==
  ASSUME NEW s, IsTree(s), NEW item \in Item, item.parent \in 0..Len(s)
  PROVE  /\ IsTree(Append(s, item))
         /\ \A i \in 0..Len(s) : PathOf(Append(s, item))[i] = PathOf(s)[i]
         /\ PathOf(Append(s, item))[Len(s) + 1] = Append(PathOf(s)[item.parent], item.name)
<1> DEFINE t == Append(s, item)
<1>1. /\ s \in Seq(Item) /\ t \in Seq(Item) /\ Len(s) \in Nat /\ Len(t) = Len(s) + 1
      /\ \A i \in 1..Len(s) : t[i] = s[i]
      /\ t[Len(t)] = item
  BY AppendProperties DEF IsTree
<1>2. IsTree(t)
  <2>1. ASSUME NEW i \in 1..Len(t) PROVE t[i].parent < i
    <3>1. CASE i \in 1..Len(s)
      BY <1>1, <3>1 DEF IsTree
    <3>2. CASE i = Len(t)
      BY <1>1, <3>2
    <3> QED BY <1>1, <3>1, <3>2
  <2> QED BY <1>1, <2>1 DEF IsTree
<1>3. Walks(PathOf(s), s) /\ Walks(PathOf(t), t)
  BY <1>2, WalksExists DEF PathOf
<1>4. \A i \in 0..Len(s) : PathOf(s)[i] = PathOf(t)[i]
  <2> HIDE DEF t
  <2> QED BY <1>1, <1>3, WalksUnique
<1>5. PathOf(t)[Len(t)] = Append(PathOf(t)[item.parent], item.name)
  <2> HIDE DEF t
  <2> QED BY <1>1, <1>2, PathOfItem
<1> HIDE DEF t
<1>6. PathOf(t)[Len(s) + 1] = Append(PathOf(s)[item.parent], item.name)
  BY <1>1, <1>4, <1>5
<1>7. /\ IsTree(t)
      /\ \A i \in 0..Len(s) : PathOf(t)[i] = PathOf(s)[i]
      /\ PathOf(t)[Len(s) + 1] = Append(PathOf(s)[item.parent], item.name)
  BY <1>2, <1>4, <1>6
<1> QED BY <1>7 DEF t

\* The path asked for grows by the parts of a name.
LEMMA SearchPathAppend ==
  ASSUME NEW path \in Path, NEW n \in Name
  PROVE  /\ SearchPath(path) \in Path
         /\ SearchPath(Append(path, n)) = SearchPath(path) \o Parts[n]
         /\ Parts[n] \in Path
<1> DEFINE q == [k \in DOMAIN path |-> Parts[path[k]]]
           r == [k \in DOMAIN Append(path, n) |-> Parts[Append(path, n)[k]]]
<1>1. Parts \in [Name -> Seq(Name)] /\ path \in Seq(Name)
  BY NameAssumption DEF Path
<1>2. q \in Seq(Seq(Name)) /\ Len(q) = Len(path)
  <2>1. DOMAIN path = 1..Len(path) /\ Len(path) \in Nat
    BY <1>1
  <2>2. \A k \in 1..Len(path) : Parts[path[k]] \in Seq(Name)
    BY <1>1
  <2> QED BY <2>1, <2>2
<1>3. r = Append(q, Parts[n])
  <2>1. /\ DOMAIN Append(path, n) = 1..(Len(path) + 1) /\ Len(path) \in Nat
        /\ \A k \in 1..Len(path) : Append(path, n)[k] = path[k]
        /\ Append(path, n)[Len(path) + 1] = n
        /\ DOMAIN path = 1..Len(path)
    BY <1>1
  <2>2. Append(q, Parts[n]) = [k \in 1..(Len(path) + 1) |->
                                 IF k = Len(path) + 1 THEN Parts[n] ELSE q[k]]
    BY <1>2, <2>1
  <2>3. \A k \in 1..(Len(path) + 1) :
          Parts[Append(path, n)[k]] = IF k = Len(path) + 1 THEN Parts[n] ELSE q[k]
    BY <2>1
  <2> QED BY <2>1, <2>2, <2>3
<1>4. SearchPath(path) = FlattenSeq(q) /\ SearchPath(Append(path, n)) = FlattenSeq(r)
  BY DEF SearchPath
<1> HIDE DEF q, r
<1> QED BY <1>1, <1>2, <1>3, <1>4, FlattenAppend DEF Path

LEMMA SearchPathEmpty == SearchPath(<<>>) = <<>>
<1>1. [k \in DOMAIN <<>> |-> Parts[<<>>[k]]] = <<>>
  OBVIOUS
<1> QED BY <1>1 DEF SearchPath, FlattenSeq

LEMMA AboveAppend ==
  ASSUME NEW path \in Path, NEW n \in Name
  PROVE  Above(Append(path, n)) = Above(path) \cup {path}
<1> DEFINE t == Append(path, n)
<1>1. /\ path \in Seq(Name) /\ t \in Seq(Name) /\ Len(path) \in Nat /\ Len(t) = Len(path) + 1
      /\ \A i \in 1..Len(path) : t[i] = path[i]
  BY AppendProperties DEF Path
<1>2. ASSUME NEW i \in 0..Len(path) PROVE SubSeq(t, 1, i) = SubSeq(path, 1, i)
  BY <1>1
<1>3. SubSeq(path, 1, Len(path)) = path
  BY <1>1
<1>4. 0..(Len(t) - 1) = 0..(Len(path) - 1) \cup {Len(path)}
  BY <1>1
<1> QED BY <1>1, <1>2, <1>3, <1>4 DEF Above

-------------------------------------------------------------------------------
(***************************************************************************)
(* Names, values and the nodes below one                                   *)
(***************************************************************************)
LEMMA OneMore ==
  ASSUME NEW S, NEW c, NEW n \in Nat, IsFiniteSet(S), Cardinality(S) <= n
  PROVE  IsFiniteSet(S \cup {c}) /\ Cardinality(S \cup {c}) <= n + 1
<1>1. Cardinality(S) \in Nat
  BY FS_CardinalityType
<1>2. IsFiniteSet(S \cup {c})
  BY FS_AddElement
<1>3. Cardinality(S \cup {c}) = IF c \in S THEN Cardinality(S) ELSE Cardinality(S) + 1
  BY FS_AddElement
<1> QED BY <1>1, <1>2, <1>3

LEMMA AtMostThree ==
  ASSUME NEW a, NEW b, NEW c
  PROVE  IsFiniteSet({a, b, c}) /\ Cardinality({a, b, c}) <= 3
<1>1. IsFiniteSet({a}) /\ Cardinality({a}) <= 1
  BY FS_Singleton
<1>2. IsFiniteSet({a} \cup {b}) /\ Cardinality({a} \cup {b}) <= 1 + 1
  BY <1>1, OneMore
<1>3. IsFiniteSet(({a} \cup {b}) \cup {c}) /\ Cardinality(({a} \cup {b}) \cup {c}) <= 3
  <2> DEFINE S == {a} \cup {b}
  <2>1. IsFiniteSet(S) /\ Cardinality(S) <= 2
    BY <1>2
  <2> HIDE DEF S
  <2>2. IsFiniteSet(S \cup {c}) /\ Cardinality(S \cup {c}) <= 2 + 1
    BY <2>1, OneMore
  <2> QED BY <2>2 DEF S
<1>4. {a, b, c} = ({a} \cup {b}) \cup {c}
  OBVIOUS
<1> QED BY <1>3, <1>4

LEMMA AtMostFour ==
  ASSUME NEW a, NEW b, NEW c, NEW d
  PROVE  Cardinality({a, b, c, d}) <= 4
<1>1. IsFiniteSet({a, b, c} \cup {d}) /\ Cardinality({a, b, c} \cup {d}) <= 3 + 1
  BY AtMostThree, OneMore
<1>2. {a, b, c, d} = {a, b, c} \cup {d}
  OBVIOUS
<1> QED BY <1>1, <1>2

LEMMA NamesDiffer ==
  /\ Activity # NoName /\ Components # NoName /\ CurrentSet # NoName
  /\ Activity # Components /\ Activity # CurrentSet /\ Components # CurrentSet
  /\ Application \notin ParentName
  /\ {Activity, Components, CurrentSet, Application, NoName} \subseteq Name
<1> DEFINE N == ParentName \cup {Application}
<1>1. Cardinality(N) = 5 /\ N = {NoName, Activity, CurrentSet, Components, Application}
  BY NameAssumption DEF ParentName
<1>2. \A a, b, c, d : N # {a, b, c, d}
  <2> SUFFICES ASSUME NEW a, NEW b, NEW c, NEW d, N = {a, b, c, d} PROVE FALSE
    OBVIOUS
  <2>1. Cardinality({a, b, c, d}) = 5
    BY <1>1
  <2>2. Cardinality({a, b, c, d}) <= 4
    BY AtMostFour
  <2> QED BY <2>1, <2>2
<1>3. ASSUME Activity = NoName PROVE FALSE
  <2>1. N = {NoName, CurrentSet, Components, Application}
    BY <1>1, <1>3
  <2> QED BY <2>1, <1>2
<1>4. ASSUME Components = NoName PROVE FALSE
  <2>1. N = {NoName, Activity, CurrentSet, Application}
    BY <1>1, <1>4
  <2> QED BY <2>1, <1>2
<1>5. ASSUME CurrentSet = NoName PROVE FALSE
  <2>1. N = {NoName, Activity, Components, Application}
    BY <1>1, <1>5
  <2> QED BY <2>1, <1>2
<1>6. ASSUME Activity = Components PROVE FALSE
  <2>1. N = {NoName, CurrentSet, Components, Application}
    BY <1>1, <1>6
  <2> QED BY <2>1, <1>2
<1>7. ASSUME Activity = CurrentSet PROVE FALSE
  <2>1. N = {NoName, CurrentSet, Components, Application}
    BY <1>1, <1>7
  <2> QED BY <2>1, <1>2
<1>8. ASSUME Components = CurrentSet PROVE FALSE
  <2>1. N = {NoName, Activity, CurrentSet, Application}
    BY <1>1, <1>8
  <2> QED BY <2>1, <1>2
<1>9. Application \notin ParentName
  <2> SUFFICES ASSUME Application \in ParentName PROVE FALSE
    OBVIOUS
  <2>1. N = {NoName, Activity, CurrentSet, Components}
    BY DEF ParentName
  <2> QED BY <2>1, <1>2
<1> QED BY <1>3, <1>4, <1>5, <1>6, <1>7, <1>8, <1>9, NameAssumption DEF ParentName

LEMMA ValuesDiffer == Object # Array /\ Object # Null /\ Object \notin Name
<1>2. Cardinality({Text, Null, Object, Array}) = 4 /\ Object \notin Name
  BY FileAssumption
<1>3. ASSUME NEW a, NEW b, NEW c, {Text, Null, Object, Array} = {a, b, c} PROVE FALSE
  <2>1. Cardinality({a, b, c}) = 4
    BY <1>2, <1>3
  <2>2. Cardinality({a, b, c}) <= 3
    BY AtMostThree
  <2> QED BY <2>1, <2>2
<1>4. ASSUME Object = Array PROVE FALSE
  <2>1. {Text, Null, Object, Array} = {Text, Null, Object}
    BY <1>4
  <2> QED BY <2>1, <1>3
<1>5. ASSUME Object = Null PROVE FALSE
  <2>1. {Text, Null, Object, Array} = {Text, Object, Array}
    BY <1>5
  <2> QED BY <2>1, <1>3
<1> QED BY <1>2, <1>4, <1>5

LEMMA KindAt ==
  ASSUME NEW k \in 1..Len(Kind)
  PROVE  /\ Kind[k].component \in Name \ ParentName /\ Kind[k].definitions \in Name \ ParentName
         /\ Kind[k].mask \in SUBSET (0..7)
         /\ Parts[Kind[k].component] = <<Kind[k].component>>
         /\ Parts[Kind[k].definitions] = <<Kind[k].definitions>>
<1> DEFINE R == [component : Name \ ParentName, definitions : Name \ ParentName,
                 mask : SUBSET (0..7)]
<1>1. Kind \in Seq(R)
  BY KindAssumption
<1>2. Kind[k] \in R
  <2> HIDE DEF R
  <2> QED BY <1>1
<1> QED BY <1>2, KindAssumption

LEMMA FileAt ==
  ASSUME file \in File
  PROVE  /\ file.value \in [DOMAIN file.value -> {Text, Null, Object, Array}]
         /\ DOMAIN file.value \subseteq Path /\ IsFiniteSet(DOMAIN file.value)
         /\ MainPath \subseteq DOMAIN file.value
         /\ \A p \in DOMAIN file.value : \A q \in Above(p) :
              q \in DOMAIN file.value /\ file.value[q] = Object
         /\ \A p \in DOMAIN file.value :
              file.value[p] = Array => file.links[p] \in Seq(Name \cup {Object})
BY FileAssumption

LEMMA SetToSeqRange ==
  ASSUME NEW S, IsFiniteSet(S)
  PROVE  SetToSeq(S) \in Seq(S) /\ Range(SetToSeq(S)) = S
<1> DEFINE n == Cardinality(S)
<1>1. n \in Nat /\ ExistsBijection(1..n, S)
  BY FS_CardinalityType
<1>2. PICK g : g \in Bijection(1..n, S)
  BY <1>1 DEF ExistsBijection
<1>3. g \in [1..n -> S] /\ IsInjective(g)
  BY <1>2 DEF Bijection, Injection
<1> DEFINE f == SetToSeq(S)
<1>4. f \in [1..n -> S] /\ IsInjective(f)
  BY <1>3 DEF SetToSeq
<1>5. f \in Injection(1..n, S)
  BY <1>4 DEF Injection
<1>6. Cardinality(1..n) = n
  BY <1>1, FS_Interval
<1>7. f \in Surjection(1..n, S)
  <2> HIDE DEF f, n
  <2> QED BY <1>5, <1>6, FS_Injection DEF n
<1>8. Range(f) = S
  <2> HIDE DEF f, n
  <2> QED BY <1>4, <1>7 DEF Surjection, Range
<1>9. f \in Seq(S)
  <2> HIDE DEF f, n
  <2> QED BY <1>1, <1>4
<1> QED BY <1>8, <1>9

LEMMA MembersFinite ==
  ASSUME file \in File, NEW p \in Path
  PROVE  IsFiniteSet(Members(p)) /\ Members(p) \subseteq Name
<1> DEFINE f == [n \in Members(p) |-> Append(p, n)]
<1>1. f \in [Members(p) -> DOMAIN file.value]
  BY DEF Members
<1>2. ASSUME NEW a \in Members(p), NEW b \in Members(p), f[a] = f[b] PROVE a = b
  <2>1. a \in Name /\ b \in Name /\ p \in Seq(Name) /\ Append(p, a) = Append(p, b)
    BY <1>2 DEF Members, Path
  <2> QED BY <2>1, AppendInjective
<1>3. f \in Injection(Members(p), DOMAIN file.value)
  <2> HIDE DEF f
  <2> QED BY <1>1, <1>2, Fun_IsInj
<1>4. IsFiniteSet(DOMAIN file.value)
  BY FileAt
<1> HIDE DEF f
<1> QED BY <1>3, <1>4, FS_Injection DEF Members

LEMMA NodeIsProperty ==
  ASSUME NEW name \in Name, NEW type \in {"object", "array", "link"}, NEW mask \in SUBSET (0..11)
  PROVE  Node(name, type, mask) \in SNodeProperty
BY DEF Node, SNodeProperty

HighNodes == {Node(Activity, "object", JO_CONST), Node(Components, "object", JO_CONST)}
ActivityNodes == {Node(CurrentSet, "object", JO_CONST \cup JO_CURRENT_SESSION),
                  Node(Application, "object", JO_APPLICATION)}
ComponentNode(k) ==
  Node(Kind[k].component, "object", JO_APPEND \cup Kind[k].mask \cup JO_LINKS)
DefinitionNode(k) == Node(Kind[k].definitions, "array", JO_APPEND \cup Kind[k].mask)

LEMMA HighList ==
  listHighNodes \in Seq(SNodeProperty) /\ listHighNodes # <<>> /\ Range(listHighNodes) = HighNodes
<1>1. JO_CONST \in SUBSET (0..11)
  BY DEF JO_CONST
<1>2. /\ Node(Activity, "object", JO_CONST) \in SNodeProperty
      /\ Node(Components, "object", JO_CONST) \in SNodeProperty
  BY <1>1, NamesDiffer, NodeIsProperty
<1> DEFINE a == Node(Activity, "object", JO_CONST)
           b == Node(Components, "object", JO_CONST)
<1>3. listHighNodes = <<a, b>> /\ HighNodes = {a, b}
  BY DEF listHighNodes, HighNodes
<1> HIDE DEF a, b
<1>4. <<a, b>> # <<>> /\ Range(<<a, b>>) = {a, b}
  BY DEF Range
<1> QED BY <1>2, <1>3, <1>4 DEF a, b

LEMMA ActivityList ==
  /\ listActivityNodes \in Seq(SNodeProperty) /\ listActivityNodes # <<>>
  /\ Range(listActivityNodes) = ActivityNodes
<1>1. JO_CONST \cup JO_CURRENT_SESSION \in SUBSET (0..11) /\ JO_APPLICATION \in SUBSET (0..11)
  BY DEF JO_CONST, JO_CURRENT_SESSION, JO_APPLICATION
<1> DEFINE a == Node(CurrentSet, "object", JO_CONST \cup JO_CURRENT_SESSION)
           b == Node(Application, "object", JO_APPLICATION)
<1>2. a \in SNodeProperty /\ b \in SNodeProperty
  BY <1>1, NamesDiffer, NodeIsProperty
<1>3. listActivityNodes = <<a, b>> /\ ActivityNodes = {a, b}
  BY DEF listActivityNodes, ActivityNodes
<1> HIDE DEF a, b
<1>4. <<a, b>> # <<>> /\ Range(<<a, b>>) = {a, b}
  BY DEF Range
<1> QED BY <1>2, <1>3, <1>4

LEMMA KindMasks ==
  ASSUME NEW k \in 1..Len(Kind)
  PROVE  /\ JO_APPEND \cup Kind[k].mask \cup JO_LINKS \in SUBSET (0..11)
         /\ JO_APPEND \cup Kind[k].mask \in SUBSET (0..11)
<1>1. Kind[k].mask \in SUBSET (0..7)
  BY KindAt
<1> QED BY <1>1 DEF JO_APPEND, JO_LINKS

LEMMA ComponentLists ==
  /\ listComponents \in Seq(SNodeProperty) /\ listComponents # <<>>
  /\ Range(listComponents) = {ComponentNode(k) : k \in 1..Len(Kind)}
  /\ listComponentDefinitions \in Seq(SNodeProperty) /\ listComponentDefinitions # <<>>
  /\ Range(listComponentDefinitions) = {DefinitionNode(k) : k \in 1..Len(Kind)}
<1>1. Len(Kind) \in Nat \ {0}
  BY KindAssumption
<1>2. \A k \in 1..Len(Kind) :
        ComponentNode(k) \in SNodeProperty /\ DefinitionNode(k) \in SNodeProperty
  <2> SUFFICES ASSUME NEW k \in 1..Len(Kind)
               PROVE  ComponentNode(k) \in SNodeProperty /\ DefinitionNode(k) \in SNodeProperty
    OBVIOUS
  <2>1. Kind[k].component \in Name /\ Kind[k].definitions \in Name
    BY KindAt
  <2> QED BY <2>1, KindMasks, NodeIsProperty DEF ComponentNode, DefinitionNode
<1>3. /\ listComponents = [k \in 1..Len(Kind) |-> ComponentNode(k)]
      /\ listComponentDefinitions = [k \in 1..Len(Kind) |-> DefinitionNode(k)]
  <2>1. listComponents = [k \in 1..Len(Kind) |-> ComponentNode(k)]
    BY DEF listComponents, ComponentNode
  <2>2. listComponentDefinitions = [k \in 1..Len(Kind) |-> DefinitionNode(k)]
    BY DEF listComponentDefinitions, DefinitionNode
  <2> QED BY <2>1, <2>2
<1>4. listComponents \in Seq(SNodeProperty) /\ listComponents # <<>>
  BY <1>1, <1>2, <1>3
<1>5. listComponentDefinitions \in Seq(SNodeProperty) /\ listComponentDefinitions # <<>>
  BY <1>1, <1>2, <1>3
<1> QED BY <1>3, <1>4, <1>5 DEF Range

LEMMA MainLists ==
  /\ GetListMainNodes(NoName) = listHighNodes
  /\ GetListMainNodes(Activity) = listActivityNodes
  /\ GetListMainNodes(CurrentSet) = listComponents
  /\ GetListMainNodes(Components) = listComponentDefinitions
  /\ \A name : name \notin ParentName => GetListMainNodes(name) = <<>>
  /\ \A name : GetListMainNodes(name) = <<>> <=> name \notin ParentName
<1>1. GetListMainNodes(NoName) = listHighNodes
  BY NamesDiffer DEF GetListMainNodes
<1>2. GetListMainNodes(Activity) = listActivityNodes
  BY NamesDiffer DEF GetListMainNodes
<1>3. GetListMainNodes(CurrentSet) = listComponents
  BY NamesDiffer DEF GetListMainNodes
<1>4. GetListMainNodes(Components) = listComponentDefinitions
  BY NamesDiffer DEF GetListMainNodes
<1>5. \A name : name \notin ParentName => GetListMainNodes(name) = <<>>
  BY DEF GetListMainNodes, ParentName
<1>6. ASSUME NEW name, name \in ParentName PROVE GetListMainNodes(name) # <<>>
  BY <1>1, <1>2, <1>3, <1>4, <1>6, HighList, ActivityList, ComponentLists DEF ParentName
<1> QED BY <1>1, <1>2, <1>3, <1>4, <1>5, <1>6

IsNameAt(n, p, mask) ==
  /\ Found(p)
  /\ \/ file.value[p] = Array /\ IsAny(mask, JO_LINKS) /\ n \in Range(file.links[p])
     \/ file.value[p] = Object /\ n \in Members(p)

LEMMA NamesAtAre ==
  ASSUME file \in File, NEW p \in Path, NEW mask, ~LinksThrow(p, mask)
  PROVE  /\ NamesAt(p, mask) \in Seq(Name)
         /\ \A n : n \in Range(NamesAt(p, mask)) <=> IsNameAt(n, p, mask)
<1>1. CASE ~Found(p)
  BY <1>1 DEF NamesAt, IsNameAt, Range
<1>2. CASE Found(p) /\ file.value[p] = Array /\ IsAny(mask, JO_LINKS)
  <2>1. NamesAt(p, mask) = file.links[p]
    BY <1>2, ValuesDiffer DEF NamesAt
  <2>2. file.links[p] \in Seq(Name \cup {Object})
    BY <1>2, FileAt DEF Found
  <2>3. Object \notin Range(file.links[p])
    BY <1>2 DEF LinksThrow
  <2>4. file.links[p] \in Seq(Name)
    <3> DEFINE s == file.links[p]
    <3>1. s \in [1..Len(s) -> Name \cup {Object}] /\ Len(s) \in Nat /\ DOMAIN s = 1..Len(s)
      BY <2>2
    <3>2. \A i \in 1..Len(s) : s[i] \in Name
      <4> HIDE DEF s
      <4>1. Object \notin Range(s)
        BY <2>3 DEF s
      <4> QED BY <3>1, <4>1 DEF Range
    <3>3. s = [i \in 1..Len(s) |-> s[i]]
      <4> HIDE DEF s
      <4> QED BY <3>1
    <3> HIDE DEF s
    <3>4. s \in Seq(Name)
      BY <3>1, <3>2, <3>3
    <3> QED BY <3>4 DEF s
  <2>5. file.value[p] # Object
    BY <1>2, ValuesDiffer
  <2> QED BY <1>2, <2>1, <2>4, <2>5 DEF IsNameAt
<1>3. CASE Found(p) /\ file.value[p] = Object
  <2>1. NamesAt(p, mask) = SetToSeq(Members(p))
    BY <1>3, ValuesDiffer DEF NamesAt
  <2>2. SetToSeq(Members(p)) \in Seq(Members(p)) /\ Range(SetToSeq(Members(p))) = Members(p)
    BY MembersFinite, SetToSeqRange
  <2>3. SetToSeq(Members(p)) \in Seq(Name)
    BY <2>2, MembersFinite, SeqMonotonic
  <2> QED BY <1>3, <2>1, <2>2, <2>3, ValuesDiffer DEF IsNameAt
<1>4. CASE Found(p) /\ ~(file.value[p] = Array /\ IsAny(mask, JO_LINKS)) /\ file.value[p] # Object
  <2>1. NamesAt(p, mask) = <<>>
    BY <1>4 DEF NamesAt
  <2> QED BY <1>4, <2>1 DEF IsNameAt, Range
<1> QED BY <1>1, <1>2, <1>3, <1>4

LEMMA PropertyNodes ==
  ASSUME file \in File, NEW p \in Path, NEW mask \in SUBSET (0..11), ~LinksThrow(p, mask)
  PROVE  /\ GetListPropertyNodes(p, mask) \in Seq(SNodeProperty)
         /\ \A node : node \in Range(GetListPropertyNodes(p, mask)) <=>
              \E n \in Name : IsNameAt(n, p, mask) /\ node = ChildNode(mask, n)
<1> DEFINE names == NamesAt(p, mask)
<1>1. names \in Seq(Name) /\ \A n : n \in Range(names) <=> IsNameAt(n, p, mask)
  BY NamesAtAre
<1>2. DOMAIN names = 1..Len(names) /\ Len(names) \in Nat /\ \A k \in 1..Len(names) : names[k] \in Name
  BY <1>1
<1>3. \A n \in Name : ChildNode(mask, n) \in SNodeProperty
  BY DEF ChildNode, Node, SNodeProperty, JO_COMPONENT_MASK, JO_LINKS
<1>4. GetListPropertyNodes(p, mask) = [k \in 1..Len(names) |-> ChildNode(mask, names[k])]
  BY <1>2 DEF GetListPropertyNodes
<1> HIDE DEF names
<1>5. GetListPropertyNodes(p, mask) \in Seq(SNodeProperty)
  BY <1>2, <1>3, <1>4
<1>6. ASSUME NEW node
      PROVE  node \in Range(GetListPropertyNodes(p, mask)) <=>
               \E n \in Name : IsNameAt(n, p, mask) /\ node = ChildNode(mask, n)
  <2>1. node \in Range(GetListPropertyNodes(p, mask)) <=>
          \E k \in 1..Len(names) : node = ChildNode(mask, names[k])
    BY <1>4 DEF Range
  <2>2. \A n : IsNameAt(n, p, mask) <=> \E k \in 1..Len(names) : n = names[k]
    BY <1>1, <1>2 DEF Range
  <2> QED BY <1>2, <2>1, <2>2
<1> QED BY <1>5, <1>6

LEMMA SearchPathIsPath == ASSUME NEW path \in Path PROVE SearchPath(path) \in Path
BY NamesDiffer, SearchPathAppend

\* What FillTreeNode finds below a node.
LEMMA NodesOfAre ==
  ASSUME file \in File, NEW name \in Name, NEW path \in Path, NEW mask \in SUBSET (0..11),
         ~CallThrows(name, path, mask)
  PROVE  /\ NodesOf(name, path, mask) \in Seq(SNodeProperty)
         /\ name \in ParentName => NodesOf(name, path, mask) = GetListMainNodes(name)
         /\ name \notin ParentName /\ ~IsAny(mask, JO_APPEND) => NodesOf(name, path, mask) = <<>>
         /\ name \notin ParentName /\ IsAny(mask, JO_APPEND) =>
              \A node : node \in Range(NodesOf(name, path, mask)) <=>
                 \E n \in Name : IsNameAt(n, SearchPath(path), mask) /\ node = ChildNode(mask, n)
<1>1. CASE name \in ParentName
  <2>1. NodesOf(name, path, mask) = GetListMainNodes(name)
    BY <1>1, MainLists DEF NodesOf, Asks
  <2>2. GetListMainNodes(name) \in Seq(SNodeProperty)
    BY <1>1, MainLists, HighList, ActivityList, ComponentLists DEF ParentName
  <2> QED BY <1>1, <2>1, <2>2
<1>2. CASE name \notin ParentName /\ ~IsAny(mask, JO_APPEND)
  <2>1. NodesOf(name, path, mask) = <<>>
    BY <1>2, MainLists DEF NodesOf, Asks
  <2> QED BY <1>2, <2>1
<1>3. CASE name \notin ParentName /\ IsAny(mask, JO_APPEND)
  <2>1. Asks(name, mask)
    BY <1>3, MainLists DEF Asks
  <2>2. NodesOf(name, path, mask) = GetListPropertyNodes(SearchPath(path), mask)
    BY <2>1 DEF NodesOf
  <2>3. SearchPath(path) \in Path /\ ~LinksThrow(SearchPath(path), mask)
    BY <2>1, SearchPathIsPath DEF CallThrows
  <2> QED BY <1>3, <2>2, <2>3, PropertyNodes
<1> QED BY <1>1, <1>2, <1>3

-------------------------------------------------------------------------------
(***************************************************************************)
(* A new item                                                              *)
(***************************************************************************)
LEMMA TypedIsTree ==
  ASSUME TypeOK
  PROVE  IsTree(items) /\ NodePath = PathOf(items) /\ Len(items) \in Nat
<1>1. items \in Seq([name : Name, type : {"object", "array", "link"},
                     mask : SUBSET (0..11), parent : 0..Len(items)])
  BY DEF TypeOK
<1>2. Len(items) \in Nat
  BY <1>1
<1>3. items \in Seq(Item)
  <2>1. [name : Name, type : {"object", "array", "link"},
         mask : SUBSET (0..11), parent : 0..Len(items)] \subseteq Item
    BY <1>2 DEF Item
  <2> QED BY <1>1, <2>1, SeqMonotonic
<1> QED BY <1>2, <1>3, NodePathIsPathOf DEF IsTree, TypeOK

LEMMA TreeIsTyped ==
  ASSUME NEW s, IsTree(s)
  PROVE  /\ s \in Seq([name : Name, type : {"object", "array", "link"},
                       mask : SUBSET (0..11), parent : 0..Len(s)])
         /\ \A i \in 1..Len(s) : s[i].parent < i
<1> DEFINE R == [name : Name, type : {"object", "array", "link"},
                 mask : SUBSET (0..11), parent : 0..Len(s)]
<1>1. s \in Seq(Item) /\ Len(s) \in Nat /\ s = [i \in 1..Len(s) |-> s[i]]
  BY DEF IsTree
<1>2. ASSUME NEW i \in 1..Len(s) PROVE s[i] \in R
  BY <1>2, TreeAt DEF Item
<1>3. s \in Seq(R)
  <2> HIDE DEF R
  <2> QED BY <1>1, <1>2
<1> QED BY <1>3 DEF IsTree

\* What CAppConfig tells depends on the settings alone.
LEMMA SameFile ==
  ASSUME file' = file
  PROVE  /\ \A name, path, mask : NodesOf(name, path, mask)' = NodesOf(name, path, mask)
         /\ \A name, path, mask : CallThrows(name, path, mask)' <=> CallThrows(name, path, mask)
         /\ UserPath' = UserPath
<1>1. \A p : Members(p)' = Members(p) /\ (Found(p)' <=> Found(p))
  BY DEF Members, Found
<1>2. \A p, mask : NamesAt(p, mask)' = NamesAt(p, mask)
  BY <1>1 DEF NamesAt
<1>3. \A p, mask : GetListPropertyNodes(p, mask)' = GetListPropertyNodes(p, mask)
  BY <1>2 DEF GetListPropertyNodes
<1>4. \A p : SearchThrows(p)' <=> SearchThrows(p)
  BY <1>1 DEF SearchThrows
<1>5. \A p, mask : LinksThrow(p, mask)' <=> LinksThrow(p, mask)
  BY <1>1 DEF LinksThrow
<1>6. \A p : MeantLinks(p)' = MeantLinks(p) /\ MeantSets(p)' = MeantSets(p)
  BY <1>1 DEF MeantLinks, MeantSets
<1> QED BY <1>3, <1>4, <1>5, <1>6 DEF NodesOf, CallThrows, UserPath

\* What AddItem does, in the words of the invariant: item is made below item i.
Newest == Len(items) + 1
Adds(i, item) ==
  /\ stage = "filling" /\ file' = file /\ items' = Append(items, item)
  /\ i \in 0..Len(items) /\ item \in Item /\ item.parent = i
  /\ Len(calls) > 0 /\ calls[Len(calls)].item = i /\ Len(NodePath[i]) = Len(calls) - 1
  /\ NodeOf(item) \in Range(NodesBelow(i))
  /\ calls[Len(calls)].todo # <<>> /\ NodeOf(item) = Head(calls[Len(calls)].todo)
PathOfNew(i, item) == Append(NodePath[i], item.name)
NewThrows(i, item) == CallThrows(item.name, PathOfNew(i, item), item.mask)
Turned ==
  [calls EXCEPT ![Len(calls)] = [item |-> calls[Len(calls)].item,
                                 todo |-> Tail(calls[Len(calls)].todo)]]
NewCall(i, item) ==
  [item |-> Newest, todo |-> NodesOf(item.name, PathOfNew(i, item), item.mask)]

LEMMA CallAt ==
  ASSUME TypeOK, NEW k \in 1..Len(calls)
  PROVE  /\ Len(calls) \in Nat /\ calls[k] \in [item : 0..Len(items), todo : Seq(SNodeProperty)]
         /\ calls[k].item \in 0..Len(items) /\ calls[k].todo \in Seq(SNodeProperty)
<1> DEFINE C == [item : 0..Len(items), todo : Seq(SNodeProperty)]
<1>1. calls \in Seq(C)
  BY DEF TypeOK
<1>2. Len(calls) \in Nat /\ calls[k] \in C
  <2> HIDE DEF C
  <2> QED BY <1>1
<1> QED BY <1>2

\* The turn of the loop as AddItem writes it, and as a change of a whole call.
TodoTurned == [calls EXCEPT ![Len(calls)].todo = Tail(calls[Len(calls)].todo)]
LEMMA TurnedSame ==
  ASSUME TypeOK, Len(calls) \in 1..Len(calls)
  PROVE  TodoTurned = Turned
<1> DEFINE C == [item : 0..Len(items), todo : Seq(SNodeProperty)]
           m == Len(calls)
           t == Tail(calls[m].todo)
           c == [calls[m] EXCEPT !.todo = t]
           d == [item |-> calls[m].item, todo |-> t]
<1>1. calls \in Seq(C)
  BY DEF TypeOK
<1>2. DOMAIN calls = 1..Len(calls) /\ calls[m] \in C
  <2> HIDE DEF C
  <2> QED BY <1>1
<1> HIDE DEF t
<1>3. c = d
  BY SMT, <1>2
<1>4. [calls EXCEPT ![m].todo = t] = [calls EXCEPT ![m] = c]
  BY SMT
<1> HIDE DEF c, d
<1>5. [calls EXCEPT ![m] = c] = [calls EXCEPT ![m] = d]
  BY <1>3
<1>6. [calls EXCEPT ![m].todo = t] = [calls EXCEPT ![m] = d]
  BY SMT, <1>4, <1>5
<1>7. TodoTurned = [calls EXCEPT ![m] = d]
  BY SMT, <1>6 DEF TodoTurned, t
<1>8. Turned = [calls EXCEPT ![m] = d]
  BY DEF Turned, d, t
<1> QED BY <1>7, <1>8

LEMMA HeadInRange ==
  ASSUME NEW S, NEW s \in Seq(S), s # <<>>
  PROVE  /\ Head(s) \in S /\ Head(s) \in Range(s) /\ Tail(s) \in Seq(S)
         /\ Range(Tail(s)) \subseteq Range(s)
         /\ \A x \in Range(s) : x = Head(s) \/ x \in Range(Tail(s))
<1>1. /\ Len(s) \in Nat \ {0} /\ DOMAIN s = 1..Len(s) /\ Head(s) = s[1] /\ s[1] \in S
      /\ Tail(s) \in Seq(S) /\ Len(Tail(s)) = Len(s) - 1 /\ DOMAIN Tail(s) = 1..(Len(s) - 1)
      /\ \A i \in 1..(Len(s) - 1) : Tail(s)[i] = s[i + 1]
  BY HeadTailProperties
<1>2. ASSUME NEW x \in Range(Tail(s)) PROVE x \in Range(s)
  <2>1. PICK i \in 1..(Len(s) - 1) : x = s[i + 1]
    BY <1>1 DEF Range
  <2> QED BY <1>1, <2>1 DEF Range
<1>3. ASSUME NEW x \in Range(s), x # Head(s) PROVE x \in Range(Tail(s))
  <2>1. PICK i \in 1..Len(s) : x = s[i] /\ i # 1
    BY <1>1, <1>3 DEF Range
  <2>2. i - 1 \in 1..(Len(s) - 1) /\ x = Tail(s)[i - 1]
    BY <1>1, <2>1
  <2> QED BY <1>1, <2>2 DEF Range
<1>4. Head(s) \in Range(s)
  BY <1>1 DEF Range
<1> QED BY <1>1, <1>2, <1>3, <1>4

LEMMA AddItemAdds ==
  ASSUME TypeOK, CallInv, LoopInv, AddItem
  PROVE  \E i, item :
           /\ Adds(i, item)
           /\ IF NewThrows(i, item) THEN stage' = "thrown" /\ calls' = <<>>
              ELSE stage' = stage /\ calls' = Append(Turned, NewCall(i, item))
<1> DEFINE i == Innermost.item
           node == Head(Innermost.todo)
           item == [name |-> node.name, type |-> node.type, mask |-> node.mask, parent |-> i]
<1>1. Len(calls) \in Nat /\ Len(calls) > 0 /\ Len(calls) \in 1..Len(calls)
  <2>1. calls # <<>> /\ calls \in Seq([item : 0..Len(items), todo : Seq(SNodeProperty)])
    BY DEF AddItem, CallInv, TypeOK
  <2> QED BY <2>1
<1>2. /\ i \in 0..Len(items) /\ Innermost.todo \in Seq(SNodeProperty) /\ Innermost.todo # <<>>
      /\ Len(NodePath[i]) = Len(calls) - 1
      /\ Range(Innermost.todo) \subseteq Range(NodesBelow(i))
  BY <1>1, CallAt DEF Innermost, AddItem, CallInv, LoopInv
<1>3. node \in SNodeProperty /\ node \in Range(NodesBelow(i))
  BY <1>2, HeadInRange
<1>4. item \in Item /\ item.parent = i /\ NodeOf(item) = node
  BY <1>2, <1>3, TypedIsTree DEF Item, SNodeProperty, NodeOf, Node
<1>5. Adds(i, item)
  BY <1>1, <1>2, <1>3, <1>4 DEF Adds, AddItem, Innermost
<1>6. IF NewThrows(i, item) THEN stage' = "thrown" /\ calls' = <<>>
      ELSE stage' = stage /\ calls' = Append(TodoTurned, NewCall(i, item))
  BY DEF AddItem, NewThrows, PathOfNew, NewCall, Newest, GetNodeFlags, Innermost, TodoTurned
<1>7. IF NewThrows(i, item) THEN stage' = "thrown" /\ calls' = <<>>
      ELSE stage' = stage /\ calls' = Append(Turned, NewCall(i, item))
  BY <1>1, <1>6, TurnedSame
<1> HIDE DEF i, item
<1> QED BY <1>5, <1>7

\* It changes nothing of the other items.
LEMMA AddKeeps ==
  ASSUME TypeOK, NEW i, NEW item, Adds(i, item)
  PROVE  /\ IsTree(items') /\ Len(items') = Newest /\ items'[Newest] = item /\ Len(items) \in Nat
         /\ \A j \in 1..Len(items) : items'[j] = items[j]
         /\ \A j \in 0..Len(items) : NodePath'[j] = NodePath[j]
         /\ NodePath[i] \in Path /\ PathOfNew(i, item) \in Path
         /\ NodePath'[Newest] = PathOfNew(i, item)
         /\ \A j \in 0..Len(items) : NodesBelow(j)' = NodesBelow(j)
         /\ \A j \in 1..Len(items) : Throws(j)' <=> Throws(j)
         /\ \A n : n = Newest =>
              /\ NodesBelow(n)' = NodesOf(item.name, PathOfNew(i, item), item.mask)
              /\ Throws(n)' <=> NewThrows(i, item)
<1>1. /\ IsTree(items) /\ NodePath = PathOf(items) /\ Len(items) \in Nat
      /\ items' = Append(items, item) /\ item \in Item /\ item.parent \in 0..Len(items)
      /\ item.parent = i
  BY TypedIsTree DEF Adds
<1>2. /\ Len(items') = Newest /\ items'[Newest] = item
      /\ \A j \in 1..Len(items) : items'[j] = items[j]
  BY <1>1, AppendProperties DEF Newest, IsTree
<1>3. NodePath' = PathOf(items')
  BY DEF NodePath, PathOf, Walks
<1>4. /\ IsTree(items')
      /\ \A j \in 0..Len(items) : NodePath'[j] = NodePath[j]
      /\ NodePath'[Newest] = PathOfNew(i, item)
  BY <1>1, <1>3, PathOfAppend DEF Newest, PathOfNew
<1>5. NodePath[i] \in Path /\ PathOfNew(i, item) \in Path
  <2>1. NodePath[i] \in Path
    BY <1>1, PathOfItem
  <2> QED BY <1>1, <2>1 DEF PathOfNew, Path, Item
<1>6. file' = file
  BY DEF Adds
<1>7. ASSUME NEW j \in 0..Len(items) PROVE NodesBelow(j)' = NodesBelow(j)
  <2>1. CASE j = 0
    BY <2>1 DEF NodesBelow
  <2>2. CASE j # 0
    <3>1. items'[j] = items[j] /\ NodePath'[j] = NodePath[j]
      BY <1>1, <1>2, <1>4, <2>2
    <3> QED BY <2>2, <3>1, <1>6, SameFile DEF NodesBelow
  <2> QED BY <2>1, <2>2
<1>8. ASSUME NEW n, n = Newest
      PROVE  /\ NodesBelow(n)' = NodesOf(item.name, PathOfNew(i, item), item.mask)
             /\ Throws(n)' <=> NewThrows(i, item)
  <2>1. n # 0 /\ items'[n] = item /\ NodePath'[n] = PathOfNew(i, item)
    BY <1>1, <1>2, <1>4, <1>8 DEF Newest
  <2>2. NodesBelow(n)' = NodesOf(item.name, PathOfNew(i, item), item.mask)
    BY <2>1, <1>6, SameFile DEF NodesBelow
  <2>3. Throws(n)' <=> NewThrows(i, item)
    BY <2>1, <1>6, SameFile DEF Throws, NewThrows
  <2> QED BY <2>2, <2>3
<1>9. ASSUME NEW j \in 1..Len(items) PROVE Throws(j)' <=> Throws(j)
  <2>1. items'[j] = items[j] /\ NodePath'[j] = NodePath[j]
    BY <1>1, <1>2, <1>4
  <2> QED BY <2>1, <1>6, SameFile DEF Throws
<1> QED BY <1>1, <1>2, <1>4, <1>5, <1>7, <1>8, <1>9

\* The turn of the loop leaves the other calls alone, and makes one for the new item.
LEMMA NewCalls ==
  ASSUME TypeOK, NEW i, NEW item, Adds(i, item), ~NewThrows(i, item),
         calls' = Append(Turned, NewCall(i, item))
  PROVE  /\ Len(calls) \in Nat \ {0} /\ Len(calls') = Len(calls) + 1
         /\ \A k \in 1..Len(calls) : calls'[k].item = calls[k].item
         /\ \A k \in 1..(Len(calls) - 1) : calls'[k].todo = calls[k].todo
         /\ calls'[Len(calls)].todo = Tail(calls[Len(calls)].todo)
         /\ calls'[Len(calls')] = NewCall(i, item)
         /\ (calls \in Seq([item : 0..Len(items), todo : Seq(SNodeProperty)]))'
<1> DEFINE C == [item : 0..Newest, todo : Seq(SNodeProperty)]
           m == Len(calls)
<1>1. m \in Nat \ {0} /\ \A k \in 1..m : calls[k] \in C
  <2>1. m \in Nat /\ m > 0 /\ Len(items) \in Nat
    BY AddKeeps DEF TypeOK, Adds
  <2>2. ASSUME NEW k \in 1..m PROVE calls[k] \in C
    <3>1. calls[k] \in [item : 0..Len(items), todo : Seq(SNodeProperty)]
      BY CallAt
    <3>2. [item : 0..Len(items), todo : Seq(SNodeProperty)] \subseteq C
      BY <2>1 DEF Newest
    <3> QED BY <3>1, <3>2
  <2> QED BY <2>1, <2>2
<1>2. /\ calls[m].todo \in Seq(SNodeProperty) /\ Tail(calls[m].todo) \in Seq(SNodeProperty)
      /\ calls \in Seq(C)
  <2>1. calls[m].todo \in Seq(SNodeProperty) /\ calls[m].todo # <<>>
    BY <1>1 DEF Adds
  <2>2. calls \in Seq([item : 0..Len(items), todo : Seq(SNodeProperty)])
    BY DEF TypeOK
  <2>4. calls \in Seq(C)
    <3> HIDE DEF C
    <3> QED BY <1>1, <2>2
  <2> QED BY <2>1, <2>4, HeadInRange
<1>3. NewCall(i, item) \in C
  <2>1. /\ PathOfNew(i, item) \in Path /\ item \in Item /\ Len(items) \in Nat
        /\ ~CallThrows(item.name, PathOfNew(i, item), item.mask) /\ file \in File
    BY AddKeeps DEF Adds, NewThrows, TypeOK
  <2>2. NodesOf(item.name, PathOfNew(i, item), item.mask) \in Seq(SNodeProperty)
    BY <2>1, NodesOfAre DEF Item
  <2> QED BY <2>1, <2>2 DEF NewCall, Newest
<1>4. /\ Turned \in Seq(C) /\ Len(Turned) = m
      /\ \A k \in 1..(m - 1) : Turned[k] = calls[k]
      /\ Turned[m] = [item |-> calls[m].item, todo |-> Tail(calls[m].todo)]
  <2> DEFINE c == [item |-> calls[m].item, todo |-> Tail(calls[m].todo)]
  <2>1. c \in C
    <3>1. calls[m] \in C
      BY <1>1
    <3> QED BY <1>2, <3>1
  <2>2. Turned = [calls EXCEPT ![m] = c]
    BY DEF Turned
  <2> HIDE DEF c, C
  <2>3. /\ Turned \in Seq(C) /\ Len(Turned) = m
        /\ \A k \in 1..m : Turned[k] = IF k = m THEN c ELSE calls[k]
    BY <1>1, <1>2, <2>1, <2>2
  <2>4. Turned[m] = c /\ \A k \in 1..(m - 1) : Turned[k] = calls[k]
    BY <1>1, <2>3
  <2> QED BY <2>3, <2>4 DEF c
<1>5. /\ Append(Turned, NewCall(i, item)) \in Seq(C) /\ Len(calls') = m + 1
      /\ \A k \in 1..m : calls'[k] = Turned[k]
      /\ calls'[m + 1] = NewCall(i, item)
  <2> HIDE DEF C
  <2> QED BY <1>1, <1>3, <1>4, AppendProperties
<1>6. (calls \in Seq([item : 0..Len(items), todo : Seq(SNodeProperty)]))'
  BY <1>5, AddKeeps
<1> HIDE DEF m, C
<1>7. calls'[m].item = calls[m].item /\ calls'[m].todo = Tail(calls[m].todo)
  <2>1. calls'[m] = Turned[m]
    BY <1>1, <1>5
  <2> QED BY <2>1, <1>4
<1>8. \A k \in 1..(m - 1) : calls'[k] = calls[k]
  BY <1>1, <1>4, <1>5
<1>9. ASSUME NEW k \in 1..m PROVE calls'[k].item = calls[k].item
  <2>1. k = m \/ k \in 1..(m - 1)
    BY <1>1
  <2>2. k \in 1..(m - 1) => calls'[k] = calls[k]
    BY <1>8
  <2> QED BY <1>7, <2>1, <2>2
<1>10. /\ m \in Nat \ {0} /\ Len(calls') = m + 1
       /\ \A k \in 1..m : calls'[k].item = calls[k].item
       /\ \A k \in 1..(m - 1) : calls'[k].todo = calls[k].todo
       /\ calls'[m].todo = Tail(calls[m].todo)
       /\ calls'[Len(calls')] = NewCall(i, item)
  BY <1>1, <1>5, <1>7, <1>8, <1>9
<1> QED BY <1>6, <1>10 DEF m

-------------------------------------------------------------------------------
(***************************************************************************)
(* Types, calls and the loop                                               *)
(***************************************************************************)
LEMMA InitInv == Init => IInv
<1> SUFFICES ASSUME Init PROVE IInv
  OBVIOUS
<1>1. file \in File /\ items = <<>> /\ calls = <<>> /\ stage = "closed"
  BY DEF Init
<1>2. Len(items) = 0 /\ Len(calls) = 0 /\ 1..0 = {}
  BY <1>1
<1>3. TypeOK
  <2>1. items \in Seq([name : Name, type : {"object", "array", "link"},
                       mask : SUBSET (0..11), parent : 0..Len(items)])
    BY <1>1, EmptySeq
  <2>2. calls \in Seq([item : 0..Len(items), todo : Seq(SNodeProperty)])
    BY <1>1, EmptySeq
  <2> QED BY <1>1, <1>2, <2>1, <2>2 DEF TypeOK
<1>4. CallInv
  BY <1>1, <1>2 DEF CallInv
<1>5. LoopInv
  BY <1>1, <1>2 DEF LoopInv
<1>6. PlaceInv /\ LeadInv /\ DepthInv
  BY <1>1, <1>2 DEF PlaceInv, LeadInv, DepthInv
<1> QED BY <1>3, <1>4, <1>5, <1>6 DEF IInv

\* Where neither the settings nor the items change, every item stands where it stood.
LEMMA SameTree ==
  ASSUME file' = file, items' = items
  PROVE  /\ NodePath' = NodePath
         /\ \A i : NodesBelow(i)' = NodesBelow(i)
         /\ \A i : Throws(i)' <=> Throws(i)
         /\ PlaceInv => PlaceInv'
         /\ LeadInv => LeadInv'
         /\ (stage # "thrown") /\ DepthInv => DepthInv'
<1>1. NodePath' = NodePath
  BY DEF NodePath
<1>2. \A i : NodesBelow(i)' = NodesBelow(i)
  BY <1>1, SameFile DEF NodesBelow
<1>3. \A i : Throws(i)' <=> Throws(i)
  BY <1>1, SameFile DEF Throws
<1>4. PlaceInv => PlaceInv'
  BY <1>1, SameFile DEF PlaceInv, BelowMainName
<1>5. LeadInv => LeadInv'
  BY <1>1 DEF LeadInv
<1>6. (stage # "thrown") /\ DepthInv => DepthInv'
  BY <1>1, SameFile DEF DepthInv, BelowArray, Found
<1> QED BY <1>1, <1>2, <1>3, <1>4, <1>5, <1>6

LEMMA AddTypeOK == TypeOK /\ CallInv /\ LoopInv /\ AddItem => TypeOK'
<1> SUFFICES ASSUME TypeOK, CallInv, LoopInv, AddItem PROVE TypeOK'
  OBVIOUS
<1>1. PICK i, item :
        /\ Adds(i, item)
        /\ IF NewThrows(i, item) THEN stage' = "thrown" /\ calls' = <<>>
           ELSE stage' = stage /\ calls' = Append(Turned, NewCall(i, item))
  BY AddItemAdds
<1>2. /\ (items \in Seq([name : Name, type : {"object", "array", "link"},
                         mask : SUBSET (0..11), parent : 0..Len(items)]))'
      /\ \A j \in 1..Len(items') : items'[j].parent < j
  BY <1>1, AddKeeps, TreeIsTyped
<1>3. (calls \in Seq([item : 0..Len(items), todo : Seq(SNodeProperty)]))'
  <2>1. CASE NewThrows(i, item)
    BY <1>1, <2>1, EmptySeq
  <2>2. CASE ~NewThrows(i, item)
    BY <1>1, <2>2, NewCalls
  <2> QED BY <2>1, <2>2
<1>4. file' \in File /\ stage' \in {"closed", "filling", "open", "thrown"}
  BY <1>1 DEF Adds, TypeOK
<1> QED BY <1>2, <1>3, <1>4 DEF TypeOK

LEMMA AddCallInv == TypeOK /\ CallInv /\ LoopInv /\ AddItem => CallInv'
<1> SUFFICES ASSUME TypeOK, CallInv, LoopInv, AddItem PROVE CallInv'
  OBVIOUS
<1>1. PICK i, item :
        /\ Adds(i, item)
        /\ IF NewThrows(i, item) THEN stage' = "thrown" /\ calls' = <<>>
           ELSE stage' = stage /\ calls' = Append(Turned, NewCall(i, item))
  BY AddItemAdds
<1>2. CASE NewThrows(i, item)
  <2>1. stage' = "thrown" /\ calls' = <<>> /\ Len(calls') = 0
    BY <1>1, <1>2
  <2> QED BY <2>1 DEF CallInv
<1>3. CASE ~NewThrows(i, item)
  <2>1. /\ Len(calls) \in Nat \ {0} /\ Len(calls') = Len(calls) + 1
        /\ \A k \in 1..Len(calls) : calls'[k].item = calls[k].item
        /\ calls'[Len(calls')] = NewCall(i, item) /\ stage' = "filling"
    BY <1>1, <1>3, NewCalls DEF Adds
  <2>2. calls' # <<>>
    BY <2>1
  <2>3. ASSUME NEW k \in 1..Len(calls) PROVE Len(NodePath'[calls'[k].item]) = k - 1
    <3>1. calls[k].item \in 0..Len(items) /\ calls'[k].item = calls[k].item
      BY <2>1, CallAt
    <3>2. NodePath'[calls[k].item] = NodePath[calls[k].item]
      BY <1>1, <3>1, AddKeeps
    <3> QED BY <3>1, <3>2 DEF CallInv
  <2>4. Len(NodePath'[calls'[Len(calls')].item]) = Len(calls') - 1
    <3>1. NodePath'[Newest] = Append(NodePath[i], item.name) /\ NodePath[i] \in Path
      BY <1>1, AddKeeps DEF PathOfNew
    <3>2. Len(Append(NodePath[i], item.name)) = Len(NodePath[i]) + 1
      BY <3>1 DEF Path
    <3>3. Len(NodePath[i]) = Len(calls) - 1
      BY <1>1 DEF Adds
    <3>4. calls'[Len(calls')].item = Newest
      BY <2>1 DEF NewCall
    <3> QED BY <2>1, <3>1, <3>2, <3>3, <3>4
  <2>5. ASSUME NEW k \in 1..Len(calls') PROVE Len(NodePath'[calls'[k].item]) = k - 1
    <3>1. k \in 1..Len(calls) \/ k = Len(calls')
      BY <2>1
    <3> QED BY <2>3, <2>4, <3>1
  <2> QED BY <2>1, <2>2, <2>5 DEF CallInv
<1> QED BY <1>2, <1>3

LEMMA AddLoopInv == TypeOK /\ CallInv /\ LoopInv /\ AddItem => LoopInv'
<1> SUFFICES ASSUME TypeOK, CallInv, LoopInv, AddItem PROVE LoopInv'
  OBVIOUS
<1>1. PICK i, item :
        /\ Adds(i, item)
        /\ IF NewThrows(i, item) THEN stage' = "thrown" /\ calls' = <<>>
           ELSE stage' = stage /\ calls' = Append(Turned, NewCall(i, item))
  BY AddItemAdds
<1>2. /\ Len(items) \in Nat /\ Len(items') = Len(items) + 1 /\ Newest = Len(items) + 1
      /\ items'[Newest] = item /\ stage = "filling" /\ i \in 0..Len(items) /\ item.parent = i
      /\ \A j \in 1..Len(items) : items'[j] = items[j]
      /\ \A j \in 0..Len(items) : NodesBelow(j)' = NodesBelow(j)
  BY <1>1, AddKeeps DEF Newest, Adds
<1>3. ASSUME NEW j \in 1..Len(items')
      PROVE  (NodeOf(items[j]) \in Range(NodesBelow(items[j].parent)))'
  <2>1. CASE j \in 1..Len(items)
    <3>1. items'[j] = items[j] /\ items[j].parent \in 0..Len(items)
      BY <1>2, <2>1, TypedIsTree, TreeAt
    <3>2. NodesBelow(items[j].parent)' = NodesBelow(items[j].parent)
      BY <1>2, <3>1
    <3> QED BY <2>1, <3>1, <3>2 DEF LoopInv
  <2>2. CASE j = Newest
    <3>1. items'[j] = item /\ NodesBelow(items[j].parent)' = NodesBelow(i)
      BY <1>2, <2>2
    <3> QED BY <1>1, <3>1 DEF Adds
  <2> QED BY <1>2, <2>1, <2>2
<1>4. ASSUME NEW j \in 1..Len(items')
      PROVE  Throws(j)' <=> stage' = "thrown" /\ j = Len(items')
  <2>1. CASE j \in 1..Len(items)
    <3>1. ~Throws(j)
      BY <1>2, <2>1 DEF LoopInv
    <3>2. Throws(j)' <=> Throws(j)
      BY <1>1, <2>1, AddKeeps
    <3> QED BY <1>2, <2>1, <3>1, <3>2
  <2>2. CASE j = Newest
    <3>1. Throws(j)' <=> NewThrows(i, item)
      BY <1>1, <2>2, AddKeeps
    <3> QED BY <1>1, <1>2, <2>2, <3>1
  <2> QED BY <1>2, <2>1, <2>2
<1>5. items' # <<>>
  BY <1>2
<1>6. CASE NewThrows(i, item)
  <2>1. stage' = "thrown" /\ Len(calls') = 0
    BY <1>1, <1>6
  <2> QED BY <1>3, <1>4, <1>5, <2>1 DEF LoopInv
<1>7. CASE ~NewThrows(i, item)
  <2>0. PICK m : m = Len(calls)
    OBVIOUS
  <2>1. /\ m \in Nat \ {0} /\ Len(calls') = m + 1 /\ Len(calls) = m
        /\ \A k \in 1..m : calls'[k].item = calls[k].item
        /\ \A k \in 1..(m - 1) : calls'[k].todo = calls[k].todo
        /\ calls'[m].todo = Tail(calls[m].todo)
        /\ calls'[m + 1] = NewCall(i, item)
    BY <1>1, <1>7, <2>0, NewCalls
  <2>2. /\ Range(Tail(calls[m].todo)) \subseteq Range(calls[m].todo)
        /\ \A node \in Range(calls[m].todo) :
             node = NodeOf(item) \/ node \in Range(Tail(calls[m].todo))
        /\ calls[m].item = i
    <3>1. calls[m].todo \in Seq(SNodeProperty) /\ calls[m].todo # <<>>
      BY <1>1, <2>1, CallAt DEF Adds
    <3>2. NodeOf(item) = Head(calls[m].todo) /\ calls[m].item = i
      BY <1>1, <2>0 DEF Adds
    <3> QED BY <3>1, <3>2, HeadInRange
  <2>3. calls'[m + 1].item = Newest
    BY <2>1 DEF NewCall
  <2>4. calls'[m + 1].todo = NodesBelow(calls[m + 1].item)'
    <3>1. \A n : n = Newest => NodesBelow(n)' = NodesOf(item.name, PathOfNew(i, item), item.mask)
      BY <1>1, AddKeeps
    <3>2. NodesBelow(calls[m + 1].item)' = NodesOf(item.name, PathOfNew(i, item), item.mask)
      BY <2>3, <3>1
    <3>3. calls'[m + 1].todo = NodesOf(item.name, PathOfNew(i, item), item.mask)
      BY <2>1 DEF NewCall
    <3> QED BY <3>2, <3>3
  <2>5. ASSUME NEW k \in 1..Len(calls')
        PROVE  (Range(calls[k].todo) \subseteq Range(NodesBelow(calls[k].item)))'
    <3>1. CASE k \in 1..m
      <4>1. calls'[k].item = calls[k].item /\ calls[k].item \in 0..Len(items)
        BY <2>1, <3>1, CallAt
      <4>2. NodesBelow(calls[k].item)' = NodesBelow(calls[k].item)
        BY <1>2, <4>1
      <4>3. Range(calls[k].todo) \subseteq Range(NodesBelow(calls[k].item))
        BY <2>1, <3>1 DEF LoopInv
      <4>4. Range(calls'[k].todo) \subseteq Range(calls[k].todo)
        <5>1. k \in 1..(m - 1) \/ k = m
          BY <2>1, <3>1
        <5> QED BY <2>1, <2>2, <5>1
      <4> QED BY <4>2, <4>3, <4>4
    <3>2. CASE k = m + 1
      BY <2>4, <3>2
    <3> QED BY <2>1, <3>1, <3>2
  <2>6. ASSUME NEW a \in 0..Len(items'), NEW node \in Range(NodesBelow(a)')
        PROVE  \/ \E k \in 1..Len(calls') : calls'[k].item = a /\ node \in Range(calls'[k].todo)
               \/ \E j \in 1..Len(items') : items'[j].parent = a /\ NodeOf(items'[j]) = node
    <3>1. CASE a = Newest
      <4>1. NodesBelow(calls[m + 1].item)' = NodesBelow(a)'
        BY <2>3, <3>1
      <4>2. calls'[m + 1].item = a /\ node \in Range(calls'[m + 1].todo)
        BY <2>3, <2>4, <3>1, <4>1
      <4> QED BY <2>1, <4>2
    <3>2. CASE a \in 0..Len(items)
      <4>1. node \in Range(NodesBelow(a))
        BY <1>2, <3>2
      <4>2. CASE \E j \in 1..Len(items) : items[j].parent = a /\ NodeOf(items[j]) = node
        BY <1>2, <4>2
      <4>3. CASE \E k \in 1..m : calls[k].item = a /\ node \in Range(calls[k].todo)
        <5>1. PICK k \in 1..m : calls[k].item = a /\ node \in Range(calls[k].todo)
          BY <4>3
        <5>2. CASE k \in 1..(m - 1)
          <6>1. k \in 1..Len(calls') /\ calls'[k].item = a /\ calls'[k].todo = calls[k].todo
            BY <2>1, <5>1, <5>2
          <6> QED BY <5>1, <6>1
        <5>3. CASE k = m /\ node = NodeOf(item)
          <6>1. Newest \in 1..Len(items') /\ items'[Newest].parent = a /\ NodeOf(items'[Newest]) = node
            BY <1>2, <2>1, <2>2, <5>1, <5>3
          <6> QED BY <6>1
        <5>4. CASE k = m /\ node \in Range(Tail(calls[m].todo))
          <6>1. m \in 1..Len(calls') /\ calls'[m].item = a /\ node \in Range(calls'[m].todo)
            BY <2>1, <5>1, <5>4
          <6> QED BY <6>1
        <5> QED BY <2>1, <2>2, <5>1, <5>2, <5>3, <5>4
      <4> QED BY <1>2, <2>1, <3>2, <4>1, <4>2, <4>3 DEF LoopInv
    <3> QED BY <1>2, <3>1, <3>2
  <2> QED BY <1>3, <1>4, <1>5, <2>5, <2>6 DEF LoopInv
<1> QED BY <1>6, <1>7

LEMMA OpenInv == IInv /\ Open => IInv'
<1> SUFFICES ASSUME IInv, Open PROVE IInv'
  OBVIOUS
<1> USE DEF IInv
<1>1. /\ items = <<>> /\ Len(items) = 0 /\ 1..0 = {} /\ 0..0 = {0}
      /\ file' = file /\ items' = items /\ stage' = "filling" /\ stage = "closed"
      /\ file \in File
  BY DEF Open, CallInv, TypeOK
<1> DEFINE c == [item |-> 0, todo |-> listHighNodes]
<1>2. /\ calls' = <<c>> /\ Len(calls') = 1 /\ calls'[1] = c /\ calls' # <<>>
      /\ 1..1 = {1} /\ c.item = 0 /\ c.todo = listHighNodes
  BY DEF Open
<1>3. NodePath'[0] = <<>> /\ NodesBelow(0)' = listHighNodes
  <2>1. NodePath[0] = <<>>
    BY TypedIsTree, PathOfItem
  <2> QED BY <1>1, <2>1, SameTree DEF NodesBelow
<1>4. TypeOK'
  <2>1. (items \in Seq([name : Name, type : {"object", "array", "link"},
                        mask : SUBSET (0..11), parent : 0..Len(items)]))'
    BY <1>1 DEF TypeOK
  <2>2. c \in [item : 0..Len(items'), todo : Seq(SNodeProperty)]
    BY <1>1, HighList
  <2>3. (calls \in Seq([item : 0..Len(items), todo : Seq(SNodeProperty)]))'
    <3> HIDE DEF c
    <3> QED BY <1>2, <2>2
  <2> QED BY <1>1, <2>1, <2>3 DEF TypeOK
<1>5. CallInv'
  <2>1. ASSUME NEW k \in 1..Len(calls') PROVE Len(NodePath'[calls'[k].item]) = k - 1
    <3>1. k = 1 /\ calls'[k].item = 0 /\ Len(<<>>) = 0
      BY <1>2
    <3> QED BY <1>3, <3>1
  <2> QED BY <1>1, <1>2, <2>1 DEF CallInv
<1>6. LoopInv'
  <2>1. ASSUME NEW k \in 1..Len(calls')
        PROVE  (Range(calls[k].todo) \subseteq Range(NodesBelow(calls[k].item)))'
    <3>1. k = 1 /\ calls'[k].item = 0 /\ calls'[k].todo = listHighNodes
      BY <1>2
    <3>2. NodesBelow(calls[k].item)' = NodesBelow(0)'
      BY <3>1
    <3> QED BY <1>3, <3>1, <3>2
  <2>2. ASSUME NEW a \in 0..Len(items'), NEW node \in Range(NodesBelow(a)')
        PROVE  \E k \in 1..Len(calls') : calls'[k].item = a /\ node \in Range(calls'[k].todo)
    <3>1. a = 0 /\ node \in Range(listHighNodes)
      <4>1. a = 0
        BY <1>1
      <4>2. NodesBelow(a)' = NodesBelow(0)'
        BY <4>1
      <4> QED BY <1>3, <4>1, <4>2
    <3> QED BY <1>2, <3>1
  <2> QED BY <1>1, <2>1, <2>2 DEF LoopInv
<1>7. PlaceInv' /\ LeadInv' /\ DepthInv'
  BY <1>1, SameTree
<1> QED BY <1>4, <1>5, <1>6, <1>7

LEMMA ReturnInv == IInv /\ Return => IInv'
<1> SUFFICES ASSUME IInv, Return PROVE IInv'
  OBVIOUS
<1> USE DEF IInv
<1> DEFINE m == Len(calls)
<1>1. /\ file' = file /\ items' = items /\ stage = "filling" /\ calls # <<>>
      /\ calls' = SubSeq(calls, 1, m - 1) /\ calls[m].todo = <<>>
      /\ stage' = IF m = 1 THEN "open" ELSE "filling"
  BY DEF Return, CallInv, Innermost
<1>2. m \in Nat \ {0} /\ calls \in Seq([item : 0..Len(items), todo : Seq(SNodeProperty)])
  BY <1>1 DEF TypeOK
<1>3. /\ (calls \in Seq([item : 0..Len(items), todo : Seq(SNodeProperty)]))'
      /\ Len(calls') = m - 1 /\ \A k \in 1..(m - 1) : calls'[k] = calls[k]
  <2> DEFINE C == [item : 0..Len(items), todo : Seq(SNodeProperty)]
  <2>1. SubSeq(calls, 1, m - 1) \in Seq(C) /\ Len(SubSeq(calls, 1, m - 1)) = m - 1
        /\ \A k \in 1..(m - 1) : SubSeq(calls, 1, m - 1)[k] = calls[k]
    <3>1. m - 1 \in Nat /\ 1 \in Int /\ m - 1 \in Int /\ \A k \in 1..(m - 1) : k \in 1..m /\ 1 + k - 1 = k
      BY <1>2
    <3>0. calls \in Seq(C) /\ Len(calls) = m
      BY <1>2
    <3> HIDE DEF C, m
    <3>2. \A k \in 1..m : calls[k] \in C
      BY <1>2, <3>0
    <3>3. \A k \in 1..(m - 1) : calls[k] \in C
      BY <3>1, <3>2
    <3>4. /\ SubSeq(calls, 1, m - 1) \in Seq(C)
          /\ Len(SubSeq(calls, 1, m - 1)) = IF 1 <= m - 1 THEN m - 1 - 1 + 1 ELSE 0
          /\ \A k \in 1..(m - 1 - 1 + 1) : SubSeq(calls, 1, m - 1)[k] = calls[1 + k - 1]
      BY <3>1, <3>3, SubSeqProperties
    <3> QED BY <3>1, <3>4
  <2> QED BY <1>1, <2>1
<1> HIDE DEF m
<1>4. /\ NodePath' = NodePath
      /\ \A i : NodesBelow(i)' = NodesBelow(i)
      /\ \A i : Throws(i)' <=> Throws(i)
      /\ PlaceInv' /\ LeadInv' /\ DepthInv'
  BY <1>1, SameTree
<1>5. TypeOK'
  BY <1>1, <1>3 DEF TypeOK
<1>6. CallInv'
  <2>1. stage' = "filling" <=> calls' # <<>>
    <3>1. calls' = <<>> <=> Len(calls') = 0
      BY <1>3, EmptySeq
    <3>2. stage' = IF m = 1 THEN "open" ELSE "filling"
      BY <1>1 DEF m
    <3>3. Len(calls') = 0 <=> m = 1
      BY <1>2, <1>3
    <3> QED BY <3>1, <3>2, <3>3
  <2>2. ASSUME NEW k \in 1..Len(calls') PROVE Len(NodePath'[calls'[k].item]) = k - 1
    <3>1. k \in 1..m /\ k \in 1..(m - 1)
      BY <1>2, <1>3
    <3>2. calls'[k] = calls[k] /\ Len(NodePath[calls[k].item]) = k - 1
      BY <1>3, <3>1 DEF CallInv, m
    <3> QED BY <1>4, <3>2
  <2> QED BY <1>1, <2>1, <2>2 DEF CallInv
<1>7. LoopInv'
  <2>1. ASSUME NEW k \in 1..Len(calls')
        PROVE  (Range(calls[k].todo) \subseteq Range(NodesBelow(calls[k].item)))'
    <3>1. k \in 1..m /\ calls'[k] = calls[k]
      BY <1>2, <1>3
    <3>2. NodesBelow(calls[k].item)' = NodesBelow(calls[k].item)
      BY <1>4, <3>1
    <3> QED BY <3>1, <3>2 DEF LoopInv, m
  <2>2. ASSUME NEW j \in 1..Len(items')
        PROVE  (NodeOf(items[j]) \in Range(NodesBelow(items[j].parent)))'
    <3>1. NodesBelow(items[j].parent)' = NodesBelow(items[j].parent)
      BY <1>1, <1>4
    <3> QED BY <1>1, <3>1 DEF LoopInv
  <2>3. ASSUME NEW a \in 0..Len(items'), NEW node \in Range(NodesBelow(a)')
        PROVE  \/ \E k \in 1..Len(calls') : calls'[k].item = a /\ node \in Range(calls'[k].todo)
               \/ \E j \in 1..Len(items') : items'[j].parent = a /\ NodeOf(items'[j]) = node
    <3>1. CASE \E k \in 1..m : calls[k].item = a /\ node \in Range(calls[k].todo)
      <4>1. PICK k \in 1..m : calls[k].item = a /\ node \in Range(calls[k].todo)
        BY <3>1
      <4>2. k # m
        BY <1>1, <4>1 DEF Range
      <4>3. k \in 1..Len(calls') /\ k \in 1..(m - 1)
        BY <1>2, <1>3, <4>2
      <4> QED BY <1>3, <4>1, <4>3
    <3>2. CASE \E j \in 1..Len(items) : items[j].parent = a /\ NodeOf(items[j]) = node
      BY <1>1, <3>2
    <3> QED BY <1>1, <1>4, <3>1, <3>2 DEF LoopInv, m
  <2>4. ASSUME NEW i \in 1..Len(items')
        PROVE  Throws(i)' <=> stage' = "thrown" /\ i = Len(items')
    BY <1>1, <1>4 DEF LoopInv
  <2> QED BY <1>1, <2>1, <2>2, <2>3, <2>4 DEF LoopInv
<1> QED BY <1>4, <1>5, <1>6, <1>7

LEMMA CloseInv == IInv /\ Close => IInv'
<1> SUFFICES ASSUME IInv, Close PROVE IInv'
  OBVIOUS
<1>1. /\ file' = file /\ items' = <<>> /\ Len(items') = 0 /\ stage' = "closed"
      /\ calls' = <<>> /\ Len(calls') = 0 /\ 1..0 = {} /\ file' \in File
  BY DEF IInv, Close, CallInv, TypeOK
<1>2. TypeOK'
  <2>1. (items \in Seq([name : Name, type : {"object", "array", "link"},
                        mask : SUBSET (0..11), parent : 0..Len(items)]))'
    BY <1>1, EmptySeq
  <2>2. (calls \in Seq([item : 0..Len(items), todo : Seq(SNodeProperty)]))'
    BY <1>1, EmptySeq
  <2> QED BY <1>1, <2>1, <2>2 DEF TypeOK
<1>3. CallInv'
  BY <1>1 DEF CallInv
<1>4. LoopInv'
  BY <1>1 DEF LoopInv
<1>5. PlaceInv' /\ LeadInv' /\ DepthInv'
  BY <1>1 DEF PlaceInv, LeadInv, DepthInv
<1> QED BY <1>2, <1>3, <1>4, <1>5 DEF IInv

LEMMA StutterInv == IInv /\ UNCHANGED vars => IInv'
<1> SUFFICES ASSUME IInv, UNCHANGED vars PROVE IInv'
  OBVIOUS
<1>1. file' = file /\ items' = items /\ calls' = calls /\ stage' = stage
  BY DEF vars
<1>2. /\ NodePath' = NodePath
      /\ \A i : NodesBelow(i)' = NodesBelow(i)
      /\ \A i : Throws(i)' <=> Throws(i)
      /\ PlaceInv' /\ LeadInv'
  BY <1>1, SameTree DEF IInv
<1>3. TypeOK'
  BY <1>1 DEF TypeOK, IInv
<1>4. CallInv'
  BY <1>1, <1>2 DEF CallInv, IInv
<1>5. LoopInv'
  <2>1. \A k : NodesBelow(calls[k].item)' = NodesBelow(calls[k].item)
    BY <1>1, <1>2
  <2>2. \A j : NodesBelow(items[j].parent)' = NodesBelow(items[j].parent)
    BY <1>1, <1>2
  <2> QED BY <1>1, <1>2, <2>1, <2>2 DEF LoopInv, IInv
<1>6. DepthInv'
  <2>1. CASE stage = "thrown"
    BY <1>1, <2>1 DEF DepthInv
  <2>2. CASE stage # "thrown"
    BY <1>1, <2>2, SameTree DEF IInv
  <2> QED BY <2>1, <2>2
<1> QED BY <1>2, <1>3, <1>4, <1>5, <1>6 DEF IInv

-------------------------------------------------------------------------------
(***************************************************************************)
(* The nodes that may stand below a node                                   *)
(***************************************************************************)
LEMMA Flags ==
  ASSUME NEW mask
  PROVE  (IsAny(mask, JO_APPEND) <=> 9 \in mask) /\ (IsAny(mask, JO_LINKS) <=> 10 \in mask)
BY DEF IsAny, JO_APPEND, JO_LINKS

\* Only the nodes of the kinds ask the settings, and only by a component's for links.
LEMMA NodeMasks ==
  /\ \A node \in HighNodes : node.name \in {Activity, Components} /\ 9 \notin node.mask
  /\ \A node \in ActivityNodes : node.name \in {CurrentSet, Application} /\ 9 \notin node.mask
  /\ \A k \in 1..Len(Kind) :
       /\ ComponentNode(k).name = Kind[k].component
       /\ 9 \in ComponentNode(k).mask /\ 10 \in ComponentNode(k).mask
       /\ DefinitionNode(k).name = Kind[k].definitions
       /\ 9 \in DefinitionNode(k).mask /\ 10 \notin DefinitionNode(k).mask
  /\ \A mask, n : ChildNode(mask, n).name = n /\ 9 \notin ChildNode(mask, n).mask
<1>1. \A node \in HighNodes : node.name \in {Activity, Components} /\ 9 \notin node.mask
  BY DEF HighNodes, Node, JO_CONST
<1>2. \A node \in ActivityNodes : node.name \in {CurrentSet, Application} /\ 9 \notin node.mask
  BY DEF ActivityNodes, Node, JO_CONST, JO_CURRENT_SESSION, JO_APPLICATION
<1>3. ASSUME NEW k \in 1..Len(Kind)
      PROVE  /\ ComponentNode(k).name = Kind[k].component
             /\ 9 \in ComponentNode(k).mask /\ 10 \in ComponentNode(k).mask
             /\ DefinitionNode(k).name = Kind[k].definitions
             /\ 9 \in DefinitionNode(k).mask /\ 10 \notin DefinitionNode(k).mask
  <2>1. 10 \notin Kind[k].mask
    BY KindAt
  <2> QED BY <2>1 DEF ComponentNode, DefinitionNode, Node, JO_APPEND, JO_LINKS
<1>4. ASSUME NEW mask, NEW n
      PROVE  ChildNode(mask, n).name = n /\ 9 \notin ChildNode(mask, n).mask
  BY DEF ChildNode, Node, JO_COMPONENT_MASK, JO_LINKS
<1> QED BY <1>1, <1>2, <1>3, <1>4

LEMMA MainNode ==
  ASSUME NEW name \in ParentName, NEW node \in Range(GetListMainNodes(name))
  PROVE  \/ name = NoName /\ node \in HighNodes
         \/ name = Activity /\ node \in ActivityNodes
         \/ name = CurrentSet /\ \E k \in 1..Len(Kind) : node = ComponentNode(k)
         \/ name = Components /\ \E k \in 1..Len(Kind) : node = DefinitionNode(k)
<1>1. CASE name = NoName
  BY <1>1, MainLists, HighList
<1>2. CASE name = Activity
  BY <1>2, MainLists, ActivityList
<1>3. CASE name = CurrentSet
  <2>1. Range(GetListMainNodes(name)) = {ComponentNode(k) : k \in 1..Len(Kind)}
    BY <1>3, MainLists, ComponentLists
  <2> QED BY <1>3, <2>1
<1>4. CASE name = Components
  <2>1. Range(GetListMainNodes(name)) = {DefinitionNode(k) : k \in 1..Len(Kind)}
    BY <1>4, MainLists, ComponentLists
  <2> QED BY <1>4, <2>1
<1> QED BY <1>1, <1>2, <1>3, <1>4 DEF ParentName

\* The nodes below an item are those of the program, by its name, or what stands in
\* the settings at the path it asks for.
LEMMA NodesBelowAre ==
  ASSUME TypeOK, NEW i \in 0..Len(items), i # 0 => ~Throws(i), NEW node \in Range(NodesBelow(i))
  PROVE  \/ i = 0 /\ node \in HighNodes
         \/ /\ i \in 1..Len(items) /\ items[i].name \in ParentName
            /\ node \in Range(GetListMainNodes(items[i].name))
         \/ /\ i \in 1..Len(items) /\ items[i].name \notin ParentName
            /\ IsAny(items[i].mask, JO_APPEND)
            /\ IsNameAt(node.name, SearchPath(NodePath[i]), items[i].mask)
            /\ node = ChildNode(items[i].mask, node.name)
<1>1. CASE i = 0
  BY <1>1, HighList DEF NodesBelow
<1>2. CASE i # 0
  <2>1. /\ i \in 1..Len(items) /\ file \in File
        /\ items[i].name \in Name /\ items[i].mask \in SUBSET (0..11) /\ NodePath[i] \in Path
    <3>1. Len(items) \in Nat /\ IsTree(items) /\ NodePath = PathOf(items)
      BY TypedIsTree
    <3>2. i \in 1..Len(items)
      BY <1>2, <3>1
    <3>3. items[i] \in Item
      BY <3>1, <3>2, TreeAt
    <3>4. NodePath[i] \in Path
      BY <3>1, PathOfItem
    <3> QED BY <3>2, <3>3, <3>4 DEF Item, TypeOK
  <2>2. ~CallThrows(items[i].name, NodePath[i], items[i].mask)
    BY <1>2 DEF Throws
  <2>3. NodesBelow(i) = NodesOf(items[i].name, NodePath[i], items[i].mask)
    BY <1>2 DEF NodesBelow
  <2>4. CASE items[i].name \in ParentName
    BY <2>1, <2>2, <2>3, <2>4, NodesOfAre
  <2>5. CASE items[i].name \notin ParentName /\ ~IsAny(items[i].mask, JO_APPEND)
    <3>1. node \in Range(<<>>)
      BY <2>1, <2>2, <2>3, <2>5, NodesOfAre
    <3> QED BY <3>1 DEF Range
  <2>6. CASE items[i].name \notin ParentName /\ IsAny(items[i].mask, JO_APPEND)
    <3>1. PICK n \in Name : /\ IsNameAt(n, SearchPath(NodePath[i]), items[i].mask)
                            /\ node = ChildNode(items[i].mask, n)
      BY <2>1, <2>2, <2>3, <2>6, NodesOfAre
    <3>2. node.name = n
      BY <3>1, NodeMasks
    <3> QED BY <2>1, <2>6, <3>1, <3>2
  <2> QED BY <2>4, <2>5, <2>6
<1> QED BY <1>1, <1>2

\* The new item stands below one that has not thrown.
LEMMA NewItemIs ==
  ASSUME TypeOK, LoopInv, NEW i, NEW item, Adds(i, item)
  PROVE  \/ i = 0 /\ NodeOf(item) \in HighNodes
         \/ /\ i \in 1..Len(items) /\ items[i].name \in ParentName
            /\ NodeOf(item) \in Range(GetListMainNodes(items[i].name))
         \/ /\ i \in 1..Len(items) /\ items[i].name \notin ParentName
            /\ IsAny(items[i].mask, JO_APPEND)
            /\ IsNameAt(item.name, SearchPath(NodePath[i]), items[i].mask)
            /\ NodeOf(item) = ChildNode(items[i].mask, item.name)
<1>1. i \in 0..Len(items) /\ NodeOf(item) \in Range(NodesBelow(i)) /\ stage = "filling"
  BY DEF Adds
<1>2. i # 0 => ~Throws(i)
  <2>1. Len(items) \in Nat
    BY TypedIsTree
  <2> QED BY <1>1, <2>1 DEF LoopInv
<1>3. NodeOf(item).name = item.name
  BY DEF NodeOf, Node
<1> QED BY <1>1, <1>2, <1>3, NodesBelowAre

\* An item that asks the settings is one of a kind, whatever stands above it.
LEMMA AskingItem ==
  ASSUME TypeOK, LoopInv, NEW j \in 1..Len(items), IsAny(items[j].mask, JO_APPEND)
  PROVE  \E k \in 1..Len(Kind) : NodeOf(items[j]) \in {ComponentNode(k), DefinitionNode(k)}
<1>1. /\ items[j].parent \in 0..(j - 1) /\ items[j].parent \in 0..Len(items)
      /\ NodeOf(items[j]) \in Range(NodesBelow(items[j].parent)) /\ Len(items) \in Nat
  BY TypedIsTree, TreeAt DEF LoopInv
<1>2. items[j].parent # 0 => ~Throws(items[j].parent)
  BY <1>1 DEF LoopInv
<1>3. 9 \in NodeOf(items[j]).mask
  BY Flags DEF NodeOf, Node
<1> DEFINE i == items[j].parent
           node == NodeOf(items[j])
<1> HIDE DEF i, node
<1>4. /\ i \in 0..Len(items) /\ node \in Range(NodesBelow(i)) /\ 9 \in node.mask
      /\ i # 0 => ~Throws(i)
  BY <1>1, <1>2, <1>3 DEF i, node
<1>5. node \notin HighNodes /\ node \notin ActivityNodes /\ \A mask, n : node # ChildNode(mask, n)
  BY <1>4, NodeMasks
<1>6. items[i].name \in ParentName /\ node \in Range(GetListMainNodes(items[i].name))
  BY <1>4, <1>5, NodesBelowAre
<1>7. \E k \in 1..Len(Kind) : node \in {ComponentNode(k), DefinitionNode(k)}
  BY <1>5, <1>6, MainNode
<1> QED BY <1>7 DEF node

-------------------------------------------------------------------------------
(***************************************************************************)
(* Where an item stands                                                    *)
(***************************************************************************)
LEMMA AppendIs ==
  ASSUME NEW T, NEW s \in Seq(T), NEW e \in T, NEW t \in Seq(T), Len(t) = Len(s) + 1,
         \A i \in 1..Len(s) : t[i] = s[i], t[Len(s) + 1] = e
  PROVE  Append(s, e) = t
<1>1. /\ Append(s, e) \in Seq(T) /\ Len(Append(s, e)) = Len(s) + 1 /\ Len(s) \in Nat
      /\ \A i \in 1..Len(s) : Append(s, e)[i] = s[i]
      /\ Append(s, e)[Len(s) + 1] = e
  BY AppendProperties
<1>2. ASSUME NEW i \in 1..Len(t) PROVE Append(s, e)[i] = t[i]
  BY <1>1
<1> QED BY <1>1, <1>2, SeqEqual

LEMMA Tuples ==
  ASSUME NEW a, NEW b, NEW c
  PROVE  /\ Append(<<>>, a) = <<a>> /\ Append(<<a>>, b) = <<a, b>>
         /\ Append(<<a, b>>, c) = <<a, b, c>>
<1> DEFINE T == {a, b, c}
<1>1. /\ <<a>> \in Seq(T) /\ <<a, b>> \in Seq(T) /\ <<a, b, c>> \in Seq(T)
      /\ a \in T /\ b \in T /\ c \in T
  OBVIOUS
<1>2. Len(<<a>>) = 1 /\ Len(<<a, b>>) = 2 /\ Len(<<a, b, c>>) = 3
  OBVIOUS
<1>3. 1..1 = {1} /\ 1..2 = {1, 2}
  OBVIOUS
<1> HIDE DEF T
<1>4. Append(<<>>, a) = <<a>>
  OBVIOUS
<1>5. Append(<<a>>, b) = <<a, b>>
  <2>1. \A i \in 1..Len(<<a>>) : <<a, b>>[i] = <<a>>[i]
    BY <1>2, <1>3
  <2>2. Len(<<a, b>>) = Len(<<a>>) + 1 /\ <<a, b>>[Len(<<a>>) + 1] = b
    BY <1>2
  <2> QED BY <1>1, <2>1, <2>2, AppendIs
<1>6. Append(<<a, b>>, c) = <<a, b, c>>
  <2>1. \A i \in 1..Len(<<a, b>>) : <<a, b, c>>[i] = <<a, b>>[i]
    BY <1>2, <1>3
  <2>2. Len(<<a, b, c>>) = Len(<<a, b>>) + 1 /\ <<a, b, c>>[Len(<<a, b>>) + 1] = c
    BY <1>2
  <2> QED BY <1>1, <2>1, <2>2, AppendIs
<1> QED BY <1>4, <1>5, <1>6

LEMMA FourTuple ==
  ASSUME NEW a, NEW b, NEW c, NEW d
  PROVE  Append(<<a, b, c>>, d) = <<a, b, c, d>>
<1> DEFINE T == {a, b, c, d}
<1>1. /\ <<a, b, c>> \in Seq(T) /\ <<a, b, c, d>> \in Seq(T) /\ d \in T
      /\ Len(<<a, b, c>>) = 3 /\ Len(<<a, b, c, d>>) = 4 /\ 1..3 = {1, 2, 3}
  OBVIOUS
<1> HIDE DEF T
<1>2. \A i \in 1..Len(<<a, b, c>>) : <<a, b, c, d>>[i] = <<a, b, c>>[i]
  BY <1>1
<1>3. Len(<<a, b, c, d>>) = Len(<<a, b, c>>) + 1 /\ <<a, b, c, d>>[Len(<<a, b, c>>) + 1] = d
  BY <1>1
<1> QED BY <1>1, <1>2, <1>3, AppendIs

LEMMA OneName ==
  ASSUME NEW path \in Path, SearchPath(path) = path, NEW n \in Name, Parts[n] = <<n>>
  PROVE  Append(path, n) \in Path /\ SearchPath(Append(path, n)) = Append(path, n)
<1>1. SearchPath(Append(path, n)) = path \o <<n>>
  BY SearchPathAppend
<1>2. Append(path, n) \in Path /\ path \o <<n>> = Append(path, n)
  BY DEF Path
<1> QED BY <1>1, <1>2

\* The paths of the nodes of the program are asked for as they are.
LEMMA MainSearchPath ==
  ASSUME NEW k \in 1..Len(Kind)
  PROVE  /\ SearchPath(<<Activity, CurrentSet, Kind[k].component>>)
              = <<Activity, CurrentSet, Kind[k].component>>
         /\ <<Activity, CurrentSet, Kind[k].component>> \in Path
         /\ SearchPath(<<Components, Kind[k].definitions>>) = <<Components, Kind[k].definitions>>
         /\ <<Components, Kind[k].definitions>> \in Path
<1> DEFINE c == Kind[k].component
           d == Kind[k].definitions
<1>1. /\ c \in Name /\ d \in Name /\ Parts[c] = <<c>> /\ Parts[d] = <<d>>
  BY KindAt
<1>2. /\ Activity \in Name /\ CurrentSet \in Name /\ Components \in Name
      /\ Parts[Activity] = <<Activity>> /\ Parts[CurrentSet] = <<CurrentSet>>
      /\ Parts[Components] = <<Components>>
  BY NamesDiffer, NameAssumption DEF ParentName
<1>3. <<>> \in Path /\ SearchPath(<<>>) = <<>>
  BY SearchPathEmpty DEF Path
<1> HIDE DEF c, d
<1> DEFINE a1 == Append(<<>>, Activity)
           a2 == Append(a1, CurrentSet)
           a3 == Append(a2, c)
           b1 == Append(<<>>, Components)
           b2 == Append(b1, d)
<1> HIDE DEF a1, a2, a3, b1, b2
<1>4. a1 \in Path /\ SearchPath(a1) = a1
  BY <1>2, <1>3, OneName DEF a1
<1>5. a2 \in Path /\ SearchPath(a2) = a2
  BY <1>2, <1>4, OneName DEF a2
<1>6. a3 \in Path /\ SearchPath(a3) = a3
  BY <1>1, <1>5, OneName DEF a3
<1>7. b1 \in Path /\ SearchPath(b1) = b1
  BY <1>2, <1>3, OneName DEF b1
<1>8. b2 \in Path /\ SearchPath(b2) = b2
  BY <1>1, <1>7, OneName DEF b2
<1>9. a3 = <<Activity, CurrentSet, c>> /\ b2 = <<Components, d>>
  <2>1. a1 = <<Activity>> /\ b1 = <<Components>>
    BY Tuples DEF a1, b1
  <2>2. a2 = <<Activity, CurrentSet>>
    BY <2>1, Tuples DEF a2
  <2>3. b2 = <<Components, d>>
    BY <2>1, Tuples DEF b2
  <2>4. a3 = <<Activity, CurrentSet, c>>
    BY <2>2, Tuples DEF a3
  <2> QED BY <2>3, <2>4
<1> QED BY <1>6, <1>8, <1>9 DEF c, d

\* What stands below a kind of the set in use, or among the sets of a kind, is the user's.
LEMMA UserPathAt ==
  ASSUME NEW k \in 1..Len(Kind), NEW n
  PROVE  /\ n \in MeantLinks(<<Activity, CurrentSet, Kind[k].component>>) =>
              <<Activity, CurrentSet, Kind[k].component, n>> \in UserPath
         /\ n \in MeantSets(<<Components, Kind[k].definitions>>) =>
              <<Components, Kind[k].definitions, n>> \in UserPath
<1> DEFINE U(kk) == {<<Activity, CurrentSet, Kind[kk].component, nn>> :
                       nn \in MeantLinks(<<Activity, CurrentSet, Kind[kk].component>>)}
                    \cup {<<Components, Kind[kk].definitions, nn>> :
                            nn \in MeantSets(<<Components, Kind[kk].definitions>>)}
<1>1. UserPath = UNION {U(kk) : kk \in 1..Len(Kind)}
  BY DEF UserPath
<1>2. U(k) \subseteq UserPath
  <2> HIDE DEF U
  <2> QED BY <1>1
<1> QED BY <1>2

LEMMA UserPathIs ==
  ASSUME NEW p \in UserPath
  PROVE  \E k \in 1..Len(Kind) : \E n :
           \/ /\ n \in MeantLinks(<<Activity, CurrentSet, Kind[k].component>>)
              /\ p = <<Activity, CurrentSet, Kind[k].component, n>>
           \/ /\ n \in MeantSets(<<Components, Kind[k].definitions>>)
              /\ p = <<Components, Kind[k].definitions, n>>
<1> DEFINE U(kk) == {<<Activity, CurrentSet, Kind[kk].component, nn>> :
                       nn \in MeantLinks(<<Activity, CurrentSet, Kind[kk].component>>)}
                    \cup {<<Components, Kind[kk].definitions, nn>> :
                            nn \in MeantSets(<<Components, Kind[kk].definitions>>)}
<1>1. UserPath = UNION {U(kk) : kk \in 1..Len(Kind)}
  BY DEF UserPath
<1>2. PICK k \in 1..Len(Kind) : p \in U(k)
  <2> HIDE DEF U
  <2> QED BY <1>1
<1> QED BY <1>2

\* The last name of the path of an item is its own.
LEMMA OwnName ==
  ASSUME TypeOK, NEW j \in 1..Len(items)
  PROVE  /\ NodePath[j] \in Path /\ NodePath[j] # <<>> /\ NodePath[j][Len(NodePath[j])] = items[j].name
         /\ items[j] \in Item
<1>1. /\ IsTree(items) /\ NodePath = PathOf(items) /\ Len(items) \in Nat
  BY TypedIsTree
<1>2. items[j].parent \in 0..Len(items) /\ items[j].name \in Name /\ items[j] \in Item
  BY <1>1, TreeAt
<1>3. /\ NodePath[j] = Append(NodePath[items[j].parent], items[j].name)
      /\ NodePath[items[j].parent] \in Path
  BY <1>1, <1>2, PathOfItem
<1> DEFINE p == NodePath[items[j].parent]
<1> HIDE DEF p
<1>4. p \in Seq(Name) /\ NodePath[j] = Append(p, items[j].name)
  BY <1>3 DEF p, Path
<1>5. Len(Append(p, items[j].name)) = Len(p) + 1 /\ Append(p, items[j].name)[Len(p) + 1] = items[j].name
      /\ Append(p, items[j].name) \in Seq(Name)
  BY <1>2, <1>4, AppendProperties
<1>6. Len(NodePath[j]) # 0
  BY <1>4, <1>5
<1> QED BY <1>2, <1>4, <1>5, <1>6 DEF Path

LEMMA AddPlaceInv == IInv /\ AddItem => PlaceInv'
<1> SUFFICES ASSUME IInv, AddItem PROVE PlaceInv'
  OBVIOUS
<1> USE DEF IInv
<1>1. PICK i, item :
        /\ Adds(i, item)
        /\ IF NewThrows(i, item) THEN stage' = "thrown" /\ calls' = <<>>
           ELSE stage' = stage /\ calls' = Append(Turned, NewCall(i, item))
  BY AddItemAdds
<1> DEFINE path == PathOfNew(i, item)
           above == NodePath[i]
           node == NodeOf(item)
<1>2. /\ Len(items) \in Nat /\ Len(items') = Newest /\ items'[Newest] = item
      /\ \A j \in 1..Len(items) : items'[j] = items[j]
      /\ \A j \in 0..Len(items) : NodePath'[j] = NodePath[j]
      /\ above \in Path /\ path \in Path /\ NodePath'[Newest] = path
      /\ item \in Item /\ file \in File /\ UserPath' = UserPath
  BY <1>1, AddKeeps, SameFile DEF Adds, TypeOK
<1>3. Above(path) = Above(above) \cup {above} /\ path = Append(above, item.name)
  BY <1>2, AboveAppend DEF PathOfNew, Item
<1>4. node.name = item.name /\ node.mask = item.mask
  BY DEF NodeOf, Node
<1>5. \/ i = 0 /\ node \in HighNodes
      \/ /\ i \in 1..Len(items) /\ items[i].name \in ParentName
         /\ node \in Range(GetListMainNodes(items[i].name))
      \/ /\ i \in 1..Len(items) /\ items[i].name \notin ParentName
         /\ IsAny(items[i].mask, JO_APPEND)
         /\ IsNameAt(item.name, SearchPath(above), items[i].mask)
         /\ node = ChildNode(items[i].mask, item.name)
  BY <1>1, NewItemIs
<1> HIDE DEF path, above, node
<1>6. \/ IsMain(path, node)
      \/ path \in UserPath /\ ~IsAny(item.mask, JO_APPEND)
      \/ BelowMainName(path)
  <2>1. CASE i = 0
    <3>1. above = <<>>
      BY <2>1, TypedIsTree, PathOfItem DEF above
    <3>2. path = <<node.name>> /\ node \in Range(listHighNodes)
      BY <1>3, <1>4, <1>5, <2>1, <3>1, HighList
    <3> QED BY <3>2 DEF IsMain
  <2>2. CASE i \in 1..Len(items) /\ BelowMainName(above)
    BY <1>3, <2>2 DEF BelowMainName
  <2>3. CASE i \in 1..Len(items) /\ above \in UserPath /\ ~IsAny(items[i].mask, JO_APPEND)
    <3>1. items[i].name \in ParentName /\ above[Len(above)] = items[i].name
      BY <1>5, <2>3, OwnName DEF above
    <3> QED BY <1>3, <2>3, <3>1 DEF BelowMainName
  <2>4. CASE i \in 1..Len(items) /\ IsMain(above, NodeOf(items[i]))
    <3> DEFINE parent == NodeOf(items[i])
    <3>1. parent.name = items[i].name /\ parent.mask = items[i].mask
      BY DEF NodeOf, Node
    <3>2. IsMain(above, parent)
      BY <2>4
    <3> HIDE DEF parent
    <3>3. CASE above = <<parent.name>> /\ parent \in HighNodes
      <4>1. parent.name \in {Activity, Components} /\ parent.name \in ParentName
        BY <3>3, NodeMasks DEF ParentName
      <4>2. node \in Range(GetListMainNodes(parent.name))
        BY <1>5, <2>4, <3>1, <4>1
      <4>3. CASE parent.name = Activity
        <5>1. node \in Range(listActivityNodes)
          BY <4>2, <4>3, MainLists
        <5>2. path = <<Activity, node.name>>
          BY Tuples, <1>3, <1>4, <3>3, <4>3
        <5> QED BY <5>1, <5>2 DEF IsMain
      <4>4. CASE parent.name = Components
        <5>1. node \in Range(listComponentDefinitions)
          BY <4>2, <4>4, MainLists
        <5>2. path = <<Components, node.name>>
          BY Tuples, <1>3, <1>4, <3>3, <4>4
        <5> QED BY <5>1, <5>2 DEF IsMain
      <4> QED BY <4>1, <4>3, <4>4
    <3>4. CASE above = <<Activity, parent.name>> /\ parent \in ActivityNodes
      <4>1. parent.name \in {CurrentSet, Application} /\ 9 \notin parent.mask
        BY <3>4, NodeMasks
      <4>2. parent.name \in ParentName
        BY <1>5, <2>4, <3>1, <4>1, Flags
      <4>3. parent.name = CurrentSet
        BY <4>1, <4>2, NamesDiffer
      <4>4. node \in Range(listComponents)
        BY <1>5, <2>4, <3>1, <4>2, <4>3, MainLists
      <4>5. path = <<Activity, CurrentSet, node.name>>
        BY Tuples, <1>3, <1>4, <3>4, <4>3
      <4> QED BY <4>4, <4>5 DEF IsMain
    <3>5. CASE \E k \in 1..Len(Kind) : /\ above = <<Activity, CurrentSet, parent.name>>
                                       /\ parent = ComponentNode(k)
      <4>1. PICK k \in 1..Len(Kind) : /\ above = <<Activity, CurrentSet, parent.name>>
                                      /\ parent = ComponentNode(k)
        BY <3>5
      <4>2. parent.name = Kind[k].component /\ parent.name \notin ParentName
        BY <4>1, NodeMasks, KindAt
      <4>3. /\ IsNameAt(item.name, SearchPath(above), items[i].mask)
            /\ node = ChildNode(items[i].mask, item.name)
        BY <1>5, <2>4, <3>1, <4>2
      <4>4. SearchPath(above) = above /\ above = <<Activity, CurrentSet, Kind[k].component>>
        BY <4>1, <4>2, MainSearchPath
      <4>5. item.name \in MeantLinks(above)
        BY <4>3, <4>4, ValuesDiffer DEF IsNameAt, MeantLinks
      <4>6. path = <<Activity, CurrentSet, Kind[k].component, item.name>>
        <5>1. path = Append(<<Activity, CurrentSet, Kind[k].component>>, item.name)
          BY <1>3, <4>4
        <5> QED BY <5>1, FourTuple
      <4>7. path \in UserPath
        BY <4>4, <4>5, <4>6, UserPathAt
      <4>8. ~IsAny(item.mask, JO_APPEND)
        BY <1>4, <4>3, NodeMasks, Flags
      <4> QED BY <4>7, <4>8
    <3>6. CASE \E k \in 1..Len(Kind) : above = <<Components, parent.name>> /\ parent = DefinitionNode(k)
      <4>1. PICK k \in 1..Len(Kind) : above = <<Components, parent.name>> /\ parent = DefinitionNode(k)
        BY <3>6
      <4>2. /\ parent.name = Kind[k].definitions /\ parent.name \notin ParentName
            /\ 10 \notin parent.mask
        BY <4>1, NodeMasks, KindAt
      <4>3. /\ IsNameAt(item.name, SearchPath(above), items[i].mask)
            /\ node = ChildNode(items[i].mask, item.name)
        BY <1>5, <2>4, <3>1, <4>2
      <4>4. SearchPath(above) = above /\ above = <<Components, Kind[k].definitions>>
        BY <4>1, <4>2, MainSearchPath
      <4>5. item.name \in MeantSets(above)
        BY <3>1, <4>2, <4>3, <4>4, Flags DEF IsNameAt, MeantSets
      <4>6. path = <<Components, Kind[k].definitions, item.name>>
        BY Tuples, <1>3, <4>4
      <4>7. path \in UserPath
        BY <4>4, <4>5, <4>6, UserPathAt
      <4>8. ~IsAny(item.mask, JO_APPEND)
        BY <1>4, <4>3, NodeMasks, Flags
      <4> QED BY <4>7, <4>8
    <3> QED BY <3>2, <3>3, <3>4, <3>5, <3>6, HighList, ActivityList, ComponentLists DEF IsMain
  <2> QED BY <1>5, <2>1, <2>2, <2>3, <2>4 DEF PlaceInv, above
<1>7. ASSUME NEW j \in 1..Len(items')
      PROVE  (\/ IsMain(NodePath[j], NodeOf(items[j]))
              \/ NodePath[j] \in UserPath /\ ~IsAny(items[j].mask, JO_APPEND)
              \/ BelowMainName(NodePath[j]))'
  <2>1. \A p : BelowMainName(p)' <=> BelowMainName(p)
    BY <1>2 DEF BelowMainName
  <2>2. CASE j \in 1..Len(items)
    <3>1. items'[j] = items[j] /\ NodePath'[j] = NodePath[j]
      BY <1>2, <2>2
    <3>2. \/ IsMain(NodePath[j], NodeOf(items[j]))
          \/ NodePath[j] \in UserPath /\ ~IsAny(items[j].mask, JO_APPEND)
          \/ BelowMainName(NodePath[j])
      BY <2>2 DEF PlaceInv
    <3> QED BY <1>2, <2>1, <3>1, <3>2
  <2>3. CASE j = Newest
    <3>1. items'[j] = item /\ NodePath'[j] = path
      BY <1>2, <2>3
    <3> QED BY <1>2, <1>6, <2>1, <3>1 DEF node
  <2> QED BY <1>2, <2>2, <2>3 DEF Newest
<1> QED BY <1>7 DEF PlaceInv

-------------------------------------------------------------------------------
(***************************************************************************)
(* How deep the calls go                                                   *)
(***************************************************************************)
LEMMA LeadIs ==
  ASSUME NEW item
  PROVE  /\ Lead(item) \in 0..3
         /\ IsAny(item.mask, JO_APPEND) => Lead(item) \in {2, 3}
         /\ IsAny(item.mask, JO_APPEND) /\ IsAny(item.mask, JO_LINKS) => Lead(item) = 3
         /\ IsAny(item.mask, JO_APPEND) /\ ~IsAny(item.mask, JO_LINKS) => Lead(item) = 2
         /\ ~IsAny(item.mask, JO_APPEND) =>
              /\ Lead(item) \in 0..2
              /\ item.name = NoName => Lead(item) = 0
              /\ item.name \in {Activity, Components} => Lead(item) = 1
              /\ item.name \notin {NoName, Activity, Components} => Lead(item) = 2
BY NamesDiffer DEF Lead

\* How long the paths of a new item are.
LEMMA NewLengths ==
  ASSUME TypeOK, NEW i, NEW item, Adds(i, item)
  PROVE  /\ Len(NodePath[i]) \in Nat /\ Len(SearchPath(NodePath[i])) \in Nat
         /\ Len(PathOfNew(i, item)) = Len(NodePath[i]) + 1
         /\ SearchPath(NodePath[i]) \in Path /\ SearchPath(PathOfNew(i, item)) \in Path
         /\ SearchPath(PathOfNew(i, item)) = SearchPath(NodePath[i]) \o Parts[item.name]
         /\ Parts[item.name] \in Path
         /\ Len(SearchPath(PathOfNew(i, item)))
              = Len(SearchPath(NodePath[i])) + Len(Parts[item.name])
         /\ Len(Parts[item.name]) \in Nat
         /\ item.name = NoName => Len(Parts[item.name]) = 0
         /\ item.name \in ParentName \ {NoName} => Len(Parts[item.name]) = 1
         /\ i = 0 => Len(NodePath[i]) = 0 /\ Len(SearchPath(NodePath[i])) = 0
<1> DEFINE p == NodePath[i]
           n == item.name
<1>1. p \in Path /\ n \in Name
  BY AddKeeps DEF Adds, Item
<1>2. PathOfNew(i, item) = Append(p, n)
  BY DEF PathOfNew
<1>3. i = 0 => p = <<>>
  BY TypedIsTree, PathOfItem
<1> HIDE DEF p, n
<1>4. /\ SearchPath(p) \in Path /\ SearchPath(Append(p, n)) = SearchPath(p) \o Parts[n]
      /\ Parts[n] \in Path
  BY <1>1, SearchPathAppend
<1>5. /\ Len(p) \in Nat /\ Len(Append(p, n)) = Len(p) + 1
      /\ Len(SearchPath(p)) \in Nat /\ Len(Parts[n]) \in Nat
  BY <1>1, <1>4 DEF Path
<1>6. /\ SearchPath(p) \o Parts[n] \in Path
      /\ Len(SearchPath(p) \o Parts[n]) = Len(SearchPath(p)) + Len(Parts[n])
  BY <1>4, ConcatProperties DEF Path
<1>7. n = NoName => Len(Parts[n]) = 0
  BY NameAssumption
<1>8. n \in ParentName \ {NoName} => Len(Parts[n]) = 1
  <2>1. n \in ParentName \ {NoName} => Parts[n] = <<n>>
    BY <1>1, NameAssumption
  <2>2. Len(<<n>>) = 1
    OBVIOUS
  <2> QED BY <2>1, <2>2
<1>9. p = <<>> => Len(p) = 0 /\ Len(SearchPath(p)) = 0
  BY SearchPathEmpty
<1> QED BY <1>1, <1>2, <1>3, <1>4, <1>5, <1>6, <1>7, <1>8, <1>9 DEF p, n

LEMMA NewLead ==
  ASSUME IInv, NEW i, NEW item, Adds(i, item),
         IsAny(item.mask, JO_APPEND) \/ item.name \in ParentName
  PROVE  2 * Len(PathOfNew(i, item)) + Lead(item) <= 3 * Len(SearchPath(PathOfNew(i, item)))
<1> USE DEF IInv
<1> DEFINE L == Len(NodePath[i])
           S == Len(SearchPath(NodePath[i]))
           P == Len(Parts[item.name])
           node == NodeOf(item)
           path == PathOfNew(i, item)
<1>1. /\ L \in Nat /\ S \in Nat /\ P \in Nat /\ Len(path) = L + 1 /\ Len(SearchPath(path)) = S + P
      /\ item.name = NoName => P = 0
      /\ item.name \in ParentName \ {NoName} => P = 1
      /\ i = 0 => L = 0 /\ S = 0
  BY NewLengths
<1>2. node.name = item.name /\ node.mask = item.mask
  BY DEF NodeOf, Node
<1>3. \/ i = 0 /\ node \in HighNodes
      \/ /\ i \in 1..Len(items) /\ items[i].name \in ParentName
         /\ node \in Range(GetListMainNodes(items[i].name))
      \/ /\ i \in 1..Len(items) /\ items[i].name \notin ParentName
         /\ IsAny(items[i].mask, JO_APPEND)
         /\ node = ChildNode(items[i].mask, item.name)
  BY NewItemIs
<1>4. i \in 1..Len(items) /\ (IsAny(items[i].mask, JO_APPEND) \/ items[i].name \in ParentName) =>
        2 * L + Lead(items[i]) <= 3 * S
  BY DEF LeadInv
<1> DEFINE Par == Lead(items[i])
           New == Lead(item)
<1>5. /\ Par \in 0..3
      /\ IsAny(items[i].mask, JO_APPEND) => Par \in {2, 3}
      /\ items[i].name \in {Activity, Components} => Par >= 1
      /\ items[i].name = CurrentSet => Par >= 2
  <2>1. CASE IsAny(items[i].mask, JO_APPEND)
    BY <2>1, LeadIs
  <2>2. CASE ~IsAny(items[i].mask, JO_APPEND)
    BY <2>2, LeadIs, NamesDiffer
  <2> QED BY <2>1, <2>2
<1>6. /\ node \in HighNodes => New = 1 /\ P = 1
      /\ node \in ActivityNodes => New = 2 /\ P = 1
      /\ \A k \in 1..Len(Kind) : node = ComponentNode(k) => New = 3 /\ P = 1
      /\ \A k \in 1..Len(Kind) : node = DefinitionNode(k) => New = 2 /\ P = 1
      /\ node = ChildNode(items[i].mask, item.name) => (New = 0 /\ P = 0) \/ (New \in 1..2 /\ P = 1)
  <2>1. node \in HighNodes => New = 1 /\ P = 1
    <3> SUFFICES ASSUME node \in HighNodes PROVE New = 1 /\ P = 1
      OBVIOUS
    <3>1. item.name \in {Activity, Components} /\ ~IsAny(item.mask, JO_APPEND)
      BY <1>2, NodeMasks, Flags
    <3>2. item.name \in ParentName \ {NoName}
      BY <3>1, NamesDiffer DEF ParentName
    <3>3. New = 1
      BY <3>1, LeadIs
    <3> QED BY <1>1, <3>2, <3>3
  <2>2. node \in ActivityNodes => New = 2 /\ P = 1
    <3> SUFFICES ASSUME node \in ActivityNodes PROVE New = 2 /\ P = 1
      OBVIOUS
    <3>1. item.name \in {CurrentSet, Application} /\ ~IsAny(item.mask, JO_APPEND)
      BY <1>2, NodeMasks, Flags
    <3>2. item.name = CurrentSet /\ item.name \in ParentName \ {NoName}
      BY <3>1, NamesDiffer DEF ParentName
    <3>3. item.name \notin {NoName, Activity, Components}
      BY <3>2, NamesDiffer
    <3>4. New = 2
      BY <3>1, <3>3, LeadIs
    <3> QED BY <1>1, <3>2, <3>4
  <2>3. ASSUME NEW k \in 1..Len(Kind), node = ComponentNode(k) PROVE New = 3 /\ P = 1
    <3>1. IsAny(item.mask, JO_APPEND) /\ IsAny(item.mask, JO_LINKS)
      BY <1>2, <2>3, NodeMasks, Flags
    <3>2. item.name = Kind[k].component
      BY <1>2, <2>3, NodeMasks
    <3>3. P = 1
      <4>1. Parts[item.name] = <<item.name>>
        BY <3>2, KindAt
      <4>2. Len(<<item.name>>) = 1
        OBVIOUS
      <4> QED BY <4>1, <4>2
    <3> QED BY <3>1, <3>3, LeadIs
  <2>4. ASSUME NEW k \in 1..Len(Kind), node = DefinitionNode(k) PROVE New = 2 /\ P = 1
    <3>1. IsAny(item.mask, JO_APPEND) /\ ~IsAny(item.mask, JO_LINKS)
      BY <1>2, <2>4, NodeMasks, Flags
    <3>2. item.name = Kind[k].definitions
      BY <1>2, <2>4, NodeMasks
    <3>3. P = 1
      <4>1. Parts[item.name] = <<item.name>>
        BY <3>2, KindAt
      <4>2. Len(<<item.name>>) = 1
        OBVIOUS
      <4> QED BY <4>1, <4>2
    <3> QED BY <3>1, <3>3, LeadIs
  <2>5. ASSUME node = ChildNode(items[i].mask, item.name)
        PROVE  (New = 0 /\ P = 0) \/ (New \in 1..2 /\ P = 1)
    <3>1. ~IsAny(item.mask, JO_APPEND) /\ item.name \in ParentName
      BY <1>2, <2>5, NodeMasks, Flags
    <3>2. CASE item.name = NoName
      <4>1. New = 0
        BY <3>1, <3>2, LeadIs
      <4>2. P = 0
        BY <1>1, <3>2
      <4> HIDE DEF New, P
      <4> QED BY <4>1, <4>2
    <3>3. CASE item.name # NoName
      <4>1. New \in 1..2
        BY <3>1, <3>3, LeadIs
      <4> QED BY <1>1, <3>1, <3>3, <4>1
    <3> QED BY <3>2, <3>3
  <2> QED BY <2>1, <2>2, <2>3, <2>4, <2>5
<1> HIDE DEF L, S, P, node, path, Par, New
<1>7. 2 * (L + 1) + New <= 3 * (S + P)
  <2>1. CASE i = 0
    <3>1. node \in HighNodes
      BY <1>3, <2>1
    <3> QED BY <1>1, <1>6, <2>1, <3>1
  <2>2. CASE /\ i \in 1..Len(items) /\ items[i].name \in ParentName
             /\ node \in Range(GetListMainNodes(items[i].name))
    <3>1. 2 * L + Par <= 3 * S
      BY <1>4, <2>2 DEF Par
    <3>2. \/ items[i].name = NoName /\ node \in HighNodes
          \/ items[i].name = Activity /\ node \in ActivityNodes
          \/ items[i].name = CurrentSet /\ \E k \in 1..Len(Kind) : node = ComponentNode(k)
          \/ items[i].name = Components /\ \E k \in 1..Len(Kind) : node = DefinitionNode(k)
      BY <2>2, MainNode
    <3>3. P = 1 /\ New \in 1..3 /\ New <= Par + 1
      BY <1>5, <1>6, <3>2
    <3> QED BY <1>1, <1>5, <3>1, <3>3
  <2>3. CASE /\ i \in 1..Len(items) /\ IsAny(items[i].mask, JO_APPEND)
             /\ node = ChildNode(items[i].mask, item.name)
    <3>1. 2 * L + Par <= 3 * S /\ Par \in {2, 3}
      BY <1>4, <1>5, <2>3 DEF Par
    <3> QED BY <1>1, <1>6, <2>3, <3>1
  <2> QED BY <1>3, <2>1, <2>2, <2>3
<1> QED BY <1>1, <1>7 DEF New, path

LEMMA AddLeadInv == IInv /\ AddItem => LeadInv'
<1> SUFFICES ASSUME IInv, AddItem PROVE LeadInv'
  OBVIOUS
<1>1. PICK i, item : Adds(i, item)
  BY AddItemAdds DEF IInv
<1>2. /\ Len(items) \in Nat /\ Len(items') = Newest /\ items'[Newest] = item
      /\ \A j \in 1..Len(items) : items'[j] = items[j]
      /\ \A j \in 0..Len(items) : NodePath'[j] = NodePath[j]
      /\ NodePath'[Newest] = PathOfNew(i, item)
  BY <1>1, AddKeeps DEF IInv
<1>3. ASSUME NEW j \in 1..Len(items'),
             IsAny(items'[j].mask, JO_APPEND) \/ items'[j].name \in ParentName
      PROVE  2 * Len(NodePath'[j]) + Lead(items'[j]) <= 3 * Len(SearchPath(NodePath'[j]))
  <2>1. CASE j \in 1..Len(items)
    <3>1. items'[j] = items[j] /\ NodePath'[j] = NodePath[j]
      BY <1>2, <2>1
    <3> QED BY <1>3, <2>1, <3>1 DEF IInv, LeadInv
  <2>2. CASE j = Newest
    <3>1. items'[j] = item /\ NodePath'[j] = PathOfNew(i, item)
      BY <1>2, <2>2
    <3> QED BY <1>1, <1>3, <3>1, NewLead
  <2> QED BY <1>2, <2>1, <2>2 DEF Newest
<1> QED BY <1>3 DEF LeadInv

LEMMA AboveGrows ==
  ASSUME NEW p \in Path, NEW q \in Path, NEW r \in Above(p) \cup {p}
  PROVE  r \in Above(p \o q) \cup {p \o q}
<1> DEFINE t == p \o q
<1>1. /\ p \in Seq(Name) /\ q \in Seq(Name) /\ Len(p) \in Nat /\ Len(q) \in Nat
      /\ t \in Seq(Name) /\ Len(t) = Len(p) + Len(q) /\ \A k \in 1..Len(p) : t[k] = p[k]
  BY ConcatProperties DEF Path
<1> HIDE DEF t
<1>2. PICK i \in 0..Len(p) : r = SubSeq(p, 1, i)
  <2>1. CASE r \in Above(p)
    <3>1. PICK i \in 0..(Len(p) - 1) : r = SubSeq(p, 1, i)
      BY <2>1 DEF Above
    <3>2. i \in 0..Len(p)
      BY <1>1, <3>1
    <3> QED BY <3>1, <3>2
  <2>2. CASE r = p
    <3>1. p = SubSeq(p, 1, Len(p)) /\ Len(p) \in 0..Len(p)
      BY <1>1, SubSeqFull
    <3> QED BY <2>2, <3>1
  <2> QED BY <2>1, <2>2
<1>3. SubSeq(t, 1, i) = r
  <2>1. i \in Nat /\ i \in Int /\ 1 \in Int /\ \A k \in 1..i : k \in 1..Len(p) /\ k \in 1..Len(t)
    BY <1>1
  <2>2. /\ \A k \in 1..i : p[k] \in Name
        /\ \A k \in 1..i : t[k] \in Name
    BY <1>1, <2>1
  <2>3. /\ SubSeq(p, 1, i) \in Seq(Name)
        /\ Len(SubSeq(p, 1, i)) = IF 1 <= i THEN i - 1 + 1 ELSE 0
        /\ \A k \in 1..(i - 1 + 1) : SubSeq(p, 1, i)[k] = p[1 + k - 1]
    BY <2>1, <2>2, SubSeqProperties
  <2>4. /\ SubSeq(t, 1, i) \in Seq(Name)
        /\ Len(SubSeq(t, 1, i)) = IF 1 <= i THEN i - 1 + 1 ELSE 0
        /\ \A k \in 1..(i - 1 + 1) : SubSeq(t, 1, i)[k] = t[1 + k - 1]
    BY <2>1, <2>2, SubSeqProperties
  <2>5. Len(SubSeq(p, 1, i)) = i /\ Len(SubSeq(t, 1, i)) = i
    BY <2>1, <2>3, <2>4
  <2>6. ASSUME NEW k \in 1..i PROVE SubSeq(t, 1, i)[k] = SubSeq(p, 1, i)[k]
    <3>1. k \in 1..(i - 1 + 1) /\ 1 + k - 1 = k /\ t[k] = p[k]
      BY <1>1, <2>1
    <3> QED BY <2>3, <2>4, <3>1
  <2>7. SubSeq(t, 1, i) = SubSeq(p, 1, i)
    BY <2>3, <2>4, <2>5, <2>6, SeqEqual
  <2> QED BY <1>2, <2>7
<1>4. CASE i \in 0..(Len(t) - 1)
  BY <1>3, <1>4 DEF Above, t
<1>5. CASE i = Len(t)
  <2>1. t = SubSeq(t, 1, Len(t))
    BY <1>1, SubSeqFull
  <2> QED BY <1>3, <1>5, <2>1 DEF t
<1> QED BY <1>1, <1>2, <1>4, <1>5

\* Below an array all stays below it, and a node of a kind there makes FillTreeNode throw.
LEMMA ArrayKept ==
  ASSUME NEW p \in Path, NEW q \in Path, BelowArray(p)
  PROVE  BelowArray(p \o q)
<1>1. PICK r \in Above(p) \cup {p} : Found(r) /\ file.value[r] = Array
  BY DEF BelowArray
<1>2. r \in Above(p \o q) \cup {p \o q}
  BY AboveGrows
<1> QED BY <1>1, <1>2 DEF BelowArray

LEMMA ArrayDiffers == Array \notin {Object, Null}
<1> DEFINE a == Text
           b == Null
           c == Object
<1>1. ASSUME Array = Null PROVE FALSE
  <2>1. Cardinality({a, b, c}) = 4
    <3>1. {Text, Null, Object, Array} = {Text, Null, Object}
      BY <1>1
    <3> QED BY <3>1, FileAssumption
  <2>2. Cardinality({a, b, c}) <= 3
    BY AtMostThree
  <2> QED BY <2>1, <2>2
<1> QED BY <1>1, ValuesDiffer

LEMMA ArrayThrows ==
  ASSUME NEW p \in Path, NEW n \in Name, BelowArray(p)
  PROVE  SearchThrows(Append(p, n))
<1>1. PICK r \in Above(p) \cup {p} : Found(r) /\ file.value[r] = Array
  BY DEF BelowArray
<1>2. r \in Above(Append(p, n))
  BY AboveAppend
<1> QED BY <1>1, <1>2, ArrayDiffers DEF SearchThrows

\* What DepthInv says of one item.
IsReached(path, item, p) ==
  \/ 2 * Len(path) + 3 <= 3 * Len(p) + 2 * Lead(item)
  \/ /\ ~IsAny(item.mask, JO_APPEND) /\ BelowArray(SearchPath(path))
     /\ 2 * Len(path) + 1 <= 3 * Len(p) + 2 * Lead(item)

LEMMA NewDepth ==
  ASSUME IInv, NEW i, NEW item, Adds(i, item), ~NewThrows(i, item)
  PROVE  \E p \in DOMAIN file.value : IsReached(PathOfNew(i, item), item, p)
<1> USE DEF IInv
<1> DEFINE above == NodePath[i]
           path == PathOfNew(i, item)
           node == NodeOf(item)
           sought == SearchPath(above)
           L == Len(above)
           S == Len(sought)
           New == Lead(item)
<1>1. /\ L \in Nat /\ S \in Nat /\ Len(path) = L + 1
      /\ sought \in Path /\ SearchPath(path) = sought \o Parts[item.name]
      /\ Parts[item.name] \in Path /\ (i = 0 => L = 0)
  BY NewLengths
<1>2. /\ node.name = item.name /\ node.mask = item.mask /\ item.name \in Name
      /\ file \in File
  BY DEF NodeOf, Node, Adds, Item, TypeOK
<1>3. \/ i = 0 /\ node \in HighNodes
      \/ /\ i \in 1..Len(items) /\ items[i].name \in ParentName
         /\ node \in Range(GetListMainNodes(items[i].name))
      \/ /\ i \in 1..Len(items) /\ items[i].name \notin ParentName
         /\ IsAny(items[i].mask, JO_APPEND)
         /\ IsNameAt(item.name, sought, items[i].mask)
         /\ node = ChildNode(items[i].mask, item.name)
  BY NewItemIs
<1>4. New \in 0..3
  BY LeadIs
<1> DEFINE Par == Lead(items[i])
<1>5. CASE i = 0
  <2>1. item.name \in {Activity, Components} /\ ~IsAny(item.mask, JO_APPEND)
    BY <1>2, <1>3, <1>5, NodeMasks, Flags
  <2>2. New = 1
    BY <2>1, LeadIs
  <2>3. <<Activity>> \in DOMAIN file.value /\ Len(<<Activity>>) = 1
    BY <1>2, FileAt DEF MainPath
  <2>4. 2 * Len(path) + 3 <= 3 * Len(<<Activity>>) + 2 * New
    BY <1>1, <1>5, <2>2, <2>3
  <2> QED BY <2>3, <2>4 DEF IsReached
<1>6. CASE /\ i \in 1..Len(items) /\ items[i].name \in ParentName
           /\ node \in Range(GetListMainNodes(items[i].name))
  <2>1. ~IsAny(items[i].mask, JO_APPEND)
    <3> SUFFICES ASSUME IsAny(items[i].mask, JO_APPEND) PROVE FALSE
      OBVIOUS
    <3>1. PICK k \in 1..Len(Kind) : NodeOf(items[i]) \in {ComponentNode(k), DefinitionNode(k)}
      BY <1>6, AskingItem
    <3>2. items[i].name = NodeOf(items[i]).name
      BY DEF NodeOf, Node
    <3> QED BY <1>6, <3>1, <3>2, NodeMasks, KindAt
  <2>2. \/ items[i].name = NoName /\ node \in HighNodes
        \/ items[i].name = Activity /\ node \in ActivityNodes
        \/ items[i].name = CurrentSet /\ \E k \in 1..Len(Kind) : node = ComponentNode(k)
        \/ items[i].name = Components /\ \E k \in 1..Len(Kind) : node = DefinitionNode(k)
    BY <1>6, MainNode
  <2>3. Par \in 0..2 /\ New >= Par + 1
    <3>1. CASE items[i].name = NoName /\ node \in HighNodes
      <4>1. item.name \in {Activity, Components} /\ ~IsAny(item.mask, JO_APPEND)
        BY <1>2, <3>1, NodeMasks, Flags
      <4>2. New = 1 /\ Par = 0
        BY <2>1, <3>1, <4>1, LeadIs
      <4> QED BY <4>2
    <3>2. CASE items[i].name = Activity /\ node \in ActivityNodes
      <4>1. item.name \in {CurrentSet, Application} /\ ~IsAny(item.mask, JO_APPEND)
        BY <1>2, <3>2, NodeMasks, Flags
      <4>2. item.name \notin {NoName, Activity, Components}
        BY <4>1, NamesDiffer DEF ParentName
      <4>3. New = 2 /\ Par = 1
        BY <2>1, <3>2, <4>1, <4>2, LeadIs
      <4> QED BY <4>3
    <3>3. CASE items[i].name = CurrentSet /\ \E k \in 1..Len(Kind) : node = ComponentNode(k)
      <4>1. IsAny(item.mask, JO_APPEND) /\ IsAny(item.mask, JO_LINKS)
        BY <1>2, <3>3, NodeMasks, Flags
      <4>2. New = 3 /\ Par = 2
        BY <2>1, <3>3, <4>1, LeadIs, NamesDiffer
      <4> QED BY <4>2
    <3>4. CASE items[i].name = Components /\ \E k \in 1..Len(Kind) : node = DefinitionNode(k)
      <4>1. IsAny(item.mask, JO_APPEND) /\ ~IsAny(item.mask, JO_LINKS)
        BY <1>2, <3>4, NodeMasks, Flags
      <4>2. New = 2 /\ Par = 1
        BY <2>1, <3>4, <4>1, LeadIs
      <4> QED BY <4>2
    <3> QED BY <2>2, <3>1, <3>2, <3>3, <3>4
  <2>4. PICK p \in DOMAIN file.value : IsReached(above, items[i], p)
    <3>1. stage # "thrown"
      BY DEF Adds
    <3> QED BY <1>6, <3>1 DEF DepthInv, IsReached
  <2>5. Len(p) \in Nat
    BY <1>2, FileAt DEF Path
  <2> HIDE DEF New, Par, L, node
  <2>6. 2 * L + 1 <= 3 * Len(p) + 2 * Par
    BY <1>1, <2>3, <2>4, <2>5 DEF IsReached, L, Par
  <2>7. 2 * (L + 1) + 1 <= 3 * Len(p) + 2 * New
    BY <1>1, <1>4, <2>3, <2>5, <2>6
  <2>8. CASE 2 * L + 3 <= 3 * Len(p) + 2 * Par
    <3>1. 2 * (L + 1) + 3 <= 3 * Len(p) + 2 * New
      BY <1>1, <1>4, <2>3, <2>5, <2>8
    <3> QED BY <1>1, <3>1 DEF IsReached, New
  <2>9. CASE BelowArray(sought)
    <3>1. BelowArray(SearchPath(path))
      BY <1>1, <2>9, ArrayKept
    <3>2. ~IsAny(item.mask, JO_APPEND)
      <4> SUFFICES ASSUME IsAny(item.mask, JO_APPEND) PROVE FALSE
        OBVIOUS
      <4>1. 9 \in node.mask
        BY <1>2, Flags
      <4>2. PICK k \in 1..Len(Kind) : node \in {ComponentNode(k), DefinitionNode(k)}
        BY <2>2, <4>1, NodeMasks
      <4>3. item.name \in {Kind[k].component, Kind[k].definitions}
        BY <1>2, <4>2, NodeMasks
      <4>4. item.name \notin ParentName /\ Parts[item.name] = <<item.name>>
        BY <4>3, KindAt
      <4>5. SearchPath(path) = Append(sought, item.name)
        <5>1. sought \in Seq(Name) /\ item.name \in Name
          BY <1>1, <1>2 DEF Path
        <5>2. sought \o <<item.name>> = Append(sought, item.name)
          BY <5>1, AppendIsConcat
        <5> QED BY <1>1, <4>4, <5>2
      <4>6. SearchThrows(SearchPath(path))
        BY <1>1, <1>2, <2>9, <4>5, ArrayThrows
      <4>7. GetListMainNodes(item.name) = <<>>
        BY <4>4, MainLists
      <4> QED BY <4>6, <4>7 DEF NewThrows, CallThrows, Asks
    <3> QED BY <1>1, <2>7, <3>1, <3>2 DEF IsReached, New
  <2> QED BY <2>4, <2>8, <2>9 DEF IsReached, L, Par
<1>7. CASE /\ i \in 1..Len(items) /\ IsAny(items[i].mask, JO_APPEND)
           /\ IsNameAt(item.name, sought, items[i].mask)
           /\ node = ChildNode(items[i].mask, item.name)
  <2>1. ~IsAny(item.mask, JO_APPEND)
    BY <1>2, <1>7, NodeMasks, Flags
  <2>2. 2 * L + Par <= 3 * S /\ Par \in {2, 3}
    BY <1>7, LeadIs DEF LeadInv
  <2>3. CASE file.value[sought] = Object /\ item.name \in Members(sought)
    <3> DEFINE p == Append(sought, item.name)
    <3>1. p \in DOMAIN file.value
      BY <2>3 DEF Members
    <3>2. Len(p) = S + 1
      BY <1>1, <1>2 DEF Path
    <3> HIDE DEF p, New, Par, L, S
    <3>3. 2 * (L + 1) + 3 <= 3 * Len(p) + 2 * New
      BY <1>1, <1>4, <2>2, <3>2
    <3> QED BY <1>1, <3>1, <3>3 DEF IsReached, New
  <2>4. CASE file.value[sought] = Array /\ IsAny(items[i].mask, JO_LINKS)
    <3>1. Par = 3
      BY <1>7, <2>4, LeadIs
    <3>2. sought \in DOMAIN file.value
      BY <1>7 DEF IsNameAt, Found
    <3>3. BelowArray(sought)
      BY <2>4, <3>2 DEF BelowArray, Found
    <3>4. BelowArray(SearchPath(path))
      BY <1>1, <3>3, ArrayKept
    <3> HIDE DEF New, Par, L, S
    <3>5. 2 * (L + 1) + 1 <= 3 * S + 2 * New
      BY <1>1, <1>4, <2>2, <3>1
    <3> QED BY <1>1, <2>1, <3>2, <3>4, <3>5 DEF IsReached, New, S
  <2> QED BY <1>7, <2>3, <2>4 DEF IsNameAt
<1> QED BY <1>3, <1>5, <1>6, <1>7

LEMMA AddDepthInv == IInv /\ AddItem => DepthInv'
<1> SUFFICES ASSUME IInv, AddItem, stage' # "thrown" PROVE DepthInv'
  BY DEF DepthInv
<1>1. PICK i, item :
        /\ Adds(i, item)
        /\ IF NewThrows(i, item) THEN stage' = "thrown" /\ calls' = <<>>
           ELSE stage' = stage /\ calls' = Append(Turned, NewCall(i, item))
  BY AddItemAdds DEF IInv
<1>2. ~NewThrows(i, item) /\ stage # "thrown" /\ file' = file
  BY <1>1 DEF Adds
<1>3. /\ Len(items) \in Nat /\ Len(items') = Newest /\ items'[Newest] = item
      /\ \A j \in 1..Len(items) : items'[j] = items[j]
      /\ \A j \in 0..Len(items) : NodePath'[j] = NodePath[j]
      /\ NodePath'[Newest] = PathOfNew(i, item)
  BY <1>1, AddKeeps DEF IInv
<1>4. ASSUME NEW j \in 1..Len(items')
      PROVE  \E p \in DOMAIN file.value : IsReached(NodePath'[j], items'[j], p)
  <2>1. CASE j \in 1..Len(items)
    <3>1. items'[j] = items[j] /\ NodePath'[j] = NodePath[j]
      BY <1>3, <2>1
    <3> QED BY <1>2, <2>1, <3>1 DEF IInv, DepthInv, IsReached
  <2>2. CASE j = Newest
    <3>1. items'[j] = item /\ NodePath'[j] = PathOfNew(i, item)
      BY <1>3, <2>2
    <3> QED BY <1>1, <1>2, <3>1, NewDepth
  <2> QED BY <1>3, <2>1, <2>2 DEF Newest
<1>5. \A p : BelowArray(p)' <=> BelowArray(p)
  BY <1>2 DEF BelowArray, Found
<1> QED BY <1>2, <1>4, <1>5 DEF DepthInv, IsReached

-------------------------------------------------------------------------------
(***************************************************************************)
(* The inductive invariant                                                 *)
(***************************************************************************)
LEMMA Invariance == Spec => []IInv
<1>1. Init => IInv
  BY InitInv
<1>2. IInv /\ [Next]_vars => IInv'
  <2> SUFFICES ASSUME IInv, [Next]_vars PROVE IInv'
    OBVIOUS
  <2>1. CASE Open
    BY <2>1, OpenInv
  <2>2. CASE AddItem
    <3>1. TypeOK' /\ CallInv' /\ LoopInv'
      BY <2>2, AddTypeOK, AddCallInv, AddLoopInv DEF IInv
    <3>2. PlaceInv' /\ LeadInv' /\ DepthInv'
      BY <2>2, AddPlaceInv, AddLeadInv, AddDepthInv
    <3> QED BY <3>1, <3>2 DEF IInv
  <2>3. CASE Return
    BY <2>3, ReturnInv
  <2>4. CASE Close
    BY <2>4, CloseInv
  <2>5. CASE UNCHANGED vars
    BY <2>5, StutterInv
  <2> QED BY <2>1, <2>2, <2>3, <2>4, <2>5 DEF Next
<1> QED BY <1>1, <1>2, PTL DEF Spec

\* Every variable has its type, and every call of FillTreeNode belongs to an item that
\* is there (AppConfigDialog.cpp:119).
THEOREM TypeCorrect == Spec => []TypeOK
<1>1. IInv => TypeOK
  BY DEF IInv
<1> QED BY <1>1, Invariance, PTL

-------------------------------------------------------------------------------
(***************************************************************************)
(* What the user sees                                                      *)
(***************************************************************************)
LEMMA MainIsMainPath ==
  ASSUME NEW path, NEW node, IsMain(path, node)
  PROVE  path \in MainPath
<1>1. CASE path = <<node.name>> /\ node \in HighNodes
  BY <1>1, NodeMasks DEF MainPath
<1>2. CASE path = <<Activity, node.name>> /\ node \in ActivityNodes
  BY <1>2, NodeMasks DEF MainPath
<1>3. CASE path = <<Activity, CurrentSet, node.name>> /\ \E k \in 1..Len(Kind) : node = ComponentNode(k)
  BY <1>3, NodeMasks DEF MainPath
<1>4. CASE path = <<Components, node.name>> /\ \E k \in 1..Len(Kind) : node = DefinitionNode(k)
  BY <1>4, NodeMasks DEF MainPath
<1> QED BY <1>1, <1>2, <1>3, <1>4, HighList, ActivityList, ComponentLists DEF IsMain

LEMMA ExtrasHold == IInv => ExtrasBelowMainNames
<1> SUFFICES ASSUME IInv, NEW i \in 1..Len(items), NodePath[i] \notin MainPath \cup UserPath
             PROVE  BelowMainName(NodePath[i])
  BY DEF ExtrasBelowMainNames, Shown
<1> QED BY MainIsMainPath DEF IInv, PlaceInv

LEMMA BoundHolds == IInv => RecursionIsBounded
<1> SUFFICES ASSUME IInv PROVE \E p \in DOMAIN file.value : 2 * Len(calls) <= 3 * Len(p) + 5
  BY DEF RecursionIsBounded
<1> USE DEF IInv
<1>1. /\ <<Activity>> \in DOMAIN file.value /\ Len(<<Activity>>) = 1 /\ file \in File
      /\ Len(calls) \in Nat /\ Len(items) \in Nat
  BY FileAt DEF MainPath, TypeOK
<1>2. CASE Len(calls) <= 1
  <2>1. 2 * Len(calls) <= 3 * Len(<<Activity>>) + 5
    BY <1>1, <1>2
  <2> QED BY <1>1, <2>1
<1>3. CASE Len(calls) > 1
  <2> DEFINE m == Len(calls)
             i == calls[m].item
  <2>1. m \in 1..m /\ i \in 0..Len(items) /\ Len(NodePath[i]) = m - 1
    <3>1. m \in 1..m
      BY <1>1, <1>3
    <3> QED BY <3>1, CallAt DEF CallInv
  <2>2. i # 0
    <3> SUFFICES ASSUME i = 0 PROVE FALSE
      OBVIOUS
    <3>1. NodePath[i] = <<>>
      BY TypedIsTree, PathOfItem
    <3>2. Len(NodePath[i]) = 0
      BY <3>1
    <3> HIDE DEF i
    <3> QED BY <1>1, <1>3, <2>1, <3>2
  <2>3. i \in 1..Len(items)
    BY <1>1, <2>1, <2>2
  <2>4. stage # "thrown"
    <3>1. calls # <<>>
      BY <1>3
    <3> QED BY <3>1 DEF CallInv
  <2>5. PICK p \in DOMAIN file.value : IsReached(NodePath[i], items[i], p)
    BY <2>3, <2>4 DEF DepthInv, IsReached
  <2>6. Len(p) \in Nat
    BY <1>1, FileAt DEF Path
  <2> DEFINE l == Lead(items[i])
  <2>7. l \in 0..3 /\ (~IsAny(items[i].mask, JO_APPEND) => l \in 0..2)
    BY LeadIs
  <2>8. \/ 2 * (m - 1) + 3 <= 3 * Len(p) + 2 * l
        \/ l \in 0..2 /\ 2 * (m - 1) + 1 <= 3 * Len(p) + 2 * l
    BY <2>1, <2>5, <2>7 DEF IsReached
  <2> HIDE DEF l, i
  <2>9. 2 * m <= 3 * Len(p) + 5
    BY <1>1, <2>6, <2>7, <2>8
  <2> QED BY <2>9
<1> QED BY <1>1, <1>2, <1>3

\* When the dialog is open there is an item for every node below an item.
LEMMA OpenChild ==
  ASSUME IInv, stage = "open", NEW a \in 0..Len(items), NEW node \in Range(NodesBelow(a))
  PROVE  \E j \in 1..Len(items) :
           /\ NodeOf(items[j]) = node /\ items[j].name = node.name /\ items[j].mask = node.mask
           /\ NodePath[j] = Append(NodePath[a], node.name)
           /\ ~Throws(j)
<1> USE DEF IInv
<1>1. Len(calls) = 0 /\ 1..0 = {}
  <2>1. calls = <<>>
    BY DEF CallInv
  <2> QED BY <2>1
<1>2. PICK j \in 1..Len(items) : items[j].parent = a /\ NodeOf(items[j]) = node
  BY <1>1 DEF LoopInv
<1>3. NodePath[j] = Append(NodePath[items[j].parent], items[j].name)
  BY TypedIsTree, PathOfItem
<1>4. node.name = items[j].name /\ node.mask = items[j].mask
  BY <1>2 DEF NodeOf, Node
<1>5. ~Throws(j)
  BY DEF LoopInv
<1> QED BY <1>2, <1>3, <1>4, <1>5

\* The nodes below an item with the name of a node of the program.
LEMMA OpenBelow ==
  ASSUME IInv, stage = "open", NEW j \in 1..Len(items), items[j].name \in ParentName
  PROVE  NodesBelow(j) = GetListMainNodes(items[j].name)
<1> USE DEF IInv
<1>1. NodePath[j] \in Path /\ items[j] \in Item /\ file \in File /\ ~Throws(j) /\ j # 0
  BY OwnName DEF TypeOK, LoopInv
<1>2. ~CallThrows(items[j].name, NodePath[j], items[j].mask)
  BY <1>1 DEF Throws
<1>3. NodesBelow(j) = NodesOf(items[j].name, NodePath[j], items[j].mask)
  BY <1>1 DEF NodesBelow
<1>4. items[j].name \in Name /\ items[j].mask \in SUBSET (0..11)
  BY <1>1 DEF Item
<1> QED BY <1>1, <1>2, <1>3, <1>4, NodesOfAre

\* The items of the nodes that every file has.
LEMMA OpenMain ==
  ASSUME IInv, stage = "open"
  PROVE  /\ \E j \in 1..Len(items) : NodePath[j] = <<Activity>>
         /\ \E j \in 1..Len(items) : NodePath[j] = <<Components>>
         /\ \E j \in 1..Len(items) : NodePath[j] = <<Activity, CurrentSet>>
         /\ \E j \in 1..Len(items) : NodePath[j] = <<Activity, Application>>
         /\ \A k \in 1..Len(Kind) : \E j \in 1..Len(items) :
              /\ NodePath[j] = <<Activity, CurrentSet, Kind[k].component>>
              /\ NodeOf(items[j]) = ComponentNode(k)
         /\ \A k \in 1..Len(Kind) : \E j \in 1..Len(items) :
              /\ NodePath[j] = <<Components, Kind[k].definitions>>
              /\ NodeOf(items[j]) = DefinitionNode(k)
<1>1. /\ 0 \in 0..Len(items) /\ NodePath[0] = <<>> /\ NodesBelow(0) = listHighNodes
      /\ \A j \in 1..Len(items) : j \in 0..Len(items)
  <2>1. Len(items) \in Nat /\ NodePath[0] = <<>>
    BY TypedIsTree, PathOfItem DEF IInv
  <2> QED BY <2>1 DEF NodesBelow
<1>2. {Activity, CurrentSet, Components} \subseteq ParentName
  BY DEF ParentName
<1>3. PICK a \in 1..Len(items) : items[a].name = Activity /\ NodePath[a] = <<Activity>>
  <2> DEFINE node == Node(Activity, "object", JO_CONST)
  <2>1. node \in Range(NodesBelow(0)) /\ node.name = Activity
    BY <1>1, HighList DEF HighNodes, Node
  <2> HIDE DEF node
  <2> QED BY <1>1, <2>1, OpenChild, Tuples
<1>4. PICK c \in 1..Len(items) : items[c].name = Components /\ NodePath[c] = <<Components>>
  <2> DEFINE node == Node(Components, "object", JO_CONST)
  <2>1. node \in Range(NodesBelow(0)) /\ node.name = Components
    BY <1>1, HighList DEF HighNodes, Node
  <2> HIDE DEF node
  <2> QED BY <1>1, <2>1, OpenChild, Tuples
<1>5. PICK s \in 1..Len(items) : items[s].name = CurrentSet /\ NodePath[s] = <<Activity, CurrentSet>>
  <2> DEFINE node == Node(CurrentSet, "object", JO_CONST \cup JO_CURRENT_SESSION)
  <2>1. node.name = CurrentSet /\ node \in ActivityNodes
    BY DEF ActivityNodes, Node
  <2>2. NodesBelow(a) = listActivityNodes
    BY <1>2, <1>3, OpenBelow, MainLists
  <2> HIDE DEF node
  <2>3. node \in Range(NodesBelow(a))
    BY <2>1, <2>2, ActivityList
  <2>4. \E j \in 1..Len(items) : items[j].name = node.name /\ NodePath[j] = Append(NodePath[a], node.name)
    BY <1>1, <2>3, OpenChild
  <2>5. Append(<<Activity>>, CurrentSet) = <<Activity, CurrentSet>>
    BY Tuples
  <2> QED BY <1>3, <2>1, <2>4, <2>5
<1>6. PICK p \in 1..Len(items) : NodePath[p] = <<Activity, Application>>
  <2> DEFINE node == Node(Application, "object", JO_APPLICATION)
  <2>1. node.name = Application /\ node \in ActivityNodes
    BY DEF ActivityNodes, Node
  <2>2. NodesBelow(a) = listActivityNodes
    BY <1>2, <1>3, OpenBelow, MainLists
  <2> HIDE DEF node
  <2>3. node \in Range(NodesBelow(a))
    BY <2>1, <2>2, ActivityList
  <2>4. \E j \in 1..Len(items) : items[j].name = node.name /\ NodePath[j] = Append(NodePath[a], node.name)
    BY <1>1, <2>3, OpenChild
  <2>5. Append(<<Activity>>, Application) = <<Activity, Application>>
    BY Tuples
  <2> QED BY <1>3, <2>1, <2>4, <2>5
<1>7. ASSUME NEW k \in 1..Len(Kind)
      PROVE  \E j \in 1..Len(items) : /\ NodePath[j] = <<Activity, CurrentSet, Kind[k].component>>
                                      /\ NodeOf(items[j]) = ComponentNode(k)
  <2>1. NodesBelow(s) = listComponents
    BY <1>2, <1>5, OpenBelow, MainLists
  <2>2. ComponentNode(k) \in Range(NodesBelow(s)) /\ ComponentNode(k).name = Kind[k].component
    BY <2>1, ComponentLists, NodeMasks
  <2>3. PICK j \in 1..Len(items) : /\ NodeOf(items[j]) = ComponentNode(k)
                                   /\ NodePath[j] = Append(NodePath[s], Kind[k].component)
    BY <1>1, <2>2, OpenChild
  <2> QED BY <1>5, <2>3, Tuples
<1>8. ASSUME NEW k \in 1..Len(Kind)
      PROVE  \E j \in 1..Len(items) : /\ NodePath[j] = <<Components, Kind[k].definitions>>
                                      /\ NodeOf(items[j]) = DefinitionNode(k)
  <2>1. NodesBelow(c) = listComponentDefinitions
    BY <1>2, <1>4, OpenBelow, MainLists
  <2>2. DefinitionNode(k) \in Range(NodesBelow(c)) /\ DefinitionNode(k).name = Kind[k].definitions
    BY <2>1, ComponentLists, NodeMasks
  <2>3. PICK j \in 1..Len(items) : /\ NodeOf(items[j]) = DefinitionNode(k)
                                   /\ NodePath[j] = Append(NodePath[c], Kind[k].definitions)
    BY <1>1, <2>2, OpenChild
  <2> QED BY <1>4, <2>3, Tuples
<1> QED BY <1>3, <1>4, <1>5, <1>6, <1>7, <1>8

\* What stands in the settings at the path an item asks for has an item below it.
LEMMA OpenAsked ==
  ASSUME IInv, stage = "open", NEW j \in 1..Len(items), items[j].name \notin ParentName,
         IsAny(items[j].mask, JO_APPEND), SearchPath(NodePath[j]) = NodePath[j],
         NEW n, IsNameAt(n, NodePath[j], items[j].mask)
  PROVE  /\ n \in Name
         /\ \E c \in 1..Len(items) : items[c].name = n /\ NodePath[c] = Append(NodePath[j], n)
<1> USE DEF IInv
<1> DEFINE path == NodePath[j]
           mask == items[j].mask
<1>1. path \in Path /\ items[j] \in Item /\ file \in File /\ ~Throws(j) /\ j # 0
  BY OwnName DEF TypeOK, LoopInv
<1>2. ~CallThrows(items[j].name, path, mask)
  BY <1>1 DEF Throws
<1>3. NodesBelow(j) = NodesOf(items[j].name, path, mask)
  BY <1>1 DEF NodesBelow
<1>4. items[j].name \in Name /\ mask \in SUBSET (0..11)
  BY <1>1 DEF Item
<1>5. ~LinksThrow(path, mask)
  <2>1. Asks(items[j].name, mask)
    BY MainLists DEF Asks
  <2> QED BY <1>2, <2>1 DEF CallThrows
<1>6. n \in Name
  <2>1. NamesAt(path, mask) \in Seq(Name) /\ n \in Range(NamesAt(path, mask))
    BY <1>1, <1>5, NamesAtAre
  <2> DEFINE s == NamesAt(path, mask)
  <2>2. s \in Seq(Name) /\ n \in Range(s)
    BY <2>1
  <2> HIDE DEF s
  <2> QED BY <2>2 DEF Range
<1>7. ChildNode(mask, n) \in Range(NodesBelow(j)) /\ ChildNode(mask, n).name = n
  BY <1>1, <1>2, <1>3, <1>4, <1>6, NodesOfAre, NodeMasks
<1>8. \E c \in 1..Len(items) : items[c].name = n /\ NodePath[c] = Append(NodePath[j], n)
  <2>1. j \in 0..Len(items)
    BY TypedIsTree
  <2> QED BY <1>7, <2>1, OpenChild
<1> QED BY <1>6, <1>8

LEMMA AllIsShown == IInv => NothingMissing
<1> SUFFICES ASSUME IInv, stage = "open", NEW p \in MainPath \cup UserPath
             PROVE  \E i \in 1..Len(items) : NodePath[i] = p
  BY DEF NothingMissing, Shown
<1>1. CASE p \in MainPath
  BY <1>1, OpenMain DEF MainPath
<1>2. CASE p \in UserPath
  <2>1. PICK k \in 1..Len(Kind) : \E n :
           \/ /\ n \in MeantLinks(<<Activity, CurrentSet, Kind[k].component>>)
              /\ p = <<Activity, CurrentSet, Kind[k].component, n>>
           \/ /\ n \in MeantSets(<<Components, Kind[k].definitions>>)
              /\ p = <<Components, Kind[k].definitions, n>>
    BY <1>2, UserPathIs
  <2>2. file \in File
    BY DEF IInv, TypeOK
  <2>3. ASSUME NEW n, n \in MeantLinks(<<Activity, CurrentSet, Kind[k].component>>),
               p = <<Activity, CurrentSet, Kind[k].component, n>>
        PROVE  \E i \in 1..Len(items) : NodePath[i] = p
    <3>1. PICK j \in 1..Len(items) : /\ NodePath[j] = <<Activity, CurrentSet, Kind[k].component>>
                                     /\ NodeOf(items[j]) = ComponentNode(k)
      BY OpenMain
    <3>2. /\ items[j].name = Kind[k].component /\ items[j].mask = ComponentNode(k).mask
          /\ IsAny(items[j].mask, JO_APPEND) /\ IsAny(items[j].mask, JO_LINKS)
      <4>1. items[j].name = ComponentNode(k).name /\ items[j].mask = ComponentNode(k).mask
        BY <3>1 DEF NodeOf, Node
      <4> QED BY <4>1, NodeMasks, Flags
    <3>3. items[j].name \notin ParentName /\ SearchPath(NodePath[j]) = NodePath[j]
      BY <3>1, <3>2, KindAt, MainSearchPath
    <3>4. Found(NodePath[j])
      BY <2>2, <3>1, FileAt DEF MainPath, Found
    <3>5. IsNameAt(n, NodePath[j], items[j].mask)
      BY <2>3, <3>1, <3>2, <3>4 DEF IsNameAt, MeantLinks
    <3>6. PICK c \in 1..Len(items) : NodePath[c] = Append(NodePath[j], n)
      BY <3>2, <3>3, <3>5, OpenAsked
    <3>7. Append(<<Activity, CurrentSet, Kind[k].component>>, n) = p
      BY <2>3, FourTuple
    <3> QED BY <3>1, <3>6, <3>7
  <2>4. ASSUME NEW n, n \in MeantSets(<<Components, Kind[k].definitions>>),
               p = <<Components, Kind[k].definitions, n>>
        PROVE  \E i \in 1..Len(items) : NodePath[i] = p
    <3>1. PICK j \in 1..Len(items) : /\ NodePath[j] = <<Components, Kind[k].definitions>>
                                     /\ NodeOf(items[j]) = DefinitionNode(k)
      BY OpenMain
    <3>2. items[j].name = Kind[k].definitions /\ IsAny(items[j].mask, JO_APPEND)
      <4>1. items[j].name = DefinitionNode(k).name /\ items[j].mask = DefinitionNode(k).mask
        BY <3>1 DEF NodeOf, Node
      <4> QED BY <4>1, NodeMasks, Flags
    <3>3. items[j].name \notin ParentName /\ SearchPath(NodePath[j]) = NodePath[j]
      BY <3>1, <3>2, KindAt, MainSearchPath
    <3>4. Found(NodePath[j])
      BY <2>2, <3>1, FileAt DEF MainPath, Found
    <3>5. IsNameAt(n, NodePath[j], items[j].mask)
      BY <2>4, <3>1, <3>4 DEF IsNameAt, MeantSets
    <3>6. PICK c \in 1..Len(items) : NodePath[c] = Append(NodePath[j], n)
      BY <3>2, <3>3, <3>5, OpenAsked
    <3>7. Append(<<Components, Kind[k].definitions>>, n) = p
      BY <2>4, Tuples
    <3> QED BY <3>1, <3>6, <3>7
  <2> QED BY <2>1, <2>3, <2>4
<1> QED BY <1>1, <1>2

\* A constructor that throws was led to a misleading name by the user's own nodes.
LEMMA ThrownByName ==
  ASSUME IInv, stage = "thrown"
  PROVE  \E p \in UserPath : Misleading(p)
<1> USE DEF IInv
<1> DEFINE j == Len(items)
           path == NodePath[j]
           mask == items[j].mask
<1>1. j \in 1..Len(items) /\ Throws(j) /\ file \in File
  <2>1. items # <<>> /\ Len(items) \in Nat
    BY TypedIsTree DEF LoopInv
  <2>2. Len(items) # 0
    <3>1. items \in Seq([name : Name, type : {"object", "array", "link"},
                         mask : SUBSET (0..11), parent : 0..Len(items)])
      BY DEF TypeOK
    <3> QED BY <2>1, <3>1, EmptySeq
  <2>3. j \in 1..Len(items)
    BY <2>1, <2>2
  <2> QED BY <2>3 DEF LoopInv, TypeOK
<1>2. /\ IsAny(mask, JO_APPEND) /\ items[j].name \notin ParentName
      /\ SearchThrows(SearchPath(path)) \/ LinksThrow(SearchPath(path), mask)
  BY <1>1, MainLists DEF Throws, CallThrows, Asks
<1>3. \/ IsMain(path, NodeOf(items[j]))
      \/ BelowMainName(path)
  BY <1>1, <1>2 DEF PlaceInv
<1>4. NodeOf(items[j]).name = items[j].name /\ NodeOf(items[j]).mask = mask
  BY DEF NodeOf, Node
<1> DEFINE node == NodeOf(items[j])
<1> HIDE DEF j, path, mask, node
<1>5. CASE BelowMainName(path)
  BY <1>5 DEF BelowMainName, Misleading
<1>6. CASE \E k \in 1..Len(Kind) : node = ComponentNode(k) /\ path = <<Activity, CurrentSet, node.name>>
  <2>1. PICK k \in 1..Len(Kind) : node = ComponentNode(k) /\ path = <<Activity, CurrentSet, node.name>>
    BY <1>6
  <2>2. path = <<Activity, CurrentSet, Kind[k].component>> /\ SearchPath(path) = path
    BY <2>1, NodeMasks, MainSearchPath
  <2>3. path \in DOMAIN file.value
    BY <1>1, <2>2, FileAt DEF MainPath
  <2>4. ~SearchThrows(path)
    BY <1>1, <2>3, FileAt DEF SearchThrows
  <2>5. file.value[path] = Array /\ Object \in Range(file.links[path])
    BY <1>2, <2>2, <2>4 DEF LinksThrow
  <2>6. Object \in MeantLinks(path)
    BY <2>5 DEF MeantLinks
  <2> DEFINE p == <<Activity, CurrentSet, Kind[k].component, Object>>
  <2>7. p \in UserPath
    BY <2>2, <2>6, UserPathAt
  <2>8. Misleading(p)
    BY DEF Misleading
  <2> QED BY <2>7, <2>8
<1>7. CASE \E k \in 1..Len(Kind) : node = DefinitionNode(k) /\ path = <<Components, node.name>>
  <2>1. PICK k \in 1..Len(Kind) : node = DefinitionNode(k) /\ path = <<Components, node.name>>
    BY <1>7
  <2>2. path = <<Components, Kind[k].definitions>> /\ SearchPath(path) = path
    BY <2>1, NodeMasks, MainSearchPath
  <2>3. path \in DOMAIN file.value
    BY <1>1, <2>2, FileAt DEF MainPath
  <2>4. ~SearchThrows(path)
    BY <1>1, <2>3, FileAt DEF SearchThrows
  <2>5. IsAny(mask, JO_LINKS)
    BY <1>2, <2>2, <2>4 DEF LinksThrow
  <2>6. ~IsAny(mask, JO_LINKS)
    <3>1. 10 \notin node.mask
      BY <2>1, NodeMasks
    <3> QED BY <1>4, <3>1, Flags DEF node
  <2> QED BY <2>5, <2>6
<1>8. node \notin HighNodes /\ node \notin ActivityNodes
  <2>1. 9 \in node.mask
    BY <1>2, <1>4, Flags DEF node
  <2> QED BY <2>1, NodeMasks
<1>9. CASE IsMain(path, node)
  BY <1>6, <1>7, <1>8, <1>9, HighList, ActivityList, ComponentLists DEF IsMain
<1> QED BY <1>3, <1>5, <1>9 DEF node

\* In an open dialog no item below an array has the name of a node with children: it
\* leads to a node of a kind, which would have thrown.
LEMMA ArrayChild ==
  ASSUME IInv, stage = "open", NEW j \in 1..Len(items), BelowArray(SearchPath(NodePath[j])),
         NEW node \in Range(NodesBelow(j))
  PROVE  /\ 9 \notin node.mask \/ node.name \in ParentName \/ Parts[node.name] # <<node.name>>
         /\ \E c \in 1..Len(items) : /\ items[c].name = node.name
                                     /\ BelowArray(SearchPath(NodePath[c]))
<1> USE DEF IInv
<1>1. NodePath[j] \in Path /\ j \in 0..Len(items)
  BY OwnName, TypedIsTree
<1>2. PICK c \in 1..Len(items) :
        /\ items[c].name = node.name /\ items[c].mask = node.mask
        /\ NodePath[c] = Append(NodePath[j], node.name) /\ ~Throws(c)
  BY <1>1, OpenChild
<1> DEFINE n == node.name
           sought == SearchPath(NodePath[j])
<1>3. n \in Name
  BY <1>2, OwnName DEF Item
<1> HIDE DEF n
<1>4. /\ sought \in Path /\ SearchPath(NodePath[c]) = sought \o Parts[n] /\ Parts[n] \in Path
  BY <1>1, <1>2, <1>3, SearchPathAppend DEF n
<1>5. BelowArray(SearchPath(NodePath[c]))
  BY <1>4, ArrayKept
<1>6. ASSUME 9 \in node.mask, n \notin ParentName, Parts[n] = <<n>> PROVE FALSE
  <2>1. SearchPath(NodePath[c]) = Append(sought, n)
    <3>1. sought \in Seq(Name)
      BY <1>4 DEF Path
    <3>2. sought \o <<n>> = Append(sought, n)
      BY <1>3, <3>1, AppendIsConcat
    <3> QED BY <1>4, <1>6, <3>2
  <2>2. SearchThrows(SearchPath(NodePath[c]))
    BY <1>3, <1>4, <2>1, ArrayThrows
  <2>3. Asks(items[c].name, items[c].mask)
    BY <1>2, <1>6, MainLists, Flags DEF Asks, n
  <2> QED BY <1>2, <2>2, <2>3 DEF Throws, CallThrows
<1> QED BY <1>2, <1>5, <1>6 DEF n

LEMMA NoneBelowArray ==
  ASSUME IInv, stage = "open", NEW j \in 1..Len(items), BelowArray(SearchPath(NodePath[j]))
  PROVE  items[j].name \notin ParentName
<1>1. 1 \in 1..Len(Kind)
  <2>1. Kind # <<>> /\ Len(Kind) \in Nat
    BY KindAssumption
  <2>2. Len(Kind) # 0
    BY <2>1, KindAssumption, EmptySeq
  <2> QED BY <2>1, <2>2
<1>2. ASSUME NEW a \in 1..Len(items), BelowArray(SearchPath(NodePath[a])),
             items[a].name \in {CurrentSet, Components}
      PROVE  FALSE
  <2>1. items[a].name \in ParentName /\ NodesBelow(a) = GetListMainNodes(items[a].name)
    BY <1>2, OpenBelow DEF ParentName
  <2>2. \/ ComponentNode(1) \in Range(NodesBelow(a))
        \/ DefinitionNode(1) \in Range(NodesBelow(a))
    BY <1>1, <1>2, <2>1, MainLists, ComponentLists
  <2>3. ASSUME NEW node \in Range(NodesBelow(a)), node \in {ComponentNode(1), DefinitionNode(1)}
        PROVE  FALSE
    <3>1. 9 \in node.mask /\ node.name \in {Kind[1].component, Kind[1].definitions}
      BY <1>1, <2>3, NodeMasks
    <3>2. node.name \notin ParentName /\ Parts[node.name] = <<node.name>>
      BY <1>1, <3>1, KindAt
    <3> QED BY <1>2, <3>1, <3>2, ArrayChild
  <2> QED BY <2>2, <2>3
<1>3. CASE items[j].name \in {CurrentSet, Components}
  BY <1>2, <1>3
<1>4. CASE items[j].name = Activity
  <2> DEFINE node == Node(CurrentSet, "object", JO_CONST \cup JO_CURRENT_SESSION)
  <2>1. node \in ActivityNodes /\ node.name = CurrentSet
    BY DEF ActivityNodes, Node
  <2>2. NodesBelow(j) = listActivityNodes
    BY <1>4, OpenBelow, MainLists DEF ParentName
  <2> HIDE DEF node
  <2>3. node \in Range(NodesBelow(j))
    BY <2>1, <2>2, ActivityList
  <2>4. PICK c \in 1..Len(items) : items[c].name = node.name /\ BelowArray(SearchPath(NodePath[c]))
    BY <2>3, ArrayChild
  <2> QED BY <1>2, <2>1, <2>4
<1>5. CASE items[j].name = NoName
  <2> DEFINE node == Node(Components, "object", JO_CONST)
  <2>1. node \in HighNodes /\ node.name = Components
    BY DEF HighNodes, Node
  <2>2. NodesBelow(j) = listHighNodes
    BY <1>5, OpenBelow, MainLists DEF ParentName
  <2> HIDE DEF node
  <2>3. node \in Range(NodesBelow(j))
    BY <2>1, <2>2, HighList
  <2>4. PICK c \in 1..Len(items) : items[c].name = node.name /\ BelowArray(SearchPath(NodePath[c]))
    BY <2>3, ArrayChild
  <2> QED BY <1>2, <2>1, <2>4
<1> QED BY <1>3, <1>4, <1>5 DEF ParentName

LEMMA OpenForNames ==
  ASSUME IInv, stage = "open", NEW k \in 1..Len(Kind),
         file.value[<<Activity, CurrentSet, Kind[k].component>>] = Array,
         NEW n \in Range(file.links[<<Activity, CurrentSet, Kind[k].component>>])
  PROVE  ~Misleading(<<n>>)
<1> USE DEF IInv
<1>1. PICK j \in 1..Len(items) : /\ NodePath[j] = <<Activity, CurrentSet, Kind[k].component>>
                                 /\ NodeOf(items[j]) = ComponentNode(k)
  BY OpenMain
<1> DEFINE path == NodePath[j]
<1>2. /\ items[j].name = Kind[k].component
      /\ IsAny(items[j].mask, JO_APPEND) /\ IsAny(items[j].mask, JO_LINKS)
  <2>1. items[j].name = ComponentNode(k).name /\ items[j].mask = ComponentNode(k).mask
    BY <1>1 DEF NodeOf, Node
  <2> QED BY <2>1, NodeMasks, Flags
<1>3. items[j].name \notin ParentName /\ SearchPath(path) = path
  BY <1>1, <1>2, KindAt, MainSearchPath
<1>4. Found(path) /\ file.value[path] = Array /\ n \in Range(file.links[path])
  <2>1. <<Activity, CurrentSet, Kind[k].component>> \in DOMAIN file.value
    BY FileAt DEF MainPath, TypeOK
  <2> QED BY <1>1, <2>1 DEF Found
<1>5. IsNameAt(n, path, items[j].mask)
  BY <1>2, <1>4 DEF IsNameAt
<1>6. PICK c \in 1..Len(items) : items[c].name = n /\ NodePath[c] = Append(path, n)
  BY <1>2, <1>3, <1>5, OpenAsked
<1>7. n \in Name
  BY <1>2, <1>3, <1>5, OpenAsked
<1>8. BelowArray(SearchPath(NodePath[c]))
  <2>1. path \in Path
    BY OwnName
  <2>2. /\ SearchPath(Append(path, n)) = SearchPath(path) \o Parts[n] /\ Parts[n] \in Path
    BY <1>7, <2>1, SearchPathAppend
  <2>3. BelowArray(path)
    BY <1>4 DEF BelowArray
  <2>4. BelowArray(path \o Parts[n])
    BY <2>1, <2>2, <2>3, ArrayKept
  <2> QED BY <1>3, <1>6, <2>2, <2>4
<1>9. n \notin ParentName /\ n # Object
  BY <1>6, <1>7, <1>8, NoneBelowArray, ValuesDiffer
<1>10. <<n>>[Len(<<n>>)] = n
  OBVIOUS
<1> QED BY <1>9, <1>10 DEF Misleading

LEMMA ThrowsAreForNames == IInv => ThrowsForNames
<1> SUFFICES ASSUME IInv PROVE ThrowsForNames
  OBVIOUS
<1>1. stage = "thrown" => \E p \in UserPath : Misleading(p)
  BY ThrownByName
<1>2. ASSUME stage = "open", NEW k \in 1..Len(Kind),
             file.value[<<Activity, CurrentSet, Kind[k].component>>] = Array,
             NEW n \in Range(file.links[<<Activity, CurrentSet, Kind[k].component>>]),
             Misleading(<<n>>)
      PROVE  FALSE
  BY <1>2, OpenForNames
<1> QED BY <1>1, <1>2 DEF ThrowsForNames

-------------------------------------------------------------------------------
\* The open dialog shows every node that every file has, every set and every link of
\* the user: FillTreeNode makes an item for all that CAppConfig lists
\* (AppConfigDialog.cpp:119-146), and calls itself for each of them.
THEOREM NothingIsMissing == Spec => []NothingMissing
BY Invariance, AllIsShown, PTL

\* What it shows beyond that stands below a set or a link with the name of a node of the
\* program, or with none, whose children GetListMainNodes gives by the name alone
\* (AppConfig.cpp:207, AppConfigDialog.cpp:123).
THEOREM ExtrasAreBelowMainNames == Spec => []ExtrasBelowMainNames
BY Invariance, ExtrasHold, PTL

\* The constructor throws only for such a name or for a link that is an object or an
\* array, and always for one in an array of links.
THEOREM ThrowsOnlyForNames == Spec => []ThrowsForNames
BY Invariance, ThrowsAreForNames, PTL

\* The recursion of FillTreeNode is no deeper than one level and a half for each name of
\* the longest path of the settings, and two and a half more, whatever their names are.
THEOREM RecursionStaysBounded == Spec => []RecursionIsBounded
BY Invariance, BoundHolds, PTL
================================================================================
