--------------------------- MODULE ConfigStore_proofs ---------------------------
(***************************************************************************)
(* Proofs about ConfigStore, for any names, any files and any number of    *)
(* starts: the trees keep their shape and their room, and what the user    *)
(* finds after a start is what was there before.                           *)
(***************************************************************************)
EXTENDS ConfigStore, SequenceTheorems, TLAPS

(***************************************************************************)
(* Paths                                                                   *)
(***************************************************************************)
LEMMA AboveIsShorter ==
  ASSUME NEW p \in Path, NEW q \in Above(p)
  PROVE  q \in Path /\ Len(q) < Len(p)
  <1>1. PICK i \in 0..(Len(p) - 1) : q = SubSeq(p, 1, i)
    BY DEF Above
  <1>2. Len(p) \in Nat /\ \A j \in 1..i : p[j] \in Name
    BY <1>1, LenProperties DEF Path
  <1>3. q \in Seq(Name) /\ Len(q) = IF 1 <= i THEN i - 1 + 1 ELSE 0
    BY <1>1, <1>2, SubSeqProperties
  <1> QED BY <1>1, <1>2, <1>3 DEF Path

LEMMA AboveIsUpper ==
  ASSUME NEW p \in Path, Len(p) \in 0..3, NEW q \in Above(p)
  PROVE  q \in Path /\ Len(q) \in 0..2
  <1>1. q \in Path /\ Len(q) < Len(p)
    BY AboveIsShorter
  <1>2. Len(q) \in Nat
    BY <1>1, LenProperties DEF Path
  <1>3. \A m \in 0..3, n \in Nat : n < m => n \in 0..2
    OBVIOUS
  <1> QED BY <1>1, <1>2, <1>3

LEMMA NotAboveItself ==
  ASSUME NEW p \in Path
  PROVE  p \notin Above(p)
  BY AboveIsShorter, LenProperties DEF Path

LEMMA NothingAboveRoot == Above(<<>>) = {} /\ <<>> \in Path
  BY DEF Above, Path

LEMMA AboveTransitive ==
  ASSUME NEW p \in Path, NEW q \in Above(p), NEW r \in Above(q)
  PROVE  r \in Above(p)
  <1>1. PICK i \in 0..(Len(p) - 1) : q = SubSeq(p, 1, i)
    BY DEF Above
  <1>2. PICK j \in 0..(Len(q) - 1) : r = SubSeq(q, 1, j)
    BY DEF Above
  <1>3. Len(p) \in Nat /\ \A k \in 1..i : p[k] \in Name
    BY <1>1, LenProperties DEF Path
  <1>4. /\ q \in Seq(Name) /\ Len(q) = i
        /\ \A k \in 1..i : q[k] = p[k]
    BY <1>1, <1>3, SubSeqProperties
  <1>5. j < i /\ \A k \in 1..j : q[k] \in Name /\ p[k] \in Name
    BY <1>2, <1>3, <1>4
  <1>6. /\ r \in Seq(Name) /\ Len(r) = j
        /\ \A k \in 1..j : r[k] = q[k]
    BY <1>2, <1>5, SubSeqProperties
  <1>7. /\ SubSeq(p, 1, j) \in Seq(Name) /\ Len(SubSeq(p, 1, j)) = j
        /\ \A k \in 1..j : SubSeq(p, 1, j)[k] = p[k]
    BY <1>5, SubSeqProperties
  <1>8. r = SubSeq(p, 1, j)
    BY <1>4, <1>5, <1>6, <1>7, SeqEqual
  <1> QED BY <1>3, <1>5, <1>8 DEF Above

LEMMA AboveMember ==
  ASSUME NEW p \in Path, NEW n \in Name
  PROVE  /\ Append(p, n) \in Path /\ Len(Append(p, n)) = Len(p) + 1
         /\ Append(p, n)[Len(Append(p, n))] = n
         /\ Above(Append(p, n)) = Above(p) \cup {p}
  <1> DEFINE m == Append(p, n)
  <1>1. /\ m \in Seq(Name) /\ Len(m) = Len(p) + 1 /\ m[Len(m)] = n
        /\ \A i \in 1..Len(p) : m[i] = p[i]
        /\ Len(p) \in Nat /\ p \in Seq(Name) /\ \A i \in 1..Len(p) : p[i] \in Name
    BY AppendProperties, LenProperties DEF Path
  <1>2. ASSUME NEW i \in 0..Len(p) PROVE SubSeq(m, 1, i) = SubSeq(p, 1, i)
    <2>1. /\ SubSeq(m, 1, i) \in Seq(Name) /\ Len(SubSeq(m, 1, i)) = i
          /\ \A k \in 1..i : SubSeq(m, 1, i)[k] = m[k]
      BY <1>1, SubSeqProperties
    <2>2. /\ SubSeq(p, 1, i) \in Seq(Name) /\ Len(SubSeq(p, 1, i)) = i
          /\ \A k \in 1..i : SubSeq(p, 1, i)[k] = p[k]
      BY <1>1, SubSeqProperties
    <2> HIDE DEF m
    <2> QED BY <1>1, <2>1, <2>2, SeqEqual
  <1>3. SubSeq(p, 1, Len(p)) = p
    BY <1>1, SubSeqFull
  <1>4. Above(m) = {SubSeq(p, 1, i) : i \in 0..Len(p)}
    BY <1>1, <1>2 DEF Above
  <1>5. 0..Len(p) = 0..(Len(p) - 1) \cup {Len(p)}
    BY <1>1
  <1>6. Above(m) = Above(p) \cup {p}
    BY <1>3, <1>4, <1>5 DEF Above
  <1> QED BY <1>1, <1>6 DEF Path

LEMMA Paths ==
  /\ RequiredPath \subseteq Path /\ \A p \in RequiredPath : Len(p) \in 0..3
  /\ SetPath \subseteq Path /\ \A p \in SetPath : Len(p) = 3 /\ p # GeometryPath
  /\ GeometryPath \in Path /\ Len(GeometryPath) = 3 /\ GeometryPath # <<>>
  /\ GeometryPath \notin RequiredPath
  <1>0. 1 \in 0..3 /\ 2 \in 0..3 /\ 3 \in 0..3 /\ 1 # 3 /\ 2 # 3
    OBVIOUS
  <1> USE NameAssumption DEF Path
  <1>1. ASSUME NEW p \in RequiredPath PROVE p \in Path /\ Len(p) \in 0..3 /\ p # GeometryPath
    <2>0. Len(GeometryPath) = 3
      BY DEF GeometryPath
    <2>1. CASE p = <<Activity>>
      <3>1. p \in Seq(Name) /\ Len(p) = 1
        BY <2>1
      <3> QED BY ONLY <1>0, <2>0, <3>1, Zenon DEF Path
    <2>2. CASE p = <<Components>>
      <3>1. p \in Seq(Name) /\ Len(p) = 1
        BY <2>2
      <3> QED BY ONLY <1>0, <2>0, <3>1, Zenon DEF Path
    <2>5. CASE p = <<Activity, CurrentSet>> \/ p = <<Activity, Application>>
      <3>1. p \in Seq(Name) /\ Len(p) = 2
        BY <2>5
      <3> QED BY ONLY <1>0, <2>0, <3>1, Zenon DEF Path
    <2>3. CASE \E n \in Component : p = <<Activity, CurrentSet, n>>
      <3>1. PICK n \in Component : p = <<Activity, CurrentSet, n>>
        BY <2>3
      <3>2. p \in Seq(Name) /\ Len(p) = 3 /\ p[2] = CurrentSet
        BY <3>1
      <3>3. GeometryPath[2] = Application
        BY DEF GeometryPath
      <3>4. p \in Path /\ Len(p) \in 0..3
        BY ONLY <1>0, <3>2, Zenon DEF Path
      <3> QED BY ONLY <3>2, <3>3, <3>4, NameAssumption, Zenon
    <2>4. CASE \E n \in Definitions : p = <<Components, n>>
      <3>1. PICK n \in Definitions : p = <<Components, n>>
        BY <2>4
      <3>2. p \in Seq(Name) /\ Len(p) = 2
        BY <3>1
      <3> QED BY ONLY <1>0, <2>0, <3>2, Zenon DEF Path
    <2> QED BY <2>1, <2>2, <2>3, <2>4, <2>5 DEF RequiredPath
  <1>2. ASSUME NEW p \in SetPath PROVE p \in Path /\ Len(p) = 3 /\ p # GeometryPath
    <2>1. PICK n \in Definitions, c \in Component : p = <<Components, n, c>>
      BY DEF SetPath
    <2> QED BY <2>1 DEF GeometryPath
  <1>3. GeometryPath \in Path /\ Len(GeometryPath) = 3 /\ GeometryPath # <<>>
    BY DEF GeometryPath
  <1> QED BY <1>1, <1>2, <1>3

(***************************************************************************)
(* Trees                                                                   *)
(***************************************************************************)
LEMMA FindAllTree ==
  ASSUME NEW t, IsTree(t), NEW ps \in SUBSET Path
  PROVE  IsTree(FindAll(t, ps))
  <1> DEFINE u == FindAll(t, ps)
  <1>1. \A p \in AboveAll(ps) : p \in Path /\ \A q \in Above(p) : q \in AboveAll(ps)
    BY AboveIsShorter, AboveTransitive DEF AboveAll
  <1>2. \A p \in ps : \A q \in Above(p) : q \in AboveAll(ps)
    BY DEF AboveAll
  <1>3. /\ DOMAIN u = DOMAIN t \cup ps \cup AboveAll(ps)
        /\ \A p \in AboveAll(ps) : u[p] = Object
        /\ \A p \in DOMAIN t \ AboveAll(ps) : u[p] = t[p]
        /\ \A p \in DOMAIN u : p \notin DOMAIN t /\ p \notin AboveAll(ps) => u[p] = Null
        /\ u = [p \in DOMAIN u |-> u[p]]
    BY DEF FindAll
  <1> HIDE DEF u
  <1>4. u \in [DOMAIN u -> Scalar \cup {Null, Object, Array}]
    BY <1>3 DEF IsTree
  <1>5. DOMAIN u \subseteq Path /\ <<>> \in DOMAIN u
    BY <1>1, <1>3 DEF IsTree
  <1>6. ASSUME NEW p \in DOMAIN u, NEW q \in Above(p) PROVE q \in DOMAIN u /\ u[q] = Object
    <2>1. CASE p \in ps \cup AboveAll(ps)
      BY <1>1, <1>2, <1>3, <2>1
    <2>2. CASE p \in DOMAIN t
      BY <1>3, <2>2 DEF IsTree
    <2> QED BY <1>3, <2>1, <2>2
  <1> QED BY <1>4, <1>5, <1>6 DEF IsTree, u

\* a search leaves values and lengths three and more of other paths alone
LEMMA FindAllValues ==
  ASSUME NEW t, IsTree(t), NEW ps \in SUBSET Path, \A p \in ps : Len(p) \in 0..3
  PROVE  /\ \A q \in DOMAIN FindAll(t, ps) :
              \/ FindAll(t, ps)[q] \in {Null, Object}
              \/ q \in DOMAIN t /\ FindAll(t, ps)[q] = t[q]
         /\ GeometryPath \notin ps =>
              /\ GeometryPath \in DOMAIN FindAll(t, ps) <=> GeometryPath \in DOMAIN t
              /\ GeometryPath \in DOMAIN t =>
                   FindAll(t, ps)[GeometryPath] = t[GeometryPath]
  <1> DEFINE u == FindAll(t, ps)
  <1>1. \A p \in ps : \A q \in Above(p) : Len(q) \in 0..2
    BY AboveIsUpper
  <1>2. GeometryPath \notin AboveAll(ps)
    <2>1. ASSUME GeometryPath \in AboveAll(ps) PROVE FALSE
      <3>1. PICK p \in ps : GeometryPath \in Above(p)
        BY <2>1 DEF AboveAll
      <3>2. Len(GeometryPath) \in 0..2 /\ Len(GeometryPath) = 3
        BY <1>1, <3>1, Paths
      <3> HIDE DEF u
      <3> QED BY ONLY <3>2
    <2> QED BY <2>1
  <1>3. /\ DOMAIN u = DOMAIN t \cup ps \cup AboveAll(ps)
        /\ \A q \in DOMAIN u : u[q] = IF q \in AboveAll(ps) THEN Object
                                     ELSE IF q \in DOMAIN t THEN t[q] ELSE Null
    BY DEF FindAll
  <1> HIDE DEF u
  <1>4. \A q \in DOMAIN u : u[q] \in {Null, Object} \/ (q \in DOMAIN t /\ u[q] = t[q])
    BY <1>3
  <1>5. GeometryPath \notin ps =>
          /\ GeometryPath \in DOMAIN u <=> GeometryPath \in DOMAIN t
          /\ GeometryPath \in DOMAIN t => u[GeometryPath] = t[GeometryPath]
    BY <1>2, <1>3
  <1> QED BY <1>4, <1>5 DEF u

LEMMA AssignTree ==
  ASSUME NEW t, IsTree(t), NEW p \in DOMAIN t, NEW v \in Scalar \cup {Object}
  PROVE  IsTree(Assign(t, p, v))
  <1> DEFINE u == Assign(t, p, v)
  <1>1. /\ DOMAIN u = DOMAIN t \ Below(t, p)
        /\ \A q \in DOMAIN u : u[q] = IF q = p THEN v ELSE t[q]
        /\ u = [q \in DOMAIN u |-> u[q]]
    BY DEF Assign
  <1> HIDE DEF u
  <1>2. u \in [DOMAIN u -> Scalar \cup {Null, Object, Array}]
    BY <1>1 DEF IsTree
  <1>3. DOMAIN u \subseteq Path /\ <<>> \in DOMAIN u
    BY <1>1, NothingAboveRoot DEF IsTree, Below
  <1>4. ASSUME NEW q \in DOMAIN u, NEW r \in Above(q) PROVE r \in DOMAIN u /\ u[r] = Object
    <2>1. q \in DOMAIN t /\ p \notin Above(q) /\ q \in Path
      BY <1>1 DEF Below, IsTree
    <2>2. r \in DOMAIN t /\ t[r] = Object /\ r # p
      BY <2>1 DEF IsTree
    <2>3. p \notin Above(r)
      BY <2>1, AboveTransitive
    <2> QED BY <1>1, <2>2, <2>3 DEF Below
  <1> QED BY <1>2, <1>3, <1>4 DEF IsTree, u

LEMMA AssignStructTree ==
  ASSUME NEW t, IsTree(t), NEW p \in DOMAIN t, NEW props \in Props
  PROVE  IsTree(AssignStruct(t, p, props))
  <1> DEFINE clean == Assign(t, p, Object)
             member == {Append(p, n) : n \in DOMAIN props}
             u == AssignStruct(t, p, props)
  <1>0. p \in Path /\ DOMAIN props \subseteq Name /\ \A n \in DOMAIN props : props[n] \in Scalar
    BY FileAssumption DEF IsTree
  <1>1. IsTree(clean)
    BY AssignTree
  <1>2. p \in DOMAIN clean /\ clean[p] = Object /\ \A q \in DOMAIN clean : p \notin Above(q)
    BY <1>0, NotAboveItself DEF Assign, Below
  <1>3. \A m \in member : m \in Path /\ Above(m) = Above(p) \cup {p} /\ props[m[Len(m)]] \in Scalar
    <2> TAKE m \in member
    <2>1. PICK n \in DOMAIN props : m = Append(p, n)
      BY DEF member
    <2>2. n \in Name
      BY <1>0
    <2>3. m \in Path /\ Above(m) = Above(p) \cup {p} /\ m[Len(m)] = n
      BY <1>0, <2>1, <2>2, AboveMember
    <2> QED BY <1>0, <2>3
  <1>4. /\ DOMAIN u = DOMAIN clean \cup member
        /\ \A q \in DOMAIN u : u[q] = IF q \in member THEN props[q[Len(q)]] ELSE clean[q]
        /\ u = [q \in DOMAIN u |-> u[q]]
    BY DEF AssignStruct
  <1> HIDE DEF u, clean, member
  <1>5. u \in [DOMAIN u -> Scalar \cup {Null, Object, Array}]
    BY <1>1, <1>3, <1>4 DEF IsTree
  <1>6. DOMAIN u \subseteq Path /\ <<>> \in DOMAIN u
    <2>1. \A q \in DOMAIN clean : q \in Path
      BY <1>1 DEF IsTree
    <2>2. <<>> \in DOMAIN clean
      BY <1>1 DEF IsTree
    <2> QED BY ONLY <1>3, <1>4, <2>1, <2>2
  <1>7. ASSUME NEW q \in DOMAIN u, NEW r \in Above(q) PROVE r \in DOMAIN u /\ u[r] = Object
    <2>1. r \in DOMAIN clean /\ clean[r] = Object
      BY <1>1, <1>2, <1>3, <1>4 DEF IsTree
    <2>2. r \notin member
      <3>1. CASE q \in DOMAIN clean
        <4>1. p \notin Above(q) /\ q \in Path
          BY <1>1, <1>2, <3>1 DEF IsTree
        <4> QED BY <1>3, <4>1, AboveTransitive
      <3>2. CASE q \in member
        <4>1. r \in Above(p) \cup {p}
          BY <1>3, <3>2
        <4>2. r \notin member
          BY <1>0, <1>3, <4>1, AboveTransitive, NotAboveItself
        <4> QED BY <4>2
      <3> QED BY <1>4, <3>1, <3>2
    <2> QED BY <1>4, <2>1, <2>2
  <1> QED BY <1>5, <1>6, <1>7 DEF IsTree, u

(***************************************************************************)
(* Room: what the program writes below a node finds no value there         *)
(***************************************************************************)
LEMMA FindAllRoom ==
  ASSUME NEW t, IsTree(t), NEW ps \in SUBSET Path, \A p \in ps : Len(p) \in 0..3
  PROVE  /\ \A p : ~Throws(t, p) => ~Throws(FindAll(t, ps), p)
         /\ ~Refused(t) => ~Refused(FindAll(t, ps))
         /\ GeometryPath \notin ps =>
              /\ Ready(t) => Ready(FindAll(t, ps))
              /\ SavedGeometry(FindAll(t, ps)) = SavedGeometry(t)
  <1>1. \A p : ~Throws(t, p) => ~Throws(FindAll(t, ps), p)
    BY FindAllValues DEF Throws
  <1>2. ~Refused(t) => ~Refused(FindAll(t, ps))
    BY <1>1 DEF Refused
  <1>3. GeometryPath \notin ps => SavedGeometry(FindAll(t, ps)) = SavedGeometry(t)
    BY FindAllValues DEF SavedGeometry
  <1>4. GeometryPath \notin ps /\ Ready(t) => Ready(FindAll(t, ps))
    <2>1. GeometryPath \notin ps /\ ~NotAString(t, GeometryPath) =>
            ~NotAString(FindAll(t, ps), GeometryPath)
      BY FindAllValues DEF NotAString
    <2> QED BY <1>1, <1>2, <2>1 DEF Ready
  <1> QED BY <1>1, <1>2, <1>3, <1>4

\* only the upper nodes of a tree decide whether a short path has room
LEMMA UpperNodesDecide ==
  ASSUME NEW t, NEW u, NEW p \in Path, Len(p) \in 0..3, ~Throws(t, p),
         \A q \in DOMAIN u : q \in Path /\ Len(q) \in 0..2 => q \in DOMAIN t /\ u[q] = t[q]
  PROVE  ~Throws(u, p)
  <1>1. \A q \in Above(p) : q \in Path /\ Len(q) \in 0..2
    BY AboveIsUpper
  <1> QED BY <1>1 DEF Throws

LEMMA SetByPathKeepsRoom ==
  ASSUME NEW t, IsTree(t), Ready(t), NEW p \in SetPath, NEW props \in Props
  PROVE  LET u == AssignStruct(FindAll(t, {p}), p, props)
         IN  IsTree(u) /\ Ready(u) /\ SavedGeometry(u) = SavedGeometry(t)
  <1> DEFINE f == FindAll(t, {p})
             member == {Append(p, n) : n \in DOMAIN props}
             u == AssignStruct(f, p, props)
  <1>0. /\ p \in Path /\ Len(p) = 3 /\ p # GeometryPath /\ {p} \in SUBSET Path
        /\ GeometryPath \notin {p} /\ Len(GeometryPath) = 3 /\ GeometryPath \in Path
    BY Paths
  <1>1. IsTree(f) /\ Ready(f) /\ SavedGeometry(f) = SavedGeometry(t) /\ p \in DOMAIN f
    <2>1. \A q \in {p} : Len(q) \in 0..3
      <3>1. 3 \in 0..3
        OBVIOUS
      <3> HIDE DEF u, f, member
      <3> QED BY ONLY <1>0, <3>1
    <2>2. p \in DOMAIN f
      BY DEF FindAll
    <2> QED BY <1>0, <2>1, <2>2, FindAllTree, FindAllRoom
  <1>2. \A m \in member : Len(m) = 4
    <2> TAKE m \in member
    <2>1. PICK n \in DOMAIN props : m = Append(p, n)
      BY DEF member
    <2>2. n \in Name
      BY FileAssumption
    <2>3. Len(m) = Len(p) + 1
      BY <1>0, <2>1, <2>2, AboveMember
    <2> QED BY <1>0, <2>3
  <1>3. /\ DOMAIN u = (DOMAIN f \ Below(f, p)) \cup member
        /\ \A q \in DOMAIN u : q \notin member /\ q # p => u[q] = f[q]
    BY DEF AssignStruct, Assign
  <1>4. IsTree(u)
    BY <1>1, AssignStructTree
  <1> HIDE DEF u, f, member
  <1>5. \A q \in DOMAIN u : q \in Path /\ Len(q) \in 0..2 => q \in DOMAIN f /\ u[q] = f[q]
    <2> TAKE q \in DOMAIN u
    <2>1. Len(q) \in 0..2 => q \notin member /\ q # p
      <3>1. 3 \notin 0..2 /\ 4 \notin 0..2
        OBVIOUS
      <3> QED BY ONLY <1>0, <1>2, <3>1
    <2> QED BY <1>3, <2>1
  <1>6. \A r \in RequiredPath \cup {GeometryPath} : ~Throws(u, r)
    <2> TAKE r \in RequiredPath \cup {GeometryPath}
    <2>1. ~Throws(f, r)
      BY <1>1 DEF Ready, Refused
    <2>2. r \in Path /\ Len(r) \in 0..3
      BY Paths
    <2> QED BY <1>5, <2>1, <2>2, UpperNodesDecide
  <1>7. /\ GeometryPath \in DOMAIN u <=> GeometryPath \in DOMAIN f
        /\ GeometryPath \in DOMAIN u => u[GeometryPath] = f[GeometryPath]
    <2>1. GeometryPath \notin member
      BY <1>0, <1>2
    <2>2. GeometryPath \notin Below(f, p)
      <3>1. ASSUME p \in Above(GeometryPath) PROVE FALSE
        <4>1. Len(p) < Len(GeometryPath)
          BY <1>0, <3>1, AboveIsShorter
        <4> QED BY <1>0, <4>1
      <3> QED BY <3>1 DEF Below
    <2> QED BY <1>0, <1>3, <2>1, <2>2
  <1>8. Ready(u)
    BY <1>1, <1>6, <1>7 DEF Ready, Refused, NotAString
  <1>9. SavedGeometry(u) = SavedGeometry(t)
    BY <1>1, <1>7 DEF SavedGeometry
  <1> QED BY <1>4, <1>8, <1>9 DEF u, f

LEMMA CloseKeepsRoom ==
  ASSUME NEW t, IsTree(t), Ready(t), NEW w \in Geometry
  PROVE  LET u == Assign(FindAll(t, {GeometryPath}), GeometryPath, w)
         IN  IsTree(u) /\ Ready(u) /\ SavedGeometry(u) = w
  <1> DEFINE f == FindAll(t, {GeometryPath})
             u == Assign(f, GeometryPath, w)
  <1>0. /\ {GeometryPath} \in SUBSET Path /\ GeometryPath \in Path /\ Len(GeometryPath) = 3
        /\ w \in Scalar /\ w \notin {Object, Array}
    BY Paths, ValueAssumption
  <1>1. IsTree(f) /\ GeometryPath \in DOMAIN f /\ \A r : ~Throws(t, r) => ~Throws(f, r)
    <2>1. \A q \in {GeometryPath} : Len(q) \in 0..3
      <3>1. 3 \in 0..3
        OBVIOUS
      <3> HIDE DEF u, f
      <3> QED BY ONLY <1>0, <3>1
    <2>2. GeometryPath \in DOMAIN f
      BY DEF FindAll
    <2> QED BY <1>0, <2>1, <2>2, FindAllTree, FindAllRoom
  <1>2. IsTree(u)
    BY <1>0, <1>1, AssignTree
  <1>3. GeometryPath \in DOMAIN u /\ u[GeometryPath] = w
    BY <1>0, <1>1, NotAboveItself DEF Assign, Below
  <1>4. \A q \in DOMAIN u : q # GeometryPath => q \in DOMAIN f /\ u[q] = f[q]
    BY DEF Assign
  <1> HIDE DEF u, f
  <1>5. \A q \in DOMAIN u : q \in Path /\ Len(q) \in 0..2 => q \in DOMAIN f /\ u[q] = f[q]
    BY <1>0, <1>4
  <1>6. \A r \in RequiredPath \cup {GeometryPath} : ~Throws(u, r)
    <2> TAKE r \in RequiredPath \cup {GeometryPath}
    <2>1. ~Throws(f, r)
      BY <1>1 DEF Ready, Refused
    <2>2. r \in Path /\ Len(r) \in 0..3
      BY Paths
    <2> QED BY <1>5, <2>1, <2>2, UpperNodesDecide
  <1>7. Ready(u)
    BY <1>0, <1>3, <1>6 DEF Ready, Refused, NotAString
  <1>8. SavedGeometry(u) = w
    BY <1>3 DEF SavedGeometry
  <1> QED BY <1>2, <1>7, <1>8 DEF u, f

(***************************************************************************)
(* The stack of undo                                                       *)
(***************************************************************************)
LEMMA SeqOverItself ==
  ASSUME NEW S, NEW s \in Seq(S)
  PROVE  s \in Seq({s[i] : i \in DOMAIN s})
  <1> DEFINE R == {s[i] : i \in DOMAIN s}
  <1>1. Len(s) \in Nat /\ DOMAIN s = 1..Len(s) /\ s = [i \in 1..Len(s) |-> s[i]]
    BY LenProperties
  <1>2. \A i \in 1..Len(s) : s[i] \in R
    BY <1>1
  <1> QED BY <1>1, <1>2

LEMMA UndoTypes ==
  TypeOK => /\ Len(undo) \in Nat /\ Len(undo) <= MaxUndo
            /\ undo \in Seq({undo[i] : i \in DOMAIN undo})
            /\ \A i \in 1..Len(undo) : IsTree(undo[i])
  BY LenProperties DEF TypeOK, IsStack

LEMMA Saved ==
  ASSUME TypeOK, Len(undo) < MaxUndo, undo' = Append(undo, tree)
  PROVE  /\ IsStack(undo')
         /\ \A i \in 1..Len(undo') : undo'[i] = tree \/ (i \in 1..Len(undo) /\ undo'[i] = undo[i])
  <1> DEFINE S == {undo[i] : i \in DOMAIN undo} \cup {tree}
  <1>1. undo \in Seq(S) /\ tree \in S
    BY UndoTypes, SeqMonotonic
  <1>2. /\ undo' \in Seq(S) /\ Len(undo') = Len(undo) + 1 /\ Len(undo) \in Nat
        /\ undo'[Len(undo) + 1] = tree /\ \A i \in 1..Len(undo) : undo'[i] = undo[i]
    BY <1>1, AppendProperties, LenProperties
  <1>3. undo' \in Seq({undo'[i] : i \in DOMAIN undo'})
    BY <1>2, SeqOverItself
  <1> HIDE DEF S
  <1>4. Len(undo') <= MaxUndo
    BY <1>2, FileAssumption
  <1>5. \A i \in 1..Len(undo') : undo'[i] = tree \/ (i \in 1..Len(undo) /\ undo'[i] = undo[i])
    BY <1>2
  <1>6. \A i \in 1..Len(undo') : IsTree(undo'[i])
    BY <1>5, UndoTypes DEF TypeOK
  <1> QED BY <1>3, <1>4, <1>5, <1>6 DEF IsStack

LEMMA Popped ==
  ASSUME TypeOK, undo # <<>>, undo' = SubSeq(undo, 1, Len(undo) - 1)
  PROVE  /\ IsStack(undo')
         /\ \A i \in 1..Len(undo') : i \in 1..Len(undo) /\ undo'[i] = undo[i]
         /\ Len(undo) \in 1..Len(undo)
  <1> DEFINE S == {undo[i] : i \in DOMAIN undo}
  <1>1. undo \in Seq(S) /\ Len(undo) \in Nat \ {0} /\ \A i \in 1..Len(undo) : undo[i] \in S
    BY UndoTypes, EmptySeq, LenProperties
  <1>2. /\ undo' \in Seq(S) /\ Len(undo') = Len(undo) - 1
        /\ \A i \in 1..(Len(undo) - 1) : undo'[i] = undo[i]
    <2> HIDE DEF S
    <2> DEFINE n == Len(undo) - 1
    <2>1. n \in Nat /\ undo' = SubSeq(undo, 1, n) /\ \A i \in 1..n : undo[i] \in S
      BY <1>1
    <2> HIDE DEF n
    <2>2. /\ undo' \in Seq(S) /\ Len(undo') = IF 1 <= n THEN n - 1 + 1 ELSE 0
          /\ \A i \in 1..(n - 1 + 1) : undo'[i] = undo[1 + i - 1]
      BY <2>1, SubSeqProperties
    <2>3. Len(undo') = n /\ n - 1 + 1 = n
      BY <2>1, <2>2
    <2>4. \A i \in 1..n : 1 + i - 1 = i
      BY <2>1
    <2>5. \A i \in 1..n : undo'[i] = undo[i]
      BY <2>2, <2>3, <2>4
    <2> QED BY <2>2, <2>3, <2>5 DEF n
  <1>3. undo' \in Seq({undo'[i] : i \in DOMAIN undo'})
    <2> HIDE DEF S
    <2>1. undo' \in Seq(S)
      BY <1>2
    <2> QED BY ONLY <2>1, SeqOverItself
  <1>4. Len(undo') <= MaxUndo
    BY <1>1, <1>2, UndoTypes, FileAssumption
  <1> HIDE DEF S
  <1>5. \A i \in 1..Len(undo') : i \in 1..Len(undo) /\ undo'[i] = undo[i]
    BY <1>1, <1>2
  <1>6. \A i \in 1..Len(undo') : IsTree(undo'[i])
    BY <1>5, UndoTypes
  <1> QED BY <1>1, <1>3, <1>4, <1>5, <1>6 DEF IsStack

LEMMA NoUndo == IsStack(<<>>) /\ 1..Len(<<>>) = {}
  <1>1. <<>> \in Seq({}) /\ Len(<<>>) = 0
    OBVIOUS
  <1>2. <<>> \in Seq({<<>>[i] : i \in DOMAIN <<>>})
    BY <1>1, SeqOverItself
  <1> QED BY <1>1, <1>2, FileAssumption DEF IsStack

(***************************************************************************)
(* The trees a start may find and make                                     *)
(***************************************************************************)
LEMMA EmptyTree == IsTree(Empty) /\ Ready(Empty) /\ SavedGeometry(Empty) = NoGeometry
  <1>1. DOMAIN Empty = {<<>>} /\ Empty[<<>>] = Null /\ Empty = [p \in DOMAIN Empty |-> Empty[p]]
    BY DEF Empty
  <1>2. IsTree(Empty)
    BY <1>1, NothingAboveRoot DEF IsTree
  <1>3. \A p : ~Throws(Empty, p)
    BY <1>1 DEF Throws
  <1>4. GeometryPath \notin DOMAIN Empty
    BY <1>1, Paths
  <1> QED BY <1>2, <1>3, <1>4 DEF Ready, Refused, NotAString, SavedGeometry

\* a file that is there has a root
LEMMA AbsentIsNoTree == ~IsTree(Absent)
  BY DEF Absent, IsTree

LEMMA RequiredTree ==
  ASSUME NEW t, IsTree(t)
  PROVE  LET u == FindAll(t, RequiredPath)
         IN  /\ IsTree(u) /\ SavedGeometry(u) = SavedGeometry(t)
             /\ ~Refused(t) => ~Refused(u)
             /\ Ready(t) => Ready(u)
  <1>1. RequiredPath \in SUBSET Path /\ \A p \in RequiredPath : Len(p) \in 0..3
    BY Paths
  <1> QED BY <1>1, FindAllTree, FindAllRoom, Paths

LEMMA SavedGeometryType == \A t : SavedGeometry(t) \in Geometry \cup {NoGeometry}
  BY DEF SavedGeometry

(***************************************************************************)
(* The invariant                                                           *)
(***************************************************************************)
LEMMA InvInit == Init => IInv
  <1> SUFFICES ASSUME Init PROVE IInv
    OBVIOUS
  <1>1. Whole(file) => IsTree(file)
    BY FileAssumption DEF Init, Whole
  <1>2. TypeOK
    BY <1>1, EmptyTree, NoUndo, SavedGeometryType DEF Init, TypeOK
  <1>3. StartInv
    BY DEF Init, StartInv, Starting, FlushTo
  <1>4. RoomInv
    BY DEF Init, RoomInv, Running, Closing, FlushTo
  <1>5. OwnFileIsGood
    BY DEF Init, OwnFileIsGood
  <1>6. GeometryInv
    BY DEF Init, GeometryInv, Starting, Running, Closing, FlushTo, Whole
  <1> QED BY <1>2, <1>3, <1>4, <1>5, <1>6 DEF IInv

LEMMA TypeStep ==
  ASSUME TypeOK, RoomInv, [Next]_vars
  PROVE  TypeOK'
  <1>0. /\ Whole(file) => IsTree(file)
        /\ IsTree(tree) /\ IsTree(loaded) /\ IsStack(undo)
        /\ window \in Geometry /\ lastGeometry \in Geometry \cup {NoGeometry}
    BY DEF TypeOK
  <1>1. CASE UserEdits
    BY <1>0, <1>1, FileAssumption, SavedGeometryType DEF UserEdits, TypeOK, Whole
  <1>2. CASE Load
    <2>1. IsTree(tree')
      BY <1>0, <1>2, EmptyTree DEF Load, Parses, Whole
    <2> QED BY <1>2, <2>1, NoUndo DEF Load, TypeOK
  <1>3. CASE CheckRequiredNodes
    BY <1>0, <1>3, RequiredTree DEF CheckRequiredNodes, TypeOK
  <1>4. CASE ReadSettings
    BY <1>4, SavedGeometryType DEF ReadSettings, TypeOK
  <1>5. CASE LoadRefused \/ CheckRefused \/ ReadSettingsTerminates \/ ShowError \/ Crash
    BY <1>5 DEF LoadRefused, CheckRefused, ReadSettingsTerminates, ShowError, Crash, TypeOK
  <1>6. CASE Flush
    <2>1. Whole(file') => IsTree(file')
      BY <1>0, <1>6 DEF Flush, Truncate, OpenFails, Write, WriteFails, Whole
    <2> QED BY <1>6, <2>1 DEF Flush, Truncate, OpenFails, Write, WriteFails, TypeOK
  <1>7. CASE MoveWindow
    BY <1>7 DEF MoveWindow, TypeOK
  <1>8. ASSUME NEW p \in SetPath, NEW props \in Props, SetByPath(p, props) PROVE TypeOK'
    <2>1. Ready(tree)
      BY <1>8 DEF SetByPath, RoomInv, Running
    <2>2. IsTree(tree')
      BY <1>0, <1>8, <2>1, SetByPathKeepsRoom DEF SetByPath
    <2> QED BY <1>8, <2>2 DEF SetByPath, FlushThen, TypeOK
  <1>9. CASE SaveCurrentPropertySet
    BY <1>9, Saved DEF SaveCurrentPropertySet, TypeOK
  <1>10. CASE Undo
    <2>1. IsTree(tree') /\ IsStack(undo')
      BY <1>10, Popped, UndoTypes DEF Undo
    <2> QED BY <1>10, <2>1 DEF Undo, FlushThen, TypeOK
  <1>11. CASE ClearUndo
    BY <1>11, NoUndo DEF ClearUndo, TypeOK
  <1>12. CASE Close
    <2>1. IsTree(tree')
      BY <1>0, <1>12, CloseKeepsRoom DEF Close, RoomInv, Running
    <2> QED BY <1>12, <2>1 DEF Close, FlushThen, TypeOK
  <1>13. CASE UNCHANGED vars
    BY <1>13 DEF vars, TypeOK
  <1> QED BY <1>1, <1>2, <1>3, <1>4, <1>5, <1>6, <1>7, <1>8, <1>9, <1>10, <1>11, <1>12, <1>13 DEF Next

LEMMA StartStep ==
  ASSUME TypeOK, StartInv, OwnFileIsGood, [Next]_vars
  PROVE  StartInv'
  <1> USE DEF Starting, FlushTo
  <1>1. CASE UserEdits
    BY <1>1 DEF UserEdits, StartInv
  <1>2. CASE Load
    <2>1. Whole(file) => file = loaded'
      BY <1>2 DEF Load, Parses, Whole
    <2>2. ours => Ready(loaded')
      BY <1>2, <2>1 DEF Load, Parses, StartInv, Whole, OwnFileIsGood
    <2> QED BY <1>2, <2>1, <2>2 DEF Load, Parses, Whole, StartInv
  <1>3. CASE CheckRequiredNodes
    BY <1>3 DEF CheckRequiredNodes, StartInv
  <1>4. CASE Flush
    <2>1. CASE Truncate
      BY <2>1, FileAssumption DEF Truncate, StartInv, Whole
    <2>2. CASE OpenFails \/ WriteFails
      BY <2>2 DEF OpenFails, WriteFails, StartInv, TypeOK
    <2>3. CASE Write
      <3>1. file' # Absent
        BY <2>3, AbsentIsNoTree DEF Write, TypeOK
      <3> QED BY <2>3, <3>1 DEF Write, StartInv, TypeOK
    <2> QED BY <1>4, <2>1, <2>2, <2>3 DEF Flush
  <1>5. CASE LoadRefused \/ CheckRefused \/ ReadSettings \/ ReadSettingsTerminates \/ ShowError \/ Crash
    BY <1>5 DEF LoadRefused, CheckRefused, ReadSettings, ReadSettingsTerminates, ShowError,
                Crash, StartInv
  <1>6. CASE MoveWindow \/ SaveCurrentPropertySet \/ Undo \/ ClearUndo \/ Close
    BY <1>6 DEF MoveWindow, SaveCurrentPropertySet, Undo, ClearUndo, Close, FlushThen, StartInv
  <1>7. ASSUME NEW p \in SetPath, NEW props \in Props, SetByPath(p, props) PROVE StartInv'
    BY <1>7 DEF SetByPath, FlushThen, StartInv
  <1>8. CASE UNCHANGED vars
    BY <1>8 DEF vars, StartInv
  <1> QED BY <1>1, <1>2, <1>3, <1>4, <1>5, <1>6, <1>7, <1>8 DEF Next

LEMMA RoomStep ==
  ASSUME TypeOK, StartInv, RoomInv, [Next]_vars
  PROVE  RoomInv'
  <1> USE DEF Running, Closing, FlushTo
  <1>1. CASE UserEdits \/ Load \/ LoadRefused \/ CheckRefused \/ ReadSettingsTerminates \/ ShowError \/ Crash
    BY <1>1 DEF UserEdits, Load, LoadRefused, CheckRefused, ReadSettingsTerminates, ShowError,
                Crash, RoomInv
  <1>2. CASE CheckRequiredNodes
    BY <1>2 DEF CheckRequiredNodes, RoomInv
  <1>3. CASE ReadSettings
    <2>1. ~Refused(tree) /\ undo = <<>>
      BY <1>3, RequiredTree DEF ReadSettings, StartInv, Starting, TypeOK
    <2>2. Ready(tree)
      BY <1>3, <2>1 DEF ReadSettings, ReadThrows, Ready
    <2> QED BY <1>3, <2>1, <2>2, NoUndo DEF ReadSettings, RoomInv
  <1>4. CASE Flush
    BY <1>4 DEF Flush, Truncate, OpenFails, Write, WriteFails, RoomInv, TypeOK
  <1>5. CASE MoveWindow
    BY <1>5 DEF MoveWindow, RoomInv
  <1>6. ASSUME NEW p \in SetPath, NEW props \in Props, SetByPath(p, props) PROVE RoomInv'
    <2>1. Ready(tree')
      BY <1>6, SetByPathKeepsRoom DEF SetByPath, RoomInv, TypeOK
    <2> QED BY <1>6, <2>1 DEF SetByPath, FlushThen, RoomInv
  <1>7. CASE SaveCurrentPropertySet
    BY <1>7, Saved DEF SaveCurrentPropertySet, RoomInv
  <1>8. CASE Undo
    <2>1. /\ Len(undo) \in 1..Len(undo)
          /\ \A i \in 1..Len(undo') : i \in 1..Len(undo) /\ undo'[i] = undo[i]
      BY <1>8, Popped DEF Undo
    <2> QED BY <1>8, <2>1 DEF Undo, FlushThen, RoomInv
  <1>9. CASE ClearUndo
    BY <1>9, NoUndo DEF ClearUndo, RoomInv
  <1>10. CASE Close
    <2>1. Ready(tree')
      BY <1>10, CloseKeepsRoom DEF Close, RoomInv, TypeOK
    <2> QED BY <1>10, <2>1 DEF Close, FlushThen, RoomInv
  <1>11. CASE UNCHANGED vars
    BY <1>11 DEF vars, RoomInv
  <1> QED BY <1>1, <1>2, <1>3, <1>4, <1>5, <1>6, <1>7, <1>8, <1>9, <1>10, <1>11 DEF Next

LEMMA OwnFileStep ==
  ASSUME TypeOK, StartInv, RoomInv, OwnFileIsGood, [Next]_vars
  PROVE  OwnFileIsGood'
  <1>1. CASE UserEdits
    BY <1>1 DEF UserEdits, OwnFileIsGood
  <1>2. CASE Truncate
    BY <1>2 DEF Truncate, OwnFileIsGood, Whole
  <1>3. CASE Write
    <2>1. CASE after = "readSettings"
      <3>1. ours => Ready(tree)
        BY <1>3, <2>1, RequiredTree DEF Write, StartInv, Starting, FlushTo, TypeOK
      <3> QED BY <1>3, <2>1, <3>1 DEF Write, OwnFileIsGood
    <2>2. CASE after \in {"off", "run"}
      BY <1>3, <2>2 DEF Write, RoomInv, Running, Closing, FlushTo, OwnFileIsGood
    <2> QED BY <2>1, <2>2 DEF TypeOK
  <1>4. CASE UNCHANGED <<file, ours>>
    BY <1>4 DEF OwnFileIsGood
  <1>5. [Next]_vars => UserEdits \/ Truncate \/ Write \/ UNCHANGED <<file, ours>>
    BY DEF Next, Flush, Load, LoadRefused, CheckRequiredNodes, CheckRefused, ReadSettings,
           ReadSettingsTerminates, ShowError, OpenFails, WriteFails, MoveWindow, SetByPath,
           SaveCurrentPropertySet, Undo, ClearUndo, Close, Crash, vars
  <1> QED BY <1>1, <1>2, <1>3, <1>4, <1>5

LEMMA GeometryStep ==
  ASSUME TypeOK, StartInv, RoomInv, GeometryInv, [Next]_vars
  PROVE  GeometryInv'
  <1> USE DEF Starting, Running, Closing, FlushTo
  <1>1. CASE UserEdits
    BY <1>1 DEF UserEdits, GeometryInv, Whole
  <1>2. CASE Load
    <2>1. SavedGeometry(tree') = lastGeometry
      BY <1>2, EmptyTree DEF Load, Parses, GeometryInv, Whole
    <2> QED BY <1>2, <2>1 DEF Load, Parses, Whole, GeometryInv
  <1>3. CASE CheckRequiredNodes
    <2>1. SavedGeometry(tree') = SavedGeometry(tree)
      BY <1>3, RequiredTree DEF CheckRequiredNodes, TypeOK
    <2> QED BY <1>3, <2>1 DEF CheckRequiredNodes, GeometryInv
  <1>4. CASE ReadSettings
    <2>1. undo' = <<>>
      BY <1>4 DEF ReadSettings, StartInv
    <2> QED BY <1>4, <2>1, NoUndo DEF ReadSettings, GeometryInv
  <1>5. CASE LoadRefused \/ CheckRefused \/ ReadSettingsTerminates \/ ShowError \/ Crash
    BY <1>5 DEF LoadRefused, CheckRefused, ReadSettingsTerminates, ShowError, Crash, GeometryInv
  <1>6. CASE Flush
    <2>1. CASE Truncate
      BY <2>1, FileAssumption DEF Truncate, GeometryInv, Whole
    <2>2. CASE OpenFails \/ WriteFails
      BY <2>2 DEF OpenFails, WriteFails, GeometryInv, TypeOK
    <2>3. CASE Write
      <3>1. file' # Absent
        BY <2>3, AbsentIsNoTree DEF Write, TypeOK
      <3>2. SavedGeometry(tree) = lastGeometry'
        BY <2>3 DEF Write, GeometryInv, TypeOK
      <3>3. file' = tree
        BY <2>3 DEF Write
      <3> QED BY <2>3, <3>1, <3>2, <3>3 DEF Write, GeometryInv, TypeOK
    <2> QED BY <1>6, <2>1, <2>2, <2>3 DEF Flush
  <1>7. CASE MoveWindow
    BY <1>7 DEF MoveWindow, GeometryInv
  <1>8. ASSUME NEW p \in SetPath, NEW props \in Props, SetByPath(p, props) PROVE GeometryInv'
    <2>1. SavedGeometry(tree') = SavedGeometry(tree)
      BY <1>8, SetByPathKeepsRoom DEF SetByPath, RoomInv, TypeOK
    <2> QED BY <1>8, <2>1 DEF SetByPath, FlushThen, GeometryInv
  <1>9. CASE SaveCurrentPropertySet
    BY <1>9, Saved DEF SaveCurrentPropertySet, GeometryInv
  <1>10. CASE Undo
    <2>1. /\ Len(undo) \in 1..Len(undo)
          /\ \A i \in 1..Len(undo') : i \in 1..Len(undo) /\ undo'[i] = undo[i]
      BY <1>10, Popped DEF Undo
    <2> QED BY <1>10, <2>1 DEF Undo, FlushThen, GeometryInv
  <1>11. CASE ClearUndo
    BY <1>11, NoUndo DEF ClearUndo, GeometryInv
  <1>12. CASE Close
    <2>1. SavedGeometry(tree') = window
      BY <1>12, CloseKeepsRoom DEF Close, RoomInv, TypeOK
    <2> QED BY <1>12, <2>1 DEF Close, FlushThen, GeometryInv
  <1>13. CASE UNCHANGED vars
    BY <1>13 DEF vars, GeometryInv
  <1> QED BY <1>1, <1>2, <1>3, <1>4, <1>5, <1>6, <1>7, <1>8, <1>9, <1>10, <1>11, <1>12, <1>13 DEF Next

LEMMA InvStep == IInv /\ [Next]_vars => IInv'
  BY TypeStep, StartStep, RoomStep, OwnFileStep, GeometryStep DEF IInv

(***************************************************************************)
(* What the user may count on                                              *)
(***************************************************************************)
LEMMA Invariance == Spec => []IInv
  BY InvInit, InvStep, PTL DEF Spec

\* Whatever is set, undone, edited or lost, every value of the store is a tree.
THEOREM TypeCorrect == Spec => []TypeOK
  <1>1. IInv => TypeOK
    BY DEF IInv
  <1> QED BY <1>1, Invariance, PTL

\* The window can always be closed: SaveGeometry does not throw (TestExecutor.cpp:117).
THEOREM ClosingIsSafe == Spec => []CloseNeverThrows
  <1>1. IInv => CloseNeverThrows
    BY DEF IInv, RoomInv, Running, Ready, CloseNeverThrows
  <1> QED BY <1>1, Invariance, PTL

\* The flush of a start changes no value of the file (AppConfig.cpp:191-205).
THEOREM StartIsHarmless == Spec => []StartKeepsValues
  <1>1. IInv => StartKeepsValues
    <2> SUFFICES ASSUME IInv, pc = "readSettings", Whole(file) PROVE StartKeepsValues
      BY DEF StartKeepsValues
    <2> DEFINE new == FindAll(loaded, RequiredPath)
    <2>1. IsTree(loaded) /\ ~Refused(loaded) /\ file \in {loaded, new}
      BY DEF IInv, TypeOK, StartInv, Starting
    <2>2. /\ RequiredPath \in SUBSET Path /\ \A p \in RequiredPath : Len(p) \in 0..3
      BY Paths
    <2>3. \A q \in DOMAIN new : new[q] \in {Null, Object} \/ (q \in DOMAIN loaded /\ new[q] = loaded[q])
      BY <2>1, <2>2, FindAllValues
    <2>4. DOMAIN loaded \subseteq DOMAIN new
      BY DEF FindAll
    <2>5. ASSUME NEW p \in DOMAIN loaded, loaded[p] # Null PROVE new[p] = loaded[p]
      <3>1. CASE p \in AboveAll(RequiredPath)
        <4>1. PICK r \in RequiredPath : p \in Above(r)
          BY <3>1 DEF AboveAll
        <4>2. loaded[p] \in {Null, Object}
          BY <2>1, <4>1 DEF Refused, Throws
        <4> QED BY <2>5, <3>1, <4>2 DEF FindAll
      <3>2. CASE p \notin AboveAll(RequiredPath)
        BY <3>2 DEF FindAll
      <3> QED BY <3>1, <3>2
    <2> HIDE DEF new
    <2> QED BY <2>1, <2>3, <2>4, <2>5 DEF StartKeepsValues
  <1> QED BY <1>1, Invariance, PTL

\* A started program never writes a file that a later start refuses.
THEOREM NobodyIsLockedOut == Spec => []OwnFileIsGood
  <1>1. IInv => OwnFileIsGood
    BY DEF IInv
  <1> QED BY <1>1, Invariance, PTL

\* The window comes back where it was (TestExecutor.cpp:103-126).
THEOREM GeometryIsRestored == Spec => GeometryComesBack
  <1>1. /\ IInv /\ [Next]_vars
        => [pc = "readSettings" /\ pc' = "run" /\ lastGeometry \in Geometry
              => window' = lastGeometry]_vars
    <2> SUFFICES ASSUME IInv, Next, pc = "readSettings", pc' = "run", lastGeometry \in Geometry
                 PROVE  window' = lastGeometry
      BY DEF vars
    <2>1. ReadSettings
      BY DEF Next, UserEdits, Load, LoadRefused, CheckRequiredNodes, CheckRefused,
             ReadSettingsTerminates, ShowError, Flush, Truncate, OpenFails, Write, WriteFails,
             MoveWindow, SetByPath, SaveCurrentPropertySet, Undo, ClearUndo, Close, Crash
    <2>2. SavedGeometry(tree) = lastGeometry /\ lastGeometry # NoGeometry
      BY ValueAssumption DEF IInv, GeometryInv, Starting
    <2> QED BY <2>1, <2>2 DEF ReadSettings
  <1> QED BY <1>1, Invariance, PTL DEF Spec, GeometryComesBack
===============================================================================
