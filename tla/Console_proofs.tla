----------------------------- MODULE Console_proofs -----------------------------
(***************************************************************************)
(* Proofs about the two consoles.  QConsole, for any texts, prompt and     *)
(* width: the cursor stays in the text, what stands before the edition     *)
(* zone is protected, and what is recorded and recalled is what is shown.  *)
(* ExternalProcess, the process behind Console: a stopped process is gone  *)
(* and the output is in order, whatever the threads' order was.            *)
(***************************************************************************)
EXTENDS QConsole, ExternalProcess, SequenceTheorems, FunctionTheorems, FiniteSetTheorems, TLAPS

-------------------------------------------------------------------------------
(***************************************************************************)
(* Least and greatest numbers                                              *)
(***************************************************************************)
LEMMA LeastNumber ==
  ASSUME NEW T, T \subseteq Nat, T # {}
  PROVE  \E n \in T : \A m \in T : n <= m
<1> DEFINE U == {0..n : n \in T}
<1>1. IsWellFoundedOn(StrictSubsetOrdering(Nat), FiniteSubsetsOf(Nat))
  BY FS_StrictSubsetOrderingWellFounded
<1>2. U # {}
  OBVIOUS
<1>3. U \subseteq FiniteSubsetsOf(Nat)
  <2> SUFFICES ASSUME NEW n \in T PROVE 0..n \in FiniteSubsetsOf(Nat)
    OBVIOUS
  <2>1. IsFiniteSet(0..n) /\ 0..n \subseteq Nat
    BY FS_Interval
  <2> QED BY <2>1 DEF FiniteSubsetsOf
<1>4. PICK x \in U : \A y \in U : <<y, x>> \notin StrictSubsetOrdering(Nat)
  <2> HIDE DEF U
  <2> QED BY <1>1, <1>2, <1>3, WFMin
<1>5. PICK n \in T : x = 0..n
  BY <1>4
<1>6. ASSUME NEW m \in T, m < n PROVE FALSE
  <2>1. 0..m \subseteq 0..n /\ n \in 0..n /\ n \notin 0..m
    BY <1>6
  <2>2. <<0..m, 0..n>> \in (SUBSET Nat) \X (SUBSET Nat)
    OBVIOUS
  <2>3. <<0..m, 0..n>> \in StrictSubsetOrdering(Nat)
    BY <2>1, <2>2 DEF StrictSubsetOrdering
  <2> QED BY <2>3, <1>4, <1>5
<1> QED BY <1>6

LEMMA MinIs ==
  ASSUME NEW T, T \subseteq Nat, T # {}
  PROVE  Min(T) \in T /\ \A m \in T : Min(T) <= m
BY LeastNumber DEF Min

LEMMA MinUnique ==
  ASSUME NEW T, T \subseteq Nat, NEW n \in T, \A m \in T : n <= m
  PROVE  Min(T) = n
<1>1. Min(T) \in T /\ Min(T) <= n /\ n <= Min(T)
  BY MinIs
<1>2. Min(T) \in Nat /\ n \in Nat
  BY <1>1
<1> QED BY <1>1, <1>2

LEMMA MaxIs ==
  ASSUME NEW n \in Nat, NEW T, T \subseteq 0..n, T # {}
  PROVE  Max(T) \in T /\ \A m \in T : m <= Max(T)
<1> DEFINE U == {n - m : m \in T}
<1>1. U \subseteq Nat /\ U # {}
  <2>1. \A m \in T : n - m \in Nat
    OBVIOUS
  <2> QED BY <2>1
<1>2. PICK k \in U : \A m \in U : k <= m
  <2> HIDE DEF U
  <2> QED BY <1>1, LeastNumber
<1>3. PICK x \in T : k = n - x
  BY <1>2
<1>4. ASSUME NEW m \in T PROVE x >= m
  <2>1. k <= n - m
    BY <1>2
  <2> QED BY <2>1, <1>3
<1> QED BY <1>4 DEF Max

LEMMA MaxUnique ==
  ASSUME NEW k \in Nat, NEW T, T \subseteq 0..k, NEW n \in T, \A m \in T : m <= n
  PROVE  Max(T) = n
<1>1. Max(T) \in T /\ Max(T) <= n /\ n <= Max(T)
  BY MaxIs
<1>2. Max(T) \in 0..k /\ n \in 0..k
  BY <1>1
<1> QED BY <1>1, <1>2

-------------------------------------------------------------------------------
(***************************************************************************)
(* Blocks of a text                                                        *)
(***************************************************************************)
NoBreak(t, from, to) == \A i \in from..to : t[i] # NewLine

LEMMA BlockStartIs ==
  ASSUME NEW t, NEW p \in Nat
  PROVE  /\ BlockStart(t, p) \in 0..p
         /\ BlockStart(t, p) = 0 \/ t[BlockStart(t, p)] = NewLine
         /\ NoBreak(t, BlockStart(t, p) + 1, p)
<1> DEFINE T == Breaks(t, 1, p) \cup {0}
<1>1. T \subseteq 0..p /\ T # {}
  BY DEF Breaks
<1>2. Max(T) \in T /\ \A m \in T : m <= Max(T)
  <2> HIDE DEF T
  <2> QED BY <1>1, MaxIs
<1>3. ASSUME NEW i \in (Max(T) + 1)..p PROVE t[i] # NewLine
  <2>1. i \notin T
    <3>1. Max(T) \in Int
      BY <1>1, <1>2
    <3> HIDE DEF T
    <3> QED BY <3>1, <1>2
  <2>2. i \in 1..p
    BY <1>1, <1>2
  <2> QED BY <2>1, <2>2 DEF Breaks
<1> QED BY <1>1, <1>2, <1>3 DEF BlockStart, NoBreak, Breaks

LEMMA BlockStartUnique ==
  ASSUME NEW t, NEW p \in Nat, NEW b \in 0..p, b = 0 \/ t[b] = NewLine, NoBreak(t, b + 1, p)
  PROVE  BlockStart(t, p) = b
<1> DEFINE T == Breaks(t, 1, p) \cup {0}
<1>1. T \subseteq 0..p /\ b \in T
  BY DEF Breaks
<1>2. ASSUME NEW m \in T PROVE m <= b
  BY <1>1 DEF Breaks, NoBreak
<1> HIDE DEF T
<1>3. Max(T) = b
  BY <1>1, <1>2, MaxUnique
<1> QED BY <1>3 DEF BlockStart, T

LEMMA BlockEndIs ==
  ASSUME NEW t, Len(t) \in Nat, NEW p \in 0..Len(t)
  PROVE  /\ BlockEnd(t, p) \in p..Len(t)
         /\ NoBreak(t, p + 1, BlockEnd(t, p))
         /\ BlockEnd(t, p) = Len(t) \/ t[BlockEnd(t, p) + 1] = NewLine
<1> DEFINE T == {i - 1 : i \in Breaks(t, p + 1, Len(t))} \cup {Len(t)}
<1>1. T \subseteq p..Len(t) /\ T \subseteq Nat /\ T # {}
  BY DEF Breaks
<1>2. Min(T) \in T /\ \A m \in T : Min(T) <= m
  <2> HIDE DEF T
  <2> QED BY <1>1, MinIs
<1>3. ASSUME NEW i \in (p + 1)..Min(T), t[i] = NewLine PROVE FALSE
  <2>1. i \in (p + 1)..Len(t)
    <3>1. Min(T) \in Int /\ Min(T) <= Len(t)
      BY <1>1, <1>2
    <3> HIDE DEF T
    <3> QED BY <3>1
  <2>2. i - 1 \in T
    BY <2>1, <1>3 DEF Breaks
  <2>3. Min(T) <= i - 1
    BY <2>2, <1>2
  <2>4. Min(T) \in Int
    BY <1>1, <1>2
  <2> HIDE DEF T
  <2> QED BY <2>3, <2>4, <1>3
<1>4. Min(T) = Len(t) \/ t[Min(T) + 1] = NewLine
  <2>1. CASE Min(T) \in {i - 1 : i \in Breaks(t, p + 1, Len(t))}
    <3>1. PICK i \in Breaks(t, p + 1, Len(t)) : Min(T) = i - 1
      BY <2>1
    <3>2. i \in Int /\ t[i] = NewLine
      BY DEF Breaks
    <3>3. Min(T) + 1 = i
      BY <3>1, <3>2
    <3> QED BY <3>2, <3>3
  <2> QED BY <2>1, <1>2
<1> QED BY <1>1, <1>2, <1>3, <1>4 DEF BlockEnd, NoBreak

LEMMA BlockEndUnique ==
  ASSUME NEW t, Len(t) \in Nat, NEW p \in 0..Len(t), NoBreak(t, p + 1, Len(t))
  PROVE  BlockEnd(t, p) = Len(t)
<1>1. /\ BlockEnd(t, p) \in p..Len(t)
      /\ BlockEnd(t, p) = Len(t) \/ t[BlockEnd(t, p) + 1] = NewLine
  BY BlockEndIs
<1>2. BlockEnd(t, p) # Len(t) => BlockEnd(t, p) + 1 \in (p + 1)..Len(t)
  BY <1>1
<1> QED BY <1>1, <1>2 DEF NoBreak

LEMMA BreaksFinite ==
  ASSUME NEW t, NEW p \in Nat
  PROVE  IsFiniteSet(Breaks(t, 1, p)) /\ BlockNumber(t, p) \in Nat
<1>1. IsFiniteSet(1..p) /\ Breaks(t, 1, p) \subseteq 1..p
  BY FS_Interval DEF Breaks
<1> QED BY <1>1, FS_Subset, FS_CardinalityType DEF BlockNumber

\* A place further on has no smaller block number, and the same one only without
\* a break between the two.
LEMMA BlockNumbers ==
  ASSUME NEW t, NEW p \in Nat, NEW q \in Nat, p <= q
  PROVE  /\ BlockNumber(t, p) <= BlockNumber(t, q)
         /\ BlockNumber(t, p) = BlockNumber(t, q) <=> NoBreak(t, p + 1, q)
<1>1. IsFiniteSet(Breaks(t, 1, q)) /\ Breaks(t, 1, p) \in SUBSET Breaks(t, 1, q)
  BY BreaksFinite DEF Breaks
<1>2. /\ BlockNumber(t, p) <= BlockNumber(t, q)
      /\ BlockNumber(t, p) = BlockNumber(t, q) => Breaks(t, 1, p) = Breaks(t, 1, q)
  BY <1>1, FS_Subset DEF BlockNumber
<1>3. Breaks(t, 1, p) = Breaks(t, 1, q) <=> NoBreak(t, p + 1, q)
  <2>1. ASSUME Breaks(t, 1, p) = Breaks(t, 1, q), NEW i \in (p + 1)..q PROVE t[i] # NewLine
    BY <2>1 DEF Breaks
  <2>2. ASSUME NoBreak(t, p + 1, q), NEW i \in Breaks(t, 1, q) PROVE i \in Breaks(t, 1, p)
    BY <2>2 DEF Breaks, NoBreak
  <2> QED BY <2>1, <2>2, <1>1 DEF NoBreak
<1> QED BY <1>2, <1>3 DEF BlockNumber

LEMMA SameBlock ==
  ASSUME NEW t, NEW p \in Nat, NEW q \in Nat, p <= q, NoBreak(t, p + 1, q)
  PROVE  BlockStart(t, q) = BlockStart(t, p)
<1>1. /\ BlockStart(t, p) \in 0..p
      /\ BlockStart(t, p) = 0 \/ t[BlockStart(t, p)] = NewLine
      /\ NoBreak(t, BlockStart(t, p) + 1, p)
  BY BlockStartIs
<1>2. NoBreak(t, BlockStart(t, p) + 1, q)
  BY <1>1 DEF NoBreak
<1> QED BY <1>1, <1>2, BlockStartUnique

\* A break between two places separates their blocks.
LEMMA LaterBlock ==
  ASSUME NEW t, NEW p \in Nat, NEW q \in Nat, p <= q, ~NoBreak(t, p + 1, q)
  PROVE  BlockStart(t, q) > p
<1>1. PICK i \in (p + 1)..q : t[i] = NewLine
  BY DEF NoBreak
<1>2. BlockStart(t, q) \in 0..q /\ NoBreak(t, BlockStart(t, q) + 1, q)
  BY BlockStartIs
<1>3. i \notin (BlockStart(t, q) + 1)..q
  BY <1>1, <1>2 DEF NoBreak
<1> QED BY <1>2, <1>3

\* Blocks depend only on the text before the place.
LEMMA SameBefore ==
  ASSUME NEW t, NEW u, NEW p \in Nat, \A i \in 1..p : t[i] = u[i]
  PROVE  BlockNumber(t, p) = BlockNumber(u, p) /\ BlockStart(t, p) = BlockStart(u, p)
<1>1. Breaks(t, 1, p) = Breaks(u, 1, p)
  BY DEF Breaks
<1> QED BY <1>1 DEF BlockNumber, BlockStart

-------------------------------------------------------------------------------
(***************************************************************************)
(* Texts and documents                                                     *)
(***************************************************************************)
Document ==
  {d \in [text : Text, position : Nat, anchor : Nat] :
     d.position <= Len(d.text) /\ d.anchor <= Len(d.text)}

LEMMA TypeIsDocument ==
  ASSUME NEW d \in [text : Text, position : Nat, anchor : Nat]
  PROVE  End(d) <= Len(d.text) <=> d \in Document
<1>1. d.position \in Nat /\ d.anchor \in Nat /\ Len(d.text) \in Nat
  BY LenProperties DEF Text
<1> DEFINE T == {d.position, d.anchor}
<1>2. Max(T) \in T /\ d.position <= Max(T) /\ d.anchor <= Max(T)
  <2>1. d.position + d.anchor \in Nat /\ T \subseteq 0..(d.position + d.anchor)
    BY <1>1
  <2>2. T # {} /\ d.position \in T /\ d.anchor \in T
    OBVIOUS
  <2> HIDE DEF T
  <2> QED BY <2>1, <2>2, MaxIs
<1>3. Max(T) = d.position \/ Max(T) = d.anchor
  BY <1>2
<1>4. End(d) = Max(T)
  BY DEF End
<1> HIDE DEF T
<1>5. End(d) <= Len(d.text) <=> d.position <= Len(d.text) /\ d.anchor <= Len(d.text)
  BY <1>1, <1>2, <1>3, <1>4
<1> QED BY <1>5 DEF Document

\* What the constants contribute to texts.
LEMMA Texts ==
  /\ <<>> \in Text /\ Prompt \in Text /\ Welcome \in Text
  /\ Blank \in Character /\ NewLine \in Character /\ Key \subseteq Character
  /\ \A c \in Character : <<c>> \in Text
<1>1. Prompt \in Text /\ Welcome \in Text
  BY TextAssumption
<1>2. Blank \in Character /\ NewLine \in Character /\ Key \subseteq Character
  BY DEF Character
<1> QED BY <1>1, <1>2 DEF Text

LEMMA Lengths ==
  ASSUME NEW t \in Text
  PROVE  Len(t) \in Nat /\ \A i \in 1..Len(t) : t[i] \in Character
BY ElementOfSeq, LenProperties DEF Text

LEMMA PromptIs == Len(Prompt) \in Nat \ {0} /\ NoBreak(Prompt, 1, Len(Prompt))
BY TextAssumption, Texts, EmptySeq DEF Text, NoBreak

LEMMA Piece ==
  ASSUME NEW t \in Text, NEW m \in Nat, NEW n \in 0..Len(t)
  PROVE  /\ SubSeq(t, m + 1, n) \in Text
         /\ Len(SubSeq(t, m + 1, n)) = IF m < n THEN n - m ELSE 0
         /\ \A i \in 1..(n - m) : SubSeq(t, m + 1, n)[i] = t[m + i]
<1>1. Len(t) \in Nat
  BY Lengths
<1>2. \A i \in (m + 1)..n : t[i] \in Character
  BY <1>1, Lengths
<1>3. m + 1 \in Int /\ n \in Int
  BY <1>1
<1>4. /\ SubSeq(t, m + 1, n) \in Seq(Character)
      /\ Len(SubSeq(t, m + 1, n)) = IF m + 1 <= n THEN n - (m + 1) + 1 ELSE 0
      /\ \A i \in 1..(n - (m + 1) + 1) : SubSeq(t, m + 1, n)[i] = t[m + 1 + i - 1]
  BY <1>2, <1>3, SubSeqProperties
<1>5. n - (m + 1) + 1 = n - m /\ (m + 1 <= n <=> m < n)
  BY <1>3
<1>6. \A i \in 1..(n - m) : m + 1 + i - 1 = m + i
  BY <1>3
<1> QED BY <1>4, <1>5, <1>6 DEF Text

\* Two texts with the same beginning.
LEMMA SamePrefix ==
  ASSUME NEW t \in Text, NEW u \in Text, NEW k \in Nat, k <= Len(t), k <= Len(u)
  PROVE  SubSeq(u, 1, k) = SubSeq(t, 1, k) <=> \A i \in 1..k : u[i] = t[i]
<1>1. k \in 0..Len(t) /\ k \in 0..Len(u)
  BY Lengths
<1>2. ASSUME NEW v \in Text, k \in 0..Len(v)
      PROVE  /\ SubSeq(v, 1, k) \in Text /\ Len(SubSeq(v, 1, k)) = k
             /\ \A i \in 1..k : SubSeq(v, 1, k)[i] = v[i]
  <2>1. 0 \in Nat /\ 0 + 1 = 1 /\ k - 0 = k /\ (\A i \in 1..k : 0 + i = i) /\ ~(0 < k) => k = 0
    OBVIOUS
  <2> QED BY <1>2, <2>1, Piece
<1>3. /\ SubSeq(t, 1, k) \in Seq(Character) /\ SubSeq(u, 1, k) \in Seq(Character)
      /\ Len(SubSeq(u, 1, k)) = Len(SubSeq(t, 1, k))
  BY <1>1, <1>2 DEF Text
<1>4. ASSUME \A i \in 1..k : u[i] = t[i] PROVE SubSeq(u, 1, k) = SubSeq(t, 1, k)
  BY <1>1, <1>2, <1>3, <1>4, SeqEqual
<1>5. ASSUME SubSeq(u, 1, k) = SubSeq(t, 1, k), NEW i \in 1..k PROVE u[i] = t[i]
  BY <1>1, <1>2, <1>5
<1> QED BY <1>4, <1>5

-------------------------------------------------------------------------------
(***************************************************************************)
(* Splicing                                                                *)
(***************************************************************************)
Keeps(t, u, k) == Len(u) >= k /\ SubSeq(u, 1, k) = SubSeq(t, 1, k)

Splice(t, from, to, s) == SubSeq(t, 1, from) \o s \o SubSeq(t, to + 1, Len(t))
Moved(p, from, to, length) ==
  IF p < from THEN p ELSE IF p <= to THEN from + length ELSE p - to + from + length

LEMMA SplicedAt ==
  ASSUME NEW d, NEW from, NEW to, NEW s
  PROVE  Spliced(d, from, to, s) =
           [text |-> Splice(d.text, from, to, s),
            position |-> Moved(d.position, from, to, Len(s)),
            anchor |-> Moved(d.anchor, from, to, Len(s))]
BY DEF Spliced, Splice, Moved

LEMMA MovedIs ==
  ASSUME NEW n \in Nat, NEW from \in 0..n, NEW to \in from..n, NEW length \in Nat, NEW p \in 0..n
  PROVE  /\ Moved(p, from, to, length) \in 0..(from + length + (n - to))
         /\ \A k \in 0..from : k <= p <=> k <= Moved(p, from, to, length)
BY DEF Moved

LEMMA SplicedText ==
  ASSUME NEW t \in Text, NEW from \in 0..Len(t), NEW to \in from..Len(t), NEW s \in Text
  PROVE  /\ Splice(t, from, to, s) \in Text
         /\ Len(Splice(t, from, to, s)) = from + Len(s) + (Len(t) - to)
         /\ \A i \in 1..from : Splice(t, from, to, s)[i] = t[i]
         /\ \A i \in 1..Len(s) : Splice(t, from, to, s)[from + i] = s[i]
<1>1. Len(t) \in Nat /\ Len(s) \in Nat /\ from \in Nat /\ to \in Nat /\ from \in 0..Len(t)
  BY Lengths
<1> DEFINE x == SubSeq(t, 1, from)
           y == SubSeq(t, to + 1, Len(t))
           u == Splice(t, from, to, s)
           z == x \o s
<1>2. x \in Text /\ Len(x) = from /\ \A i \in 1..from : x[i] = t[i]
  <2>1. /\ SubSeq(t, 0 + 1, from) \in Text
        /\ Len(SubSeq(t, 0 + 1, from)) = IF 0 < from THEN from - 0 ELSE 0
        /\ \A i \in 1..(from - 0) : SubSeq(t, 0 + 1, from)[i] = t[0 + i]
    BY <1>1, Piece
  <2>2. 0 + 1 = 1 /\ (IF 0 < from THEN from - 0 ELSE 0) = from /\ from - 0 = from
    BY <1>1
  <2>3. \A i \in 1..from : 0 + i = i
    BY <1>1
  <2> QED BY <2>1, <2>2, <2>3
<1>3. y \in Text /\ Len(y) = Len(t) - to
  <2>1. /\ y \in Text
        /\ Len(y) = IF to < Len(t) THEN Len(t) - to ELSE 0
    BY <1>1, Piece
  <2>2. (IF to < Len(t) THEN Len(t) - to ELSE 0) = Len(t) - to
    BY <1>1
  <2> QED BY <2>1, <2>2
<1>10. u = z \o y
  BY DEF Splice
<1> HIDE DEF x, y, u
<1>4. /\ z \in Seq(Character) /\ Len(z) = from + Len(s)
      /\ \A i \in 1..(from + Len(s)) : z[i] = IF i <= from THEN x[i] ELSE s[i - from]
  BY <1>2, ConcatProperties DEF Text
<1> HIDE DEF z
<1>5. /\ u \in Seq(Character) /\ Len(u) = Len(z) + Len(y)
      /\ \A i \in 1..(Len(z) + Len(y)) : u[i] = IF i <= Len(z) THEN z[i] ELSE y[i - Len(z)]
  <2>1. y \in Seq(Character)
    BY <1>3 DEF Text
  <2> QED BY <2>1, <1>4, <1>10, ConcatProperties
<1>6. Len(u) = from + Len(s) + (Len(t) - to)
  BY <1>3, <1>4, <1>5
<1>7. \A i \in 1..(from + Len(s)) : u[i] = IF i <= from THEN x[i] ELSE s[i - from]
  <2> SUFFICES ASSUME NEW i \in 1..(from + Len(s))
               PROVE  u[i] = IF i <= from THEN x[i] ELSE s[i - from]
    OBVIOUS
  <2>1. i \in 1..(Len(z) + Len(y)) /\ i <= Len(z)
    BY <1>1, <1>3, <1>4
  <2> QED BY <2>1, <1>4, <1>5
<1>8. \A i \in 1..from : u[i] = t[i]
  <2> SUFFICES ASSUME NEW i \in 1..from PROVE u[i] = t[i]
    OBVIOUS
  <2>1. i \in 1..(from + Len(s)) /\ i <= from
    BY <1>1
  <2> QED BY <2>1, <1>7, <1>2
<1>9. \A i \in 1..Len(s) : u[from + i] = s[i]
  <2> SUFFICES ASSUME NEW i \in 1..Len(s) PROVE u[from + i] = s[i]
    OBVIOUS
  <2>1. from + i \in 1..(from + Len(s)) /\ ~(from + i <= from) 
    BY <1>1
  <2>2. from + i - from = i
    BY <1>1
  <2>3. u[from + i] = s[from + i - from]
    BY <2>1, <1>7
  <2> QED BY <2>2, <2>3
<1> QED BY <1>5, <1>6, <1>8, <1>9 DEF Text, u

\* What is spliced leaves a document, and what stands before it.
LEMMA SplicedIs ==
  ASSUME NEW d \in Document, NEW from \in 0..Len(d.text), NEW to \in from..Len(d.text),
         NEW s \in Text
  PROVE  /\ Spliced(d, from, to, s) \in Document
         /\ Len(Spliced(d, from, to, s).text) = from + Len(s) + (Len(d.text) - to)
         /\ \A k \in 0..from : Keeps(d.text, Spliced(d, from, to, s).text, k)
         /\ \A i \in 1..from : Spliced(d, from, to, s).text[i] = d.text[i]
         /\ \A i \in 1..Len(s) : Spliced(d, from, to, s).text[from + i] = s[i]
<1> DEFINE e == Spliced(d, from, to, s)
           position == Moved(d.position, from, to, Len(s))
           anchor == Moved(d.anchor, from, to, Len(s))
<1>1. /\ d.text \in Text /\ d.position \in 0..Len(d.text) /\ d.anchor \in 0..Len(d.text)
      /\ Len(d.text) \in Nat /\ Len(s) \in Nat /\ from \in Nat /\ to \in Nat
      /\ from <= to /\ to <= Len(d.text)
  BY Lengths DEF Document
<1>2. e = [text |-> Splice(d.text, from, to, s), position |-> position, anchor |-> anchor]
  BY SplicedAt
<1> HIDE DEF e
<1>3. e.text = Splice(d.text, from, to, s) /\ e.position = position /\ e.anchor = anchor
  BY <1>2
<1>4. /\ e.text \in Text
      /\ Len(e.text) = from + Len(s) + (Len(d.text) - to)
      /\ \A i \in 1..from : e.text[i] = d.text[i]
      /\ \A i \in 1..Len(s) : e.text[from + i] = s[i]
  <2> DEFINE t == d.text
  <2>1. t \in Text /\ from \in 0..Len(t) /\ to \in from..Len(t)
    BY <1>1
  <2> HIDE DEF t
  <2>2. /\ Splice(t, from, to, s) \in Text
        /\ Len(Splice(t, from, to, s)) = from + Len(s) + (Len(t) - to)
        /\ \A i \in 1..from : Splice(t, from, to, s)[i] = t[i]
        /\ \A i \in 1..Len(s) : Splice(t, from, to, s)[from + i] = s[i]
    BY <2>1, SplicedText
  <2>3. e.text = Splice(t, from, to, s)
    BY <1>3 DEF t
  <2> QED BY <2>2, <2>3 DEF t
<1>5. position \in 0..Len(e.text) /\ anchor \in 0..Len(e.text)
  BY <1>1, <1>4, MovedIs
<1>6. e \in Document
  <2>1. Len(e.text) \in Nat
    BY <1>4, Lengths
  <2> HIDE DEF position, anchor
  <2>2. position \in Nat /\ position <= Len(e.text) /\ anchor \in Nat /\ anchor <= Len(e.text)
    BY <1>5, <2>1
  <2>3. e \in [text : Text, position : Nat, anchor : Nat]
    BY <1>2, <1>3, <1>4, <2>2
  <2> QED BY <1>3, <2>2, <2>3 DEF Document
<1>7. ASSUME NEW k \in 0..from PROVE Keeps(d.text, e.text, k)
  <2>1. k \in Nat /\ k <= Len(d.text) /\ k <= Len(e.text)
    <3>1. k \in Nat /\ k <= from
      BY <1>1
    <3>2. Len(e.text) = from + Len(s) + (Len(d.text) - to)
      BY <1>4
    <3>3. \A f, l, n, m \in Nat : m <= n => f <= f + l + (n - m)
      OBVIOUS
    <3>4. from <= Len(e.text)
      BY <3>2, <3>3, <1>1
    <3>5. Len(e.text) \in Nat
      BY <1>4, Lengths
    <3>6. k <= Len(d.text)
      BY <3>1, <1>1
    <3>7. k <= Len(e.text)
      BY <3>1, <3>4, <3>5, <1>1
    <3> QED BY <3>1, <3>6, <3>7
  <2>2. \A i \in 1..k : e.text[i] = d.text[i]
    BY <1>1, <1>4
  <2>3. SubSeq(e.text, 1, k) = SubSeq(d.text, 1, k)
    BY <1>1, <1>4, <2>1, <2>2, SamePrefix
  <2>4. Len(e.text) \in Nat
    BY <1>4, Lengths
  <2> QED BY <2>1, <2>3, <2>4 DEF Keeps
<1> QED BY <1>4, <1>6, <1>7 DEF e

-------------------------------------------------------------------------------
(***************************************************************************)
(* What the operations of the widget make of a document                    *)
(***************************************************************************)
LEMMA DocumentIs ==
  ASSUME NEW d \in Document
  PROVE  /\ d.text \in Text /\ Len(d.text) \in Nat
         /\ d.position \in 0..Len(d.text) /\ d.anchor \in 0..Len(d.text)
BY Lengths DEF Document

LEMMA SelectionIs ==
  ASSUME NEW d \in Document
  PROVE  /\ Start(d) \in 0..Len(d.text) /\ End(d) \in Start(d)..Len(d.text)
         /\ Start(d) \in {d.position, d.anchor} /\ End(d) \in {d.position, d.anchor}
         /\ Start(d) <= d.position /\ d.position <= End(d) /\ Start(d) <= d.anchor
<1> DEFINE T == {d.position, d.anchor}
<1>1. T \subseteq 0..Len(d.text) /\ T \subseteq Nat /\ T # {} /\ Len(d.text) \in Nat
  BY DocumentIs
<1> HIDE DEF T
<1>2. /\ Min(T) \in T /\ \A m \in T : Min(T) <= m
      /\ Max(T) \in T /\ \A m \in T : m <= Max(T)
  BY <1>1, MinIs, MaxIs
<1>3. Min(T) \in 0..Len(d.text) /\ Max(T) \in Min(T)..Len(d.text)
  <2>1. Min(T) \in 0..Len(d.text) /\ Max(T) \in 0..Len(d.text) /\ Min(T) <= Max(T)
    BY <1>1, <1>2
  <2> QED BY <2>1
<1>4. d.position \in T /\ d.anchor \in T
  BY DEF T
<1>5. Start(d) = Min(T) /\ End(d) = Max(T)
  BY DEF Start, End, T
<1> QED BY <1>2, <1>3, <1>4, <1>5 DEF T

LEMMA CursorAlone ==
  ASSUME NEW d \in Document, ~HasSelection(d)
  PROVE  Start(d) = d.position /\ End(d) = d.position
BY SelectionIs DEF HasSelection

LEMMA RightIs ==
  ASSUME NEW t, Len(t) \in Nat, NEW p \in 0..Len(t), NEW n \in Nat
  PROVE  /\ Right(t, p, n) \in p..Len(t)
         /\ Right(t, p, n) = IF p + n <= Len(t) THEN p + n ELSE Len(t)
<1> DEFINE T == {p + n, Len(t)}
<1>1. T \subseteq Nat /\ T # {}
  OBVIOUS
<1>2. Min(T) \in T /\ \A m \in T : Min(T) <= m
  <2> HIDE DEF T
  <2> QED BY <1>1, MinIs
<1>3. (Min(T) = p + n \/ Min(T) = Len(t)) /\ Min(T) <= p + n /\ Min(T) <= Len(t)
  BY <1>2
<1>4. Right(t, p, n) = Min(T)
  BY DEF Right
<1> HIDE DEF T
<1> QED BY <1>3, <1>4

LEMMA PlacedIs ==
  ASSUME NEW d \in Document, NEW p \in 0..Len(d.text), NEW a \in 0..Len(d.text)
  PROVE  /\ Placed(d, p, a) \in Document
         /\ Placed(d, p, a).text = d.text
         /\ Placed(d, p, a).position = p /\ Placed(d, p, a).anchor = a
         /\ d = [text |-> d.text, position |-> d.position, anchor |-> d.anchor]
<1>1. d \in [text : Text, position : Nat, anchor : Nat]
  BY DEF Document
<1>5. d = [text |-> d.text, position |-> d.position, anchor |-> d.anchor]
  BY <1>1
<1>2. Placed(d, p, a) = [text |-> d.text, position |-> p, anchor |-> a]
  <2> DEFINE e == [d EXCEPT !.position = p]
  <2>1. e = [text |-> d.text, position |-> p, anchor |-> d.anchor]
    BY <1>5
  <2> HIDE DEF e
  <2>2. [e EXCEPT !.anchor = a] = [text |-> d.text, position |-> p, anchor |-> a]
    BY <2>1
  <2> QED BY <2>2 DEF Placed, e
<1>3. p \in Nat /\ a \in Nat /\ p <= Len(d.text) /\ a <= Len(d.text)
  BY DocumentIs
<1>4. Placed(d, p, a) \in [text : Text, position : Nat, anchor : Nat]
  BY <1>1, <1>2, <1>3
<1> QED BY <1>2, <1>3, <1>4, <1>5 DEF Document

LEMMA AtEndIs ==
  ASSUME NEW d \in Document
  PROVE  /\ AtEnd(d) \in Document
         /\ AtEnd(d).text = d.text
         /\ AtEnd(d).position = Len(d.text) /\ AtEnd(d).anchor = Len(d.text)
         /\ Start(AtEnd(d)) = Len(d.text) /\ End(AtEnd(d)) = Len(d.text)
<1>1. Len(d.text) \in 0..Len(d.text)
  BY DocumentIs
<1>2. /\ AtEnd(d) \in Document /\ AtEnd(d).text = d.text
      /\ AtEnd(d).position = Len(d.text) /\ AtEnd(d).anchor = Len(d.text)
  BY <1>1, PlacedIs DEF AtEnd
<1> QED BY <1>2, CursorAlone DEF HasSelection

LEMMA InsertIs ==
  ASSUME NEW d \in Document, NEW s \in Text
  PROVE  /\ InsertText(d, s) \in Document
         /\ \A k \in 0..Start(d) : Keeps(d.text, InsertText(d, s).text, k)
BY SelectionIs, SplicedIs DEF InsertText

LEMMA DeleteIs ==
  ASSUME NEW d \in Document
  PROVE  /\ DeleteChar(d) \in Document
         /\ \A k \in 0..Start(d) : Keeps(d.text, DeleteChar(d).text, k)
<1>1. CASE HasSelection(d)
  BY <1>1, Texts, InsertIs DEF DeleteChar
<1>2. CASE ~HasSelection(d)
  <2>1. d.position \in 0..Len(d.text) /\ Len(d.text) \in Nat /\ Start(d) = d.position
    BY <1>2, DocumentIs, CursorAlone
  <2>2. Right(d.text, d.position, 1) \in d.position..Len(d.text)
    BY <2>1, RightIs
  <2>3. DeleteChar(d) = Spliced(d, d.position, Right(d.text, d.position, 1), <<>>)
    BY <1>2 DEF DeleteChar
  <2>4. /\ Spliced(d, d.position, Right(d.text, d.position, 1), <<>>) \in Document
        /\ \A k \in 0..d.position :
             Keeps(d.text, Spliced(d, d.position, Right(d.text, d.position, 1), <<>>).text, k)
    <3> DEFINE from == d.position
               to == Right(d.text, d.position, 1)
    <3>1. from \in 0..Len(d.text) /\ to \in from..Len(d.text) /\ <<>> \in Text
      BY <2>1, <2>2, Texts
    <3> HIDE DEF from, to
    <3>2. /\ Spliced(d, from, to, <<>>) \in Document
          /\ \A k \in 0..from : Keeps(d.text, Spliced(d, from, to, <<>>).text, k)
      BY <3>1, SplicedIs
    <3> QED BY <3>2 DEF from, to
  <2> QED BY <2>1, <2>3, <2>4
<1> QED BY <1>1, <1>2

\* A paragraph behind everything: the cursor stays, or goes on with the end.
LEMMA AppendedIs ==
  ASSUME NEW d \in Document, NEW s \in Text
  PROVE  /\ Appended(d, s) \in Document
         /\ \A k \in 0..Len(d.text) :
              /\ Keeps(d.text, Appended(d, s).text, k)
              /\ k <= Start(d) => k <= Start(Appended(d, s))
<1> DEFINE r == IF d.text = <<>> THEN s ELSE <<NewLine>> \o s
           n == Len(d.text)
           e == Appended(d, s)
<1>1. r \in Text
  <2>1. <<NewLine>> \in Seq(Character) /\ s \in Seq(Character)
    BY Texts DEF Text
  <2> QED BY <2>1, ConcatProperties DEF Text
<1>2. e = Spliced(d, n, n, r)
  BY DEF Appended
<1> HIDE DEF r, e
<1>3. n \in 0..n /\ n \in n..n /\ n \in Nat
  BY DocumentIs
<1>4. e \in Document /\ \A k \in 0..n : Keeps(d.text, e.text, k)
  BY <1>1, <1>2, <1>3, SplicedIs
<1>5. e.position = Moved(d.position, n, n, Len(r)) /\ e.anchor = Moved(d.anchor, n, n, Len(r))
  BY <1>2, SplicedAt
<1>6. ASSUME NEW k \in 0..n, k <= Start(d) PROVE k <= Start(e)
  <2>1. k <= d.position /\ k <= d.anchor
    <3>1. Start(d) \in Nat /\ d.position \in Nat /\ d.anchor \in Nat /\ k \in Nat
      BY <1>3, SelectionIs, DocumentIs
    <3> QED BY <3>1, <1>6, SelectionIs
  <2>2. Len(r) \in Nat /\ d.position \in 0..n /\ d.anchor \in 0..n
    BY <1>1, Lengths, DocumentIs
  <2>3. k <= e.position /\ k <= e.anchor
    <3> HIDE DEF n
    <3>1. k \in 0..n /\ n \in Nat /\ n \in 0..n /\ n \in n..n
      BY <1>3
    <3>2. \A p \in 0..n : k <= p <=> k <= Moved(p, n, n, Len(r))
      BY <2>2, <3>1, MovedIs
    <3> QED BY <2>1, <2>2, <3>2, <1>5
  <2>4. Start(e) \in {e.position, e.anchor}
    BY <1>4, SelectionIs
  <2> QED BY <2>3, <2>4
<1> QED BY <1>4, <1>6 DEF e

LEMMA PastedIs ==
  ASSUME NEW d \in Document, NEW w, NEW s \in Text
  PROVE  /\ Pasted(d, w, s) \in Document
         /\ \A k \in 0..Len(d.text) :
              (SelectionHolds(d, w) => k <= Start(d)) => Keeps(d.text, Pasted(d, w, s).text, k)
<1>1. CASE SelectionHolds(d, w)
  <2>1. Pasted(d, w, s) = InsertText(d, s)
    BY <1>1 DEF Pasted
  <2>2. ASSUME NEW k \in 0..Len(d.text), k <= Start(d) PROVE k \in 0..Start(d)
    BY <2>2, DocumentIs, SelectionIs
  <2> QED BY <1>1, <2>1, <2>2, InsertIs
<1>2. CASE ~SelectionHolds(d, w)
  <2>1. Pasted(d, w, s) = d
    BY <1>2 DEF Pasted
  <2>2. ASSUME NEW k \in 0..Len(d.text) PROVE Keeps(d.text, d.text, k)
    BY DocumentIs DEF Keeps
  <2> QED BY <2>1, <2>2
<1> QED BY <1>1, <1>2

\* A line is part of its block, and starts at its latest break before the place.
LEMMA LineStartIs ==
  ASSUME NEW t \in Text, NEW w, NEW p \in 0..Len(t)
  PROVE  /\ LineStart(t, w, p) \in BlockStart(t, p)..p
         /\ LineStart(t, w, p) \in w \/ LineStart(t, w, p) = BlockStart(t, p)
<1> DEFINE b == BlockStart(t, p)
           T == {q \in b..p : q \in w \/ q = b}
<1>1. b \in 0..p /\ p \in Nat
  BY Lengths, BlockStartIs
<1>2. T \subseteq 0..p /\ T # {}
  <2> HIDE DEF b
  <2>1. b \in T
    BY <1>1
  <2> QED BY <1>1, <2>1
<1>3. Max(T) \in T
  <2> HIDE DEF T
  <2> QED BY <1>1, <1>2, MaxIs
<1>4. LineStart(t, w, p) = Max(T)
  BY DEF LineStart
<1> QED BY <1>3, <1>4

LEMMA LineEndIs ==
  ASSUME NEW t \in Text, NEW w, NEW p \in 0..Len(t)
  PROVE  LineEnd(t, w, p) \in p..Len(t)
<1> DEFINE b == BlockEnd(t, p)
           T == {q \in (p + 1)..b : q \in w} \cup {b}
<1>1. b \in p..Len(t) /\ p \in Nat /\ Len(t) \in Nat
  BY Lengths, BlockEndIs
<1> HIDE DEF b
<1>2. T \subseteq Nat /\ T # {} /\ \A q \in T : q \in (p + 1)..b \/ q = b
  BY <1>1
<1>3. Min(T) \in T
  <2> HIDE DEF T
  <2> QED BY <1>2, MinIs
<1>4. LineEnd(t, w, p) = IF Min(T) < b /\ t[Min(T)] = Blank THEN Min(T) - 1 ELSE Min(T)
  BY DEF LineEnd, b
<1> HIDE DEF T
<1>5. Min(T) \in p..b /\ (Min(T) < b => Min(T) - 1 \in p..b)
  <2> DEFINE m == Min(T)
  <2>1. m \in (p + 1)..b \/ m = b
    BY <1>2, <1>3
  <2> HIDE DEF m
  <2>2. m \in p..b /\ (m < b => m - 1 \in p..b)
    BY <1>1, <2>1
  <2> QED BY <2>2 DEF m
<1>6. LineEnd(t, w, p) \in p..b
  BY <1>4, <1>5
<1> QED BY <1>1, <1>6

LEMMA ReplacedIs ==
  ASSUME NEW d \in Document, NEW command \in Text
  PROVE  /\ ReplaceCurrentCommand(d, command) \in Document
         /\ \A k \in 0..Len(d.text) :
              k <= BlockStart(d.text, d.position) + Len(Prompt) =>
                Keeps(d.text, ReplaceCurrentCommand(d, command).text, k)
<1> DEFINE t == d.text
           p == d.position
           start == LineStart(t, lines, p)
           from == Right(t, start, Len(Prompt))
           to == LineEnd(t, lines, from)
<1>1. t \in Text /\ Len(t) \in Nat /\ p \in 0..Len(t) /\ BlockStart(t, p) \in 0..p /\ Len(Prompt) \in Nat
  BY DocumentIs, BlockStartIs, PromptIs
<1>2. start \in BlockStart(t, p)..p /\ start \in 0..Len(t)
  <2> HIDE DEF t, p
  <2>1. LineStart(t, lines, p) \in BlockStart(t, p)..p
    BY <1>1, LineStartIs
  <2> QED BY <1>1, <2>1
<1> HIDE DEF start
<1>3. from \in 0..Len(t) /\ (from = start + Len(Prompt) \/ from = Len(t))
  <2> HIDE DEF t
  <2>1. Right(t, start, Len(Prompt)) \in start..Len(t)
    BY <1>1, <1>2, RightIs
  <2>2. Right(t, start, Len(Prompt)) = start + Len(Prompt) \/ Right(t, start, Len(Prompt)) = Len(t)
    BY <1>1, <1>2, RightIs
  <2> QED BY <2>1, <2>2, <1>1, <1>2
<1>4. ReplaceCurrentCommand(d, command) = Spliced(d, from, to, command)
  BY DEF ReplaceCurrentCommand, start
<1> HIDE DEF from
<1>5. to \in from..Len(t)
  <2> HIDE DEF t
  <2> QED BY <1>1, <1>3, LineEndIs
<1>6. ASSUME NEW k \in 0..Len(t), k <= BlockStart(t, p) + Len(Prompt) PROVE k \in 0..from
  <2> HIDE DEF t, p
  <2> QED BY <1>1, <1>2, <1>3, <1>6
<1> HIDE DEF to
<1>7. /\ Spliced(d, from, to, command) \in Document
      /\ \A k \in 0..from : Keeps(t, Spliced(d, from, to, command).text, k)
  BY <1>3, <1>5, SplicedIs
<1> QED BY <1>4, <1>6, <1>7

LEMMA WordIs ==
  ASSUME NEW t \in Text, NEW p \in 1..Len(t)
  PROVE  PreviousWord(t, p) \in 0..(p - 1)
<1>1. BlockStart(t, p) \in 0..p /\ Len(t) \in Nat /\ p \in Nat
  BY BlockStartIs, Lengths
<1>2. CASE p = BlockStart(t, p)
  BY <1>1, <1>2 DEF PreviousWord
<1>3. CASE p # BlockStart(t, p)
  <2> DEFINE T == WordStarts(t, p) \cup {BlockStart(t, p)}
  <2>1. T \subseteq 0..(p - 1) /\ T # {} /\ p - 1 \in Nat
    BY <1>1, <1>3 DEF WordStarts
  <2> HIDE DEF T
  <2>2. Max(T) \in T
    BY <2>1, MaxIs
  <2> QED BY <1>3, <2>1, <2>2 DEF PreviousWord, T
<1> QED BY <1>2, <1>3

\* A command has no line break.
LEMMA CommandIs ==
  ASSUME NEW d \in Document
  PROVE  /\ GetCurrentCommand(d) \in Text
         /\ Breaks(GetCurrentCommand(d), 1, Len(GetCurrentCommand(d))) = {}
<1> DEFINE t == d.text
           from == Right(t, BlockStart(t, d.position), Len(Prompt))
           to == BlockEnd(t, from)
           c == GetCurrentCommand(d)
<1>1. t \in Text /\ Len(t) \in Nat /\ d.position \in 0..Len(t) /\ BlockStart(t, d.position) \in 0..Len(t)
  BY DocumentIs, BlockStartIs
<1>2. from \in 0..Len(t) /\ from \in Nat
  <2> DEFINE b == BlockStart(t, d.position)
  <2>1. b \in 0..Len(t) /\ Len(t) \in Nat /\ Len(Prompt) \in Nat
    BY <1>1, PromptIs
  <2> HIDE DEF t, b
  <2>2. Right(t, b, Len(Prompt)) \in b..Len(t)
    BY <2>1, RightIs
  <2> QED BY <2>1, <2>2 DEF b
<1> HIDE DEF from
<1>3. to \in from..Len(t) /\ NoBreak(t, from + 1, to)
  BY <1>1, <1>2, BlockEndIs
<1>4. c = SubSeq(t, from + 1, to)
  BY DEF GetCurrentCommand, from
<1> HIDE DEF to, c, t
<1>5. to \in 0..Len(t) /\ to \in Nat /\ from <= to
  BY <1>1, <1>2, <1>3
<1>6. /\ c \in Text /\ Len(c) = IF from < to THEN to - from ELSE 0
      /\ \A i \in 1..(to - from) : c[i] = t[from + i]
  BY <1>1, <1>2, <1>4, <1>5, Piece
<1>7. Len(c) = to - from
  BY <1>2, <1>5, <1>6
<1>8. ASSUME NEW i \in 1..Len(c), c[i] = NewLine PROVE FALSE
  <2>1. i \in 1..(to - from) /\ from + i \in (from + 1)..to
    BY <1>2, <1>5, <1>7
  <2>2. t[from + i] = NewLine
    BY <2>1, <1>6, <1>8
  <2> QED BY <2>1, <2>2, <1>3 DEF NoBreak
<1> QED BY <1>6, <1>8 DEF Breaks, c

-------------------------------------------------------------------------------
(***************************************************************************)
(* The history                                                             *)
(***************************************************************************)
HistoryOK ==
  /\ history \in Seq(Text)
  /\ \A i \in 1..Len(history) : Breaks(history[i], 1, Len(history[i])) = {}
  /\ historyIndex \in 0..Len(history)

LEMMA TypeIs ==
  QTypeOK <=> /\ doc \in Document /\ promptParagraph \in Nat
              /\ HistoryOK /\ isLocked \in BOOLEAN /\ lines \in Layouts(doc.text)
BY TypeIsDocument DEF QTypeOK, HistoryOK, Document

LEMMA TypeIsNext ==
  ASSUME doc' \in Document, promptParagraph' \in Nat, HistoryOK', isLocked' \in BOOLEAN,
         lines' \in Layouts(doc.text)'
  PROVE  QTypeOK'
<1>1. doc' \in [text : Text, position : Nat, anchor : Nat]
  BY DEF Document
<1>2. End(doc') <= Len(doc'.text)
  BY <1>1, TypeIsDocument
<1> QED BY <1>1, <1>2 DEF QTypeOK, HistoryOK

\* The command that is recalled is there, and it is the current one only when
\* there is no other on that side.
LEMMA OlderIs ==
  ASSUME HistoryOK, history # <<>>, NEW command
  PROVE  /\ Older(command) \in 0..(Len(history) - 1)
         /\ history[Older(command) + 1] = command =>
              \A i \in 1..historyIndex : history[i] = command
<1> DEFINE U == {i \in 0..(historyIndex - 1) : history[i + 1] # command}
           T == U \cup {0}
<1>1. Len(history) \in Nat \ {0} /\ historyIndex \in 0..Len(history)
  BY EmptySeq DEF HistoryOK
<1>2. T \subseteq 0..(Len(history) - 1) /\ T # {} /\ Len(history) - 1 \in Nat
  BY <1>1
<1>3. Max(T) \in T /\ \A m \in T : m <= Max(T)
  <2> HIDE DEF T
  <2> QED BY <1>2, MaxIs
<1>4. ASSUME history[Max(T) + 1] = command, NEW i \in 1..historyIndex, history[i] # command
      PROVE  FALSE
  <2>1. i - 1 \in 0..(historyIndex - 1) /\ i - 1 + 1 = i
    BY <1>1
  <2>2. i - 1 \in U
    BY <2>1, <1>4
  <2>3. Max(T) \notin U
    BY <1>4
  <2>4. Max(T) = 0
    BY <1>3, <2>3
  <2>5. i - 1 <= 0
    BY <2>2, <2>4, <1>3
  <2>6. i = Max(T) + 1
    BY <2>1, <2>4, <2>5
  <2> QED BY <2>6, <1>4
<1>5. Older(command) = Max(T)
  BY DEF Older
<1> HIDE DEF T
<1> QED BY <1>2, <1>3, <1>4, <1>5

LEMMA NewerIs ==
  ASSUME HistoryOK, history # <<>>, NEW command
  PROVE  /\ Newer(command) \in 0..(Len(history) - 1)
         /\ history[Newer(command) + 1] = command =>
              \A i \in (historyIndex + 2)..Len(history) : history[i] = command
<1> DEFINE n == Len(history) - 1
           U == {i \in (historyIndex + 1)..n : history[i + 1] # command}
           T == U \cup {n}
<1>1. Len(history) \in Nat \ {0} /\ historyIndex \in 0..Len(history)
  BY EmptySeq DEF HistoryOK
<1>2. T \subseteq 0..n /\ T \subseteq Nat /\ T # {} /\ n \in Nat /\ Len(history) = n + 1
  BY <1>1
<1>3. Min(T) \in T /\ \A m \in T : Min(T) <= m
  <2> HIDE DEF T
  <2> QED BY <1>2, MinIs
<1>4. ASSUME history[Min(T) + 1] = command, NEW i \in (historyIndex + 2)..Len(history),
             history[i] # command
      PROVE  FALSE
  <2>1. i - 1 \in (historyIndex + 1)..n /\ i - 1 + 1 = i
    BY <1>1, <1>2
  <2>2. i - 1 \in U
    BY <2>1, <1>4
  <2>3. Min(T) \notin U
    BY <1>4
  <2>4. Min(T) = n
    BY <1>3, <2>3
  <2>5. n <= i - 1
    BY <2>2, <2>4, <1>3
  <2>6. i = Min(T) + 1
    <3>1. i \in Int /\ n \in Nat /\ i - 1 <= n
      BY <1>1, <1>2, <2>1
    <3> HIDE DEF n, T
    <3>2. i = n + 1
      BY <3>1, <2>5
    <3> QED BY <3>2, <2>4
  <2> QED BY <2>6, <1>4
<1>5. Newer(command) = Min(T)
  BY DEF Newer
<1> HIDE DEF T
<1> QED BY <1>2, <1>3, <1>4, <1>5

LEMMA HandleIs ==
  ASSUME HistoryOK, NEW d \in Document, HandleUp(d) \/ HandleDown(d)
  PROVE  /\ doc' \in Document /\ historyIndex' \in 0..Len(history)
         /\ \A k \in 0..Len(d.text) :
              k <= BlockStart(d.text, d.position) + Len(Prompt) => Keeps(d.text, doc'.text, k)
<1>1. PICK index \in 0..(Len(history) - 1) : Recall(d, index)
  <2>1. history # <<>>
    BY DEF HandleUp, HandleDown
  <2>2. /\ Older(GetCurrentCommand(d)) \in 0..(Len(history) - 1)
        /\ Newer(GetCurrentCommand(d)) \in 0..(Len(history) - 1)
    BY <2>1, OlderIs, NewerIs
  <2> QED BY <2>2 DEF HandleUp, HandleDown
<1>2. Len(history) \in Nat /\ index + 1 \in 1..Len(history) /\ index \in 0..Len(history)
  BY LenProperties DEF HistoryOK
<1>3. history[index + 1] \in Text
  BY <1>2, ElementOfSeq DEF HistoryOK
<1> QED BY <1>1, <1>2, <1>3, ReplacedIs DEF Recall

-------------------------------------------------------------------------------
(***************************************************************************)
(* The boundary of the edition zone                                        *)
(***************************************************************************)
\* k is where the zone begins: behind the prompt of the last prompt's block.
Boundary(t, k) ==
  /\ k \in 0..Len(t)
  /\ BlockNumber(t, k) = promptParagraph
  /\ k = BlockStart(t, k) + Len(Prompt)

\* Behind the prompt, whatever the lines are: what the tests of the code allow is less.
InZone(t, p) ==
  \/ BlockNumber(t, p) > promptParagraph
  \/ BlockNumber(t, p) = promptParagraph /\ p - BlockStart(t, p) >= Len(Prompt)

LEMMA ZoneIs ==
  ASSUME NEW d \in Document, NEW w, NEW p \in 0..Len(d.text), ZoneHolds(d, w, p)
  PROVE  InZone(d.text, p)
<1>1. CASE BlockNumber(d.text, p) > promptParagraph
  BY <1>1 DEF InZone
<1>2. CASE BlockNumber(d.text, p) = promptParagraph /\ Column(d.text, w, p) >= Len(Prompt)
  <2> DEFINE b == BlockStart(d.text, p)
             l == LineStart(d.text, w, p)
  <2>1. l \in b..p /\ b \in 0..p /\ p \in Nat /\ Len(Prompt) \in Nat
    BY DocumentIs, Lengths, LineStartIs, BlockStartIs, PromptIs
  <2>2. p - l >= Len(Prompt)
    BY <1>2 DEF Column
  <2> HIDE DEF b, l
  <2>3. p - b >= Len(Prompt)
    BY <2>1, <2>2
  <2> QED BY <1>2, <2>3 DEF InZone, b
<1> QED BY <1>1, <1>2 DEF ZoneHolds

\* No other place than one behind the boundary is in the zone, and the prompt of its
\* block, or what stands in its place, does not end before it.
LEMMA BoundaryIs ==
  ASSUME NEW t \in Text, promptParagraph \in Nat, NEW k, Boundary(t, k), NEW p \in 0..Len(t)
  PROVE  /\ InZone(t, p) <=> k <= p
         /\ k <= p => k <= BlockStart(t, p) + Len(Prompt)
<1>1. /\ Len(t) \in Nat /\ k \in Nat /\ p \in Nat /\ Len(Prompt) \in Nat
      /\ BlockNumber(t, k) \in Nat /\ BlockNumber(t, p) \in Nat
      /\ BlockStart(t, k) \in 0..k /\ BlockStart(t, p) \in 0..p
  BY Lengths, PromptIs, BreaksFinite, BlockStartIs DEF Boundary
<1>2. k = BlockStart(t, k) + Len(Prompt) /\ BlockNumber(t, k) = promptParagraph
  BY DEF Boundary
<1>3. CASE k <= p /\ NoBreak(t, k + 1, p)
  <2>1. BlockStart(t, p) = BlockStart(t, k) /\ BlockNumber(t, p) = promptParagraph
    BY <1>1, <1>2, <1>3, SameBlock, BlockNumbers
  <2>2. p - BlockStart(t, p) >= Len(Prompt)
    BY <1>1, <1>2, <1>3, <2>1
  <2> QED BY <1>1, <1>2, <1>3, <2>1, <2>2 DEF InZone
<1>4. CASE k <= p /\ ~NoBreak(t, k + 1, p)
  <2>1. BlockStart(t, p) > k /\ BlockNumber(t, p) > promptParagraph
    BY <1>1, <1>2, <1>4, LaterBlock, BlockNumbers
  <2> QED BY <1>1, <1>4, <2>1 DEF InZone
<1>5. CASE p < k /\ NoBreak(t, p + 1, k)
  <2>1. BlockStart(t, p) = BlockStart(t, k) /\ BlockNumber(t, p) = promptParagraph
    BY <1>1, <1>2, <1>5, SameBlock, BlockNumbers
  <2>2. ~(p - BlockStart(t, p) >= Len(Prompt))
    BY <1>1, <1>2, <1>5, <2>1
  <2> QED BY <1>1, <1>2, <1>5, <2>1, <2>2 DEF InZone
<1>6. CASE p < k /\ ~NoBreak(t, p + 1, k)
  <2>1. BlockNumber(t, p) < promptParagraph
    BY <1>1, <1>2, <1>6, BlockNumbers
  <2> QED BY <1>1, <1>6, <2>1 DEF InZone
<1> QED BY <1>1, <1>3, <1>4, <1>5, <1>6

LEMMA PromptBlockOnly ==
  ASSUME NEW d, NEW w, NEW p, ZoneHolds(d, w, p), BlockNumber(d.text, p) = promptParagraph,
         promptParagraph \in Nat
  PROVE  Column(d.text, w, p) >= Len(Prompt)
BY DEF ZoneHolds

LEMMA SelectionInZone ==
  ASSUME NEW d \in Document, promptParagraph \in Nat, NEW k, Boundary(d.text, k), NEW w
  PROVE  /\ SelectionHolds(d, w) => k \in 0..Start(d)
         /\ ZoneHolds(d, w, d.position) => k \in 0..d.position
<1>1. k \in 0..Len(d.text) /\ d.text \in Text /\ Len(d.text) \in Nat
  BY DocumentIs DEF Boundary
<1>2. Start(d) \in 0..Len(d.text) /\ d.position \in 0..Len(d.text)
  BY SelectionIs, DocumentIs
<1>3. ASSUME NEW p \in 0..Len(d.text), ZoneHolds(d, w, p) PROVE k \in 0..p
  <2>1. InZone(d.text, p)
    BY <1>3, ZoneIs
  <2>2. k <= p
    BY <1>1, <2>1, BoundaryIs
  <2> QED BY <1>1, <2>2
<1> QED BY <1>2, <1>3 DEF SelectionHolds

\* A step that leaves alone what stands before the boundary.
Spares == \A k : Boundary(doc.text, k) => Keeps(doc.text, doc'.text, k)

\* A selection behind the boundary.
Behind(d) == \A k : Boundary(d.text, k) => k \in 0..Start(d)

LEMMA SelectionBehind ==
  ASSUME NEW d \in Document, promptParagraph \in Nat, NEW w, SelectionHolds(d, w)
  PROVE  Behind(d)
BY SelectionInZone DEF Behind

LEMMA EndBehind ==
  ASSUME NEW d \in Document
  PROVE  Behind(AtEnd(d))
BY AtEndIs DEF Behind, Boundary

LEMMA InsertSpares ==
  ASSUME NEW d \in Document, d.text = doc.text, Behind(d), NEW s \in Text, doc' = InsertText(d, s)
  PROVE  doc' \in Document /\ Spares
BY InsertIs DEF Behind, Spares

LEMMA DeleteSpares ==
  ASSUME NEW d \in Document, d.text = doc.text, Behind(d), doc' = DeleteChar(d)
  PROVE  doc' \in Document /\ Spares
BY DeleteIs DEF Behind, Spares

LEMMA SameTextSpares ==
  ASSUME doc \in Document, doc' \in Document, doc'.text = doc.text
  PROVE  Spares
BY DocumentIs DEF Spares, Keeps, Boundary

LEMMA PasteSpares ==
  ASSUME promptParagraph \in Nat, NEW d \in Document, d.text = doc.text, doc \in Document,
         NEW w, NEW s \in Text, doc' = Pasted(d, w, s)
  PROVE  doc' \in Document /\ Spares
<1>1. CASE SelectionHolds(d, w)
  BY <1>1, SelectionBehind, InsertSpares DEF Pasted
<1>2. CASE ~SelectionHolds(d, w)
  BY <1>2, SameTextSpares DEF Pasted
<1> QED BY <1>1, <1>2

LEMMA ReplaceSpares ==
  ASSUME promptParagraph \in Nat, NEW d \in Document, d.text = doc.text, NEW command \in Text,
         IsInEditionZone(d, d.position), doc' = ReplaceCurrentCommand(d, command)
  PROVE  doc' \in Document /\ Spares
<1>1. ASSUME NEW k, Boundary(doc.text, k) PROVE Keeps(doc.text, doc'.text, k)
  <2>1. k \in 0..Len(d.text) /\ d.position \in 0..Len(d.text) /\ d.text \in Text
    BY <1>1, DocumentIs DEF Boundary
  <2>2. k <= d.position
    BY <1>1, <2>1, SelectionInZone DEF IsInEditionZone
  <2>3. k <= BlockStart(d.text, d.position) + Len(Prompt)
    BY <1>1, <2>1, <2>2, BoundaryIs
  <2> QED BY <2>1, <2>3, ReplacedIs
<1> QED BY <1>1, ReplacedIs DEF Spares

-------------------------------------------------------------------------------
(***************************************************************************)
(* The steps                                                               *)
(***************************************************************************)
LEMMA EditCursorIs ==
  ASSUME QTypeOK
  PROVE  EditCursor \in Document /\ EditCursor.text = doc.text /\ Behind(EditCursor)
BY TypeIs, AtEndIs, EndBehind, SelectionBehind DEF EditCursor, IsSelectionInEditionZone

\* What a step that edits must show.
Edited == doc' \in Document /\ Spares /\ HistoryOK' /\ promptParagraph' \in Nat /\ isLocked' \in BOOLEAN

LEMMA EditsKeepHistory ==
  ASSUME QTypeOK, UNCHANGED <<history, historyIndex>>
  PROVE  HistoryOK'
BY TypeIs DEF HistoryOK

LEMMA TypeCharacterStep ==
  ASSUME QTypeOK, NEW c \in Key \cup {Blank}, TypeCharacter(c)
  PROVE  Edited
<1>1. <<c>> \in Text
  BY Texts
<1>2. doc' \in Document /\ Spares
  BY <1>1, EditCursorIs, InsertSpares DEF TypeCharacter
<1> QED BY <1>2, TypeIs, EditsKeepHistory DEF Edited, TypeCharacter, Edits, Unlocked

LEMMA DeleteKeyStep ==
  ASSUME QTypeOK, DeleteKey
  PROVE  Edited
<1>1. doc' \in Document /\ Spares
  BY EditCursorIs, DeleteSpares DEF DeleteKey
<1> QED BY <1>1, TypeIs, EditsKeepHistory DEF Edited, DeleteKey, Edits, Unlocked

LEMMA PasteKeyStep ==
  ASSUME QTypeOK, NEW s \in Foreign, PasteKey(s)
  PROVE  Edited
<1>1. s \in Text
  BY TextAssumption
<1>2. doc' = Pasted(EditCursor, lines, s) \/ doc' = Pasted(doc, lines, s)
  BY DEF PasteKey
<1>3. doc' \in Document /\ Spares
  BY <1>1, <1>2, TypeIs, EditCursorIs, PasteSpares
<1> QED BY <1>3, TypeIs, EditsKeepHistory DEF Edited, PasteKey, Edits, Unlocked

\* Without a selection Backspace may delete a word that begins before the prompt.
BackspaceHole == ~HasSelection(doc) /\ \E k : Boundary(doc.text, k) /\ PreviousWord(doc.text, doc.position) < k

LEMMA BackspaceStep ==
  ASSUME QTypeOK, Backspace
  PROVE  /\ doc' \in Document /\ (Spares \/ BackspaceHole)
         /\ HistoryOK' /\ promptParagraph' \in Nat /\ isLocked' \in BOOLEAN
<1>1. doc \in Document /\ promptParagraph \in Nat
  BY TypeIs
<1>2. ASSUME HasSelection(doc) PROVE doc' \in Document /\ (Spares \/ BackspaceHole)
  <2>1. doc' = InsertText(doc, <<>>) /\ IsSelectionInEditionZone(doc)
    BY <1>2 DEF Backspace
  <2>2. Behind(doc) /\ <<>> \in Text
    BY <1>1, <2>1, SelectionBehind, Texts DEF IsSelectionInEditionZone
  <2> QED BY <1>1, <2>1, <2>2, InsertSpares
<1>3. ASSUME ~HasSelection(doc) PROVE doc' \in Document /\ (Spares \/ BackspaceHole)
  <2> DEFINE t == doc.text
             p == doc.position
  <2>1. t \in Text /\ Len(t) \in Nat /\ p \in 0..Len(t)
    BY <1>1, DocumentIs
  <2>2. p # 0
    <3>1. InZone(t, p)
      <4>1. ZoneHolds(doc, lines, p)
        BY <1>1, <1>3, CursorAlone DEF Backspace, IsSelectionInEditionZone, SelectionHolds
      <4> QED BY <4>1, <1>1, <2>1, ZoneIs
    <3>2. ASSUME p = 0 PROVE FALSE
      <4>1. BlockNumber(t, p) = 0
        <5>1. Breaks(t, 1, p) = {}
          BY <3>2 DEF Breaks
        <5> QED BY <5>1, FS_EmptySet DEF BlockNumber
      <4>2. BlockStart(t, p) = 0
        <5>1. BlockStart(t, p) \in 0..p
          BY <2>1, BlockStartIs
        <5> QED BY <5>1, <3>2
      <4> QED BY <3>1, <3>2, <4>1, <4>2, <1>1, PromptIs DEF InZone
    <3> QED BY <3>2
  <2>3. PICK from \in {p - 1, PreviousWord(t, p)} : doc' = Spliced(doc, from, p, <<>>)
    BY <1>3 DEF Backspace
  <2>4. p \in 1..Len(t) /\ PreviousWord(t, p) \in 0..(p - 1)
    BY <2>1, <2>2, WordIs
  <2>5. from \in 0..Len(t) /\ p \in from..Len(t) /\ from \in 0..(p - 1)
    BY <2>1, <2>4
  <2>6. doc' \in Document /\ \A k \in 0..from : Keeps(t, doc'.text, k)
    BY <1>1, <2>3, <2>5, SplicedIs, Texts
  <2>7. ASSUME NEW k, Boundary(t, k), ~BackspaceHole PROVE k \in 0..from
    <3>0. ZoneHolds(doc, lines, p)
      BY <1>1, <1>3, CursorAlone DEF Backspace, IsSelectionInEditionZone, SelectionHolds
    <3>1. k \in 0..p
      BY <1>1, <2>7, <3>0, SelectionInZone
    <3>2. k # p
      <4>1. ~AtPrompt(doc)
        BY DEF Backspace
      <4>2. ASSUME k = p PROVE FALSE
        <5>1. BlockNumber(t, p) = promptParagraph /\ p = BlockStart(t, p) + Len(Prompt)
          BY <2>7, <4>2 DEF Boundary
        <5>2. Column(t, lines, p) = Len(Prompt)
          <6> DEFINE b == BlockStart(t, p)
                     l == LineStart(t, lines, p)
          <6>1. l \in b..p /\ b \in 0..p /\ p \in Nat /\ Len(Prompt) \in Nat
            BY <2>1, LineStartIs, BlockStartIs, PromptIs
          <6>2. Column(t, lines, p) = p - l /\ Column(t, lines, p) >= Len(Prompt)
            BY <1>1, <3>0, <5>1, PromptBlockOnly DEF Column
          <6> HIDE DEF b, l
          <6>3. p = b + Len(Prompt)
            BY <5>1 DEF b
          <6>4. l = b
            BY <6>1, <6>2, <6>3
          <6> QED BY <6>1, <6>2, <6>3, <6>4
        <5> QED BY <4>1, <5>1, <5>2 DEF AtPrompt
      <4> QED BY <4>2
    <3>3. ~(PreviousWord(t, p) < k)
      BY <1>3, <2>7 DEF BackspaceHole
    <3> HIDE DEF t, p
    <3> QED BY <2>1, <2>4, <3>1, <3>2, <3>3
  <2>8. ASSUME ~BackspaceHole PROVE Spares
    <3> SUFFICES ASSUME NEW k, Boundary(doc.text, k) PROVE Keeps(doc.text, doc'.text, k)
      BY DEF Spares
    <3>1. k \in 0..from
      BY <2>7, <2>8
    <3> QED BY <3>1, <2>6
  <2> QED BY <2>6, <2>8
<1>4. doc' \in Document /\ (Spares \/ BackspaceHole)
  BY <1>2, <1>3
<1> QED BY <1>4, TypeIs, EditsKeepHistory DEF Backspace, Edits, Unlocked

LEMMA TabStep ==
  ASSUME QTypeOK, Tab
  PROVE  Edited
<1>1. doc \in Document /\ promptParagraph \in Nat /\ IsSelectionInEditionZone(doc)
  BY TypeIs DEF Tab
<1>2. PICK list \in Suggestions :
        \/ list = {} /\ doc' = InsertText(doc, <<Blank>>)
        \/ \E s \in list : doc' = ReplaceCurrentCommand(doc, s)
        \/ Dismissed(list)
  BY DEF Tab
<1>3. ASSUME doc' = InsertText(doc, <<Blank>>) PROVE doc' \in Document /\ Spares
  <2>1. Behind(doc) /\ <<Blank>> \in Text
    BY <1>1, SelectionBehind, Texts DEF IsSelectionInEditionZone
  <2> QED BY <1>1, <1>3, <2>1, InsertSpares
<1>4. ASSUME \E s \in list : doc' = ReplaceCurrentCommand(doc, s) PROVE doc' \in Document /\ Spares
  <2>1. PICK s \in list : doc' = ReplaceCurrentCommand(doc, s)
    BY <1>4
  <2>2. s \in Text
    BY TextAssumption
  <2>3. IsInEditionZone(doc, doc.position)
    <3>1. doc.position = Start(doc) \/ doc.position = End(doc)
      <4>1. /\ Start(doc) \in {doc.position, doc.anchor} /\ End(doc) \in {doc.position, doc.anchor}
            /\ Start(doc) <= doc.position /\ doc.position <= End(doc)
            /\ doc.position \in Nat /\ doc.anchor \in Nat
        BY <1>1, SelectionIs, DocumentIs
      <4> QED BY <4>1
    <3> QED BY <1>1, <3>1 DEF IsSelectionInEditionZone, IsInEditionZone, SelectionHolds
  <2> QED BY <1>1, <2>1, <2>2, <2>3, ReplaceSpares
<1>5. ASSUME Dismissed(list) PROVE doc' \in Document /\ Spares
  <2>1. doc' = doc
    BY <1>5 DEF Dismissed
  <2>2. doc' \in Document /\ doc'.text = doc.text
    BY <1>1, <2>1
  <2> QED BY <1>1, <2>2, SameTextSpares
<1>6. doc' \in Document /\ Spares
  BY <1>2, <1>3, <1>4, <1>5
<1> QED BY <1>6, TypeIs, EditsKeepHistory DEF Edited, Tab, Edits, Unlocked

\* The keys of the history, and Home that goes on as Down.
LEMMA RecallStep ==
  ASSUME QTypeOK, NEW d \in Document, d.text = doc.text, IsInEditionZone(d, d.position),
         HandleUp(d) \/ HandleDown(d), UNCHANGED <<promptParagraph, history, isLocked>>
  PROVE  Edited
<1>1. HistoryOK /\ promptParagraph \in Nat /\ isLocked \in BOOLEAN
  BY TypeIs
<1>2. doc' \in Document /\ historyIndex' \in 0..Len(history)
  BY <1>1, HandleIs
<1>3. Spares
  <2> SUFFICES ASSUME NEW k, Boundary(doc.text, k) PROVE Keeps(doc.text, doc'.text, k)
    BY DEF Spares
  <2>1. k \in 0..Len(d.text) /\ d.position \in 0..Len(d.text) /\ d.text \in Text
    BY DocumentIs DEF Boundary
  <2>2. k <= d.position
    BY <1>1, <2>1, SelectionInZone DEF IsInEditionZone
  <2>3. k <= BlockStart(d.text, d.position) + Len(Prompt)
    BY <1>1, <2>1, <2>2, BoundaryIs
  <2> QED BY <1>1, <2>1, <2>3, HandleIs
<1>4. HistoryOK'
  BY <1>1, <1>2 DEF HistoryOK
<1> QED BY <1>1, <1>2, <1>3, <1>4 DEF Edited

LEMMA UpDownStep ==
  ASSUME QTypeOK, Up \/ Down
  PROVE  Edited
<1>1. /\ doc \in Document /\ IsInEditionZone(doc, doc.position)
      /\ HandleUp(doc) \/ HandleDown(doc)
      /\ UNCHANGED <<promptParagraph, history, isLocked>>
  BY TypeIs DEF Up, Down, Unlocked
<1> QED BY <1>1, RecallStep

LEMMA HomeStep ==
  ASSUME QTypeOK, Home
  PROVE  Edited
<1>1. doc \in Document /\ HistoryOK /\ promptParagraph \in Nat /\ isLocked \in BOOLEAN
  BY TypeIs
<1>2. PICK select \in BOOLEAN :
        /\ Unlocked /\ UNCHANGED history
        /\ IF IsInEditionZone(AfterHome(select), AfterHome(select).position) /\ history # <<>>
           THEN HandleDown(AfterHome(select))
           ELSE doc' = AfterHome(select) /\ UNCHANGED historyIndex
  BY DEF Home
<1> DEFINE d == AfterHome(select)
           t == doc.text
           start == BlockStart(t, doc.position)
           home == IF BlockNumber(t, start) = promptParagraph
                   THEN Right(t, start, Len(Prompt)) ELSE start
<1>3. d \in Document /\ d.text = doc.text
  <2>1. /\ t \in Text /\ Len(t) \in Nat /\ doc.position \in 0..Len(t) /\ doc.anchor \in 0..Len(t)
        /\ Len(Prompt) \in Nat
    BY <1>1, DocumentIs, PromptIs
  <2>2. start \in 0..Len(t)
    BY <2>1, BlockStartIs
  <2>3. Right(t, start, Len(Prompt)) \in start..Len(t)
    <3> HIDE DEF t, start
    <3> QED BY <2>1, <2>2, RightIs
  <2>4. home \in 0..Len(t)
    <3> HIDE DEF t, start
    <3> QED BY <2>1, <2>2, <2>3
  <2>5. d = Placed(doc, home, IF select THEN doc.anchor ELSE home)
    BY DEF AfterHome
  <2> HIDE DEF d, home
  <2>6. CASE select
    BY <1>1, <2>1, <2>4, <2>5, <2>6, PlacedIs
  <2>7. CASE ~select
    BY <1>1, <2>1, <2>4, <2>5, <2>7, PlacedIs
  <2> QED BY <2>6, <2>7
<1>4. CASE IsInEditionZone(d, d.position) /\ HandleDown(d)
  BY <1>2, <1>3, <1>4, RecallStep DEF Unlocked
<1>5. CASE doc' = d /\ UNCHANGED historyIndex
  <2>1. doc' \in Document /\ doc'.text = doc.text
    BY <1>3, <1>5
  <2>2. Spares
    BY <1>1, <2>1, SameTextSpares
  <2>3. HistoryOK'
    BY <1>2, <1>5, EditsKeepHistory
  <2> QED BY <1>1, <1>2, <2>1, <2>2, <2>3 DEF Edited, Unlocked
<1> QED BY <1>2, <1>4, <1>5

LEMMA RecordedIs ==
  ASSUME HistoryOK, NEW command \in Text, Breaks(command, 1, Len(command)) = {},
         history' = Append(history, command), historyIndex' = Len(history')
  PROVE  HistoryOK'
<1>1. history \in Seq(Text) /\ Len(history) \in Nat
  BY LenProperties DEF HistoryOK
<1>2. /\ history' \in Seq(Text) /\ Len(history') = Len(history) + 1
      /\ \A i \in 1..Len(history) : history'[i] = history[i]
      /\ history'[Len(history) + 1] = command
  BY <1>1, AppendProperties
<1>3. ASSUME NEW i \in 1..Len(history')
      PROVE  Breaks(history'[i], 1, Len(history'[i])) = {}
  <2>1. CASE i \in 1..Len(history)
    BY <1>2, <2>1 DEF HistoryOK
  <2>2. CASE i = Len(history) + 1
    BY <1>2, <2>2
  <2> QED BY <1>1, <1>2, <2>1, <2>2
<1>4. historyIndex' \in 0..Len(history')
  BY <1>1, <1>2
<1> QED BY <1>2, <1>3, <1>4 DEF HistoryOK

LEMMA ReturnStep ==
  ASSUME QTypeOK, Return
  PROVE  Edited
<1>1. doc \in Document /\ HistoryOK /\ promptParagraph \in Nat /\ isLocked \in BOOLEAN
  BY TypeIs
<1> DEFINE command == GetCurrentCommand(doc)
<1>2. CASE command \notin Incomplete
  <2>1. PExecCommand(command)
    BY <1>2 DEF Return
  <2>2. command \in Text /\ Breaks(command, 1, Len(command)) = {}
    BY <1>1, CommandIs
  <2> HIDE DEF command
  <2>3. HistoryOK'
    BY <1>1, <2>1, <2>2, RecordedIs DEF PExecCommand
  <2>4. doc' \in Document /\ doc'.text = doc.text /\ promptParagraph' = promptParagraph /\ isLocked' = TRUE
    BY <1>1, <2>1 DEF PExecCommand
  <2>5. Spares
    BY <1>1, <2>4, SameTextSpares
  <2> QED BY <1>1, <2>3, <2>4, <2>5 DEF Edited
<1>3. CASE command \in Incomplete
  <2> DEFINE d == Appended(doc, <<>>)
  <2>1. Edits /\ \E w : doc' = Placed(d, LineEnd(d.text, w, d.position), LineEnd(d.text, w, d.position))
    BY <1>3 DEF Return
  <2>2. d \in Document /\ \A k \in 0..Len(doc.text) : Keeps(doc.text, d.text, k)
    BY <1>1, Texts, AppendedIs
  <2> HIDE DEF d
  <2>3. PICK w : doc' = Placed(d, LineEnd(d.text, w, d.position), LineEnd(d.text, w, d.position))
    BY <2>1
  <2> DEFINE p == LineEnd(d.text, w, d.position)
  <2>4. p \in 0..Len(d.text)
    <3>1. d.text \in Text /\ Len(d.text) \in Nat /\ d.position \in 0..Len(d.text)
      BY <2>2, DocumentIs
    <3>2. p \in d.position..Len(d.text)
      BY <3>1, LineEndIs
    <3> QED BY <3>1, <3>2
  <2>5. doc' \in Document /\ doc'.text = d.text
    BY <2>2, <2>3, <2>4, PlacedIs
  <2>6. Spares
    BY <2>2, <2>5 DEF Spares, Boundary
  <2> QED BY <1>1, <2>1, <2>5, <2>6, EditsKeepHistory DEF Edited, Edits, Unlocked
<1> QED BY <1>2, <1>3

LEMMA MenuStep ==
  ASSUME QTypeOK, Cut \/ (\E s \in Foreign : PasteMenu(s))
  PROVE  Edited
<1>1. doc \in Document /\ promptParagraph \in Nat /\ isLocked \in BOOLEAN
  BY TypeIs
<1>2. ASSUME Cut PROVE doc' \in Document /\ Spares /\ Edits
  <2>1. IsSelectionInEditionZone(doc) /\ doc' = InsertText(doc, <<>>) /\ Edits
    BY <1>2 DEF Cut
  <2>2. Behind(doc) /\ <<>> \in Text
    BY <1>1, <2>1, SelectionBehind, Texts DEF IsSelectionInEditionZone
  <2> QED BY <1>1, <2>1, <2>2, InsertSpares
<1>3. ASSUME NEW s \in Foreign, PasteMenu(s) PROVE doc' \in Document /\ Spares /\ Edits
  <2>1. s \in Text /\ doc' = Pasted(doc, lines, s) /\ Edits
    BY <1>3, TextAssumption DEF PasteMenu
  <2> QED BY <1>1, <2>1, PasteSpares
<1>4. doc' \in Document /\ Spares /\ Edits
  BY <1>2, <1>3
<1> QED BY <1>1, <1>4, EditsKeepHistory DEF Edited, Edits, Unlocked

\* The menu's Delete looks at the cursor only.
LEMMA DelStep ==
  ASSUME QTypeOK, Del
  PROVE  /\ doc' \in Document /\ (Spares \/ HasSelection(doc))
         /\ HistoryOK' /\ promptParagraph' \in Nat /\ isLocked' \in BOOLEAN
<1>1. doc \in Document /\ promptParagraph \in Nat
  BY TypeIs
<1>2. IsInEditionZone(doc, doc.position) /\ doc' = DeleteChar(doc)
  BY DEF Del
<1>3. doc' \in Document
  BY <1>1, <1>2, DeleteIs
<1>4. ASSUME ~HasSelection(doc) PROVE Spares
  <2>1. IsSelectionInEditionZone(doc)
    BY <1>1, <1>2, <1>4, CursorAlone DEF IsSelectionInEditionZone, SelectionHolds, IsInEditionZone
  <2>2. Behind(doc)
    BY <1>1, <2>1, SelectionBehind DEF IsSelectionInEditionZone
  <2> QED BY <1>1, <1>2, <2>2, DeleteSpares
<1> QED BY <1>3, <1>4, TypeIs, EditsKeepHistory DEF Del, Edits, Unlocked

LEMMA UncommandedKeeps ==
  ASSUME QTypeOK, Uncommanded
  PROVE  HistoryOK' /\ promptParagraph' \in Nat /\ isLocked' \in BOOLEAN
BY TypeIs, EditsKeepHistory DEF Uncommanded

LEMMA MoveCursorStep ==
  ASSUME QTypeOK, NEW p, NEW a, MoveCursor(p, a)
  PROVE  Edited
<1>1. doc \in Document
  BY TypeIs
<1>2. doc' \in Document /\ doc'.text = doc.text
  BY <1>1, PlacedIs DEF MoveCursor
<1>3. Spares
  BY <1>1, <1>2, SameTextSpares
<1> QED BY <1>2, <1>3, UncommandedKeeps DEF Edited, MoveCursor

LEMMA SelectedIs ==
  ASSUME NEW d \in Document
  PROVE  Selected(d) \in Text
<1>1. Start(d) \in Nat /\ End(d) \in 0..Len(d.text) /\ d.text \in Text
  BY SelectionIs, DocumentIs
<1> QED BY <1>1, Piece DEF Selected

LEMMA PasteStep ==
  ASSUME QTypeOK, NEW p, NEW s \in Foreign, MiddleClick(p, s) \/ Drop(p, s)
  PROVE  Edited
<1>1. doc \in Document /\ promptParagraph \in Nat /\ p \in 0..Len(doc.text) /\ Uncommanded
  BY TypeIs DEF MiddleClick, Drop
<1> DEFINE d == Placed(doc, p, p)
           r == IF HasSelection(doc) THEN Selected(doc) ELSE s
<1>2. d \in Document /\ d.text = doc.text
  BY <1>1, PlacedIs
<1>3. s \in Text /\ r \in Text
  BY <1>1, TextAssumption, SelectedIs
<1>4. doc' = Pasted(d, lines, r) \/ doc' = Pasted(d, lines, s)
  BY DEF MiddleClick, Drop
<1> HIDE DEF d, r
<1>5. doc' \in Document /\ Spares
  BY <1>1, <1>2, <1>3, <1>4, PasteSpares
<1> QED BY <1>1, <1>5, UncommandedKeeps DEF Edited

\* A selection that is moved is cut where it was.
LEMMA DropSelectionStep ==
  ASSUME QTypeOK, NEW p, NEW moves \in BOOLEAN, DropSelection(p, moves)
  PROVE  /\ doc' \in Document /\ (Spares \/ moves)
         /\ HistoryOK' /\ promptParagraph' \in Nat /\ isLocked' \in BOOLEAN
<1>1. doc \in Document /\ promptParagraph \in Nat /\ p \in 0..Len(doc.text) /\ Uncommanded
  BY TypeIs DEF DropSelection
<1> DEFINE marked == Placed(doc, p, p)
           cut == Spliced(marked, Start(doc), End(doc), <<>>)
<1>2. marked \in Document /\ marked.text = doc.text
  BY <1>1, PlacedIs
<1>3. Selected(doc) \in Text
  BY <1>1, SelectedIs
<1>4. PICK w : \/ moves /\ doc' = Pasted(cut, w, Selected(doc))
               \/ doc' = Pasted(marked, w, Selected(doc))
  BY DEF DropSelection
<1>5. cut \in Document
  <2>1. Start(doc) \in 0..Len(marked.text) /\ End(doc) \in Start(doc)..Len(marked.text)
    BY <1>1, <1>2, SelectionIs
  <2> HIDE DEF marked
  <2> QED BY <1>2, <2>1, Texts, SplicedIs
<1> HIDE DEF marked, cut
<1>6. doc' \in Document /\ (Spares \/ moves)
  BY <1>1, <1>2, <1>3, <1>4, <1>5, PastedIs, PasteSpares
<1> QED BY <1>1, <1>6, UncommandedKeeps

LEMMA RemoveSelectionStep ==
  ASSUME QTypeOK, RemoveSelection
  PROVE  /\ doc' \in Document /\ HistoryOK' /\ promptParagraph' \in Nat /\ isLocked' \in BOOLEAN
<1>1. doc \in Document
  BY TypeIs
<1> QED BY <1>1, Texts, InsertIs, UncommandedKeeps DEF RemoveSelection

LEMMA PrintPartStep ==
  ASSUME QTypeOK, NEW result \in Result, PrintPart(result)
  PROVE  Edited
<1>1. doc \in Document /\ result \in Text /\ doc' = AtEnd(Appended(doc, result)) /\ Uncommanded
  BY TypeIs, TextAssumption DEF PrintPart
<1> DEFINE d == Appended(doc, result)
<1>2. d \in Document /\ \A k \in 0..Len(doc.text) : Keeps(doc.text, d.text, k)
  BY <1>1, AppendedIs
<1> HIDE DEF d
<1>3. doc' \in Document /\ doc'.text = d.text
  BY <1>1, <1>2, AtEndIs DEF d
<1>4. Spares
  BY <1>2, <1>3 DEF Spares, Boundary
<1> QED BY <1>1, <1>3, <1>4, UncommandedKeeps DEF Edited

LEMMA KeepsOn ==
  ASSUME NEW t, NEW u, NEW v, NEW k, Len(t) \in Nat, Len(u) \in Nat, Keeps(t, u, k), Keeps(u, v, k)
  PROVE  Keeps(t, v, k)
BY DEF Keeps

LEMMA PrintEndStep ==
  ASSUME QTypeOK, NEW result \in Result, PrintEnd(result)
  PROVE  /\ doc' \in Document /\ (Spares \/ ~Behind(doc))
         /\ HistoryOK' /\ promptParagraph' \in Nat /\ isLocked' \in BOOLEAN
<1>1. doc \in Document /\ promptParagraph \in Nat /\ result \in Text
  BY TypeIs, TextAssumption
<1> DEFINE d == Appended(doc, result)
           e == IF EndsWithNewLine(result) THEN d ELSE Appended(d, <<NewLine>>)
           f == Prompted(e)
<1>2. doc' = AtEnd(f) /\ promptParagraph' = PromptBlock(e)
  BY DEF PrintEnd
<1>3. /\ d \in Document
      /\ \A k \in 0..Len(doc.text) :
           Keeps(doc.text, d.text, k) /\ (k <= Start(doc) => k <= Start(d))
  BY <1>1, AppendedIs
<1> HIDE DEF d
<1>4. /\ e \in Document
      /\ \A k \in 0..Len(d.text) : Keeps(d.text, e.text, k) /\ (k <= Start(d) => k <= Start(e))
  <2>1. CASE EndsWithNewLine(result)
    <3>1. \A k \in 0..Len(d.text) : Keeps(d.text, d.text, k)
      BY <1>3, DocumentIs DEF Keeps
    <3> QED BY <1>3, <2>1, <3>1
  <2>2. CASE ~EndsWithNewLine(result)
    <3>1. <<NewLine>> \in Text
      BY Texts
    <3> QED BY <1>3, <2>2, <3>1, AppendedIs
  <2> QED BY <2>1, <2>2
<1> HIDE DEF e
<1>5. f \in Document /\ \A k \in 0..Start(e) : Keeps(e.text, f.text, k)
  BY <1>4, Texts, InsertIs DEF Prompted
<1> HIDE DEF f
<1>6. doc' \in Document /\ doc'.text = f.text
  BY <1>2, <1>5, AtEndIs
<1>7. ASSUME Behind(doc), NEW k, Boundary(doc.text, k)
      PROVE  Keeps(doc.text, doc'.text, k)
  <2>1. k \in 0..Start(doc) /\ k \in 0..Len(doc.text)
    BY <1>7 DEF Boundary, Behind
  <2>2. Start(doc) \in Nat /\ Start(d) \in Nat /\ Start(e) \in Nat
    BY <1>1, <1>3, <1>4, SelectionIs
  <2>3. Keeps(doc.text, d.text, k) /\ k <= Start(d)
    BY <1>3, <2>1, <2>2
  <2>4. Len(doc.text) \in Nat /\ Len(d.text) \in Nat /\ Len(e.text) \in Nat /\ Len(f.text) \in Nat
    BY <1>1, <1>3, <1>4, <1>5, DocumentIs
  <2>5. k \in 0..Len(d.text)
    BY <2>1, <2>3, <2>4 DEF Keeps
  <2>6. Keeps(d.text, e.text, k) /\ k <= Start(e)
    BY <1>4, <2>3, <2>5
  <2>7. Keeps(e.text, f.text, k)
    BY <1>5, <2>1, <2>2, <2>6
  <2>8. Keeps(doc.text, f.text, k)
    BY <2>3, <2>4, <2>6, <2>7, KeepsOn
  <2> QED BY <2>8, <1>6
<1>8. promptParagraph' \in Nat
  <2>1. Start(e) \in Nat
    BY <1>4, SelectionIs
  <2> QED BY <1>2, <2>1, BreaksFinite DEF PromptBlock
<1>9. HistoryOK' /\ isLocked' \in BOOLEAN
  BY EditsKeepHistory DEF PrintEnd
<1> QED BY <1>6, <1>7, <1>8, <1>9 DEF Spares

-------------------------------------------------------------------------------
(***************************************************************************)
(* The type invariant                                                      *)
(***************************************************************************)
LEMMA InitType == QInit => QTypeOK
<1> SUFFICES ASSUME QInit PROVE QTypeOK
  OBVIOUS
<1> DEFINE empty == [text |-> <<>>, position |-> 0, anchor |-> 0]
           first == Appended(empty, Welcome)
           d == Appended(first, <<>>)
<1>1. empty \in Document
  <2>1. empty \in [text : Text, position : Nat, anchor : Nat]
    BY Texts
  <2>2. empty.position <= Len(empty.text) /\ empty.anchor <= Len(empty.text)
    OBVIOUS
  <2> HIDE DEF empty
  <2> QED BY <2>1, <2>2 DEF Document
<1>2. /\ doc = Prompted(d) /\ promptParagraph = PromptBlock(d)
      /\ history = <<>> /\ historyIndex = 0 /\ isLocked = FALSE /\ lines = {}
  BY DEF QInit
<1> HIDE DEF empty
<1>3. first \in Document
  BY <1>1, Texts, AppendedIs
<1> HIDE DEF first
<1>4. d \in Document
  BY <1>3, Texts, AppendedIs
<1> HIDE DEF d
<1>5. doc \in Document
  BY <1>2, <1>4, Texts, InsertIs DEF Prompted
<1>6. promptParagraph \in Nat
  <2>1. Start(d) \in Nat
    BY <1>4, SelectionIs
  <2> QED BY <1>2, <2>1, BreaksFinite DEF PromptBlock
<1>7. HistoryOK
  <2>1. <<>> \in Seq(Text) /\ Len(<<>>) = 0
    BY EmptySeq
  <2> QED BY <1>2, <2>1 DEF HistoryOK
<1>8. lines \in Layouts(doc.text)
  BY <1>2 DEF Layouts
<1> QED BY <1>2, <1>5, <1>6, <1>7, <1>8, TypeIs

\* Each step, and what the steps that do not spare the zone's text are.
Holes ==
  \/ BackspaceHole /\ Backspace
  \/ HasSelection(doc) /\ (Del \/ RemoveSelection \/ \E p \in Places : DropSelection(p, TRUE))
  \/ ~Behind(doc) /\ \E result \in Result : PrintEnd(result)

LEMMA LaidOutIs ==
  ASSUME QTypeOK, LaidOut
  PROVE  lines' \in Layouts(doc.text)'
<1> DEFINE same == <<doc.text, promptParagraph>>' = <<doc.text, promptParagraph>>
<1>1. lines \in Layouts(doc.text) /\ lines' \in (IF same THEN {lines} ELSE Layouts(doc.text)')
  BY TypeIs DEF LaidOut
<1>2. CASE same
  <2>1. doc.text' = doc.text /\ promptParagraph' = promptParagraph
    BY <1>2
  <2>2. Layouts(doc.text)' = Layouts(doc.text)
    BY <2>1 DEF Layouts, Wrapped
  <2> QED BY <1>1, <1>2, <2>2
<1>3. CASE ~same
  BY <1>1, <1>3
<1> QED BY <1>2, <1>3

LEMMA StepIs ==
  ASSUME QTypeOK, Step, LaidOut
  PROVE  QTypeOK' /\ (Spares \/ Holes)
<1> DEFINE Goal == /\ doc' \in Document /\ (Spares \/ Holes)
                   /\ HistoryOK' /\ promptParagraph' \in Nat /\ isLocked' \in BOOLEAN
<1>1. ASSUME Keys PROVE Goal
  <2>1. ASSUME NEW c \in Key \cup {Blank}, TypeCharacter(c) PROVE Goal
    BY <2>1, TypeCharacterStep DEF Edited
  <2>2. CASE DeleteKey
    BY <2>2, DeleteKeyStep DEF Edited
  <2>3. CASE Backspace
    BY <2>3, BackspaceStep DEF Holes
  <2>4. CASE Tab
    BY <2>4, TabStep DEF Edited
  <2>5. CASE Up \/ Down
    BY <2>5, UpDownStep DEF Edited
  <2>6. CASE Home
    BY <2>6, HomeStep DEF Edited
  <2>7. CASE Return
    BY <2>7, ReturnStep DEF Edited
  <2>8. ASSUME NEW s \in Foreign, PasteKey(s) PROVE Goal
    BY <2>8, PasteKeyStep DEF Edited
  <2> HIDE DEF Goal
  <2> QED BY <1>1, <2>1, <2>2, <2>3, <2>4, <2>5, <2>6, <2>7, <2>8 DEF Keys
<1>2. ASSUME Menu PROVE Goal
  <2>1. CASE Cut \/ \E s \in Foreign : PasteMenu(s)
    BY <2>1, MenuStep DEF Edited
  <2>2. CASE Del
    BY <2>2, DelStep DEF Holes
  <2> HIDE DEF Goal
  <2> QED BY <1>2, <2>1, <2>2 DEF Menu
<1>3. ASSUME Mouse PROVE Goal
  <2>1. ASSUME NEW p \in Near, NEW s \in Foreign, MiddleClick(p, s) \/ Drop(p, s) PROVE Goal
    BY <2>1, PasteStep DEF Edited
  <2>2. ASSUME NEW p \in Near, NEW moves \in BOOLEAN, DropSelection(p, moves) PROVE Goal
    <3>1. p \in Places /\ HasSelection(doc)
      BY <2>2 DEF DropSelection, Places
    <3>2. moves => Holes
      <4>1. ASSUME moves PROVE DropSelection(p, TRUE)
        <5>1. moves = TRUE
          BY <4>1
        <5> QED BY <2>2, <5>1
      <4> QED BY <3>1, <4>1 DEF Holes
    <3> QED BY <2>2, <3>2, DropSelectionStep
  <2>3. CASE RemoveSelection
    <3>1. Holes
      BY <2>3 DEF RemoveSelection, Holes
    <3> QED BY <2>3, <3>1, RemoveSelectionStep
  <2> HIDE DEF Goal
  <2> QED BY <1>3, <2>1, <2>2, <2>3 DEF Mouse
<1>4. ASSUME NEW result \in Result, PrintPart(result) PROVE Goal
  BY <1>4, PrintPartStep DEF Edited
<1>5. ASSUME NEW result \in Result, PrintEnd(result) PROVE Goal
  BY <1>5, PrintEndStep DEF Holes
<1>6. ASSUME NEW c \in Near \X Near, MoveCursor(c[1], c[2]) PROVE Goal
  BY <1>6, MoveCursorStep DEF Edited
<1>7. Goal
  <2> HIDE DEF Goal
  <2> QED BY <1>1, <1>2, <1>3, <1>4, <1>5, <1>6 DEF Step
<1> QED BY <1>7, LaidOutIs, TypeIsNext

LEMMA ResizeIs ==
  ASSUME QTypeOK, Resize
  PROVE  QTypeOK'
<1>1. /\ doc' = doc /\ UNCHANGED <<promptParagraph, history, historyIndex, isLocked>>
      /\ lines' \in Layouts(doc.text)
  BY DEF Resize, Uncommanded
<1>2. lines' \in Layouts(doc.text)'
  BY <1>1 DEF Layouts, Wrapped
<1>3. HistoryOK'
  BY <1>1, EditsKeepHistory
<1> QED BY <1>1, <1>2, <1>3, TypeIs, TypeIsNext

\* The cursor stays inside the text and the history index inside the history
\* (QConsole.cpp, every handler that edits).
THEOREM CursorStaysInside == QSpec => []QTypeOK
<1>1. ASSUME QTypeOK, [QNext]_qvars PROVE QTypeOK'
  <2>1. CASE QNext
    BY <1>1, <2>1, StepIs, ResizeIs DEF QNext
  <2>2. CASE UNCHANGED qvars
    BY <1>1, <2>2 DEF qvars, QTypeOK, End, Layouts, Wrapped
  <2> QED BY <1>1, <2>1, <2>2
<1> QED BY InitType, <1>1, PTL DEF QSpec

-------------------------------------------------------------------------------
(***************************************************************************)
(* What stands before the zone                                             *)
(***************************************************************************)
LEMMA ZoneStartIs ==
  ASSUME QTypeOK
  PROVE  ZoneStart \in 0..Len(doc.text)
<1> DEFINE t == doc.text
           block == {q \in Breaks(t, 1, Len(t)) \cup {0} : BlockNumber(t, q) = promptParagraph}
           T == {Right(t, q, Len(Prompt)) : q \in block} \cup {BlockEnd(t, q) + 1 : q \in block}
                  \cup {Len(t)}
<1>1. t \in Text /\ Len(t) \in Nat /\ Len(Prompt) \in Nat
  BY TypeIs, DocumentIs, PromptIs
<1>2. block \subseteq 0..Len(t)
  BY <1>1 DEF Breaks
<1> HIDE DEF t, block
<1>3. ASSUME NEW q \in block PROVE Right(t, q, Len(Prompt)) \in Nat /\ BlockEnd(t, q) + 1 \in Nat
  <2>1. q \in 0..Len(t)
    BY <1>2
  <2>2. Right(t, q, Len(Prompt)) \in q..Len(t)
    BY <1>1, <2>1, RightIs
  <2>3. BlockEnd(t, q) \in q..Len(t)
    BY <1>1, <2>1, BlockEndIs
  <2> QED BY <2>1, <2>2, <2>3
<1>4. T \subseteq Nat /\ T # {} /\ Len(t) \in T
  BY <1>1, <1>3
<1>5. ZoneStart = Min(T)
  BY DEF ZoneStart, t, block
<1> HIDE DEF T
<1>6. Min(T) \in T /\ Min(T) <= Len(t)
  BY <1>4, MinIs
<1>7. Min(T) \in Nat
  BY <1>4, <1>6
<1> QED BY <1>1, <1>5, <1>6, <1>7 DEF t

LEMMA StandsIs ==
  ASSUME QTypeOK, PromptStands
  PROVE  Boundary(doc.text, ZoneStart)
<1> DEFINE t == doc.text
           z == ZoneStart
<1>1. t \in Text /\ Len(t) \in Nat /\ z \in 0..Len(t) /\ Len(Prompt) \in Nat \ {0}
  BY TypeIs, DocumentIs, PromptIs, ZoneStartIs
<1>2. BlockNumber(t, z) = promptParagraph /\ SubSeq(t, BlockStart(t, z) + 1, z) = Prompt
  BY DEF PromptStands
<1> HIDE DEF t, z
<1>3. BlockStart(t, z) \in 0..z
  BY <1>1, BlockStartIs
<1>4. Len(SubSeq(t, BlockStart(t, z) + 1, z)) =
        IF BlockStart(t, z) < z THEN z - BlockStart(t, z) ELSE 0
  BY <1>1, <1>3, Piece
<1>5. z = BlockStart(t, z) + Len(Prompt)
  BY <1>1, <1>2, <1>3, <1>4
<1> QED BY <1>1, <1>2, <1>5 DEF Boundary, t, z

LEMMA OneBoundary ==
  ASSUME NEW t \in Text, promptParagraph \in Nat, NEW k, Boundary(t, k), NEW m, Boundary(t, m)
  PROVE  k = m
<1>1. k \in 0..Len(t) /\ m \in 0..Len(t) /\ Len(t) \in Nat
  BY Lengths DEF Boundary
<1>2. k <= m /\ m <= k
  BY <1>1, BoundaryIs
<1> QED BY <1>1, <1>2

LEMMA StepProtects ==
  ASSUME QTypeOK, [QNext]_qvars, doc'.text # doc.text, PromptStands, ~Kept
  PROVE  Hole
<1>1. Step /\ LaidOut
  BY DEF qvars, QNext, Resize
<1>2. Boundary(doc.text, ZoneStart) /\ promptParagraph \in Nat /\ doc \in Document
  BY StandsIs, TypeIs
<1>3. ~Spares
  BY <1>2 DEF Spares, Kept, Keeps
<1>4. Holes
  BY <1>1, <1>3, StepIs
<1>5. ASSUME BackspaceHole
      PROVE  ~HasSelection(doc) /\ PreviousWord(doc.text, doc.position) < ZoneStart
  <2>1. PICK k : Boundary(doc.text, k) /\ PreviousWord(doc.text, doc.position) < k
    BY <1>5 DEF BackspaceHole
  <2>2. k = ZoneStart
    BY <1>2, <2>1, OneBoundary, DocumentIs
  <2> QED BY <1>5, <2>1, <2>2 DEF BackspaceHole
<1>6. ASSUME ~Behind(doc) PROVE Start(doc) < ZoneStart
  <2>1. PICK k : Boundary(doc.text, k) /\ k \notin 0..Start(doc)
    BY <1>6 DEF Behind
  <2>2. k = ZoneStart
    BY <1>2, <2>1, OneBoundary, DocumentIs
  <2>3. k \in 0..Len(doc.text) /\ Start(doc) \in Nat /\ Len(doc.text) \in Nat
    BY <1>2, <2>1, SelectionIs, DocumentIs DEF Boundary
  <2> QED BY <2>1, <2>2, <2>3
<1> QED BY <1>4, <1>5, <1>6 DEF Holes, Hole

\* Keys, pastes, drops and results change nothing before the edition zone but
\* in the ways Hole names (keyPressEvent, insertFromMimeData, displayPrompt).
THEOREM TextIsProtected == QSpec => ProtectedText
<1>1. QTypeOK /\ [QNext]_qvars
        => [doc'.text # doc.text /\ PromptStands /\ ~Kept => Hole]_qvars
  BY StepProtects
<1> QED BY CursorStaysInside, <1>1, PTL DEF QSpec, ProtectedText

-------------------------------------------------------------------------------
(***************************************************************************)
(* What is shown is what is meant                                          *)
(***************************************************************************)
ZoneOf(t, number) ==
  LET block == {q \in Breaks(t, 1, Len(t)) \cup {0} : BlockNumber(t, q) = number}
  IN  Min({Right(t, q, Len(Prompt)) : q \in block} \cup {BlockEnd(t, q) + 1 : q \in block}
            \cup {Len(t)})

\* A boundary in the last block is where ZoneStart looks for it.
LEMMA ZoneOfIs ==
  ASSUME NEW t \in Text, NEW k \in 0..Len(t), k = BlockStart(t, k) + Len(Prompt),
         NoBreak(t, k + 1, Len(t))
  PROVE  ZoneOf(t, BlockNumber(t, k)) = k
<1> DEFINE b == BlockStart(t, k)
           n == BlockNumber(t, k)
           block == {q \in Breaks(t, 1, Len(t)) \cup {0} : BlockNumber(t, q) = n}
           T == {Right(t, q, Len(Prompt)) : q \in block} \cup {BlockEnd(t, q) + 1 : q \in block}
                  \cup {Len(t)}
<1>1. /\ Len(t) \in Nat /\ Len(Prompt) \in Nat /\ b \in 0..k /\ b \in 0..Len(t) /\ b \in Nat
      /\ k \in Nat /\ b + Len(Prompt) = k /\ n \in Nat
      /\ b = 0 \/ t[b] = NewLine
      /\ NoBreak(t, b + 1, k)
  BY Lengths, PromptIs, BlockStartIs, BreaksFinite
<1>2. NoBreak(t, b + 1, Len(t))
  BY <1>1 DEF NoBreak
<1>3. b \in block
  <2>1. BlockNumber(t, b) = n
    BY <1>1, BlockNumbers
  <2>2. b \in Breaks(t, 1, Len(t)) \cup {0}
    BY <1>1 DEF Breaks
  <2> QED BY <2>1, <2>2
<1>4. ASSUME NEW q \in block PROVE q = b
  <2>1. q \in Breaks(t, 1, Len(t)) \cup {0} /\ BlockNumber(t, q) = n /\ BlockNumber(t, b) = n
    BY <1>3
  <2>2. q \in Nat /\ q \in 0..Len(t) /\ (q = 0 \/ t[q] = NewLine)
    BY <1>1, <2>1 DEF Breaks
  <2> HIDE DEF b, n, block
  <2>3. ASSUME q < b PROVE FALSE
    <3>1. NoBreak(t, q + 1, b)
      BY <1>1, <2>1, <2>2, <2>3, BlockNumbers
    <3>2. b \in (q + 1)..b /\ t[b] = NewLine
      BY <1>1, <2>2, <2>3
    <3> QED BY <3>1, <3>2 DEF NoBreak
  <2>4. ASSUME q > b PROVE FALSE
    <3>1. q \in (b + 1)..Len(t) /\ t[q] = NewLine
      BY <1>1, <2>2, <2>4
    <3> QED BY <3>1, <1>2 DEF NoBreak
  <2> QED BY <1>1, <2>2, <2>3, <2>4
<1>5. block = {b}
  <2> HIDE DEF block, b
  <2> QED BY <1>3, <1>4
<1> HIDE DEF block, b, n
<1>6. Right(t, b, Len(Prompt)) = k /\ BlockEnd(t, b) = Len(t)
  BY <1>1, <1>2, RightIs, BlockEndUnique
<1>7. T = {k, Len(t) + 1, Len(t)}
  BY <1>5, <1>6
<1> HIDE DEF T
<1>8. Min(T) = k
  <2>1. T \subseteq Nat /\ k \in T /\ \A m \in T : k <= m
    BY <1>1, <1>7
  <2> QED BY <2>1, MinUnique
<1> QED BY <1>8 DEF ZoneOf, T, block, n

\* In a zone of one block, every place sees the same command.
LEMMA OneBlockIs ==
  ASSUME QTypeOK, OneBlock, NEW p \in ZoneStart..Len(doc.text)
  PROVE  /\ NoBreak(doc.text, ZoneStart + 1, Len(doc.text))
         /\ BlockStart(doc.text, p) = BlockStart(doc.text, ZoneStart)
         /\ Right(doc.text, BlockStart(doc.text, p), Len(Prompt)) = ZoneStart
         /\ BlockEnd(doc.text, p) = Len(doc.text) /\ BlockEnd(doc.text, ZoneStart) = Len(doc.text)
<1> DEFINE t == doc.text
           z == ZoneStart
<1>1. /\ t \in Text /\ Len(t) \in Nat /\ z \in 0..Len(t) /\ z \in Nat /\ Len(Prompt) \in Nat
      /\ p \in 0..Len(t) /\ p \in Nat /\ z <= p /\ p <= Len(t)
  BY TypeIs, DocumentIs, PromptIs, ZoneStartIs
<1>2. BlockNumber(t, z) = promptParagraph /\ z = BlockStart(t, z) + Len(Prompt)
  BY StandsIs DEF OneBlock, Boundary
<1>3. BlockNumber(t, Len(t)) = promptParagraph
  BY DEF OneBlock
<1> HIDE DEF t, z
<1>4. NoBreak(t, z + 1, Len(t))
  BY <1>1, <1>2, <1>3, BlockNumbers
<1>5. NoBreak(t, z + 1, p) /\ NoBreak(t, p + 1, Len(t))
  BY <1>1, <1>4 DEF NoBreak
<1>6. BlockStart(t, p) = BlockStart(t, z)
  BY <1>1, <1>5, SameBlock
<1>7. Right(t, BlockStart(t, z), Len(Prompt)) = z
  <2>1. BlockStart(t, z) \in 0..z
    BY <1>1, BlockStartIs
  <2>2. BlockStart(t, z) \in 0..Len(t)
    BY <2>1, <1>1
  <2> QED BY <1>1, <1>2, <2>2, RightIs
<1>8. BlockEnd(t, p) = Len(t) /\ BlockEnd(t, z) = Len(t)
  BY <1>1, <1>4, <1>5, BlockEndUnique
<1> QED BY <1>4, <1>6, <1>7, <1>8 DEF t, z

LEMMA CommandIsZone ==
  ASSUME QTypeOK, OneBlock, IsInEditionZone(doc, doc.position)
  PROVE  GetCurrentCommand(doc) = ZoneText /\ doc.position \in ZoneStart..Len(doc.text)
<1>1. doc \in Document /\ promptParagraph \in Nat /\ Boundary(doc.text, ZoneStart)
  BY TypeIs, StandsIs DEF OneBlock
<1>2. ZoneStart \in 0..doc.position /\ doc.position \in 0..Len(doc.text)
  BY <1>1, SelectionInZone, DocumentIs DEF IsInEditionZone
<1>3. doc.position \in ZoneStart..Len(doc.text)
  BY <1>1, <1>2, DocumentIs
<1>4. /\ Right(doc.text, BlockStart(doc.text, doc.position), Len(Prompt)) = ZoneStart
      /\ BlockEnd(doc.text, ZoneStart) = Len(doc.text)
  BY <1>3, OneBlockIs
<1> QED BY <1>3, <1>4 DEF GetCurrentCommand, ZoneText

\* Only Return records a command, and it is all of the zone.
LEMMA RecordsWhatIsShown ==
  ASSUME QTypeOK, QNext, history' # history, OneBlock
  PROVE  history' = Append(history, ZoneText)
<1>1. Return
  BY DEF QNext, Step, Resize, Keys, Menu, Mouse, TypeCharacter, DeleteKey, Backspace, Tab, Up, Down, Home,
         PasteKey, Cut, Del, PasteMenu, MiddleClick, Drop, DropSelection, RemoveSelection,
         PrintPart, PrintEnd, MoveCursor, Edits, Uncommanded
<1>2. IsSelectionInEditionZone(doc) /\ history' = Append(history, GetCurrentCommand(doc))
  BY <1>1 DEF Return, PExecCommand, Edits
<1>3. IsInEditionZone(doc, doc.position)
  <2>1. /\ Start(doc) \in {doc.position, doc.anchor} /\ End(doc) \in {doc.position, doc.anchor}
        /\ Start(doc) <= doc.position /\ doc.position <= End(doc)
        /\ doc.position \in Nat /\ doc.anchor \in Nat
    BY TypeIs, SelectionIs, DocumentIs
  <2>2. doc.position = Start(doc) \/ doc.position = End(doc)
    BY <2>1
  <2> QED BY <1>2, <2>2 DEF IsSelectionInEditionZone, SelectionHolds, IsInEditionZone
<1> QED BY <1>2, <1>3, CommandIsZone

\* A block that fits is one line.
LEMMA OneLine ==
  ASSUME QTypeOK, OneBlock, Fits(doc.text, ZoneStart), NEW p \in ZoneStart..Len(doc.text)
  PROVE  /\ LineStart(doc.text, lines, p) = BlockStart(doc.text, ZoneStart)
         /\ LineEnd(doc.text, lines, ZoneStart) = Len(doc.text)
<1> DEFINE t == doc.text
           z == ZoneStart
           b == BlockStart(t, z)
<1>1. /\ t \in Text /\ Len(t) \in Nat /\ z \in 0..Len(t) /\ z \in Nat /\ p \in 0..Len(t)
      /\ z <= p /\ p \in Nat /\ b \in 0..z /\ b \in Nat /\ NoBreak(t, b + 1, z)
  BY TypeIs, DocumentIs, ZoneStartIs, BlockStartIs
<1>2. /\ NoBreak(t, z + 1, Len(t)) /\ BlockStart(t, p) = b /\ BlockEnd(t, z) = Len(t)
  BY OneBlockIs
<1>3. lines \subseteq Wrapped(t) /\ Fits(t, z)
  BY TypeIs DEF Layouts
<1>4. ASSUME NEW q \in (b + 1)..Len(t), q \in lines PROVE FALSE
  <2>1. ~Fits(t, q) /\ q \in 0..Len(t) /\ q \in Nat
    BY <1>1, <1>3, <1>4 DEF Wrapped
  <2>2. BlockStart(t, q) = b
    <3>1. CASE z <= q
      <4>1. q \in z..Len(t)
        BY <1>1, <2>1, <3>1
      <4> QED BY <4>1, OneBlockIs
    <3>2. CASE q < z
      <4>1. NoBreak(t, q + 1, z)
        BY <1>1, <1>4, <2>1 DEF NoBreak
      <4> HIDE DEF t, z
      <4> QED BY <1>1, <2>1, <3>2, <4>1, SameBlock DEF b
    <3> QED BY <1>1, <2>1, <3>1, <3>2
  <2>3. BlockEnd(t, q) = Len(t)
    <3>1. NoBreak(t, q + 1, Len(t))
      <4> HIDE DEF t, z, b
      <4>1. ASSUME NEW i \in (q + 1)..Len(t) PROVE t[i] # NewLine
        <5>1. i \in (b + 1)..z \/ i \in (z + 1)..Len(t)
          BY <1>1, <1>4, <2>1
        <5> QED BY <5>1, <1>1, <1>2 DEF NoBreak
      <4> QED BY <4>1 DEF NoBreak
    <3> HIDE DEF t, z, b
    <3> QED BY <1>1, <2>1, <3>1, BlockEndUnique
  <2> HIDE DEF t, z
  <2>4. Fits(t, q) <=> Fits(t, z)
    BY <1>2, <2>2, <2>3 DEF Fits, b
  <2> QED BY <1>3, <2>1, <2>4
<1> HIDE DEF t, z, b
<1>5. LineStart(t, lines, p) = b
  <2>1. LineStart(t, lines, p) \in b..p /\ (LineStart(t, lines, p) \in lines \/ LineStart(t, lines, p) = b)
    BY <1>1, <1>2, LineStartIs
  <2>2. LineStart(t, lines, p) = b \/ LineStart(t, lines, p) \in (b + 1)..Len(t)
    BY <1>1, <2>1
  <2> QED BY <1>4, <2>1, <2>2
<1>6. LineEnd(t, lines, z) = Len(t)
  <2> DEFINE T == {q \in (z + 1)..Len(t) : q \in lines} \cup {Len(t)}
  <2>1. T = {Len(t)}
    <3>1. \A q \in (z + 1)..Len(t) : q \in (b + 1)..Len(t)
      BY <1>1
    <3> QED BY <1>4, <3>1
  <2> HIDE DEF T
  <2>2. Min(T) = Len(t)
    <3>1. T \subseteq Nat /\ Len(t) \in T /\ \A m \in T : Len(t) <= m
      BY <1>1, <2>1
    <3> QED BY <3>1, MinUnique
  <2>3. ~(Len(t) < Len(t))
    BY <1>1
  <2>4. LineEnd(t, lines, z) = IF Min(T) < Len(t) /\ t[Min(T)] = Blank THEN Min(T) - 1 ELSE Min(T)
    BY <1>2 DEF LineEnd, T
  <2> QED BY <2>2, <2>3, <2>4
<1> QED BY <1>5, <1>6 DEF t, z, b

\* On a line that is not wrapped, a recalled command stands in the place of the zone.
LEMMA RecallIs ==
  ASSUME QTypeOK, OneBlock, Fits(doc.text, ZoneStart), IsInEditionZone(doc, doc.position),
         NEW index \in 0..(Len(history) - 1), Recall(doc, index),
         promptParagraph' = promptParagraph
  PROVE  Kept /\ ZoneText' = history[index + 1]
<1> DEFINE t == doc.text
           z == ZoneStart
           c == history[index + 1]
           u == doc'.text
<1>1. /\ doc \in Document /\ t \in Text /\ Len(t) \in Nat /\ z \in 0..Len(t) /\ z \in Nat
      /\ doc.position \in z..Len(t) /\ z \in z..Len(t)
  BY TypeIs, DocumentIs, ZoneStartIs, CommandIsZone
<1>2. c \in Text /\ NoBreak(c, 1, Len(c)) /\ Len(c) \in Nat
  <2>1. index + 1 \in 1..Len(history) /\ HistoryOK
    <3>1. HistoryOK
      BY TypeIs
    <3>2. Len(history) \in Nat
      BY <3>1, LenProperties DEF HistoryOK
    <3> QED BY <3>1, <3>2
  <2>2. c \in Text /\ Breaks(c, 1, Len(c)) = {}
    BY <2>1, ElementOfSeq DEF HistoryOK
  <2> HIDE DEF c
  <2> QED BY <2>2, Lengths DEF Breaks, NoBreak
<1>3. /\ NoBreak(t, z + 1, Len(t))
      /\ BlockStart(t, doc.position) = BlockStart(t, z)
      /\ Right(t, BlockStart(t, doc.position), Len(Prompt)) = z
      /\ BlockEnd(t, doc.position) = Len(t) /\ BlockEnd(t, z) = Len(t)
  BY <1>1, OneBlockIs
<1>4. doc' = Spliced(doc, z, Len(t), c)
  <2>1. LineStart(t, lines, doc.position) = BlockStart(t, z) /\ LineEnd(t, lines, z) = Len(t)
    BY <1>1, OneLine
  <2>2. doc' = ReplaceCurrentCommand(doc, c)
    BY DEF Recall
  <2> HIDE DEF c, z
  <2>3. Right(t, LineStart(t, lines, doc.position), Len(Prompt)) = z
    BY <1>3, <2>1
  <2> QED BY <2>1, <2>2, <2>3 DEF ReplaceCurrentCommand
<1> HIDE DEF c, z
<1>5. /\ doc' \in Document /\ Len(u) = z + Len(c) /\ Keeps(t, u, z)
      /\ \A i \in 1..z : u[i] = t[i]
      /\ \A i \in 1..Len(c) : u[z + i] = c[i]
  <2>1. Len(t) \in z..Len(t)
    BY <1>1
  <2>2. z \in 0..z
    BY <1>1
  <2>3. z + Len(c) + (Len(t) - Len(t)) = z + Len(c)
    BY <1>1, <1>2
  <2> QED BY <1>1, <1>2, <1>4, <2>1, <2>2, <2>3, SplicedIs
<1>6. u \in Text /\ Len(u) \in Nat /\ z \in 0..Len(u)
  BY <1>1, <1>2, <1>5, DocumentIs
<1> HIDE DEF t, u
<1>7. BlockNumber(u, z) = BlockNumber(t, z) /\ BlockStart(u, z) = BlockStart(t, z)
  BY <1>1, <1>5, SameBefore
<1>8. BlockNumber(t, z) = promptParagraph /\ z = BlockStart(t, z) + Len(Prompt)
  BY StandsIs DEF OneBlock, Boundary, t, z
<1>9. NoBreak(u, z + 1, Len(u))
  <2> SUFFICES ASSUME NEW i \in (z + 1)..Len(u) PROVE u[i] # NewLine
    BY DEF NoBreak
  <2>1. i - z \in 1..Len(c) /\ z + (i - z) = i
    BY <1>1, <1>2, <1>5
  <2>2. u[z + (i - z)] = c[i - z]
    BY <2>1, <1>5
  <2>3. c[i - z] # NewLine
    BY <2>1, <1>2 DEF NoBreak
  <2> QED BY <2>1, <2>2, <2>3
<1>10. ZoneOf(u, promptParagraph) = z
  BY <1>6, <1>7, <1>8, <1>9, ZoneOfIs
<1>11. ZoneStart' = z
  <2>1. ZoneStart' = ZoneOf(u, promptParagraph')
    BY DEF ZoneStart, ZoneOf, u
  <2> QED BY <2>1, <1>10
<1>12. ZoneText' = SubSeq(u, z + 1, Len(u))
  BY <1>11 DEF ZoneText, u
<1>13. SubSeq(u, z + 1, Len(u)) = c
  <2> DEFINE v == SubSeq(u, z + 1, Len(u))
  <2>1. Len(u) \in 0..Len(u) /\ Len(u) - z = Len(c)
    BY <1>1, <1>2, <1>5, <1>6
  <2>2. /\ v \in Text /\ Len(v) = IF z < Len(u) THEN Len(u) - z ELSE 0
        /\ \A i \in 1..(Len(u) - z) : v[i] = u[z + i]
    BY <1>1, <1>6, <2>1, Piece
  <2> HIDE DEF v
  <2>3. Len(v) = Len(c)
    BY <1>1, <1>2, <1>5, <2>2
  <2>4. \A i \in 1..Len(c) : v[i] = c[i]
    BY <1>5, <2>1, <2>2
  <2>5. v = c
    BY <1>2, <2>2, <2>3, <2>4, SeqEqual DEF Text
  <2> QED BY <2>5 DEF v
<1>14. Kept
  BY <1>5 DEF Kept, Keeps, t, u, z
<1> QED BY <1>12, <1>13, <1>14 DEF c

LEMMA RecallsWhatIsShown ==
  ASSUME QTypeOK, Up \/ Down, OneBlock, Fits(doc.text, ZoneStart)
  PROVE  /\ Kept /\ ZoneText' = history[historyIndex' + 1]
         /\ ZoneText' = ZoneText =>
              /\ Up => AllTheSame(1, historyIndex)
              /\ Down => AllTheSame(historyIndex + 2, Len(history))
<1> DEFINE command == GetCurrentCommand(doc)
<1>1. /\ IsInEditionZone(doc, doc.position) /\ promptParagraph' = promptParagraph
      /\ HandleUp(doc) \/ HandleDown(doc)
      /\ history # <<>>
      /\ Up => historyIndex' = Older(command)
      /\ Down => historyIndex' = Newer(command)
  BY DEF Up, Down, Unlocked, HandleUp, HandleDown, Recall
<1>2. HistoryOK
  BY TypeIs
<1>3. command = ZoneText
  BY <1>1, CommandIsZone
<1> HIDE DEF command
<1>4. /\ Older(command) \in 0..(Len(history) - 1)
      /\ history[Older(command) + 1] = command =>
           \A i \in 1..historyIndex : history[i] = command
      /\ Newer(command) \in 0..(Len(history) - 1)
      /\ history[Newer(command) + 1] = command =>
           \A i \in (historyIndex + 2)..Len(history) : history[i] = command
  BY <1>1, <1>2, OlderIs, NewerIs
<1>5. historyIndex' \in 0..(Len(history) - 1) /\ Recall(doc, historyIndex')
  BY <1>1, <1>4 DEF HandleUp, HandleDown, Recall
<1>6. Kept /\ ZoneText' = history[historyIndex' + 1]
  BY <1>1, <1>5, RecallIs
<1>7. ASSUME ZoneText' = ZoneText, Up PROVE AllTheSame(1, historyIndex)
  BY <1>1, <1>3, <1>4, <1>6, <1>7 DEF AllTheSame
<1>8. ASSUME ZoneText' = ZoneText, Down PROVE AllTheSame(historyIndex + 2, Len(history))
  BY <1>1, <1>3, <1>4, <1>6, <1>8 DEF AllTheSame
<1> QED BY <1>6, <1>7, <1>8

\* Return records what is shown, and the history keys show what is recorded
\* (getCurrentCommand, handleUpKeyPress, handleDownKeyPress).
THEOREM RecallsAndRecords == QSpec => ShownIsMeant
<1> DEFINE Meant ==
      /\ history' # history /\ OneBlock => history' = Append(history, ZoneText)
      /\ Recalls /\ (Up \/ Down) /\ OneBlock /\ Fits(doc.text, ZoneStart) =>
           /\ Kept /\ ZoneText' = history[historyIndex' + 1]
           /\ ZoneText' = ZoneText =>
                /\ Up => AllTheSame(1, historyIndex)
                /\ Down => AllTheSame(historyIndex + 2, Len(history))
<1>1. QTypeOK /\ [QNext]_qvars => [Meant]_qvars
  <2> SUFFICES ASSUME QTypeOK, QNext PROVE Meant
    OBVIOUS
  <2>1. history' # history /\ OneBlock => history' = Append(history, ZoneText)
    BY RecordsWhatIsShown
  <2> QED BY <2>1, RecallsWhatIsShown
<1> QED BY CursorStaysInside, <1>1, PTL DEF QSpec, ShownIsMeant

-------------------------------------------------------------------------------
(***************************************************************************)
(* The process of Console: TypedLife and IInv are inductive                *)
(***************************************************************************)
USE DEF Terminate, ThreadEnded, Emit, Shows

LEMMA InitInvariant == Init => TypedLife
  <1> SUFFICES ASSUME Init PROVE TypedLife
    OBVIOUS
  <1>1. TypeOK
    <2>1. 0 \in 0..MaxCommands /\ EmptyLine \in Line
      BY ConstantsAssumption
    <2>2. <<>> \in Seq(Cmds \cup {Exit}) /\ <<>> \in Seq(Line) /\ <<>> \in Seq(Message)
      OBVIOUS
    <2> QED BY <2>1, <2>2 DEF Init, TypeOK
  <1>2. LifeInv
    BY DEF Init, LifeInv
  <1> QED BY <1>1, <1>2 DEF TypedLife

LEMMA NothingPosted == <<>> \in Seq(Message)
  OBVIOUS

LEMMA GuiStep ==
  ASSUME TypedLife,
         \/ Run \/ (\E c \in Cmds : RunCommand(c)) \/ OnOutput \/ SetStop \/ StopStep
  PROVE  TypedLife'
  <1> USE DEF TypedLife, TypeOK, LifeInv, Message, streams
  <1>1. CASE Run
    BY <1>1 DEF Run
  <1>2. CASE \E c \in Cmds : RunCommand(c)
    <2>1. PICK c \in Cmds : RunCommand(c)
      BY <1>2
    <2>2. stdin' \in Seq(Cmds \cup {Exit})
      BY <2>1, AppendProperties DEF RunCommand
    <2>3. commands' \in 0..MaxCommands
      <3>1. commands \in 0..MaxCommands /\ commands < MaxCommands /\ commands' = commands + 1
        BY <2>1 DEF RunCommand
      <3>2. MaxCommands \in Nat
        BY ConstantsAssumption
      <3> HIDE DEF TypedLife
      <3> QED BY <3>1, <3>2
    <2> QED BY <2>1, <2>2, <2>3 DEF RunCommand
  <1>3. CASE OnOutput
    <2>1. shown' \in Seq(Line \cup {"exceptionText"})
          /\ posted' \in Seq(Line \cup {"exceptionText"})
      BY <1>3, HeadTailProperties, AppendProperties DEF OnOutput
    <2> QED BY <1>3, <2>1 DEF OnOutput
  <1>4. CASE SetStop
    BY <1>4 DEF SetStop
  <1>5. CASE PutExit
    <2>1. stdin' \in Seq(Cmds \cup {Exit})
      BY <1>5, AppendProperties DEF PutExit
    <2> QED BY <1>5, <2>1 DEF PutExit
  <1>6. CASE StopTerminates
    BY <1>6 DEF StopTerminates
  <1>7. CASE StopThrows \/ StopCrashes
    <2>1. /\ crashed' = TRUE
          /\ UNCHANGED <<gui, worker, isRunning, isStop, exitCode, line, process, streams>>
      BY <1>7 DEF StopThrows, StopCrashes
    <2> QED BY <2>1
  <1>8. CASE Join
    <2>1. posted' \in Seq(Line \cup {"exceptionText"})
      <3>1. <<>> \in Seq(Line \cup {"exceptionText"})
        BY NothingPosted DEF Message
      <3>2. posted' = <<>>
        BY <1>8 DEF Join
      <3> QED BY ONLY <3>1, <3>2
    <2> QED BY <1>8, <2>1 DEF Join
  <1> QED
    BY <1>1, <1>2, <1>3, <1>4, <1>5, <1>6, <1>7, <1>8 DEF StopStep

LEMMA WorkerStep ==
  ASSUME TypedLife, ThreadProcess
  PROVE  TypedLife'
  <1> USE DEF TypedLife, TypeOK, LifeInv, Message, streams
  <1>1. CASE SetRunning
    BY <1>1 DEF SetRunning
  <1>2. CASE ResetStop
    BY <1>2 DEF ResetStop
  <1>3. CASE Spawn
    BY <1>3 DEF Spawn
  <1>4. CASE Throws
    <2>1. posted' \in Seq(Line \cup {"exceptionText"})
      BY <1>4, AppendProperties DEF Throws
    <2>2. process' = process \/ (worker = "terminate" /\ process' = "exited")
      BY <1>4 DEF Throws
    <2>3. /\ worker \in {"spawn", "loop", "terminate"} /\ exitCode' = "exception" /\ worker' = "end"
          /\ UNCHANGED <<gui, isRunning, isStop, line, pipeHeld, stdin, pipe, shown, commands,
                         written, crashed>>
      BY <1>4 DEF Throws
    <2>4. TypeOK'
      BY <2>1, <2>2, <2>3
    <2>5. LifeInv'
      BY <2>2, <2>3
    <2> QED BY <2>4, <2>5
  <1>5. CASE Continue \/ LeaveLoop
    BY <1>5 DEF Continue, LeaveLoop
  <1>6. CASE ReadLine
    <2>1. line' \in Line /\ pipe' \in Seq(Line)
      BY <1>6, HeadTailProperties DEF ReadLine
    <2> QED BY <1>6, <2>1 DEF ReadLine
  <1>7. CASE EndOfFile
    BY <1>7 DEF EndOfFile
  <1>8. CASE EmitLine
    <2>1. posted' \in Seq(Line \cup {"exceptionText"})
      BY <1>8, AppendProperties DEF EmitLine
    <2> QED BY <1>8, <2>1 DEF EmitLine
  <1>9. CASE TerminateAndWait
    BY <1>9 DEF TerminateAndWait
  <1>10. CASE EndThread
    BY <1>10 DEF EndThread
  <1> QED
    BY <1>1, <1>2, <1>3, <1>4, <1>5, <1>6, <1>7, <1>8, <1>9, <1>10 DEF ThreadProcess

LEMMA ChildStep ==
  ASSUME TypedLife, ChildReads \/ ChildPrints \/ ChildForks \/ ChildExits
  PROVE  TypedLife'
  <1> USE DEF TypedLife, TypeOK, LifeInv, Message, streams
  <1>1. CASE ChildReads
    <2>1. stdin' \in Seq(Cmds \cup {Exit})
      BY <1>1, HeadTailProperties DEF ChildReads
    <2> QED BY <1>1, <2>1 DEF ChildReads
  <1>2. CASE ChildPrints
    <2>1. PICK l \in Line : pipe' = Append(pipe, l) /\ written' = Append(written, l)
      BY <1>2 DEF ChildPrints
    <2>2. pipe' \in Seq(Line) /\ written' \in Seq(Line)
      BY <2>1, AppendProperties
    <2> QED BY <1>2, <2>2 DEF ChildPrints
  <1>3. CASE ChildForks
    BY <1>3 DEF ChildForks
  <1>4. CASE ChildExits
    BY <1>4 DEF ChildExits
  <1> QED BY <1>1, <1>2, <1>3, <1>4

LEMMA LifeStep == TypedLife /\ [Next]_vars => TypedLife'
  <1> SUFFICES ASSUME TypedLife, [Next]_vars PROVE TypedLife'
    OBVIOUS
  <1>1. CASE UNCHANGED vars
    <2>1. TypeOK'
      BY <1>1 DEF vars, TypedLife, TypeOK, Message
    <2>2. LifeInv'
      BY <1>1 DEF vars, TypedLife, LifeInv
    <2> QED BY <2>1, <2>2 DEF TypedLife
  <1>2. CASE Next
    BY <1>1, <1>2, GuiStep, WorkerStep, ChildStep DEF Next
  <1> QED BY <1>1, <1>2

(***************************************************************************)
(* The output: what is shown and posted is a beginning of what was written *)
(***************************************************************************)
LEMMA SeqTypes ==
  TypedLife => /\ shown \in Seq(Message) /\ posted \in Seq(Message)
               /\ pipe \in Seq(Line) /\ written \in Seq(Line)
               /\ Len(shown) \in Nat /\ Len(posted) \in Nat
               /\ Len(pipe) \in Nat /\ Len(written) \in Nat
  BY LenProperties DEF TypedLife, TypeOK

LEMMA JoinedLength ==
  ASSUME NEW S, NEW s \in Seq(S), NEW t \in Seq(S)
  PROVE  /\ s \o t \in Seq(S) /\ Len(s \o t) = Len(s) + Len(t)
         /\ \A i \in 1..Len(s) : (s \o t)[i] = s[i]
         /\ \A i \in 1..Len(t) : (s \o t)[Len(s) + i] = t[i]
  BY ConcatProperties, LenProperties

\* delivering the first posted signal shows what it carried
LEMMA DeliverKeepsSeen ==
  ASSUME TypedLife, OnOutput
  PROVE  Seen' = Seen
  BY SeqTypes DEF OnOutput, Seen

LEMMA EmitExtendsSeen ==
  ASSUME TypedLife, NEW text \in Message, posted' = Append(posted, text), shown' = shown
  PROVE  /\ Len(Seen') = Len(Seen) + 1 /\ Len(Seen) \in Nat
         /\ \A i \in 1..Len(Seen) : Seen'[i] = Seen[i]
         /\ Seen'[Len(Seen) + 1] = text
  BY SeqTypes DEF Seen

Output == OutputInv /\ ShownInOrder
NotStarted == {"none", "start", "resetStop", "spawn"}
Reading == {"loop", "getline"}

LEMMA SeenTypes ==
  TypedLife => /\ Len(Seen) \in Nat /\ Len(pipe) \in Nat /\ Len(written) \in Nat
               /\ Seen \in Seq(Message)
  BY SeqTypes, JoinedLength DEF Seen

\* steps that read, print and show nothing
Silent ==
  /\ UNCHANGED <<pipe, written, shown, posted, line>>
  /\ process' = "null" => process = "null"
  /\ exitCode' = exitCode \/ (worker \notin {"end", "ended"} /\ exitCode' # "exception")
  /\ worker' \in NotStarted => worker \in NotStarted
  /\ worker' \in Reading => worker \in Reading \/ (worker \in NotStarted /\ process = "null")
  /\ worker' = "emit" => worker = "emit"
  /\ worker' \notin {"end", "ended"} => worker \notin {"end", "ended"}

LEMMA SameOutput ==
  ASSUME TypedLife, Output, Silent
  PROVE  Output'
  <1>1. Seen' = Seen /\ Read' = Read
    BY DEF Silent, Seen, Read
  <1>2. worker' \in Reading => Len(Seen) = Read
    <2>1. CASE worker \in Reading
      BY <2>1 DEF Output, OutputInv, Reading
    <2>2. CASE worker \in NotStarted /\ process = "null"
      <3>1. written = <<>> /\ pipe = <<>> /\ shown = <<>> /\ posted = <<>>
        BY <2>2 DEF Output, OutputInv, NotStarted
      <3> QED BY <3>1 DEF Seen, Read
    <2> QED BY <2>1, <2>2 DEF Silent
  <1>3. OutputInv'
    <2>1. Read' >= 0
      BY <1>1 DEF Output, OutputInv
    <2>2. \A i \in 1..Len(pipe') : pipe'[i] = written'[Read' + i]
      BY <1>1 DEF Output, OutputInv, Silent
    <2>3. process' = "null" => written' = <<>> /\ pipe' = <<>>
      BY DEF Output, OutputInv, Silent
    <2>4. worker' \in NotStarted => shown' = <<>> /\ posted' = <<>>
      BY DEF Output, OutputInv, Silent, NotStarted
    <2>5. worker' \in Reading => Len(Seen') = Read'
      BY <1>1, <1>2
    <2>6. worker' = "emit" => /\ Len(Seen') + 1 = Read'
                             /\ line' = written'[Read'] /\ line' # EmptyLine
      BY <1>1 DEF Output, OutputInv, Silent
    <2>7. worker' \notin {"end", "ended"} => exitCode' # "exception"
      BY DEF Output, OutputInv, Silent
    <2> QED BY ONLY <2>1, <2>2, <2>3, <2>4, <2>5, <2>6, <2>7 DEF OutputInv, NotStarted, Reading
  <1>4. ShownInOrder'
    <2>1. CASE exitCode' = exitCode
      BY <1>1, <2>1 DEF Output, Silent, ShownInOrder
    <2>2. CASE worker \notin {"end", "ended"}
      <3>1. exitCode # "exception" /\ written' = written
        BY <2>2 DEF Output, OutputInv, Silent
      <3> QED BY <1>1, <3>1 DEF Output, ShownInOrder
    <2> QED BY <2>1, <2>2 DEF Silent
  <1> QED BY <1>3, <1>4 DEF Output

LEMMA DeliveredOutput ==
  ASSUME TypedLife, Output, OnOutput
  PROVE  Output'
  <1>1. /\ Seen' = Seen /\ UNCHANGED <<worker, exitCode, line, process, pipe, written>>
        /\ posted # <<>>
    BY DeliverKeepsSeen DEF OnOutput
  <1> QED BY <1>1 DEF Output, OutputInv, ShownInOrder, Read

LEMMA JoinedOutput ==
  ASSUME TypedLife, Output, Join
  PROVE  Output'
  <1>1. /\ worker = "ended" /\ process = "exited" /\ posted' = <<>>
        /\ UNCHANGED <<worker, exitCode, line, process, pipe, written, shown>>
    BY DEF Join, TypedLife, LifeInv
  <1>3. /\ Len(Seen') = Len(shown) /\ Len(Seen) = Len(shown) + Len(posted)
        /\ \A i \in 1..Len(shown) : Seen'[i] = shown[i] /\ Seen[i] = shown[i]
        /\ Len(shown) \in Nat /\ Len(posted) \in Nat /\ Len(written) \in Nat
    <2>1. <<>> \in Seq(Message) /\ Len(<<>>) = 0
      OBVIOUS
    <2> QED BY <1>1, <2>1, SeqTypes, JoinedLength DEF Seen
  <1>4. ASSUME NEW i \in 1..Len(Seen')
        PROVE  /\ i \in 1..Len(Seen) /\ Seen'[i] = Seen[i]
               /\ i = Len(Seen) => i = Len(Seen')
    <2>1. i \in 1..Len(shown) /\ i \in Nat
      BY <1>3
    <2>2. i \in 1..Len(Seen) /\ (i = Len(Seen) => i = Len(shown))
      BY <1>3, <2>1
    <2> QED BY <1>3, <2>1, <2>2
  <1>5. ShownInOrder'
    BY <1>1, <1>4 DEF Output, ShownInOrder
  <1>6. OutputInv'
    BY <1>1 DEF Output, OutputInv, Read
  <1> QED BY <1>5, <1>6 DEF Output

LEMMA EmittedOutput ==
  ASSUME TypedLife, Output, EmitLine
  PROVE  Output'
  <1>1. /\ worker = "emit" /\ worker' = "loop" /\ posted' = Append(posted, line)
        /\ UNCHANGED <<shown, line, pipe, written, process, exitCode>> /\ line \in Message
    BY DEF EmitLine, TypedLife, TypeOK, Message
  <1>2. /\ Len(Seen') = Len(Seen) + 1 /\ Len(Seen) \in Nat
        /\ \A i \in 1..Len(Seen) : Seen'[i] = Seen[i]
        /\ Seen'[Len(Seen) + 1] = line
    BY <1>1, EmitExtendsSeen
  <1>3. /\ Len(Seen) + 1 = Read /\ line = written[Read] /\ line # EmptyLine
        /\ exitCode # "exception" /\ Read' = Read /\ Read <= Len(written)
    BY <1>1, SeqTypes DEF Output, OutputInv, Read
  <1>4. ShownInOrder'
    <2> SUFFICES ASSUME NEW i \in 1..Len(Seen')
                 PROVE  i <= Len(written) /\ Seen'[i] = written[i] /\ Seen'[i] # EmptyLine
      BY <1>1 DEF ShownInOrder
    <2>1. CASE i \in 1..Len(Seen)
      <3>1. i <= Len(written) /\ Seen[i] = written[i] /\ Seen[i] # EmptyLine
        BY <1>3, <2>1 DEF Output, ShownInOrder
      <3> QED BY <1>2, <2>1, <3>1
    <2>2. CASE i = Len(Seen) + 1
      BY <1>2, <1>3, <2>2
    <2> QED BY <1>2, <2>1, <2>2
  <1>5. OutputInv'
    BY <1>1, <1>2, <1>3 DEF Output, OutputInv, Read
  <1> QED BY <1>4, <1>5 DEF Output

LEMMA ReadOutput ==
  ASSUME TypedLife, Output, ReadLine
  PROVE  Output'
  <1>1. /\ worker = "getline" /\ pipe # <<>> /\ line' = Head(pipe) /\ pipe' = Tail(pipe)
        /\ worker' = (IF line' # EmptyLine THEN "emit" ELSE "terminate")
        /\ UNCHANGED <<shown, posted, written, process, exitCode>>
    BY DEF ReadLine
  <1>2. /\ Seen' = Seen /\ Len(pipe') = Len(pipe) - 1 /\ Len(pipe) \in Nat \ {0}
        /\ Head(pipe) = pipe[1] /\ \A i \in 1..Len(pipe') : pipe'[i] = pipe[i + 1]
        /\ Len(written) \in Nat
    BY <1>1, SeqTypes, HeadTailProperties DEF Seen
  <1>3. Read' = Read + 1 /\ Read \in Nat /\ Len(Seen) = Read
    BY <1>1, <1>2 DEF Output, OutputInv, Read
  <1>4. /\ \A i \in 1..Len(pipe) : pipe[i] = written[Read + i]
        /\ exitCode # "exception" /\ (process = "null" => written = <<>> /\ pipe = <<>>)
    BY <1>1 DEF Output, OutputInv
  <1>5. \A i \in 1..Len(pipe') : pipe'[i] = written'[Read' + i]
    BY ONLY <1>1, <1>2, <1>3, <1>4
  <1>6. line' = written'[Read']
    BY ONLY <1>1, <1>2, <1>3, <1>4
  <1>7. OutputInv'
    BY <1>1, <1>2, <1>3, <1>4, <1>5, <1>6 DEF OutputInv
  <1>8. ShownInOrder'
    BY <1>1, <1>2 DEF Output, ShownInOrder
  <1> QED BY <1>7, <1>8 DEF Output

LEMMA ThrownOutput ==
  ASSUME TypedLife, Output, Throws
  PROVE  Output'
  <1>1. /\ worker \in {"spawn", "loop", "terminate"} /\ worker' = "end" /\ exitCode' = "exception"
        /\ posted' = Append(posted, "exceptionText")
        /\ UNCHANGED <<shown, line, pipe, written>>
        /\ process' = process \/ process' = "exited"
    BY DEF Throws
  <1>2. exitCode # "exception"
    BY <1>1 DEF Output, OutputInv
  <1>3. /\ Len(Seen') = Len(Seen) + 1 /\ Len(Seen) \in Nat
        /\ \A i \in 1..Len(Seen) : Seen'[i] = Seen[i]
        /\ Seen'[Len(Seen) + 1] = "exceptionText"
    BY <1>1, EmitExtendsSeen DEF Message
  <1>4. ShownInOrder'
    <2> SUFFICES ASSUME NEW i \in 1..Len(Seen')
                 PROVE  \/ i <= Len(written) /\ Seen'[i] = written[i] /\ Seen'[i] # EmptyLine
                        \/ i = Len(Seen') /\ Seen'[i] = "exceptionText"
      BY <1>1 DEF ShownInOrder
    <2>1. CASE i \in 1..Len(Seen)
      <3>1. i <= Len(written) /\ Seen[i] = written[i] /\ Seen[i] # EmptyLine
        BY <1>2, <2>1 DEF Output, ShownInOrder
      <3> QED BY <1>3, <2>1, <3>1
    <2>2. CASE i = Len(Seen) + 1
      BY <1>3, <2>2
    <2> QED BY <1>3, <2>1, <2>2
  <1>5. OutputInv'
    BY <1>1 DEF Output, OutputInv, Read
  <1> QED BY <1>4, <1>5 DEF Output

LEMMA PrintedOutput ==
  ASSUME TypedLife, Output, ChildPrints
  PROVE  Output'
  <1>1. PICK l \in Line : pipe' = Append(pipe, l) /\ written' = Append(written, l)
    BY DEF ChildPrints
  <1>2. /\ process = "running" /\ process' = process
        /\ UNCHANGED <<worker, exitCode, line, shown, posted>> /\ Seen' = Seen
    BY DEF ChildPrints, Seen
  <1>3. /\ Len(pipe') = Len(pipe) + 1 /\ Len(written') = Len(written) + 1
        /\ pipe'[Len(pipe) + 1] = l /\ written'[Len(written) + 1] = l
        /\ \A i \in 1..Len(pipe) : pipe'[i] = pipe[i]
        /\ \A i \in 1..Len(written) : written'[i] = written[i]
        /\ Len(pipe) \in Nat /\ Len(written) \in Nat /\ Len(Seen) \in Nat
    BY <1>1, SeqTypes, SeenTypes, AppendProperties
  <1>4. Read' = Read /\ Read \in Nat /\ Read + Len(pipe) = Len(written)
    BY <1>3 DEF Output, OutputInv, Read
  <1>5. \A i \in 1..Len(pipe) : pipe[i] = written[Read + i]
    BY DEF Output, OutputInv
  <1>6. ASSUME NEW i \in 1..Len(pipe') PROVE pipe'[i] = written'[Read' + i]
    <2>1. CASE i \in 1..Len(pipe)
      <3>1. Read + i \in 1..Len(written)
        BY ONLY <1>3, <1>4, <2>1
      <3> QED BY ONLY <1>3, <1>4, <1>5, <2>1, <3>1
    <2>2. CASE i = Len(pipe) + 1
      <3>1. Read + i = Len(written) + 1
        BY ONLY <1>3, <1>4, <2>2
      <3> QED BY ONLY <1>3, <1>4, <2>2, <3>1
    <2> QED BY ONLY <1>3, <2>1, <2>2
  <1>7. /\ worker = "emit" => line = written[Read] /\ Read \in 1..Len(written)
        /\ worker \notin NotStarted
    <2>1. Len(Seen) + 1 = Read => Read \in 1..Len(written)
      BY ONLY <1>3, <1>4
    <2> QED BY <1>2, <2>1 DEF Output, OutputInv, TypedLife, LifeInv, NotStarted
  <1>8. OutputInv'
    BY <1>2, <1>3, <1>4, <1>6, <1>7 DEF Output, OutputInv, NotStarted
  <1>9. ShownInOrder'
    <2> SUFFICES ASSUME NEW i \in 1..Len(Seen)
                 PROVE  \/ i <= Len(written') /\ Seen[i] = written'[i] /\ Seen[i] # EmptyLine
                        \/ i = Len(Seen) /\ Seen[i] = "exceptionText" /\ exitCode = "exception"
      BY <1>2 DEF ShownInOrder
    <2>1. ASSUME i <= Len(written), Seen[i] = written[i]
          PROVE  i <= Len(written') /\ Seen[i] = written'[i]
      <3>1. i \in 1..Len(written)
        BY <1>3, <2>1
      <3> QED BY <1>3, <2>1, <3>1
    <2> QED BY <2>1 DEF Output, ShownInOrder
  <1> QED BY <1>8, <1>9 DEF Output

LEMMA OutputStep == TypedLife /\ Output /\ [Next]_vars => Output'
  <1> SUFFICES ASSUME TypedLife, Output, [Next]_vars PROVE Output'
    OBVIOUS
  <1>1. CASE UNCHANGED vars
    <2>1. Silent
      BY <1>1 DEF vars, Silent, NotStarted, Reading, TypedLife, LifeInv
    <2> QED BY <2>1, SameOutput
  <1>2. CASE \E c \in Cmds : RunCommand(c)
    <2>1. Silent
      BY <1>2 DEF RunCommand, Silent, NotStarted, Reading, TypedLife, LifeInv
    <2> QED BY <2>1, SameOutput
  <1>3. CASE Run
    <2>1. Silent
      BY <1>3 DEF Run, streams, Silent, NotStarted, Reading, TypedLife, LifeInv
    <2> QED BY <2>1, SameOutput
  <1>4. CASE SetStop
    <2>1. Silent
      BY <1>4 DEF SetStop, streams, Silent, NotStarted, Reading, TypedLife, LifeInv
    <2> QED BY <2>1, SameOutput
  <1>5. CASE PutExit
    <2>1. Silent
      BY <1>5 DEF PutExit, Silent, NotStarted, Reading, TypedLife, LifeInv
    <2> QED BY <2>1, SameOutput
  <1>6. CASE StopTerminates
    <2>1. Silent
      BY <1>6 DEF StopTerminates, streams, Silent, NotStarted, Reading, TypedLife, LifeInv
    <2> QED BY <2>1, SameOutput
  <1>7. CASE StopThrows \/ StopCrashes
    <2>1. Silent
      BY <1>7 DEF StopThrows, StopCrashes, streams, Silent, NotStarted, Reading, TypedLife, LifeInv
    <2> QED BY <2>1, SameOutput
  <1>8. CASE SetRunning
    <2>1. Silent
      BY <1>8 DEF SetRunning, streams, Silent, NotStarted, Reading, TypedLife, LifeInv
    <2> QED BY <2>1, SameOutput
  <1>9. CASE ResetStop
    <2>1. Silent
      BY <1>9 DEF ResetStop, streams, Silent, NotStarted, Reading, TypedLife, LifeInv
    <2> QED BY <2>1, SameOutput
  <1>10. CASE Spawn
    <2>1. Silent
      BY <1>10 DEF Spawn, streams, Silent, NotStarted, Reading, TypedLife, LifeInv
    <2> QED BY <2>1, SameOutput
  <1>11. CASE Continue
    <2>1. Silent
      BY <1>11 DEF Continue, streams, Silent, NotStarted, Reading, TypedLife, LifeInv
    <2> QED BY <2>1, SameOutput
  <1>12. CASE LeaveLoop
    <2>1. Silent
      BY <1>12 DEF LeaveLoop, streams, Silent, NotStarted, Reading, TypedLife, LifeInv
    <2> QED BY <2>1, SameOutput
  <1>13. CASE EndOfFile
    <2>1. Silent
      BY <1>13 DEF EndOfFile, streams, Silent, NotStarted, Reading, TypedLife, LifeInv
    <2> QED BY <2>1, SameOutput
  <1>14. CASE TerminateAndWait
    <2>1. Silent
      BY <1>14 DEF TerminateAndWait, streams, Silent, NotStarted, Reading, TypedLife, LifeInv
    <2> QED BY <2>1, SameOutput
  <1>15. CASE EndThread
    <2>1. Silent
      BY <1>15 DEF EndThread, streams, Silent, NotStarted, Reading, TypedLife, LifeInv
    <2> QED BY <2>1, SameOutput
  <1>16. CASE ChildReads
    <2>1. Silent
      BY <1>16 DEF ChildReads, Silent, NotStarted, Reading, TypedLife, LifeInv
    <2> QED BY <2>1, SameOutput
  <1>17. CASE ChildForks
    <2>1. Silent
      BY <1>17 DEF ChildForks, Silent, NotStarted, Reading, TypedLife, LifeInv
    <2> QED BY <2>1, SameOutput
  <1>18. CASE ChildExits
    <2>1. Silent
      BY <1>18 DEF ChildExits, streams, Silent, NotStarted, Reading, TypedLife, LifeInv
    <2> QED BY <2>1, SameOutput
  <1> QED
    BY <1>1, <1>2, <1>3, <1>4, <1>5, <1>6, <1>7, <1>8, <1>9, <1>10, <1>11, <1>12, <1>13, <1>14, <1>15, <1>16, <1>17, <1>18,
       DeliveredOutput, JoinedOutput, EmittedOutput, ReadOutput, ThrownOutput,
       PrintedOutput DEF Next, StopStep, ThreadProcess

LEMMA InitOutput == Init => Output
  <1> SUFFICES ASSUME Init PROVE Output
    OBVIOUS
  <1>1. Len(Seen) = 0 /\ Len(written) = 0 /\ Len(pipe) = 0
    BY DEF Init, Seen
  <1> QED BY <1>1 DEF Init, Output, OutputInv, ShownInOrder, Read

\* IInv holds in every state, whatever the order of the two threads and the child.
THEOREM Invariance == Spec => []IInv
  <1>1. IInv <=> TypedLife /\ Output
    BY DEF IInv, Output
  <1>2. Init => IInv
    BY <1>1, InitInvariant, InitOutput
  <1>3. IInv /\ [Next]_vars => IInv'
    BY LifeStep, OutputStep DEF IInv, Output
  <1> QED BY <1>2, <1>3, PTL DEF Spec

\* Every variable of the process keeps its type.
THEOREM TypeCorrect == Spec => []TypeOK
  <1>1. IInv => TypeOK
    BY DEF IInv, TypedLife
  <1> QED BY <1>1, Invariance, PTL

\* When Stop has returned the child and the thread are gone, even if
\* ThreadProcess overwrote m_isStop or left its loop by an exception
\* (ExternalProcess.cpp:81-118).
THEOREM StoppedIsGone == Spec => []StoppedMeansGone
  <1>1. IInv => StoppedMeansGone
    BY DEF IInv, TypedLife, TypeOK, LifeInv, StoppedMeansGone
  <1> QED BY <1>1, Invariance, PTL

\* What is shown is a beginning of what the child printed, in order, and ends before
\* the first empty line; the text of an exception, thrown at any call of the child in
\* the try block, comes once and last (ExternalProcess.cpp:95-117).
THEOREM OutputIsInOrder == Spec => []ShownInOrder
  <1>1. IInv => ShownInOrder
    BY DEF IInv
  <1> QED BY <1>1, Invariance, PTL

\* While Stop waits in join, the child prints nothing and is not started again.
THEOREM TerminatedIsSilent == Spec => NothingNewAfterTerminate
  <1>1. IInv /\ [Next]_vars =>
          [gui = "join" => process' = "exited" /\ UNCHANGED written]_vars
    <2> SUFFICES ASSUME IInv, Next, gui = "join"
                 PROVE  process' = "exited" /\ UNCHANGED written
      BY DEF vars
    <2>1. process = "exited" /\ worker # "spawn"
      BY DEF IInv, TypedLife, LifeInv
    <2>2. CASE Run \/ (\E c \in Cmds : RunCommand(c)) \/ OnOutput \/ SetStop \/ StopStep
      BY <2>1, <2>2 DEF Run, RunCommand, OnOutput, SetStop, StopStep, PutExit,
         StopTerminates, StopThrows, StopCrashes, Join, streams
    <2>3. CASE ThreadProcess
      BY <2>1, <2>3 DEF ThreadProcess, SetRunning, ResetStop, Spawn, Continue,
         LeaveLoop, ReadLine, EndOfFile, EmitLine, TerminateAndWait, Throws, EndThread,
         streams
    <2>4. CASE ChildReads \/ ChildPrints \/ ChildForks \/ ChildExits
      BY <2>1, <2>4 DEF ChildReads, ChildPrints, ChildForks, ChildExits
    <2> QED BY <2>1, <2>2, <2>3, <2>4 DEF Next, vars, streams
  <1> QED BY <1>1, Invariance, PTL DEF Spec, NothingNewAfterTerminate

-------------------------------------------------------------------------------
(***************************************************************************)
(* ExternalProcess implements LineStream                                   *)
(***************************************************************************)
StopBegun == gui \notin {"construct", "run"}

\* The steps that neither print nor show anything, and no exception comes or goes.
Quiet ==
  /\ UNCHANGED <<written, shown, posted>>
  /\ exitCode' = exitCode \/ (exitCode # "exception" /\ exitCode' # "exception")
  /\ StopBegun => StopBegun'
  /\ gui = "stopped" => gui' = "stopped"

LEMMA StreamStep ==
  ASSUME TypedLife, Output, [Next]_vars
  PROVE  Quiet \/ OnOutput \/ Join \/ EmitLine \/ Throws \/ ChildPrints
  <1>1. CASE UNCHANGED vars
    BY <1>1 DEF vars, Quiet, StopBegun
  <1>2. CASE Run \/ SetStop \/ StopTerminates
    BY <1>2 DEF Run, SetStop, StopTerminates, streams, Quiet, StopBegun
  <1>3. CASE (\E c \in Cmds : RunCommand(c)) \/ PutExit \/ StopThrows \/ StopCrashes
    BY <1>3 DEF RunCommand, PutExit, StopThrows, StopCrashes, streams, Quiet, StopBegun
  <1>4. CASE SetRunning \/ ResetStop \/ Spawn \/ Continue \/ LeaveLoop
    BY <1>4 DEF SetRunning, ResetStop, Spawn, Continue, LeaveLoop, streams, Quiet, StopBegun
  <1>5. CASE ReadLine \/ EndOfFile \/ EndThread
    BY <1>5 DEF ReadLine, EndOfFile, EndThread, streams, Quiet, StopBegun
  <1>6. CASE TerminateAndWait
    <2>1. exitCode # "exception"
      BY <1>6 DEF TerminateAndWait, Output, OutputInv
    <2> QED BY <1>6, <2>1 DEF TerminateAndWait, streams, Quiet, StopBegun
  <1>7. CASE ChildReads \/ ChildForks \/ ChildExits
    BY <1>7 DEF ChildReads, ChildForks, ChildExits, streams, Quiet, StopBegun
  <1> QED
    BY <1>1, <1>2, <1>3, <1>4, <1>5, <1>6, <1>7 DEF Next, StopStep, ThreadProcess

LEMMA ThrownStep ==
  ASSUME TypedLife, Output, ThrownInv, [Next]_vars
  PROVE  ThrownInv'
  <1>1. CASE Quiet
    <2>1. Seen' = Seen
      BY <1>1 DEF Quiet, Seen
    <2>2. exitCode' = "exception" /\ gui' # "stopped" => exitCode = "exception" /\ gui # "stopped"
      BY <1>1 DEF Quiet
    <2> QED BY <2>1, <2>2 DEF ThrownInv
  <1>2. CASE OnOutput
    BY <1>2, DeliverKeepsSeen DEF OnOutput, ThrownInv
  <1>3. CASE EmitLine
    BY <1>3 DEF EmitLine, Output, OutputInv, ThrownInv
  <1>4. CASE ChildPrints
    <2>1. Seen' = Seen /\ UNCHANGED <<exitCode, gui>>
      BY <1>4 DEF ChildPrints, Seen
    <2> QED BY <2>1 DEF ThrownInv
  <1>5. CASE Join
    BY <1>5 DEF Join, ThrownInv
  <1>6. CASE Throws
    <2>1. /\ Len(Seen') = Len(Seen) + 1 /\ Len(Seen) \in Nat /\ Seen'[Len(Seen) + 1] = "exceptionText"
      BY <1>6, EmitExtendsSeen DEF Throws, Message
    <2>2. Len(<<>>) = 0
      BY EmptySeq
    <2> QED BY <2>1, <2>2 DEF ThrownInv
  <1> QED BY <1>1, <1>2, <1>3, <1>4, <1>5, <1>6, StreamStep

\* When the thread has caught an exception, its text is the last the window is shown,
\* or is still on its way, unless Stop has thrown it away (ExternalProcess.cpp:113-117).
THEOREM ExceptionIsShown == Spec => []ThrownInv
  <1>1. Init => ThrownInv
    BY DEF Init, ThrownInv
  <1>2. IInv /\ ThrownInv /\ [Next]_vars => ThrownInv'
    BY ThrownStep DEF IInv, Output
  <1> QED BY <1>1, <1>2, Invariance, PTL DEF Spec

\* The signal delivered next carries the next line, or the notice if it is the last.
LEMMA ShowsNext ==
  ASSUME TypedLife, Output, ThrownInv, OnOutput
  PROVE  Stream!Deliver \/ Stream!Notify
  <1>1. /\ Len(posted) \in Nat \ {0} /\ Head(posted) = posted[1] /\ posted' = Tail(posted)
        /\ shown' = Append(shown, Head(posted)) /\ posted # <<>>
        /\ Len(posted') = Len(posted) - 1
    BY SeqTypes, HeadTailProperties, EmptySeq DEF OnOutput
  <1>2. /\ Len(Seen) = Len(shown) + Len(posted) /\ Len(shown) \in Nat
        /\ Seen[Len(shown) + 1] = posted[1]
    <2>1. 1 \in 1..Len(posted)
      BY <1>1
    <2> QED BY <2>1, SeqTypes, JoinedLength, LenProperties DEF Seen
  <1>3. Len(shown) + 1 \in 1..Len(Seen)
    BY <1>1, <1>2
  <1>4. gui = "run" /\ gui' = "run" /\ exitCode' = exitCode /\ written' = written
    BY DEF OnOutput
  <1>5. posted' # <<>> <=> Len(shown) + 1 # Len(Seen)
    <2>1. Len(posted') = 0 <=> posted' = <<>>
      <3>1. posted' \in Seq(Message)
        BY <1>1, SeqTypes, HeadTailProperties
      <3> QED BY <3>1, EmptySeq
    <2>2. Len(posted') # 0 <=> Len(shown) + 1 # Len(Seen)
      BY <1>1, <1>2
    <2> QED BY <2>1, <2>2
  <1>6. ASSUME exitCode = "exception", Len(shown) + 1 = Len(Seen) PROVE Stream!Notify
    <2>1. StreamState = "failing" /\ StreamState' = "failed"
      BY <1>1, <1>4, <1>5, <1>6 DEF StreamState
    <2>2. shown' = Append(shown, "exceptionText")
      BY <1>1, <1>2, <1>4, <1>6 DEF ThrownInv
    <2> QED BY <1>4, <2>1, <2>2 DEF Stream!Notify
  <1>7. ASSUME exitCode # "exception" \/ Len(shown) + 1 # Len(Seen) PROVE Stream!Deliver
    <2>1. /\ Len(shown) + 1 <= Len(written) /\ posted[1] = written[Len(shown) + 1]
          /\ written[Len(shown) + 1] # EmptyLine
      BY <1>2, <1>3, <1>7 DEF Output, ShownInOrder
    <2>2. StreamState \in {"open", "failing"} /\ StreamState' = StreamState
      BY <1>1, <1>4, <1>5, <1>7 DEF StreamState
    <2> QED BY <1>1, <1>4, <2>1, <2>2 DEF Stream!Deliver
  <1> QED BY <1>6, <1>7

\* The process is a stream of lines from the child to the window, which an exception
\* ends with a notice and Stop cuts.
THEOREM RefinesStream == Spec => ImplementsStream
  <1>1. Init => Stream!Init
    BY DEF Init, Stream!Init, StreamState
  <1>2. IInv /\ ThrownInv /\ [Next]_vars => [Stream!Next]_(Stream!streamVars)
    <2> SUFFICES ASSUME IInv, ThrownInv, [Next]_vars
                 PROVE  Stream!Next \/ UNCHANGED <<written, shown, StreamState>>
      BY DEF Stream!streamVars
    <2> USE DEF Stream!Next
    <2>1. TypedLife /\ Output
      BY DEF IInv, Output
    <2>2. CASE Quiet
      <3>1. UNCHANGED <<written, shown, posted>>
        BY <2>2 DEF Quiet
      <3>2. CASE StopBegun'
        <4>1. StreamState' = "cut"
          BY <3>2 DEF StreamState, StopBegun
        <4> QED BY <3>1, <4>1 DEF Stream!Cut
      <3>3. CASE ~StopBegun'
        <4>1. StreamState' = StreamState
          BY <2>2, <3>1, <3>3 DEF Quiet, StreamState, StopBegun
        <4> QED BY <3>1, <4>1
      <3> QED BY <3>2, <3>3
    <2>3. CASE OnOutput
      BY <2>1, <2>3, ShowsNext
    <2>4. CASE Join
      BY <2>4 DEF Join, StreamState
    <2>5. CASE EmitLine
      <3>1. exitCode # "exception"
        BY <2>1, <2>5 DEF EmitLine, Output, OutputInv
      <3> QED BY <2>5, <3>1 DEF EmitLine, StreamState
    <2>6. CASE Throws
      <3>1. /\ exitCode # "exception" /\ exitCode' = "exception"
            /\ UNCHANGED <<written, shown, gui>>
        BY <2>1, <2>6 DEF Throws, Output, OutputInv
      <3>2. posted' # <<>>
        <4>1. posted' = Append(posted, "exceptionText") /\ posted \in Seq(Message)
          BY <2>1, <2>6, SeqTypes DEF Throws
        <4> QED BY <4>1, AppendProperties, EmptySeq DEF Message
      <3> QED BY <3>1, <3>2 DEF StreamState, Stream!Fail
    <2>7. CASE ChildPrints
      <3>1. (\E l \in Line : written' = Append(written, l)) /\ UNCHANGED <<shown, posted, exitCode, gui>>
        BY <2>7 DEF ChildPrints
      <3>2. StreamState' = StreamState
        BY <3>1 DEF StreamState
      <3> QED BY <3>1, <3>2 DEF Stream!PrintLine
    <2> QED BY <2>1, <2>2, <2>3, <2>4, <2>5, <2>6, <2>7, StreamStep
  <1> QED
    BY <1>1, <1>2, Invariance, ExceptionIsShown, PTL
       DEF Spec, ImplementsStream, Stream!Spec
===============================================================================
