------------------------------ MODULE Oscar_proofs ------------------------------
(***************************************************************************)
(* Proofs about Oscar, for bytes of any size, any values and any damage.   *)
(***************************************************************************)
EXTENDS Oscar, SequenceTheorems, TLAPS

(***************************************************************************)
(* Words                                                                   *)
(***************************************************************************)
LEMMA WordSize == Word \in Nat /\ Word >= 64 /\ Byte \in Nat /\ Byte >= 8 /\ Word >= 8 * Byte
  <1>1. Byte \in Nat /\ Byte >= 8
    BY ByteAssumption
  <1>2. Byte * Byte >= 8 * Byte /\ Byte * Byte \in Nat
    BY <1>1
  <1> QED BY <1>1, <1>2 DEF Word

LEMMA Division ==
  ASSUME NEW v \in Nat
  PROVE  (v \div Byte) * Byte + (v % Byte) = v /\ v % Byte \in Octet /\ v \div Byte \in Nat
  BY ByteAssumption DEF Octet

LEMMA WordRoundTrip ==
  ASSUME NEW w \in Nat, w < Word
  PROVE  /\ WordBytes(w) \in Seq(Octet) /\ Len(WordBytes(w)) = 2
         /\ WordBytes(w)[1] * Byte + WordBytes(w)[2] = w
  <1>1. (w \div Byte) * Byte + (w % Byte) = w /\ w % Byte \in Octet /\ w \div Byte \in Nat
    BY Division
  <1>2. w \div Byte \in Octet
    <2>1. ASSUME w \div Byte >= Byte PROVE FALSE
      <3>1. (w \div Byte) * Byte >= Byte * Byte
        BY <1>1, <2>1, ByteAssumption
      <3> QED BY <1>1, <3>1, ByteAssumption DEF Word, Octet
    <2> QED BY <1>1, <2>1, ByteAssumption DEF Octet
  <1> QED BY <1>1, <1>2 DEF WordBytes

LEMMA Unwrapped ==
  ASSUME NEW n \in Nat, n < Word
  PROVE  n % Word = n
  BY WordSize

\* two bytes are a word, and the header's four do not make it wrap twice
LEMMA BytesAreWord ==
  ASSUME NEW high \in Octet, NEW low \in Octet
  PROVE  /\ high * Byte + low \in Nat /\ high * Byte + low < Word
         /\ (TLV_HEADER_SIZE + high * Byte + low) \in Nat
         /\ (TLV_HEADER_SIZE + high * Byte + low) % Word \in Nat
  <1>1. high \in Nat /\ low \in Nat /\ high <= Byte - 1 /\ low <= Byte - 1 /\ Byte \in Nat
    BY ByteAssumption DEF Octet
  <1>2. high * Byte <= (Byte - 1) * Byte /\ high * Byte \in Nat
    BY <1>1, ByteAssumption
  <1>3. (Byte - 1) * Byte = Word - Byte
    BY <1>1 DEF Word
  <1>4. high * Byte + low < Word
    BY <1>1, <1>2, <1>3, WordSize
  <1> QED BY <1>1, <1>2, <1>4, WordSize DEF TLV_HEADER_SIZE

(***************************************************************************)
(* Storage                                                                 *)
(***************************************************************************)
LEMMA PutBytes ==
  ASSUME NEW s \in Seq(Octet), NEW p \in Nat, NEW bytes \in Seq(Octet)
  PROVE  /\ Put(s, p, bytes) \in Seq(Octet) /\ Len(Put(s, p, bytes)) = Len(s)
         /\ \A q \in 1..Len(s) :
              Put(s, p, bytes)[q] = IF q \in (p + 1)..(p + Len(bytes)) THEN bytes[q - p] ELSE s[q]
  <1> DEFINE r == Put(s, p, bytes)
  <1>1. Len(s) \in Nat /\ Len(bytes) \in Nat
    BY LenProperties
  <1>2. \A q \in 1..Len(s) : q \in (p + 1)..(p + Len(bytes)) => q - p \in 1..Len(bytes)
    BY <1>1
  <1>3. \A q \in 1..Len(s) :
          (IF q \in (p + 1)..(p + Len(bytes)) THEN bytes[q - p] ELSE s[q]) \in Octet
    BY <1>2
  <1>4. r = [q \in 1..Len(s) |-> IF q \in (p + 1)..(p + Len(bytes)) THEN bytes[q - p] ELSE s[q]]
    BY DEF Put
  <1> HIDE DEF r
  <1>5. r \in Seq(Octet) /\ Len(r) = Len(s)
    BY <1>1, <1>3, <1>4
  <1> QED BY <1>4, <1>5 DEF r

LEMMA ResizedBytes ==
  ASSUME NEW s \in Seq(Octet), NEW n \in Nat
  PROVE  Resized(s, n) \in Seq(Octet) /\ Len(Resized(s, n)) = n
  <1>1. \A q \in 1..n : (IF q <= Len(s) THEN s[q] ELSE 0) \in Octet
    BY ByteAssumption, LenProperties DEF Octet
  <1> QED BY <1>1 DEF Resized

LEMMA Reversal ==
  ASSUME NEW v \in Seq(Octet)
  PROVE  Reverse(v) \in Seq(Octet) /\ Len(Reverse(v)) = Len(v) /\ Reverse(Reverse(v)) = v
  BY DEF Reverse

LEMMA EndianRoundTrip ==
  ASSUME NEW v \in Seq(Octet), NEW trait
  PROVE  /\ BigEndian(trait, v) \in Seq(Octet) /\ Len(BigEndian(trait, v)) = Len(v)
         /\ BigEndian(trait, BigEndian(trait, v)) = v
  BY Reversal DEF BigEndian

LEMMA Joined ==
  ASSUME NEW x \in Seq(Octet), NEW y \in Seq(Octet)
  PROVE  /\ x \o y \in Seq(Octet) /\ Len(x \o y) = Len(x) + Len(y)
         /\ \A i \in 1..Len(x) : (x \o y)[i] = x[i]
         /\ \A i \in 1..Len(y) : (x \o y)[Len(x) + i] = y[i]
  <1>1. /\ x \o y \in Seq(Octet) /\ Len(x \o y) = Len(x) + Len(y)
        /\ \A i \in 1..Len(x) + Len(y) :
             (x \o y)[i] = IF i <= Len(x) THEN x[i] ELSE y[i - Len(x)]
    BY ConcatProperties, Zenon
  <1>2. Len(x) \in Nat /\ Len(y) \in Nat
    BY LenProperties
  <1>3. \A i \in 1..Len(x) : i \in 1..Len(x) + Len(y) /\ i <= Len(x)
    BY <1>2
  <1>4. \A i \in 1..Len(y) :
          Len(x) + i \in 1..Len(x) + Len(y) /\ ~(Len(x) + i <= Len(x)) /\ (Len(x) + i) - Len(x) = i
    BY <1>2
  <1> QED BY <1>1, <1>3, <1>4, Zenon

\* the bytes of one TLV
LEMMA TlvBytes ==
  ASSUME NEW trait, trait.type \in 0..15, NEW v \in Seq(Octet), Len(v) < Word
  PROVE  LET b == Tlv(trait, v)
         IN  /\ b \in Seq(Octet) /\ Len(b) = TLV_HEADER_SIZE + Len(v)
             /\ b[1] * Byte + b[2] = trait.type
             /\ b[3] * Byte + b[4] = Len(v)
             /\ \A k \in 1..Len(v) : b[TLV_HEADER_SIZE + k] = BigEndian(trait, v)[k]
  <1> DEFINE t == WordBytes(trait.type)
             l == WordBytes(Len(v))
             d == BigEndian(trait, v)
             h == t \o l
             b == h \o d
  <1>1. t \in Seq(Octet) /\ Len(t) = 2 /\ t[1] * Byte + t[2] = trait.type
    <2>1. trait.type \in Nat /\ trait.type < Word
      BY WordSize
    <2> QED BY <2>1, WordRoundTrip
  <1>2. l \in Seq(Octet) /\ Len(l) = 2 /\ l[1] * Byte + l[2] = Len(v) /\ Len(v) \in Nat
    BY WordRoundTrip, LenProperties
  <1>3. d \in Seq(Octet) /\ Len(d) = Len(v)
    BY EndianRoundTrip
  <1>4. Tlv(trait, v) = b
    BY <1>2, Unwrapped DEF Tlv
  <1> HIDE DEF t, l, d
  <1>5. /\ h \in Seq(Octet) /\ Len(h) = Len(t) + Len(l)
        /\ (\A i \in 1..Len(t) : h[i] = t[i]) /\ \A i \in 1..Len(l) : h[Len(t) + i] = l[i]
    BY <1>1, <1>2, Joined, Zenon
  <1> HIDE DEF h
  <1>6. Len(h) = 4 /\ h[1] = t[1] /\ h[2] = t[2] /\ h[3] = l[1] /\ h[4] = l[2]
    BY <1>1, <1>2, <1>5
  <1>7. /\ b \in Seq(Octet) /\ Len(b) = Len(h) + Len(d)
        /\ (\A i \in 1..Len(h) : b[i] = h[i]) /\ \A i \in 1..Len(d) : b[Len(h) + i] = d[i]
    BY <1>3, <1>5, Joined, Zenon
  <1>8. 1 \in 1..4 /\ 2 \in 1..4 /\ 3 \in 1..4 /\ 4 \in 1..4
    OBVIOUS
  <1> HIDE DEF b
  <1>9. /\ b \in Seq(Octet) /\ Len(b) = 4 + Len(v)
        /\ b[1] * Byte + b[2] = trait.type /\ b[3] * Byte + b[4] = Len(v)
        /\ \A k \in 1..Len(v) : b[4 + k] = d[k]
    <2>1. b[1] = t[1] /\ b[2] = t[2] /\ b[3] = l[1] /\ b[4] = l[2]
      BY <1>6, <1>7, <1>8, Zenon
    <2>2. Len(b) = 4 + Len(v) /\ \A k \in 1..Len(v) : b[4 + k] = d[k]
      BY <1>3, <1>6, <1>7, Zenon
    <2> QED BY <1>1, <1>2, <1>7, <2>1, <2>2, Zenon
  <1> QED BY <1>4, <1>9, Zenon DEF d, TLV_HEADER_SIZE

\* and what is read where they stand
LEMMA ValueThere ==
  ASSUME NEW s \in Seq(Octet), NEW p \in Nat, NEW trait, NEW v \in Seq(Octet),
         p + TLV_HEADER_SIZE + Len(v) <= Len(s), WordAt(s, p + 2) = Len(v),
         \A b \in 1..Len(v) : s[p + TLV_HEADER_SIZE + b] = BigEndian(trait, v)[b]
  PROVE  ValueAt(s, p, trait) = v
  <1> DEFINE m == p + TLV_HEADER_SIZE + 1
             n == p + TLV_HEADER_SIZE + Len(v)
             d == BigEndian(trait, v)
             r == SubSeq(s, m, n)
  <1>1. Len(v) \in Nat /\ Len(s) \in Nat /\ d \in Seq(Octet) /\ Len(d) = Len(v)
    BY LenProperties, EndianRoundTrip
  <1>2. /\ m \in Nat /\ n \in Nat /\ m >= 1 /\ n <= Len(s) /\ n - m + 1 = Len(v)
        /\ (m <= n <=> Len(v) # 0)
    BY <1>1 DEF TLV_HEADER_SIZE
  <1>3. \A i \in m..n : s[i] \in Octet
    BY <1>1, <1>2
  <1>4. \A i \in 1..Len(v) : m + i - 1 = p + TLV_HEADER_SIZE + i
    BY <1>1 DEF TLV_HEADER_SIZE
  <1>5. \A i \in 1..Len(v) : s[p + TLV_HEADER_SIZE + i] = d[i]
    OBVIOUS
  <1>6. ValueAt(s, p, trait) = BigEndian(trait, r)
    BY DEF ValueAt
  <1> HIDE DEF m, n, d
  <1>7. r \in Seq(Octet) /\ Len(r) = (IF m <= n THEN n - m + 1 ELSE 0)
        /\ \A i \in 1..(n - m + 1) : r[i] = s[m + i - 1]
    BY <1>2, <1>3, SubSeqProperties
  <1> HIDE DEF r
  <1>8. Len(r) = Len(v) /\ \A i \in 1..Len(v) : r[i] = d[i]
    BY <1>1, <1>2, <1>4, <1>5, <1>7
  <1>9. r = d
    BY <1>1, <1>7, <1>8, SeqEqual
  <1> QED BY <1>6, <1>9, EndianRoundTrip DEF d

(***************************************************************************)
(* The protocol's packages                                                 *)
(***************************************************************************)
LEMMA Package ==
  ASSUME NEW t \in Traits
  PROVE  /\ Len(t.tlvs) \in 3..6 /\ t.channel \in 0..1
         /\ t.service \in 0..15 /\ t.subtype \in 0..15
         /\ \A j \in 1..Len(t.tlvs) : t.tlvs[j].type \in 0..15
  <1> USE DEF LogModule, LogTimestampSec, LogTimestampMicrosec, LogSeverity, LogText,
              LogNamePrefix, LogNameSuffix, LogChannel
  <1>1. CASE t = Snac_NewFile
    BY <1>1 DEF Snac_NewFile
  <1>2. CASE t = Snac_Stop
    BY <1>2 DEF Snac_Stop
  <1>3. CASE t = Snac_Message
    BY <1>3 DEF Snac_Message
  <1> QED BY <1>1, <1>2, <1>3 DEF Traits

LEMMA Arguments ==
  ASSUME NEW t \in Traits, NEW a \in Args(t)
  PROVE  /\ a \in Seq(Value) /\ Len(a) = Len(t.tlvs) /\ Len(a) \in 3..6
         /\ \A j \in 1..Len(a) : /\ a[j] \in Seq(Octet) /\ Len(a[j]) \in Nat
                                 /\ CalcSize(a[j]) = TLV_HEADER_SIZE + Len(a[j])
  <1>1. a \in [1..Len(t.tlvs) -> Value] /\ Len(t.tlvs) \in 3..6
    BY Package DEF Args
  <1>2. a \in Seq(Value) /\ Len(a) = Len(t.tlvs) /\ Len(a) \in 3..6
    <2> DEFINE n == Len(t.tlvs)
    <2>1. n \in Nat /\ n \in 3..6 /\ a \in [1..n -> Value]
      BY <1>1
    <2> HIDE DEF n
    <2>2. a \in Seq(Value) /\ Len(a) = n
      BY <2>1
    <2> QED BY <2>1, <2>2 DEF n
  <1>3. ASSUME NEW j \in 1..Len(a)
        PROVE a[j] \in Seq(Octet) /\ Len(a[j]) \in Nat /\ CalcSize(a[j]) = TLV_HEADER_SIZE + Len(a[j])
    <2>1. a[j] \in Seq(Octet)
      BY <1>1, <1>2, ValueAssumption
    <2> QED BY <2>1, LenProperties DEF CalcSize
  <1> QED BY <1>2, <1>3

LEMMA SnacBytes ==
  ASSUME traits \in Traits, NEW id \in RequestId
  PROVE  SnacHeader(id) \in Seq(Octet)
  <1>1. /\ traits.service \in Nat /\ traits.service < Word
        /\ traits.subtype \in Nat /\ traits.subtype < Word /\ Word - 1 \in Nat /\ Word - 1 < Word
    BY Package, WordSize
  <1>2. /\ WordBytes(traits.service) \in Seq(Octet) /\ WordBytes(traits.subtype) \in Seq(Octet)
        /\ WordBytes(Word - 1) \in Seq(Octet) /\ id \in Seq(Octet)
    BY <1>1, WordRoundTrip, ValueAssumption
  <1> DEFINE a == WordBytes(traits.service)
             b == WordBytes(traits.subtype)
             c == WordBytes(Word - 1)
  <1>3. a \o b \in Seq(Octet)
    BY <1>2, Joined, Zenon
  <1>4. (a \o b) \o c \in Seq(Octet)
    BY <1>2, <1>3, Joined, Zenon
  <1>5. ((a \o b) \o c) \o id \in Seq(Octet)
    BY <1>2, <1>4, Joined, Zenon
  <1> QED BY <1>5 DEF SnacHeader

LEMMA FlapBytes ==
  ASSUME traits \in Traits, size \in Nat, size < Word
  PROVE  /\ FlapHeader \in Seq(Octet) /\ Len(FlapHeader) = 6
         /\ FlapHeader[1] = FLAP_MARK /\ FlapHeader[2] = traits.channel
         /\ FlapHeader[5] * Byte + FlapHeader[6] = size
  <1> DEFINE a == <<FLAP_MARK, traits.channel>>
             b == WordBytes(0)
             c == WordBytes(size)
             h == a \o b
             f == h \o c
  <1>1. a \in Seq(Octet) /\ Len(a) = 2 /\ a[1] = FLAP_MARK /\ a[2] = traits.channel
    <2>1. FLAP_MARK \in Octet /\ traits.channel \in Octet
      BY Package, ByteAssumption DEF Octet
    <2> QED BY <2>1
  <1>2. b \in Seq(Octet) /\ Len(b) = 2
    BY WordRoundTrip, WordSize
  <1>3. c \in Seq(Octet) /\ Len(c) = 2 /\ c[1] * Byte + c[2] = size
    BY WordRoundTrip
  <1>4. FlapHeader = f
    BY Unwrapped DEF FlapHeader
  <1> HIDE DEF a, b, c
  <1>5. /\ h \in Seq(Octet) /\ Len(h) = Len(a) + Len(b)
        /\ (\A i \in 1..Len(a) : h[i] = a[i])
    BY <1>1, <1>2, Joined, Zenon
  <1> HIDE DEF h
  <1>6. Len(h) = 4 /\ h[1] = a[1] /\ h[2] = a[2]
    BY <1>1, <1>2, <1>5
  <1>7. /\ f \in Seq(Octet) /\ Len(f) = Len(h) + Len(c)
        /\ (\A i \in 1..Len(h) : f[i] = h[i]) /\ \A i \in 1..Len(c) : f[Len(h) + i] = c[i]
    BY <1>3, <1>5, Joined, Zenon
  <1> HIDE DEF f
  <1>8. 1 \in 1..4 /\ 2 \in 1..4 /\ 1 \in 1..2 /\ 2 \in 1..2 /\ 4 + 1 = 5 /\ 4 + 2 = 6
    OBVIOUS
  <1>9. f[1] = FLAP_MARK /\ f[2] = traits.channel /\ f[5] = c[1] /\ f[6] = c[2] /\ Len(f) = 6
    <2>1. f[1] = h[1] /\ f[2] = h[2] /\ f[4 + 1] = c[1] /\ f[4 + 2] = c[2] /\ Len(f) = 4 + 2
      BY <1>3, <1>6, <1>7, <1>8, Zenon
    <2> QED BY <1>1, <1>6, <1>8, <2>1
  <1> QED BY <1>3, <1>4, <1>7, <1>9, Zenon

(***************************************************************************)
(* The invariant                                                           *)
(***************************************************************************)
LEMMA InvInit == Init => IInv
  <1> SUFFICES ASSUME Init PROVE IInv
    OBVIOUS
  <1>1. TypeOK
    BY WordSize, EmptySeq DEF Init, TypeOK, Traits, SNAC_HEADER_SIZE, FLAP_HEADER_SIZE
  <1> QED BY <1>1 DEF Init, IInv, SizeInv, FrameInv, WalkInv, IteratorInv, CountsInside, Sent,
                      Building

LEMMA SizeStep ==
  ASSUME TypeOK, SizeInv, [Next]_vars
  PROVE  SizeInv'
  <1>1. ASSUME NEW t \in Traits, NEW a \in Args(t), MakePackage(t, a) PROVE SizeInv'
    <2>1. args' \in Args(traits') /\ Len(args') \in 3..6
      BY <1>1, Arguments DEF MakePackage
    <2>2. Len(starts') = 1 /\ starts'[1] = 16 /\ size' = 10 /\ pc' = "size"
      BY <1>1 DEF MakePackage, FLAP_HEADER_SIZE, SNAC_HEADER_SIZE
    <2> QED BY <2>1, <2>2 DEF SizeInv, FLAP_HEADER_SIZE, SNAC_HEADER_SIZE
  <1>2. CASE AddSize
    <2> DEFINE n == Len(starts)
               c == CalcSize(args[n])
    <2>1. /\ traits \in Traits /\ args \in Args(traits) /\ n \in 1..Len(args)
          /\ starts \in Seq(Nat) /\ size \in Nat
      BY <1>2 DEF AddSize, SizeInv, TypeOK
    <2>2. Len(args) \in 3..6 /\ c \in Nat /\ c >= TLV_HEADER_SIZE
      BY <2>1, Arguments DEF TLV_HEADER_SIZE
    <2>3. /\ starts' \in Seq(Nat) /\ Len(starts') = n + 1 /\ starts'[n + 1] = starts[n] + c
          /\ \A k \in 1..n : starts'[k] = starts[k] /\ starts[k] \in Nat
      <3>1. starts[n] + c \in Nat /\ starts' = Append(starts, starts[n] + c)
        BY <1>2, <2>1, <2>2 DEF AddSize
      <3> HIDE DEF n, c
      <3> QED BY <2>1, <3>1, AppendProperties DEF n
    <2>4. size' = size + c /\ UNCHANGED <<pc, traits, args>>
      BY <1>2 DEF AddSize
    <2>5. /\ starts[1] = FLAP_HEADER_SIZE + SNAC_HEADER_SIZE
          /\ \A j \in 1..Len(args) : j < n => starts[j + 1] = starts[j] + CalcSize(args[j])
          /\ \A j, k \in 1..n : j < k => starts[j] + TLV_HEADER_SIZE <= starts[k]
          /\ starts[n] = FLAP_HEADER_SIZE + size /\ pc = "size"
      BY <1>2 DEF AddSize, SizeInv
    <2>6. \A j \in 1..Len(args) : j < n + 1 => starts'[j + 1] = starts'[j] + CalcSize(args[j])
      <3> SUFFICES ASSUME NEW j \in 1..Len(args), j < n + 1
                   PROVE  starts'[j + 1] = starts'[j] + CalcSize(args[j])
        OBVIOUS
      <3>1. CASE j = n
        BY <2>1, <2>3, <3>1
      <3>2. CASE j < n
        <4>1. j \in 1..n /\ j + 1 \in 1..n
          BY <2>1, <2>2, <3>2
        <4> HIDE DEF n, c
        <4>2. starts'[j] = starts[j] /\ starts'[j + 1] = starts[j + 1]
          BY <2>3, <4>1, Zenon
        <4>3. starts[j + 1] = starts[j] + CalcSize(args[j])
          BY <2>5, <3>2, Zenon
        <4> QED BY <4>2, <4>3, Zenon
      <3> QED BY <2>1, <2>2, <3>1, <3>2
    <2>7. \A j, k \in 1..(n + 1) : j < k => starts'[j] + TLV_HEADER_SIZE <= starts'[k]
      <3> SUFFICES ASSUME NEW j \in 1..(n + 1), NEW k \in 1..(n + 1), j < k
                   PROVE  starts'[j] + TLV_HEADER_SIZE <= starts'[k]
        OBVIOUS
      <3>1. j \in 1..n /\ n \in 1..n /\ (k \in 1..n \/ k = n + 1) /\ (j = n \/ j < n)
        BY <2>1, <2>2
      <3> HIDE DEF n, c
      <3>2. starts'[j] = starts[j] /\ starts[j] \in Nat /\ starts[n] \in Nat
        BY <2>3, <3>1, Zenon
      <3>3. CASE k \in 1..n
        <4>1. starts[j] + TLV_HEADER_SIZE <= starts[k] /\ starts'[k] = starts[k]
          BY <2>3, <2>5, <3>1, <3>3, Zenon
        <4> QED BY <3>2, <4>1, Zenon
      <3>4. CASE k = n + 1
        <4>1. starts[j] <= starts[n]
          <5>1. CASE j < n
            <6>1. starts[j] + TLV_HEADER_SIZE <= starts[n]
              BY <2>5, <3>1, <5>1, Zenon
            <6> QED BY ONLY <3>2, <6>1 DEF TLV_HEADER_SIZE
          <5> QED BY <3>1, <3>2, <5>1
        <4>2. starts'[k] = starts[n] + c
          BY <2>3, <3>4, Zenon
        <4> QED BY ONLY <2>2, <3>2, <4>1, <4>2 DEF TLV_HEADER_SIZE
      <3> QED BY <3>1, <3>3, <3>4
    <2>8. starts'[n + 1] = FLAP_HEADER_SIZE + size' /\ n + 1 \in 1..(Len(args) + 1)
          /\ starts'[1] = FLAP_HEADER_SIZE + SNAC_HEADER_SIZE
      <3> HIDE DEF n, c
      <3> QED BY <2>1, <2>2, <2>3, <2>4, <2>5 DEF FLAP_HEADER_SIZE
    <2> HIDE DEF n, c
    <2> QED BY <2>1, <2>3, <2>4, <2>5, <2>6, <2>7, <2>8 DEF SizeInv
  <1>3. CASE Overflow \/ FillHeader
    BY <1>3 DEF Overflow, FillHeader, Sized, Fits, SizeInv
  <1>4. CASE StoreData \/ FinishFlap \/ Damage \/ Cut \/ Parse
    BY <1>4 DEF StoreData, FinishFlap, Damage, Cut, Parse, ConstructParser, ConstructorThrows,
                Advance, AdvanceThrows, Counted, Refuse, builder, SizeInv
  <1>5. CASE UNCHANGED vars
    BY <1>5 DEF vars, SizeInv
  <1> QED BY <1>1, <1>2, <1>3, <1>4, <1>5 DEF Next, Build

\* what the sums say about the places
LEMMA Places ==
  ASSUME TypeOK, SizeInv, pc \notin {"idle", "size", "overflow"}
  PROVE  /\ traits \in Traits /\ args \in Args(traits) /\ Len(args) \in 3..6
         /\ size \in Nat /\ size < Word /\ Len(starts) = Len(args) + 1
         /\ \A j \in 1..(Len(args) + 1) :
              starts[j] \in Nat /\ starts[j] >= 16 /\ starts[j] <= FLAP_HEADER_SIZE + size
         /\ \A j \in 1..Len(args) : /\ args[j] \in Seq(Octet) /\ Len(args[j]) \in Nat
                                    /\ Len(args[j]) < Word /\ Len(args) = Len(traits.tlvs)
                                    /\ starts[j + 1] = starts[j] + TLV_HEADER_SIZE + Len(args[j])
         /\ \A j, k \in 1..(Len(args) + 1) : j < k => starts[j] + TLV_HEADER_SIZE <= starts[k]
         /\ starts[1] = 16 /\ starts[Len(args) + 1] = FLAP_HEADER_SIZE + size
  <1> USE DEF FLAP_HEADER_SIZE, SNAC_HEADER_SIZE, TLV_HEADER_SIZE
  <1>1. /\ traits \in Traits /\ args \in Args(traits) /\ size \in Nat /\ size <= Word - 1
        /\ starts \in Seq(Nat) /\ Len(starts) = Len(args) + 1 /\ starts[1] = 16
        /\ starts[Len(args) + 1] = 6 + size
    BY DEF SizeInv, TypeOK
  <1>2. /\ Len(args) \in 3..6 /\ Len(args) = Len(traits.tlvs)
        /\ \A j \in 1..Len(args) : /\ args[j] \in Seq(Octet) /\ Len(args[j]) \in Nat
                                   /\ CalcSize(args[j]) = 4 + Len(args[j])
    BY <1>1, Arguments
  <1>3. \A j, k \in 1..(Len(args) + 1) : j < k => starts[j] + 4 <= starts[k]
    BY <1>1 DEF SizeInv
  <1>4. \A j \in 1..(Len(args) + 1) : starts[j] \in Nat
    BY <1>1
  <1>5. 1 \in 1..(Len(args) + 1) /\ Len(args) + 1 \in 1..(Len(args) + 1)
    BY <1>2
  <1>6. \A j \in 1..(Len(args) + 1) : starts[j] >= 16 /\ starts[j] <= 6 + size
    <2> SUFFICES ASSUME NEW j \in 1..(Len(args) + 1) PROVE starts[j] >= 16 /\ starts[j] <= 6 + size
      OBVIOUS
    <2>1. starts[j] >= 16
      <3>1. CASE j = 1
        BY <1>1, <3>1
      <3>2. CASE 1 < j
        <4>1. starts[1] + 4 <= starts[j] /\ starts[j] \in Nat
          BY ONLY <1>3, <1>4, <1>5, <3>2, j \in 1..(Len(args) + 1), Zenon
        <4> QED BY <1>1, <4>1
      <3> QED BY <1>2, <3>1, <3>2
    <2>2. starts[j] <= 6 + size
      <3>1. CASE j = Len(args) + 1
        BY <1>1, <3>1
      <3>2. CASE j < Len(args) + 1
        <4>1. starts[j] + 4 <= starts[Len(args) + 1] /\ starts[j] \in Nat
          BY ONLY <1>3, <1>4, <1>5, <3>2, j \in 1..(Len(args) + 1), Zenon
        <4> QED BY <1>1, <4>1
      <3> QED BY <1>2, <3>1, <3>2
    <2> QED BY <2>1, <2>2
  <1>7. ASSUME NEW j \in 1..Len(args)
        PROVE  starts[j + 1] = starts[j] + 4 + Len(args[j]) /\ Len(args[j]) < Word
    <2>1. /\ j \in Nat /\ j < Len(starts)
          /\ j \in 1..(Len(args) + 1) /\ j + 1 \in 1..(Len(args) + 1)
      <3>1. Len(args) \in 3..6 /\ Len(starts) = Len(args) + 1
        BY <1>1, <1>2, Zenon
      <3> QED BY ONLY <3>1, j \in 1..Len(args)
    <2>2. starts[j + 1] = starts[j] + CalcSize(args[j])
      BY <2>1 DEF SizeInv
    <2>3. CalcSize(args[j]) = 4 + Len(args[j]) /\ Len(args[j]) \in Nat
      BY <1>2, Zenon
    <2>4. starts[j] \in Nat /\ starts[j + 1] \in Nat /\ starts[j] >= 16 /\ starts[j + 1] <= 6 + size
      BY <1>4, <1>6, <2>1, Zenon
    <2> DEFINE a == starts[j]
               b == starts[j + 1]
               c == Len(args[j])
    <2>5. b = a + (4 + c) /\ a \in Nat /\ c \in Nat /\ a >= 16 /\ b <= 6 + size
      BY <2>2, <2>3, <2>4, Zenon
    <2> HIDE DEF a, b, c
    <2>6. b = a + 4 + c /\ c < Word
      BY <1>1, <2>5, WordSize
    <2> QED BY <2>6, Zenon DEF a, b, c
  <1>8. size < Word
    BY <1>1, WordSize
  <1>9. \A j \in 1..Len(args) : /\ starts[j + 1] = starts[j] + 4 + Len(args[j])
                                /\ Len(args[j]) < Word
    BY <1>7, Zenon
  <1> QED BY <1>1, <1>2, <1>3, <1>4, <1>6, <1>8, <1>9, Zenon
\* what the iterator reads, and where it may end
LEMMA Reading ==
  ASSUME stg \in Seq(Octet), NEW p \in Nat
  PROVE  Read(p) \subseteq Octet /\ Read(p) # {} /\ (p < Len(stg) => Read(p) = {stg[p + 1]})
  <1>1. 0 \in Octet
    BY ByteAssumption DEF Octet
  <1>2. p < Len(stg) => stg[p + 1] \in Octet
    BY LenProperties
  <1> QED BY <1>1, <1>2 DEF Read

LEMMA Ends ==
  ASSUME stg \in Seq(Octet), NEW p \in Nat, NEW e \in EndAfter(p)
  PROVE  e \in Nat /\ e >= p
  <1>1. CASE p = EndPtr
    BY <1>1 DEF EndAfter
  <1>2. CASE p # EndPtr
    <2>1. PICK n \in GetSize(p) : e = p + n
      BY <1>2 DEF EndAfter
    <2>2. PICK high \in Read(p + 2), low \in Read(p + 3) :
            n = (TLV_HEADER_SIZE + high * Byte + low) % Word
      <3>1. n \in GetSize(p)
        BY <2>1
      <3> QED BY ONLY <3>1 DEF GetSize
    <2>3. high \in Octet /\ low \in Octet
      BY Reading, p + 2 \in Nat, p + 3 \in Nat, Zenon
    <2>4. n \in Nat
      BY <2>2, <2>3, BytesAreWord, Zenon
    <2> QED BY <2>1, <2>4
  <1> QED BY <1>1, <1>2

LEMMA TypeStep ==
  ASSUME TypeOK, SizeInv, [Next]_vars
  PROVE  TypeOK'
  <1>0. Word \in Nat /\ Word >= 64
    BY WordSize
  <1>1. ASSUME NEW t \in Traits, NEW a \in Args(t), MakePackage(t, a) PROVE TypeOK'
    <2>1. a \in Seq(Value)
      BY Arguments
    <2>2. stg' \in Seq(Octet) /\ Len(stg') = 6
      BY <1>1, EmptySeq, ResizedBytes DEF MakePackage, FLAP_HEADER_SIZE
    <2>3. starts' \in Seq(Nat) /\ size' \in Nat
      BY <1>1 DEF MakePackage, FLAP_HEADER_SIZE, SNAC_HEADER_SIZE
    <2>4. Len(stg') <= Word - 1 + FLAP_HEADER_SIZE
      BY <1>0, <2>2 DEF FLAP_HEADER_SIZE
    <2> QED BY <1>1, <2>1, <2>2, <2>3, <2>4 DEF MakePackage, TypeOK
  <1>2. CASE AddSize
    <2>1. Len(starts) \in 1..Len(args) /\ args \in Args(traits) /\ traits \in Traits
      BY <1>2 DEF AddSize, SizeInv, TypeOK
    <2>2. CalcSize(args[Len(starts)]) \in Nat
      BY <2>1, Arguments DEF TLV_HEADER_SIZE
    <2>3. starts \in Seq(Nat) /\ starts[Len(starts)] \in Nat /\ size \in Nat
      BY <2>1 DEF TypeOK
    <2>4. starts' \in Seq(Nat) /\ size' \in Nat
      <3> DEFINE x == starts[Len(starts)]
                 c == CalcSize(args[Len(starts)])
      <3>1. starts' = Append(starts, x + c) /\ size' = size + c
        BY <1>2 DEF AddSize
      <3>2. x \in Nat /\ c \in Nat /\ starts \in Seq(Nat) /\ size \in Nat
        BY <2>2, <2>3
      <3> HIDE DEF x, c
      <3> QED BY <3>1, <3>2, AppendProperties
    <2> QED BY <1>2, <2>4 DEF AddSize, TypeOK
  <1>3. CASE Overflow
    BY <1>3 DEF Overflow, TypeOK
  <1>4. CASE FillHeader
    <2>1. PICK id \in RequestId :
            stg' = Put(Resized(stg, (size % Word) + FLAP_HEADER_SIZE), FLAP_HEADER_SIZE, SnacHeader(id))
      BY <1>4 DEF FillHeader
    <2>2. size \in Nat /\ size <= Word - 1 /\ size % Word = size
      <3>1. size \in Nat /\ size <= Word - 1
        BY <1>4 DEF FillHeader, Fits, TypeOK
      <3>2. size < Word
        BY <1>0, <3>1
      <3> QED BY <3>1, <3>2, Unwrapped, Zenon
    <2>3. size + FLAP_HEADER_SIZE \in Nat /\ FLAP_HEADER_SIZE \in Nat
      BY <2>2 DEF FLAP_HEADER_SIZE
    <2>4. SnacHeader(id) \in Seq(Octet)
      BY SnacBytes DEF TypeOK
    <2>5. stg' \in Seq(Octet) /\ Len(stg') = size + FLAP_HEADER_SIZE
      <3>1. Resized(stg, size + FLAP_HEADER_SIZE) \in Seq(Octet)
            /\ Len(Resized(stg, size + FLAP_HEADER_SIZE)) = size + FLAP_HEADER_SIZE
        BY <2>3, ResizedBytes DEF TypeOK
      <3> DEFINE r == Resized(stg, size + FLAP_HEADER_SIZE)
                 h == SnacHeader(id)
      <3>2. stg' = Put(r, FLAP_HEADER_SIZE, h)
        BY <2>1, <2>2, Zenon
      <3>3. r \in Seq(Octet) /\ Len(r) = size + FLAP_HEADER_SIZE /\ h \in Seq(Octet)
        BY <2>4, <3>1
      <3> HIDE DEF r, h
      <3>4. Put(r, FLAP_HEADER_SIZE, h) \in Seq(Octet) /\ Len(Put(r, FLAP_HEADER_SIZE, h)) = Len(r)
        BY <2>3, <3>3, PutBytes, Zenon
      <3> QED BY <3>2, <3>3, <3>4, Zenon
    <2>6. Len(stg') <= Word - 1 + FLAP_HEADER_SIZE
      BY <1>0, <2>2, <2>5 DEF FLAP_HEADER_SIZE
    <2>7. ptr' \in Nat
      BY <1>4 DEF FillHeader, FLAP_HEADER_SIZE, SNAC_HEADER_SIZE
    <2> QED BY <1>4, <2>5, <2>6, <2>7 DEF FillHeader, TypeOK
  <1>5. CASE StoreData
    <2>1. next \in 1..Len(args) /\ pc = "store" /\ ptr \in Nat /\ next \in Nat
      BY <1>5 DEF StoreData, TypeOK
    <2>2. /\ traits \in Traits /\ args[next] \in Seq(Octet) /\ Len(args[next]) < Word
          /\ Len(args[next]) \in Nat /\ next \in 1..Len(traits.tlvs) /\ args \in Args(traits)
      BY <2>1, Places
    <2>3. traits.tlvs[next].type \in 0..15
      BY <2>2, Package
    <2>4. Tlv(traits.tlvs[next], args[next]) \in Seq(Octet)
      BY <2>2, <2>3, TlvBytes
    <2>5. stg' \in Seq(Octet) /\ Len(stg') = Len(stg)
      BY <1>5, <2>1, <2>4, PutBytes DEF StoreData, TypeOK
    <2>6. CalcSize(args[next]) = TLV_HEADER_SIZE + Len(args[next])
      BY <2>1, <2>2, Arguments
    <2>7. ptr' \in Nat /\ next' \in Nat \ {0}
      BY <1>5, <2>1, <2>2, <2>6 DEF StoreData, TLV_HEADER_SIZE
    <2> QED BY <1>5, <2>5, <2>7 DEF StoreData, TypeOK
  <1>6. CASE FinishFlap
    <2>1. FlapHeader \in Seq(Octet)
      BY <1>6, Places, FlapBytes DEF FinishFlap
    <2>2. stg' \in Seq(Octet) /\ Len(stg') = Len(stg)
      BY <1>6, <2>1, PutBytes DEF FinishFlap, TypeOK
    <2> QED BY <1>6, <2>2 DEF FinishFlap, builder, TypeOK
  <1>7. CASE Damage
    <2>1. PICK q \in 1..Len(stg), b \in Noise : stg' = [stg EXCEPT ![q] = b]
      BY <1>7 DEF Damage
    <2>2. b \in Octet /\ stg \in Seq(Octet)
      BY ValueAssumption DEF TypeOK
    <2>3. stg' \in Seq(Octet) /\ Len(stg') = Len(stg)
      BY <2>1, <2>2, ExceptSeq
    <2> QED BY <1>7, <2>3 DEF Damage, builder, TypeOK
  <1>8. CASE Cut
    <2>1. PICK n \in 0..(Len(stg) - 1) : stg' = SubSeq(stg, 1, n)
      BY <1>8 DEF Cut
    <2>2. stg \in Seq(Octet) /\ Len(stg) \in Nat /\ Len(stg) <= Word - 1 + FLAP_HEADER_SIZE
      BY LenProperties DEF TypeOK
    <2>3. stg' \in Seq(Octet) /\ Len(stg') = n /\ n \in Nat
      <3>1. \A i \in 1..n : stg[i] \in Octet
        BY <2>2
      <3>2. Len(stg') = n
        BY <2>1, <2>2, SubSeqProperties
      <3> QED BY <2>1, <2>2, <3>1, <3>2, SubSeqProperties
    <2>4. Len(stg') <= Word - 1 + FLAP_HEADER_SIZE
      BY <1>0, <2>1, <2>2, <2>3 DEF FLAP_HEADER_SIZE
    <2> QED BY <1>8, <2>3, <2>4 DEF Cut, builder, TypeOK
  <1>9. CASE ConstructParser
    <2>1. begin' \in Nat /\ end' \in EndAfter(begin')
      BY <1>9 DEF ConstructParser, FLAP_HEADER_SIZE, SNAC_HEADER_SIZE
    <2>2. end' \in Nat
      BY <2>1, Ends DEF TypeOK
    <2> QED BY <1>9, <2>1, <2>2 DEF ConstructParser, builder, TypeOK
  <1>10. CASE Advance
    <2>1. begin' \in Nat /\ end' \in EndAfter(begin')
      BY <1>10 DEF Advance, TypeOK
    <2>2. end' \in Nat
      BY <2>1, Ends DEF TypeOK
    <2>3. visited' \in Seq(Nat)
      BY <1>10, AppendProperties DEF Advance, TypeOK
    <2> QED BY <1>10, <2>1, <2>2, <2>3 DEF Advance, builder, TypeOK
  <1>11. CASE ConstructorThrows \/ AdvanceThrows \/ Counted
    BY <1>11 DEF ConstructorThrows, AdvanceThrows, Counted, Refuse, builder, TypeOK
  <1>12. CASE UNCHANGED vars
    BY <1>12 DEF vars, TypeOK
  <1> QED BY <1>1, <1>2, <1>3, <1>4, <1>5, <1>6, <1>7, <1>8, <1>9, <1>10, <1>11, <1>12
          DEF Next, Build, Parse
\* a TLV depends on its own bytes only, and these are what store_data writes
LEMMA Kept ==
  ASSUME NEW j, starts[j] \in Nat, Len(args[j]) \in Nat, NEW s, NEW r, Stored(s, j),
         \A q \in (starts[j] + 1)..(starts[j] + TLV_HEADER_SIZE + Len(args[j])) : r[q] = s[q]
  PROVE  Stored(r, j)
  <1> DEFINE p == starts[j]
             n == Len(args[j])
  <1>1. p \in Nat /\ n \in Nat /\ \A q \in (p + 1)..(p + 4 + n) : r[q] = s[q]
    BY DEF TLV_HEADER_SIZE
  <1>2. WordAt(s, p) = traits.tlvs[j].type /\ WordAt(s, p + 2) = n
        /\ \A b \in 1..n : s[p + 4 + b] = BigEndian(traits.tlvs[j], args[j])[b]
    BY DEF Stored, TLV_HEADER_SIZE
  <1>3. SUFFICES /\ WordAt(r, p) = WordAt(s, p) /\ WordAt(r, p + 2) = WordAt(s, p + 2)
                 /\ \A b \in 1..n : r[p + 4 + b] = s[p + 4 + b]
    BY <1>2 DEF Stored, TLV_HEADER_SIZE
  <1> HIDE DEF p, n
  <1>4. /\ p + 1 \in (p + 1)..(p + 4 + n) /\ p + 2 \in (p + 1)..(p + 4 + n)
        /\ (p + 2) + 1 \in (p + 1)..(p + 4 + n) /\ (p + 2) + 2 \in (p + 1)..(p + 4 + n)
        /\ \A b \in 1..n : p + 4 + b \in (p + 1)..(p + 4 + n)
    BY <1>1
  <1> QED BY <1>1, <1>4, Zenon DEF WordAt

LEMMA Written ==
  ASSUME NEW j, starts[j] \in Nat, NEW r, traits.tlvs[j].type \in 0..15,
         args[j] \in Seq(Octet), Len(args[j]) < Word,
         \A i \in 1..(TLV_HEADER_SIZE + Len(args[j])) :
           r[starts[j] + i] = Tlv(traits.tlvs[j], args[j])[i]
  PROVE  Stored(r, j)
  <1> DEFINE p == starts[j]
             n == Len(args[j])
             b == Tlv(traits.tlvs[j], args[j])
             d == BigEndian(traits.tlvs[j], args[j])
  <1>1. p \in Nat /\ n \in Nat /\ \A i \in 1..(4 + n) : r[p + i] = b[i]
    BY LenProperties DEF TLV_HEADER_SIZE
  <1>2. /\ b[1] * Byte + b[2] = traits.tlvs[j].type /\ b[3] * Byte + b[4] = n
        /\ \A k \in 1..n : b[4 + k] = d[k]
    <2> DEFINE trait == traits.tlvs[j]
               v == args[j]
    <2>1. trait.type \in 0..15 /\ v \in Seq(Octet) /\ Len(v) < Word
      OBVIOUS
    <2> HIDE DEF trait, v
    <2>2. LET c == Tlv(trait, v)
          IN  /\ c[1] * Byte + c[2] = trait.type
              /\ c[3] * Byte + c[4] = Len(v)
              /\ \A k \in 1..Len(v) : c[TLV_HEADER_SIZE + k] = BigEndian(trait, v)[k]
      BY ONLY <2>1, TlvBytes, Zenon
    <2> QED BY ONLY <2>2, Zenon DEF trait, v, TLV_HEADER_SIZE
  <1>3. SUFFICES /\ WordAt(r, p) = b[1] * Byte + b[2] /\ WordAt(r, p + 2) = b[3] * Byte + b[4]
                 /\ \A k \in 1..n : r[p + 4 + k] = b[4 + k]
    BY <1>2, Zenon DEF Stored, TLV_HEADER_SIZE
  <1> HIDE DEF p, n, b, d
  <1>4. /\ 1 \in 1..(4 + n) /\ 2 \in 1..(4 + n) /\ 3 \in 1..(4 + n) /\ 4 \in 1..(4 + n)
        /\ (p + 2) + 1 = p + 3 /\ (p + 2) + 2 = p + 4
        /\ \A k \in 1..n : 4 + k \in 1..(4 + n) /\ p + 4 + k = p + (4 + k)
    <2>1. p \in Nat /\ n \in Nat
      BY <1>1
    <2> QED BY ONLY <2>1
  <1> QED BY <1>1, <1>4, Zenon DEF WordAt

LEMMA StoreDataStep ==
  ASSUME TypeOK, SizeInv, FrameInv, StoreData
  PROVE  /\ next' \in 1..(Len(args) + 1) /\ ptr' = starts[next'] /\ Len(stg') = FLAP_HEADER_SIZE + size
         /\ \A j \in 1..Len(args) : j < next' => Stored(stg', j)
  <1>1. /\ pc = "store" /\ next \in 1..Len(args) /\ ptr = starts[next] /\ next' = next + 1
        /\ Len(stg) = FLAP_HEADER_SIZE + size /\ stg \in Seq(Octet)
        /\ \A j \in 1..Len(args) : j < next => Stored(stg, j)
    <2>1. pc = "store" /\ next <= Len(args) /\ next' = next + 1
      BY DEF StoreData
    <2>2. /\ ptr = starts[next] /\ Len(stg) = FLAP_HEADER_SIZE + size
          /\ \A j \in 1..Len(args) : j < next => Stored(stg, j)
      BY <2>1 DEF FrameInv
    <2>3. next \in Nat \ {0} /\ stg \in Seq(Octet) /\ args \in Seq(Value)
      BY DEF TypeOK
    <2>4. next \in 1..Len(args)
      BY ONLY <2>1, <2>3, LenProperties
    <2> QED BY <2>1, <2>2, <2>3, <2>4, Zenon
  <1>2. /\ traits \in Traits /\ args \in Args(traits) /\ Len(args) \in 3..6 /\ size \in Nat
        /\ \A j \in 1..(Len(args) + 1) :
             starts[j] \in Nat /\ starts[j] >= 16 /\ starts[j] <= FLAP_HEADER_SIZE + size
        /\ \A j \in 1..Len(args) : /\ args[j] \in Seq(Octet) /\ Len(args[j]) \in Nat
                                   /\ Len(args[j]) < Word /\ Len(args) = Len(traits.tlvs)
                                   /\ starts[j + 1] = starts[j] + TLV_HEADER_SIZE + Len(args[j])
        /\ \A j, k \in 1..(Len(args) + 1) : j < k => starts[j] + TLV_HEADER_SIZE <= starts[k]
    BY <1>1, Places
  <1> DEFINE b == Tlv(traits.tlvs[next], args[next])
             n == Len(args[next])
             top == Len(args)
  <1>3. traits.tlvs[next].type \in 0..15
    BY <1>1, <1>2, Package
  <1>4. b \in Seq(Octet) /\ Len(b) = 4 + n /\ n \in Nat
    BY <1>1, <1>2, <1>3, TlvBytes DEF TLV_HEADER_SIZE
  <1>5. next \in 1..(top + 1) /\ next + 1 \in 1..(top + 1) /\ next \in Nat /\ next < next + 1
    BY <1>1, <1>2
  <1>6. /\ ptr \in Nat /\ starts[next + 1] = ptr + (4 + n)
        /\ starts[next + 1] <= FLAP_HEADER_SIZE + size
    <2>1. ptr \in Nat /\ starts[next + 1] = starts[next] + TLV_HEADER_SIZE + n
      BY <1>1, <1>2, <1>5, Zenon
    <2>2. starts[next + 1] <= FLAP_HEADER_SIZE + size
      BY <1>2, <1>5, Zenon
    <2>3. ptr = starts[next] /\ n \in Nat
      BY <1>1, <1>4
    <2> DEFINE here == starts[next]
               after == starts[next + 1]
    <2> HIDE DEF n, here, after
    <2>4. after = here + TLV_HEADER_SIZE + n /\ ptr = here
      BY <2>1, <2>3, Zenon DEF here, after
    <2>5. after = ptr + (4 + n)
      BY ONLY <2>1, <2>3, <2>4 DEF TLV_HEADER_SIZE
    <2> QED BY <2>1, <2>2, <2>5, Zenon DEF after
  <1>7. ptr' = starts[next']
    <2>1. ptr' = ptr + CalcSize(args[next]) /\ CalcSize(args[next]) = TLV_HEADER_SIZE + n
      BY <1>1, <1>2, Arguments DEF StoreData
    <2> HIDE DEF n
    <2> QED BY <1>1, <1>6, <2>1 DEF TLV_HEADER_SIZE
  <1>8. stg' = Put(stg, ptr, b)
    BY DEF StoreData
  <1> HIDE DEF b, n
  <1>9. /\ stg' \in Seq(Octet) /\ Len(stg') = Len(stg) /\ Len(stg) \in Nat
        /\ \A q \in 1..Len(stg) :
             stg'[q] = IF q \in (ptr + 1)..(ptr + (4 + n)) THEN b[q - ptr] ELSE stg[q]
    <2>1. Len(stg) \in Nat /\ stg \in Seq(Octet) /\ ptr \in Nat /\ b \in Seq(Octet)
      BY <1>1, <1>4, <1>6, LenProperties
    <2>2. /\ Put(stg, ptr, b) \in Seq(Octet) /\ Len(Put(stg, ptr, b)) = Len(stg)
          /\ \A q \in 1..Len(stg) :
               Put(stg, ptr, b)[q] = IF q \in (ptr + 1)..(ptr + Len(b)) THEN b[q - ptr] ELSE stg[q]
      BY ONLY <2>1, PutBytes, Zenon
    <2> QED BY <1>4, <1>8, <2>1, <2>2, Zenon
  <1>10. ptr + (4 + n) <= Len(stg)
    BY <1>1, <1>6
  <1>11. ASSUME NEW j \in 1..Len(args), j < next PROVE Stored(stg', j)
    <2>1. j \in 1..(top + 1) /\ j + 1 \in 1..(top + 1) /\ (j + 1 = next \/ j + 1 < next)
      BY <1>2, <1>5, <1>11
    <2> DEFINE p == starts[j]
               m == Len(args[j])
               after == starts[j + 1]
               here == starts[next]
    <2>2. /\ p \in Nat /\ m \in Nat /\ after = p + TLV_HEADER_SIZE + m /\ after \in Nat
          /\ here \in Nat /\ ptr = here
      BY <1>1, <1>2, <1>5, <2>1, Zenon
    <2>3. after = here \/ after + TLV_HEADER_SIZE <= here
      BY <1>2, <1>5, <2>1, Zenon
    <2>4. Stored(stg, j)
      BY <1>1, <1>11, Zenon
    <2> HIDE DEF p, m, after, here, top
    <2>5. p + 4 + m <= ptr
      BY <2>2, <2>3 DEF TLV_HEADER_SIZE
    <2>6. ASSUME NEW q \in (p + 1)..(p + 4 + m) PROVE stg'[q] = stg[q]
      <3>1. q \in 1..Len(stg) /\ q \notin (ptr + 1)..(ptr + (4 + n))
        BY <1>4, <1>6, <1>9, <1>10, <2>2, <2>5
      <3> QED BY <1>9, <3>1, Zenon
    <2>7. \A q \in (starts[j] + 1)..(starts[j] + TLV_HEADER_SIZE + Len(args[j])) : stg'[q] = stg[q]
      BY <2>6, Zenon DEF p, m, TLV_HEADER_SIZE
    <2> QED BY <2>2, <2>4, <2>7, Kept, Zenon DEF p, m
  <1>12. Stored(stg', next)
    <2>1. ASSUME NEW i \in 1..(4 + n) PROVE stg'[ptr + i] = b[i]
      <3>1. /\ ptr + i \in 1..Len(stg) /\ ptr + i \in (ptr + 1)..(ptr + (4 + n))
            /\ (ptr + i) - ptr = i
        BY <1>4, <1>6, <1>9, <1>10
      <3> QED BY <1>9, <3>1, Zenon
    <2>2. \A i \in 1..(TLV_HEADER_SIZE + Len(args[next])) :
            stg'[starts[next] + i] = Tlv(traits.tlvs[next], args[next])[i]
      BY <1>1, <2>1, Zenon DEF b, n, TLV_HEADER_SIZE
    <2> QED BY <1>1, <1>2, <1>3, <1>6, <2>2, Written, Zenon
  <1>13. ASSUME NEW j \in 1..Len(args), j < next' PROVE Stored(stg', j)
    <2>1. j < next \/ j = next
      BY <1>1, <1>2, <1>13
    <2> QED BY <1>11, <1>12, <2>1, Zenon
  <1> QED BY <1>1, <1>5, <1>7, <1>9, <1>13, Zenon DEF top

LEMMA FinishFlapStep ==
  ASSUME TypeOK, SizeInv, FrameInv, FinishFlap
  PROVE  /\ Len(stg') = FLAP_HEADER_SIZE + size
         /\ stg'[1] = FLAP_MARK /\ stg'[2] = traits.channel /\ WordAt(stg', OFFSET_SNAC_SIZE) = size
         /\ \A j \in 1..Len(args) : Stored(stg', j)
  <1>1. /\ pc = "store" /\ next = Len(args) + 1 /\ Len(stg) = FLAP_HEADER_SIZE + size
        /\ stg \in Seq(Octet) /\ \A j \in 1..Len(args) : j < next => Stored(stg, j)
    <2>1. pc = "store" /\ next > Len(args) /\ next <= Len(args) + 1 /\ next \in Nat
      BY DEF FinishFlap, FrameInv, TypeOK
    <2>2. Len(args) \in 3..6
      BY <2>1, Places
    <2>3. next = Len(args) + 1
      BY <2>1, <2>2
    <2> QED BY <2>1, <2>3 DEF FrameInv, TypeOK
  <1>2. /\ traits \in Traits /\ Len(args) \in 3..6 /\ size \in Nat /\ size < Word
        /\ \A j \in 1..(Len(args) + 1) :
             starts[j] \in Nat /\ starts[j] >= 16 /\ starts[j] <= FLAP_HEADER_SIZE + size
        /\ \A j \in 1..Len(args) : /\ Len(args[j]) \in Nat
                                   /\ starts[j + 1] = starts[j] + TLV_HEADER_SIZE + Len(args[j])
    BY <1>1, Places
  <1> DEFINE f == FlapHeader
  <1>3. /\ f \in Seq(Octet) /\ Len(f) = 6 /\ f[1] = FLAP_MARK /\ f[2] = traits.channel
        /\ f[5] * Byte + f[6] = size
    BY <1>2, FlapBytes
  <1>4. stg' = Put(stg, 0, f)
    BY DEF FinishFlap
  <1> HIDE DEF f
  <1>5. /\ Len(stg') = Len(stg) /\ Len(stg) \in Nat
        /\ \A q \in 1..Len(stg) : stg'[q] = IF q \in (0 + 1)..(0 + 6) THEN f[q - 0] ELSE stg[q]
    <2>1. Len(stg) \in Nat /\ 0 \in Nat
      BY <1>1, LenProperties
    <2>2. /\ Put(stg, 0, f) \in Seq(Octet) /\ Len(Put(stg, 0, f)) = Len(stg)
          /\ \A q \in 1..Len(stg) :
               Put(stg, 0, f)[q] = IF q \in (0 + 1)..(0 + Len(f)) THEN f[q - 0] ELSE stg[q]
      BY <1>1, <1>3, <2>1, PutBytes, Zenon
    <2> QED BY <1>3, <1>4, <2>1, <2>2, Zenon
  <1>6. \A q \in 1..6 : q \in 1..Len(stg) /\ q \in (0 + 1)..(0 + 6) /\ q - 0 = q
    BY <1>1, <1>2 DEF FLAP_HEADER_SIZE
  <1>7. \A q \in 1..6 : stg'[q] = f[q]
    BY <1>5, <1>6, Zenon
  <1>8. 1 \in 1..6 /\ 2 \in 1..6 /\ 5 \in 1..6 /\ 6 \in 1..6 /\ 4 + 1 = 5 /\ 4 + 2 = 6
    OBVIOUS
  <1>9. stg'[1] = FLAP_MARK /\ stg'[2] = traits.channel /\ WordAt(stg', OFFSET_SNAC_SIZE) = size
    BY <1>3, <1>7, <1>8, Zenon DEF WordAt, OFFSET_SNAC_SIZE
  <1>10. ASSUME NEW j \in 1..Len(args) PROVE Stored(stg', j)
    <2>1. j \in 1..(Len(args) + 1) /\ j + 1 \in 1..(Len(args) + 1) /\ j < next
      BY <1>1, <1>2
    <2> DEFINE p == starts[j]
               m == Len(args[j])
               after == starts[j + 1]
    <2>2. /\ p \in Nat /\ p >= 16 /\ m \in Nat /\ after = p + TLV_HEADER_SIZE + m
          /\ after <= FLAP_HEADER_SIZE + size
      BY <1>2, <2>1, Zenon
    <2>3. Stored(stg, j)
      BY <1>1, <2>1, Zenon
    <2> HIDE DEF p, m, after
    <2>4. ASSUME NEW q \in (p + 1)..(p + 4 + m) PROVE stg'[q] = stg[q]
      <3>1. q \in 1..Len(stg) /\ q \notin (0 + 1)..(0 + 6)
        BY <1>1, <1>2, <2>2 DEF TLV_HEADER_SIZE
      <3> QED BY <1>5, <3>1, Zenon
    <2>5. \A q \in (starts[j] + 1)..(starts[j] + TLV_HEADER_SIZE + Len(args[j])) : stg'[q] = stg[q]
      BY <2>4, Zenon DEF p, m, TLV_HEADER_SIZE
    <2> QED BY <2>2, <2>3, <2>5, Kept, Zenon DEF p, m
  <1> QED BY <1>1, <1>5, <1>9, <1>10, Zenon
LEMMA FrameStep ==
  ASSUME TypeOK, SizeInv, FrameInv, [Next]_vars
  PROVE  FrameInv'
  <1>1. ASSUME NEW t \in Traits, NEW a \in Args(t), MakePackage(t, a) PROVE FrameInv'
    BY <1>1 DEF MakePackage, FrameInv, Sent
  <1>2. CASE AddSize \/ Overflow
    BY <1>2 DEF AddSize, Overflow, Sized, FrameInv, Sent
  <1>3. CASE FillHeader
    <2>1. pc = "size" /\ next = 1 /\ size \in Nat /\ size <= Word - 1
          /\ Len(starts) = Len(args) + 1 /\ starts[1] = 16 /\ traits \in Traits /\ args \in Args(traits)
      BY <1>3 DEF FillHeader, Sized, Fits, FrameInv, TypeOK, SizeInv, FLAP_HEADER_SIZE, SNAC_HEADER_SIZE
    <2>2. Len(args) \in 3..6
      BY <2>1, Arguments
    <2>3. ptr' = 16 /\ pc' = "store" /\ UNCHANGED <<traits, args, size, starts, next>>
      BY <1>3 DEF FillHeader, FLAP_HEADER_SIZE, SNAC_HEADER_SIZE
    <2>4. Len(stg') = FLAP_HEADER_SIZE + size
      <3>1. PICK id \in RequestId :
              stg' = Put(Resized(stg, (size % Word) + FLAP_HEADER_SIZE), FLAP_HEADER_SIZE, SnacHeader(id))
        BY <1>3 DEF FillHeader
      <3>2. size < Word
        BY <2>1, WordSize
      <3>3. size % Word = size
        BY <2>1, <3>2, Unwrapped, Zenon
      <3>4. size + FLAP_HEADER_SIZE \in Nat /\ FLAP_HEADER_SIZE \in Nat
        BY <2>1 DEF FLAP_HEADER_SIZE
      <3> DEFINE r == Resized(stg, size + FLAP_HEADER_SIZE)
                 h == SnacHeader(id)
      <3>5. r \in Seq(Octet) /\ Len(r) = size + FLAP_HEADER_SIZE
        BY <3>4, ResizedBytes DEF TypeOK
      <3>6. h \in Seq(Octet)
        BY <2>1, SnacBytes
      <3>7. stg' = Put(r, FLAP_HEADER_SIZE, h)
        BY <3>1, <3>3, Zenon
      <3> HIDE DEF r, h
      <3>8. Len(Put(r, FLAP_HEADER_SIZE, h)) = Len(r)
        BY <3>4, <3>5, <3>6, PutBytes, Zenon
      <3>9. Len(stg') = size + FLAP_HEADER_SIZE
        BY <3>5, <3>7, <3>8, Zenon
      <3> QED BY <2>1, <3>9 DEF FLAP_HEADER_SIZE
    <2>5. \A j \in 1..Len(args) : ~(j < 1)
      BY <2>2
    <2>6. next <= Len(args) + 1
      BY <2>1, <2>2
    <2> QED BY <2>1, <2>3, <2>4, <2>5, <2>6 DEF FrameInv, Sent
  <1>4. CASE StoreData
    <2>1. pc' = "store" /\ UNCHANGED <<traits, args, size, starts>> /\ pc = "store"
      BY <1>4 DEF StoreData
    <2>2. /\ next' \in 1..(Len(args) + 1) /\ ptr' = starts[next']
          /\ Len(stg') = FLAP_HEADER_SIZE + size
          /\ \A j \in 1..Len(args) : j < next' => Stored(stg', j)
      BY <1>4, StoreDataStep
    <2>3. next' <= Len(args) + 1
      BY <2>1, <2>2, Places
    <2>4. \A j \in 1..Len(args) : j < next' => Stored(stg, j)'
      BY <2>1, <2>2 DEF Stored
    <2> QED BY <2>1, <2>2, <2>3, <2>4 DEF FrameInv, Sent
  <1>5. CASE FinishFlap
    <2>1. pc' = "built" /\ UNCHANGED <<traits, args, size, starts>>
      BY <1>5 DEF FinishFlap, builder
    <2>2. /\ Len(stg') = FLAP_HEADER_SIZE + size
          /\ stg'[1] = FLAP_MARK /\ stg'[2] = traits.channel /\ WordAt(stg', OFFSET_SNAC_SIZE) = size
          /\ \A j \in 1..Len(args) : Stored(stg', j)
      BY <1>5, FinishFlapStep
    <2>3. \A j \in 1..Len(args) : Stored(stg, j)'
      BY <2>1, <2>2 DEF Stored
    <2>4. WordAt(stg, OFFSET_SNAC_SIZE)' = WordAt(stg', OFFSET_SNAC_SIZE)
      BY DEF WordAt, OFFSET_SNAC_SIZE
    <2> QED BY <2>1, <2>2, <2>3, <2>4 DEF FrameInv, Sent
  <1>6. CASE Damage \/ Cut
    BY <1>6 DEF Damage, Cut, FrameInv
  <1>7. CASE Parse
    <2>1. /\ Sent /\ Sent' /\ UNCHANGED <<traits, args, size, starts, stg, intact>>
          /\ pc' \notin {"size", "store"}
      BY <1>7 DEF Parse, ConstructParser, ConstructorThrows, Advance, AdvanceThrows, Counted, Refuse,
                  builder, Sent
    <2>2. \A j \in 1..Len(args) : Stored(stg, j)' <=> Stored(stg, j)
      BY <2>1 DEF Stored, WordAt
    <2>3. WordAt(stg, OFFSET_SNAC_SIZE)' = WordAt(stg, OFFSET_SNAC_SIZE)
      BY <2>1 DEF WordAt, OFFSET_SNAC_SIZE
    <2> QED BY <2>1, <2>2, <2>3 DEF FrameInv
  <1>8. CASE UNCHANGED vars
    <2>1. \A j \in 1..Len(args) : Stored(stg, j)' <=> Stored(stg, j)
      BY <1>8 DEF vars, Stored, WordAt
    <2>2. WordAt(stg, OFFSET_SNAC_SIZE)' = WordAt(stg, OFFSET_SNAC_SIZE) /\ (Sent' <=> Sent)
      BY <1>8 DEF vars, WordAt, OFFSET_SNAC_SIZE, Sent
    <2> QED BY <1>8, <2>1, <2>2 DEF vars, FrameInv
  <1> QED BY <1>1, <1>2, <1>3, <1>4, <1>5, <1>6, <1>7, <1>8 DEF Next, Build

\* in an undamaged frame the iterator can only go where the TLVs are
LEMMA Walk ==
  ASSUME TypeOK, SizeInv, FrameInv, Sent, intact
  PROVE  /\ EndPtr = starts[Len(args) + 1] /\ Acceptable
         /\ \A j \in 1..Len(args) : EndAfter(starts[j]) = {starts[j + 1]} /\ starts[j] # EndPtr
         /\ EndAfter(EndPtr) = {EndPtr}
         /\ \A j \in 1..(Len(args) + 1) : starts[j] <= EndPtr
         /\ starts[1] = 16 /\ Len(args) \in 3..6
  <1>1. /\ traits \in Traits /\ args \in Args(traits) /\ Len(args) \in 3..6
        /\ size \in Nat /\ size < Word
        /\ \A j \in 1..(Len(args) + 1) :
             starts[j] \in Nat /\ starts[j] >= 16 /\ starts[j] <= FLAP_HEADER_SIZE + size
        /\ \A j \in 1..Len(args) : /\ Len(args[j]) \in Nat
                                   /\ starts[j + 1] = starts[j] + TLV_HEADER_SIZE + Len(args[j])
        /\ starts[1] = 16 /\ starts[Len(args) + 1] = FLAP_HEADER_SIZE + size
    BY Places DEF Sent
  <1>2. /\ Len(stg) = FLAP_HEADER_SIZE + size /\ stg \in Seq(Octet)
        /\ stg[1] = FLAP_MARK /\ stg[2] = traits.channel /\ WordAt(stg, OFFSET_SNAC_SIZE) = size
        /\ \A j \in 1..Len(args) : Stored(stg, j)
    BY DEF FrameInv, TypeOK
  <1>3. EndPtr = FLAP_HEADER_SIZE + size
    BY <1>2 DEF EndPtr
  <1>4. Acceptable
    <2>1. traits.channel < FlapChannelEnd
      BY <1>1, Package DEF FlapChannelEnd
    <2>2. Len(stg) >= FLAP_HEADER_SIZE /\ Len(stg) >= size + FLAP_HEADER_SIZE
      BY <1>1, <1>2 DEF FLAP_HEADER_SIZE
    <2> QED BY <1>2, <2>1, <2>2 DEF Acceptable
  <1>5. ASSUME NEW j \in 1..Len(args)
        PROVE  EndAfter(starts[j]) = {starts[j + 1]} /\ starts[j] # EndPtr
    <2>1. j \in 1..(Len(args) + 1) /\ j + 1 \in 1..(Len(args) + 1)
      BY <1>1
    <2> DEFINE p == starts[j]
               after == starts[j + 1]
               n == Len(args[j])
               high == stg[p + 2 + 1]
               low == stg[p + 3 + 1]
    <2>2. /\ p \in Nat /\ p >= 16 /\ n \in Nat /\ after = p + TLV_HEADER_SIZE + n
          /\ after <= FLAP_HEADER_SIZE + size
      BY <1>1, <2>1, Zenon
    <2>3. WordAt(stg, p + 2) = n
      BY <1>2, Zenon DEF Stored
    <2> HIDE DEF p, after, n
    <2>4. /\ p + 2 \in Nat /\ p + 2 < Len(stg) /\ p + 3 \in Nat /\ p + 3 < Len(stg)
          /\ p + 2 + 1 \in 1..Len(stg) /\ p + 3 + 1 \in 1..Len(stg)
          /\ p + 3 + 1 = p + 2 + 2 /\ p # EndPtr
          /\ TLV_HEADER_SIZE + n \in Nat /\ TLV_HEADER_SIZE + n < Word
          /\ after = p + (TLV_HEADER_SIZE + n)
      BY <1>1, <1>2, <1>3, <2>2, WordSize DEF TLV_HEADER_SIZE, FLAP_HEADER_SIZE
    <2>5. Read(p + 2) = {high} /\ Read(p + 3) = {low} /\ high \in Octet /\ low \in Octet
      <3>1. stg[p + 2 + 1] \in Octet /\ stg[p + 3 + 1] \in Octet
        BY <1>2, <2>4
      <3> QED BY <1>2, <2>4, <3>1, Reading, Zenon
    <2>6. high * Byte + low = n
      BY <2>3, <2>4, Zenon DEF WordAt
    <2> HIDE DEF high, low
    <2>7. TLV_HEADER_SIZE + high * Byte + low = TLV_HEADER_SIZE + n
      <3> DEFINE m == high * Byte
      <3>1. m \in Nat /\ low \in Nat /\ m + low = n
        BY <2>5, <2>6, ByteAssumption DEF Octet
      <3> HIDE DEF m
      <3>2. TLV_HEADER_SIZE + m + low = TLV_HEADER_SIZE + n
        BY ONLY <3>1 DEF TLV_HEADER_SIZE
      <3> QED BY <3>2, Zenon DEF m
    <2>8. GetSize(p) = {TLV_HEADER_SIZE + n}
      <3>1. GetSize(p) = {(TLV_HEADER_SIZE + high * Byte + low) % Word}
        <4> DEFINE f(h, l) == (TLV_HEADER_SIZE + h * Byte + l) % Word
        <4>1. GetSize(p) = {f(h, l) : h \in Read(p + 2), l \in Read(p + 3)}
          BY DEF GetSize
        <4> HIDE DEF f
        <4>2. GetSize(p) = {f(high, low)}
          BY <2>5, <4>1
        <4> QED BY <4>2 DEF f
      <3>2. (TLV_HEADER_SIZE + n) % Word = TLV_HEADER_SIZE + n
        BY <2>4, Unwrapped, Zenon
      <3> QED BY <2>7, <3>1, <3>2, Zenon
    <2>9. EndAfter(p) = {after}
      BY <2>4, <2>8 DEF EndAfter
    <2> QED BY <2>4, <2>9, Zenon DEF p, after
  <1>6. EndAfter(EndPtr) = {EndPtr}
    BY DEF EndAfter
  <1> QED BY <1>1, <1>3, <1>4, <1>5, <1>6, Zenon
LEMMA WalkStep ==
  ASSUME TypeOK, SizeInv, FrameInv, WalkInv, IteratorInv, [Next]_vars
  PROVE  WalkInv'
  <1>1. ASSUME NEW t \in Traits, NEW a \in Args(t), MakePackage(t, a) PROVE WalkInv'
    BY <1>1 DEF MakePackage, WalkInv, Building
  <1>2. CASE Build \/ Damage \/ Cut
    BY <1>2 DEF Build, AddSize, Overflow, FillHeader, StoreData, FinishFlap, Damage, Cut, Sized,
                builder, WalkInv, Building
  <1>3. CASE ConstructParser
    <2>1. /\ pc = "built" /\ pc' = "count" /\ begin' = 16 /\ end' \in EndAfter(16)
          /\ UNCHANGED <<traits, args, size, starts, stg, intact, visited>>
      BY <1>3 DEF ConstructParser, builder, FLAP_HEADER_SIZE, SNAC_HEADER_SIZE
    <2>2. visited = <<>>
      BY <2>1 DEF WalkInv
    <2>3. Len(visited) = 0 /\ \A j \in 1..0 : FALSE
      BY <2>2
    <2>4. ASSUME intact
          PROVE  begin' = starts[1] /\ end' = starts[2] /\ Len(args) \in 3..6
      <3>1. starts[1] = 16 /\ Len(args) \in 3..6
            /\ \A j \in 1..Len(args) : EndAfter(starts[j]) = {starts[j + 1]}
        BY <2>1, <2>4, Walk DEF Sent
      <3>2. 1 \in 1..Len(args) /\ 1 + 1 = 2
        <4>1. Len(args) \in 3..6
          BY <3>1
        <4> QED BY ONLY <4>1
      <3>3. EndAfter(16) = {starts[2]}
        BY <3>1, <3>2, Zenon
      <3> QED BY <2>1, <3>1, <3>3
    <2> QED BY <2>1, <2>3, <2>4 DEF WalkInv, Building
  <1>4. CASE Advance
    <2> DEFINE m == Len(visited)
               top == Len(args)
    <2>1. /\ pc = "count" /\ begin # EndPtr /\ begin' = end /\ end' \in EndAfter(end) /\ pc' = "count"
          /\ visited' = (IF m < MaxCount THEN Append(visited, begin) ELSE visited)
          /\ UNCHANGED <<traits, args, size, starts, stg, intact>>
      BY <1>4 DEF Advance, builder
    <2>2. visited \in Seq(Nat) /\ begin \in Nat /\ m \in Nat
      BY DEF TypeOK
    <2>3. ASSUME intact
          PROVE  /\ Len(visited') <= top /\ \A j \in 1..Len(visited') : visited'[j] = starts[j]
                 /\ begin' = starts[Len(visited') + 1]
                 /\ Len(visited') < top => end' = starts[Len(visited') + 2]
      <3>1. /\ m <= top /\ begin = starts[m + 1] /\ (m < top => end = starts[m + 2])
            /\ \A j \in 1..m : visited[j] = starts[j]
        BY <2>1, <2>3 DEF WalkInv
      <3>2. /\ EndPtr = starts[top + 1] /\ top \in 3..6
            /\ \A j \in 1..top : EndAfter(starts[j]) = {starts[j + 1]}
        BY <2>1, <2>3, Walk DEF Sent
      <3>3. m < top /\ m < MaxCount
        <4>1. m # top
          BY <2>1, <3>1, <3>2, Zenon
        <4>2. m < top
          BY <2>2, <3>1, <3>2, <4>1
        <4>3. MaxCount \in Nat /\ MaxCount >= 6
          BY ValueAssumption
        <4>4. m \in Nat /\ top \in 3..6
          BY <2>2, <3>2
        <4> HIDE DEF m, top
        <4> QED BY ONLY <4>2, <4>3, <4>4
      <3>4. /\ visited' \in Seq(Nat) /\ Len(visited') = m + 1 /\ visited'[m + 1] = begin
            /\ \A j \in 1..m : visited'[j] = visited[j]
        BY <2>1, <2>2, <3>3, AppendProperties
      <3>5. begin' = starts[m + 2] /\ m + 1 <= top /\ m + 1 + 1 = m + 2 /\ m + 1 + 2 = m + 2 + 1
        BY <2>1, <2>2, <3>1, <3>2, <3>3
      <3>6. \A j \in 1..(m + 1) : visited'[j] = starts[j]
        <4>1. \A j \in 1..(m + 1) : j \in 1..m \/ j = m + 1
          BY <2>2
        <4> QED BY <3>1, <3>4, <4>1, Zenon
      <3>7. m + 1 < top => end' = starts[m + 2 + 1]
        <4>1. ASSUME m + 1 < top PROVE end' = starts[m + 2 + 1]
          <5>1. m + 2 \in 1..top
            BY <2>2, <3>2, <4>1
          <5>2. EndAfter(end) = {starts[m + 2 + 1]}
            BY <3>1, <3>2, <3>3, <5>1, Zenon
          <5> QED BY <2>1, <5>2
        <4> QED BY <4>1
      <3> HIDE DEF m, top
      <3> QED BY <3>4, <3>5, <3>6, <3>7, Zenon
    <2> HIDE DEF m
    <2> QED BY <2>1, <2>3 DEF WalkInv, Building
  <1>5. CASE ConstructorThrows
    <2>1. pc = "built" /\ pc' = "refused" /\ UNCHANGED <<intact, visited>>
      BY <1>5 DEF ConstructorThrows, Refuse
    <2>2. ~intact
      <3>1. ASSUME intact PROVE FALSE
        <4>1. /\ Acceptable /\ starts[1] = 16 /\ Len(args) \in 3..6
              /\ \A j \in 1..Len(args) : EndAfter(starts[j]) = {starts[j + 1]}
              /\ \A j \in 1..(Len(args) + 1) : starts[j] <= EndPtr
          BY <2>1, <3>1, Walk DEF Sent
        <4>2. 1 \in 1..Len(args) /\ 1 + 1 = 2 /\ 2 \in 1..(Len(args) + 1)
          <5> DEFINE n == Len(args)
          <5>1. n \in 3..6
            BY <4>1
          <5> HIDE DEF n
          <5>2. 1 \in 1..n /\ 1 + 1 = 2 /\ 2 \in 1..(n + 1)
            BY ONLY <5>1
          <5> QED BY <5>2 DEF n
        <4>3. EndAfter(16) = {starts[2]} /\ starts[2] <= EndPtr
          BY <4>1, <4>2, Zenon
        <4>4. PICK e \in EndAfter(16) : e > EndPtr
          BY <1>5, <4>1 DEF ConstructorThrows, FLAP_HEADER_SIZE, SNAC_HEADER_SIZE
        <4>5. starts[2] \in Nat /\ EndPtr \in Nat
          <5>1. /\ \A j \in 1..(Len(args) + 1) : starts[j] \in Nat
                /\ Len(args) + 1 \in 1..(Len(args) + 1)
            BY <2>1, <4>1, Places
          <5>2. EndPtr = starts[Len(args) + 1]
            BY <2>1, <3>1, Walk DEF Sent
          <5> QED BY <4>2, <5>1, <5>2, Zenon
        <4>6. e = starts[2]
          BY <4>3, <4>4
        <4> QED BY ONLY <4>3, <4>4, <4>5, <4>6
      <3> QED BY <3>1
    <2> QED BY <2>1, <2>2 DEF WalkInv, Building
  <1>6. CASE AdvanceThrows
    <2>1. pc = "count" /\ begin # EndPtr /\ pc' = "refused" /\ UNCHANGED <<intact, visited>>
      BY <1>6 DEF AdvanceThrows, Refuse
    <2>2. ~intact
      <3>1. ASSUME intact PROVE FALSE
        <4> DEFINE m == Len(visited)
                   top == Len(args)
        <4>1. /\ m <= top /\ begin = starts[m + 1] /\ (m < top => end = starts[m + 2]) /\ m \in Nat
          BY <2>1, <3>1 DEF WalkInv, TypeOK
        <4>2. /\ EndPtr = starts[top + 1] /\ top \in 3..6 /\ EndAfter(EndPtr) = {EndPtr}
              /\ \A j \in 1..top : EndAfter(starts[j]) = {starts[j + 1]}
              /\ \A j \in 1..(top + 1) : starts[j] <= EndPtr
          BY <2>1, <3>1, Walk DEF Sent
        <4>3. m # top
          BY <2>1, <4>1, <4>2, Zenon
        <4>4. /\ m < top /\ (m + 2 \in 1..top \/ m + 2 = top + 1) /\ top + 1 \in 1..(top + 1)
              /\ (m + 2 \in 1..top => m + 2 + 1 \in 1..(top + 1))
          BY <4>1, <4>2, <4>3
        <4>5. \A j \in 1..(top + 1) : starts[j] \in Nat
          BY <2>1, Places
        <4> HIDE DEF m, top
        <4>6. \A e \in EndAfter(end) : e <= EndPtr
          <5>1. CASE m + 2 = top + 1
            <6>1. end = EndPtr /\ EndPtr <= EndPtr
              BY <4>1, <4>2, <4>4, <5>1, Zenon
            <6> QED BY <4>2, <6>1
          <5>2. CASE m + 2 \in 1..top
            <6>1. EndAfter(end) = {starts[m + 2 + 1]} /\ starts[m + 2 + 1] <= EndPtr
              BY <4>1, <4>2, <4>4, <5>2, Zenon
            <6> QED BY ONLY <6>1
          <5> QED BY <4>4, <5>1, <5>2, Zenon
        <4>7. EndPtr \in Nat
          BY <4>2, <4>4, <4>5, Zenon
        <4>8. PICK e \in EndAfter(end) : e > EndPtr
          BY <1>6 DEF AdvanceThrows
        <4>9. e \in Nat
          <5>1. end \in Nat /\ stg \in Seq(Octet)
            BY DEF TypeOK
          <5> QED BY <4>8, <5>1, Ends
        <4>10. e <= EndPtr
          BY <4>6, <4>8, Zenon
        <4> QED BY ONLY <4>7, <4>8, <4>9, <4>10
      <3> QED BY <3>1
    <2> QED BY <2>1, <2>2 DEF WalkInv, Building
  <1>7. CASE Counted
    <2>1. /\ pc = "count" /\ begin = EndPtr /\ pc' = "done"
          /\ UNCHANGED <<traits, args, size, starts, stg, intact, begin, end, visited>>
      BY <1>7 DEF Counted, builder
    <2>2. ASSUME intact PROVE Len(visited) = Len(args)
      <3> DEFINE m == Len(visited)
                 top == Len(args)
      <3>1. m <= top /\ begin = starts[m + 1] /\ m \in Nat
        BY <2>1, <2>2 DEF WalkInv, TypeOK
      <3>2. top \in 3..6 /\ \A j \in 1..top : starts[j] # EndPtr
        BY <2>1, <2>2, Walk DEF Sent
      <3>3. m < top => m + 1 \in 1..top
        BY <3>1, <3>2
      <3>4. ~(m < top)
        BY <2>1, <3>1, <3>2, <3>3, Zenon
      <3> QED BY <3>1, <3>2, <3>4
    <2> QED BY <2>1, <2>2 DEF WalkInv, Building
  <1>8. CASE UNCHANGED vars
    BY <1>8 DEF vars, WalkInv, Building
  <1> QED BY <1>1, <1>2, <1>3, <1>4, <1>5, <1>6, <1>7, <1>8 DEF Next, Parse

LEMMA IteratorStep ==
  ASSUME IteratorInv, [Next]_vars
  PROVE  IteratorInv'
  <1>1. CASE ConstructParser \/ Advance
    <2>1. /\ stg' = stg /\ end' \in EndAfter(begin') /\ Len(stg) >= FLAP_HEADER_SIZE
      BY <1>1 DEF ConstructParser, Advance, Acceptable, IteratorInv
    <2> QED BY <2>1 DEF IteratorInv, EndAfter, EndPtr, GetSize, Read, WordAt
  <1>2. CASE \/ \E t \in Traits : \E a \in Args(t) : MakePackage(t, a)
             \/ Build \/ Damage \/ Cut \/ ConstructorThrows \/ AdvanceThrows \/ Counted
    BY <1>2 DEF MakePackage, Build, AddSize, Overflow, FillHeader, StoreData, FinishFlap, Damage, Cut,
                Sized, ConstructorThrows, AdvanceThrows, Refuse, Counted, IteratorInv
  <1>3. CASE UNCHANGED vars
    BY <1>3 DEF vars, IteratorInv, EndAfter, EndPtr, GetSize, Read, WordAt
  <1> QED BY <1>1, <1>2, <1>3 DEF Next, Parse

LEMMA EndIsNat ==
  ASSUME stg \in Seq(Octet), Len(stg) >= FLAP_HEADER_SIZE
  PROVE  /\ EndPtr \in Nat
         /\ Len(stg) >= WordAt(stg, OFFSET_SNAC_SIZE) + FLAP_HEADER_SIZE => EndPtr <= Len(stg)
  <1>1. Len(stg) \in Nat
    BY LenProperties
  <1>2. WordAt(stg, OFFSET_SNAC_SIZE) \in Nat
    <2>1. stg[OFFSET_SNAC_SIZE + 1] \in Octet /\ stg[OFFSET_SNAC_SIZE + 2] \in Octet
      BY <1>1 DEF FLAP_HEADER_SIZE, OFFSET_SNAC_SIZE
    <2> QED BY <2>1, BytesAreWord, Zenon DEF WordAt
  <1> QED BY ONLY <1>1, <1>2 DEF EndPtr, FLAP_HEADER_SIZE

\* what has been counted when the iterator moved from p to e
LEMMA Counting ==
  ASSUME stg \in Seq(Octet), NEW p \in Nat, p # EndPtr, NEW e \in EndAfter(p),
         EndPtr \in Nat, EndPtr <= Len(stg), e <= EndPtr
  PROVE  Wraps(p) \/ p + TLV_HEADER_SIZE + WordAt(stg, p + 2) <= EndPtr
  <1>1. PICK n \in GetSize(p) : e = p + n
    BY DEF EndAfter
  <1>2. PICK high \in Read(p + 2), low \in Read(p + 3) :
          n = (TLV_HEADER_SIZE + high * Byte + low) % Word
    BY ONLY <1>1 DEF GetSize
  <1>3. high \in Octet /\ low \in Octet
    BY Reading, p + 2 \in Nat, p + 3 \in Nat, Zenon
  <1> DEFINE total == TLV_HEADER_SIZE + high * Byte + low
             m == high * Byte + low
  <1>4. /\ total \in Nat /\ m \in Nat /\ total = TLV_HEADER_SIZE + m
    <2> DEFINE k == high * Byte
    <2>1. k \in Nat /\ low \in Nat
      BY <1>3, ByteAssumption DEF Octet
    <2> HIDE DEF k
    <2>2. /\ TLV_HEADER_SIZE + k + low \in Nat /\ k + low \in Nat
          /\ TLV_HEADER_SIZE + k + low = TLV_HEADER_SIZE + (k + low)
      BY ONLY <2>1 DEF TLV_HEADER_SIZE
    <2> QED BY <2>2, Zenon DEF k
  <1>5. CASE total >= Word
    <2>1. Wraps(p)
      BY <1>5 DEF Wraps
    <2> QED BY <2>1
  <1>6. CASE ~(total >= Word)
    <2>1. n = total
      <3>1. total < Word /\ n = total % Word
        BY <1>2, <1>4, <1>6, WordSize
      <3> HIDE DEF total
      <3> QED BY <1>4, <3>1, Unwrapped, Zenon
    <2> HIDE DEF total, m
    <2>2. p + 2 < Len(stg) /\ p + 3 < Len(stg) /\ p + TLV_HEADER_SIZE + m = e /\ p + 3 + 1 = p + 2 + 2
      <3>1. Len(stg) \in Nat
        BY LenProperties
      <3>2. e = p + (TLV_HEADER_SIZE + m)
        BY <1>1, <1>4, <2>1, Zenon
      <3> QED BY <1>4, <3>1, <3>2 DEF TLV_HEADER_SIZE
    <2>3. high = stg[p + 2 + 1] /\ low = stg[p + 3 + 1]
      <3>1. Read(p + 2) = {stg[p + 2 + 1]} /\ Read(p + 3) = {stg[p + 3 + 1]}
        BY <2>2, Reading, p + 2 \in Nat, p + 3 \in Nat, Zenon
      <3> QED BY <1>2, <3>1
    <2>4. WordAt(stg, p + 2) = m
      BY <2>2, <2>3, Zenon DEF WordAt, m
    <2> QED BY <2>2, <2>4
  <1> QED BY <1>5, <1>6

LEMMA CountsStep ==
  ASSUME TypeOK, WalkInv, IteratorInv, CountsInside, [Next]_vars
  PROVE  CountsInside'
  <1>1. ASSUME UNCHANGED stg
        PROVE  /\ EndPtr' = EndPtr
               /\ \A p : Wraps(p)' <=> Wraps(p)
               /\ \A p : WordAt(stg, p)' = WordAt(stg, p)
    BY <1>1 DEF EndPtr, Wraps, Read, WordAt
  <1>2. ASSUME NEW t \in Traits, NEW a \in Args(t), MakePackage(t, a) PROVE CountsInside'
    BY <1>2 DEF MakePackage, CountsInside
  <1>3. CASE Build \/ Damage \/ Cut \/ ConstructorThrows \/ AdvanceThrows
    BY <1>3 DEF Build, AddSize, Overflow, FillHeader, StoreData, FinishFlap, Damage, Cut, Sized,
                ConstructorThrows, AdvanceThrows, Refuse, CountsInside
  <1>4. CASE ConstructParser
    <2>1. /\ pc = "built" /\ Acceptable /\ begin' = 16 /\ end' \in EndAfter(16) /\ end' <= EndPtr
          /\ UNCHANGED <<stg, visited>>
      BY <1>4 DEF ConstructParser, FLAP_HEADER_SIZE, SNAC_HEADER_SIZE
    <2>2. end' >= 16 /\ end' \in Nat
      BY <2>1, Ends DEF TypeOK
    <2>3. EndPtr <= Len(stg)
      BY <2>1, EndIsNat DEF Acceptable, TypeOK
    <2>4. visited' = <<>>
      BY <2>1 DEF WalkInv
    <2>5. \A j \in 1..Len(visited') : FALSE
      BY <2>4
    <2> QED BY <1>1, <2>1, <2>2, <2>3, <2>5 DEF CountsInside
  <1>5. CASE Advance
    <2>1. /\ pc = "count" /\ begin # EndPtr /\ begin' = end /\ end' \in EndAfter(end)
          /\ end' <= EndPtr /\ stg' = stg
          /\ visited' = (IF Len(visited) < MaxCount THEN Append(visited, begin) ELSE visited)
      BY <1>5 DEF Advance
    <2>2. /\ end \in EndAfter(begin) /\ end <= EndPtr /\ EndPtr <= Len(stg)
          /\ \A j \in 1..Len(visited) :
               Wraps(visited[j])
               \/ visited[j] + TLV_HEADER_SIZE + WordAt(stg, visited[j] + 2) <= EndPtr
      BY <2>1 DEF IteratorInv, CountsInside
    <2>3. stg \in Seq(Octet) /\ begin \in Nat /\ end \in Nat /\ visited \in Seq(Nat)
      BY DEF TypeOK
    <2>4. begin' <= end'
      BY <2>1, <2>3, Ends
    <2>5. EndPtr \in Nat
      <3>1. Len(stg) >= FLAP_HEADER_SIZE
        BY <2>1 DEF IteratorInv
      <3> QED BY <2>3, <3>1, EndIsNat
    <2>6. Wraps(begin) \/ begin + TLV_HEADER_SIZE + WordAt(stg, begin + 2) <= EndPtr
      BY <2>1, <2>2, <2>3, <2>5, Counting
    <2>7. \A j \in 1..Len(visited') :
            Wraps(visited'[j])
            \/ visited'[j] + TLV_HEADER_SIZE + WordAt(stg, visited'[j] + 2) <= EndPtr
      <3>1. CASE Len(visited) < MaxCount
        <4>1. /\ Len(visited') = Len(visited) + 1 /\ visited'[Len(visited) + 1] = begin
              /\ \A j \in 1..Len(visited) : visited'[j] = visited[j]
          BY <2>1, <2>3, <3>1, AppendProperties
        <4>2. \A j \in 1..(Len(visited) + 1) : j \in 1..Len(visited) \/ j = Len(visited) + 1
          BY <2>3
        <4> QED BY <2>2, <2>6, <4>1, <4>2, Zenon
      <3>2. CASE ~(Len(visited) < MaxCount)
        BY <2>1, <2>2, <3>2, Zenon
      <3> QED BY <3>1, <3>2
    <2> QED BY <1>1, <2>1, <2>2, <2>4, <2>7 DEF CountsInside
  <1>6. CASE Counted
    BY <1>1, <1>6 DEF Counted, CountsInside
  <1>7. CASE UNCHANGED vars
    BY <1>1, <1>7 DEF vars, CountsInside
  <1> QED BY <1>2, <1>3, <1>4, <1>5, <1>6, <1>7 DEF Next, Parse

LEMMA InvStep == IInv /\ [Next]_vars => IInv'
  <1> SUFFICES ASSUME IInv, [Next]_vars PROVE IInv'
    OBVIOUS
  <1> QED BY TypeStep, SizeStep, FrameStep, WalkStep, IteratorStep, CountsStep, Zenon DEF IInv

(***************************************************************************)
(* What the user may count on                                              *)
(***************************************************************************)
LEMMA Invariance == Spec => []IInv
  BY InvInit, InvStep, PTL DEF Spec

\* Whatever is sent, damaged or cut off, sizes and bytes stay in their ranges.
THEOREM TypeCorrect == Spec => []TypeOK
  <1>1. IInv => TypeOK
    BY DEF IInv
  <1> QED BY <1>1, Invariance, PTL

\* The sizes added up in snac.h:80-87 are those of what snac.h:109-118 writes.
THEOREM WritesInside == Spec => []StoresInside
  <1>1. IInv => StoresInside
    <2> SUFFICES ASSUME IInv, pc = "store" PROVE StoresInside
      BY DEF StoresInside
    <2>1. /\ ptr = starts[next] /\ Len(stg) = FLAP_HEADER_SIZE + size
          /\ next <= Len(args) + 1 /\ next \in Nat /\ next >= 1
      BY DEF IInv, FrameInv, TypeOK
    <2>2. /\ traits \in Traits /\ Len(args) \in 3..6
          /\ \A j \in 1..(Len(args) + 1) :
               starts[j] \in Nat /\ starts[j] <= FLAP_HEADER_SIZE + size
          /\ \A j \in 1..Len(args) : /\ args[j] \in Seq(Octet) /\ Len(args[j]) \in Nat
                                     /\ Len(args[j]) < Word /\ Len(args) = Len(traits.tlvs)
                                     /\ starts[j + 1] = starts[j] + TLV_HEADER_SIZE + Len(args[j])
          /\ starts[Len(args) + 1] = FLAP_HEADER_SIZE + size
      BY Places DEF IInv
    <2>3. ASSUME next <= Len(args)
          PROVE  ptr + Len(Tlv(traits.tlvs[next], args[next])) <= Len(stg)
      <3>1. next \in 1..Len(args) /\ next \in 1..(Len(args) + 1) /\ next + 1 \in 1..(Len(args) + 1)
        BY <2>1, <2>2, <2>3
      <3>2. traits.tlvs[next].type \in 0..15
        BY <2>2, <3>1, Package
      <3>3. Len(Tlv(traits.tlvs[next], args[next])) = TLV_HEADER_SIZE + Len(args[next])
        BY <2>2, <3>1, <3>2, TlvBytes
      <3> DEFINE n == Len(args[next])
                 here == starts[next]
                 after == starts[next + 1]
      <3>4. /\ after = here + TLV_HEADER_SIZE + n /\ n \in Nat /\ here \in Nat
            /\ after <= FLAP_HEADER_SIZE + size
        BY <2>2, <3>1, Zenon
      <3> HIDE DEF n, here, after
      <3>5. here + (TLV_HEADER_SIZE + n) <= FLAP_HEADER_SIZE + size
        BY ONLY <3>4 DEF TLV_HEADER_SIZE
      <3> QED BY <2>1, <3>3, <3>5, Zenon DEF n, here
    <2>4. ASSUME next > Len(args) PROVE ptr = Len(stg)
      <3>1. next = Len(args) + 1
        BY <2>1, <2>2, <2>4
      <3> QED BY <2>1, <2>2, <3>1, Zenon
    <2> QED BY <2>1, <2>3, <2>4 DEF StoresInside
  <1> QED BY <1>1, Invariance, PTL

\* What make_flap_package was given, flap_parser and get_value give back.
THEOREM RoundTrip == Spec => []GivesBack
  <1>1. IInv => GivesBack
    <2> SUFFICES ASSUME IInv, intact PROVE GivesBack
      BY DEF GivesBack
    <2>1. pc # "refused"
      BY DEF IInv, WalkInv
    <2>2. ASSUME pc = "done"
          PROVE  /\ Len(visited) = Len(args)
                 /\ \A j \in 1..Len(args) :
                      /\ WordAt(stg, visited[j]) = traits.tlvs[j].type
                      /\ ValueAt(stg, visited[j], traits.tlvs[j]) = args[j]
      <3>1. /\ Len(visited) = Len(args) /\ \A j \in 1..Len(visited) : visited[j] = starts[j]
            /\ Len(stg) = FLAP_HEADER_SIZE + size /\ stg \in Seq(Octet)
            /\ \A j \in 1..Len(args) : Stored(stg, j)
        BY <2>2 DEF IInv, WalkInv, FrameInv, TypeOK, Sent
      <3>2. /\ Len(args) \in 3..6 /\ size \in Nat
            /\ \A j \in 1..(Len(args) + 1) :
                 starts[j] \in Nat /\ starts[j] <= FLAP_HEADER_SIZE + size
            /\ \A j \in 1..Len(args) : /\ args[j] \in Seq(Octet) /\ Len(args[j]) \in Nat
                                       /\ starts[j + 1] = starts[j] + TLV_HEADER_SIZE + Len(args[j])
        BY <2>2, Places DEF IInv
      <3>3. ASSUME NEW j \in 1..Len(args)
            PROVE  /\ WordAt(stg, visited[j]) = traits.tlvs[j].type
                   /\ ValueAt(stg, visited[j], traits.tlvs[j]) = args[j]
        <4>1. j \in 1..(Len(args) + 1) /\ j + 1 \in 1..(Len(args) + 1)
          BY <3>2
        <4> DEFINE p == starts[j]
                   n == Len(args[j])
                   after == starts[j + 1]
                   v == args[j]
                   trait == traits.tlvs[j]
        <4>2. /\ p \in Nat /\ n \in Nat /\ after = p + TLV_HEADER_SIZE + n
              /\ after <= FLAP_HEADER_SIZE + size /\ v \in Seq(Octet)
          BY <3>2, <4>1, Zenon
        <4>3. /\ WordAt(stg, p) = trait.type /\ WordAt(stg, p + 2) = Len(v)
              /\ \A b \in 1..Len(v) : stg[p + TLV_HEADER_SIZE + b] = BigEndian(trait, v)[b]
          BY <3>1, Zenon DEF Stored
        <4>4. p + TLV_HEADER_SIZE + Len(v) <= Len(stg)
          BY <3>1, <4>2, Zenon
        <4>5. visited[j] = p
          BY <3>1, Zenon
        <4> HIDE DEF p, n, after, v, trait
        <4>6. ValueAt(stg, p, trait) = v
          <5>1. stg \in Seq(Octet)
            BY <3>1
          <5> QED BY ONLY <5>1, <4>2, <4>3, <4>4, ValueThere
        <4> QED BY <4>3, <4>5, <4>6, Zenon DEF v, trait
      <3> QED BY <3>1, <3>3
    <2> QED BY <2>1, <2>2 DEF GivesBack
  <1> QED BY <1>1, Invariance, PTL

\* Nothing behind the frame is counted, whatever the bytes are (flap_parser.h:22-70).
THEOREM ParsesInside == Spec => []CountsInside
  <1>1. IInv => CountsInside
    BY DEF IInv
  <1> QED BY <1>1, Invariance, PTL

(***************************************************************************)
(* Why counting ends                                                       *)
(***************************************************************************)
\* a sum that is a whole number of words is one word
LEMMA WholeWord ==
  ASSUME NEW high \in Octet, NEW low \in Octet,
         (TLV_HEADER_SIZE + high * Byte + low) % Word = 0
  PROVE  TLV_HEADER_SIZE + high * Byte + low = Word
  <1> DEFINE m == high * Byte
  <1>1. m \in Nat /\ low \in Nat
    BY ByteAssumption DEF Octet
  <1>2. m + low < Word /\ Word \in Nat /\ Word >= 64
    BY BytesAreWord, WordSize
  <1>3. (TLV_HEADER_SIZE + m + low) % Word = 0
    OBVIOUS
  <1> HIDE DEF m
  <1>4. TLV_HEADER_SIZE + m + low \in Nat /\ TLV_HEADER_SIZE + m + low # 0
    BY ONLY <1>1 DEF TLV_HEADER_SIZE
  <1>5. ~(TLV_HEADER_SIZE + m + low < Word)
    <2>1. ASSUME TLV_HEADER_SIZE + m + low < Word PROVE FALSE
      <3>1. (TLV_HEADER_SIZE + m + low) % Word = TLV_HEADER_SIZE + m + low
        BY <1>4, <2>1, Unwrapped, Zenon
      <3> QED BY ONLY <1>3, <1>4, <3>1
    <2> QED BY <2>1
  <1> DEFINE rest == TLV_HEADER_SIZE + m + low - Word
  <1>6. rest \in Nat /\ rest < Word /\ TLV_HEADER_SIZE + m + low = rest + Word
    BY ONLY <1>1, <1>2, <1>4, <1>5 DEF TLV_HEADER_SIZE
  <1> HIDE DEF rest
  <1>7. (rest + Word) % Word = rest
    BY ONLY <1>2, <1>6
  <1>8. rest = 0
    BY ONLY <1>3, <1>6, <1>7
  <1>9. TLV_HEADER_SIZE + m + low = Word
    BY ONLY <1>2, <1>6, <1>8
  <1> QED BY <1>9 DEF m

\* an iterator that stays where it is has met such a sum
LEMMA Standing ==
  ASSUME stg \in Seq(Octet), NEW p \in Nat, p # EndPtr, p \in EndAfter(p)
  PROVE  Endless(p)
  <1>1. PICK n \in GetSize(p) : p = p + n
    BY DEF EndAfter
  <1>2. PICK high \in Read(p + 2), low \in Read(p + 3) :
          n = (TLV_HEADER_SIZE + high * Byte + low) % Word
    BY ONLY <1>1 DEF GetSize
  <1>3. high \in Octet /\ low \in Octet
    BY Reading, p + 2 \in Nat, p + 3 \in Nat, Zenon
  <1>4. n \in Nat
    BY <1>2, <1>3, BytesAreWord, Zenon
  <1>5. n = 0
    BY ONLY <1>1, <1>4, p \in Nat
  <1>6. TLV_HEADER_SIZE + high * Byte + low = Word
    BY <1>2, <1>3, <1>5, WholeWord, Zenon
  <1> QED BY <1>6 DEF Endless

\* in an undamaged frame the iterator stands before its end
LEMMA WalksOn ==
  ASSUME IInv, pc = "count", intact, begin # EndPtr
  PROVE  begin < end
  <1> DEFINE m == Len(visited)
             top == Len(args)
  <1>1. /\ m \in Nat /\ m <= top /\ begin = starts[m + 1] /\ (m < top => end = starts[m + 2])
    BY DEF IInv, WalkInv, TypeOK
  <1>2. EndPtr = starts[top + 1] /\ top \in 3..6
    BY Walk DEF IInv, Sent
  <1>3. /\ \A j \in 1..(top + 1) : starts[j] \in Nat
        /\ \A j, k \in 1..(top + 1) : j < k => starts[j] + TLV_HEADER_SIZE <= starts[k]
    BY Places DEF IInv
  <1>4. m # top
    BY <1>1, <1>2, Zenon
  <1> HIDE DEF m, top
  <1>5. m < top /\ m + 1 \in 1..(top + 1) /\ m + 2 \in 1..(top + 1) /\ m + 1 < m + 2
    BY ONLY <1>1, <1>2, <1>4
  <1>6. /\ starts[m + 1] \in Nat /\ starts[m + 2] \in Nat
        /\ starts[m + 1] + TLV_HEADER_SIZE <= starts[m + 2]
    BY ONLY <1>3, <1>5
  <1> QED BY <1>1, <1>5, <1>6 DEF TLV_HEADER_SIZE

\* Each turn of the loop of calc_tlv_count (flap_parser.cpp:24-29) comes nearer to an end
\* that does not move, for every frame but one with a length of Word - 4; an undamaged
\* frame has none.
THEOREM EachTurnAdvances == Spec => CountingAdvances
  <1> DEFINE Advances == /\ begin < begin' \/ (Endless(begin) /\ ~intact)
                         /\ begin' <= EndPtr /\ EndPtr' = EndPtr
  <1>1. IInv /\ [Next]_vars => [pc = "count" /\ pc' = "count" => Advances]_vars
    <2> SUFFICES ASSUME IInv, Next, pc = "count", pc' = "count" PROVE Advances
      OBVIOUS
    <2>1. Advance
      BY DEF Next, Build, AddSize, Overflow, FillHeader, StoreData, FinishFlap, Damage, Cut,
             Sized, Parse, MakePackage, ConstructParser, ConstructorThrows, AdvanceThrows,
             Refuse, Counted
    <2>2. begin # EndPtr /\ begin' = end /\ stg' = stg
      BY <2>1 DEF Advance
    <2>3. /\ stg \in Seq(Octet) /\ begin \in Nat /\ end \in Nat
          /\ end \in EndAfter(begin) /\ begin <= end /\ end <= EndPtr
      BY DEF IInv, TypeOK, IteratorInv, CountsInside
    <2>4. EndPtr' = EndPtr
      BY <2>2 DEF EndPtr, WordAt
    <2>5. CASE intact
      <3>1. begin < end
        BY <2>2, <2>5, WalksOn
      <3>2. begin < begin' /\ begin' <= EndPtr
        BY <2>2, <2>3, <3>1, Zenon
      <3> QED BY <2>4, <3>2, Zenon
    <2>6. CASE ~intact
      <3>1. CASE begin = end
        <4>1. begin \in EndAfter(begin)
          BY <2>3, <3>1
        <4>2. Endless(begin)
          BY <2>2, <2>3, <4>1, Standing
        <4> QED BY <2>2, <2>3, <2>4, <2>6, <4>2
      <3>2. CASE begin # end
        <4>1. begin < end
          BY ONLY <2>3, <3>2
        <4>2. begin < begin' /\ begin' <= EndPtr
          BY <2>2, <2>3, <4>1, Zenon
        <4> QED BY <2>4, <4>2, Zenon
      <3> QED BY <3>1, <3>2
    <2> QED BY <2>5, <2>6
  <1> QED BY <1>1, Invariance, PTL DEF Spec, CountingAdvances
===============================================================================
