--------------------------------- MODULE Oscar ---------------------------------
(***************************************************************************)
(* The packages of the log protocol (oscar/): how a FLAP frame is built    *)
(* around a SNAC with its TLVs, and how flap_parser walks through a frame  *)
(* that may have been damaged.  Lengths are 16-bit words: they wrap.       *)
(***************************************************************************)
EXTENDS SequencesExt

CONSTANTS
  Byte,        \* number of values of a byte, 256 in the code
  FLAP_MARK,
  Value,       \* what a caller may pass: bytes in the order of its memory
  RequestId,   \* what generate_request_id() may return, as four bytes
  Noise,       \* what damage may make of a byte
  MaxCount     \* bound: TLVs the parser counts exactly

Octet == 0..(Byte - 1)
Word == Byte * Byte

ASSUME ByteAssumption == Byte \in Nat /\ Byte >= 8 /\ FLAP_MARK \in Octet
ASSUME ValueAssumption ==
  /\ Value \subseteq Seq(Octet) /\ Noise \subseteq Octet
  /\ RequestId \subseteq Seq(Octet) /\ \A id \in RequestId : Len(id) = 4
  /\ MaxCount \in Nat /\ MaxCount >= 6

FLAP_HEADER_SIZE == 6
SNAC_HEADER_SIZE == 10
TLV_HEADER_SIZE == 4
OFFSET_SNAC_SIZE == 4

\* Tlv_Traits; a string has size 0 here, its length is that of the value
LogModule == [type |-> 8, size |-> 0]
LogTimestampSec == [type |-> 9, size |-> 8]
LogTimestampMicrosec == [type |-> 10, size |-> 8]
LogSeverity == [type |-> 11, size |-> 1]
LogText == [type |-> 12, size |-> 0]
LogNamePrefix == [type |-> 13, size |-> 0]
LogNameSuffix == [type |-> 14, size |-> 0]
LogChannel == [type |-> 15, size |-> 1]

\* Snac_Traits, with the channel the client sends it on
Snac_NewFile == [channel |-> 0, service |-> 2, subtype |-> 5,
  tlvs |-> <<LogNamePrefix, LogNameSuffix, LogChannel, LogTimestampSec, LogTimestampMicrosec>>]
Snac_Stop == [channel |-> 0, service |-> 3, subtype |-> 6,
  tlvs |-> <<LogChannel, LogTimestampSec, LogTimestampMicrosec>>]
Snac_Message == [channel |-> 1, service |-> 4, subtype |-> 7,
  tlvs |-> <<LogModule, LogSeverity, LogText, LogChannel, LogTimestampSec, LogTimestampMicrosec>>]
Traits == {Snac_NewFile, Snac_Stop, Snac_Message}
FlapChannelEnd == 2

\* the tuples of arguments make_flap_package takes
Args(traits) ==
  {a \in [1..Len(traits.tlvs) -> Value] :
     \A j \in 1..Len(traits.tlvs) :
       traits.tlvs[j].size # 0 => Len(a[j]) = traits.tlvs[j].size}

VARIABLES
  pc,        \* where the builder and then the parser is
  traits, args,
  size,      \* snac_base::size
  starts,    \* history: where each TLV begins by the sizes added up so far
  stg,       \* flap_storage; the byte at index p is stg[p + 1]
  ptr,       \* the place store_data writes at
  next,      \* the number of the TLV it writes
  intact,    \* history: the frame arrived as it was built
  begin, end,\* the members of tlv_iterator, as indices
  visited    \* history: the places counted

vars == <<pc, traits, args, size, starts, stg, ptr, next, intact, begin, end, visited>>
builder == <<traits, args, size, starts, ptr, next>>

-------------------------------------------------------------------------------
\* slip: the machine's order of bytes is sent
NativeOrder(w) == <<w % Byte, w \div Byte>>
\* native_to_big of a word, and back
WordBytes(w) == <<w \div Byte, w % Byte>>
WordAt(s, p) == s[p + 1] * Byte + s[p + 2]

\* memcpy to index p, and vector::resize
Put(s, p, bytes) ==
  [q \in 1..Len(s) |-> IF q \in (p + 1)..(p + Len(bytes)) THEN bytes[q - p] ELSE s[q]]
Resized(s, n) == [q \in 1..n |-> IF q <= Len(s) THEN s[q] ELSE 0]

CalcSize(v) == TLV_HEADER_SIZE + Len(v)

\* store_data and get_value_item: an integer is turned around on a little-endian machine
BigEndian(trait, v) == IF trait.size # 0 THEN Reverse(v) ELSE v

\* tlv::create
Tlv(trait, v) == WordBytes(trait.type) \o WordBytes(Len(v) % Word) \o BigEndian(trait, v)

SnacHeader(id) ==
  WordBytes(traits.service) \o WordBytes(traits.subtype) \o WordBytes(Word - 1) \o id
FlapHeader == <<FLAP_MARK, traits.channel>> \o WordBytes(0) \o WordBytes(size % Word)

\* get_value: the value a TLV at index p gives back
ValueAt(s, p, trait) ==
  BigEndian(trait, SubSeq(s, p + TLV_HEADER_SIZE + 1, p + TLV_HEADER_SIZE + WordAt(s, p + 2)))

-------------------------------------------------------------------------------
(***************************************************************************)
(* make_flap_package: flap_builder, snac::add_data                         *)
(***************************************************************************)
Init ==
  /\ pc = "idle"
  /\ traits = Snac_Stop /\ args = <<>>
  /\ size = SNAC_HEADER_SIZE /\ starts = <<>>
  /\ stg = <<>> /\ ptr = 0 /\ next = 1 /\ intact = TRUE
  /\ begin = 0 /\ end = 0 /\ visited = <<>>

MakePackage(t, a) ==
  /\ pc \in {"idle", "overflow", "refused", "done"}
  /\ traits' = t /\ args' = a
  /\ size' = SNAC_HEADER_SIZE
  /\ starts' = <<FLAP_HEADER_SIZE + SNAC_HEADER_SIZE>>
  /\ stg' = Resized(<<>>, FLAP_HEADER_SIZE)
  /\ ptr' = 0 /\ next' = 1 /\ intact' = TRUE /\ begin' = 0 /\ end' = 0 /\ visited' = <<>>
  /\ pc' = "size"

\* a step of std::accumulate in calc_size
AddSize ==
  /\ pc = "size" /\ Len(starts) <= Len(args)
  /\ size' = size + CalcSize(args[Len(starts)])
  /\ starts' = Append(starts, starts[Len(starts)] + CalcSize(args[Len(starts)]))
  /\ UNCHANGED <<pc, traits, args, stg, ptr, next, intact, begin, end, visited>>

Sized == pc = "size" /\ Len(starts) = Len(args) + 1
\* slip: the limit is one too large
FitsNearly == size <= Word
Fits == size <= Word - 1

Overflow ==
  /\ Sized /\ ~Fits
  /\ pc' = "overflow"
  /\ UNCHANGED <<traits, args, size, starts, stg, ptr, next, intact, begin, end, visited>>

\* resize, fill_header
FillHeader ==
  /\ Sized /\ Fits
  /\ \E id \in RequestId :
       stg' = Put(Resized(stg, (size % Word) + FLAP_HEADER_SIZE), FLAP_HEADER_SIZE, SnacHeader(id))
  /\ ptr' = FLAP_HEADER_SIZE + SNAC_HEADER_SIZE
  /\ pc' = "store"
  /\ UNCHANGED <<traits, args, size, starts, next, intact, begin, end, visited>>

\* store_data<NUM>
StoreData ==
  /\ pc = "store" /\ next <= Len(args)
  /\ stg' = Put(stg, ptr, Tlv(traits.tlvs[next], args[next]))
  /\ ptr' = ptr + CalcSize(args[next])
  /\ next' = next + 1
  /\ UNCHANGED <<pc, traits, args, size, starts, intact, begin, end, visited>>

\* the rest of flap_builder::add_data
FinishFlap ==
  /\ pc = "store" /\ next > Len(args)
  /\ stg' = Put(stg, 0, FlapHeader)
  /\ pc' = "built"
  /\ UNCHANGED <<builder, intact, begin, end, visited>>

-------------------------------------------------------------------------------
(***************************************************************************)
(* What may happen to a frame before somebody parses it                    *)
(***************************************************************************)
Damage ==
  /\ pc = "built" /\ intact
  /\ \E q \in 1..Len(stg), b \in Noise : stg' = [stg EXCEPT ![q] = b]
  /\ intact' = FALSE
  /\ UNCHANGED <<pc, builder, begin, end, visited>>

Cut ==
  /\ pc = "built" /\ intact
  /\ \E n \in 0..(Len(stg) - 1) : stg' = SubSeq(stg, 1, n)
  /\ intact' = FALSE
  /\ UNCHANGED <<pc, builder, begin, end, visited>>

-------------------------------------------------------------------------------
(***************************************************************************)
(* flap_parser and tlv_iterator                                            *)
(***************************************************************************)
\* slip: nobody asks whether the frame is all there
AcceptableUnmeasured ==
  Len(stg) >= FLAP_HEADER_SIZE /\ stg[1] = FLAP_MARK /\ stg[2] < FlapChannelEnd
\* a storage shorter than the header is refused, whatever is read behind it
Acceptable ==
  /\ Len(stg) >= FLAP_HEADER_SIZE
  /\ stg[1] = FLAP_MARK /\ stg[2] < FlapChannelEnd
  /\ Len(stg) >= WordAt(stg, OFFSET_SNAC_SIZE) + FLAP_HEADER_SIZE

EndPtr == FLAP_HEADER_SIZE + WordAt(stg, OFFSET_SNAC_SIZE)

\* a byte behind the storage may have any value
Read(p) == IF p < Len(stg) THEN {stg[p + 1]} ELSE Octet

\* slip: the header is forgotten
GetDataSize(p) == {high * Byte + low : high \in Read(p + 2), low \in Read(p + 3)}
\* tlv::get_size at index p, with its 16-bit result
GetSize(p) ==
  {(TLV_HEADER_SIZE + high * Byte + low) % Word : high \in Read(p + 2), low \in Read(p + 3)}

\* what the iterator's end may become when it stands at p
EndAfter(p) == IF p = EndPtr THEN {p} ELSE {p + n : n \in GetSize(p)}

Refuse == pc' = "refused" /\ UNCHANGED <<builder, stg, intact, begin, end, visited>>

ConstructParser ==
  /\ pc = "built" /\ Acceptable
  /\ begin' = FLAP_HEADER_SIZE + SNAC_HEADER_SIZE
  /\ end' \in EndAfter(begin') /\ end' <= EndPtr
  /\ pc' = "count"
  /\ UNCHANGED <<builder, stg, intact, visited>>

\* "Incorrect flap structure", "Parsing SNAC structure error"
ConstructorThrows ==
  /\ pc = "built"
  /\ Acceptable => \E e \in EndAfter(FLAP_HEADER_SIZE + SNAC_HEADER_SIZE) : e > EndPtr
  /\ Refuse

\* ++num, ++it
Advance ==
  /\ pc = "count" /\ begin # EndPtr
  /\ begin' = end
  /\ end' \in EndAfter(end) /\ end' <= EndPtr
  /\ visited' = (IF Len(visited) < MaxCount THEN Append(visited, begin) ELSE visited)
  /\ UNCHANGED <<pc, builder, stg, intact>>

\* "Iterate SNAC structure error"
AdvanceThrows ==
  /\ pc = "count" /\ begin # EndPtr
  /\ \E e \in EndAfter(end) : e > EndPtr
  /\ Refuse

Counted ==
  /\ pc = "count" /\ begin = EndPtr
  /\ pc' = "done"
  /\ UNCHANGED <<builder, stg, intact, begin, end, visited>>

-------------------------------------------------------------------------------
Build == AddSize \/ Overflow \/ FillHeader \/ StoreData \/ FinishFlap
Parse == ConstructParser \/ ConstructorThrows \/ Advance \/ AdvanceThrows \/ Counted

Next ==
  \/ \E t \in Traits : \E a \in Args(t) : MakePackage(t, a)
  \/ Build \/ Damage \/ Cut \/ Parse

\* a call, once made, goes on
Spec == Init /\ [][Next]_vars /\ WF_vars(Build) /\ WF_vars(Parse)

-------------------------------------------------------------------------------
\* Every variable has its type.
TypeOK ==
  /\ pc \in {"idle", "size", "overflow", "store", "built", "count", "refused", "done"}
  /\ traits \in Traits /\ args \in Seq(Value)
  /\ size \in Nat /\ starts \in Seq(Nat)
  /\ stg \in Seq(Octet) /\ Len(stg) <= Word - 1 + FLAP_HEADER_SIZE
  /\ ptr \in Nat /\ next \in Nat \ {0}
  /\ intact \in BOOLEAN
  /\ begin \in Nat /\ end \in Nat /\ visited \in Seq(Nat)

\* The sizes added up first (snac.h:80-87) and the places written later (snac.h:109-118)
\* fit: every TLV is written inside the storage, and a finished frame has no byte left
\* that no TLV has filled.
StoresInside ==
  /\ pc = "store" /\ next <= Len(args) =>
       ptr = starts[next] /\ ptr + Len(Tlv(traits.tlvs[next], args[next])) <= Len(stg)
  /\ pc = "store" /\ next > Len(args) => ptr = Len(stg)

\* What was built is parsed: no undamaged frame is refused, its TLVs are counted
\* exactly, and each gives back the type and the value that were put in.
GivesBack ==
  intact =>
    /\ pc # "refused"
    /\ pc = "done" =>
         /\ Len(visited) = Len(args)
         /\ \A j \in 1..Len(args) :
              /\ WordAt(stg, visited[j]) = traits.tlvs[j].type
              /\ ValueAt(stg, visited[j], traits.tlvs[j]) = args[j]

\* Whatever the bytes are, the iterator never points behind the frame, and a TLV it
\* has counted lies inside the storage, unless the sum of its header and its length
\* wraps (tlv.h:168-171).
Wraps(p) == \E high \in Read(p + 2), low \in Read(p + 3) :
              TLV_HEADER_SIZE + high * Byte + low >= Word
CountsInside ==
  pc \in {"count", "done"} =>
    /\ begin <= end /\ end <= EndPtr /\ EndPtr <= Len(stg)
    /\ \A j \in 1..Len(visited) :
         \/ Wraps(visited[j])
         \/ visited[j] + TLV_HEADER_SIZE + WordAt(stg, visited[j] + 2) <= EndPtr

\* Counting ends, or comes to a TLV whose length makes get_size() return 0.
Endless(p) == \E high \in Read(p + 2), low \in Read(p + 3) :
                TLV_HEADER_SIZE + high * Byte + low = Word
CountingEnds == pc = "count" ~> pc # "count" \/ Endless(begin)

\* Why it ends: each turn of the loop in calc_tlv_count comes nearer to an end that stays
\* where it is, unless the sum of header and length is a whole number of words, which no
\* undamaged frame has.
CountingAdvances ==
  [][pc = "count" /\ pc' = "count" =>
       /\ begin < begin' \/ (Endless(begin) /\ ~intact)
       /\ begin' <= EndPtr /\ EndPtr' = EndPtr]_vars

-------------------------------------------------------------------------------
(***************************************************************************)
(* The inductive invariant behind these properties (Oscar_proofs)          *)
(***************************************************************************)
Building == pc \in {"size", "overflow", "store"}
Sent == pc \in {"built", "count", "refused", "done"}

\* the sizes added up so far
SizeInv ==
  pc # "idle" =>
    /\ args \in Args(traits)
    /\ Len(starts) \in 1..(Len(args) + 1) /\ starts[1] = FLAP_HEADER_SIZE + SNAC_HEADER_SIZE
    /\ \A j \in 1..Len(args) : j < Len(starts) => starts[j + 1] = starts[j] + CalcSize(args[j])
    /\ \A j, k \in 1..Len(starts) : j < k => starts[j] + TLV_HEADER_SIZE <= starts[k]
    /\ starts[Len(starts)] = FLAP_HEADER_SIZE + size
    /\ pc \notin {"size", "overflow"} => Len(starts) = Len(args) + 1 /\ size <= Word - 1

\* a TLV stands at its place in a storage
Stored(s, j) ==
  /\ WordAt(s, starts[j]) = traits.tlvs[j].type
  /\ WordAt(s, starts[j] + 2) = Len(args[j])
  /\ \A b \in 1..Len(args[j]) :
       s[starts[j] + TLV_HEADER_SIZE + b] = BigEndian(traits.tlvs[j], args[j])[b]

FrameInv ==
  /\ pc = "size" => next = 1
  /\ pc = "store" =>
       next <= Len(args) + 1 /\ ptr = starts[next] /\ Len(stg) = FLAP_HEADER_SIZE + size
  /\ pc = "store" => \A j \in 1..Len(args) : j < next => Stored(stg, j)
  /\ Sent /\ intact =>
       /\ Len(stg) = FLAP_HEADER_SIZE + size
       /\ stg[1] = FLAP_MARK /\ stg[2] = traits.channel /\ WordAt(stg, OFFSET_SNAC_SIZE) = size
       /\ \A j \in 1..Len(args) : Stored(stg, j)

\* the parser of an undamaged frame goes from TLV to TLV
WalkInv ==
  /\ Building \/ pc = "built" => visited = <<>>
  /\ pc = "refused" => ~intact
  /\ pc \in {"count", "done"} /\ intact =>
       /\ Len(visited) <= Len(args) /\ \A j \in 1..Len(visited) : visited[j] = starts[j]
       /\ begin = starts[Len(visited) + 1]
       /\ Len(visited) < Len(args) => end = starts[Len(visited) + 2]
       /\ pc = "done" => Len(visited) = Len(args)

\* the iterator of any frame
IteratorInv == pc = "count" => Len(stg) >= FLAP_HEADER_SIZE /\ end \in EndAfter(begin)

IInv == TypeOK /\ SizeInv /\ FrameInv /\ WalkInv /\ IteratorInv /\ CountsInside
===============================================================================
