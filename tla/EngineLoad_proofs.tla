-------------------------- MODULE EngineLoad_proofs --------------------------
(***************************************************************************)
(* Proofs about EngineLoad, for every blob, byte size, header and reader.   *)
(*                                                                         *)
(*   - The decoder stays inside the blob and allocates linearly in its      *)
(*     size (IInv: types, positions and what has been paid for).            *)
(*   - pack_blob and load are inverse to each other (FInv).  In one         *)
(*     direction, whatever the bytes: those before the position are what    *)
(*     pack_blob writes for what has been decoded (Positions), so an        *)
(*     accepted blob is a packed engine.  In the other, when the bytes are  *)
(*     those of a packed engine or the beginning of one: what has been      *)
(*     decoded agrees with the engine, nothing is refused if all of it is   *)
(*     there, and nothing accepted if it is not (Tracks).                   *)
(***************************************************************************)
EXTENDS EngineLoad, SequenceLemmas, TLAPS

(***************************************************************************)
(* Lemmas about EngineFormat's readers.                                     *)
(***************************************************************************)

LEMMA NatProduct == \A x, y \in Nat : x * y \in Nat
  OBVIOUS

LEMMA U32ValuesNat == U32Values \in Nat
  BY RadixAssumption, NatProduct DEF U32Values

LEMMA U64ValuesNat == U64Values \in Nat
  BY U32ValuesNat, NatProduct DEF U64Values

LEMMA ByteAtNat ==
  ASSUME NEW b \in Seq(Byte), NEW i
  PROVE  ByteAt(b, i) \in Nat
  BY RadixAssumption DEF ByteAt, Byte

(* get_u32 yields an unsigned integer wherever it reads. *)
LEMMA U32AtNat ==
  ASSUME NEW b \in Seq(Byte), NEW o
  PROVE  U32At(b, o) \in Nat
<1> DEFINE b1 == ByteAt(b, o + 1)
           b2 == ByteAt(b, o + 2)
           b3 == ByteAt(b, o + 3)
           b4 == ByteAt(b, o + 4)
<1>1. b1 \in Nat /\ b2 \in Nat /\ b3 \in Nat /\ b4 \in Nat
  BY ByteAtNat
<1> HIDE DEF b1, b2, b3, b4
<1>2. Radix \in Nat
  BY RadixAssumption
<1>3. b3 + Radix * b4 \in Nat
  BY <1>1, <1>2, NatProduct
<1>4. b2 + Radix * (b3 + Radix * b4) \in Nat
  BY <1>1, <1>2, <1>3, NatProduct
<1>5. b1 + Radix * (b2 + Radix * (b3 + Radix * b4)) \in Nat
  BY <1>1, <1>2, <1>4, NatProduct
<1> QED
  BY <1>5 DEF U32At, b1, b2, b3, b4

LEMMA U64AtNat ==
  ASSUME NEW b \in Seq(Byte), NEW o
  PROVE  U64At(b, o) \in Nat
<1>1. U32At(b, o) \in Nat /\ U32At(b, o + 4) \in Nat
  BY U32AtNat
<1>2. U32Values * U32At(b, o + 4) \in Nat
  BY <1>1, U32ValuesNat, NatProduct
<1> QED
  BY <1>1, <1>2 DEF U64At

LEMMA SignedInt ==
  ASSUME NEW d \in Nat
  PROVE  Signed(d) \in Int
  BY U64ValuesNat DEF Signed

LEMMA GetsNat ==
  ASSUME blob \in Seq(Byte)
  PROVE  get_u32 \in Nat /\ get_u64 \in Nat
  BY U32AtNat, U64AtNat DEF get_u32, get_u64

-----------------------------------------------------------------------------
(***************************************************************************)
(* Type correctness.                                                        *)
(***************************************************************************)

(* A copy of bytes of the blob is a byte sequence. *)
LEMMA BytesAtType ==
  ASSUME NEW b \in Seq(Byte), NEW o, NEW k \in Nat
  PROVE  BytesAt(b, o, k) \in Seq(Byte)
<1>1. \A i \in 1 .. k : ByteAt(b, o + i) \in Byte
  BY RadixAssumption DEF ByteAt, Byte
<1> QED
  BY <1>1 DEF BytesAt

(* A piece of a byte sequence is a byte sequence. *)
LEMMA PieceOfBytes ==
  ASSUME NEW b \in Seq(Byte), NEW i \in Nat, NEW j \in Nat, i >= 1, j <= Len(b)
  PROVE  SubSeq(b, i, j) \in Seq(Byte)
<1>1. \A k \in i .. j : b[k] \in Byte
  <2> TAKE k \in i .. j
  <2>1. k \in 1 .. Len(b)
    BY LenProperties
  <2> QED
    BY <2>1, ElementOfSeq
<1> QED
  BY <1>1, SubSeqProperties

LEMMA ZeroSeq ==
  ASSUME NEW k \in Nat
  PROVE  [i \in 1 .. k |-> 0] \in Seq(Int) /\ Len([i \in 1 .. k |-> 0]) = k
  OBVIOUS

LEMMA NoIOType == NoIO \in IORecord
  BY EmptySeq DEF NoIO, IORecord

(* A get keeps the types of what it may change. *)
LEMMA GetType ==
  ASSUME TypeOK, NEW k \in Nat, Get(k)
  PROVE  off' \in Nat /\ high' \in Nat /\ ok' \in BOOLEAN
<1>1. CASE Need(k)
  BY <1>1 DEF Get, TypeOK
<1>2. CASE ~Need(k)
  BY <1>2 DEF Get, TypeOK
<1> QED
  BY <1>1, <1>2

(***************************************************************************)
(* The strengthening of InBounds and AllocLinear that the decoder           *)
(* preserves: the read position is inside the blob, a program length has    *)
(* been checked against what is left, and every dimension that was          *)
(* allocated is paid for: by 8 bytes already read, by an iteration the      *)
(* dimension loop still has to make, or, once the flag has fallen, by the   *)
(* one record whose loop runs to its end without reading.                   *)
(***************************************************************************)
Bounds ==
  /\ off <= Len(blob) /\ high <= Len(blob)
  /\ n_io <= Len(blob) /\ ndim <= Len(blob) /\ dimsRead <= ndim
  /\ pc = "program" => off >= 8 /\ U64At(blob, off - 8) <= Len(blob) - off

Paid ==
  /\ pc \in {"stream", "magic"} => alloc = 0
  /\ pc = "dims" => /\ 8 * (alloc - ndim) <= off
                    /\ ok => 8 * (alloc - ndim + dimsRead) <= off
  /\ (pc # "dims" /\ ok) => 8 * alloc <= off
  /\ 8 * alloc <= 9 * Len(blob)

LEMMA TypeStep ==
  ASSUME TypeOK, [Next]_vars
  PROVE  TypeOK'
<1> USE DEF n, TooMany
<1>0. Len(blob) \in Nat /\ get_u32 \in Nat /\ get_u64 \in Nat
  BY GetsNat, LenProperties DEF TypeOK
<1>1. CASE ReadChunk
  <2>1. PICK k \in 1 .. Chunk : /\ k <= Len(source) - Len(blob)
                                /\ blob' = blob \o SubSeq(source, Len(blob) + 1, Len(blob) + k)
    BY <1>1 DEF ReadChunk
  <2>2. k \in Nat
    BY ChunkAssumption
  <2>3. SubSeq(source, Len(blob) + 1, Len(blob) + k) \in Seq(Byte)
    <3>1. Len(source) \in Nat
      BY LenProperties DEF TypeOK
    <3> QED
      BY <1>0, <2>1, <2>2, <3>1, PieceOfBytes DEF TypeOK
  <2>4. blob' \in Seq(Byte)
    BY <2>1, <2>3, ConcatProperties DEF TypeOK
  <2> QED
    BY <1>1, <2>4 DEF TypeOK, ReadChunk
<1>2. CASE StopReading
  BY <1>2 DEF TypeOK, StopReading
<1>3. CASE CheckMagic
  <2>1. Len(kMagic) \in Nat
    BY MagicAssumption, LenProperties
  <2> QED
    BY <1>3, <2>1 DEF TypeOK, CheckMagic, Refuse
<1>4. CASE ReadCount
  <2>1. CASE pc' = "done"
    BY <1>4, <2>1 DEF TypeOK, ReadCount, Corrupt, Refuse
  <2>2. CASE pc' # "done"
    <3>1. Get(4)
      BY <1>4, <2>2 DEF ReadCount, Corrupt, Refuse
    <3> QED
      BY <1>0, <1>4, <2>2, <3>1, GetType DEF TypeOK, ReadCount, Corrupt, Refuse
  <2> QED
    BY <2>1, <2>2
<1>5. CASE ReadTags
  <2>1. CASE ~Need(2)
    BY <1>5, <2>1 DEF TypeOK, ReadTags, Corrupt, Refuse
  <2>2. CASE Need(2)
    <3>1. ByteAt(blob, off + 1) \in Nat /\ ByteAt(blob, off + 2) \in Nat
      BY ByteAtNat DEF TypeOK
    <3>2. io' \in IORecord
      BY <1>5, <2>2, <3>1, NoIOType DEF ReadTags, IORecord
    <3> QED
      BY <1>5, <2>2, <3>2 DEF TypeOK, ReadTags, Get
  <2> QED
    BY <2>1, <2>2
<1>6. CASE ReadElemSize
  <2>1. io' \in IORecord
    BY <1>0, <1>6 DEF TypeOK, ReadElemSize, IORecord
  <2>2. off' \in Nat /\ high' \in Nat /\ ok' \in BOOLEAN
    BY <1>6, GetType DEF ReadElemSize
  <2> QED
    BY <1>6, <2>1, <2>2 DEF TypeOK, ReadElemSize
<1>7. CASE ReadName
  <2>1. CASE ~Need(4) \/ ~Need(4 + get_u32)
    BY <1>7, <2>1 DEF TypeOK, ReadName, Corrupt, Refuse
  <2>2. CASE Need(4) /\ Need(4 + get_u32)
    <3>1. BytesAt(blob, off + 4, get_u32) \in Seq(Byte)
      BY <1>0, BytesAtType DEF TypeOK
    <3>2. io' \in IORecord
      BY <1>7, <2>2, <3>1 DEF TypeOK, ReadName, IORecord
    <3> QED
      BY <1>0, <1>7, <2>2, <3>2 DEF TypeOK, ReadName, Get
  <2> QED
    BY <2>1, <2>2
<1>8. CASE ReadRank
  <2>1. CASE ~Need(4) \/ TooMany(get_u32)
    BY <1>8, <2>1 DEF TypeOK, ReadRank, Corrupt, Refuse
  <2>2. CASE Need(4) /\ ~(TooMany(get_u32))
    <3>1. [i \in 1 .. get_u32 |-> 0] \in Seq(Int)
      BY <1>0, ZeroSeq
    <3>2. io' \in IORecord
      BY <1>8, <2>2, <3>1 DEF TypeOK, ReadRank, IORecord
    <3> QED
      BY <1>0, <1>8, <2>2, <3>2 DEF TypeOK, ReadRank, Get
  <2> QED
    BY <2>1, <2>2
<1>9. CASE ReadDim
  <2> DEFINE newDims == [io.dims EXCEPT ![dimsRead + 1] = Signed(get_u64)]
  <2>1. Signed(get_u64) \in Int
    BY <1>0, SignedInt
  <2>2. io.dims \in Seq(Int)
    BY DEF TypeOK, IORecord
  <2>3. newDims \in Seq(Int)
    <3>1. CASE dimsRead + 1 \in 1 .. Len(io.dims)
      BY <2>1, <2>2, <3>1, ExceptSeq
    <3>2. CASE dimsRead + 1 \notin 1 .. Len(io.dims)
      <4>1. /\ Len(io.dims) \in Nat
            /\ io.dims \in [1 .. Len(io.dims) -> Int]
            /\ DOMAIN io.dims = 1 .. Len(io.dims)
        BY <2>2, LenProperties
      <4>2. newDims = io.dims
        BY <3>2, <4>1
      <4> QED
        BY <2>2, <4>2
    <3> QED
      BY <3>1, <3>2
  <2>4. io' = [io EXCEPT !.dims = newDims]
    BY <1>9 DEF TypeOK, IORecord, ReadDim
  <2> HIDE DEF newDims
  <2>5. io' \in IORecord
    BY <2>3, <2>4 DEF TypeOK, IORecord
  <2>6. off' \in Nat /\ high' \in Nat /\ ok' \in BOOLEAN
    BY <1>9, GetType DEF ReadDim
  <2> QED
    BY <1>9, <2>5, <2>6 DEF TypeOK, ReadDim
<1>10. CASE EndIO
  <2>1. ios' \in Seq(IORecord)
    BY <1>10 DEF TypeOK, EndIO
  <2> QED
    BY <1>10, <2>1, NoIOType DEF TypeOK, EndIO
<1>11. CASE ReadProgramLength
  BY <1>0, <1>11 DEF TypeOK, ReadProgramLength, Corrupt, Refuse, Get
<1>12. CASE LoadProgram
  <2> DEFINE mxr_len == U64At(blob, off - 8)
             mxr == BytesAt(blob, off, mxr_len)
  <2>1. mxr_len \in Nat
    BY U64AtNat DEF TypeOK
  <2>3. mxr \in Seq(Byte)
    BY <2>1, BytesAtType DEF TypeOK
  <2>4. \/ engine' = [ios |-> ios, mxr |-> mxr] /\ err' = err
        \/ engine' = NoEngine /\ err' = "exception"
    BY <1>12 DEF LoadProgram
  <2>5. high' = off + mxr_len
    BY <1>12 DEF LoadProgram
  <2> HIDE DEF mxr_len, mxr
  <2>6. engine' \in [ios : Seq(IORecord), mxr : Seq(Byte)] \cup {NoEngine}
    BY <2>3, <2>4 DEF TypeOK
  <2>7. err' \in {"none", "foreign", "corrupt", "exception"}
    BY <2>4 DEF TypeOK
  <2> QED
    BY <1>12, <2>1, <2>5, <2>6, <2>7 DEF TypeOK, LoadProgram
<1>13. CASE UNCHANGED vars
  BY <1>13 DEF TypeOK, vars
<1> QED
  BY <1>1, <1>2, <1>3, <1>4, <1>5, <1>6, <1>7, <1>8, <1>9, <1>10, <1>11, <1>12, <1>13
     DEF Next, Decode, Done

(* The blob grows while the reader delivers and never changes afterwards. *)
LEMMA BlobGrows ==
  ASSUME TypeOK, ReadChunk
  PROVE  Len(blob') \in Nat /\ Len(blob) \in Nat /\ Len(blob) <= Len(blob')
<1>1. PICK k \in 1 .. Chunk : /\ k <= Len(source) - Len(blob)
                              /\ blob' = blob \o SubSeq(source, Len(blob) + 1, Len(blob) + k)
  BY DEF ReadChunk
<1>2. k \in Nat
  BY ChunkAssumption
<1>3. Len(source) \in Nat /\ Len(blob) \in Nat
  BY LenProperties DEF TypeOK
<1>4. /\ SubSeq(source, Len(blob) + 1, Len(blob) + k) \in Seq(Byte)
      /\ Len(SubSeq(source, Len(blob) + 1, Len(blob) + k)) \in Nat
  BY <1>1, <1>2, <1>3, PieceOfBytes, LenProperties DEF TypeOK
<1> QED
  BY <1>1, <1>3, <1>4, ConcatProperties DEF TypeOK

(* A get either moves the position inside the blob or only drops the flag.  *)
LEMMA GetMoves ==
  ASSUME TypeOK, NEW k \in Nat, Get(k)
  PROVE  \/ /\ off' = off + k /\ high' = off + k /\ ok' = ok
            /\ off + k <= Len(blob)
         \/ ok' = FALSE /\ off' = off /\ high' = high
<1>1. CASE Need(k)
  <2>1. Len(blob) \in Nat
    BY LenProperties DEF TypeOK
  <2> QED
    BY <1>1, <2>1 DEF Get, Need, n, TypeOK
<1>2. CASE ~Need(k)
  BY <1>2 DEF Get
<1> QED
  BY <1>1, <1>2

LEMMA BoundsStep ==
  ASSUME TypeOK, Bounds, [Next]_vars
  PROVE  Bounds'
<1> USE DEF n, TooMany
<1>0. Len(blob) \in Nat /\ get_u32 \in Nat /\ get_u64 \in Nat
  BY GetsNat, LenProperties DEF TypeOK
<1>1. CASE ReadChunk
  BY <1>1, BlobGrows DEF TypeOK, Bounds, ReadChunk
<1>2. CASE StopReading
  BY <1>2 DEF Bounds, StopReading
<1>3. CASE CheckMagic
  <2>1. Len(kMagic) \in Nat
    BY MagicAssumption, LenProperties
  <2> QED
    BY <1>0, <1>3, <2>1 DEF TypeOK, Bounds, CheckMagic, Refuse
<1>4. CASE ReadCount
  BY <1>0, <1>4 DEF TypeOK, Bounds, ReadCount, Corrupt, Refuse, Get, Need
<1>5. CASE ReadTags
  BY <1>0, <1>5 DEF TypeOK, Bounds, ReadTags, Corrupt, Refuse, Get, Need
<1>6. CASE ReadElemSize
  BY <1>0, <1>6 DEF TypeOK, Bounds, ReadElemSize, Get, Need
<1>7. CASE ReadName
  <2>1. CASE ~Need(4) \/ ~Need(4 + get_u32)
    BY <1>7, <2>1 DEF Bounds, ReadName, Corrupt, Refuse
  <2>2. CASE Need(4) /\ Need(4 + get_u32)
    <3> DEFINE k == 4 + get_u32
    <3>1. /\ Get(k) /\ pc' = "ndim"
          /\ UNCHANGED << blob, n_io, ndim, dimsRead >>
      BY <1>7, <2>2 DEF ReadName
    <3>2. k \in Nat
      BY <1>0
    <3> HIDE DEF k
    <3>3. off' <= Len(blob) /\ high' <= Len(blob)
      BY <1>0, <3>1, <3>2, GetMoves DEF TypeOK, Bounds
    <3> QED
      BY <3>1, <3>3 DEF Bounds
  <2> QED
    BY <2>1, <2>2
<1>8. CASE ReadRank
  BY <1>0, <1>8 DEF TypeOK, Bounds, ReadRank, Corrupt, Refuse, Get, Need
<1>9. CASE ReadDim
  BY <1>0, <1>9 DEF TypeOK, Bounds, ReadDim, Get, Need
<1>10. CASE EndIO
  BY <1>0, <1>10 DEF TypeOK, Bounds, EndIO
<1>11. CASE ReadProgramLength
  <2>1. CASE ~Need(8) \/ ~Need(8 + get_u64)
    BY <1>11, <2>1 DEF Bounds, ReadProgramLength, Corrupt, Refuse
  <2>2. CASE Need(8) /\ Need(8 + get_u64)
    <3>1. off' = off + 8 /\ high' = off + 8 /\ blob' = blob
      BY <1>11, <2>2 DEF ReadProgramLength, Get
    <3>2. off' - 8 = off
      BY <3>1 DEF TypeOK
    <3>3. U64At(blob', off' - 8) = get_u64
      BY <2>2, <3>1, <3>2 DEF get_u64
    <3> QED
      BY <1>0, <1>11, <2>2, <3>1, <3>3
         DEF TypeOK, Bounds, ReadProgramLength, Need
  <2> QED
    BY <2>1, <2>2
<1>12. CASE LoadProgram
  <2>1. U64At(blob, off - 8) \in Nat
    BY U64AtNat DEF TypeOK
  <2> QED
    BY <1>0, <1>12, <2>1 DEF TypeOK, Bounds, LoadProgram
<1>13. CASE UNCHANGED vars
  BY <1>13 DEF Bounds, vars
<1> QED
  BY <1>1, <1>2, <1>3, <1>4, <1>5, <1>6, <1>7, <1>8, <1>9, <1>10, <1>11, <1>12, <1>13
     DEF Next, Decode, Done

LEMMA PaidStep ==
  ASSUME TypeOK, Bounds, Paid, [Next]_vars
  PROVE  Paid'
<1> USE DEF n, TooMany
<1>0. Len(blob) \in Nat /\ get_u32 \in Nat /\ get_u64 \in Nat
  BY GetsNat, LenProperties DEF TypeOK
<1>a. ASSUME pc # "dims", pc' \notin {"stream", "magic", "dims"}, blob' = blob,
             alloc' = alloc, off' \in Nat, off' >= off, ok' => ok
      PROVE  Paid'
  BY <1>0, <1>a DEF TypeOK, Paid
<1>b. ASSUME pc # "dims", Corrupt
      PROVE  Paid'
  BY <1>a, <1>b DEF TypeOK, Corrupt, Refuse
<1>c. ASSUME NEW k \in Nat, Get(k)
      PROVE  off' \in Nat /\ off' >= off /\ (ok' => ok)
  <2>1. \/ off' = off + k /\ ok' = ok
        \/ off' = off /\ ok' = FALSE
    BY <1>c, GetMoves
  <2>2. off \in Nat
    BY DEF TypeOK
  <2>. QED
    BY <2>1, <2>2
<1>1. CASE ReadChunk
  BY <1>1, BlobGrows DEF TypeOK, Paid, ReadChunk
<1>2. CASE StopReading
  BY <1>2 DEF Paid, StopReading
<1>3. CASE CheckMagic
  <2>1. Len(kMagic) \in Nat
    BY MagicAssumption, LenProperties
  <2> QED
    BY <1>0, <1>3, <2>1 DEF TypeOK, Paid, CheckMagic, Refuse
<1>4. CASE ReadCount
  <2>1. CASE Corrupt
    BY <1>4, <1>b, <2>1 DEF ReadCount
  <2>2. CASE Get(4)
    <3>1. pc = "n_io" /\ (Corrupt \/ (/\ pc' \in {"mxr_len", "tags"} /\ blob' = blob
                                    /\ alloc' = alloc))
      BY <1>4 DEF ReadCount
    <3>. QED
      BY <1>a, <1>b, <1>c, <2>2, <3>1
  <2>. QED
    BY <1>4, <2>1, <2>2 DEF ReadCount
<1>5. CASE ReadTags
  <2>1. CASE Corrupt
    BY <1>5, <1>b, <2>1 DEF ReadTags
  <2>2. CASE Get(2)
    <3>1. pc = "tags" /\ (Corrupt \/ (pc' = "bpe" /\ blob' = blob /\ alloc' = alloc))
      BY <1>5 DEF ReadTags
    <3>. QED
      BY <1>a, <1>b, <1>c, <2>2, <3>1
  <2>. QED
    BY <1>5, <2>1, <2>2 DEF ReadTags
<1>6. CASE ReadElemSize
  <2>1. Get(4) /\ pc = "bpe" /\ pc' = "name" /\ blob' = blob /\ alloc' = alloc
    BY <1>6 DEF ReadElemSize
  <2>. QED
    BY <1>a, <1>c, <2>1
<1>7. CASE ReadName
  <2>1. CASE ~Need(4) \/ ~Need(4 + get_u32)
    BY <1>7, <2>1 DEF Paid, ReadName, Corrupt, Refuse
  <2>2. CASE Need(4) /\ Need(4 + get_u32)
    <3>1. Get(4 + get_u32) /\ pc = "name" /\ pc' = "ndim" /\ blob' = blob /\ alloc' = alloc
      BY <1>7, <2>2 DEF ReadName
    <3>2. 4 + get_u32 \in Nat
      BY <1>0
    <3>. QED
      BY <1>a, <1>c, <3>1, <3>2
  <2> QED
    BY <2>1, <2>2
<1>8. CASE ReadRank
  <2>1. CASE ~Need(4) \/ TooMany(get_u32)
    BY <1>8, <2>1 DEF Paid, ReadRank, Corrupt, Refuse
  <2>2. CASE Need(4) /\ ~(TooMany(get_u32))
    <3>1. /\ Get(4)
          /\ alloc' = alloc + get_u32 /\ ndim' = get_u32 /\ dimsRead' = 0
          /\ pc = "ndim" /\ pc' = "dims" /\ blob' = blob
      BY <1>8, <2>2 DEF ReadRank
    <3>2. off' = off + 4
      BY <2>2, <3>1 DEF Get
    <3>3. 8 * alloc <= off
      BY <2>2, <3>1 DEF Paid, Need
    <3>4. off <= Len(blob)
      BY DEF Bounds
    <3> QED
      BY <1>0, <2>2, <3>1, <3>2, <3>3, <3>4 DEF TypeOK, Paid
  <2> QED
    BY <2>1, <2>2
<1>9. CASE ReadDim
  <2>1. /\ pc = "dims" /\ pc' = "dims" /\ blob' = blob /\ alloc' = alloc
        /\ ndim' = ndim /\ dimsRead' = dimsRead + 1
    BY <1>9 DEF ReadDim
  <2>2. \/ off' = off + 8 /\ ok' = ok
        \/ off' = off /\ ok' = FALSE
    BY <1>9, GetMoves DEF ReadDim
  <2>3. CASE off' = off + 8 /\ ok' = ok
    BY <1>0, <2>1, <2>3 DEF TypeOK, Paid
  <2>4. CASE off' = off /\ ok' = FALSE
    BY <1>0, <2>1, <2>4 DEF TypeOK, Paid
  <2> QED
    BY <2>2, <2>3, <2>4
<1>10. CASE EndIO
  BY <1>0, <1>10 DEF TypeOK, Paid, EndIO
<1>11. CASE ReadProgramLength
  BY <1>0, <1>11 DEF TypeOK, Paid, ReadProgramLength, Corrupt, Refuse, Get, Need
<1>12. CASE LoadProgram
  BY <1>0, <1>12 DEF TypeOK, Paid, LoadProgram
<1>13. CASE UNCHANGED vars
  BY <1>13 DEF Paid, vars
<1> QED
  BY <1>1, <1>2, <1>3, <1>4, <1>5, <1>6, <1>7, <1>8, <1>9, <1>10, <1>11, <1>12, <1>13
     DEF Next, Decode, Done

-----------------------------------------------------------------------------
(***************************************************************************)
(* The theorems.                                                            *)
(***************************************************************************)

IInv == TypeOK /\ Bounds /\ Paid

LEMMA InitIInv == Init => IInv
<1> SUFFICES ASSUME Init PROVE IInv
  OBVIOUS
<1>1. source \in Seq(Byte) /\ blob \in Seq(Byte)
  BY SourcesAssumption, EmptySeq DEF Init
<1>2. TypeOK
  BY <1>1, NoIOType, EmptySeq DEF Init, TypeOK
<1>3. Len(blob) \in Nat
  BY <1>1, LenProperties
<1>4. Bounds /\ Paid
  BY <1>3 DEF Init, Bounds, Paid
<1> QED
  BY <1>2, <1>4 DEF IInv

(* The decoder's inductive invariant. *)
THEOREM DecoderInvariant == Spec => []IInv
<1>1. IInv /\ [Next]_vars => IInv'
  BY TypeStep, BoundsStep, PaidStep DEF IInv
<1> QED
  BY InitIInv, <1>1, PTL DEF Spec

(* Every variable of the decoder keeps its type, whatever bytes it is given: *)
(* in particular every length and count it acts on is a natural number.      *)
THEOREM TypeCorrect == Spec => []TypeOK
<1>1. IInv => TypeOK
  BY DEF IInv
<1> QED
  BY DecoderInvariant, <1>1, PTL

(* load reads no byte past the end of the blob, for every blob and every     *)
(* way a stream reader may deliver it (src/backend.cpp, need()).             *)
THEOREM ReadsInBounds == Spec => []InBounds
<1>1. IInv => InBounds
  BY DEF IInv, Bounds, InBounds
<1> QED
  BY DecoderInvariant, <1>1, PTL

(* The counts of a blob cannot make load allocate more than linearly in the  *)
(* blob's own size (the guards on n_io and ndim in src/backend.cpp).         *)
THEOREM AllocatesLinearly == Spec => []AllocLinear
<1>1. IInv => AllocLinear
  BY DEF IInv, Bounds, Paid, AllocLinear
<1> QED
  BY DecoderInvariant, <1>1, PTL

-----------------------------------------------------------------------------
(***************************************************************************)
(* Arithmetic of the fields: division by D, which is a byte's, a uint32_t's  *)
(* or a uint64_t's number of values.                                        *)
(***************************************************************************)

LEMMA Distributes == \A d, x, y \in Int : d * (x + y) = d * x + d * y
  OBVIOUS

LEMMA Associates == \A x, y, z \in Int : (x * y) * z = x * (y * z)
  OBVIOUS

LEMMA IntProduct == \A x, y \in Int : x * y \in Int
  OBVIOUS

LEMMA DivModIs ==
  ASSUME NEW D \in Nat \ {0}, NEW v \in Int
  PROVE  /\ v % D \in 0 .. D - 1 /\ v \div D \in Int
         /\ v = (v % D) + D * (v \div D)
  OBVIOUS

LEMMA DivModUnique ==
  ASSUME NEW D \in Nat \ {0}, NEW a \in 0 .. D - 1, NEW q \in Int
  PROVE  (a + D * q) % D = a /\ (a + D * q) \div D = q
  OBVIOUS

LEMMA DivBounds ==
  ASSUME NEW D \in Nat \ {0}, NEW v \in Nat, NEW m \in Nat, v < D * m
  PROVE  v \div D \in Nat /\ v \div D < m
  OBVIOUS

LEMMA DivPlus ==
  ASSUME NEW D \in Nat \ {0}, NEW v \in Int, NEW m \in Int
  PROVE  /\ (v + D * m) % D = v % D
         /\ (v + D * m) \div D = (v \div D) + m
<1> DEFINE a == v % D
           q == v \div D
<1>1. a \in 0 .. D - 1 /\ q \in Int /\ v = a + D * q
  BY DivModIs
<1> HIDE DEF a, q
<1>2. D * (q + m) = D * q + D * m /\ D * q \in Int /\ D * m \in Int
  BY <1>1, Distributes, IntProduct
<1>3. v + D * m = a + D * (q + m)
  BY <1>1, <1>2
<1>4. (v + D * m) % D = a /\ (v + D * m) \div D = q + m
  BY <1>1, <1>3, DivModUnique
<1> QED
  BY <1>1, <1>4 DEF a, q

LEMMA RadixPositive == Radix \in Nat \ {0} /\ U32Values \in Nat \ {0} /\ U64Values \in Nat \ {0}
<1>1. \A x, y \in Nat \ {0} : x * y \in Nat \ {0}
  OBVIOUS
<1>2. Radix \in Nat \ {0}
  BY RadixAssumption
<1>3. U32Values \in Nat \ {0}
  BY <1>1, <1>2 DEF U32Values
<1> QED
  BY <1>1, <1>2, <1>3 DEF U64Values

LEMMA U32ValuesIs == U32Values = Radix * (Radix * (Radix * Radix))
<1>1. Radix \in Int
  BY RadixPositive
<1>2. Radix * Radix \in Int /\ (Radix * Radix) * Radix \in Int
  BY <1>1, IntProduct
<1> QED
  BY <1>1, <1>2, Associates DEF U32Values

(* What four bytes, least significant first, are worth.                      *)
Value32(w, x, y, z) == w + Radix * (x + Radix * (y + Radix * z))

(* A value between the bytes of a uint32_t and the multiple of its number of  *)
(* values.                                                                  *)
LEMMA ValueSplit ==
  ASSUME NEW w \in Byte, NEW x \in Byte, NEW y \in Byte, NEW z \in Byte
  PROVE  Value32(w, x, y, z) \in 0 .. U32Values - 1
<1>1. ASSUME NEW c \in Byte, NEW m \in Nat, NEW v \in 0 .. m - 1
      PROVE  c + Radix * v \in 0 .. Radix * m - 1
  <2>1. v + 1 <= m /\ v \in Int /\ m \in Int /\ Radix \in Nat /\ c \in 0 .. Radix - 1
    BY RadixPositive DEF Byte
  <2>2. Radix * v + Radix <= Radix * m /\ Radix * v >= 0 /\ Radix * v \in Int /\ Radix * m \in Int
    BY <2>1
  <2> QED
    BY <2>1, <2>2
<1>2. Radix \in Nat /\ Radix * Radix \in Nat /\ Radix * (Radix * Radix) \in Nat
  BY RadixPositive, NatProduct
<1>3. y + Radix * z \in 0 .. Radix * Radix - 1
  BY <1>1, <1>2 DEF Byte
<1>4. x + Radix * (y + Radix * z) \in 0 .. Radix * (Radix * Radix) - 1
  BY <1>1, <1>2, <1>3
<1>5. w + Radix * (x + Radix * (y + Radix * z)) \in 0 .. Radix * (Radix * (Radix * Radix)) - 1
  BY <1>1, <1>2, <1>4
<1> QED
  BY <1>5, U32ValuesIs DEF Value32

(* The four bytes put_u32 writes, and what is left of the integer.           *)
LEMMA PutSplits ==
  ASSUME NEW v \in Int
  PROVE  \E w, x, y, z \in Byte :
           /\ put_u32(v) = << w, x, y, z >>
           /\ v = Value32(w, x, y, z) + U32Values * (v \div U32Values)
<1> DEFINE v1 == v \div Radix
           v2 == v1 \div Radix
           v3 == v2 \div Radix
           v4 == v3 \div Radix
<1>1. /\ v % Radix \in Byte /\ v1 \in Int /\ v = (v % Radix) + Radix * v1
  BY RadixPositive, DivModIs DEF Byte
<1>2. /\ v1 % Radix \in Byte /\ v2 \in Int /\ v1 = (v1 % Radix) + Radix * v2
  BY <1>1, RadixPositive, DivModIs DEF Byte
<1>3. /\ v2 % Radix \in Byte /\ v3 \in Int /\ v2 = (v2 % Radix) + Radix * v3
  BY <1>2, RadixPositive, DivModIs DEF Byte
<1>4. /\ v3 % Radix \in Byte /\ v4 \in Int /\ v3 = (v3 % Radix) + Radix * v4
  BY <1>3, RadixPositive, DivModIs DEF Byte
<1>5. put_u32(v) = << v % Radix, v1 % Radix, v2 % Radix, v3 % Radix >>
  BY DEF put_u32
<1>6. PICK w \in Byte, x \in Byte, y \in Byte, z \in Byte :
        w = v % Radix /\ x = v1 % Radix /\ y = v2 % Radix /\ z = v3 % Radix
  BY <1>1, <1>2, <1>3, <1>4
<1> HIDE DEF v1, v2, v3, v4
<1>r. Radix \in Int /\ w \in Int /\ x \in Int /\ y \in Int /\ z \in Int
  BY RadixPositive DEF Byte
<1>7. v2 = (y + Radix * z) + (Radix * Radix) * v4
  <2>1. Radix * (z + Radix * v4) = Radix * z + Radix * (Radix * v4)
    BY <1>4, <1>r, Distributes, IntProduct
  <2>2. Radix * (Radix * v4) = (Radix * Radix) * v4
    BY <1>4, <1>r, Associates
  <2>3. Radix * z \in Int /\ Radix * (Radix * v4) \in Int
    BY <1>4, <1>r, IntProduct
  <2> QED
    BY <1>3, <1>4, <1>6, <1>r, <2>1, <2>2, <2>3
<1>8. v1 = (x + Radix * (y + Radix * z)) + (Radix * (Radix * Radix)) * v4
  <2> DEFINE p == y + Radix * z
             q == (Radix * Radix) * v4
  <2>1. p \in Int /\ q \in Int /\ v2 = p + q
    BY <1>4, <1>7, <1>r, IntProduct
  <2>2. Radix * q = (Radix * (Radix * Radix)) * v4
    BY <1>4, <1>r, Associates, IntProduct
  <2> HIDE DEF p, q
  <2>3. Radix * v2 = Radix * p + Radix * q /\ Radix * p \in Int /\ Radix * q \in Int
    BY <1>r, <2>1, Distributes, IntProduct
  <2>4. v1 = (x + Radix * p) + Radix * q
    BY <1>2, <1>6, <1>r, <2>3
  <2> QED
    BY <2>2, <2>4 DEF p
<1>9. v = Value32(w, x, y, z) + U32Values * v4
  <2> DEFINE p == x + Radix * (y + Radix * z)
             q == (Radix * (Radix * Radix)) * v4
  <2>1. p \in Int /\ q \in Int /\ v1 = p + q
    BY <1>4, <1>8, <1>r, IntProduct
  <2>2. Radix * q = (Radix * (Radix * (Radix * Radix))) * v4
    BY <1>4, <1>r, Associates, IntProduct
  <2> HIDE DEF p, q
  <2>3. Radix * v1 = Radix * p + Radix * q /\ Radix * p \in Int /\ Radix * q \in Int
    BY <1>r, <2>1, Distributes, IntProduct
  <2>4. v = (w + Radix * p) + Radix * q
    BY <1>1, <1>6, <1>r, <2>3
  <2> QED
    BY <2>2, <2>4, U32ValuesIs DEF p, Value32
<1>10. v4 = v \div U32Values
  BY <1>4, <1>9, ValueSplit, RadixPositive, DivModUnique
<1> QED
  BY <1>5, <1>6, <1>9, <1>10

LEMMA SmallDiv ==
  ASSUME NEW D \in Nat \ {0}, NEW v \in 0 .. D - 1
  PROVE  v \div D = 0
  OBVIOUS

(* Beyond the four bytes a multiple of 2^32 leaves no trace.                 *)
LEMMA PutPlus ==
  ASSUME NEW v \in Int, NEW m \in Int
  PROVE  put_u32(v + U32Values * m) = put_u32(v)
<1> DEFINE m1 == (Radix * (Radix * Radix)) * m
           m2 == (Radix * Radix) * m
           m3 == Radix * m
           u == v + U32Values * m
           v1 == v \div Radix
           v2 == v1 \div Radix
           v3 == v2 \div Radix
<1>1. Radix \in Int /\ Radix * Radix \in Int /\ Radix * (Radix * Radix) \in Int
  BY RadixPositive, IntProduct
<1>2. /\ m1 \in Int /\ m2 \in Int /\ m3 \in Int
      /\ U32Values * m = Radix * m1 /\ m1 = Radix * m2 /\ m2 = Radix * m3
  BY <1>1, IntProduct, Associates, U32ValuesIs
<1>3. v1 \in Int /\ v2 \in Int /\ v3 \in Int
  <2>1. v1 \in Int
    BY RadixPositive, DivModIs
  <2>2. v2 \in Int
    BY <2>1, RadixPositive, DivModIs
  <2> QED
    BY <2>1, <2>2, RadixPositive, DivModIs
<1> HIDE DEF m1, m2, m3, v1, v2, v3
<1>4. u % Radix = v % Radix /\ u \div Radix = v1 + m1
  BY <1>2, RadixPositive, DivPlus DEF v1
<1>5. (v1 + m1) % Radix = v1 % Radix /\ (v1 + m1) \div Radix = v2 + m2
  BY <1>2, <1>3, RadixPositive, DivPlus DEF v2
<1>6. (v2 + m2) % Radix = v2 % Radix /\ (v2 + m2) \div Radix = v3 + m3
  BY <1>2, <1>3, RadixPositive, DivPlus DEF v3
<1>7. (v3 + m3) % Radix = v3 % Radix
  BY <1>2, <1>3, RadixPositive, DivPlus DEF m3
<1> HIDE DEF u
<1>8. put_u32(u) = << v % Radix, v1 % Radix, v2 % Radix, v3 % Radix >>
  BY <1>4, <1>5, <1>6, <1>7 DEF put_u32
<1>9. put_u32(v) = << v % Radix, v1 % Radix, v2 % Radix, v3 % Radix >>
  BY DEF put_u32, v1, v2, v3
<1> QED
  BY <1>8, <1>9 DEF u

LEMMA PutOfValue ==
  ASSUME NEW w \in Byte, NEW x \in Byte, NEW y \in Byte, NEW z \in Byte
  PROVE  put_u32(Value32(w, x, y, z)) = << w, x, y, z >>
<1> DEFINE v2 == y + Radix * z
           v1 == x + Radix * v2
           v == w + Radix * v1
<1>1. Radix \in Int /\ w \in Int /\ x \in Int /\ y \in Int /\ z \in Int
  BY RadixPositive DEF Byte
<1>2. v2 \in Int /\ v1 \in Int /\ v \in Int
  BY <1>1, IntProduct
<1> HIDE DEF v2, v1, v
<1>3. v % Radix = w /\ v \div Radix = v1
  BY <1>1, <1>2, RadixPositive, DivModUnique DEF Byte, v
<1>4. v1 % Radix = x /\ v1 \div Radix = v2
  BY <1>1, <1>2, RadixPositive, DivModUnique DEF Byte, v1
<1>5. v2 % Radix = y /\ v2 \div Radix = z
  BY <1>1, <1>2, RadixPositive, DivModUnique DEF Byte, v2
<1>6. z % Radix = z
  BY RadixPositive DEF Byte
<1>7. put_u32(v) = << w, x, y, z >>
  BY <1>3, <1>4, <1>5, <1>6 DEF put_u32
<1> QED
  BY <1>7 DEF Value32, v, v1, v2

LEMMA PutType ==
  ASSUME NEW v \in Int
  PROVE  /\ put_u32(v) \in Seq(Byte) /\ Len(put_u32(v)) = 4
         /\ put_u64(v) \in Seq(Byte) /\ Len(put_u64(v)) = 8
         /\ \A i \in 1 .. 8 : put_u64(v)[i] = IF i <= 4 THEN put_u32(v)[i]
                                             ELSE put_u32(v \div U32Values)[i - 4]
<1>1. ASSUME NEW u \in Int
      PROVE  put_u32(u) \in Seq(Byte) /\ Len(put_u32(u)) = 4
  <2>1. PICK w, x, y, z \in Byte : put_u32(u) = << w, x, y, z >>
    BY PutSplits
  <2> QED
    BY <2>1
<1>2. v \div U32Values \in Int
  BY RadixPositive, DivModIs
<1> DEFINE s == put_u32(v)
           t == put_u32(v \div U32Values)
<1>3. s \in Seq(Byte) /\ t \in Seq(Byte) /\ Len(s) = 4 /\ Len(t) = 4
  BY <1>1, <1>2
<1> HIDE DEF s, t
<1>4. /\ s \o t \in Seq(Byte) /\ Len(s \o t) = 8
      /\ \A i \in 1 .. 8 : (s \o t)[i] = IF i <= 4 THEN s[i] ELSE t[i - 4]
  <2>1. /\ s \o t \in Seq(Byte) /\ Len(s \o t) = Len(s) + Len(t)
        /\ \A i \in 1 .. Len(s) + Len(t) :
             (s \o t)[i] = IF i <= Len(s) THEN s[i] ELSE t[i - Len(s)]
    BY <1>3, ConcatProperties
  <2>2. Len(s) + Len(t) = 8
    BY <1>3
  <2> QED
    BY <1>3, <2>1, <2>2
<1> QED
  BY <1>3, <1>4 DEF put_u64, s, t

(* Four bytes of a blob that are all there.                                  *)
LEMMA ReadIs ==
  ASSUME NEW b \in Seq(Byte), NEW o \in Nat, o + 4 <= Len(b)
  PROVE  /\ b[o + 1] \in Byte /\ b[o + 2] \in Byte /\ b[o + 3] \in Byte /\ b[o + 4] \in Byte
         /\ U32At(b, o) = Value32(b[o + 1], b[o + 2], b[o + 3], b[o + 4])
         /\ U32At(b, o) \in 0 .. U32Values - 1
<1>1. Len(b) \in Nat
  BY LenProperties
<1>2. \A i \in 1 .. 4 : o + i \in 1 .. Len(b)
  BY <1>1
<1>3. \A i \in 1 .. 4 : b[o + i] \in Byte
  BY <1>2, ElementOfSeq
<1>4. b[o + 1] \in Byte /\ b[o + 2] \in Byte /\ b[o + 3] \in Byte /\ b[o + 4] \in Byte
  BY <1>3
<1>5. /\ ByteAt(b, o + 1) = b[o + 1] /\ ByteAt(b, o + 2) = b[o + 2]
      /\ ByteAt(b, o + 3) = b[o + 3] /\ ByteAt(b, o + 4) = b[o + 4]
  BY <1>2 DEF ByteAt
<1>6. U32At(b, o) = Value32(b[o + 1], b[o + 2], b[o + 3], b[o + 4])
  BY <1>5 DEF U32At, Value32
<1> QED
  BY <1>4, <1>6, ValueSplit

(* What was read is what would be written ...                                *)
LEMMA PutsRead32 ==
  ASSUME NEW b \in Seq(Byte), NEW o \in Nat, o + 4 <= Len(b)
  PROVE  \A i \in 1 .. 4 : b[o + i] = put_u32(U32At(b, o))[i]
<1>1. /\ b[o + 1] \in Byte /\ b[o + 2] \in Byte /\ b[o + 3] \in Byte /\ b[o + 4] \in Byte
      /\ U32At(b, o) = Value32(b[o + 1], b[o + 2], b[o + 3], b[o + 4])
  BY ReadIs
<1>2. put_u32(Value32(b[o + 1], b[o + 2], b[o + 3], b[o + 4]))
        = << b[o + 1], b[o + 2], b[o + 3], b[o + 4] >>
  BY <1>1, PutOfValue
<1> QED
  BY <1>1, <1>2

(* ... and what was written is what is read.                                 *)
LEMMA ReadsPut ==
  ASSUME NEW b \in Seq(Byte), NEW o \in Nat, o + 4 <= Len(b), NEW v \in Int,
         \A i \in 1 .. 4 : b[o + i] = put_u32(v)[i]
  PROVE  v = U32At(b, o) + U32Values * (v \div U32Values)
<1>1. PICK w, x, y, z \in Byte : /\ put_u32(v) = << w, x, y, z >>
                                 /\ v = Value32(w, x, y, z) + U32Values * (v \div U32Values)
  BY PutSplits
<1>2. w = b[o + 1] /\ x = b[o + 2] /\ y = b[o + 3] /\ z = b[o + 4]
  BY <1>1
<1> QED
  BY <1>1, <1>2, ReadIs

LEMMA ReadsPut32 ==
  ASSUME NEW b \in Seq(Byte), NEW o \in Nat, o + 4 <= Len(b), NEW v \in Nat, v < U32Values,
         \A i \in 1 .. 4 : b[o + i] = put_u32(v)[i]
  PROVE  U32At(b, o) = v
<1>1. v \div U32Values = 0
  BY RadixPositive
<1>2. v = U32At(b, o) + U32Values * 0
  BY <1>1, ReadsPut
<1> QED
  BY <1>2, RadixPositive, ReadIs

LEMMA Read64Is ==
  ASSUME NEW b \in Seq(Byte), NEW o \in Nat, o + 8 <= Len(b)
  PROVE  /\ U64At(b, o) \in 0 .. U64Values - 1
         /\ U32At(b, o) \in 0 .. U32Values - 1 /\ U32At(b, o + 4) \in 0 .. U32Values - 1
         /\ U64At(b, o) = U32At(b, o) + U32Values * U32At(b, o + 4)
<1> DEFINE a == U32At(b, o)
           c == U32At(b, o + 4)
           V == U32Values
<1>1. a \in 0 .. V - 1 /\ c \in 0 .. V - 1
  <2>1. o + 4 <= Len(b) /\ (o + 4) + 4 <= Len(b) /\ o + 4 \in Nat
    BY LenProperties
  <2> QED
    BY <2>1, ReadIs
<1>2. V \in Nat \ {0}
  BY RadixPositive
<1> HIDE DEF a, c, V
<1>3. V * c \in Nat /\ V * c + V <= V * V /\ V * V \in Nat
  <2>1. c + 1 <= V /\ c + 1 \in Nat
    BY <1>1, <1>2
  <2>2. V * (c + 1) <= V * V /\ V * (c + 1) = V * c + V * 1
    BY <1>1, <1>2, <2>1, Distributes
  <2> QED
    BY <1>1, <1>2, <2>2, NatProduct
<1>4. a + V * c \in 0 .. V * V - 1
  BY <1>1, <1>2, <1>3
<1> QED
  BY <1>1, <1>4 DEF U64At, U64Values, a, c, V

LEMMA PutsRead64 ==
  ASSUME NEW b \in Seq(Byte), NEW o \in Nat, o + 8 <= Len(b)
  PROVE  \A i \in 1 .. 8 : b[o + i] = put_u64(U64At(b, o))[i]
<1> DEFINE a == U32At(b, o)
           c == U32At(b, o + 4)
           u == U64At(b, o)
<1>1. a \in 0 .. U32Values - 1 /\ c \in 0 .. U32Values - 1 /\ u = a + U32Values * c
  BY Read64Is
<1>2. o + 4 <= Len(b) /\ (o + 4) + 4 <= Len(b) /\ o + 4 \in Nat
  BY LenProperties
<1>3. \A i \in 1 .. 4 : b[o + i] = put_u32(a)[i]
  BY <1>2, PutsRead32
<1>4. \A i \in 1 .. 4 : b[(o + 4) + i] = put_u32(c)[i]
  BY <1>2, PutsRead32
<1> HIDE DEF a, c, u
<1>5. put_u32(u) = put_u32(a) /\ u \div U32Values = c /\ u \in Int
  <2>1. U32Values \in Nat \ {0}
    BY RadixPositive
  <2>2. a \in Int /\ c \in Int /\ U32Values * c \in Int
    BY <1>1, <2>1, IntProduct
  <2>3. put_u32(a + U32Values * c) = put_u32(a)
    BY <2>2, PutPlus
  <2>4. (a + U32Values * c) \div U32Values = c
    BY <1>1, <2>1, <2>2, DivModUnique
  <2> QED
    BY <1>1, <2>2, <2>3, <2>4
<1>b. \A i \in 1 .. 8 : put_u64(u)[i] = IF i <= 4 THEN put_u32(a)[i] ELSE put_u32(c)[i - 4]
  <2>1. \A i \in 1 .. 8 : put_u64(u)[i] = IF i <= 4 THEN put_u32(u)[i]
                                           ELSE put_u32(u \div U32Values)[i - 4]
    BY <1>5, PutType
  <2> QED
    BY <1>5, <2>1
<1>6. ASSUME NEW i \in 1 .. 8
      PROVE  b[o + i] = put_u64(u)[i]
  <2>1. CASE i <= 4
    BY <1>3, <1>b, <2>1
  <2>2. CASE ~(i <= 4)
    <3>1. i - 4 \in 1 .. 4 /\ (o + 4) + (i - 4) = o + i
      BY <2>2
    <3> QED
      BY <1>4, <1>b, <2>2, <3>1
  <2> QED
    BY <2>1, <2>2
<1> QED
  BY <1>6 DEF u

(* The positions of the upper half of eight bytes.                           *)
LEMMA UpperHalf ==
  \A o \in Nat, i \in 1 .. 4 :
    i + 4 \in 1 .. 8 /\ ~(i + 4 <= 4) /\ (i + 4) - 4 = i /\ o + (i + 4) = (o + 4) + i
  OBVIOUS

LEMMA ReadsPutAny64 ==
  ASSUME NEW b \in Seq(Byte), NEW o \in Nat, o + 8 <= Len(b), NEW v \in Int,
         \A i \in 1 .. 8 : b[o + i] = put_u64(v)[i]
  PROVE  \E k \in Int : v = U64At(b, o) + U64Values * k
<1> DEFINE a == U32At(b, o)
           c == U32At(b, o + 4)
           h == v \div U32Values
           k == h \div U32Values
<1>1. o + 4 <= Len(b) /\ (o + 4) + 4 <= Len(b) /\ o + 4 \in Nat
  BY LenProperties
<1>2. h \in Int /\ k \in Int
  <2>1. h \in Int
    BY RadixPositive, DivModIs
  <2> QED
    BY <2>1, RadixPositive, DivModIs
<1>q. \A i \in 1 .. 8 : put_u64(v)[i] = IF i <= 4 THEN put_u32(v)[i] ELSE put_u32(h)[i - 4]
  BY PutType
<1> HIDE DEF h, k
<1>p. \A i \in 1 .. 8 : b[o + i] = IF i <= 4 THEN put_u32(v)[i] ELSE put_u32(h)[i - 4]
  <2> TAKE i \in 1 .. 8
  <2>1. b[o + i] = put_u64(v)[i]
    OBVIOUS
  <2>2. put_u64(v)[i] = IF i <= 4 THEN put_u32(v)[i] ELSE put_u32(h)[i - 4]
    BY <1>q
  <2> QED
    BY <2>1, <2>2, Zenon
<1>3. \A i \in 1 .. 4 : b[o + i] = put_u32(v)[i]
  <2> TAKE i \in 1 .. 4
  <2>1. i \in 1 .. 8 /\ i <= 4
    OBVIOUS
  <2> QED
    BY <1>p, <2>1
<1>4. \A i \in 1 .. 4 : b[(o + 4) + i] = put_u32(h)[i]
  <2> TAKE i \in 1 .. 4
  <2>1. i + 4 \in 1 .. 8 /\ ~(i + 4 <= 4) /\ (i + 4) - 4 = i /\ o + (i + 4) = (o + 4) + i
    BY UpperHalf
  <2> QED
    BY <1>p, <2>1
<1>5. v = a + U32Values * h
  BY <1>1, <1>3, ReadsPut DEF h
<1>6. h = c + U32Values * k
  BY <1>1, <1>2, <1>4, ReadsPut DEF k
<1>7. U64At(b, o) = a + U32Values * c /\ a \in Int /\ c \in Int
  <2>1. U64At(b, o) = a + U32Values * c
    BY Read64Is
  <2>2. a \in 0 .. U32Values - 1 /\ c \in 0 .. U32Values - 1
    BY Read64Is
  <2> HIDE DEF a, c
  <2>3. a \in Int /\ c \in Int
    BY <2>2
  <2> QED
    BY <2>1, <2>3
<1>v. U32Values \in Int /\ U64Values \in Int
  BY RadixPositive
<1> HIDE DEF a, c
<1>8. U32Values * h = U32Values * c + U64Values * k
  <2>1. U32Values * k \in Int
    BY <1>2, <1>v, IntProduct
  <2>2. U32Values * (U32Values * k) = U64Values * k
    BY <1>2, <1>v, Associates DEF U64Values
  <2>3. U32Values * (c + U32Values * k) = U32Values * c + U32Values * (U32Values * k)
    BY <1>7, <1>v, <2>1, Distributes
  <2> QED
    BY <1>6, <2>2, <2>3
<1>9. v = U64At(b, o) + U64Values * k
  <2> DEFINE x == U32Values * c
             y == U64Values * k
  <2>1. x \in Int /\ y \in Int
    BY <1>2, <1>7, <1>v, IntProduct
  <2>2. v = a + (x + y) /\ U64At(b, o) = a + x
    BY <1>5, <1>7, <1>8
  <2> HIDE DEF x, y
  <2>3. v = U64At(b, o) + y
    BY <1>7, <2>1, <2>2
  <2> QED
    BY <2>3 DEF y
<1> QED
  BY <1>2, <1>9

LEMMA ReadsPut64 ==
  ASSUME NEW b \in Seq(Byte), NEW o \in Nat, o + 8 <= Len(b), NEW v \in Nat, v < U64Values,
         \A i \in 1 .. 8 : b[o + i] = put_u64(v)[i]
  PROVE  U64At(b, o) = v
<1> DEFINE u == U64At(b, o)
           V == U64Values
<1>0. v \in Int
  OBVIOUS
<1>1. PICK k \in Int : v = u + V * k
  BY <1>0, ReadsPutAny64
<1>2. u \in 0 .. V - 1 /\ V \in Nat \ {0} /\ v < V
  BY Read64Is, RadixPositive
<1> HIDE DEF u, V
<1>3. (u + V * k) \div V = k
  BY <1>2, DivModUnique
<1>4. v \div V = 0
  <2>1. v \in 0 .. V - 1
    BY <1>2
  <2> QED
    BY <1>2, <2>1, SmallDiv
<1>5. k = 0
  BY <1>1, <1>3, <1>4
<1>6. v = u
  BY <1>1, <1>2, <1>5
<1> QED
  BY <1>6 DEF u

(* A dimension, negative or not, survives.                                  *)
LEMMA ReadsPutSigned ==
  ASSUME NEW b \in Seq(Byte), NEW o \in Nat, o + 8 <= Len(b), NEW d \in Int,
         -U64Values <= 2 * d, 2 * d < U64Values,
         \A i \in 1 .. 8 : b[o + i] = put_u64(d)[i]
  PROVE  Signed(U64At(b, o)) = d
<1> DEFINE u == U64At(b, o)
           V == U64Values
<1>1. PICK k \in Int : d = u + V * k
  BY ReadsPutAny64
<1>2. u \in 0 .. V - 1 /\ V \in Nat \ {0}
  BY Read64Is, RadixPositive
<1>d. -V <= 2 * d /\ 2 * d < V
  OBVIOUS
<1> HIDE DEF u, V
<1>3. k = 0 \/ k = -1
  <2>1. CASE k >= 1
    <3> DEFINE y == V * k
    <3>1. y >= V /\ y \in Int /\ d = u + y
      BY <1>1, <1>2, <2>1
    <3> HIDE DEF y
    <3> QED
      BY <1>2, <1>d, <3>1
  <2>2. CASE k <= -2
    <3> DEFINE y == V * k
    <3>1. y <= V * (-2) /\ y \in Int /\ d = u + y
      BY <1>1, <1>2, <2>2
    <3>2. V * (-2) = -(2 * V)
      BY <1>2
    <3> HIDE DEF y
    <3> QED
      BY <1>2, <1>d, <3>1, <3>2
  <2> QED
    BY <2>1, <2>2
<1>4. CASE k = 0
  <2>1. d = u
    BY <1>1, <1>2, <1>4
  <2>2. 2 * u < V
    BY <1>d, <2>1
  <2> QED
    BY <2>1, <2>2 DEF Signed, u, V
<1>5. CASE k = -1
  <2>1. d = u - V
    BY <1>1, <1>2, <1>5
  <2>2. ~(2 * u < V)
    BY <1>2, <1>d, <2>1
  <2> QED
    BY <2>1, <2>2 DEF Signed, u, V
<1> QED
  BY <1>3, <1>4, <1>5

LEMMA PutSigned ==
  ASSUME NEW u \in Nat
  PROVE  put_u64(Signed(u)) = put_u64(u)
<1> DEFINE V == U32Values
           h == u \div V
           m == -V
           W == U64Values
<1>1. V \in Nat \ {0} /\ m \in Int /\ h \in Int
  <2>1. V \in Nat \ {0}
    BY RadixPositive
  <2> QED
    BY <2>1, DivModIs
<1>2. h + m = h + V * (-1)
  BY <1>1
<1>a. W = V * V
  BY DEF U64Values
<1>b. put_u64(u - W) = put_u32(u - W) \o put_u32((u - W) \div V)
  BY DEF put_u64
<1>c. put_u64(u) = put_u32(u) \o put_u32(h)
  BY DEF put_u64
<1>p. \A x, y \in Int : put_u32(x + V * y) = put_u32(x)
  BY PutPlus
<1> HIDE DEF V, W
<1>d. u - W = u + V * m
  BY <1>1, <1>a
<1> HIDE DEF h, m
<1>3. put_u32(u - W) = put_u32(u)
  <2>1. u \in Int
    OBVIOUS
  <2> QED
    BY <1>1, <1>d, <1>p, <2>1
<1>4. (u - W) \div V = h + m
  BY <1>1, <1>d, DivPlus DEF h
<1>5. put_u32(h + m) = put_u32(h)
  <2>1. -1 \in Int
    OBVIOUS
  <2> QED
    BY <1>1, <1>2, <1>p, <2>1
<1>6. put_u64(u - W) = put_u64(u)
  BY <1>3, <1>4, <1>5, <1>b, <1>c
<1> QED
  BY <1>6 DEF Signed, W

-----------------------------------------------------------------------------
(***************************************************************************)
(* The layout of a blob, by the points at which the decoder may stand.       *)
(***************************************************************************)

(* The first bytes of a record: up to its element size, its name, its rank   *)
(* and its k-th dimension.                                                  *)
Tags(r) == << r.dir % Radix, r.datatype % Radix >>
Sized(r) == Tags(r) \o put_u32(r.bytes_per_elem)
Named(r) == Sized(r) \o put_u32(Len(r.name)) \o r.name
Ranked(r, m) == Named(r) \o put_u32(m)
DimBytes(dims, k) == FlattenSeq([a \in 1 .. k |-> put_u64(dims[a])])
Dimmed(r, m, k) == Ranked(r, m) \o DimBytes(r.dims, k)

(* The header of a blob of k records, followed by the records l.             *)
Records(l) == FlattenSeq([i \in DOMAIN l |-> PackIO(l[i])])
Preamble(k, l) == kMagic \o put_u32(k) \o Records(l)

LEMMA TagsType ==
  ASSUME NEW r \in IORecord
  PROVE  Tags(r) \in Seq(Byte) /\ Len(Tags(r)) = 2
<1>1. r.dir \in Nat /\ r.datatype \in Nat
  BY DEF IORecord
<1>a. \A v \in Nat : v % Radix \in Byte
  BY RadixPositive, DivModIs DEF Byte
<1>2. r.dir % Radix \in Byte /\ r.datatype % Radix \in Byte
  BY <1>1, <1>a
<1> QED
  BY <1>2 DEF Tags

LEMMA SizedType ==
  ASSUME NEW r \in IORecord
  PROVE  Sized(r) \in Seq(Byte)
<1>1. r.bytes_per_elem \in Int
  BY DEF IORecord
<1>2. put_u32(r.bytes_per_elem) \in Seq(Byte)
  BY <1>1, PutType
<1> QED
  BY <1>2, TagsType, ConcatProperties DEF Sized

LEMMA NamedType ==
  ASSUME NEW r \in IORecord
  PROVE  /\ r.name \in Seq(Byte) /\ Sized(r) \o put_u32(Len(r.name)) \in Seq(Byte)
         /\ Named(r) \in Seq(Byte)
<1>1. r.name \in Seq(Byte) /\ Len(r.name) \in Int
  BY LenProperties DEF IORecord
<1>2. put_u32(Len(r.name)) \in Seq(Byte)
  BY <1>1, PutType
<1>3. Sized(r) \o put_u32(Len(r.name)) \in Seq(Byte)
  BY <1>2, SizedType, ConcatProperties
<1> QED
  BY <1>1, <1>3, ConcatProperties DEF Named

LEMMA RankedType ==
  ASSUME NEW r \in IORecord, NEW m \in Int
  PROVE  Ranked(r, m) \in Seq(Byte)
<1>1. put_u32(m) \in Seq(Byte)
  BY PutType
<1> QED
  BY <1>1, NamedType, ConcatProperties DEF Ranked

LEMMA DimPieces ==
  ASSUME NEW dims \in Seq(Int), NEW k \in Nat, k <= Len(dims)
  PROVE  /\ [a \in 1 .. k |-> put_u64(dims[a])] \in Seq(Seq(Byte))
         /\ Len([a \in 1 .. k |-> put_u64(dims[a])]) = k
         /\ DimBytes(dims, k) \in Seq(Byte)
<1> DEFINE f == [a \in 1 .. k |-> put_u64(dims[a])]
<1>1. ASSUME NEW a \in 1 .. k
      PROVE  put_u64(dims[a]) \in Seq(Byte)
  <2>1. a \in 1 .. Len(dims)
    BY LenProperties
  <2>2. dims[a] \in Int
    BY <2>1, ElementOfSeq
  <2> QED
    BY <2>2, PutType
<1>2. f \in Seq(Seq(Byte)) /\ Len(f) = k
  BY <1>1
<1> HIDE DEF f
<1>3. FlattenSeq(f) \in Seq(Byte)
  BY <1>2, FlattenType
<1> QED
  BY <1>2, <1>3 DEF DimBytes, f

LEMMA DimBytesNone ==
  ASSUME NEW dims
  PROVE  DimBytes(dims, 0) = << >>
<1>1. [a \in 1 .. 0 |-> put_u64(dims[a])] = << >>
  OBVIOUS
<1> QED
  BY <1>1, FlattenEmpty DEF DimBytes

LEMMA DimBytesNext ==
  ASSUME NEW dims \in Seq(Int), NEW k \in Nat, k + 1 <= Len(dims)
  PROVE  DimBytes(dims, k + 1) = DimBytes(dims, k) \o put_u64(dims[k + 1])
<1> DEFINE f == [a \in 1 .. k |-> put_u64(dims[a])]
           g == [a \in 1 .. k + 1 |-> put_u64(dims[a])]
           x == put_u64(dims[k + 1])
<1>1. Len(dims) \in Nat /\ k <= Len(dims) /\ k + 1 \in Nat
  BY LenProperties
<1>2. f \in Seq(Seq(Byte)) /\ Len(f) = k /\ g \in Seq(Seq(Byte)) /\ Len(g) = k + 1
  BY <1>1, DimPieces
<1>3. \A i \in 1 .. k + 1 : g[i] = IF i = k + 1 THEN x ELSE f[i]
  OBVIOUS
<1>4. x \in Seq(Byte)
  <2>1. g[k + 1] = x /\ k + 1 \in 1 .. k + 1
    OBVIOUS
  <2> HIDE DEF g, x
  <2> QED
    BY <1>2, <2>1, ElementOfSeq
<1>5. DimBytes(dims, k) = FlattenSeq(f) /\ DimBytes(dims, k + 1) = FlattenSeq(g)
  BY DEF DimBytes
<1> HIDE DEF f, g, x
<1>6. /\ Append(f, x) \in Seq(Seq(Byte)) /\ Len(Append(f, x)) = k + 1
      /\ \A i \in 1 .. k : Append(f, x)[i] = f[i]
      /\ Append(f, x)[k + 1] = x
  BY <1>2, <1>4, AppendProperties
<1>7. \A i \in 1 .. k + 1 : Append(f, x)[i] = g[i]
  BY <1>3, <1>6
<1>8. g = Append(f, x)
  BY <1>2, <1>6, <1>7, SeqEqual
<1> QED
  BY <1>2, <1>4, <1>5, <1>8, FlattenAppend DEF x

(* A dimension that is not among the first k does not show in them.          *)
LEMMA DimBytesKeep ==
  ASSUME NEW c, NEW d, NEW k \in Nat, \A a \in 1 .. k : c[a] = d[a]
  PROVE  DimBytes(c, k) = DimBytes(d, k)
<1>1. [a \in 1 .. k |-> put_u64(c[a])] = [a \in 1 .. k |-> put_u64(d[a])]
  OBVIOUS
<1> QED
  BY <1>1 DEF DimBytes

LEMMA DimmedType ==
  ASSUME NEW r \in IORecord, NEW m \in Int, NEW k \in Nat, k <= Len(r.dims)
  PROVE  Dimmed(r, m, k) \in Seq(Byte)
<1>1. r.dims \in Seq(Int)
  BY DEF IORecord
<1>2. DimBytes(r.dims, k) \in Seq(Byte)
  BY <1>1, DimPieces
<1> QED
  BY <1>2, RankedType, ConcatProperties DEF Dimmed

LEMMA PackIOIs ==
  ASSUME NEW r \in IORecord
  PROVE  PackIO(r) = Dimmed(r, Len(r.dims), Len(r.dims)) /\ PackIO(r) \in Seq(Byte)
<1>1. r.dims \in Seq(Int) /\ Len(r.dims) \in Nat /\ DOMAIN r.dims = 1 .. Len(r.dims)
  BY LenProperties DEF IORecord
<1>2. PackIO(r) = Dimmed(r, Len(r.dims), Len(r.dims))
  BY <1>1 DEF PackIO, Dimmed, Ranked, Named, Sized, Tags, DimBytes
<1> QED
  BY <1>1, <1>2, DimmedType

LEMMA RecordPieces ==
  ASSUME NEW l \in Seq(IORecord)
  PROVE  /\ [i \in DOMAIN l |-> PackIO(l[i])] \in Seq(Seq(Byte))
         /\ Len([i \in DOMAIN l |-> PackIO(l[i])]) = Len(l)
         /\ Records(l) \in Seq(Byte)
<1> DEFINE f == [i \in DOMAIN l |-> PackIO(l[i])]
<1>1. Len(l) \in Nat /\ DOMAIN l = 1 .. Len(l)
  BY LenProperties
<1>2. ASSUME NEW i \in 1 .. Len(l)
      PROVE  PackIO(l[i]) \in Seq(Byte)
  <2>1. l[i] \in IORecord
    BY ElementOfSeq
  <2> QED
    BY <2>1, PackIOIs
<1>3. f \in Seq(Seq(Byte)) /\ Len(f) = Len(l)
  BY <1>1, <1>2
<1> HIDE DEF f
<1>4. FlattenSeq(f) \in Seq(Byte)
  BY <1>3, FlattenType
<1> QED
  BY <1>3, <1>4 DEF Records, f

LEMMA RecordsNone == Records(<< >>) = << >>
<1>1. [i \in DOMAIN << >> |-> PackIO(<< >>[i])] = << >>
  OBVIOUS
<1> QED
  BY <1>1, FlattenEmpty DEF Records

LEMMA RecordsNext ==
  ASSUME NEW l \in Seq(IORecord), NEW r \in IORecord
  PROVE  Records(Append(l, r)) = Records(l) \o PackIO(r)
<1> DEFINE t == Append(l, r)
           f == [i \in DOMAIN l |-> PackIO(l[i])]
           g == [i \in DOMAIN t |-> PackIO(t[i])]
           x == PackIO(r)
           k == Len(l)
<1>1. /\ k \in Nat /\ DOMAIN l = 1 .. k
      /\ t \in Seq(IORecord) /\ Len(t) = k + 1 /\ t[k + 1] = r
      /\ \A i \in 1 .. k : t[i] = l[i]
  BY LenProperties, AppendProperties
<1> HIDE DEF t
<1>2. DOMAIN t = 1 .. k + 1
  BY <1>1, LenProperties
<1>3. f \in Seq(Seq(Byte)) /\ Len(f) = k /\ g \in Seq(Seq(Byte)) /\ Len(g) = k + 1
  BY <1>1, RecordPieces
<1>4. x \in Seq(Byte)
  BY PackIOIs
<1>5. \A i \in 1 .. k + 1 : g[i] = IF i = k + 1 THEN x ELSE f[i]
  BY <1>1, <1>2
<1>6. Records(l) = FlattenSeq(f) /\ Records(t) = FlattenSeq(g)
  BY DEF Records
<1> HIDE DEF f, g, x, k
<1>7. /\ Append(f, x) \in Seq(Seq(Byte)) /\ Len(Append(f, x)) = k + 1
      /\ \A i \in 1 .. k : Append(f, x)[i] = f[i]
      /\ Append(f, x)[k + 1] = x
  BY <1>3, <1>4, AppendProperties
<1>8. \A i \in 1 .. k + 1 : Append(f, x)[i] = g[i]
  BY <1>1, <1>5, <1>7
<1>9. g = Append(f, x)
  BY <1>3, <1>7, <1>8, SeqEqual
<1> QED
  BY <1>3, <1>4, <1>6, <1>9, FlattenAppend DEF x, t

LEMMA PreambleType ==
  ASSUME NEW k \in Int, NEW l \in Seq(IORecord)
  PROVE  kMagic \o put_u32(k) \in Seq(Byte) /\ Preamble(k, l) \in Seq(Byte)
<1>1. kMagic \o put_u32(k) \in Seq(Byte)
  BY MagicAssumption, PutType, ConcatProperties
<1> QED
  BY <1>1, RecordPieces, ConcatProperties DEF Preamble

LEMMA BytesAssociate ==
  \A a, b, c \in Seq(Byte) : (a \o b) \o c = a \o (b \o c)
  BY ConcatAssociative

LEMMA BytesExtend ==
  \A s, x, S \in Seq(Byte) :
    IsPrefix(s \o x, S) => /\ Len(s) + Len(x) <= Len(S)
                           /\ \A i \in 1 .. Len(x) : S[Len(s) + i] = x[i]
<1> TAKE s, x, S \in Seq(Byte)
<1> QED
  BY PrefixExtend

(* A position: the bytes of the blob before it are s.                        *)
At(s, o, b) == s \in Seq(Byte) /\ o = Len(s) /\ IsPrefix(s, b)

LEMMA Consume ==
  ASSUME NEW b \in Seq(Byte), NEW s, NEW o, At(s, o, b), NEW x \in Seq(Byte),
         o + Len(x) <= Len(b), \A i \in 1 .. Len(x) : b[o + i] = x[i]
  PROVE  At(s \o x, o + Len(x), b)
<1>1. s \in Seq(Byte) /\ o = Len(s) /\ IsPrefix(s, b)
  BY DEF At
<1>2. s \o x \in Seq(Byte) /\ Len(s \o x) = Len(s) + Len(x)
  BY <1>1, ConcatProperties
<1>3. IsPrefix(s \o x, b)
  BY <1>1, PrefixExtend
<1> QED
  BY <1>1, <1>2, <1>3 DEF At

(* The same where s ends with p.                                            *)
LEMMA ConsumePiece ==
  ASSUME NEW b \in Seq(Byte), NEW s \in Seq(Byte), NEW p \in Seq(Byte), NEW o,
         At(s \o p, o, b), NEW x \in Seq(Byte),
         o + Len(x) <= Len(b), \A i \in 1 .. Len(x) : b[o + i] = x[i]
  PROVE  At(s \o (p \o x), o + Len(x), b)
<1>1. At((s \o p) \o x, o + Len(x), b)
  BY Consume
<1>2. (s \o p) \o x = s \o (p \o x)
  BY BytesAssociate
<1> QED
  BY <1>1, <1>2

-----------------------------------------------------------------------------
(***************************************************************************)
(* The decoder reads back what pack_blob writes.  While its flag is up, the  *)
(* bytes before its position are those of what it has decoded so far.        *)
(***************************************************************************)

Stages ==
  /\ pc \in {"stream", "magic", "n_io"} => ios = << >>
  /\ pc \in {"tags", "bpe", "name", "ndim", "dims"} => Len(ios) < n_io
  /\ pc \in {"mxr_len", "program"} => Len(ios) = n_io
  /\ pc = "dims" => Len(io.dims) = ndim
  /\ pc \in {"stream", "magic", "n_io", "program"} => ok
  /\ pc # "done" => engine = NoEngine /\ err = "none"

Positions ==
  ok => /\ pc = "n_io" => At(kMagic, off, blob)
        /\ pc \in {"tags", "mxr_len"} => At(Preamble(n_io, ios), off, blob)
        /\ pc = "bpe" => At(Preamble(n_io, ios) \o Tags(io), off, blob)
        /\ pc = "name" => At(Preamble(n_io, ios) \o Sized(io), off, blob)
        /\ pc = "ndim" => At(Preamble(n_io, ios) \o Named(io), off, blob)
        /\ pc = "dims" => At(Preamble(n_io, ios) \o Dimmed(io, ndim, dimsRead), off, blob)
        /\ pc = "program" =>
             At(Preamble(n_io, ios) \o put_u64(U64At(blob, off - 8)), off, blob)

LEMMA StagesStep ==
  ASSUME TypeOK, Stages, [Next]_vars
  PROVE  Stages'
<1>0. Len(ios) \in Nat /\ n_io \in Nat /\ ndim \in Nat /\ get_u32 \in Nat
  BY GetsNat, LenProperties DEF TypeOK
<1>1. CASE ReadChunk
  BY <1>1 DEF Stages, ReadChunk
<1>2. CASE StopReading
  BY <1>2 DEF Stages, StopReading
<1>3. CASE CheckMagic
  BY <1>3 DEF Stages, CheckMagic, Refuse
<1>4. CASE ReadCount
  <2>1. CASE Corrupt
    BY <1>4, <2>1 DEF Stages, Corrupt, Refuse
  <2>2. CASE /\ n_io' = get_u32 /\ pc' = IF get_u32 = 0 THEN "mxr_len" ELSE "tags"
             /\ UNCHANGED << source, blob, ios, io, ndim, dimsRead, engine, err, alloc >>
    <3>1. Len(ios') = 0 /\ pc = "n_io"
      BY <1>4, <2>2, EmptySeq DEF Stages, ReadCount
    <3> QED
      BY <1>0, <2>2, <3>1 DEF Stages
  <2> QED
    BY <1>4, <2>1, <2>2 DEF ReadCount
<1>5. CASE ReadTags
  BY <1>5 DEF Stages, ReadTags, Corrupt, Refuse
<1>6. CASE ReadElemSize
  BY <1>6 DEF Stages, ReadElemSize
<1>7. CASE ReadName
  BY <1>7 DEF Stages, ReadName, Corrupt, Refuse
<1>8. CASE ReadRank
  <2>1. CASE Corrupt
    BY <1>8, <2>1 DEF Stages, Corrupt, Refuse
  <2>2. CASE /\ ndim' = get_u32 /\ io' = [io EXCEPT !.dims = [i \in 1 .. get_u32 |-> 0]]
             /\ pc' = "dims"
             /\ UNCHANGED << source, blob, n_io, ios, engine, err >>
    <3>1. Len(io'.dims) = ndim'
      BY <1>0, <2>2, ZeroSeq DEF TypeOK, IORecord
    <3> QED
      BY <1>8, <2>2, <3>1 DEF Stages, ReadRank
  <2> QED
    BY <1>8, <2>1, <2>2 DEF ReadRank
<1>9. CASE ReadDim
  <2>1. Len(io'.dims) = Len(io.dims)
    BY <1>9 DEF TypeOK, IORecord, ReadDim
  <2> QED
    BY <1>9, <2>1 DEF Stages, ReadDim
<1>10. CASE EndIO
  <2>1. Len(ios') = Len(ios) + 1
    BY <1>10, AppendProperties DEF TypeOK, EndIO
  <2> QED
    BY <1>0, <1>10, <2>1 DEF Stages, EndIO
<1>11. CASE ReadProgramLength
  BY <1>11 DEF Stages, ReadProgramLength, Corrupt, Refuse, Get, Need
<1>12. CASE LoadProgram
  BY <1>12 DEF Stages, LoadProgram
<1>13. CASE UNCHANGED vars
  BY <1>13 DEF Stages, vars
<1> QED
  BY <1>1, <1>2, <1>3, <1>4, <1>5, <1>6, <1>7, <1>8, <1>9, <1>10, <1>11, <1>12, <1>13
     DEF Next, Decode, Done

(* A get that leaves the flag up has read its bytes.                         *)
LEMMA GetRead ==
  ASSUME TypeOK, NEW k \in Nat, Get(k), ok'
  PROVE  ok /\ Need(k) /\ off' = off + k /\ off + k <= Len(blob)
<1>1. off' = off + k /\ ok' = ok /\ off + k <= Len(blob)
  BY GetMoves
<1>2. Need(k)
  BY DEF Get
<1> QED
  BY <1>1, <1>2

LEMMA NeedRead ==
  ASSUME TypeOK, NEW k \in Nat, Need(k)
  PROVE  ok /\ off + k <= Len(blob)
  BY LenProperties DEF TypeOK, Need, n

(* Reading an integer consumes what put_u32 or put_u64 writes for it.        *)
LEMMA Count32 ==
  ASSUME TypeOK, off + 4 <= Len(blob), Need(4)
  PROVE  /\ put_u32(get_u32) \in Seq(Byte) /\ Len(put_u32(get_u32)) = 4
         /\ \A i \in 1 .. 4 : blob[off + i] = put_u32(get_u32)[i]
<1>1. get_u32 = U32At(blob, off) /\ get_u32 \in Int
  BY GetsNat DEF TypeOK, get_u32
<1>2. \A i \in 1 .. 4 : blob[off + i] = put_u32(U32At(blob, off))[i]
  BY PutsRead32 DEF TypeOK
<1>3. put_u32(get_u32) \in Seq(Byte) /\ Len(put_u32(get_u32)) = 4
  BY <1>1, PutType
<1> QED
  BY <1>1, <1>2, <1>3

LEMMA Count64 ==
  ASSUME TypeOK, off + 8 <= Len(blob), Need(8)
  PROVE  /\ put_u64(get_u64) \in Seq(Byte) /\ Len(put_u64(get_u64)) = 8
         /\ \A i \in 1 .. 8 : blob[off + i] = put_u64(get_u64)[i]
<1>1. get_u64 = U64At(blob, off) /\ get_u64 \in Int
  BY GetsNat DEF TypeOK, get_u64
<1>2. \A i \in 1 .. 8 : blob[off + i] = put_u64(U64At(blob, off))[i]
  BY PutsRead64 DEF TypeOK
<1>3. put_u64(get_u64) \in Seq(Byte) /\ Len(put_u64(get_u64)) = 8
  BY <1>1, PutType
<1> QED
  BY <1>1, <1>2, <1>3

LEMMA BytesAtIs ==
  ASSUME NEW b \in Seq(Byte), NEW o \in Nat, NEW k \in Nat, o + k <= Len(b)
  PROVE  /\ BytesAt(b, o, k) \in Seq(Byte) /\ Len(BytesAt(b, o, k)) = k
         /\ \A i \in 1 .. k : b[o + i] = BytesAt(b, o, k)[i]
<1>1. \A i \in 1 .. k : o + i \in 1 .. Len(b)
  BY LenProperties
<1>2. \A i \in 1 .. k : ByteAt(b, o + i) = b[o + i]
  BY <1>1 DEF ByteAt
<1>3. BytesAt(b, o, k) \in Seq(Byte)
  BY BytesAtType
<1> QED
  BY <1>2, <1>3 DEF BytesAt

LEMMA MagicRead ==
  ASSUME TypeOK, Len(blob) >= Len(kMagic), SubSeq(blob, 1, Len(kMagic)) = kMagic
  PROVE  At(kMagic, Len(kMagic), blob)
<1>1. Len(kMagic) \in Nat /\ Len(blob) \in Nat
  BY MagicAssumption, LenProperties DEF TypeOK
<1>2. SubSeq(kMagic, 1, Len(kMagic)) = kMagic
  BY MagicAssumption, SubSeqFull
<1>3. IsPrefix(kMagic, blob)
  BY <1>1, <1>2 DEF IsPrefix
<1> QED
  BY <1>3, MagicAssumption DEF At

-----------------------------------------------------------------------------
(***************************************************************************)
(* Each read of the decoder moves its position past exactly the bytes that   *)
(* pack_blob writes for what it has read.                                    *)
(***************************************************************************)

LEMMA PositionAfterCount ==
  ASSUME TypeOK, Stages, Positions, ReadCount, pc' # "done"
  PROVE  At(Preamble(n_io', ios'), off', blob')
<1>1. /\ Need(4) /\ Get(4) /\ n_io' = get_u32 /\ blob' = blob /\ ios' = ios /\ pc = "n_io"
  BY DEF ReadCount, Corrupt, Refuse
<1>2. ok /\ off + 4 <= Len(blob) /\ off' = off + 4
  BY <1>1, NeedRead DEF Get
<1>3. At(kMagic, off, blob)
  BY <1>1, <1>2 DEF Positions
<1>4. At(kMagic \o put_u32(get_u32), off + 4, blob)
  <2>1. /\ put_u32(get_u32) \in Seq(Byte) /\ Len(put_u32(get_u32)) = 4
        /\ \A i \in 1 .. 4 : blob[off + i] = put_u32(get_u32)[i]
    BY <1>1, <1>2, Count32
  <2> QED
    BY <1>2, <1>3, <2>1, Consume DEF TypeOK
<1>5. Preamble(n_io', ios') = kMagic \o put_u32(get_u32)
  <2>1. ios' = << >>
    BY <1>1 DEF Stages
  <2>2. kMagic \o put_u32(get_u32) \in Seq(Byte)
    BY <1>4 DEF At
  <2> QED
    BY <1>1, <2>1, <2>2, RecordsNone, ConcatEmptySeq DEF Preamble
<1> QED
  BY <1>1, <1>2, <1>4, <1>5

LEMMA PositionAfterTags ==
  ASSUME TypeOK, Positions, ReadTags, pc' # "done"
  PROVE  At(Preamble(n_io', ios') \o Tags(io'), off', blob')
<1>1. /\ Need(2) /\ Get(2) /\ blob' = blob /\ ios' = ios /\ n_io' = n_io /\ pc = "tags"
      /\ io' = [NoIO EXCEPT !.dir = ByteAt(blob, off + 1), !.datatype = ByteAt(blob, off + 2)]
  BY DEF ReadTags, Corrupt, Refuse
<1>2. ok /\ off + 2 <= Len(blob) /\ off' = off + 2
  BY <1>1, NeedRead DEF Get
<1>3. At(Preamble(n_io, ios), off, blob)
  BY <1>1, <1>2 DEF Positions
<1>4. \A i \in 1 .. 2 : blob[off + i] \in Byte /\ ByteAt(blob, off + i) = blob[off + i]
  <2> TAKE i \in 1 .. 2
  <2>1. off + i \in 1 .. Len(blob)
    BY <1>2, LenProperties DEF TypeOK
  <2> QED
    BY <2>1, ElementOfSeq DEF ByteAt, TypeOK
<1>5. \A v \in Byte : v % Radix = v
  BY RadixPositive DEF Byte
<1>6. Tags(io') = << blob[off + 1], blob[off + 2] >>
  <2>1. io'.dir = blob[off + 1] /\ io'.datatype = blob[off + 2]
    BY <1>1, <1>4 DEF NoIO
  <2> QED
    BY <1>4, <1>5, <2>1 DEF Tags
<1>7. /\ Tags(io') \in Seq(Byte) /\ Len(Tags(io')) = 2
      /\ \A i \in 1 .. 2 : blob[off + i] = Tags(io')[i]
  BY <1>4, <1>6
<1>8. At(Preamble(n_io, ios) \o Tags(io'), off + 2, blob)
  BY <1>2, <1>3, <1>7, Consume DEF TypeOK
<1> QED
  BY <1>1, <1>2, <1>8

LEMMA PositionAfterElemSize ==
  ASSUME TypeOK, TypeOK', Positions, ReadElemSize, ok'
  PROVE  At(Preamble(n_io', ios') \o Sized(io'), off', blob')
<1>1. /\ Get(4) /\ blob' = blob /\ ios' = ios /\ n_io' = n_io /\ pc = "bpe"
      /\ io' = [io EXCEPT !.bytes_per_elem = get_u32]
  BY DEF ReadElemSize
<1>2. ok /\ Need(4) /\ off + 4 <= Len(blob) /\ off' = off + 4
  BY <1>1, GetRead
<1>3. At(Preamble(n_io, ios) \o Tags(io), off, blob)
  BY <1>1, <1>2 DEF Positions
<1>4. Tags(io') = Tags(io) /\ io'.bytes_per_elem = get_u32
  BY <1>1 DEF Tags, TypeOK, IORecord
<1>5. /\ put_u32(get_u32) \in Seq(Byte) /\ Len(put_u32(get_u32)) = 4
      /\ \A i \in 1 .. 4 : blob[off + i] = put_u32(get_u32)[i]
  BY <1>2, Count32
<1>6. Preamble(n_io, ios) \in Seq(Byte) /\ Tags(io) \in Seq(Byte)
  BY PreambleType, TagsType DEF TypeOK
<1>7. At(Preamble(n_io, ios) \o (Tags(io) \o put_u32(get_u32)), off + 4, blob)
  BY <1>2, <1>3, <1>5, <1>6, ConsumePiece DEF TypeOK
<1> QED
  BY <1>1, <1>2, <1>4, <1>7 DEF Sized

LEMMA PositionAfterName ==
  ASSUME TypeOK, TypeOK', Positions, ReadName, pc' # "done"
  PROVE  At(Preamble(n_io', ios') \o Named(io'), off', blob')
<1> DEFINE P == Preamble(n_io, ios)
           k == get_u32
           name == BytesAt(blob, off + 4, k)
<1>1. /\ Need(4) /\ Need(4 + k) /\ Get(4 + k) /\ pc = "name"
      /\ blob' = blob /\ ios' = ios /\ n_io' = n_io /\ io' = [io EXCEPT !.name = name]
  BY DEF ReadName, Corrupt, Refuse
<1>2. k \in Nat /\ 4 + k \in Nat
  BY GetsNat DEF TypeOK
<1>3. ok /\ off + 4 <= Len(blob) /\ off + (4 + k) <= Len(blob) /\ off' = off + (4 + k)
  BY <1>1, <1>2, NeedRead DEF Get
<1>4. At(P \o Sized(io), off, blob)
  BY <1>1, <1>3 DEF Positions
<1>5. Sized(io') = Sized(io) /\ io'.name = name
  BY <1>1 DEF Sized, Tags, TypeOK, IORecord
<1>6. /\ put_u32(k) \in Seq(Byte) /\ Len(put_u32(k)) = 4
      /\ \A i \in 1 .. 4 : blob[off + i] = put_u32(k)[i]
  BY <1>1, <1>3, Count32
<1>7. P \in Seq(Byte) /\ Sized(io) \in Seq(Byte) /\ Sized(io) \o put_u32(k) \in Seq(Byte)
  <2>1. P \in Seq(Byte) /\ Sized(io) \in Seq(Byte)
    <3>1. n_io \in Int /\ ios \in Seq(IORecord) /\ io \in IORecord
      BY DEF TypeOK
    <3> QED
      BY <3>1, PreambleType, SizedType
  <2> QED
    BY <1>6, <2>1, ConcatProperties
<1>o. off + 4 \in Nat /\ (off + 4) + k <= Len(blob) /\ off' = (off + 4) + k
  BY <1>2, <1>3, LenProperties DEF TypeOK
<1>8. /\ name \in Seq(Byte) /\ Len(name) = k
      /\ \A i \in 1 .. k : blob[(off + 4) + i] = name[i]
  BY <1>2, <1>o, BytesAtIs DEF TypeOK
<1> HIDE DEF P, k, name
<1>9. At(P \o (Sized(io) \o put_u32(k)), off + 4, blob)
  BY <1>3, <1>4, <1>6, <1>7, ConsumePiece DEF TypeOK
<1>10. At(P \o ((Sized(io) \o put_u32(k)) \o name), (off + 4) + k, blob)
  BY <1>o, <1>7, <1>8, <1>9, ConsumePiece DEF TypeOK
<1>11. Named(io') = (Sized(io) \o put_u32(k)) \o name
  BY <1>5, <1>8 DEF Named
<1> QED
  BY <1>1, <1>o, <1>10, <1>11 DEF P

LEMMA PositionAfterRank ==
  ASSUME TypeOK, TypeOK', Positions, ReadRank, pc' # "done"
  PROVE  At(Preamble(n_io', ios') \o Dimmed(io', ndim', dimsRead'), off', blob')
<1> DEFINE P == Preamble(n_io, ios)
           k == get_u32
<1>1. /\ Need(4) /\ Get(4) /\ pc = "ndim" /\ blob' = blob /\ ios' = ios /\ n_io' = n_io
      /\ ndim' = k /\ dimsRead' = 0 /\ io' = [io EXCEPT !.dims = [i \in 1 .. k |-> 0]]
  BY DEF ReadRank, Corrupt, Refuse
<1>2. ok /\ off + 4 <= Len(blob) /\ off' = off + 4
  BY <1>1, NeedRead DEF Get
<1>3. At(P \o Named(io), off, blob)
  BY <1>1, <1>2 DEF Positions
<1>4. Named(io') = Named(io)
  BY <1>1 DEF Named, Sized, Tags, TypeOK, IORecord
<1>5. /\ put_u32(k) \in Seq(Byte) /\ Len(put_u32(k)) = 4
      /\ \A i \in 1 .. 4 : blob[off + i] = put_u32(k)[i]
  BY <1>1, <1>2, Count32
<1>6. P \in Seq(Byte) /\ Named(io) \in Seq(Byte)
  BY PreambleType, NamedType DEF TypeOK
<1> HIDE DEF P, k
<1>7. At(P \o (Named(io) \o put_u32(k)), off + 4, blob)
  BY <1>2, <1>3, <1>5, <1>6, ConsumePiece DEF TypeOK
<1>8. Ranked(io', ndim') = Named(io) \o put_u32(k) /\ Ranked(io', ndim') \in Seq(Byte)
  BY <1>1, <1>4, <1>5, <1>6, ConcatProperties DEF Ranked
<1>9. Dimmed(io', ndim', dimsRead') = Named(io) \o put_u32(k)
  BY <1>1, <1>8, DimBytesNone, ConcatEmptySeq DEF Dimmed
<1> QED
  BY <1>1, <1>2, <1>7, <1>9 DEF P

LEMMA PositionAfterDim ==
  ASSUME TypeOK, TypeOK', Stages, Positions, ReadDim, ok'
  PROVE  At(Preamble(n_io', ios') \o Dimmed(io', ndim', dimsRead'), off', blob')
<1> DEFINE P == Preamble(n_io, ios)
           k == dimsRead
           R == Dimmed(io, ndim, k)
<1>1. /\ Get(8) /\ pc = "dims" /\ k < ndim
      /\ blob' = blob /\ ios' = ios /\ n_io' = n_io /\ ndim' = ndim /\ dimsRead' = k + 1
      /\ io' = [io EXCEPT !.dims[k + 1] = Signed(get_u64)]
  BY DEF ReadDim
<1>2. ok /\ Need(8) /\ off + 8 <= Len(blob) /\ off' = off + 8
  BY <1>1, GetRead
<1>3. At(P \o R, off, blob)
  BY <1>1, <1>2 DEF Positions
<1>4. /\ io.dims \in Seq(Int) /\ Len(io.dims) = ndim /\ k \in Nat /\ ndim \in Nat
      /\ io'.dims \in Seq(Int)
  BY <1>1 DEF TypeOK, IORecord, Stages
<1>5. /\ io'.dims = [io.dims EXCEPT ![k + 1] = Signed(get_u64)]
      /\ Ranked(io', ndim) = Ranked(io, ndim)
  BY <1>1 DEF Ranked, Named, Sized, Tags, TypeOK, IORecord
<1>6. /\ Len(io'.dims) = ndim /\ io'.dims[k + 1] = Signed(get_u64)
      /\ \A a \in 1 .. k : io'.dims[a] = io.dims[a]
  <2>1. k + 1 \in 1 .. Len(io.dims)
    BY <1>1, <1>4
  <2>2. Signed(get_u64) \in Int
    BY GetsNat, SignedInt DEF TypeOK
  <2>3. /\ Len(io'.dims) = Len(io.dims)
        /\ \A j \in 1 .. Len(io.dims) :
             io'.dims[j] = IF j = k + 1 THEN Signed(get_u64) ELSE io.dims[j]
    BY <1>4, <1>5, <2>1, <2>2, ExceptSeq
  <2> QED
    BY <1>4, <2>1, <2>3
<1>7. put_u64(Signed(get_u64)) = put_u64(get_u64)
  BY GetsNat, PutSigned DEF TypeOK
<1>8. DimBytes(io'.dims, k + 1) = DimBytes(io.dims, k) \o put_u64(get_u64)
  <2>1. k + 1 <= Len(io'.dims)
    BY <1>1, <1>4, <1>6
  <2>2. DimBytes(io'.dims, k + 1) = DimBytes(io'.dims, k) \o put_u64(io'.dims[k + 1])
    BY <1>4, <2>1, DimBytesNext
  <2>3. DimBytes(io'.dims, k) = DimBytes(io.dims, k)
    BY <1>4, <1>6, DimBytesKeep
  <2> QED
    BY <1>6, <1>7, <2>2, <2>3
<1>9. /\ put_u64(get_u64) \in Seq(Byte) /\ Len(put_u64(get_u64)) = 8
      /\ \A i \in 1 .. 8 : blob[off + i] = put_u64(get_u64)[i]
  BY <1>2, Count64
<1>10. /\ P \in Seq(Byte) /\ R \in Seq(Byte)
       /\ Ranked(io, ndim) \in Seq(Byte) /\ DimBytes(io.dims, k) \in Seq(Byte)
  <2>1. k <= Len(io.dims)
    BY <1>1, <1>4
  <2>2. io \in IORecord /\ n_io \in Int /\ ios \in Seq(IORecord) /\ ndim \in Int
    BY DEF TypeOK
  <2> QED
    BY <1>4, <2>1, <2>2, PreambleType, DimmedType, RankedType, DimPieces
<1>11. Dimmed(io', ndim, k + 1) = R \o put_u64(get_u64)
  <2> DEFINE A == Ranked(io, ndim)
             B == DimBytes(io.dims, k)
             X == put_u64(get_u64)
  <2>1. A \in Seq(Byte) /\ B \in Seq(Byte) /\ X \in Seq(Byte)
    BY <1>9, <1>10
  <2>2. Dimmed(io', ndim, k + 1) = A \o (B \o X) /\ R = A \o B
    BY <1>5, <1>8 DEF Dimmed
  <2> HIDE DEF A, B, X, R
  <2>3. (A \o B) \o X = A \o (B \o X)
    BY <2>1, ConcatAssociative
  <2> QED
    BY <2>2, <2>3 DEF X
<1> HIDE DEF P, R, k
<1>12. At(P \o (R \o put_u64(get_u64)), off + 8, blob)
  BY <1>2, <1>3, <1>9, <1>10, ConsumePiece DEF TypeOK
<1> QED
  BY <1>1, <1>2, <1>11, <1>12 DEF P

LEMMA PositionAfterIO ==
  ASSUME TypeOK, Stages, Positions, EndIO, ok
  PROVE  At(Preamble(n_io', ios'), off', blob')
<1>1. /\ pc = "dims" /\ dimsRead = ndim /\ ios' = Append(ios, io)
      /\ n_io' = n_io /\ off' = off /\ blob' = blob
  BY DEF EndIO
<1>2. At(Preamble(n_io, ios) \o Dimmed(io, ndim, dimsRead), off, blob)
  BY <1>1 DEF Positions
<1>3. Dimmed(io, ndim, dimsRead) = PackIO(io) /\ PackIO(io) \in Seq(Byte)
  BY <1>1, PackIOIs DEF TypeOK, Stages
<1>4. Preamble(n_io, Append(ios, io)) = Preamble(n_io, ios) \o PackIO(io)
  <2>1. Records(Append(ios, io)) = Records(ios) \o PackIO(io)
    BY RecordsNext DEF TypeOK
  <2> DEFINE A == kMagic \o put_u32(n_io)
             B == Records(ios)
             X == PackIO(io)
  <2>2. A \in Seq(Byte) /\ B \in Seq(Byte) /\ X \in Seq(Byte)
    <3>1. n_io \in Int /\ ios \in Seq(IORecord)
      BY DEF TypeOK
    <3> QED
      BY <1>3, <3>1, PreambleType, RecordPieces
  <2>3. Preamble(n_io, Append(ios, io)) = A \o (B \o X) /\ Preamble(n_io, ios) = A \o B
    BY <2>1 DEF Preamble
  <2> HIDE DEF A, B, X
  <2>4. (A \o B) \o X = A \o (B \o X)
    BY <2>2, ConcatAssociative
  <2> QED
    BY <2>3, <2>4 DEF X
<1> QED
  BY <1>1, <1>2, <1>3, <1>4

LEMMA PositionAfterLength ==
  ASSUME TypeOK, Positions, ReadProgramLength, pc' # "done"
  PROVE  At(Preamble(n_io', ios') \o put_u64(U64At(blob', off' - 8)), off', blob')
<1>1. /\ Need(8) /\ Get(8) /\ pc = "mxr_len" /\ blob' = blob /\ ios' = ios /\ n_io' = n_io
  BY DEF ReadProgramLength, Corrupt, Refuse
<1>2. ok /\ off + 8 <= Len(blob) /\ off' = off + 8
  BY <1>1, NeedRead DEF Get
<1>3. At(Preamble(n_io, ios), off, blob)
  BY <1>1, <1>2 DEF Positions
<1>4. /\ put_u64(get_u64) \in Seq(Byte) /\ Len(put_u64(get_u64)) = 8
      /\ \A i \in 1 .. 8 : blob[off + i] = put_u64(get_u64)[i]
  BY <1>1, <1>2, Count64
<1>5. At(Preamble(n_io, ios) \o put_u64(get_u64), off + 8, blob)
  BY <1>2, <1>3, <1>4, Consume DEF TypeOK
<1>6. off' - 8 = off /\ get_u64 = U64At(blob, off)
  BY <1>1, <1>2 DEF TypeOK, get_u64
<1> QED
  BY <1>1, <1>2, <1>5, <1>6

LEMMA PositionsStep ==
  ASSUME TypeOK, TypeOK', Stages, Positions, [Next]_vars
  PROVE  Positions'
<1>1. CASE pc' \in {"stream", "magic", "done"}
  BY <1>1 DEF Positions
<1>2. CASE ReadChunk \/ StopReading \/ LoadProgram
  BY <1>1, <1>2 DEF ReadChunk, StopReading, LoadProgram
<1>3. CASE CheckMagic /\ pc' # "done"
  <2>1. /\ Len(blob) >= Len(kMagic) /\ SubSeq(blob, 1, Len(kMagic)) = kMagic
        /\ off' = Len(kMagic) /\ pc' = "n_io" /\ blob' = blob
    BY <1>3, MagicAssumption, LenProperties DEF CheckMagic, Refuse, n, TypeOK
  <2> QED
    BY <2>1, MagicRead DEF Positions
<1>4. CASE ReadCount /\ pc' # "done"
  <2>1. pc' \in {"tags", "mxr_len"}
    BY <1>4 DEF ReadCount, Corrupt, Refuse
  <2> QED
    BY <1>4, <2>1, PositionAfterCount DEF Positions
<1>5. CASE ReadTags /\ pc' # "done"
  <2>1. pc' = "bpe"
    BY <1>5 DEF ReadTags, Corrupt, Refuse
  <2> QED
    BY <1>5, <2>1, PositionAfterTags DEF Positions
<1>6. CASE ReadElemSize
  <2>1. pc' = "name"
    BY <1>6 DEF ReadElemSize
  <2> QED
    BY <1>6, <2>1, PositionAfterElemSize DEF Positions
<1>7. CASE ReadName /\ pc' # "done"
  <2>1. pc' = "ndim"
    BY <1>7 DEF ReadName, Corrupt, Refuse
  <2> QED
    BY <1>7, <2>1, PositionAfterName DEF Positions
<1>8. CASE ReadRank /\ pc' # "done"
  <2>1. pc' = "dims"
    BY <1>8 DEF ReadRank, Corrupt, Refuse
  <2> QED
    BY <1>8, <2>1, PositionAfterRank DEF Positions
<1>9. CASE ReadDim
  <2>1. pc' = "dims"
    BY <1>9 DEF ReadDim
  <2> QED
    BY <1>9, <2>1, PositionAfterDim DEF Positions
<1>10. CASE EndIO
  <2>1. pc' \in {"tags", "mxr_len"} /\ ok' = ok
    BY <1>10 DEF EndIO
  <2> QED
    BY <1>10, <2>1, PositionAfterIO DEF Positions
<1>11. CASE ReadProgramLength /\ pc' # "done"
  <2>1. pc' = "program"
    BY <1>11 DEF ReadProgramLength, Corrupt, Refuse
  <2> QED
    BY <1>11, <2>1, PositionAfterLength DEF Positions
<1>12. CASE UNCHANGED vars
  BY <1>12 DEF Positions, vars
<1> QED
  BY <1>1, <1>2, <1>3, <1>4, <1>5, <1>6, <1>7, <1>8, <1>9, <1>10, <1>11, <1>12
     DEF Next, Decode, Done

(* Accepting a blob completes what pack_blob writes for the engine.          *)
LEMMA AcceptStep ==
  ASSUME TypeOK, Bounds, Stages, Positions, AcceptedIsPacked, [Next]_vars
  PROVE  AcceptedIsPacked'
<1>1. CASE LoadProgram /\ engine' # NoEngine
  <2> DEFINE P == Preamble(n_io, ios)
             k == U64At(blob, off - 8)
             mxr == BytesAt(blob, off, k)
  <2>1. engine' = [ios |-> ios, mxr |-> mxr] /\ blob' = blob /\ pc = "program"
    BY <1>1 DEF LoadProgram
  <2>2. At(P \o put_u64(k), off, blob)
    BY <2>1 DEF Stages, Positions
  <2>3. off \in Nat /\ k \in Nat /\ off + k <= Len(blob) /\ blob \in Seq(Byte)
    BY <2>1, U64AtNat, LenProperties DEF TypeOK, Bounds
  <2>4. /\ mxr \in Seq(Byte) /\ Len(mxr) = k
        /\ \A i \in 1 .. k : blob[off + i] = mxr[i]
    BY <2>3, BytesAtIs
  <2>5. Len(ios) = n_io
    BY <2>1 DEF Stages
  <2> HIDE DEF k, mxr
  <2>6. At((P \o put_u64(k)) \o mxr, off + k, blob)
    BY <2>2, <2>3, <2>4, Consume
  <2>7. pack_blob(engine') = (P \o put_u64(k)) \o mxr
    BY <2>1, <2>4, <2>5 DEF pack_blob, Preamble, Records
  <2> QED
    BY <2>1, <2>6, <2>7 DEF AcceptedIsPacked, At
<1>2. CASE ~(LoadProgram /\ engine' # NoEngine)
  <2>1. CASE engine' = NoEngine
    BY <2>1 DEF AcceptedIsPacked
  <2>2. CASE engine' # NoEngine
    <3>1. engine' = engine /\ (blob' = blob \/ pc = "stream")
      BY <1>2, <2>2 DEF Next, Decode, Done, vars, ReadChunk, StopReading, CheckMagic, ReadCount,
           ReadTags, ReadElemSize, ReadName, ReadRank, ReadDim, EndIO, ReadProgramLength,
           Corrupt, Refuse
    <3>2. pc # "stream"
      BY <2>2, <3>1 DEF Stages
    <3> QED
      BY <3>1, <3>2 DEF AcceptedIsPacked
  <2> QED
    BY <2>1, <2>2
<1> QED
  BY <1>1, <1>2

-----------------------------------------------------------------------------
(***************************************************************************)
(* The layout of a packed engine: where each of its fields lies.             *)
(***************************************************************************)

LEMMA EngineType ==
  ASSUME NEW e \in Engines
  PROVE  /\ e.ios \in Seq(IORecord) /\ e.mxr \in Seq(Byte)
         /\ Len(e.ios) \in Nat /\ Len(e.ios) < U32Values
         /\ Len(e.mxr) \in Nat /\ Len(e.mxr) < U64Values
         /\ e = [ios |-> e.ios, mxr |-> e.mxr]
<1>1. Representable(e)
  BY EnginesAssumption
<1>2. /\ e \in [ios : Seq(IORecord), mxr : Seq(Byte)]
      /\ Len(e.ios) < U32Values /\ Len(e.mxr) < U64Values
  BY <1>1 DEF Representable
<1>3. e.ios \in Seq(IORecord) /\ e.mxr \in Seq(Byte) /\ e = [ios |-> e.ios, mxr |-> e.mxr]
  BY <1>2
<1> QED
  BY <1>2, <1>3, LenProperties

LEMMA RecordFits ==
  ASSUME NEW e \in Engines, NEW i \in 1 .. Len(e.ios)
  PROVE  /\ e.ios[i] \in IORecord
         /\ e.ios[i].dir \in Byte /\ e.ios[i].datatype \in Byte
         /\ e.ios[i].bytes_per_elem \in Nat /\ e.ios[i].bytes_per_elem < U32Values
         /\ e.ios[i].name \in Seq(Byte)
         /\ Len(e.ios[i].name) \in Nat /\ Len(e.ios[i].name) < U32Values
         /\ e.ios[i].dims \in Seq(Int)
         /\ Len(e.ios[i].dims) \in Nat /\ Len(e.ios[i].dims) < U32Values
         /\ \A a \in 1 .. Len(e.ios[i].dims) :
              /\ e.ios[i].dims[a] \in Int
              /\ -U64Values <= 2 * e.ios[i].dims[a] /\ 2 * e.ios[i].dims[a] < U64Values
<1> DEFINE c == e.ios[i]
<1>1. Representable(e)
  BY EnginesAssumption
<1>2. e.ios \in Seq(IORecord) /\ DOMAIN e.ios = 1 .. Len(e.ios)
  BY EngineType, LenProperties
<1>3. c \in IORecord
  BY <1>2, ElementOfSeq
<1>4. /\ c.dir \in Byte /\ c.datatype \in Byte
      /\ c.bytes_per_elem < U32Values
      /\ Len(c.name) < U32Values /\ Len(c.dims) < U32Values
      /\ \A a \in DOMAIN c.dims : -U64Values <= 2 * c.dims[a] /\ 2 * c.dims[a] < U64Values
  BY <1>1, <1>2 DEF Representable
<1> HIDE DEF c
<1>5. c.bytes_per_elem \in Nat /\ c.name \in Seq(Byte) /\ c.dims \in Seq(Int)
  BY <1>3 DEF IORecord
<1>6. /\ Len(c.name) \in Nat /\ Len(c.dims) \in Nat /\ DOMAIN c.dims = 1 .. Len(c.dims)
      /\ \A a \in 1 .. Len(c.dims) : c.dims[a] \in Int
  BY <1>5, LenProperties, ElementOfSeq
<1> QED
  BY <1>3, <1>4, <1>5, <1>6 DEF c

LEMMA PackedType ==
  ASSUME NEW e \in Engines
  PROVE  /\ pack_blob(e) \in Seq(Byte) /\ Len(pack_blob(e)) \in Nat
         /\ Preamble(Len(e.ios), e.ios) \in Seq(Byte)
         /\ put_u64(Len(e.mxr)) \in Seq(Byte)
         /\ Preamble(Len(e.ios), e.ios) \o put_u64(Len(e.mxr)) \in Seq(Byte)
         /\ IsPrefix(Preamble(Len(e.ios), e.ios), pack_blob(e))
         /\ IsPrefix(Preamble(Len(e.ios), e.ios) \o put_u64(Len(e.mxr)), pack_blob(e))
         /\ Len(pack_blob(e))
              = Len(Preamble(Len(e.ios), e.ios) \o put_u64(Len(e.mxr))) + Len(e.mxr)
         /\ pack_blob(e) = (Preamble(Len(e.ios), e.ios) \o put_u64(Len(e.mxr))) \o e.mxr
<1> DEFINE P == Preamble(Len(e.ios), e.ios)
           L == put_u64(Len(e.mxr))
<1>1. P \in Seq(Byte) /\ L \in Seq(Byte) /\ e.mxr \in Seq(Byte)
  <2>1. /\ e.ios \in Seq(IORecord) /\ Len(e.ios) \in Int
        /\ e.mxr \in Seq(Byte) /\ Len(e.mxr) \in Int
    BY EngineType
  <2> QED
    BY <2>1, PreambleType, PutType
<1>2. pack_blob(e) = (P \o L) \o e.mxr
  BY DEF pack_blob, Preamble, Records
<1> HIDE DEF P, L
<1>3. P \o L \in Seq(Byte) /\ IsPrefix(P, P \o L)
  BY <1>1, PrefixOfConcat
<1>4. /\ pack_blob(e) \in Seq(Byte) /\ IsPrefix(P \o L, pack_blob(e))
      /\ Len(pack_blob(e)) = Len(P \o L) + Len(e.mxr)
  BY <1>1, <1>2, <1>3, PrefixOfConcat, ConcatProperties
<1>5. IsPrefix(P, pack_blob(e))
  BY <1>1, <1>3, <1>4, PrefixTransitive
<1>6. Len(pack_blob(e)) \in Nat
  BY <1>4, LenProperties
<1> QED
  BY <1>1, <1>2, <1>3, <1>4, <1>5, <1>6 DEF P, L

(* The header, and the first records with the next one, start the blob.      *)
LEMMA HeaderStarts ==
  ASSUME NEW e \in Engines
  PROVE  /\ IsPrefix(kMagic, pack_blob(e))
         /\ IsPrefix(kMagic \o put_u32(Len(e.ios)), pack_blob(e))
<1> DEFINE H == kMagic \o put_u32(Len(e.ios))
<1>1. H \in Seq(Byte) /\ Records(e.ios) \in Seq(Byte) /\ put_u32(Len(e.ios)) \in Seq(Byte)
  <2>1. e.ios \in Seq(IORecord) /\ Len(e.ios) \in Int
    BY EngineType
  <2> QED
    BY <2>1, PreambleType, RecordPieces, PutType
<1>2. IsPrefix(kMagic, H)
  BY <1>1, MagicAssumption, PrefixOfConcat
<1>3. IsPrefix(H, Preamble(Len(e.ios), e.ios))
  BY <1>1, PrefixOfConcat DEF Preamble
<1> HIDE DEF H
<1>4. IsPrefix(H, pack_blob(e))
  BY <1>1, <1>3, PackedType, PrefixTransitive
<1>5. IsPrefix(kMagic, pack_blob(e))
  BY <1>1, <1>2, <1>4, MagicAssumption, PackedType, PrefixTransitive
<1> QED
  BY <1>4, <1>5 DEF H

LEMMA RecordsPrefix ==
  ASSUME NEW l \in Seq(IORecord), NEW t \in Seq(IORecord), IsPrefix(l, t)
  PROVE  IsPrefix(Records(l), Records(t))
<1> DEFINE f == [i \in DOMAIN l |-> PackIO(l[i])]
           g == [i \in DOMAIN t |-> PackIO(t[i])]
<1>1. /\ f \in Seq(Seq(Byte)) /\ Len(f) = Len(l)
      /\ g \in Seq(Seq(Byte)) /\ Len(g) = Len(t)
  BY RecordPieces
<1>2. /\ DOMAIN l = 1 .. Len(l) /\ DOMAIN t = 1 .. Len(t)
      /\ Len(l) \in Nat /\ Len(t) \in Nat
  BY LenProperties
<1>3. Len(l) <= Len(t) /\ \A i \in 1 .. Len(l) : l[i] = t[i]
  BY PrefixPointwise
<1>4. \A i \in 1 .. Len(l) : f[i] = g[i]
  BY <1>2, <1>3
<1>5. Records(l) = FlattenSeq(f) /\ Records(t) = FlattenSeq(g)
  BY DEF Records
<1> HIDE DEF f, g
<1>6. IsPrefix(f, g)
  BY <1>1, <1>3, <1>4, PrefixPointwise
<1> QED
  BY <1>1, <1>5, <1>6, FlattenPrefix

LEMMA RecordStarts ==
  ASSUME NEW e \in Engines, NEW l \in Seq(IORecord),
         IsPrefix(l, e.ios), Len(l) < Len(e.ios)
  PROVE  /\ Preamble(Len(e.ios), l) \in Seq(Byte)
         /\ PackIO(e.ios[Len(l) + 1]) \in Seq(Byte)
         /\ Preamble(Len(e.ios), l) \o PackIO(e.ios[Len(l) + 1])
              = Preamble(Len(e.ios), Append(l, e.ios[Len(l) + 1]))
         /\ IsPrefix(Append(l, e.ios[Len(l) + 1]), e.ios)
         /\ IsPrefix(Preamble(Len(e.ios), l) \o PackIO(e.ios[Len(l) + 1]), pack_blob(e))
<1> DEFINE c == e.ios[Len(l) + 1]
           t == Append(l, c)
           H == kMagic \o put_u32(Len(e.ios))
           k == Len(e.ios)
<1>0. e.ios \in Seq(IORecord) /\ k \in Int /\ Len(l) \in Nat
  BY EngineType, LenProperties
<1>1. c \in IORecord
  <2>1. Len(l) + 1 \in 1 .. Len(e.ios)
    BY <1>0
  <2> QED
    BY <2>1, RecordFits
<1>2. /\ t \in Seq(IORecord) /\ Len(t) = Len(l) + 1 /\ t[Len(l) + 1] = c
      /\ \A i \in 1 .. Len(l) : t[i] = l[i]
  BY <1>1, AppendProperties
<1>3. \A i \in 1 .. Len(l) : l[i] = e.ios[i]
  BY <1>0, PrefixPointwise
<1>4. IsPrefix(t, e.ios)
  <2>1. \A i \in 1 .. Len(t) : t[i] = e.ios[i]
    BY <1>0, <1>2, <1>3
  <2>2. Len(t) <= Len(e.ios)
    BY <1>0, <1>2
  <2> QED
    BY <1>0, <1>2, <2>1, <2>2, PrefixPointwise
<1>5. H \in Seq(Byte) /\ Preamble(k, l) \in Seq(Byte) /\ Preamble(k, t) \in Seq(Byte)
  BY <1>0, <1>2, PreambleType
<1>6. Records(t) = Records(l) \o PackIO(c) /\ PackIO(c) \in Seq(Byte)
  BY <1>1, RecordsNext, PackIOIs
<1>7. Records(l) \in Seq(Byte) /\ Records(t) \in Seq(Byte) /\ Records(e.ios) \in Seq(Byte)
  BY <1>0, <1>2, RecordPieces
<1>8. IsPrefix(Records(t), Records(e.ios))
  BY <1>0, <1>2, <1>4, RecordsPrefix
<1>9. Preamble(k, l) = H \o Records(l) /\ Preamble(k, t) = H \o Records(t)
      /\ Preamble(k, e.ios) = H \o Records(e.ios)
  BY DEF Preamble
<1> HIDE DEF c, t, H, k
<1>10. Preamble(k, l) \o PackIO(c) = Preamble(k, t)
  BY <1>5, <1>6, <1>7, <1>9, ConcatAssociative
<1>11. IsPrefix(Preamble(k, t), Preamble(k, e.ios))
  BY <1>5, <1>7, <1>8, <1>9, PrefixConcat
<1>12. Preamble(k, e.ios) \in Seq(Byte) /\ pack_blob(e) \in Seq(Byte)
       /\ IsPrefix(Preamble(k, e.ios), pack_blob(e))
  BY PackedType DEF k
<1>13. IsPrefix(Preamble(k, t), pack_blob(e))
  BY <1>5, <1>11, <1>12, PrefixTransitive
<1> QED
  BY <1>4, <1>5, <1>6, <1>10, <1>13 DEF c, t, k

(* The parts of a record, each of which starts it.                           *)
LEMMA DimBytesPrefix ==
  ASSUME NEW dims \in Seq(Int), NEW k \in Nat, k <= Len(dims)
  PROVE  IsPrefix(DimBytes(dims, k), DimBytes(dims, Len(dims)))
<1> DEFINE f == [a \in 1 .. k |-> put_u64(dims[a])]
           g == [a \in 1 .. Len(dims) |-> put_u64(dims[a])]
<1>0. Len(dims) \in Nat
  BY LenProperties
<1>1. /\ f \in Seq(Seq(Byte)) /\ Len(f) = k
      /\ g \in Seq(Seq(Byte)) /\ Len(g) = Len(dims)
  BY <1>0, DimPieces
<1>2. \A i \in 1 .. k : f[i] = g[i]
  BY <1>0
<1>3. DimBytes(dims, k) = FlattenSeq(f) /\ DimBytes(dims, Len(dims)) = FlattenSeq(g)
  BY DEF DimBytes
<1> HIDE DEF f, g
<1>4. IsPrefix(f, g)
  BY <1>1, <1>2, PrefixPointwise
<1> QED
  BY <1>1, <1>3, <1>4, FlattenPrefix

LEMMA PartsStart ==
  ASSUME NEW r \in IORecord, NEW k \in Nat, k <= Len(r.dims)
  PROVE  /\ IsPrefix(Tags(r), PackIO(r)) /\ IsPrefix(Sized(r), PackIO(r))
         /\ IsPrefix(Sized(r) \o put_u32(Len(r.name)), PackIO(r))
         /\ IsPrefix(Named(r), PackIO(r)) /\ IsPrefix(Ranked(r, Len(r.dims)), PackIO(r))
         /\ IsPrefix(Dimmed(r, Len(r.dims), k), PackIO(r))
<1> DEFINE m == Len(r.dims)
           N == put_u32(Len(r.name))
<1>0. m \in Nat /\ r.dims \in Seq(Int) /\ Len(r.name) \in Int /\ r.bytes_per_elem \in Int
  BY LenProperties, NamedType DEF IORecord
<1>1. /\ Tags(r) \in Seq(Byte) /\ Sized(r) \in Seq(Byte) /\ Named(r) \in Seq(Byte)
      /\ Sized(r) \o N \in Seq(Byte) /\ Ranked(r, m) \in Seq(Byte)
      /\ Dimmed(r, m, k) \in Seq(Byte) /\ Dimmed(r, m, m) \in Seq(Byte)
      /\ PackIO(r) = Dimmed(r, m, m)
  <2>1. m \in Int /\ m <= m /\ k <= m
    BY <1>0
  <2>2. Tags(r) \in Seq(Byte) /\ Sized(r) \in Seq(Byte) /\ Named(r) \in Seq(Byte)
    BY TagsType, SizedType, NamedType
  <2>3. Sized(r) \o N \in Seq(Byte)
    BY NamedType
  <2>4. Ranked(r, m) \in Seq(Byte)
    BY <2>1, RankedType
  <2>5. Dimmed(r, m, k) \in Seq(Byte)
    BY <2>1, DimmedType
  <2>6. PackIO(r) = Dimmed(r, m, m) /\ Dimmed(r, m, m) \in Seq(Byte)
    BY PackIOIs
  <2> QED
    BY <2>2, <2>3, <2>4, <2>5, <2>6
<1>2. IsPrefix(Tags(r), Sized(r))
  <2>1. put_u32(r.bytes_per_elem) \in Seq(Byte)
    BY <1>0, PutType
  <2> QED
    BY <1>1, <2>1, PrefixOfConcat DEF Sized
<1>3. IsPrefix(Sized(r), Sized(r) \o N)
  <2>1. N \in Seq(Byte)
    BY <1>0, PutType
  <2> QED
    BY <1>1, <2>1, PrefixOfConcat
<1>4. IsPrefix(Sized(r) \o N, Named(r))
  BY <1>1, NamedType, PrefixOfConcat DEF Named
<1>5. IsPrefix(Named(r), Ranked(r, m))
  <2>1. put_u32(m) \in Seq(Byte)
    BY <1>0, PutType
  <2> QED
    BY <1>1, <2>1, PrefixOfConcat DEF Ranked
<1>6. DimBytes(r.dims, m) \in Seq(Byte) /\ DimBytes(r.dims, k) \in Seq(Byte)
  BY <1>0, DimPieces
<1>7. IsPrefix(Ranked(r, m), Dimmed(r, m, m))
  BY <1>1, <1>6, PrefixOfConcat DEF Dimmed
<1>8. IsPrefix(Dimmed(r, m, k), Dimmed(r, m, m))
  BY <1>0, <1>1, <1>6, DimBytesPrefix, PrefixConcat DEF Dimmed
<1> HIDE DEF m, N
<1>9. IsPrefix(Named(r), Dimmed(r, m, m))
  BY <1>1, <1>5, <1>7, PrefixTransitive
<1>10. IsPrefix(Sized(r) \o N, Dimmed(r, m, m))
  BY <1>1, <1>4, <1>9, PrefixTransitive
<1>11. IsPrefix(Sized(r), Dimmed(r, m, m))
  BY <1>1, <1>3, <1>10, PrefixTransitive
<1>12. IsPrefix(Tags(r), Dimmed(r, m, m))
  BY <1>1, <1>2, <1>11, PrefixTransitive
<1> QED
  BY <1>1, <1>7, <1>8, <1>9, <1>10, <1>11, <1>12 DEF m, N

(* ... and so, after the records before it, the blob.                        *)
LEMMA PartInBlob ==
  ASSUME NEW e \in Engines, NEW l \in Seq(IORecord),
         IsPrefix(l, e.ios), Len(l) < Len(e.ios),
         NEW x \in Seq(Byte), IsPrefix(x, PackIO(e.ios[Len(l) + 1]))
  PROVE  IsPrefix(Preamble(Len(e.ios), l) \o x, pack_blob(e))
<1> DEFINE P == Preamble(Len(e.ios), l)
           r == PackIO(e.ios[Len(l) + 1])
<1>1. P \in Seq(Byte) /\ r \in Seq(Byte) /\ IsPrefix(P \o r, pack_blob(e)) /\ IsPrefix(x, r)
  BY RecordStarts
<1>2. pack_blob(e) \in Seq(Byte)
  BY PackedType
<1> HIDE DEF P, r
<1>3. P \o x \in Seq(Byte) /\ P \o r \in Seq(Byte) /\ IsPrefix(P \o x, P \o r)
  BY <1>1, PrefixConcat, ConcatProperties
<1>4. IsPrefix(P \o x, pack_blob(e))
  BY <1>1, <1>2, <1>3, PrefixTransitive
<1> QED
  BY <1>4 DEF P

(* A packed engine has at least as many bytes as IO records, and as many as   *)
(* dimensions in any of them.                                               *)
LEMMA CountsFit ==
  ASSUME NEW e \in Engines
  PROVE  Len(e.ios) <= Len(pack_blob(e))
<1> DEFINE f == [i \in DOMAIN e.ios |-> PackIO(e.ios[i])]
           H == kMagic \o put_u32(Len(e.ios))
<1>0. e.ios \in Seq(IORecord) /\ Len(e.ios) \in Int /\ DOMAIN e.ios = 1 .. Len(e.ios)
  BY EngineType, LenProperties
<1>1. f \in Seq(Seq(Byte)) /\ Len(f) = Len(e.ios)
  BY <1>0, RecordPieces
<1>2. ASSUME NEW i \in 1 .. Len(f)
      PROVE  Len(f[i]) >= 1
  <2>1. e.ios[i] \in IORecord /\ f[i] = PackIO(e.ios[i]) /\ PackIO(e.ios[i]) \in Seq(Byte)
    BY <1>0, <1>1, RecordFits, PackIOIs
  <2>2. IsPrefix(Tags(e.ios[i]), PackIO(e.ios[i]))
    <3>1. 0 \in Nat /\ 0 <= Len(e.ios[i].dims)
      BY <1>0, <1>1, RecordFits
    <3> QED
      BY <2>1, <3>1, PartsStart
  <2>3. Tags(e.ios[i]) \in Seq(Byte) /\ Len(Tags(e.ios[i])) = 2
    BY <2>1, TagsType
  <2>4. 2 <= Len(PackIO(e.ios[i]))
    BY <2>1, <2>2, <2>3, PrefixPointwise
  <2> QED
    BY <2>1, <2>4, LenProperties
<1>3. Records(e.ios) = FlattenSeq(f)
  BY DEF Records
<1> HIDE DEF f
<1>4. Len(Records(e.ios)) >= Len(e.ios)
  BY <1>1, <1>2, <1>3, FlattenLength
<1>5. H \in Seq(Byte) /\ Records(e.ios) \in Seq(Byte) /\ Preamble(Len(e.ios), e.ios) = H \o Records(e.ios)
  BY <1>0, PreambleType, RecordPieces DEF Preamble
<1> HIDE DEF H
<1>6. /\ Len(Preamble(Len(e.ios), e.ios)) = Len(H) + Len(Records(e.ios))
      /\ Len(H) \in Nat /\ Len(Records(e.ios)) \in Nat
  BY <1>5, ConcatProperties, LenProperties
<1>7. Len(Preamble(Len(e.ios), e.ios)) <= Len(pack_blob(e)) /\ Len(pack_blob(e)) \in Nat
  BY PackedType, PrefixPointwise
<1> QED
  BY <1>0, <1>4, <1>6, <1>7

LEMMA DimsFit ==
  ASSUME NEW e \in Engines, NEW l \in Seq(IORecord),
         IsPrefix(l, e.ios), Len(l) < Len(e.ios)
  PROVE  Len(e.ios[Len(l) + 1].dims) <= Len(pack_blob(e))
<1> DEFINE c == e.ios[Len(l) + 1]
           m == Len(c.dims)
           f == [a \in 1 .. m |-> put_u64(c.dims[a])]
           P == Preamble(Len(e.ios), l)
           R == Ranked(c, m)
<1>1. c \in IORecord /\ c.dims \in Seq(Int) /\ m \in Nat
  <2>1. Len(l) + 1 \in 1 .. Len(e.ios)
    BY EngineType, LenProperties
  <2> QED
    BY <2>1, RecordFits
<1>2. f \in Seq(Seq(Byte)) /\ Len(f) = m /\ DimBytes(c.dims, m) = FlattenSeq(f)
  <2>1. f \in Seq(Seq(Byte)) /\ Len(f) = m
    BY <1>1, DimPieces
  <2> QED
    BY <2>1 DEF DimBytes
<1>3. \A a \in 1 .. m : Len(f[a]) >= 1
  <2> TAKE a \in 1 .. m
  <2>1. c.dims[a] \in Int
    BY <1>1, ElementOfSeq
  <2>2. f[a] = put_u64(c.dims[a])
    OBVIOUS
  <2>3. Len(put_u64(c.dims[a])) = 8
    BY <2>1, PutType
  <2> HIDE DEF f, c
  <2> QED
    BY <2>2, <2>3
<1>p. PackIO(c) = R \o DimBytes(c.dims, m) /\ R \in Seq(Byte) /\ P \in Seq(Byte)
      /\ PackIO(c) \in Seq(Byte) /\ DimBytes(c.dims, m) \in Seq(Byte)
      /\ IsPrefix(P \o PackIO(c), pack_blob(e))
  <2>1. PackIO(c) = Dimmed(c, m, m) /\ PackIO(c) \in Seq(Byte)
    BY <1>1, PackIOIs
  <2>2. R \in Seq(Byte) /\ DimBytes(c.dims, m) \in Seq(Byte)
    <3>1. m \in Int /\ m <= Len(c.dims)
      BY <1>1
    <3> HIDE DEF c, m
    <3>2. Ranked(c, m) \in Seq(Byte)
      BY <1>1, <3>1, RankedType
    <3>3. DimBytes(c.dims, m) \in Seq(Byte)
      BY <1>1, <3>1, DimPieces
    <3> QED
      BY <3>2, <3>3
  <2>3. P \in Seq(Byte) /\ IsPrefix(P \o PackIO(c), pack_blob(e))
    BY RecordStarts
  <2> QED
    BY <2>1, <2>2, <2>3 DEF Dimmed
<1> HIDE DEF f, P, R, c, m
<1>4. Len(DimBytes(c.dims, m)) >= m
  BY <1>2, <1>3, FlattenLength
<1>5. /\ P \o PackIO(c) \in Seq(Byte) /\ Len(P \o PackIO(c)) = Len(P) + Len(PackIO(c))
      /\ Len(PackIO(c)) = Len(R) + Len(DimBytes(c.dims, m))
  BY <1>p, ConcatProperties
<1>6. Len(P) \in Nat /\ Len(R) \in Nat /\ Len(DimBytes(c.dims, m)) \in Nat
  BY <1>p, LenProperties
<1>7. Len(P \o PackIO(c)) <= Len(pack_blob(e)) /\ Len(pack_blob(e)) \in Nat
  BY <1>p, <1>5, PackedType, PrefixPointwise
<1>8. m <= Len(pack_blob(e))
  BY <1>1, <1>4, <1>5, <1>6, <1>7
<1> QED
  BY <1>8 DEF m, c

-----------------------------------------------------------------------------
(***************************************************************************)
(* Decoding a packed engine, or the beginning of one: the decoder agrees     *)
(* with the engine on every field it has read, and if all of the engine is   *)
(* there it refuses none.                                                   *)
(***************************************************************************)

Received == IsPrefix(blob, source)

Cur(e) == e.ios[Len(ios) + 1]

Agrees(e) ==
  /\ pc \in {"tags", "bpe", "name", "ndim", "dims", "mxr_len", "program"} =>
       n_io = Len(e.ios) /\ IsPrefix(ios, e.ios)
  /\ pc \in {"bpe", "name", "ndim", "dims"} =>
       io.dir = Cur(e).dir /\ io.datatype = Cur(e).datatype
  /\ pc \in {"name", "ndim", "dims"} => io.bytes_per_elem = Cur(e).bytes_per_elem
  /\ pc \in {"ndim", "dims"} => io.name = Cur(e).name
  /\ pc = "dims" => /\ ndim = Len(Cur(e).dims)
                    /\ \A a \in 1 .. dimsRead : io.dims[a] = Cur(e).dims[a]
  /\ pc = "program" => /\ U64At(blob, off - 8) = Len(e.mxr)
                       /\ Len(blob) = Len(pack_blob(e))

Follows(e) ==
  /\ ok => Agrees(e)
  /\ engine # NoEngine => Len(blob) = Len(pack_blob(e))
  /\ blob = pack_blob(e) =>
       /\ ok /\ err \in {"none", "exception"}
       /\ pc = "done" => engine = e \/ err = "exception"

Tracks == \A e \in Engines : IsPrefix(blob, pack_blob(e)) => Follows(e)

(* The decoder before the field x of a blob that starts S: if it gets to read *)
(* the field it finds x, and all of S lets it.                               *)
LEMMA FieldRead ==
  ASSUME TypeOK, ok, NEW s, At(s, off, blob), NEW x \in Seq(Byte),
         NEW S \in Seq(Byte), IsPrefix(blob, S), IsPrefix(s \o x, S)
  PROVE  /\ off + Len(x) <= Len(blob) => \A i \in 1 .. Len(x) : blob[off + i] = x[i]
         /\ blob = S => off + Len(x) <= Len(blob) /\ Need(Len(x))
<1>1. s \in Seq(Byte) /\ off = Len(s) /\ blob \in Seq(Byte)
  BY DEF At, TypeOK
<1>2. off + Len(x) <= Len(S) /\ \A i \in 1 .. Len(x) : S[off + i] = x[i]
  BY <1>1, PrefixExtend
<1>3. off \in Nat /\ Len(x) \in Nat /\ Len(blob) \in Nat
  BY <1>1, LenProperties
<1>4. \A j \in 1 .. Len(blob) : blob[j] = S[j]
  BY <1>1, PrefixPointwise
<1>5. ASSUME off + Len(x) <= Len(blob), NEW i \in 1 .. Len(x)
      PROVE  blob[off + i] = x[i]
  <2>1. off + i \in 1 .. Len(blob)
    BY <1>3, <1>5
  <2> QED
    BY <1>2, <1>4, <2>1
<1>6. blob = S => off + Len(x) <= Len(blob)
  BY <1>2
<1>7. off + Len(x) <= Len(blob) => Need(Len(x))
  BY <1>3 DEF Need, n
<1> QED
  BY <1>5, <1>6, <1>7

LEMMA CountRead ==
  ASSUME TypeOK, ok, NEW s, At(s, off, blob), NEW v \in Nat, v < U32Values,
         NEW S \in Seq(Byte), IsPrefix(blob, S), IsPrefix(s \o put_u32(v), S)
  PROVE  (Need(4) => get_u32 = v) /\ (blob = S => Need(4))
<1>1. put_u32(v) \in Seq(Byte) /\ Len(put_u32(v)) = 4
  BY PutType
<1>2. /\ off + 4 <= Len(blob) => \A i \in 1 .. 4 : blob[off + i] = put_u32(v)[i]
      /\ blob = S => Need(4)
  BY <1>1, FieldRead
<1>3. Need(4) => off + 4 <= Len(blob)
  BY NeedRead
<1>4. ASSUME Need(4) PROVE get_u32 = v
  <2>1. off \in Nat /\ blob \in Seq(Byte)
    BY DEF TypeOK
  <2>2. U32At(blob, off) = v
    BY <1>2, <1>3, <1>4, <2>1, ReadsPut32
  <2> QED
    BY <1>4, <2>2 DEF get_u32
<1> QED
  BY <1>2, <1>4

(* A refusal can only befall a part of the engine.                           *)
LEMMA FollowRefuse ==
  ASSUME Stages, NEW e \in Engines, Follows(e), blob # pack_blob(e), pc # "done",
         NEW why, Refuse(why)
  PROVE  Follows(e)'
  BY DEF Stages, Follows, Agrees, Refuse

(* ... and so can the fall of the flag.                                      *)
LEMMA FollowFall ==
  ASSUME Stages, NEW e \in Engines, Follows(e), blob # pack_blob(e), pc # "done",
         ~ok', blob' = blob, engine' = engine, err' = err
  PROVE  Follows(e)'
  BY DEF Stages, Follows, Agrees

LEMMA FollowOn ==
  ASSUME Stages, NEW e \in Engines, Follows(e), ok, pc # "done", pc' # "done",
         blob' = blob, engine' = engine, err' = err, Agrees(e)', ok' = ok
  PROVE  Follows(e)'
  BY DEF Stages, Follows

LEMMA FollowMagic ==
  ASSUME TypeOK, Stages, NEW e \in Engines, IsPrefix(blob, pack_blob(e)), Follows(e),
         CheckMagic
  PROVE  Follows(e)'
<1>1. CASE n < Len(kMagic) \/ SubSeq(blob, 1, Len(kMagic)) # kMagic
  <2>1. Refuse("foreign") /\ pc = "magic"
    BY <1>1 DEF CheckMagic
  <2>2. blob # pack_blob(e)
    <3>1. SUFFICES ASSUME IsPrefix(kMagic, blob) PROVE FALSE
      BY HeaderStarts
    <3>2. SubSeq(kMagic, 1, Len(kMagic)) = kMagic /\ Len(kMagic) \in Nat /\ Len(blob) \in Nat
      BY MagicAssumption, SubSeqFull, LenProperties DEF TypeOK
    <3>3. Len(kMagic) <= Len(blob) /\ SubSeq(blob, 1, Len(kMagic)) = kMagic
      BY <3>1, <3>2 DEF IsPrefix
    <3> QED
      BY <1>1, <3>2, <3>3 DEF n
  <2> QED
    BY <2>1, <2>2, FollowRefuse
<1>2. CASE ~(n < Len(kMagic) \/ SubSeq(blob, 1, Len(kMagic)) # kMagic)
  <2>1. /\ pc = "magic" /\ pc' = "n_io" /\ ok' = ok /\ blob' = blob /\ engine' = engine
        /\ err' = err
    BY <1>2 DEF CheckMagic
  <2>2. Agrees(e)' /\ ok
    BY <2>1 DEF Agrees, Stages
  <2> QED
    BY <2>1, <2>2, FollowOn
<1> QED
  BY <1>1, <1>2

LEMMA FollowCount ==
  ASSUME TypeOK, Stages, Positions, NEW e \in Engines, IsPrefix(blob, pack_blob(e)),
         Follows(e), ReadCount
  PROVE  Follows(e)'
<1> DEFINE k == Len(e.ios)
<1>1. pc = "n_io" /\ ok /\ At(kMagic, off, blob)
  BY DEF ReadCount, Stages, Positions
<1>2. k \in Nat /\ k < U32Values /\ pack_blob(e) \in Seq(Byte)
  BY EngineType, PackedType
<1>3. (Need(4) => get_u32 = k) /\ (blob = pack_blob(e) => Need(4))
  <2>1. IsPrefix(kMagic \o put_u32(k), pack_blob(e))
    BY HeaderStarts
  <2> HIDE DEF k
  <2> QED
    BY <1>1, <1>2, <2>1, CountRead
<1>4. CASE ~Need(4) \/ TooMany(get_u32)
  <2>1. Refuse("corrupt")
    BY <1>4 DEF ReadCount, Corrupt
  <2>2. blob # pack_blob(e)
    BY <1>2, <1>3, <1>4, CountsFit, LenProperties DEF TooMany, n
  <2> QED
    BY <1>1, <2>1, <2>2, FollowRefuse
<1>5. CASE ~(~Need(4) \/ TooMany(get_u32))
  <2>1. /\ Get(4) /\ n_io' = get_u32 /\ pc' = IF get_u32 = 0 THEN "mxr_len" ELSE "tags"
        /\ UNCHANGED << blob, ios, engine, err >>
    BY <1>5 DEF ReadCount
  <2>2. ok' = ok /\ n_io' = k /\ pc' \in {"mxr_len", "tags"}
    BY <1>3, <1>5, <2>1 DEF Get
  <2>3. ios' = << >> /\ IsPrefix(ios', e.ios)
    <3>1. ios' = << >>
      BY <1>1, <2>1 DEF Stages
    <3>2. IsPrefix(<< >>, e.ios)
      BY EngineType, PrefixEmpty
    <3> QED
      BY <3>1, <3>2
  <2>4. Agrees(e)'
    BY <2>2, <2>3 DEF Agrees
  <2> QED
    BY <1>1, <2>1, <2>2, <2>4, FollowOn
<1> QED
  BY <1>4, <1>5

-----------------------------------------------------------------------------
(***************************************************************************)
(* The reads of a record, one by one.                                        *)
(***************************************************************************)

(* The record the decoder is in, and what lies in the blob before and in it. *)
LEMMA CurIs ==
  ASSUME TypeOK, Stages, NEW e \in Engines, Agrees(e),
         pc \in {"tags", "bpe", "name", "ndim", "dims"}
  PROVE  /\ Cur(e) \in IORecord
         /\ Cur(e).dir \in Byte /\ Cur(e).datatype \in Byte
         /\ Cur(e).bytes_per_elem \in Nat /\ Cur(e).bytes_per_elem < U32Values
         /\ Cur(e).name \in Seq(Byte)
         /\ Len(Cur(e).name) \in Nat /\ Len(Cur(e).name) < U32Values
         /\ Cur(e).dims \in Seq(Int)
         /\ Len(Cur(e).dims) \in Nat /\ Len(Cur(e).dims) < U32Values
         /\ \A a \in 1 .. Len(Cur(e).dims) :
              /\ Cur(e).dims[a] \in Int
              /\ -U64Values <= 2 * Cur(e).dims[a] /\ 2 * Cur(e).dims[a] < U64Values
         /\ n_io = Len(e.ios) /\ IsPrefix(ios, e.ios) /\ Len(ios) < Len(e.ios)
         /\ ios \in Seq(IORecord)
         /\ Preamble(n_io, ios) \in Seq(Byte) /\ pack_blob(e) \in Seq(Byte)
<1>1. n_io = Len(e.ios) /\ IsPrefix(ios, e.ios) /\ Len(ios) < Len(e.ios)
  BY DEF Agrees, Stages
<1>2. ios \in Seq(IORecord) /\ n_io \in Int /\ Len(ios) \in Nat /\ Len(e.ios) \in Nat
  BY EngineType, LenProperties DEF TypeOK
<1>3. Len(ios) + 1 \in 1 .. Len(e.ios)
  BY <1>1, <1>2
<1>4. Preamble(n_io, ios) \in Seq(Byte) /\ pack_blob(e) \in Seq(Byte)
  BY <1>2, PreambleType, PackedType
<1> QED
  BY <1>1, <1>2, <1>3, <1>4, RecordFits DEF Cur

(* The field x after the part p of the record is where the layout has it.    *)
LEMMA PieceRead ==
  ASSUME TypeOK, Stages, ok, NEW e \in Engines, IsPrefix(blob, pack_blob(e)), Agrees(e),
         pc \in {"tags", "bpe", "name", "ndim", "dims"},
         NEW p \in Seq(Byte), At(Preamble(n_io, ios) \o p, off, blob),
         NEW x \in Seq(Byte), IsPrefix(p \o x, PackIO(Cur(e)))
  PROVE  /\ off + Len(x) <= Len(blob) => \A i \in 1 .. Len(x) : blob[off + i] = x[i]
         /\ blob = pack_blob(e) => off + Len(x) <= Len(blob) /\ Need(Len(x))
         /\ IsPrefix((Preamble(n_io, ios) \o p) \o x, pack_blob(e))
<1>1. /\ n_io = Len(e.ios) /\ IsPrefix(ios, e.ios) /\ Len(ios) < Len(e.ios)
      /\ ios \in Seq(IORecord)
      /\ Preamble(n_io, ios) \in Seq(Byte) /\ pack_blob(e) \in Seq(Byte)
  BY CurIs
<1>2. p \o x \in Seq(Byte)
  BY ConcatProperties
<1>3. IsPrefix(Preamble(n_io, ios) \o (p \o x), pack_blob(e))
  BY <1>1, <1>2, PartInBlob DEF Cur
<1>4. Preamble(n_io, ios) \o (p \o x) = (Preamble(n_io, ios) \o p) \o x
  BY <1>1, BytesAssociate
<1>5. IsPrefix((Preamble(n_io, ios) \o p) \o x, pack_blob(e))
  BY <1>3, <1>4
<1> DEFINE s == Preamble(n_io, ios) \o p
<1>6. At(s, off, blob) /\ IsPrefix(s \o x, pack_blob(e))
  BY <1>5
<1> HIDE DEF s
<1>7. /\ off + Len(x) <= Len(blob) => \A i \in 1 .. Len(x) : blob[off + i] = x[i]
      /\ blob = pack_blob(e) => off + Len(x) <= Len(blob) /\ Need(Len(x))
  BY <1>1, <1>6, FieldRead
<1> QED
  BY <1>5, <1>7

(* The same for a count or a size.                                           *)
LEMMA PieceCountRead ==
  ASSUME TypeOK, Stages, ok, NEW e \in Engines, IsPrefix(blob, pack_blob(e)), Agrees(e),
         pc \in {"tags", "bpe", "name", "ndim", "dims"},
         NEW p \in Seq(Byte), At(Preamble(n_io, ios) \o p, off, blob),
         NEW v \in Nat, v < U32Values, IsPrefix(p \o put_u32(v), PackIO(Cur(e)))
  PROVE  (Need(4) => get_u32 = v) /\ (blob = pack_blob(e) => Need(4))
<1>1. put_u32(v) \in Seq(Byte)
  BY PutType
<1> DEFINE s == Preamble(n_io, ios) \o p
<1>2. At(s, off, blob) /\ IsPrefix(s \o put_u32(v), pack_blob(e))
  BY <1>1, PieceRead
<1>3. pack_blob(e) \in Seq(Byte)
  BY PackedType
<1> HIDE DEF s
<1> QED
  BY <1>2, <1>3, CountRead

LEMMA FollowTags ==
  ASSUME TypeOK, Stages, Positions, NEW e \in Engines, IsPrefix(blob, pack_blob(e)),
         Follows(e), ReadTags
  PROVE  Follows(e)'
<1> DEFINE c == Cur(e)
           P == Preamble(n_io, ios)
<1>1. pc = "tags"
  BY DEF ReadTags
<1>2. CASE ~ok
  <2>1. Refuse("corrupt") /\ blob # pack_blob(e)
    BY <1>2 DEF ReadTags, Corrupt, Need, Follows
  <2> QED
    BY <1>1, <2>1, FollowRefuse
<1>3. CASE ok
  <2>1. At(P, off, blob) /\ Agrees(e)
    BY <1>1, <1>3 DEF Positions, Follows
  <2>2. /\ P \in Seq(Byte) /\ c \in IORecord /\ c.dir \in Byte /\ c.datatype \in Byte
        /\ n_io = Len(e.ios) /\ IsPrefix(ios, e.ios) /\ Len(ios) < Len(e.ios)
        /\ ios \in Seq(IORecord) /\ pack_blob(e) \in Seq(Byte)
    BY <1>1, <2>1, CurIs
  <2>3. Tags(c) = << c.dir, c.datatype >> /\ Tags(c) \in Seq(Byte) /\ Len(Tags(c)) = 2
    <3>1. \A v \in Byte : v % Radix = v
      BY RadixPositive DEF Byte
    <3>2. c.dir % Radix = c.dir /\ c.datatype % Radix = c.datatype
      BY <2>2, <3>1
    <3> QED
      BY <2>2, <3>2, TagsType DEF Tags
  <2>4. IsPrefix(P \o Tags(c), pack_blob(e))
    <3>1. IsPrefix(Tags(c), PackIO(c))
      <4>1. 0 \in Nat /\ 0 <= Len(c.dims)
        BY <1>1, <2>1, CurIs
      <4> QED
        BY <2>2, <4>1, PartsStart
    <3> QED
      BY <2>2, <2>3, <3>1, PartInBlob DEF Cur
  <2> HIDE DEF P, c
  <2>5. /\ off + 2 <= Len(blob) => \A i \in 1 .. 2 : blob[off + i] = Tags(c)[i]
        /\ blob = pack_blob(e) => Need(2)
    BY <1>3, <2>1, <2>2, <2>3, <2>4, FieldRead
  <2>6. CASE ~Need(2)
    <3>1. Refuse("corrupt")
      BY <2>6 DEF ReadTags, Corrupt
    <3> QED
      BY <1>1, <2>5, <2>6, <3>1, FollowRefuse
  <2>7. CASE Need(2)
    <3>1. /\ Get(2) /\ pc' = "bpe" /\ UNCHANGED << blob, n_io, ios, engine, err >>
          /\ io' = [NoIO EXCEPT !.dir = ByteAt(blob, off + 1),
                                !.datatype = ByteAt(blob, off + 2)]
      BY <2>7 DEF ReadTags
    <3>2. ok' = ok
      BY <2>7, <3>1 DEF Get
    <3>3. off + 2 <= Len(blob) /\ off \in Nat
      BY <2>7, NeedRead DEF TypeOK
    <3>4. /\ blob[off + 1] = c.dir /\ blob[off + 2] = c.datatype
      BY <2>3, <2>5, <3>3
    <3>5. ByteAt(blob, off + 1) = c.dir /\ ByteAt(blob, off + 2) = c.datatype
      <4>1. off + 1 \in 1 .. Len(blob) /\ off + 2 \in 1 .. Len(blob)
        BY <3>3, LenProperties DEF TypeOK
      <4> QED
        BY <3>4, <4>1 DEF ByteAt
    <3>6. io'.dir = c.dir /\ io'.datatype = c.datatype
      BY <3>1, <3>5 DEF NoIO
    <3>7. Agrees(e)'
      BY <2>2, <3>1, <3>6 DEF Agrees, Cur, c
    <3> QED
      BY <1>1, <1>3, <3>1, <3>2, <3>7, FollowOn
  <2> QED
    BY <2>6, <2>7
<1> QED
  BY <1>2, <1>3

LEMMA FollowElemSize ==
  ASSUME TypeOK, Stages, Positions, NEW e \in Engines, IsPrefix(blob, pack_blob(e)),
         Follows(e), ReadElemSize
  PROVE  Follows(e)'
<1> DEFINE c == Cur(e)
           P == Preamble(n_io, ios)
<1>1. /\ pc = "bpe" /\ pc' = "name" /\ Get(4) /\ UNCHANGED << blob, n_io, ios, engine, err >>
      /\ io' = [io EXCEPT !.bytes_per_elem = get_u32]
  BY DEF ReadElemSize
<1>2. CASE ~ok
  <2>1. ~ok' /\ blob # pack_blob(e)
    BY <1>1, <1>2 DEF Get, Need, Follows
  <2> QED
    BY <1>1, <2>1, FollowFall
<1>3. CASE ok
  <2>1. At(P \o Tags(io), off, blob) /\ Agrees(e)
    BY <1>1, <1>3 DEF Positions, Follows
  <2>2. /\ c \in IORecord /\ c.bytes_per_elem \in Nat /\ c.bytes_per_elem < U32Values
        /\ 0 \in Nat /\ 0 <= Len(c.dims) /\ n_io = Len(e.ios) /\ IsPrefix(ios, e.ios)
    BY <1>1, <2>1, CurIs
  <2>3. Tags(io) = Tags(c) /\ Tags(io) \in Seq(Byte)
    BY <1>1, <2>1, <2>2, TagsType DEF Agrees, Tags
  <2>4. IsPrefix(Tags(io) \o put_u32(c.bytes_per_elem), PackIO(c))
    BY <2>2, <2>3, PartsStart DEF Sized
  <2>5. (Need(4) => get_u32 = c.bytes_per_elem) /\ (blob = pack_blob(e) => Need(4))
    BY <1>1, <1>3, <2>1, <2>2, <2>3, <2>4, PieceCountRead
  <2>6. CASE ~Need(4)
    <3>1. ~ok'
      BY <1>1, <2>6 DEF Get
    <3> QED
      BY <1>1, <2>5, <2>6, <3>1, FollowFall
  <2>7. CASE Need(4)
    <3>1. ok' = ok /\ io'.bytes_per_elem = c.bytes_per_elem
          /\ io'.dir = io.dir /\ io'.datatype = io.datatype
      BY <1>1, <2>5, <2>7 DEF Get, TypeOK, IORecord
    <3>2. Agrees(e)'
      BY <1>1, <2>1, <2>2, <3>1 DEF Agrees, Cur
    <3> QED
      BY <1>1, <1>3, <3>1, <3>2, FollowOn
  <2> QED
    BY <2>6, <2>7
<1> QED
  BY <1>2, <1>3

LEMMA FollowName ==
  ASSUME TypeOK, Stages, Positions, NEW e \in Engines, IsPrefix(blob, pack_blob(e)),
         Follows(e), ReadName
  PROVE  Follows(e)'
<1> DEFINE c == Cur(e)
           P == Preamble(n_io, ios)
           k == Len(c.name)
           N == put_u32(k)
           S == pack_blob(e)
<1>1. pc = "name"
  BY DEF ReadName
<1>2. CASE ~ok
  <2>1. Refuse("corrupt") /\ blob # S
    BY <1>2 DEF ReadName, Corrupt, Need, Follows
  <2> QED
    BY <1>1, <2>1, FollowRefuse
<1>3. CASE ok
  <2>1. At(P \o Sized(io), off, blob) /\ Agrees(e)
    BY <1>1, <1>3 DEF Positions, Follows
  <2>2. /\ c \in IORecord /\ c.name \in Seq(Byte) /\ k \in Nat /\ k < U32Values
        /\ 0 \in Nat /\ 0 <= Len(c.dims) /\ n_io = Len(e.ios) /\ IsPrefix(ios, e.ios)
        /\ P \in Seq(Byte) /\ S \in Seq(Byte)
    BY <1>1, <2>1, CurIs
  <2>3. Sized(io) = Sized(c) /\ Sized(io) \in Seq(Byte)
    BY <1>1, <2>1, <2>2, SizedType DEF Agrees, Tags, Sized
  <2>4. /\ IsPrefix(Sized(io) \o N, PackIO(c))
        /\ IsPrefix((Sized(io) \o N) \o c.name, PackIO(c))
    BY <2>2, <2>3, PartsStart DEF Named
  <2>5. (Need(4) => get_u32 = k) /\ (blob = S => Need(4))
    BY <1>1, <1>3, <2>1, <2>2, <2>3, <2>4, PieceCountRead
  <2>n. N \in Seq(Byte) /\ Len(N) = 4 /\ Sized(io) \o N \in Seq(Byte)
    <3>1. N \in Seq(Byte) /\ Len(N) = 4
      <4>1. k \in Int
        BY <2>2
      <4> HIDE DEF k
      <4> QED
        BY <4>1, PutType
    <3> QED
      BY <2>3, <3>1, ConcatProperties
  (* Where the layout has the name. *)
  <2>6. IsPrefix((P \o (Sized(io) \o N)) \o c.name, S)
    <3>1. /\ n_io = Len(e.ios) /\ IsPrefix(ios, e.ios) /\ Len(ios) < Len(e.ios)
          /\ ios \in Seq(IORecord)
      BY <1>1, <2>1, CurIs
    <3>2. (Sized(io) \o N) \o c.name \in Seq(Byte)
      BY <2>2, <2>n, ConcatProperties
    <3>3. IsPrefix(P \o ((Sized(io) \o N) \o c.name), S)
      BY <2>4, <3>1, <3>2, PartInBlob DEF Cur
    <3> HIDE DEF P, N, S, c
    <3>4. P \o ((Sized(io) \o N) \o c.name) = (P \o (Sized(io) \o N)) \o c.name
      BY <2>2, <2>n, BytesAssociate
    <3> QED
      BY <3>3, <3>4
  <2>7. /\ Len(P \o (Sized(io) \o N)) = off + 4 /\ off \in Nat
        /\ P \o (Sized(io) \o N) \in Seq(Byte)
    <3>1. off = Len(P \o Sized(io)) /\ off \in Nat
      BY <2>1 DEF At, TypeOK
    <3> HIDE DEF P, N, S, c
    <3>2. P \o (Sized(io) \o N) = (P \o Sized(io)) \o N
      BY <2>2, <2>3, <2>n, BytesAssociate
    <3> DEFINE s == P \o Sized(io)
    <3>3. s \in Seq(Byte)
      BY <2>2, <2>3, ConcatProperties
    <3>4. s \o N \in Seq(Byte) /\ Len(s \o N) = Len(s) + Len(N)
      <4> HIDE DEF s
      <4> QED
        BY <2>n, <3>3, ConcatProperties
    <3> QED
      BY <2>n, <3>1, <3>2, <3>4
  <2>8. /\ (off + 4) + k <= Len(S)
        /\ \A i \in 1 .. k : S[(off + 4) + i] = c.name[i]
    <3> DEFINE s == P \o (Sized(io) \o N)
               x == c.name
    <3>1. /\ s \in Seq(Byte) /\ x \in Seq(Byte) /\ S \in Seq(Byte) /\ IsPrefix(s \o x, S)
          /\ Len(s) = off + 4 /\ Len(x) = k
      BY <2>2, <2>6, <2>7
    <3> HIDE DEF s, x, S, k
    <3>2. /\ Len(s) + Len(x) <= Len(S)
          /\ \A i \in 1 .. Len(x) : S[Len(s) + i] = x[i]
      BY <3>1, BytesExtend
    <3> QED
      BY <3>1, <3>2 DEF x
  <2>b. Len(blob) \in Nat /\ Len(blob) <= Len(S) /\ \A j \in 1 .. Len(blob) : blob[j] = S[j]
    <3>1. blob \in Seq(Byte)
      BY DEF TypeOK
    <3> QED
      BY <2>2, <3>1, PrefixPointwise, LenProperties
  <2>9. CASE ~Need(4) \/ ~Need(4 + get_u32)
    <3>1. Refuse("corrupt")
      BY <2>9 DEF ReadName, Corrupt
    <3>2. blob # S
      <4>1. SUFFICES ASSUME blob = S PROVE FALSE
        OBVIOUS
      <4>2. get_u32 = k /\ Need(4)
        BY <2>5, <4>1
      <4>3. Need(4 + k)
        <5> HIDE DEF k, S
        <5> QED
          BY <1>3, <2>2, <2>7, <2>8, <2>b, <4>1 DEF Need, n
      <4> QED
        BY <2>9, <4>2, <4>3
    <3> QED
      BY <1>1, <3>1, <3>2, FollowRefuse
  <2>10. CASE Need(4) /\ Need(4 + get_u32)
    <3>1. /\ Get(4 + k) /\ pc' = "ndim" /\ UNCHANGED << blob, n_io, ios, engine, err >>
          /\ io' = [io EXCEPT !.name = BytesAt(blob, off + 4, k)] /\ Need(4 + k)
      BY <2>5, <2>10 DEF ReadName
    <3>2. ok' = ok
      BY <3>1 DEF Get
    <3>3. off + 4 \in Nat /\ (off + 4) + k <= Len(blob)
      <4>1. k \in Nat /\ off \in Nat /\ Len(blob) \in Nat
        BY <2>2, <2>7, <2>b
      <4>2. 4 + k <= Len(blob) - off
        BY <3>1 DEF Need, n
      <4> HIDE DEF k
      <4> QED
        BY <4>1, <4>2
    <3>4. BytesAt(blob, off + 4, k) = c.name
      <4> DEFINE b == BytesAt(blob, off + 4, k)
      <4>1. b \in Seq(Byte) /\ Len(b) = k /\ \A i \in 1 .. k : blob[(off + 4) + i] = b[i]
        <5>1. blob \in Seq(Byte) /\ k \in Nat
          BY <2>2 DEF TypeOK
        <5> HIDE DEF k
        <5> QED
          BY <3>3, <5>1, BytesAtIs
      <4>2. \A i \in 1 .. k : blob[(off + 4) + i] = c.name[i]
        <5> TAKE i \in 1 .. k
        <5>1. (off + 4) + i \in 1 .. Len(blob)
          BY <2>2, <2>b, <3>3
        <5> HIDE DEF k, S
        <5> QED
          BY <2>8, <2>b, <5>1
      <4> DEFINE x == c.name
      <4>3. x \in Seq(Byte) /\ Len(x) = k /\ \A i \in 1 .. k : b[i] = x[i]
        BY <2>2, <4>1, <4>2
      <4> HIDE DEF b, x, k
      <4>4. b = x
        BY <4>1, <4>3, SeqEqual
      <4> QED
        BY <4>4 DEF b, x
    <3>5. /\ io'.name = c.name /\ io'.dir = io.dir /\ io'.datatype = io.datatype
          /\ io'.bytes_per_elem = io.bytes_per_elem
      BY <3>1, <3>4 DEF TypeOK, IORecord
    <3>6. Agrees(e)'
      BY <1>1, <2>1, <2>2, <3>1, <3>5 DEF Agrees, Cur
    <3> QED
      BY <1>1, <1>3, <3>1, <3>2, <3>6, FollowOn
  <2> QED
    BY <2>9, <2>10
<1> QED
  BY <1>2, <1>3

LEMMA FollowRank ==
  ASSUME TypeOK, Stages, Positions, NEW e \in Engines, IsPrefix(blob, pack_blob(e)),
         Follows(e), ReadRank
  PROVE  Follows(e)'
<1> DEFINE c == Cur(e)
           P == Preamble(n_io, ios)
           m == Len(c.dims)
           S == pack_blob(e)
<1>1. pc = "ndim"
  BY DEF ReadRank
<1>2. CASE ~ok
  <2>1. Refuse("corrupt") /\ blob # S
    BY <1>2 DEF ReadRank, Corrupt, Need, Follows
  <2> QED
    BY <1>1, <2>1, FollowRefuse
<1>3. CASE ok
  <2>1. At(P \o Named(io), off, blob) /\ Agrees(e)
    BY <1>1, <1>3 DEF Positions, Follows
  <2>2. /\ c \in IORecord /\ m \in Nat /\ m < U32Values /\ m <= Len(c.dims)
        /\ n_io = Len(e.ios) /\ IsPrefix(ios, e.ios) /\ Len(ios) < Len(e.ios)
        /\ ios \in Seq(IORecord)
    BY <1>1, <2>1, CurIs
  <2>3. Named(io) = Named(c) /\ Named(io) \in Seq(Byte)
    BY <1>1, <2>1, <2>2, NamedType DEF Agrees, Tags, Sized, Named
  <2>4. IsPrefix(Named(io) \o put_u32(m), PackIO(c))
    BY <2>2, <2>3, PartsStart DEF Ranked
  <2>5. (Need(4) => get_u32 = m) /\ (blob = S => Need(4))
    BY <1>1, <1>3, <2>1, <2>2, <2>3, <2>4, PieceCountRead
  <2>6. m <= Len(S)
    BY <2>2, DimsFit DEF Cur
  <2>7. CASE ~Need(4) \/ TooMany(get_u32)
    <3>1. Refuse("corrupt")
      BY <2>7 DEF ReadRank, Corrupt
    <3>2. blob # S
      BY <2>2, <2>5, <2>6, <2>7, PackedType DEF TooMany, n
    <3> QED
      BY <1>1, <3>1, <3>2, FollowRefuse
  <2>8. CASE ~(~Need(4) \/ TooMany(get_u32))
    <3>1. /\ Get(4) /\ ndim' = m /\ dimsRead' = 0 /\ pc' = "dims"
          /\ UNCHANGED << blob, n_io, ios, engine, err >>
          /\ io' = [io EXCEPT !.dims = [i \in 1 .. get_u32 |-> 0]]
      BY <2>5, <2>8 DEF ReadRank
    <3>2. ok' = ok
      BY <2>8, <3>1 DEF Get
    <3>3. /\ io'.name = io.name /\ io'.dir = io.dir /\ io'.datatype = io.datatype
          /\ io'.bytes_per_elem = io.bytes_per_elem
      BY <3>1 DEF TypeOK, IORecord
    <3>4. Agrees(e)'
      BY <1>1, <2>1, <2>2, <3>1, <3>3 DEF Agrees, Cur
    <3> QED
      BY <1>1, <1>3, <3>1, <3>2, <3>4, FollowOn
  <2> QED
    BY <2>7, <2>8
<1> QED
  BY <1>2, <1>3

(* The next dimension continues the bytes of those before it.                *)
LEMMA DimContinues ==
  ASSUME NEW r \in IORecord, NEW k \in Nat, k + 1 <= Len(r.dims)
  PROVE  /\ Dimmed(r, Len(r.dims), k) \in Seq(Byte)
         /\ put_u64(r.dims[k + 1]) \in Seq(Byte) /\ Len(put_u64(r.dims[k + 1])) = 8
         /\ IsPrefix(Dimmed(r, Len(r.dims), k) \o put_u64(r.dims[k + 1]), PackIO(r))
<1> DEFINE m == Len(r.dims)
           A == Ranked(r, m)
           B == DimBytes(r.dims, k)
           X == put_u64(r.dims[k + 1])
<1>1. r.dims \in Seq(Int) /\ m \in Nat /\ k <= m /\ k + 1 \in 1 .. m /\ k + 1 \in Nat
  BY LenProperties DEF IORecord
<1>2. A \in Seq(Byte) /\ B \in Seq(Byte)
  BY <1>1, RankedType, DimPieces
<1>3. X \in Seq(Byte) /\ Len(X) = 8
  <2>1. r.dims[k + 1] \in Int
    BY <1>1, ElementOfSeq
  <2> QED
    BY <2>1, PutType
<1>4. Dimmed(r, m, k) = A \o B /\ Dimmed(r, m, k + 1) = A \o (B \o X)
  BY <1>1, DimBytesNext DEF Dimmed
<1>5. IsPrefix(Dimmed(r, m, k + 1), PackIO(r))
  BY <1>1, PartsStart
<1> HIDE DEF m, A, B, X
<1>6. (A \o B) \o X = A \o (B \o X)
  BY <1>2, <1>3, BytesAssociate
<1>7. A \o B \in Seq(Byte)
  BY <1>2, ConcatProperties
<1> QED
  BY <1>3, <1>4, <1>5, <1>6, <1>7 DEF m, X

LEMMA FollowDim ==
  ASSUME TypeOK, Stages, Positions, NEW e \in Engines, IsPrefix(blob, pack_blob(e)),
         Follows(e), ReadDim
  PROVE  Follows(e)'
<1> DEFINE c == Cur(e)
           P == Preamble(n_io, ios)
           k == dimsRead
           m == Len(c.dims)
           p == Dimmed(io, ndim, k)
           x == put_u64(c.dims[k + 1])
           S == pack_blob(e)
<1>1. /\ pc = "dims" /\ pc' = "dims" /\ k < ndim /\ Get(8)
      /\ io' = [io EXCEPT !.dims[k + 1] = Signed(get_u64)] /\ dimsRead' = k + 1
      /\ UNCHANGED << blob, n_io, ios, ndim, engine, err >>
  BY DEF ReadDim
<1>2. CASE ~ok
  <2>1. ~ok' /\ blob # S
    BY <1>1, <1>2 DEF Get, Need, Follows
  <2> QED
    BY <1>1, <2>1, FollowFall
<1>3. CASE ok
  <2>1. At(P \o p, off, blob) /\ Agrees(e)
    BY <1>1, <1>3 DEF Positions, Follows
  <2>2. /\ c \in IORecord /\ m \in Nat
        /\ \A a \in 1 .. m : /\ c.dims[a] \in Int
                             /\ -U64Values <= 2 * c.dims[a] /\ 2 * c.dims[a] < U64Values
        /\ n_io = Len(e.ios) /\ IsPrefix(ios, e.ios) /\ S \in Seq(Byte)
    BY <1>1, <2>1, CurIs
  <2>3. /\ ndim = m /\ k \in Nat /\ k + 1 <= m /\ k + 1 \in 1 .. m
        /\ \A a \in 1 .. k : io.dims[a] = c.dims[a]
    BY <1>1, <2>1, <2>2 DEF Agrees, TypeOK
  <2>4. p = Dimmed(c, m, k)
    <3>1. DimBytes(io.dims, k) = DimBytes(c.dims, k)
      BY <2>3, DimBytesKeep
    <3>2. Ranked(io, ndim) = Ranked(c, m)
      BY <1>1, <2>1, <2>3 DEF Agrees, Tags, Sized, Named, Ranked
    <3> QED
      BY <3>1, <3>2 DEF Dimmed
  <2>5. /\ p \in Seq(Byte) /\ x \in Seq(Byte) /\ Len(x) = 8
        /\ IsPrefix(p \o x, PackIO(c))
    BY <2>2, <2>3, <2>4, DimContinues
  <2>6. /\ off + Len(x) <= Len(blob) => \A i \in 1 .. Len(x) : blob[off + i] = x[i]
        /\ blob = S => Need(Len(x))
    <3> HIDE DEF p, x
    <3> QED
      BY <1>1, <1>3, <2>1, <2>5, PieceRead
  <2>7. CASE ~Need(8)
    <3>1. ~ok' /\ blob # S
      BY <1>1, <2>5, <2>6, <2>7 DEF Get
    <3> QED
      BY <1>1, <3>1, FollowFall
  <2>8. CASE Need(8)
    <3>1. ok' = ok /\ off + 8 <= Len(blob) /\ off \in Nat /\ blob \in Seq(Byte)
      BY <1>1, <2>8, NeedRead DEF Get, TypeOK
    <3>2. Signed(get_u64) = c.dims[k + 1]
      <4> DEFINE d == c.dims[k + 1]
      <4>1. d \in Int /\ -U64Values <= 2 * d /\ 2 * d < U64Values
        BY <2>2, <2>3
      <4>2. \A i \in 1 .. 8 : blob[off + i] = put_u64(d)[i]
        BY <2>5, <2>6, <3>1
      <4> HIDE DEF d
      <4>3. Signed(U64At(blob, off)) = d
        BY <3>1, <4>1, <4>2, ReadsPutSigned
      <4> QED
        BY <2>8, <4>3 DEF get_u64, d
    <3>3. /\ io'.name = io.name /\ io'.dir = io.dir /\ io'.datatype = io.datatype
          /\ io'.bytes_per_elem = io.bytes_per_elem
          /\ io'.dims = [io.dims EXCEPT ![k + 1] = Signed(get_u64)]
      BY <1>1 DEF TypeOK, IORecord
    <3>4. \A a \in 1 .. k + 1 : io'.dims[a] = c.dims[a]
      <4>1. io.dims \in Seq(Int) /\ Len(io.dims) = m /\ Signed(get_u64) \in Int
        BY <1>1, <2>3, GetsNat, SignedInt DEF TypeOK, IORecord, Stages
      <4>2. \A j \in 1 .. m :
              io'.dims[j] = IF j = k + 1 THEN Signed(get_u64) ELSE io.dims[j]
        BY <2>3, <3>3, <4>1, ExceptSeq
      <4> TAKE a \in 1 .. k + 1
      <4>3. a \in 1 .. m /\ (a # k + 1 => a \in 1 .. k)
        BY <2>2, <2>3
      <4> QED
        BY <2>3, <3>2, <4>2, <4>3
    <3>5. Agrees(e)'
      BY <1>1, <2>1, <2>2, <2>3, <3>3, <3>4 DEF Agrees, Cur
    <3> QED
      BY <1>1, <1>3, <3>1, <3>5, FollowOn
  <2> QED
    BY <2>7, <2>8
<1> QED
  BY <1>2, <1>3

(* A record is the record of its fields.                                     *)
LEMMA RecordIs ==
  \A r \in IORecord :
    r = [dir |-> r.dir, datatype |-> r.datatype, bytes_per_elem |-> r.bytes_per_elem,
         name |-> r.name, dims |-> r.dims]
  BY DEF IORecord

LEMMA FollowIO ==
  ASSUME TypeOK, Stages, NEW e \in Engines, Follows(e), EndIO
  PROVE  Follows(e)'
<1> DEFINE c == Cur(e)
<1>1. /\ pc = "dims" /\ dimsRead = ndim /\ ios' = Append(ios, io)
      /\ pc' \in {"tags", "mxr_len"} /\ UNCHANGED << blob, n_io, ok, engine, err >>
  BY DEF EndIO
<1>2. CASE ~ok
  BY <1>1, <1>2, FollowFall DEF Follows
<1>3. CASE ok
  <2>1. Agrees(e)
    BY <1>3 DEF Follows
  <2>2. /\ c \in IORecord /\ c.dims \in Seq(Int) /\ Len(c.dims) \in Nat
        /\ n_io = Len(e.ios) /\ IsPrefix(ios, e.ios) /\ Len(ios) < Len(e.ios)
        /\ ios \in Seq(IORecord)
    BY <1>1, <2>1, CurIs
  <2>3. io = c
    <3>1. /\ io \in IORecord /\ io.dir = c.dir /\ io.datatype = c.datatype
          /\ io.bytes_per_elem = c.bytes_per_elem /\ io.name = c.name
      BY <1>1, <2>1 DEF Agrees, TypeOK
    <3>2. /\ io.dims \in Seq(Int) /\ Len(io.dims) = Len(c.dims)
          /\ \A a \in 1 .. Len(c.dims) : io.dims[a] = c.dims[a]
      BY <1>1, <2>1, <3>1 DEF Agrees, Stages, IORecord
    <3> DEFINE s == io.dims
               t == c.dims
    <3>3. s \in Seq(Int) /\ t \in Seq(Int) /\ Len(s) = Len(t) /\ \A a \in 1 .. Len(s) : s[a] = t[a]
      BY <2>2, <3>2
    <3> HIDE DEF s, t
    <3>4. s = t
      BY <3>3, SeqEqual
    <3>5. io.dims = c.dims
      BY <3>4 DEF s, t
    <3> HIDE DEF c
    <3> QED
      BY <2>2, <3>1, <3>5, RecordIs
  <2>4. n_io' = Len(e.ios) /\ IsPrefix(ios', e.ios)
    BY <1>1, <2>2, <2>3, RecordStarts DEF Cur
  <2>5. Agrees(e)'
    BY <1>1, <2>4 DEF Agrees
  <2> QED
    BY <1>1, <1>3, <2>5, FollowOn
<1> QED
  BY <1>2, <1>3

(* A prefix of the whole length is the whole.                                *)
LEMMA WholePrefix ==
  ASSUME NEW T, NEW s \in Seq(T), NEW t \in Seq(T), IsPrefix(s, t), Len(s) = Len(t)
  PROVE  s = t
<1>1. \A i \in 1 .. Len(s) : s[i] = t[i]
  BY PrefixPointwise
<1> QED
  BY <1>1, SeqEqual

(* The decoder behind the last record: it has them all, and what it has read *)
(* is the packed engine up to the length of the program.                    *)
LEMMA AllRecords ==
  ASSUME TypeOK, Stages, NEW e \in Engines, Agrees(e), pc \in {"mxr_len", "program"}
  PROVE  ios = e.ios /\ Preamble(n_io, ios) = Preamble(Len(e.ios), e.ios)
<1>1. /\ n_io = Len(e.ios) /\ IsPrefix(ios, e.ios) /\ Len(ios) = n_io
      /\ ios \in Seq(IORecord) /\ e.ios \in Seq(IORecord)
  BY EngineType DEF Agrees, Stages, TypeOK
<1> DEFINE s == ios
           t == e.ios
<1>2. s = t
  <2> HIDE DEF t
  <2> QED
    BY <1>1, WholePrefix DEF t
<1> QED
  BY <1>1, <1>2

LEMMA FollowLength ==
  ASSUME TypeOK, Stages, Positions, NEW e \in Engines, IsPrefix(blob, pack_blob(e)),
         Follows(e), ReadProgramLength
  PROVE  Follows(e)'
<1> DEFINE P == Preamble(n_io, ios)
           L == Len(e.mxr)
           x == put_u64(L)
           S == pack_blob(e)
<1>1. pc = "mxr_len"
  BY DEF ReadProgramLength
<1>2. CASE ~ok
  <2>1. Refuse("corrupt") /\ blob # S
    BY <1>2 DEF ReadProgramLength, Corrupt, Need, Follows
  <2> QED
    BY <1>1, <2>1, FollowRefuse
<1>3. CASE ok
  <2>1. At(P, off, blob) /\ Agrees(e) /\ off \in Nat /\ blob \in Seq(Byte)
    BY <1>1, <1>3 DEF Positions, Follows, TypeOK
  <2>2. ios = e.ios /\ P = Preamble(Len(e.ios), e.ios)
    BY <1>1, <2>1, AllRecords
  <2>3. /\ P \in Seq(Byte) /\ S \in Seq(Byte) /\ Len(S) \in Nat /\ L \in Nat /\ L < U64Values
        /\ IsPrefix(P \o x, S) /\ P \o x \in Seq(Byte) /\ Len(S) = Len(P \o x) + L
    BY <2>2, EngineType, PackedType
  <2>4. x \in Seq(Byte) /\ Len(x) = 8
    <3>1. L \in Int
      BY <2>3
    <3> HIDE DEF L
    <3> QED
      BY <3>1, PutType
  <2>5. Len(S) = (off + 8) + L
    <3>1. off = Len(P)
      BY <2>1 DEF At
    <3> HIDE DEF P, x
    <3>2. Len(P \o x) = Len(P) + Len(x)
      BY <2>3, <2>4, ConcatProperties
    <3> QED
      BY <2>3, <2>4, <3>1, <3>2
  <2>6. Len(blob) \in Nat /\ Len(blob) <= Len(S)
    BY <2>1, <2>3, PrefixPointwise, LenProperties
  <2>7. /\ off + 8 <= Len(blob) => \A i \in 1 .. 8 : blob[off + i] = x[i]
        /\ blob = S => Need(8)
    <3> HIDE DEF x, S, P
    <3>1. /\ off + Len(x) <= Len(blob) => \A i \in 1 .. Len(x) : blob[off + i] = x[i]
          /\ blob = S => Need(Len(x))
      BY <1>3, <2>1, <2>3, <2>4, FieldRead DEF S
    <3> QED
      BY <2>4, <3>1
  <2>8. Need(8) => get_u64 = L /\ U64At(blob, off) = L
    <3>1. SUFFICES ASSUME Need(8) PROVE U64At(blob, off) = L
      BY DEF get_u64
    <3>2. off + 8 <= Len(blob)
      BY <3>1, NeedRead
    <3>3. \A i \in 1 .. 8 : blob[off + i] = put_u64(L)[i]
      BY <2>7, <3>2
    <3> HIDE DEF L
    <3> QED
      BY <2>1, <2>3, <3>2, <3>3, ReadsPut64
  <2>9. CASE ~Need(8) \/ ~Need(8 + get_u64)
    <3>1. Refuse("corrupt")
      BY <2>9 DEF ReadProgramLength, Corrupt
    <3>2. blob # S
      <4>1. SUFFICES ASSUME blob = S PROVE FALSE
        OBVIOUS
      <4>2. get_u64 = L /\ Need(8)
        BY <2>7, <2>8, <4>1
      <4>3. Need(8 + L)
        <5>1. Len(blob) = (off + 8) + L
          BY <2>5, <4>1
        <5> HIDE DEF L, S
        <5> QED
          BY <1>3, <2>1, <2>3, <2>6, <5>1 DEF Need, n
      <4> QED
        BY <2>9, <4>2, <4>3
    <3> QED
      BY <1>1, <3>1, <3>2, FollowRefuse
  <2>10. CASE Need(8) /\ Need(8 + get_u64)
    <3>1. /\ Get(8) /\ pc' = "program" /\ UNCHANGED << blob, n_io, ios, engine, err >>
          /\ Need(8 + L)
      BY <2>8, <2>10 DEF ReadProgramLength
    <3>2. ok' = ok /\ off' = off + 8
      BY <2>10, <3>1 DEF Get
    <3>3. U64At(blob', off' - 8) = L
      <4>1. off' - 8 = off
        BY <2>1, <3>2
      <4> QED
        BY <2>8, <2>10, <3>1, <4>1
    <3>4. Len(blob) = Len(S)
      <4>1. 8 + L <= Len(blob) - off
        BY <3>1 DEF Need, n
      <4> HIDE DEF L, S
      <4> QED
        BY <2>1, <2>3, <2>5, <2>6, <4>1
    <3>5. Agrees(e)'
      BY <1>1, <2>1, <3>1, <3>3, <3>4 DEF Agrees
    <3> QED
      BY <1>1, <1>3, <3>1, <3>2, <3>5, FollowOn
  <2> QED
    BY <2>9, <2>10
<1> QED
  BY <1>2, <1>3

LEMMA FollowProgram ==
  ASSUME TypeOK, Stages, Positions, NEW e \in Engines, IsPrefix(blob, pack_blob(e)),
         Follows(e), LoadProgram
  PROVE  Follows(e)'
<1> DEFINE P == Preamble(n_io, ios)
           L == Len(e.mxr)
           x == put_u64(L)
           S == pack_blob(e)
           mxr == BytesAt(blob, off, L)
<1>1. pc = "program" /\ ok /\ Agrees(e)
  BY DEF LoadProgram, Stages, Follows
<1>2. U64At(blob, off - 8) = L /\ Len(blob) = Len(S)
  BY <1>1 DEF Agrees
<1>3. ios = e.ios /\ P = Preamble(Len(e.ios), e.ios)
  BY <1>1, AllRecords
<1>4. At(P \o x, off, blob) /\ off \in Nat /\ blob \in Seq(Byte)
  BY <1>1, <1>2 DEF Positions, TypeOK
<1>5. S = (P \o x) \o e.mxr /\ P \o x \in Seq(Byte) /\ S \in Seq(Byte)
  BY <1>3, PackedType
<1>6. e.mxr \in Seq(Byte) /\ L \in Nat /\ e = [ios |-> e.ios, mxr |-> e.mxr]
  BY EngineType
<1>7. blob = S
  <2> HIDE DEF S
  <2> QED
    BY <1>2, <1>4, <1>5, WholePrefix DEF S
<1>8. mxr = e.mxr
  <2> DEFINE q == P \o x
             t == e.mxr
  <2>1. q \in Seq(Byte) /\ t \in Seq(Byte) /\ Len(t) = L /\ blob = q \o t /\ off = Len(q)
    BY <1>4, <1>5, <1>6, <1>7 DEF At
  <2> HIDE DEF q, t, L, S
  <2>2. IsPrefix(q \o t, blob)
    BY <1>4, <2>1, PrefixReflexive
  <2>3. off + L <= Len(blob) /\ \A i \in 1 .. L : blob[off + i] = t[i]
    BY <1>4, <2>1, <2>2, BytesExtend
  <2>4. mxr \in Seq(Byte) /\ Len(mxr) = L /\ \A i \in 1 .. L : blob[off + i] = mxr[i]
    BY <1>4, <1>6, <2>3, BytesAtIs
  <2> HIDE DEF mxr
  <2>5. mxr = t
    BY <2>1, <2>3, <2>4, SeqEqual
  <2> QED
    BY <2>5 DEF t
<1>9. /\ pc' = "done" /\ UNCHANGED << blob, ok >>
      /\ \/ engine' = e /\ err' = err
         \/ engine' = NoEngine /\ err' = "exception"
  BY <1>2, <1>3, <1>6, <1>8 DEF LoadProgram
<1>10. err = "none"
  BY <1>1 DEF Stages
<1> QED
  BY <1>1, <1>2, <1>9, <1>10 DEF Follows, Agrees

LEMMA TracksStep ==
  ASSUME TypeOK, Stages, Positions, Tracks, [Next]_vars
  PROVE  Tracks'
<1> SUFFICES ASSUME NEW e \in Engines, IsPrefix(blob', pack_blob(e))
             PROVE  Follows(e)'
  BY DEF Tracks
<1>1. CASE ReadChunk \/ StopReading
  BY <1>1 DEF ReadChunk, StopReading, Stages, Follows, Agrees
<1>2. CASE Decode
  <2>1. blob' = blob
    BY <1>2 DEF Decode, CheckMagic, ReadCount, ReadTags, ReadElemSize, ReadName, ReadRank,
                ReadDim, EndIO, ReadProgramLength, LoadProgram, Corrupt, Refuse
  <2>2. IsPrefix(blob, pack_blob(e)) /\ Follows(e)
    BY <2>1 DEF Tracks
  <2> QED
    BY <1>2, <2>2, FollowMagic, FollowCount, FollowTags, FollowElemSize, FollowName,
       FollowRank, FollowDim, FollowIO, FollowLength, FollowProgram DEF Decode
<1>3. CASE UNCHANGED vars
  <2>1. IsPrefix(blob, pack_blob(e)) /\ Follows(e)
    BY <1>3 DEF Tracks, vars
  <2> QED
    BY <1>3, <2>1 DEF Follows, Agrees, Cur, vars
<1> QED
  BY <1>1, <1>2, <1>3 DEF Next, Done

(* What the stream reader has delivered is the beginning of the source.      *)
LEMMA ReceivedStep ==
  ASSUME TypeOK, Received, [Next]_vars
  PROVE  Received'
<1>1. CASE ReadChunk
  <2>1. PICK k \in 1 .. Chunk :
          /\ k <= Len(source) - Len(blob)
          /\ blob' = blob \o SubSeq(source, Len(blob) + 1, Len(blob) + k)
    BY <1>1 DEF ReadChunk
  <2> DEFINE o == Len(blob)
             x == SubSeq(source, o + 1, o + k)
  <2>2. /\ source \in Seq(Byte) /\ blob \in Seq(Byte) /\ o \in Nat /\ Len(source) \in Nat
        /\ k \in Nat
    BY LenProperties, ChunkAssumption DEF TypeOK
  <2>3. /\ x \in Seq(Byte) /\ Len(x) = k /\ \A i \in 1 .. k : source[o + i] = x[i]
    <3>1. o + 1 \in 1 .. Len(source) + 1 /\ o + k \in 0 .. Len(source)
      BY <2>1, <2>2
    <3> HIDE DEF o
    <3> QED
      BY <2>2, <3>1, SubSeqProperties
  <2>4. o + k <= Len(source) /\ IsPrefix(blob, source) /\ blob' = blob \o x
    BY <2>1, <2>2 DEF Received
  <2> HIDE DEF x
  <2>5. IsPrefix(blob \o x, source)
    BY <2>2, <2>3, <2>4, PrefixExtend
  <2>6. source' = source
    BY <1>1 DEF ReadChunk
  <2> QED
    BY <2>4, <2>5, <2>6 DEF Received
<1>2. CASE ~ReadChunk
  <2>1. blob' = blob /\ source' = source
    BY <1>2 DEF Next, Decode, Done, StopReading, CheckMagic, ReadCount, ReadTags, ReadElemSize,
                ReadName, ReadRank, ReadDim, EndIO, ReadProgramLength, LoadProgram,
                Corrupt, Refuse, vars
  <2> QED
    BY <2>1 DEF Received
<1> QED
  BY <1>1, <1>2

(* The invariant of the format.                                              *)
FInv == IInv /\ Stages /\ Positions /\ AcceptedIsPacked /\ Received /\ Tracks

LEMMA InitFInv == Init => FInv
<1> SUFFICES ASSUME Init PROVE FInv
  OBVIOUS
<1>1. IInv
  BY InitIInv
<1>2. /\ pc \in {"stream", "magic"} /\ ok /\ ios = << >> /\ engine = NoEngine /\ err = "none"
      /\ (blob = << >> \/ blob = source) /\ source \in Seq(Byte)
  BY SourcesAssumption DEF Init
<1>3. Received
  BY <1>2, PrefixEmpty, PrefixReflexive DEF Received
<1>4. Stages /\ Positions /\ AcceptedIsPacked
  BY <1>2 DEF Stages, Positions, AcceptedIsPacked
<1>5. Tracks
  BY <1>2 DEF Tracks, Follows, Agrees
<1> QED
  BY <1>1, <1>3, <1>4, <1>5 DEF FInv

(* The decoder's invariant, together with what its bytes mean.               *)
THEOREM FormatInvariant == Spec => []FInv
<1>1. FInv /\ [Next]_vars => FInv'
  <2> SUFFICES ASSUME FInv, [Next]_vars PROVE FInv'
    OBVIOUS
  <2>1. IInv' /\ TypeOK /\ TypeOK' /\ Bounds
    BY TypeStep, BoundsStep, PaidStep DEF FInv, IInv
  <2>2. Stages' /\ Positions' /\ AcceptedIsPacked' /\ Received' /\ Tracks'
    BY <2>1, StagesStep, PositionsStep, AcceptStep, ReceivedStep, TracksStep DEF FInv
  <2> QED
    BY <2>1, <2>2 DEF FInv
<1> QED
  BY InitFInv, <1>1, PTL DEF Spec

(* An engine load returns is the one the blob's bytes say: packed again it   *)
(* gives the beginning of the blob, for every blob whatever.                *)
THEOREM AcceptedPacked == Spec => []AcceptedIsPacked
<1>1. FInv => AcceptedIsPacked
  BY DEF FInv
<1> QED
  BY FormatInvariant, <1>1, PTL

(* An engine of which a stream reader delivers only a part is never accepted. *)
THEOREM NeverPartialEngine == Spec => []NeverPartial
<1>1. FInv => NeverPartial
  <2> SUFFICES ASSUME FInv, NEW e \in Engines, pack_blob(e) = source,
                      Len(blob) < Len(source), engine # NoEngine
               PROVE  FALSE
    BY DEF NeverPartial
  <2>1. IsPrefix(blob, pack_blob(e)) /\ Tracks
    BY DEF FInv, Received
  <2>2. Len(blob) = Len(source)
    BY <2>1 DEF Tracks, Follows
  <2>3. Len(blob) \in Nat
    BY LenProperties DEF FInv, IInv, TypeOK
  <2> QED
    BY <2>2, <2>3
<1> QED
  BY FormatInvariant, <1>1, PTL

(* A packed engine handed back whole is decoded into itself, unless MIGraphX *)
(* throws: no field of it is cut off, no count of it is refused.            *)
THEOREM RoundTrips == Spec => []RoundTrip
<1>1. FInv => RoundTrip
  <2> SUFFICES ASSUME FInv, NEW e \in Engines, pack_blob(e) = blob, pc = "done"
               PROVE  engine = e \/ err = "exception"
    BY DEF RoundTrip
  <2>1. IsPrefix(blob, pack_blob(e)) /\ Tracks
    <3>1. blob \in Seq(Byte) /\ Tracks
      BY DEF FInv, IInv, TypeOK
    <3> QED
      BY <3>1, PrefixReflexive
  <2> QED
    BY <2>1 DEF Tracks, Follows
<1> QED
  BY FormatInvariant, <1>1, PTL
=============================================================================
