----------------------------- MODULE EngineLoad -----------------------------
(***************************************************************************)
(* Deserialization of an engine: ShimRuntime::deserializeCudaEngine         *)
(* (src/shim.cpp), which takes a blob or drains a stream reader into one,   *)
(* and trtshim::load (src/backend.cpp), which decodes it field by field.    *)
(*                                                                         *)
(* The caller's bytes may be anything: an engine this program packed, the   *)
(* same cut short (a stream reader whose read fails is taken to be at its   *)
(* end) or overwritten, or bytes that were never an engine.                 *)
(*                                                                         *)
(* One action is one read of the decoder.  `ok' is the decoder's sticky     *)
(* flag: once a need() has failed every later get_ is skipped, and the      *)
(* function returns at the next place that looks at the flag.               *)
(***************************************************************************)
EXTENDS EngineFormat, FiniteSets

CONSTANTS Engines,   \* engines a builder may have packed
          Sources,   \* the byte sequences a caller may hold
          Chunk,     \* most bytes one read of a stream reader returns
          NoEngine   \* the null pointer load returns on an error

ASSUME SourcesAssumption == Sources \subseteq Seq(Byte)
ASSUME ChunkAssumption == Chunk \in Nat \ {0}

IORecord == [dir : Nat, datatype : Nat, bytes_per_elem : Nat,
             name : Seq(Byte), dims : Seq(Int)]

(* What the fields of the format can hold: pack_blob's casts cut nothing off *)
(* of it.  Directions and MIGraphX's datatypes are small enumerations,       *)
(* dimensions are int64_t, and no name, shape or list of tensors has 2^32    *)
(* elements.                                                                *)
Representable(e) ==
  /\ e \in [ios : Seq(IORecord), mxr : Seq(Byte)]
  /\ Len(e.ios) < U32Values /\ Len(e.mxr) < U64Values
  /\ \A i \in DOMAIN e.ios :
       /\ e.ios[i].dir \in Byte /\ e.ios[i].datatype \in Byte
       /\ e.ios[i].bytes_per_elem < U32Values
       /\ Len(e.ios[i].name) < U32Values /\ Len(e.ios[i].dims) < U32Values
       /\ \A a \in DOMAIN e.ios[i].dims :
            -U64Values <= 2 * e.ios[i].dims[a] /\ 2 * e.ios[i].dims[a] < U64Values

ASSUME EnginesAssumption == \A e \in Engines : Representable(e)

VARIABLES
  source,   \* what the caller has
  blob,     \* the bytes load is given (p and n of the code)
  pc,       \* the next statement of the decoder
  off,      \* read position
  ok,       \* sticky: no need() has failed yet
  n_io,     \* number of IO records announced by the header
  ios,      \* the records decoded so far
  io,       \* the record being decoded
  ndim,     \* number of dimensions of that record
  dimsRead, \* iterations of its dimension loop
  engine,   \* the result: an engine or NoEngine
  err,      \* why there is none
  high,     \* history: the highest byte a read has touched
  alloc     \* history: elements of all dims vectors resized so far

vars == << source, blob, pc, off, ok, n_io, ios, io, ndim, dimsRead,
           engine, err, high, alloc >>

n == Len(blob)

NoIO == [dir |-> 0, datatype |-> 0, bytes_per_elem |-> 0,
         name |-> << >>, dims |-> << >>]

Init ==
  /\ source \in Sources
  /\ \/ pc = "stream" /\ blob = << >>
     \/ pc = "magic"  /\ blob = source
  /\ off = 0 /\ ok = TRUE
  /\ n_io = 0 /\ ios = << >> /\ io = NoIO /\ ndim = 0 /\ dimsRead = 0
  /\ engine = NoEngine /\ err = "none"
  /\ high = 0 /\ alloc = 0

-----------------------------------------------------------------------------
(* Building blocks of the decoder. *)

(* Mutant: the sum of position and length wraps around. *)
Need_Wraps(k) == ok /\ (off + k) % U64Values <= n

(* Mutant: one byte too many is granted. *)
Need_OffByOne(k) == ok /\ off <= n /\ k <= n - off + 1

(* need(k): no earlier failure, and k more bytes are there. *)
Need(k) == ok /\ off <= n /\ k <= n - off

(* load returns nullptr with a message. *)
Refuse(why) ==
  /\ pc' = "done" /\ err' = why
  /\ UNCHANGED << source, blob, off, ok, n_io, ios, io, ndim, dimsRead,
                  engine, high, alloc >>

Corrupt == Refuse("corrupt")

(* A get of k bytes: the position moves and the bytes have been touched, or *)
(* the flag falls.                                                          *)
Get(k) ==
  IF Need(k)
  THEN off' = off + k /\ high' = off + k /\ ok' = ok
  ELSE ok' = FALSE /\ UNCHANGED << off, high >>

(* A count larger than the number of bytes cannot be right. *)
TooMany_Never(count) == FALSE
TooMany(count) == count > n

(* What get_u32 and get_u64 leave in their zero-initialized argument. *)
get_u32 == IF Need(4) THEN U32At(blob, off) ELSE 0
get_u64_Narrow == IF Need(8) THEN U32At(blob, off) ELSE 0
get_u64 == IF Need(8) THEN U64At(blob, off) ELSE 0

-----------------------------------------------------------------------------
(* deserializeCudaEngine from a stream reader: append what each read        *)
(* returned until one returns 0 or a negative value.  The reader decides    *)
(* when: at the end, or early when it fails.                                *)
ReadChunk ==
  /\ pc = "stream"
  /\ \E k \in 1 .. Chunk :
       /\ k <= Len(source) - Len(blob)
       /\ blob' = blob \o SubSeq(source, Len(blob) + 1, Len(blob) + k)
  /\ UNCHANGED << source, pc, off, ok, n_io, ios, io, ndim, dimsRead,
                  engine, err, high, alloc >>

StopReading ==
  /\ pc = "stream"
  /\ pc' = "magic"
  /\ UNCHANGED << source, blob, off, ok, n_io, ios, io, ndim, dimsRead,
                  engine, err, high, alloc >>

-----------------------------------------------------------------------------
(* load, statement by statement. *)

CheckMagic ==
  /\ pc = "magic"
  /\ IF n < Len(kMagic) \/ SubSeq(blob, 1, Len(kMagic)) # kMagic
     THEN Refuse("foreign")
     ELSE /\ off' = Len(kMagic) /\ high' = Len(kMagic) /\ pc' = "n_io"
          /\ UNCHANGED << source, blob, ok, n_io, ios, io, ndim, dimsRead,
                          engine, err, alloc >>

ReadCount ==
  /\ pc = "n_io"
  /\ IF ~Need(4) \/ TooMany(get_u32)
     THEN Corrupt
     ELSE /\ Get(4)
          /\ n_io' = get_u32
          /\ pc' = IF get_u32 = 0 THEN "mxr_len" ELSE "tags"
          /\ UNCHANGED << source, blob, ios, io, ndim, dimsRead,
                          engine, err, alloc >>

ReadTags ==
  /\ pc = "tags"
  /\ IF ~Need(2)
     THEN Corrupt
     ELSE /\ Get(2)
          /\ io' = [NoIO EXCEPT !.dir = ByteAt(blob, off + 1),
                                !.datatype = ByteAt(blob, off + 2)]
          /\ pc' = "bpe"
          /\ UNCHANGED << source, blob, n_io, ios, ndim, dimsRead,
                          engine, err, alloc >>

ReadElemSize ==
  /\ pc = "bpe"
  /\ Get(4)
  /\ io' = [io EXCEPT !.bytes_per_elem = get_u32]
  /\ pc' = "name"
  /\ UNCHANGED << source, blob, n_io, ios, ndim, dimsRead, engine, err, alloc >>

(* get_u32(namelen), need(namelen), and the copy of the name. *)
ReadName ==
  /\ pc = "name"
  /\ LET namelen == get_u32
     IN  IF ~Need(4) \/ ~Need(4 + namelen)
         THEN Corrupt
         ELSE /\ Get(4 + namelen)
              /\ io' = [io EXCEPT !.name =
                          BytesAt(blob, off + 4, namelen)]
              /\ pc' = "ndim"
              /\ UNCHANGED << source, blob, n_io, ios, ndim, dimsRead,
                              engine, err, alloc >>

(* get_u32(ndim), and the resize of the dims vector before any dimension    *)
(* has been read.                                                           *)
ReadRank ==
  /\ pc = "ndim"
  /\ IF ~Need(4) \/ TooMany(get_u32)
     THEN Corrupt
     ELSE /\ Get(4)
          /\ ndim' = get_u32 /\ dimsRead' = 0
          /\ alloc' = alloc + get_u32
          /\ io' = [io EXCEPT !.dims = [i \in 1 .. get_u32 |-> 0]]
          /\ pc' = "dims"
          /\ UNCHANGED << source, blob, n_io, ios, engine, err >>

(* Mutant: the loop does not count. *)
ReadDim_NoCount ==
  /\ pc = "dims" /\ dimsRead < ndim
  /\ Get(8)
  /\ io' = [io EXCEPT !.dims[dimsRead + 1] = Signed(get_u64)]
  /\ UNCHANGED << source, blob, pc, n_io, ios, ndim, dimsRead, engine, err, alloc >>

(* One iteration of the dimension loop: it looks at the flag only after the *)
(* last iteration, when the next statement does.                            *)
ReadDim ==
  /\ pc = "dims" /\ dimsRead < ndim
  /\ Get(8)
  /\ io' = [io EXCEPT !.dims[dimsRead + 1] = Signed(get_u64)]
  /\ dimsRead' = dimsRead + 1
  /\ UNCHANGED << source, blob, pc, n_io, ios, ndim, engine, err, alloc >>

EndIO ==
  /\ pc = "dims" /\ dimsRead = ndim
  /\ ios' = Append(ios, io)
  /\ io' = NoIO
  /\ pc' = IF Len(ios) + 1 < n_io THEN "tags" ELSE "mxr_len"
  /\ UNCHANGED << source, blob, off, ok, n_io, ndim, dimsRead,
                  engine, err, high, alloc >>

ReadProgramLength ==
  /\ pc = "mxr_len"
  /\ IF ~Need(8) \/ ~Need(8 + get_u64)
     THEN Corrupt
     ELSE /\ Get(8) /\ pc' = "program"
          /\ UNCHANGED << source, blob, n_io, ios, io, ndim, dimsRead,
                          engine, err, alloc >>

(* program_from_bytes: a temporary file, then migraphx::load, which rebuilds *)
(* the program from the bytes or throws.  Which it does is MIGraphX's        *)
(* decision (or the file system's), so both are possible for every program.  *)
LoadProgram ==
  /\ pc = "program"
  /\ LET mxr_len == U64At(blob, off - 8)
         mxr == BytesAt(blob, off, mxr_len)
     IN  \/ /\ engine' = [ios |-> ios, mxr |-> mxr] /\ err' = err
         \/ /\ engine' = NoEngine /\ err' = "exception"
  /\ high' = off + U64At(blob, off - 8)
  /\ pc' = "done"
  /\ UNCHANGED << source, blob, off, ok, n_io, ios, io, ndim, dimsRead, alloc >>

Decode == \/ CheckMagic \/ ReadCount \/ ReadTags \/ ReadElemSize \/ ReadName
          \/ ReadRank \/ ReadDim \/ EndIO \/ ReadProgramLength \/ LoadProgram

(* deserializeCudaEngine has returned. *)
Done == pc = "done" /\ UNCHANGED vars

Next == ReadChunk \/ StopReading \/ Decode \/ Done

Spec == Init /\ [][Next]_vars

(* The call runs on its caller's thread and every read of the reader        *)
(* returns, so the call keeps taking steps.  Nothing is assumed about when  *)
(* the reader stops; its source is finite.                                  *)
FairSpec == Spec /\ WF_vars(ReadChunk \/ StopReading \/ Decode)

-----------------------------------------------------------------------------
(* Properties. *)

(* Types of the decoder's variables: whatever the bytes, every field it     *)
(* decodes has the type of the field in an engine's description.            *)
TypeOK ==
  /\ source \in Seq(Byte) /\ blob \in Seq(Byte)
  /\ pc \in {"stream", "magic", "n_io", "tags", "bpe", "name", "ndim", "dims",
             "mxr_len", "program", "done"}
  /\ off \in Nat /\ ok \in BOOLEAN
  /\ n_io \in Nat /\ ndim \in Nat /\ dimsRead \in Nat
  /\ io \in IORecord /\ ios \in Seq(IORecord)
  /\ engine \in [ios : Seq(IORecord), mxr : Seq(Byte)] \cup {NoEngine}
  /\ err \in {"none", "foreign", "corrupt", "exception"}
  /\ high \in Nat /\ alloc \in Nat

(* load never reads past the end of the caller's buffer, whatever lengths   *)
(* and counts a damaged header announces ("must fail cleanly, not           *)
(* over-read").                                                             *)
InBounds == high <= Len(blob)

(* What load allocates for a blob is linear in the blob's size: a damaged   *)
(* count can neither make it resize the IO vector beyond one record per     *)
(* byte, nor the dims vectors, all records together, beyond one dimension   *)
(* per byte and one per 8 bytes.                                            *)
AllocLinear ==
  /\ n_io <= Len(blob)
  /\ 8 * alloc <= 9 * Len(blob)

(* A blob that load accepts is, up to trailing bytes, exactly what          *)
(* pack_blob writes for the engine it returns: no field is skipped, read    *)
(* twice, or taken from another field's bytes.                              *)
AcceptedIsPacked ==
  engine # NoEngine => IsPrefix(pack_blob(engine), blob)

(* A packed engine of which the stream reader delivered only a part (its    *)
(* error ends the loop like its end does) never becomes an engine.          *)
NeverPartial ==
  \A e \in Engines :
    /\ pack_blob(e) = source
    /\ Len(blob) < Len(source)
    => engine = NoEngine

(* What the builder packed and a caller hands back whole is never called    *)
(* corrupt or foreign, and if MIGraphX accepts the program the engine is    *)
(* the one that was packed.                                                 *)
RoundTrip ==
  \A e \in Engines :
    (pack_blob(e) = blob /\ pc = "done") => (engine = e \/ err = "exception")

(* Every deserialization returns, however the counts and lengths in the     *)
(* blob are damaged.                                                        *)
Returns == <>(pc = "done")
=============================================================================
