---------------------------- MODULE EngineFormat ----------------------------
(***************************************************************************)
(* The serialized-engine format of src/backend.cpp: what pack_blob writes   *)
(* and how the two fixed-width readers of load turn bytes into integers.    *)
(*                                                                         *)
(* A byte has Radix values (256 in the program).  The field widths are the  *)
(* program's: 4 bytes for a uint32_t, 8 for a uint64_t, 1 for the           *)
(* direction and for the datatype.  Only the number of values of a byte is  *)
(* a parameter, so that TLC can enumerate corrupted fields.                 *)
(***************************************************************************)
EXTENDS Integers, Sequences, SequencesExt

CONSTANTS Radix,    \* number of values of a byte
          kMagic    \* the header, a sequence of bytes

ASSUME RadixAssumption == Radix \in Nat /\ Radix >= 2

Byte == 0 .. Radix - 1

ASSUME MagicAssumption == kMagic \in Seq(Byte)

(* Number of values of a uint32_t and of a uint64_t. *)
U32Values == Radix * Radix * Radix * Radix
U64Values == U32Values * U32Values

(***************************************************************************)
(* Writing.  put_u32 and put_u64 append the bytes of an unsigned integer,   *)
(* least significant first (the program runs on little-endian hosts); what  *)
(* does not fit the width is cut off, and a negative integer is written as  *)
(* its two's complement.                                                    *)
(***************************************************************************)
put_u32(v) ==
  LET v1 == v \div Radix
      v2 == v1 \div Radix
      v3 == v2 \div Radix
  IN  << v % Radix, v1 % Radix, v2 % Radix, v3 % Radix >>

put_u64(v) == put_u32(v) \o put_u32(v \div U32Values)

(* One IO record; the casts to char keep the low byte of dir and datatype.  *)
(* An int64_t dimension is written as its two's complement.                 *)
PackIO(io) ==
  << io.dir % Radix, io.datatype % Radix >>
    \o put_u32(io.bytes_per_elem)
    \o put_u32(Len(io.name)) \o io.name
    \o put_u32(Len(io.dims))
    \o FlattenSeq([i \in DOMAIN io.dims |-> put_u64(io.dims[i])])

(* The blob of an engine [ios, mxr]: magic, IO records, MIGraphX program.   *)
pack_blob(e) ==
  kMagic
    \o put_u32(Len(e.ios))
    \o FlattenSeq([i \in DOMAIN e.ios |-> PackIO(e.ios[i])])
    \o put_u64(Len(e.mxr)) \o e.mxr

(***************************************************************************)
(* Reading.  ByteAt(b, i) is b's i-th byte.  Memory past the end of the     *)
(* blob has some value too, here 0: that no read ever touches it is an      *)
(* invariant of EngineLoad, not an assumption of these operators.           *)
(***************************************************************************)
ByteAt_SignedChar(b, i) ==   \* mutant: bytes are read as signed char
  IF i \in 1 .. Len(b) THEN IF 2 * b[i] < Radix THEN b[i] ELSE b[i] - Radix
                       ELSE 0

ByteAt(b, i) == IF i \in 1 .. Len(b) THEN b[i] ELSE 0

(* The k bytes from position off on. *)
BytesAt(b, off, k) == [i \in 1 .. k |-> ByteAt(b, off + i)]

U32At(b, off) ==
  ByteAt(b, off + 1)
    + Radix * (ByteAt(b, off + 2)
    + Radix * (ByteAt(b, off + 3)
    + Radix *  ByteAt(b, off + 4)))

U64At(b, off) == U32At(b, off) + U32Values * U32At(b, off + 4)

Signed_Dropped(d) == d   \* mutant: dimensions stay unsigned

(* static_cast<int64_t> of a uint64_t. *)
Signed(d) == IF 2 * d < U64Values THEN d ELSE d - U64Values
=============================================================================
