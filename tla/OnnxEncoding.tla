---------------------------- MODULE OnnxEncoding ----------------------------
(***************************************************************************)
(* What the reader of src/backend.cpp relies on: how the fields of an ONNX   *)
(* model stand in its bytes.  This is protobuf's wire format, which the      *)
(* repository reads and does not write.                                     *)
(*                                                                         *)
(* A field is a record of its number, its wire type, its value (that of a    *)
(* varint, or the length of a delimited field), the fields of its body, and  *)
(* where it stands: the bytes before it (at), before its value (tagged) and  *)
(* before the next one (next).                                              *)
(***************************************************************************)
EXTENDS Integers, Sequences, FiniteSets

CONSTANTS
  Word,       \* number of values of a uint64_t
  FieldWord   \* number of values of a uint32_t

ASSUME WordAssumption == Word \in Nat \ {0} /\ FieldWord \in Nat \ {0}

(* Seven bits to a byte, the lowest ones first.                             *)
Scale[k \in Nat] == IF k = 0 THEN 1 ELSE 128 * Scale[k - 1]

(* The bytes after a, up to b, are a varint of the value v: every one but    *)
(* the last has the continuation bit.  They may be more than v takes, but    *)
(* not so many that the shift of the last one reaches the width of a word.   *)
Varint(d, a, b, v) ==
  /\ a < b /\ b <= Len(d)
  /\ v < Word /\ v < Scale[b - a]
  /\ \A i \in a .. b - 1 :
       /\ Scale[i - a] < Word
       /\ d[i + 1] = ((v \div Scale[i - a]) % 128) + (IF i < b - 1 THEN 128 ELSE 0)

Field(d, f) ==
  /\ f.num \in Nat /\ f.num < FieldWord /\ f.value \in Nat
  /\ f.at \in Nat /\ f.tagged \in Nat /\ f.next \in Nat
  /\ Varint(d, f.at, f.tagged, 8 * f.num + f.wire)
  /\ \/ f.wire = 0 /\ Varint(d, f.tagged, f.next, f.value)
     \/ f.wire = 1 /\ f.next = f.tagged + 8
     \/ f.wire = 5 /\ f.next = f.tagged + 4
     \/ f.wire = 2 /\ Varint(d, f.tagged, f.next - f.value, f.value)

(* Bytes before the body of a delimited field.                              *)
Body(f) == f.next - f.value

(* Bytes before the i-th of the fields that start at from.                  *)
Start(fields, from, i) == IF i = 1 THEN from ELSE fields[i - 1].next

(* The bytes after from, up to to, are these fields, one after the other.    *)
Message(d, from, to, fields) ==
  /\ Len(fields) \in Nat
  /\ \A i \in 1 .. Len(fields) :
       Field(d, fields[i]) /\ fields[i].at = Start(fields, from, i)
  /\ Start(fields, from, Len(fields) + 1) = to

Delimited(f, num) == f.num = num /\ f.wire = 2

(* The value info of an output: one name (1) among other fields.             *)
ValueInfo(d, f, name) ==
  /\ Message(d, Body(f), f.next, f.fields)
  /\ \E n \in 1 .. Len(f.fields) :
       /\ \A j \in 1 .. Len(f.fields) : Delimited(f.fields[j], 1) <=> j = n
       /\ name = SubSeq(d, Body(f.fields[n]) + 1, f.fields[n].next)

(* The outputs (12) among the first i fields of a graph.                     *)
Outputs(fields, i) == { j \in 1 .. i : Delimited(fields[j], 12) }

(* A graph whose outputs have these names, in this order.                    *)
Graph(d, f, names) ==
  /\ Message(d, Body(f), f.next, f.fields)
  /\ Len(names) = Cardinality(Outputs(f.fields, Len(f.fields)))
  /\ \A i \in Outputs(f.fields, Len(f.fields)) :
       ValueInfo(d, f.fields[i], names[Cardinality(Outputs(f.fields, i))])

(* The first graph (7) of a model.                                          *)
IsGraph(fields, g) ==
  /\ g \in 1 .. Len(fields)
  /\ \A i \in 1 .. g : Delimited(fields[i], 7) <=> i = g

(* A model, as a file holds it: what its bytes are, and what they say.       *)
Encoded(m) ==
  /\ Message(m.data, 0, Len(m.data), m.fields)
  /\ \E g \in 1 .. Len(m.fields) :
       IsGraph(m.fields, g) /\ Graph(m.data, m.fields[g], m.outputs)
=============================================================================
