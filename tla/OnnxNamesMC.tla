----------------------------- MODULE OnnxNamesMC -----------------------------
(* Instances of OnnxNames for TLC: models with up to three fields in the     *)
(* graph and others around it, encoded as protobuf encodes them, and a word  *)
(* of 17 bits, so that a varint has up to three bytes.                      *)
EXTENDS OnnxNames, SequencesExt

MCWord == 131072

(* A varint of a value, in as few bytes as it takes or with one to spare.    *)
Shortest(v) == IF v < 128 THEN << v >> ELSE << 128 + (v % 128), v \div 128 >>
Padded(v) == << 128 + (v % 128), v \div 128 >>

(* A field, before it has its place in a model.                              *)
MCField(num, wire, value, rest) ==
  [num |-> num, wire |-> wire, value |-> value,
   tag |-> Shortest(8 * num + wire), rest |-> rest,
   fields |-> << >>, outputs |-> << >>]
BytesOf(f) == f.tag \o f.rest
MCDelimited(num, body) == MCField(num, 2, Len(body), Shortest(Len(body)) \o body)
PaddedField(num, body) == MCField(num, 2, Len(body), Padded(Len(body)) \o body)

Bytes(fields) == FlattenSeq([i \in DOMAIN fields |-> BytesOf(fields[i])])
OutputNames(fields) == FlattenSeq([i \in DOMAIN fields |-> fields[i].outputs])

(* Value infos: the name first or last, next to a type (2) that holds a field *)
(* 1 of its own; an output with two names would not be one.                 *)
Name(s) == MCDelimited(1, s)
Type == MCDelimited(2, BytesOf(Name(<< 9 >>)))
Output(fields, s) ==
  [MCDelimited(12, Bytes(fields)) EXCEPT !.fields = fields, !.outputs = << s >>]
NameFirst(s) == Output(<< Name(s), Type >>, s)
NameLast(s) == Output(<< Type, PaddedField(1, s) >>, s)

(* A node (1) and an input (11), with bytes that would be an output, were    *)
(* they read as the graph's; a 32-bit and a 64-bit field (of numbers that    *)
(* ONNX does not use), with bytes that would be tags; a varint of two bytes  *)
(* and the largest one; an output with an empty name.                       *)
Noise ==
  { MCDelimited(1, BytesOf(NameFirst(<< 8 >>))),
    MCDelimited(11, Bytes(<< Name(<< 7 >>), Type >>)),
    MCField(20, 5, 0, << 98, 3, 10, 1 >>),
    MCField(20, 1, 0, << 98, 6, 98, 4, 10, 2, 10, 0 >>),
    MCField(21, 0, 98, << 226, 0 >>),
    MCField(21, 0, 131071, << 255, 255, 7 >>) }
OutputFields ==
  { NameFirst(<< 1 >>), NameLast(<< 2, 98 >>), Output(<< Name(<< >>) >>, << >>) }

MCGraph(fields) ==
  [PaddedField(7, Bytes(fields)) EXCEPT !.fields = fields, !.outputs = OutputNames(fields)]

(* Fields of the model around the graph: a version, and delimited (8) and     *)
(* 32-bit ones that look like a graph inside.                               *)
Import == << MCDelimited(8, << 58, 2, 98, 0 >>) >>
Leading ==
  { << >>, << MCField(1, 0, 8, << 8 >>) >>, Import, << MCField(20, 5, 0, << 58, 1, 0, 0 >>) >> }
Trailing == { << >>, Import }

(* The fields that start at from, each with its place in the bytes.          *)
RECURSIVE Placed(_, _)
Placed(fields, from) ==
  [i \in DOMAIN fields |->
     LET f == fields[i]
         at == from + Len(Bytes(SubSeq(fields, 1, i - 1)))
         next == at + Len(BytesOf(f))
     IN  [num |-> f.num, wire |-> f.wire, value |-> f.value,
          at |-> at, tagged |-> at + Len(f.tag), next |-> next,
          fields |-> Placed(f.fields, next - f.value)]]

MCModel(fields) ==
  [data |-> Bytes(fields), outputs |-> OutputNames(fields), fields |-> Placed(fields, 0)]

(* Up to two fields of any kind, or something between two outputs.           *)
GraphFields ==
  BoundedSeq(Noise \cup OutputFields, 2)
    \cup { << a, x, b >> : a, b \in OutputFields, x \in Noise }

MCModels ==
  { MCModel(before \o << MCGraph(fields) >> \o after) :
      fields \in GraphFields,
      before \in Leading, after \in Trailing }

MCFallback == [k \in 1 .. 3 |-> << 111, 47 + k >>]
=============================================================================
