------------------------------ MODULE OnnxNames ------------------------------
(***************************************************************************)
(* The names of an engine's outputs: PbReader, onnx_output_names and the    *)
(* naming of split_io (src/backend.cpp).                                    *)
(*                                                                         *)
(* MIGraphX numbers the outputs of a program and does not give their names, *)
(* so they are read from the bytes of the ONNX model: graph (field 7 of the *)
(* model), output (12 of the graph, repeated), name (1 of an output's value *)
(* info).  Everything else is skipped by the length its wire type implies;  *)
(* one field skipped too short or too long, and the rest of the file is     *)
(* read out of step.                                                        *)
(*                                                                         *)
(* There is one reader per message, nested; a reader goes on where the      *)
(* message it has handed to the next one ends.  One action is one byte of a *)
(* varint, or what tag, bytes or skip do once their varint has been read.   *)
(* Positions count the bytes before them.                                   *)
(***************************************************************************)
EXTENDS OnnxEncoding

CONSTANTS
  Models,   \* [data, outputs, fields]: the bytes of a model, the names it gives its
            \* outputs, and the fields it has
  Base,     \* the address of the first byte
  Fallback  \* the name "output_" \o k of the k-th output

Byte == 0 .. 255

ASSUME ModelsAssumption ==
  \A m \in Models : m.data \in Seq(Byte) /\ m.outputs \in Seq(Seq(Byte))
ASSUME EncodingAssumption == \A m \in Models : Encoded(m)
ASSUME AddressAssumption ==
  Base \in Nat /\ \A m \in Models : Base + Len(m.data) < Word

VARIABLES
  model,  \* the model
  level,  \* the reader in use: of the model, the graph or a value info
  p,      \* p_ of each reader
  end,    \* end_ of each reader
  pc,     \* the varint being read: a tag, a length, a value that is skipped
  field,  \* field number of the last tag
  r,      \* varint: the value so far
  place,  \* varint: 2^shift
  more,   \* varint: no byte without the continuation bit has been read yet
  names   \* the names found

vars == << model, level, p, end, pc, field, r, place, more, names >>

Level == { "model", "graph", "value" }
Child == [model |-> "graph", graph |-> "value"]
Wanted == [model |-> 7, graph |-> 12, value |-> 1]

data == model.data

Init ==
  /\ model \in Models
  /\ level = "model"
  /\ p = [l \in Level |-> 0]
  /\ end = [l \in Level |-> IF l = "model" THEN Len(model.data) ELSE 0]
  /\ pc = "tag" /\ field = 0
  /\ r = 0 /\ place = 1 /\ more = TRUE
  /\ names = << >>

-----------------------------------------------------------------------------
(* PbReader. *)

eof == p[level] >= end[level]
Left == end[level] - p[level]

(* Where p_ + len points.  It is a sum of two words: for a length near the   *)
(* largest one it wraps, is no longer beyond the end, and the length stays   *)
(* as it is, so that the reader goes back.  No field of a model that is      *)
(* encoded as EncodingAssumption says has such a length; what a reader does  *)
(* with bytes that are not its own is undefined and not modelled.           *)
Ahead(len) == ((Base + p[level] + len) % Word) - Base
AtMost(len) == IF Ahead(len) > end[level] THEN Left ELSE Ahead(len) - p[level]

(* The loop of varint ends: after the last byte, at the end of the message,  *)
(* or when the shift has reached the width of the word.                     *)
VarintOver == ~more \/ eof \/ place >= Word

NextVarint == r' = 0 /\ place' = 1 /\ more' = TRUE

ReadByte_BigEndian ==   \* mutant: first byte most significant
  /\ pc # "done" /\ ~VarintOver
  /\ LET b == data[p[level] + 1]
     IN  r' = ((r * 128) + (b % 128)) % Word /\ more' = (b >= 128)
  /\ place' = place * 128
  /\ p' = [p EXCEPT ![level] = @ + 1]
  /\ UNCHANGED << model, level, end, pc, field, names >>

ReadByte ==
  /\ pc # "done" /\ ~VarintOver
  /\ LET b == data[p[level] + 1]
     IN  r' = (r + (b % 128) * place) % Word /\ more' = (b >= 128)
  /\ place' = place * 128
  /\ p' = [p EXCEPT ![level] = @ + 1]
  /\ UNCHANGED << model, level, end, pc, field, names >>

(* Bytes of a field that has neither a length nor a varint; one of an        *)
(* unknown wire type ends the message.                                      *)
Width_Fixed32 ==   \* mutant: 32-bit fields skipped as 64-bit ones
  CASE r % 8 \in {1, 5} -> AtMost(8) [] r % 8 \in {0, 2} -> 0 [] OTHER -> Left

Width ==
  CASE r % 8 = 1 -> AtMost(8)
    [] r % 8 = 5 -> AtMost(4)
    [] r % 8 \in {0, 2} -> 0
    [] OTHER -> Left

(* tag has its varint; skip for the wire types without one.                  *)
ReadTag ==
  /\ pc = "tag" /\ place > 1 /\ VarintOver
  /\ field' = (r \div 8) % FieldWord
  /\ pc' = CASE r % 8 = 0 -> "varint" [] r % 8 = 2 -> "length" [] OTHER -> "tag"
  /\ p' = [p EXCEPT ![level] = @ + Width]
  /\ NextVarint
  /\ UNCHANGED << model, level, end, names >>

(* skip of a varint.                                                        *)
SkipVarint ==
  /\ pc = "varint" /\ VarintOver
  /\ pc' = "tag"
  /\ NextVarint
  /\ UNCHANGED << model, level, p, end, field, names >>

-----------------------------------------------------------------------------
(* onnx_output_names. *)

(* bytes has its length, and the field is not the one looked for.            *)
SkipBytes ==
  /\ pc = "length" /\ VarintOver /\ field # Wanted[level]
  /\ p' = [p EXCEPT ![level] = @ + AtMost(r)]
  /\ pc' = "tag"
  /\ NextVarint
  /\ UNCHANGED << model, level, end, field, names >>

Enter_ParentsEnd ==   \* mutant: the nested reader is not given the length
  /\ pc = "length" /\ VarintOver /\ field = Wanted[level] /\ level # "value"
  /\ level' = Child[level]
  /\ p' = [p EXCEPT ![level] = @ + AtMost(r), ![Child[level]] = p[level]]
  /\ end' = [end EXCEPT ![Child[level]] = end[level]]
  /\ pc' = "tag"
  /\ NextVarint
  /\ UNCHANGED << model, field, names >>

Enter_AfterAdvance ==   \* mutant: the end counted from the advanced position
  /\ pc = "length" /\ VarintOver /\ field = Wanted[level] /\ level # "value"
  /\ level' = Child[level]
  /\ p' = [p EXCEPT ![level] = @ + AtMost(r), ![Child[level]] = p[level]]
  /\ end' = [end EXCEPT ![Child[level]] = p[level] + 2 * AtMost(r)]
  /\ pc' = "tag"
  /\ NextVarint
  /\ UNCHANGED << model, field, names >>

(* The graph, or the value info of an output: a reader of its own.           *)
Enter ==
  /\ pc = "length" /\ VarintOver /\ field = Wanted[level] /\ level # "value"
  /\ level' = Child[level]
  /\ p' = [p EXCEPT ![level] = @ + AtMost(r), ![Child[level]] = p[level]]
  /\ end' = [end EXCEPT ![Child[level]] = p[level] + AtMost(r)]
  /\ pc' = "tag"
  /\ NextVarint
  /\ UNCHANGED << model, field, names >>

FoundName ==
  /\ pc = "length" /\ VarintOver /\ field = Wanted[level] /\ level = "value"
  /\ names' = Append(names, SubSeq(data, p[level] + 1, p[level] + AtMost(r)))
  /\ p' = [p EXCEPT ![level] = @ + AtMost(r)]
  /\ pc' = "tag"
  /\ NextVarint
  /\ UNCHANGED << model, level, end, field >>

EndMessage_Again ==   \* mutant: tag does not look for the end
  /\ pc = "tag" /\ place = 1 /\ eof
  /\ level' = IF level = "value" THEN "graph" ELSE level
  /\ UNCHANGED << model, p, end, pc, field, r, place, more, names >>

(* tag finds the message at its end.  Only the loop over a value info has    *)
(* another one around it: the model's was left when the graph was found.     *)
EndMessage ==
  /\ pc = "tag" /\ place = 1 /\ eof
  /\ IF level = "value"
     THEN level' = "graph" /\ pc' = pc
     ELSE level' = level /\ pc' = "done"
  /\ UNCHANGED << model, p, end, field, r, place, more, names >>

(* split_io: the name of the k-th output.                                   *)
OutputName(k) ==
  IF k <= Len(names) /\ names[k] # << >> THEN names[k] ELSE Fallback[k]

Done == pc = "done" /\ UNCHANGED vars

Step ==
  \/ ReadByte
  \/ ReadTag
  \/ SkipVarint
  \/ SkipBytes
  \/ Enter
  \/ FoundName
  \/ EndMessage

Next == Step \/ Done

Spec == Init /\ [][Next]_vars

(* One thread, in a loop that does not wait for anything.                    *)
FairSpec == Spec /\ WF_vars(Step)

-----------------------------------------------------------------------------
(* Properties. *)

(* The variables keep their types, and no reader is given bytes that the     *)
(* model does not have.                                                     *)
TypeOK ==
  /\ data \in Seq(Byte) /\ model.outputs \in Seq(Seq(Byte))
  /\ level \in Level
  /\ p \in [Level -> 0 .. Len(data)]
  /\ end \in [Level -> 0 .. Len(data)]
  /\ pc \in { "tag", "length", "varint", "done" }
  /\ field \in Nat /\ r \in Nat /\ place \in Nat \ {0} /\ more \in BOOLEAN
  /\ names \in Seq(Seq(Byte))

(* Readers are nested: one in use has not passed its end, and it ends exactly *)
(* where the reader around it goes on, so no byte is read twice for its own  *)
(* sake or left out.                                                        *)
Nested ==
  /\ p[level] <= end[level]
  /\ level = "value" => end["value"] = p["graph"] /\ p["graph"] <= end["graph"]
  /\ level # "model" => end["graph"] = p["model"] /\ p["model"] <= end["model"]

(* The engine's outputs have "the real ONNX names" (src/backend.cpp:22-24),   *)
(* each its own: for a model whose outputs are all named, whatever other     *)
(* fields its messages have, in whatever order.                             *)
RealNames ==
  pc = "done" =>
    /\ Len(names) = Len(model.outputs)
    /\ \A k \in DOMAIN model.outputs :
         OutputName(k) = IF model.outputs[k] = << >> THEN Fallback[k] ELSE model.outputs[k]

(* Nothing is ever taken for a name that is not one, nor a name passed over:  *)
(* at any time the names found are the first ones of the model.             *)
NeverOutOfStep ==
  /\ Len(names) <= Len(model.outputs)
  /\ names = SubSeq(model.outputs, 1, Len(names))

(* The walk ends on every model.                                            *)
Returns == <>(pc = "done")
=============================================================================
