-------------------------- MODULE OnnxNames_proofs --------------------------
(***************************************************************************)
(* For every model that is encoded as OnnxEncoding says, with any number of  *)
(* fields of any kind in any order, any width of the words, and any address: *)
(* each reader is always where its message has a field (InStep), so that it  *)
(* is never asked for more than it has (InBounds), the readers stay inside   *)
(* the model, each nested one inside the message it was made for (IInv), and *)
(* the names found are the model's.                                         *)
(***************************************************************************)
EXTENDS OnnxNames, SequenceLemmas, FiniteSetTheorems

(* The model does not change, so its types are those of Models.              *)
IInv == model \in Models /\ TypeOK /\ Nested

(* What a varint asks for, once it has been read, is left of the message.  It *)
(* is not inductive with IInv: only where the reader stands shows it.        *)
InBounds ==
  /\ pc = "tag" /\ place > 1 /\ VarintOver => Width \in 0 .. end[level] - p[level]
  /\ pc = "length" /\ VarintOver => AtMost(r) \in 0 .. end[level] - p[level]

LEMMA InitIInv == Init => IInv
<1>. SUFFICES ASSUME Init PROVE IInv
  OBVIOUS
<1>1. model.data \in Seq(Byte) /\ model.outputs \in Seq(Seq(Byte)) /\ Len(model.data) \in Nat
  BY ModelsAssumption DEF Init
<1>. QED
  BY <1>1 DEF Init, IInv, TypeOK, Nested, Level, data

(* The reader in use goes on by no more than what is left of its message, and *)
(* the others stay where they are.                                          *)
LEMMA Advance ==
  ASSUME IInv, NEW len \in 0 .. end[level] - p[level],
         p' = [p EXCEPT ![level] = @ + len],
         UNCHANGED << model, level, end >>
  PROVE  p' \in [Level -> 0 .. Len(data)] /\ Nested'
<1>1. Len(data) \in Nat
  BY DEF IInv, TypeOK
<1>2. p[level] + len \in 0 .. Len(data) /\ p[level] + len <= end[level]
  BY <1>1 DEF IInv, TypeOK, Nested
<1>3. p' \in [Level -> 0 .. Len(data)]
  BY <1>2 DEF IInv, TypeOK
<1>4. Nested'
  BY <1>2 DEF IInv, TypeOK, Nested, Level
<1>. QED
  BY <1>3, <1>4

LEMMA NextIInv == IInv /\ InBounds /\ [Next]_vars => IInv'
<1>. SUFFICES ASSUME IInv, InBounds, [Next]_vars PROVE IInv'
  OBVIOUS
<1>. USE DEF data
<1>0. /\ Len(data) \in Nat
      /\ level \in Level /\ p[level] \in 0 .. Len(data) /\ end[level] \in 0 .. Len(data)
      /\ r \in Nat
  BY DEF IInv, TypeOK
<1>1. CASE ReadByte
  <2>1. 1 \in 0 .. end[level] - p[level]
    BY <1>0, <1>1 DEF ReadByte, VarintOver, eof
  <2>2. p' \in [Level -> 0 .. Len(data)] /\ Nested'
    BY <1>1, <2>1, Advance DEF ReadByte
  <2>3. data[p[level] + 1] \in Byte
    BY <1>0, <2>1 DEF IInv, TypeOK
  <2>4. r' \in Nat /\ place' \in Nat \ {0} /\ more' \in BOOLEAN
    <3>. DEFINE b == data[p[level] + 1]
    <3>1. b % 128 \in Nat
      BY <2>3 DEF Byte
    <3>2. \A x, y \in Nat : x * y \in Nat
      OBVIOUS
    <3>3. r + ((b % 128) * place) \in Nat
      <4>1. place \in Nat
        BY DEF IInv, TypeOK
      <4>2. (b % 128) * place \in Nat
        BY <3>1, <3>2, <4>1
      <4>. QED
        BY <1>0, <4>2
    <3>4. \A x \in Nat : x % Word \in Nat
      BY WordAssumption
    <3>5. place' \in Nat \ {0}
      BY <1>1 DEF ReadByte, IInv, TypeOK
    <3>. QED
      BY <1>1, <3>3, <3>4, <3>5 DEF ReadByte
  <2>. QED
    BY <1>1, <2>2, <2>4 DEF ReadByte, IInv, TypeOK
<1>2. CASE ReadTag
  <2>1. Width \in 0 .. end[level] - p[level]
    BY <1>2 DEF InBounds, ReadTag
  <2>2. p' \in [Level -> 0 .. Len(data)] /\ Nested'
    BY <1>2, <2>1, Advance DEF ReadTag
  <2>3. (r \div 8) % FieldWord \in Nat
    <3>1. r \div 8 \in Nat
      BY <1>0
    <3>2. \A x \in Nat : x % FieldWord \in Nat
      BY WordAssumption
    <3>. QED
      BY <3>1, <3>2
  <2>4. pc' \in { "tag", "length", "varint", "done" }
    BY <1>2 DEF ReadTag
  <2>. QED
    BY <1>2, <2>2, <2>3, <2>4 DEF ReadTag, NextVarint, IInv, TypeOK
<1>3. CASE SkipVarint
  BY <1>3 DEF SkipVarint, NextVarint, IInv, TypeOK, Nested
<1>4. CASE SkipBytes
  <2>1. AtMost(r) \in 0 .. end[level] - p[level]
    BY <1>4 DEF InBounds, SkipBytes
  <2>2. p' \in [Level -> 0 .. Len(data)] /\ Nested'
    BY <1>4, <2>1, Advance DEF SkipBytes
  <2>. QED
    BY <1>4, <2>2 DEF SkipBytes, NextVarint, IInv, TypeOK
<1>5. CASE Enter
  <2>. DEFINE len == AtMost(r)
              child == Child[level]
  <2>1. len \in 0 .. end[level] - p[level]
    BY <1>5 DEF InBounds, Enter
  <2>2. /\ level \in {"model", "graph"}
        /\ child = IF level = "model" THEN "graph" ELSE "value"
    BY <1>0, <1>5 DEF Enter, Level, Child
  <2>3. p[level] + len \in 0 .. Len(data) /\ p[level] + len <= end[level]
    BY <1>0, <2>1
  <2>. HIDE DEF len
  <2>4. p' = [p EXCEPT ![level] = p[level] + len, ![child] = p[level]]
    BY <1>5 DEF Enter, len
  <2>5. end' = [end EXCEPT ![child] = p[level] + len]
    BY <1>5 DEF Enter, len
  <2>6. level' = child /\ child \in Level /\ child # level
    BY <1>5, <2>2 DEF Enter, Level
  <2>7. p' \in [Level -> 0 .. Len(data)] /\ end' \in [Level -> 0 .. Len(data)]
    BY <1>0, <2>3, <2>4, <2>5, <2>6 DEF IInv, TypeOK
  <2>8. Nested'
    <3>1. CASE level = "model"
      <4>1. /\ level' = "graph" /\ p' = [p EXCEPT !["model"] = p["model"] + len, !["graph"] = p["model"]]
            /\ end' = [end EXCEPT !["graph"] = p["model"] + len]
        BY <2>2, <2>4, <2>5, <2>6, <3>1
      <4>. QED
        BY <1>0, <2>1, <2>3, <3>1, <4>1 DEF IInv, TypeOK, Nested, Level
    <3>2. CASE level = "graph"
      <4>1. /\ level' = "value" /\ p' = [p EXCEPT !["graph"] = p["graph"] + len, !["value"] = p["graph"]]
            /\ end' = [end EXCEPT !["value"] = p["graph"] + len]
        BY <2>2, <2>4, <2>5, <2>6, <3>2
      <4>2. /\ p'["model"] = p["model"] /\ p'["graph"] = p["graph"] + len /\ p'["value"] = p["graph"]
            /\ end'["model"] = end["model"] /\ end'["graph"] = end["graph"]
            /\ end'["value"] = p["graph"] + len
        BY <4>1 DEF IInv, TypeOK, Level
      <4>3. end["graph"] = p["model"] /\ p["model"] <= end["model"]
        BY <3>2 DEF IInv, Nested
      <4>4. p["graph"] + len <= end["graph"] /\ p["graph"] <= p["graph"] + len
        BY <1>0, <2>1, <2>3, <3>2
      <4>. QED
        BY <4>1, <4>2, <4>3, <4>4 DEF Nested
    <3>. QED
      BY <2>2, <3>1, <3>2
  <2>9. /\ model' = model /\ pc' = "tag" /\ field' = field /\ names' = names
        /\ r' = 0 /\ place' = 1 /\ more' = TRUE
    BY <1>5 DEF Enter, NextVarint
  <2>. QED
    BY <2>6, <2>7, <2>8, <2>9 DEF IInv, TypeOK
<1>6. CASE FoundName
  <2>1. AtMost(r) \in 0 .. end[level] - p[level]
    BY <1>6 DEF InBounds, FoundName
  <2>2. p' \in [Level -> 0 .. Len(data)] /\ Nested'
    BY <1>6, <2>1, Advance DEF FoundName
  <2>3. SubSeq(data, p[level] + 1, p[level] + AtMost(r)) \in Seq(Byte)
    <3>1. \A i \in p[level] + 1 .. p[level] + AtMost(r) : data[i] \in Byte
      BY <1>0, <2>1 DEF IInv, TypeOK
    <3>. QED
      BY <1>0, <2>1, <3>1 DEF IInv, TypeOK
  <2>4. names' \in Seq(Seq(Byte))
    BY <1>6, <2>3 DEF FoundName, IInv, TypeOK
  <2>. QED
    BY <1>6, <2>2, <2>4 DEF FoundName, NextVarint, IInv, TypeOK
<1>7. CASE EndMessage
  BY <1>7 DEF EndMessage, eof, IInv, TypeOK, Nested, Level
<1>8. CASE UNCHANGED vars
  BY <1>8 DEF vars, IInv, TypeOK, Nested
<1>. QED
  BY <1>1, <1>2, <1>3, <1>4, <1>5, <1>6, <1>7, <1>8 DEF Next, Step, Done

(***************************************************************************)
(* In step.                                                                 *)
(***************************************************************************)

(* Part of the bytes of a varint have been read, and r is what they say.     *)
InVarint(a, b, v) ==
  /\ p[level] \in a .. b /\ (more <=> p[level] < b)
  /\ place = Scale[p[level] - a] /\ r = v % place

(* The reader in use stands in a field, in the part of it that pc says.      *)
InField(f) ==
  \/ pc = "tag" /\ InVarint(f.at, f.tagged, 8 * f.num + f.wire)
  \/ pc = "length" /\ f.wire = 2 /\ field = f.num /\ InVarint(f.tagged, Body(f), f.value)
  \/ pc = "varint" /\ f.wire = 0 /\ InVarint(f.tagged, f.next, f.value)

AtTag == pc = "tag" /\ r = 0 /\ place = 1 /\ more

(* It stands in the i-th of these fields, or after the last one.             *)
At(F, i) ==
  \/ i \in 1 .. Len(F) /\ InField(F[i])
  \/ i = Len(F) + 1 /\ AtTag /\ p[level] = end[level]

(* The outputs of a graph before its i-th field, and the names of a value     *)
(* info before its j-th one.                                                *)
Before(G, i) == Cardinality(Outputs(G.fields, i - 1))
Named(V, j) == IF \E n \in 1 .. j - 1 : Delimited(V.fields[n], 1) THEN 1 ELSE 0

InModel(F, g) ==
  /\ level = "model" /\ end["model"] = Len(data) /\ names = << >>
  /\ \E i \in 1 .. g : At(F, i)

InGraph(G, N) ==
  /\ level = "graph" /\ end["graph"] = G.next
  /\ \E i \in 1 .. Len(G.fields) + 1 :
       At(G.fields, i) /\ names = SubSeq(N, 1, Before(G, i))

InOutput(V, n, N) ==
  /\ p["graph"] = V.next /\ end["value"] = V.next
  /\ \E j \in 1 .. Len(V.fields) + 1 :
       At(V.fields, j) /\ names = SubSeq(N, 1, n + Named(V, j))

InValue(G, N) ==
  /\ level = "value" /\ end["graph"] = G.next
  /\ \E i \in Outputs(G.fields, Len(G.fields)) : InOutput(G.fields[i], Before(G, i), N)

(* Each reader in use is where its message has a field, or the end of one,    *)
(* and the names found are those of the outputs that are behind it.          *)
Stands(F, g, N) ==
  \/ pc = "done" /\ names = N
  \/ pc # "done" /\ (InModel(F, g) \/ InGraph(F[g], N) \/ InValue(F[g], N))

InStep ==
  \E g \in 1 .. Len(model.fields) :
    /\ IsGraph(model.fields, g) /\ Graph(data, model.fields[g], model.outputs)
    /\ Stands(model.fields, g, model.outputs)

(***************************************************************************)
(* Varints: the places of their bytes, and what the first of them say.       *)
(***************************************************************************)

(* Scale, as far as n.                                                      *)
Scales(f, n) == f = [k \in 0 .. n |-> IF k = 0 THEN 1 ELSE 128 * f[k - 1]]

LEMMA ScalesExist == \A n \in Nat : \E f : Scales(f, n)
<1>. DEFINE S == { n \in Nat : \E f : Scales(f, n) }
<1>1. 0 \in S
  <2>1. Scales([k \in 0 .. 0 |-> 1], 0)
    BY DEF Scales
  <2>. QED
    BY <2>1
<1>2. ASSUME NEW n \in Nat, n \in S
      PROVE  n + 1 \in S
  <2>1. PICK f : Scales(f, n)
    BY <1>2
  <2>. DEFINE g == [k \in 0 .. n + 1 |-> IF k = n + 1 THEN 128 * f[n] ELSE f[k]]
  <2>2. \A k \in 0 .. n : k \in 0 .. n + 1 /\ k # n + 1 /\ g[k] = f[k]
    OBVIOUS
  <2>3. ASSUME NEW k \in 0 .. n + 1
        PROVE  g[k] = IF k = 0 THEN 1 ELSE 128 * g[k - 1]
    <3>1. CASE k = n + 1
      BY <2>2, <3>1
    <3>2. CASE k # n + 1
      <4>1. k \in 0 .. n /\ (k # 0 => k - 1 \in 0 .. n)
        BY <3>2
      <4>2. f[k] = IF k = 0 THEN 1 ELSE 128 * f[k - 1]
        BY <2>1, <4>1 DEF Scales
      <4>. HIDE DEF g
      <4>. QED
        BY <2>2, <4>1, <4>2
    <3>. QED
      BY <3>1, <3>2
  <2>4. Scales(g, n + 1)
    BY <2>3 DEF Scales
  <2>. QED
    BY <2>4
<1>3. Nat \subseteq S
  <2>. HIDE DEF S
  <2>. QED
    BY <1>1, <1>2, SetInduction
<1>. QED
  BY <1>3

LEMMA ScalesAgree ==
  ASSUME NEW n \in Nat, NEW m \in Nat, NEW f, NEW g, Scales(f, n), Scales(g, m), n <= m
  PROVE  \A k \in 0 .. n : f[k] = g[k]
<1>. DEFINE S == { k \in Nat : k <= n => f[k] = g[k] }
<1>1. 0 \in S
  BY DEF Scales
<1>2. ASSUME NEW k \in Nat, k \in S
      PROVE  k + 1 \in S
  <2>1. SUFFICES ASSUME k + 1 <= n PROVE f[k + 1] = g[k + 1]
    OBVIOUS
  <2>2. k + 1 \in 0 .. n /\ k + 1 \in 0 .. m /\ k + 1 # 0 /\ (k + 1) - 1 = k
    BY <2>1
  <2>3. f[k + 1] = 128 * f[k] /\ g[k + 1] = 128 * g[k]
    BY <2>2 DEF Scales
  <2>. QED
    BY <1>2, <2>1, <2>3
<1>3. Nat \subseteq S
  <2>. HIDE DEF S
  <2>. QED
    BY <1>1, <1>2, SetInduction
<1>. QED
  BY <1>3

LEMMA ScaleIs == Scale = [k \in Nat |-> IF k = 0 THEN 1 ELSE 128 * Scale[k - 1]]
<1>. DEFINE part(n) == CHOOSE f : Scales(f, n)
            h == [k \in Nat |-> part(k)[k]]
<1>1. \A n \in Nat : Scales(part(n), n)
  BY ScalesExist
<1>2. ASSUME NEW k \in Nat
      PROVE  h[k] = IF k = 0 THEN 1 ELSE 128 * h[k - 1]
  <2>1. part(k)[k] = IF k = 0 THEN 1 ELSE 128 * part(k)[k - 1]
    <3>1. Scales(part(k), k)
      BY <1>1
    <3>. HIDE DEF part
    <3>. QED
      BY <3>1 DEF Scales
  <2>2. ASSUME k # 0 PROVE part(k)[k - 1] = part(k - 1)[k - 1]
    <3>1. k - 1 \in Nat /\ k - 1 <= k /\ k - 1 \in 0 .. k - 1
      BY <2>2
    <3>2. Scales(part(k - 1), k - 1) /\ Scales(part(k), k)
      BY <1>1, <3>1
    <3>. HIDE DEF part
    <3>. QED
      BY <3>1, <3>2, ScalesAgree
  <2>3. k # 0 => k - 1 \in Nat
    OBVIOUS
  <2>. HIDE DEF part
  <2>. QED
    BY <2>1, <2>2, <2>3
<1>3. h = [k \in Nat |-> IF k = 0 THEN 1 ELSE 128 * h[k - 1]]
  <2>. HIDE DEF part
  <2>. QED
    BY <1>2
<1>. HIDE DEF h
<1>. QED
  BY <1>3 DEF Scale

(* The places grow, each by seven bits.                                     *)
LEMMA ScaleNext ==
  /\ Scale[0] = 1
  /\ \A k \in Nat : Scale[k] \in Nat \ {0} /\ Scale[k + 1] = Scale[k] * 128
<1>1. Scale[0] = 1
  BY ScaleIs
<1>2. \A k \in Nat : Scale[k + 1] = 128 * Scale[k]
  <2>. TAKE k \in Nat
  <2>1. k + 1 \in Nat /\ k + 1 # 0 /\ (k + 1) - 1 = k
    OBVIOUS
  <2>. QED
    BY <2>1, ScaleIs
<1>. DEFINE S == { k \in Nat : Scale[k] \in Nat \ {0} }
<1>3. 0 \in S
  BY <1>1
<1>4. ASSUME NEW k \in Nat, k \in S
      PROVE  k + 1 \in S
  BY <1>2, <1>4
<1>5. Nat \subseteq S
  <2>. HIDE DEF S
  <2>. QED
    BY <1>3, <1>4, SetInduction
<1>6. ASSUME NEW k \in Nat PROVE Scale[k] \in Nat \ {0} /\ Scale[k + 1] = Scale[k] * 128
  <2>1. Scale[k] \in Nat \ {0}
    BY <1>5
  <2>. QED
    BY <1>2, <2>1
<1>. QED
  BY <1>1, <1>6

(* Only the first byte has the place 1: the others have a larger one.        *)
LEMMA ScaleOne ==
  \A k \in Nat : k # 0 => Scale[k] >= 128
<1>. TAKE k \in Nat
<1>. HAVE k # 0
<1>1. k - 1 \in Nat /\ (k - 1) + 1 = k
  OBVIOUS
<1>2. Scale[k - 1] \in Nat \ {0} /\ Scale[k] = Scale[k - 1] * 128
  BY <1>1, ScaleNext
<1>. QED
  BY <1>2

LEMMA Divided ==
  ASSUME NEW v \in Nat, NEW m \in Nat \ {0}
  PROVE  v = m * (v \div m) + (v % m) /\ v % m \in 0 .. m - 1 /\ v \div m \in Nat
OBVIOUS

LEMMA DividedOnce ==
  ASSUME NEW v \in Nat, NEW m \in Nat \ {0}, NEW q \in Nat, NEW s \in 0 .. m - 1,
         v = m * q + s
  PROVE  v \div m = q /\ v % m = s
OBVIOUS

(* Seven more bits of a value.                                              *)
LEMMA NextBits ==
  ASSUME NEW v \in Nat, NEW m \in Nat \ {0}
  PROVE  /\ m * 128 \in Nat \ {0}
         /\ (v \div m) % 128 \in 0 .. 127
         /\ v % (m * 128) = (v % m) + ((v \div m) % 128) * m
<1>. DEFINE q == v \div m
            s == v % m
            q2 == q \div 128
            s2 == q % 128
<1>1. v = m * q + s /\ s \in 0 .. m - 1 /\ q \in Nat
  BY Divided
<1>2. q = 128 * q2 + s2 /\ s2 \in 0 .. 127 /\ q2 \in Nat
  BY <1>1, Divided
<1>. HIDE DEF q, s, q2, s2
<1>3. m * q = (m * 128) * q2 + m * s2
  BY <1>1, <1>2
<1>4. m * s2 \in Nat /\ m * s2 <= m * 127
  BY <1>2
<1>5. m * s2 + s \in 0 .. (m * 128) - 1
  BY <1>1, <1>4
<1>6. v = (m * 128) * q2 + (m * s2 + s)
  BY <1>1, <1>2, <1>3, <1>4
<1>7. m * 128 \in Nat \ {0}
  OBVIOUS
<1>8. v % (m * 128) = m * s2 + s
  BY <1>2, <1>5, <1>6, <1>7, DividedOnce
<1>9. m * s2 = s2 * m
  BY <1>2
<1>. QED
  BY <1>1, <1>2, <1>4, <1>7, <1>8, <1>9 DEF q, s, s2

LEMMA Remainder ==
  ASSUME NEW v \in Nat, NEW m \in Nat \ {0}
  PROVE  v % m \in Nat /\ v % m <= v /\ (v < m => v % m = v)
<1>1. v = m * (v \div m) + (v % m) /\ v % m \in 0 .. m - 1 /\ v \div m \in Nat
  BY Divided
<1>2. \A x, y \in Nat : x * y \in Nat
  OBVIOUS
<1>3. m * (v \div m) \in Nat
  BY <1>1, <1>2
<1>. QED
  BY <1>1, <1>3, DividedOnce

(***************************************************************************)
(* Fields and messages.                                                     *)
(***************************************************************************)

(* A tag is a number and a wire type.                                       *)
LEMMA TagValue ==
  ASSUME NEW n \in Nat, NEW w \in {0, 1, 2, 5}
  PROVE  8 * n + w \in Nat /\ (8 * n + w) % 8 = w /\ (8 * n + w) \div 8 = n
<1>1. CASE w = 0
  BY <1>1
<1>2. CASE w = 1
  BY <1>2
<1>3. CASE w = 2
  BY <1>3
<1>4. CASE w = 5
  BY <1>4
<1>. QED
  BY <1>1, <1>2, <1>3, <1>4

LEMMA FieldParts ==
  ASSUME NEW d, NEW f, Field(d, f)
  PROVE  /\ f.num \in Nat /\ f.num < FieldWord /\ f.value \in Nat /\ f.wire \in {0, 1, 2, 5}
         /\ f.at \in Nat /\ f.tagged \in Nat /\ f.next \in Nat
         /\ f.at < f.tagged /\ f.tagged <= f.next
         /\ Varint(d, f.at, f.tagged, 8 * f.num + f.wire)
         /\ f.wire = 0 => Varint(d, f.tagged, f.next, f.value)
         /\ f.wire = 1 => f.next = f.tagged + 8
         /\ f.wire = 5 => f.next = f.tagged + 4
         /\ f.wire = 2 => /\ Varint(d, f.tagged, Body(f), f.value)
                          /\ Body(f) \in Nat /\ f.tagged < Body(f)
                          /\ f.next = Body(f) + f.value
<1>1. /\ f.num \in Nat /\ f.num < FieldWord /\ f.value \in Nat
      /\ f.at \in Nat /\ f.tagged \in Nat /\ f.next \in Nat
      /\ Varint(d, f.at, f.tagged, 8 * f.num + f.wire)
      /\ f.wire \in {0, 1, 2, 5}
  BY DEF Field
<1>2. f.wire = 0 => Varint(d, f.tagged, f.next, f.value)
  BY DEF Field
<1>3. f.wire = 1 => f.next = f.tagged + 8
  BY DEF Field
<1>4. f.wire = 5 => f.next = f.tagged + 4
  BY DEF Field
<1>5. f.wire = 2 => Varint(d, f.tagged, Body(f), f.value)
  BY DEF Field, Body
<1>6. \A a, b, v : Varint(d, a, b, v) => a < b
  BY DEF Varint
<1>7. f.at < f.tagged
  BY <1>1, <1>6
<1>8. f.wire = 2 => Body(f) \in Nat /\ f.tagged < Body(f) /\ f.next = Body(f) + f.value
  <2>1. SUFFICES ASSUME f.wire = 2
                 PROVE  Body(f) \in Nat /\ f.tagged < Body(f) /\ f.next = Body(f) + f.value
    OBVIOUS
  <2>2. f.tagged < Body(f)
    BY <1>5, <1>6, <2>1
  <2>. QED
    BY <1>1, <2>2 DEF Body
<1>9. f.tagged <= f.next
  <2>1. CASE f.wire = 0
    BY <1>1, <1>2, <1>6, <2>1
  <2>2. CASE f.wire = 1
    BY <1>1, <1>3, <2>2
  <2>3. CASE f.wire = 5
    BY <1>1, <1>4, <2>3
  <2>4. CASE f.wire = 2
    <3>1. Body(f) \in Nat /\ f.tagged < Body(f) /\ f.next = Body(f) + f.value
      BY <1>8, <2>4
    <3>. QED
      BY <1>1, <3>1
  <2>. QED
    BY <1>1, <2>1, <2>2, <2>3, <2>4
<1>. QED
  BY <1>1, <1>2, <1>3, <1>4, <1>5, <1>7, <1>8, <1>9

(* Every field of a message ends inside it, and each starts where the one     *)
(* before it ends.                                                          *)
LEMMA MessageFields ==
  ASSUME NEW d, NEW from, NEW to, NEW F, Message(d, from, to, F)
  PROVE  /\ Len(F) \in Nat
         /\ \A i \in 1 .. Len(F) : Field(d, F[i]) /\ F[i].at = Start(F, from, i)
         /\ \A i \in 1 .. Len(F) : F[i].next = Start(F, from, i + 1)
BY DEF Message, Start

LEMMA MessageStarts ==
  ASSUME NEW d, NEW from, NEW to, NEW F, Message(d, from, to, F)
  PROVE  Start(F, from, 1) = from /\ Start(F, from, Len(F) + 1) = to
BY DEF Message, Start

LEMMA MessageBounds ==
  ASSUME NEW d, NEW from, NEW to, NEW F, from \in Nat, Message(d, from, to, F)
  PROVE  to \in Nat /\ \A i \in 1 .. Len(F) : F[i].next <= to
<1>1. /\ Len(F) \in Nat
      /\ \A i \in 1 .. Len(F) : Field(d, F[i]) /\ F[i].at = Start(F, from, i)
      /\ Start(F, from, Len(F) + 1) = to
  BY MessageFields, MessageStarts
<1>2. \A i \in 1 .. Len(F) : F[i].next = Start(F, from, i + 1)
  BY MessageFields
<1>3. Start(F, from, 1) = from
  BY MessageStarts
<1>4. \A i \in 1 .. Len(F) : /\ F[i].at \in Nat /\ F[i].next \in Nat
                             /\ F[i].at <= F[i].next
  <2>. TAKE i \in 1 .. Len(F)
  <2>1. /\ F[i].at \in Nat /\ F[i].tagged \in Nat /\ F[i].next \in Nat
        /\ F[i].at < F[i].tagged /\ F[i].tagged <= F[i].next
    BY <1>1, FieldParts
  <2>. QED
    BY <2>1
<1>5. to \in Nat
  <2>1. CASE Len(F) = 0
    BY <1>1, <1>3, <2>1
  <2>2. CASE Len(F) # 0
    <3>1. Len(F) \in 1 .. Len(F)
      BY <1>1, <2>2
    <3>. QED
      BY <1>1, <1>2, <1>4, <3>1
  <2>. QED
    BY <2>1, <2>2
<1>. DEFINE S == { k \in Nat : k < Len(F) => F[Len(F) - k].next <= to }
<1>6. 0 \in S
  <2>1. SUFFICES ASSUME 0 < Len(F) PROVE F[Len(F) - 0].next <= to
    OBVIOUS
  <2>2. Len(F) \in 1 .. Len(F) /\ Len(F) - 0 = Len(F)
    BY <1>1, <2>1
  <2>3. F[Len(F)].next = to
    BY <1>1, <1>2, <2>2
  <2>. QED
    BY <1>5, <2>2, <2>3
<1>7. ASSUME NEW k \in Nat, k \in S
      PROVE  k + 1 \in S
  <2>1. SUFFICES ASSUME k + 1 < Len(F) PROVE F[Len(F) - (k + 1)].next <= to
    OBVIOUS
  <2>. DEFINE i == Len(F) - (k + 1)
  <2>2. i \in 1 .. Len(F) /\ i + 1 \in 1 .. Len(F) /\ i + 1 = Len(F) - k /\ k < Len(F)
    BY <1>1, <2>1
  <2>. HIDE DEF i
  <2>3. F[i + 1].next <= to
    BY <1>7, <2>2
  <2>4. F[i].next = F[i + 1].at
    BY <1>1, <1>2, <2>2
  <2>5. /\ F[i].next \in Nat /\ F[i + 1].at \in Nat /\ F[i + 1].next \in Nat
        /\ F[i + 1].at <= F[i + 1].next
    BY <1>4, <2>2
  <2>6. F[i].next <= to
    BY <1>5, <2>3, <2>4, <2>5
  <2>. QED
    BY <2>6 DEF i
<1>8. Nat \subseteq S
  <2>. HIDE DEF S
  <2>. QED
    BY <1>6, <1>7, SetInduction
<1>9. \A i \in 1 .. Len(F) : F[i].next <= to
  <2>. TAKE i \in 1 .. Len(F)
  <2>1. Len(F) - i \in Nat /\ Len(F) - i < Len(F) /\ Len(F) - (Len(F) - i) = i
    BY <1>1
  <2>2. Len(F) - i \in S
    BY <1>8, <2>1
  <2>. QED
    BY <2>1, <2>2
<1>. QED
  BY <1>5, <1>9

(* The outputs before the next field of a graph.                             *)
LEMMA NextOutput ==
  ASSUME NEW F, NEW i \in Nat \ {0}
  PROVE  /\ Cardinality(Outputs(F, i - 1)) \in Nat
         /\ Cardinality(Outputs(F, i)) =
              Cardinality(Outputs(F, i - 1)) + (IF Delimited(F[i], 12) THEN 1 ELSE 0)
<1>1. IsFiniteSet(Outputs(F, i - 1))
  <2>1. IsFiniteSet(1 .. i - 1)
    BY FS_Interval
  <2>2. Outputs(F, i - 1) \in SUBSET (1 .. i - 1)
    BY DEF Outputs
  <2>. QED
    BY <2>1, <2>2, FS_Subset
<1>2. Cardinality(Outputs(F, i - 1)) \in Nat
  BY <1>1, FS_CardinalityType
<1>3. CASE Delimited(F[i], 12)
  <2>1. Outputs(F, i) = Outputs(F, i - 1) \cup {i} /\ i \notin Outputs(F, i - 1)
    BY <1>3 DEF Outputs
  <2>. QED
    BY <1>1, <1>2, <1>3, <2>1, FS_AddElement
<1>4. CASE ~Delimited(F[i], 12)
  <2>1. Outputs(F, i) = Outputs(F, i - 1)
    BY <1>4 DEF Outputs
  <2>. QED
    BY <1>2, <1>4, <2>1
<1>. QED
  BY <1>2, <1>3, <1>4

LEMMA OutputsBound ==
  ASSUME NEW F, NEW i \in Nat, NEW n \in Nat, i <= n
  PROVE  /\ Cardinality(Outputs(F, i)) \in Nat /\ Cardinality(Outputs(F, n)) \in Nat
         /\ Cardinality(Outputs(F, i)) <= Cardinality(Outputs(F, n))
<1>1. IsFiniteSet(Outputs(F, n))
  <2>1. IsFiniteSet(1 .. n)
    BY FS_Interval
  <2>2. Outputs(F, n) \in SUBSET (1 .. n)
    BY DEF Outputs
  <2>. QED
    BY <2>1, <2>2, FS_Subset
<1>2. Outputs(F, i) \in SUBSET Outputs(F, n)
  BY DEF Outputs
<1>3. IsFiniteSet(Outputs(F, i)) /\ Cardinality(Outputs(F, i)) <= Cardinality(Outputs(F, n))
  BY <1>1, <1>2, FS_Subset
<1>. QED
  BY <1>1, <1>3, FS_CardinalityType

LEMMA NoOutputs == ASSUME NEW F PROVE Cardinality(Outputs(F, 0)) = 0
<1>1. Outputs(F, 0) = {}
  BY DEF Outputs
<1>. QED
  BY <1>1, FS_EmptySet

(***************************************************************************)
(* What the reader in use has read, and what it goes on to read.             *)
(***************************************************************************)

LEMMA VarintByte ==
  ASSUME NEW d, NEW a \in Nat, NEW b \in Nat, NEW v \in Nat, Varint(d, a, b, v),
         NEW q \in a .. b - 1
  PROVE  /\ Scale[q - a] \in Nat \ {0} /\ Scale[q - a] < Word
         /\ Scale[q + 1 - a] = Scale[q - a] * 128
         /\ d[q + 1] >= 128 <=> q + 1 < b
         /\ ((v % Scale[q - a]) + (d[q + 1] % 128) * Scale[q - a]) % Word
              = v % Scale[q + 1 - a]
<1>. DEFINE m == Scale[q - a]
            s == (v \div m) % 128
            byte == d[q + 1]
<1>1. q - a \in Nat /\ q + 1 - a = (q - a) + 1
  OBVIOUS
<1>2. m \in Nat \ {0} /\ Scale[q + 1 - a] = m * 128
  BY <1>1, ScaleNext
<1>3. v < Word /\ m < Word /\ byte = s + (IF q < b - 1 THEN 128 ELSE 0)
  BY DEF Varint
<1>. HIDE DEF m, byte
<1>4. m * 128 \in Nat \ {0} /\ s \in 0 .. 127 /\ v % (m * 128) = (v % m) + s * m
  BY <1>2, NextBits
<1>5. v % (m * 128) \in Nat /\ v % (m * 128) <= v
  BY <1>4, Remainder
<1>. HIDE DEF s
<1>6. byte % 128 = s /\ (byte >= 128 <=> q + 1 < b)
  BY <1>3, <1>4
<1>7. (v % (m * 128)) % Word = v % (m * 128)
  BY <1>3, <1>5, WordAssumption, Remainder
<1>. QED
  BY <1>2, <1>3, <1>4, <1>6, <1>7 DEF m, byte

LEMMA VarintValue ==
  ASSUME NEW d, NEW a \in Nat, NEW b \in Nat, NEW v \in Nat, Varint(d, a, b, v)
  PROVE  v % Scale[b - a] = v /\ Scale[b - a] >= 128
<1>1. b - a \in Nat /\ b - a # 0 /\ v < Scale[b - a]
  BY DEF Varint
<1>2. Scale[b - a] \in Nat \ {0} /\ Scale[b - a] >= 128
  BY <1>1, ScaleNext, ScaleOne
<1>. QED
  BY <1>1, <1>2, Remainder

(* ReadByte reads the next seven bits of the varint the reader is in.         *)
LEMMA ReadsBits ==
  ASSUME TypeOK, ReadByte, NEW a \in Nat, NEW b \in Nat, NEW v \in Nat,
         Varint(data, a, b, v), InVarint(a, b, v)
  PROVE  InVarint(a, b, v)'
<1>. DEFINE q == p[level]
<1>1. /\ q \in a .. b /\ (more <=> q < b) /\ place = Scale[q - a] /\ r = v % place
  BY DEF InVarint
<1>2. more /\ r' = (r + (data[q + 1] % 128) * place) % Word
      /\ (more' <=> data[q + 1] >= 128) /\ place' = place * 128
      /\ p' = [p EXCEPT ![level] = q + 1] /\ level' = level
  BY DEF ReadByte, VarintOver, TypeOK
<1>3. p'[level'] = q + 1
  BY <1>2 DEF TypeOK
<1>4. q \in a .. b - 1
  BY <1>1, <1>2
<1>. HIDE DEF q
<1>5. /\ Scale[q + 1 - a] = Scale[q - a] * 128
      /\ data[q + 1] >= 128 <=> q + 1 < b
      /\ ((v % Scale[q - a]) + (data[q + 1] % 128) * Scale[q - a]) % Word
              = v % Scale[q + 1 - a]
  BY <1>4, VarintByte
<1>6. place' = Scale[q + 1 - a]
  BY <1>1, <1>2, <1>5
<1>7. r' = v % Scale[q + 1 - a]
  BY <1>1, <1>2, <1>5
<1>8. more' <=> q + 1 < b
  BY <1>2, <1>5
<1>9. q + 1 \in a .. b
  BY <1>4
<1>. QED
  <2>1. p[level]' = q + 1
    BY <1>3
  <2>. PICK t : t = q + 1
    OBVIOUS
  <2>2. t \in a .. b /\ (more' <=> t < b) /\ place' = Scale[t - a] /\ r' = v % Scale[t - a]
    <3>1. t \in a .. b
      BY <1>9
    <3>2. more' <=> t < b
      BY <1>8
    <3>3. t \in Int /\ q \in Int
      BY <1>4, <1>9
    <3>4. t - a = q + 1 - a
      BY <3>3
    <3>. QED
      BY <1>6, <1>7, <3>1, <3>2, <3>4
  <2>3. p'[level'] = t
    BY <2>1
  <2>4. r' = v % place'
    BY <2>2
  <2>. QED
    BY <2>2, <2>3, <2>4 DEF InVarint

(* The loop of varint ends where the varint does, with its value.            *)
LEMMA VarintEnds ==
  ASSUME TypeOK, NEW a \in Nat, NEW b \in Nat, NEW v \in Nat,
         Varint(data, a, b, v), InVarint(a, b, v), b <= end[level]
  PROVE  VarintOver => p[level] = b /\ r = v /\ place >= 128
<1>. DEFINE q == p[level]
<1>1. /\ q \in a .. b /\ (more <=> q < b) /\ place = Scale[q - a] /\ r = v % place
  BY DEF InVarint
<1>2. end[level] \in Nat
  BY DEF TypeOK
<1>. SUFFICES ASSUME VarintOver PROVE q = b /\ r = v /\ place >= 128
  OBVIOUS
<1>3. q = b
  <2>. SUFFICES ASSUME q < b PROVE FALSE
    BY <1>1
  <2>1. more /\ q \in a .. b - 1
    BY <1>1
  <2>2. ~(place >= Word)
    <3>1. place < Word /\ place \in Nat
      BY <1>1, <2>1, VarintByte
    <3>. QED
      BY <3>1, WordAssumption
  <2>3. ~eof
    BY <1>1, <1>2, <2>1 DEF eof
  <2>. QED
    BY <2>1, <2>2, <2>3 DEF VarintOver
<1>4. v % Scale[b - a] = v /\ Scale[b - a] >= 128
  BY VarintValue
<1>. QED
  BY <1>1, <1>3, <1>4

(* A varint of which nothing has been read; a field, or the end, to which a   *)
(* reader has just come.  They are facts about any state, so about the next.  *)
VarintBegin ==
  \A a, b, v \in Nat :
    a < b /\ p[level] = a /\ r = 0 /\ place = 1 /\ more => InVarint(a, b, v)

FieldBegin ==
  \A d, F : \A from \in Nat, i \in 1 .. Len(F) + 1 :
    Message(d, from, end[level], F) /\ p[level] = Start(F, from, i) /\ AtTag => At(F, i)

LEMMA VarintBegins == VarintBegin
<1>. SUFFICES ASSUME NEW a \in Nat, NEW b \in Nat, NEW v \in Nat, a < b,
                     p[level] = a, r = 0, place = 1, more
              PROVE  InVarint(a, b, v)
  BY DEF VarintBegin
<1>1. Scale[a - a] = 1
  BY ScaleNext
<1>2. v % 1 = 0
  OBVIOUS
<1>. QED
  BY <1>1, <1>2 DEF InVarint

LEMMA FieldBegins == FieldBegin
<1>. SUFFICES ASSUME NEW d, NEW F, NEW from \in Nat, NEW i \in 1 .. Len(F) + 1,
                     Message(d, from, end[level], F), p[level] = Start(F, from, i), AtTag
              PROVE  At(F, i)
  BY DEF FieldBegin
<1>1. /\ Len(F) \in Nat
      /\ \A k \in 1 .. Len(F) : Field(d, F[k]) /\ F[k].at = Start(F, from, k)
      /\ Start(F, from, Len(F) + 1) = end[level]
  BY MessageFields, MessageStarts
<1>2. CASE i = Len(F) + 1
  BY <1>1, <1>2 DEF At
<1>3. CASE i # Len(F) + 1
  <2>1. i \in 1 .. Len(F)
    BY <1>1, <1>3
  <2>. PICK f : f = F[i]
    OBVIOUS
  <2>2. Field(d, f) /\ p[level] = f.at
    BY <1>1, <2>1
  <2>3. /\ f.at \in Nat /\ f.tagged \in Nat /\ f.at < f.tagged
        /\ 8 * f.num + f.wire \in Nat
    BY <2>2, FieldParts, TagValue
  <2>4. InVarint(f.at, f.tagged, 8 * f.num + f.wire)
    BY <2>2, <2>3, VarintBegins DEF VarintBegin, AtTag
  <2>5. InField(f)
    BY <2>4 DEF InField, AtTag
  <2>. QED
    BY <2>1, <2>5 DEF At
<1>. QED
  BY <1>2, <1>3

LEMMA VarintBeginsNext == VarintBegin'
BY VarintBegins, PTL

LEMMA FieldBeginsNext == FieldBegin'
BY FieldBegins, PTL

LEMMA NewVarint ==
  ASSUME NEW a \in Nat, NEW b \in Nat, NEW v \in Nat, a < b, p'[level'] = a, NextVarint
  PROVE  InVarint(a, b, v)'
BY VarintBeginsNext DEF VarintBegin, NextVarint

LEMMA NewField ==
  ASSUME NEW d, NEW from \in Nat, NEW F, Message(d, from, end'[level'], F),
         NEW i \in 1 .. Len(F) + 1, p'[level'] = Start(F, from, i),
         pc' = "tag", NextVarint
  PROVE  At(F, i)'
<1>1. AtTag'
  BY DEF AtTag, NextVarint
<1>. QED
  BY <1>1, FieldBeginsNext DEF FieldBegin

(* What a reader that stands in a field makes of it, up to its end.          *)
LEMMA ReadByteInField ==
  ASSUME TypeOK, NEW f, Field(data, f), InField(f), ReadByte
  PROVE  InField(f)'
<1>1. /\ f.num \in Nat /\ f.value \in Nat /\ f.wire \in {0, 1, 2, 5}
      /\ f.at \in Nat /\ f.tagged \in Nat /\ f.next \in Nat
      /\ Varint(data, f.at, f.tagged, 8 * f.num + f.wire)
      /\ 8 * f.num + f.wire \in Nat
  BY FieldParts, TagValue
<1>2. pc' = pc /\ field' = field
  BY DEF ReadByte
<1>3. CASE pc = "tag"
  <2>1. InVarint(f.at, f.tagged, 8 * f.num + f.wire)
    BY <1>3 DEF InField
  <2>2. InVarint(f.at, f.tagged, 8 * f.num + f.wire)'
    BY <1>1, <2>1, ReadsBits
  <2>. QED
    BY <1>2, <1>3, <2>2 DEF InField
<1>4. CASE pc = "length"
  <2>1. f.wire = 2 /\ field = f.num /\ InVarint(f.tagged, Body(f), f.value)
    BY <1>4 DEF InField
  <2>2. Varint(data, f.tagged, Body(f), f.value) /\ Body(f) \in Nat
    BY <2>1, FieldParts
  <2>3. InVarint(f.tagged, Body(f), f.value)'
    BY <1>1, <2>1, <2>2, ReadsBits
  <2>. QED
    BY <1>2, <1>4, <2>1, <2>3 DEF InField
<1>5. CASE pc = "varint"
  <2>1. f.wire = 0 /\ InVarint(f.tagged, f.next, f.value)
    BY <1>5 DEF InField
  <2>2. Varint(data, f.tagged, f.next, f.value)
    BY <2>1, FieldParts
  <2>3. InVarint(f.tagged, f.next, f.value)'
    BY <1>1, <2>1, <2>2, ReadsBits
  <2>. QED
    BY <1>2, <1>5, <2>1, <2>3 DEF InField
<1>. QED
  BY <1>3, <1>4, <1>5 DEF InField

(* A length that ends inside the message does not wrap and is not clamped.    *)
LEMMA AtMostFits ==
  ASSUME model \in Models, TypeOK, NEW len \in Nat, p[level] + len <= end[level]
  PROVE  AtMost(len) = len
<1>1. /\ p[level] \in Nat /\ end[level] \in Nat /\ end[level] <= Len(data)
      /\ Len(data) \in Nat
  BY DEF TypeOK
<1>2. Base \in Nat /\ Base + Len(data) < Word
  BY AddressAssumption DEF data
<1>3. Base + p[level] + len \in Nat /\ Base + p[level] + len < Word
  BY <1>1, <1>2, WordAssumption
<1>4. (Base + p[level] + len) % Word = Base + p[level] + len
  BY <1>3, WordAssumption, Remainder
<1>5. Ahead(len) = p[level] + len
  BY <1>1, <1>2, <1>4 DEF Ahead
<1>. QED
  BY <1>1, <1>5 DEF AtMost

(* The tag has been read.                                                   *)
LEMMA TagRead ==
  ASSUME TypeOK, NEW f, Field(data, f), InField(f), f.next <= end[level],
         pc = "tag", VarintOver
  PROVE  p[level] = f.tagged /\ (r \div 8) % FieldWord = f.num /\ r % 8 = f.wire
<1>1. /\ f.num \in Nat /\ f.num < FieldWord /\ f.wire \in {0, 1, 2, 5}
      /\ f.at \in Nat /\ f.tagged \in Nat /\ f.next \in Nat /\ f.tagged <= f.next
      /\ Varint(data, f.at, f.tagged, 8 * f.num + f.wire)
      /\ 8 * f.num + f.wire \in Nat
  BY FieldParts, TagValue
<1>2. InVarint(f.at, f.tagged, 8 * f.num + f.wire)
  BY DEF InField
<1>3. f.tagged <= end[level]
  BY <1>1 DEF TypeOK
<1>4. p[level] = f.tagged /\ r = 8 * f.num + f.wire
  BY <1>1, <1>2, <1>3, VarintEnds
<1>5. r \div 8 = f.num /\ r % 8 = f.wire
  BY <1>1, <1>4, TagValue
<1>6. f.num % FieldWord = f.num
  BY <1>1, WordAssumption, Remainder
<1>. QED
  BY <1>4, <1>5, <1>6

LEMMA ReadTagInField ==
  ASSUME model \in Models, TypeOK, NEW f, Field(data, f), InField(f), f.next <= end[level], ReadTag
  PROVE  \/ InField(f)'
         \/ ~Delimited(f, Wanted[level]) /\ p'[level'] = f.next /\ pc' = "tag" /\ NextVarint
<1>1. /\ f.num \in Nat /\ f.value \in Nat /\ f.wire \in {0, 1, 2, 5}
      /\ f.at \in Nat /\ f.tagged \in Nat /\ f.next \in Nat
  BY FieldParts
<1>2. p[level] = f.tagged /\ (r \div 8) % FieldWord = f.num /\ r % 8 = f.wire
  BY TagRead DEF ReadTag
<1>3. /\ level' = level /\ field' = f.num /\ NextVarint
      /\ pc' = (CASE f.wire = 0 -> "varint" [] f.wire = 2 -> "length" [] OTHER -> "tag")
      /\ p' = [p EXCEPT ![level] = @ + Width]
  BY <1>2 DEF ReadTag
<1>4. p'[level'] = f.tagged + Width
  BY <1>2, <1>3 DEF TypeOK
<1>5. end[level] \in Nat
  BY DEF TypeOK
<1>6. CASE f.wire = 0
  <2>1. Width = 0 /\ pc' = "varint"
    BY <1>2, <1>3, <1>6 DEF Width
  <2>2. p'[level'] = f.tagged
    BY <1>1, <1>4, <2>1
  <2>3. f.tagged < f.next
    BY <1>6, FieldParts DEF Varint
  <2>4. InVarint(f.tagged, f.next, f.value)'
    BY <1>1, <1>3, <2>2, <2>3, NewVarint
  <2>. QED
    BY <1>6, <2>1, <2>4 DEF InField
<1>7. CASE f.wire = 2
  <2>1. Width = 0 /\ pc' = "length"
    BY <1>2, <1>3, <1>7 DEF Width
  <2>2. p'[level'] = f.tagged
    BY <1>1, <1>4, <2>1
  <2>3. Body(f) \in Nat /\ f.tagged < Body(f)
    BY <1>7, FieldParts
  <2>4. InVarint(f.tagged, Body(f), f.value)'
    BY <1>1, <1>3, <2>2, <2>3, NewVarint
  <2>. QED
    BY <1>3, <1>7, <2>1, <2>4 DEF InField
<1>8. CASE f.wire = 1
  <2>1. f.next = f.tagged + 8
    BY <1>8, FieldParts
  <2>2. Width = AtMost(8)
    BY <1>2, <1>8 DEF Width
  <2>3. AtMost(8) = 8
    BY <1>1, <1>2, <1>5, <2>1, AtMostFits
  <2>4. p'[level'] = f.next
    BY <1>4, <2>1, <2>2, <2>3
  <2>. QED
    BY <1>3, <1>8, <2>4 DEF Delimited
<1>9. CASE f.wire = 5
  <2>1. f.next = f.tagged + 4
    BY <1>9, FieldParts
  <2>2. Width = AtMost(4)
    BY <1>2, <1>9 DEF Width
  <2>3. AtMost(4) = 4
    BY <1>1, <1>2, <1>5, <2>1, AtMostFits
  <2>4. p'[level'] = f.next
    BY <1>4, <2>1, <2>2, <2>3
  <2>. QED
    BY <1>3, <1>9, <2>4 DEF Delimited
<1>. QED
  BY <1>1, <1>6, <1>7, <1>8, <1>9

LEMMA SkipVarintInField ==
  ASSUME TypeOK, NEW f, Field(data, f), InField(f), f.next <= end[level], SkipVarint
  PROVE  ~Delimited(f, Wanted[level]) /\ p'[level'] = f.next /\ pc' = "tag" /\ NextVarint
<1>1. pc = "varint" /\ VarintOver /\ p' = p /\ level' = level /\ pc' = "tag" /\ NextVarint
  BY DEF SkipVarint
<1>2. f.wire = 0 /\ InVarint(f.tagged, f.next, f.value)
  BY <1>1 DEF InField
<1>3. /\ f.value \in Nat /\ f.tagged \in Nat /\ f.next \in Nat
      /\ Varint(data, f.tagged, f.next, f.value)
  BY <1>2, FieldParts
<1>4. p[level] = f.next
  BY <1>1, <1>2, <1>3, VarintEnds
<1>. QED
  BY <1>1, <1>2, <1>4 DEF Delimited

(* A length has been read: the reader stands before the field's body, and    *)
(* all of it is left.                                                       *)
LEMMA LengthRead ==
  ASSUME model \in Models, TypeOK, NEW f, Field(data, f), InField(f), f.next <= end[level],
         pc = "length", VarintOver
  PROVE  /\ f.wire = 2 /\ field = f.num
         /\ p[level] = Body(f) /\ Body(f) \in Nat /\ AtMost(r) = f.value
         /\ p[level] + AtMost(r) = f.next
<1>1. f.wire = 2 /\ field = f.num /\ InVarint(f.tagged, Body(f), f.value)
  BY DEF InField
<1>2. /\ f.value \in Nat /\ f.tagged \in Nat /\ f.next \in Nat
      /\ Varint(data, f.tagged, Body(f), f.value) /\ Body(f) \in Nat
      /\ f.next = Body(f) + f.value
  BY <1>1, FieldParts
<1>3. end[level] \in Nat
  BY DEF TypeOK
<1>4. Body(f) <= end[level]
  BY <1>2, <1>3
<1>5. p[level] = Body(f) /\ r = f.value
  BY <1>1, <1>2, <1>4, VarintEnds
<1>6. AtMost(r) = f.value
  BY <1>2, <1>5, AtMostFits
<1>. QED
  BY <1>1, <1>2, <1>5, <1>6

LEMMA SkipBytesInField ==
  ASSUME model \in Models, TypeOK, NEW f, Field(data, f), InField(f), f.next <= end[level], SkipBytes
  PROVE  ~Delimited(f, Wanted[level]) /\ p'[level'] = f.next /\ pc' = "tag" /\ NextVarint
<1>1. /\ pc = "length" /\ VarintOver /\ field # Wanted[level]
      /\ p' = [p EXCEPT ![level] = @ + AtMost(r)] /\ level' = level
      /\ pc' = "tag" /\ NextVarint
  BY DEF SkipBytes
<1>2. field = f.num /\ p[level] + AtMost(r) = f.next
  BY <1>1, LengthRead
<1>3. p'[level'] = f.next
  BY <1>1, <1>2 DEF TypeOK
<1>. QED
  BY <1>1, <1>2, <1>3 DEF Delimited

(***************************************************************************)
(* Where in its message a reader can be.                                     *)
(***************************************************************************)

(* A reader of a message, whatever it reads, stays in step with its fields:  *)
(* it goes on in the same one, or past one that it does not look for.        *)
Reads == ReadByte \/ ReadTag \/ SkipVarint \/ SkipBytes

LEMMA StaysInStep ==
  ASSUME model \in Models, TypeOK, NEW from \in Nat, NEW F, Message(data, from, end[level], F),
         NEW i \in 1 .. Len(F) + 1, At(F, i), Reads
  PROVE  /\ i \in 1 .. Len(F)
         /\ \/ At(F, i)'
            \/ ~Delimited(F[i], Wanted[level]) /\ At(F, i + 1)'
<1>1. /\ Len(F) \in Nat
      /\ \A k \in 1 .. Len(F) : Field(data, F[k])
      /\ \A k \in 1 .. Len(F) : F[k].next = Start(F, from, k + 1)
  BY MessageFields
<1>2. \A k \in 1 .. Len(F) : F[k].next <= end[level]
  BY MessageBounds
<1>3. i # Len(F) + 1
  <2>. SUFFICES ASSUME i = Len(F) + 1 PROVE FALSE
    OBVIOUS
  <2>1. AtTag /\ p[level] = end[level]
    BY <1>1 DEF At
  <2>2. p[level] >= end[level]
    BY <2>1 DEF TypeOK
  <2>. QED
    BY <2>1, <2>2 DEF AtTag, Reads, ReadByte, ReadTag, SkipVarint, SkipBytes, VarintOver, eof
<1>4. i \in 1 .. Len(F)
  BY <1>1, <1>3
<1>5. InField(F[i])
  BY <1>3 DEF At
<1>6. Field(data, F[i]) /\ F[i].next <= end[level] /\ F[i].next = Start(F, from, i + 1)
  BY <1>1, <1>2, <1>4
<1>7. level' = level /\ end' = end
  BY DEF Reads, ReadByte, ReadTag, SkipVarint, SkipBytes
<1>8. ASSUME p'[level'] = F[i].next, pc' = "tag", NextVarint
      PROVE  At(F, i + 1)'
  <2>1. Message(data, from, end'[level'], F)
    BY <1>7
  <2>2. i + 1 \in 1 .. Len(F) + 1
    BY <1>1, <1>4
  <2>3. p'[level'] = Start(F, from, i + 1)
    BY <1>6, <1>8
  <2>. PICK d : d = data
    OBVIOUS
  <2>4. Message(d, from, end'[level'], F)
    BY <2>1
  <2>. QED
    BY <1>8, <2>2, <2>3, <2>4, NewField
<1>9. InField(F[i])' => At(F, i)'
  BY <1>4 DEF At
<1>10. CASE ReadByte
  BY <1>4, <1>5, <1>6, <1>9, <1>10, ReadByteInField
<1>11. CASE ReadTag
  <2>1. \/ InField(F[i])'
        \/ ~Delimited(F[i], Wanted[level]) /\ p'[level'] = F[i].next /\ pc' = "tag" /\ NextVarint
    BY <1>5, <1>6, <1>11, ReadTagInField
  <2>. QED
    BY <1>4, <1>8, <1>9, <2>1
<1>12. CASE SkipVarint
  <2>1. ~Delimited(F[i], Wanted[level]) /\ p'[level'] = F[i].next /\ pc' = "tag" /\ NextVarint
    BY <1>5, <1>6, <1>12, SkipVarintInField
  <2>. QED
    BY <1>4, <1>8, <2>1
<1>13. CASE SkipBytes
  <2>1. ~Delimited(F[i], Wanted[level]) /\ p'[level'] = F[i].next /\ pc' = "tag" /\ NextVarint
    BY <1>5, <1>6, <1>13, SkipBytesInField
  <2>. QED
    BY <1>4, <1>8, <2>1
<1>. QED
  BY <1>10, <1>11, <1>12, <1>13 DEF Reads

(* A length is that of the field the reader is in.                           *)
LEMMA AtLength ==
  ASSUME model \in Models, TypeOK, NEW from \in Nat, NEW F, Message(data, from, end[level], F),
         NEW i \in 1 .. Len(F) + 1, At(F, i), pc = "length", VarintOver
  PROVE  /\ i \in 1 .. Len(F) /\ Field(data, F[i])
         /\ F[i].wire = 2 /\ field = F[i].num
         /\ p[level] = Body(F[i]) /\ Body(F[i]) \in Nat
         /\ p[level] + AtMost(r) = F[i].next
<1>1. /\ Len(F) \in Nat
      /\ \A k \in 1 .. Len(F) : Field(data, F[k])
  BY MessageFields
<1>2. \A k \in 1 .. Len(F) : F[k].next <= end[level]
  BY MessageBounds
<1>3. i # Len(F) + 1
  BY <1>1 DEF At, AtTag
<1>4. i \in 1 .. Len(F) /\ InField(F[i])
  BY <1>1, <1>3 DEF At
<1>5. Field(data, F[i]) /\ F[i].next <= end[level]
  BY <1>1, <1>2, <1>4
<1>. QED
  BY <1>4, <1>5, LengthRead

(* A reader that finds its message at the end has read all of its fields.    *)
LEMMA AtEnd ==
  ASSUME TypeOK, NEW from \in Nat, NEW F, Message(data, from, end[level], F),
         NEW i \in 1 .. Len(F) + 1, At(F, i), pc = "tag", place = 1, eof
  PROVE  i = Len(F) + 1
<1>1. /\ Len(F) \in Nat
      /\ \A k \in 1 .. Len(F) : Field(data, F[k])
  BY MessageFields
<1>2. \A k \in 1 .. Len(F) : F[k].next <= end[level]
  BY MessageBounds
<1>. SUFFICES ASSUME i # Len(F) + 1 PROVE FALSE
  OBVIOUS
<1>3. i \in 1 .. Len(F) /\ InField(F[i])
  BY <1>1 DEF At
<1>. PICK f : f = F[i]
  OBVIOUS
<1>4. Field(data, f) /\ f.next <= end[level] /\ InField(f)
  BY <1>1, <1>2, <1>3
<1>5. /\ f.num \in Nat /\ f.wire \in {0, 1, 2, 5}
      /\ f.at \in Nat /\ f.tagged \in Nat /\ f.next \in Nat /\ f.tagged <= f.next
      /\ Varint(data, f.at, f.tagged, 8 * f.num + f.wire)
      /\ 8 * f.num + f.wire \in Nat
  BY <1>4, FieldParts, TagValue
<1>6. InVarint(f.at, f.tagged, 8 * f.num + f.wire)
  BY <1>4 DEF InField
<1>7. f.tagged <= end[level] /\ VarintOver
  BY <1>4, <1>5 DEF TypeOK, VarintOver
<1>8. place >= 128
  BY <1>5, <1>6, <1>7, VarintEnds
<1>. QED
  BY <1>8

(***************************************************************************)
(* The walk stays in step.                                                  *)
(***************************************************************************)

LEMMA Begun == Init => InStep
<1>. SUFFICES ASSUME Init PROVE InStep
  OBVIOUS
<1>1. Encoded(model)
  BY EncodingAssumption DEF Init
<1>. PICK F : F = model.fields
  OBVIOUS
<1>2. /\ Message(data, 0, Len(data), F)
      /\ \E g \in 1 .. Len(F) : IsGraph(F, g) /\ Graph(data, F[g], model.outputs)
  BY <1>1 DEF Encoded, data
<1>3. PICK g \in 1 .. Len(F) : IsGraph(F, g) /\ Graph(data, F[g], model.outputs)
  BY <1>2
<1>4. /\ level = "model" /\ end["model"] = Len(data) /\ p["model"] = 0
      /\ pc = "tag" /\ names = << >> /\ AtTag
  BY DEF Init, data, Level, AtTag
<1>5. Len(F) \in Nat /\ Start(F, 0, 1) = 0
  BY <1>2, MessageFields, MessageStarts
<1>6. 1 \in 1 .. Len(F) + 1 /\ 1 \in 1 .. g
  BY <1>3, <1>5
<1>7. At(F, 1)
  BY <1>2, <1>4, <1>5, <1>6, FieldBegins DEF FieldBegin
<1>8. InModel(F, g)
  BY <1>4, <1>6, <1>7 DEF InModel
<1>9. Stands(F, g, model.outputs)
  BY <1>4, <1>8 DEF Stands
<1>. QED
  BY <1>3, <1>9 DEF InStep

(* The reader of the model.                                                 *)
LEMMA ModelStep ==
  ASSUME model \in Models, TypeOK, Step, pc # "done", NEW F, NEW g, NEW N \in Seq(Seq(Byte)),
         Message(data, 0, Len(data), F), IsGraph(F, g), Graph(data, F[g], N),
         InModel(F, g)
  PROVE  Stands(F, g, N)'
<1>1. /\ level = "model" /\ end[level] = Len(data) /\ names = << >>
      /\ Message(data, 0, end[level], F)
  BY DEF InModel
<1>2. PICK i \in 1 .. g : At(F, i)
  BY DEF InModel
<1>3. Len(F) \in Nat /\ g \in 1 .. Len(F) /\ i \in 1 .. Len(F) + 1
  BY <1>1, MessageFields DEF IsGraph
<1>4. Delimited(F[i], 7) <=> i = g
  BY <1>2 DEF IsGraph
<1>5. CASE Reads
  <2>1. \/ At(F, i)'
        \/ ~Delimited(F[i], Wanted[level]) /\ At(F, i + 1)'
    BY <1>1, <1>2, <1>3, <1>5, StaysInStep
  <2>2. Wanted[level] = 7
    BY <1>1 DEF Wanted
  <2>3. i + 1 \in 1 .. g \/ i = g
    BY <1>2, <1>3
  <2>4. \E k \in 1 .. g : At(F, k)'
    BY <1>2, <1>4, <2>1, <2>2, <2>3
  <2>5. level' = level /\ end' = end /\ data' = data /\ names' = names /\ pc' # "done"
    BY <1>5 DEF Reads, ReadByte, ReadTag, SkipVarint, SkipBytes, data
  <2>6. InModel(F, g)'
    BY <1>1, <2>4, <2>5 DEF InModel
  <2>. QED
    BY <2>5, <2>6 DEF Stands
<1>6. CASE Enter
  <2>1. pc = "length" /\ VarintOver /\ field = Wanted[level]
    BY <1>6 DEF Enter
  <2>2. /\ F[i].wire = 2 /\ field = F[i].num /\ p[level] = Body(F[i]) /\ Body(F[i]) \in Nat
        /\ p[level] + AtMost(r) = F[i].next
    BY <1>1, <1>2, <1>3, <2>1, AtLength
  <2>3. i = g
    BY <1>1, <1>4, <2>1, <2>2 DEF Delimited, Wanted
  <2>. PICK G : G = F[g]
    OBVIOUS
  <2>4. Message(data, Body(G), G.next, G.fields)
    BY DEF Graph
  <2>5. /\ level' = "graph" /\ p'["graph"] = Body(G) /\ end'["graph"] = G.next
        /\ pc' = "tag" /\ NextVarint /\ names' = << >>
    BY <1>1, <1>6, <2>2, <2>3 DEF Enter, Child, TypeOK, Level
  <2>6. Len(G.fields) \in Nat /\ Start(G.fields, Body(G), 1) = Body(G)
    BY <2>4, MessageFields, MessageStarts
  <2>7. At(G.fields, 1)'
    <3>. PICK d : d = data
      OBVIOUS
    <3>1. Message(d, Body(G), end'[level'], G.fields)
      BY <2>4, <2>5
    <3>2. 1 \in 1 .. Len(G.fields) + 1 /\ p'[level'] = Start(G.fields, Body(G), 1)
      BY <2>5, <2>6
    <3>3. Body(G) \in Nat
      BY <2>2, <2>3
    <3>. QED
      BY <2>5, <3>1, <3>2, <3>3, NewField
  <2>8. names' = SubSeq(N, 1, Before(G, 1))
    <3>1. Before(G, 1) = 0
      BY NoOutputs DEF Before
    <3>. QED
      BY <2>5, <3>1
  <2>9. InGraph(G, N)'
    <3>1. 1 \in 1 .. Len(G.fields) + 1
      BY <2>6
    <3>. QED
      BY <2>5, <2>7, <2>8, <3>1 DEF InGraph
  <2>. QED
    BY <2>5, <2>9 DEF Stands
<1>7. CASE FoundName
  BY <1>1, <1>7 DEF FoundName
<1>8. CASE EndMessage
  <2>1. pc = "tag" /\ place = 1 /\ eof
    BY <1>8 DEF EndMessage
  <2>2. i = Len(F) + 1
    BY <1>1, <1>2, <1>3, <2>1, AtEnd
  <2>. QED
    BY <1>2, <1>3, <2>2
<1>. QED
  BY <1>5, <1>6, <1>7, <1>8 DEF Step, Reads

(* The reader of the graph.                                                 *)
LEMMA GraphStep ==
  ASSUME model \in Models, TypeOK, Nested, Step, pc # "done", NEW F, NEW g, NEW N \in Seq(Seq(Byte)),
         Body(F[g]) \in Nat, Graph(data, F[g], N), InGraph(F[g], N)
  PROVE  Stands(F, g, N)'
<1>. PICK G : G = F[g]
  OBVIOUS
<1>0. Stands(F, g, N)' <=>
        \/ pc' = "done" /\ names' = N
        \/ pc' # "done" /\ (InModel(F, g)' \/ InGraph(G, N)' \/ InValue(G, N)')
  BY DEF Stands
<1>1. /\ level = "graph" /\ end["graph"] = G.next
      /\ Message(data, Body(G), end[level], G.fields) /\ Body(G) \in Nat
  BY DEF InGraph, Graph
<1>2. PICK i \in 1 .. Len(G.fields) + 1 :
        At(G.fields, i) /\ names = SubSeq(N, 1, Before(G, i))
  BY DEF InGraph
<1>3. Len(G.fields) \in Nat
  BY <1>1, MessageFields
<1>4. Before(G, i + 1) = Before(G, i) + (IF Delimited(G.fields[i], 12) THEN 1 ELSE 0)
  <2>1. i \in Nat \ {0} /\ (i + 1) - 1 = i
    BY <1>3
  <2>. QED
    BY <2>1, NextOutput DEF Before
<1>5. CASE Reads
  <2>1. /\ i \in 1 .. Len(G.fields)
        /\ \/ At(G.fields, i)'
           \/ ~Delimited(G.fields[i], Wanted[level]) /\ At(G.fields, i + 1)'
    BY <1>1, <1>2, <1>5, StaysInStep
  <2>2. Wanted[level] = 12
    BY <1>1 DEF Wanted
  <2>3. level' = level /\ end' = end /\ names' = names /\ pc' # "done"
    BY <1>5 DEF Reads, ReadByte, ReadTag, SkipVarint, SkipBytes
  <2>4. Before(G, i) \in Nat
    <3>1. i \in Nat \ {0}
      BY <1>3
    <3>. QED
      BY <3>1, NextOutput DEF Before
  <2>5. ~Delimited(G.fields[i], 12) => Before(G, i + 1) = Before(G, i)
    BY <1>4, <2>4
  <2>6. \E k \in 1 .. Len(G.fields) + 1 :
          At(G.fields, k)' /\ names' = SubSeq(N, 1, Before(G, k))
    <3>1. CASE At(G.fields, i)'
      BY <1>2, <2>3, <3>1
    <3>2. CASE ~Delimited(G.fields[i], Wanted[level]) /\ At(G.fields, i + 1)'
      <4>1. i + 1 \in 1 .. Len(G.fields) + 1
        BY <1>3, <2>1
      <4>2. names' = SubSeq(N, 1, Before(G, i + 1))
        BY <1>2, <2>2, <2>3, <2>5, <3>2
      <4>. QED
        BY <3>2, <4>1, <4>2
    <3>. QED
      BY <2>1, <3>1, <3>2
  <2>7. InGraph(G, N)'
    BY <1>1, <2>3, <2>6 DEF InGraph
  <2>. QED
    BY <1>0, <2>3, <2>7
<1>6. CASE Enter
  <2>1. pc = "length" /\ VarintOver /\ field = Wanted[level]
    BY <1>6 DEF Enter
  <2>. PICK V : V = G.fields[i]
    OBVIOUS
  <2>2. /\ i \in 1 .. Len(G.fields)
        /\ V.wire = 2 /\ field = V.num /\ p[level] = Body(V) /\ Body(V) \in Nat
        /\ p[level] + AtMost(r) = V.next
    BY <1>1, <1>2, <2>1, AtLength
  <2>3. i \in Outputs(G.fields, Len(G.fields))
    BY <1>1, <2>1, <2>2 DEF Outputs, Delimited, Wanted
  <2>4. Message(data, Body(V), V.next, V.fields)
    BY <2>3 DEF Graph, ValueInfo
  <2>5. /\ level' = "value" /\ p'["value"] = Body(V) /\ end'["value"] = V.next
        /\ p'["graph"] = V.next /\ end'["graph"] = end["graph"]
        /\ pc' = "tag" /\ NextVarint /\ names' = names
    <3>1. Child[level] = "value" /\ level = "graph"
      BY <1>1 DEF Child
    <3>2. /\ level' = "value"
          /\ p' = [p EXCEPT !["graph"] = p["graph"] + AtMost(r), !["value"] = p["graph"]]
          /\ end' = [end EXCEPT !["value"] = p["graph"] + AtMost(r)]
          /\ pc' = "tag" /\ NextVarint /\ names' = names
      BY <1>6, <3>1 DEF Enter
    <3>3. p["graph"] = Body(V) /\ p["graph"] + AtMost(r) = V.next
      BY <2>2, <3>1
    <3>. QED
      BY <3>2, <3>3 DEF TypeOK, Level
  <2>6. Len(V.fields) \in Nat /\ Start(V.fields, Body(V), 1) = Body(V)
    BY <2>4, MessageFields, MessageStarts
  <2>7. At(V.fields, 1)'
    <3>. PICK d : d = data
      OBVIOUS
    <3>1. Message(d, Body(V), end'[level'], V.fields)
      BY <2>4, <2>5
    <3>2. 1 \in 1 .. Len(V.fields) + 1 /\ p'[level'] = Start(V.fields, Body(V), 1)
      BY <2>5, <2>6
    <3>. QED
      BY <2>2, <2>5, <3>1, <3>2, NewField
  <2>8. names' = SubSeq(N, 1, Before(G, i) + Named(V, 1))
    <3>1. Named(V, 1) = 0
      BY DEF Named
    <3>2. Before(G, i) \in Nat
      <4>1. i \in Nat \ {0}
        BY <1>3
      <4>. QED
        BY <4>1, NextOutput DEF Before
    <3>3. Before(G, i) + Named(V, 1) = Before(G, i)
      BY <3>1, <3>2
    <3>. QED
      BY <1>2, <2>5, <3>3
  <2>9. InOutput(V, Before(G, i), N)'
    <3>1. 1 \in 1 .. Len(V.fields) + 1
      BY <2>6
    <3>. QED
      BY <2>5, <2>7, <2>8, <3>1 DEF InOutput
  <2>10. InValue(G, N)'
    BY <1>1, <2>3, <2>5, <2>9 DEF InValue
  <2>. QED
    BY <1>0, <2>5, <2>10
<1>7. CASE FoundName
  BY <1>1, <1>7 DEF FoundName
<1>8. CASE EndMessage
  <2>1. pc = "tag" /\ place = 1 /\ eof
    BY <1>8 DEF EndMessage
  <2>2. i = Len(G.fields) + 1
    BY <1>1, <1>2, <2>1, AtEnd
  <2>3. names' = names /\ pc' = "done"
    BY <1>1, <1>8 DEF EndMessage
  <2>4. Before(G, i) = Len(N)
    <3>1. i - 1 = Len(G.fields)
      BY <1>3, <2>2
    <3>. QED
      BY <3>1 DEF Before, Graph
  <2>5. names' = N
    <3>1. SubSeq(N, 1, Len(N)) = N
      OBVIOUS
    <3>. QED
      BY <1>2, <2>3, <2>4, <3>1
  <2>. QED
    BY <1>0, <2>3, <2>5
<1>. QED
  BY <1>5, <1>6, <1>7, <1>8 DEF Step, Reads

(* The name of an output is the one of its field 1, and the next of the model.*)
LEMMA TheName ==
  ASSUME NEW d, NEW G, NEW N \in Seq(Seq(Byte)), Graph(d, G, N),
         NEW i \in Outputs(G.fields, Len(G.fields))
  PROVE  /\ Before(G, i) \in Nat /\ Before(G, i) + 1 \in 1 .. Len(N)
         /\ Before(G, i + 1) = Before(G, i) + 1
         /\ ValueInfo(d, G.fields[i], N[Before(G, i) + 1])
<1>1. /\ Message(d, Body(G), G.next, G.fields)
      /\ Len(N) = Cardinality(Outputs(G.fields, Len(G.fields)))
      /\ ValueInfo(d, G.fields[i], N[Cardinality(Outputs(G.fields, i))])
  BY DEF Graph
<1>2. Len(G.fields) \in Nat
  BY <1>1, MessageFields
<1>3. /\ i \in Nat \ {0} /\ i <= Len(G.fields) /\ Delimited(G.fields[i], 12)
      /\ (i + 1) - 1 = i
  BY <1>2 DEF Outputs
<1>4. /\ Before(G, i) \in Nat
      /\ Cardinality(Outputs(G.fields, i)) = Before(G, i) + 1
  BY <1>3, NextOutput DEF Before
<1>5. Before(G, i + 1) = Before(G, i) + 1
  BY <1>3, <1>4 DEF Before
<1>6. Before(G, i) + 1 <= Len(N)
  BY <1>1, <1>2, <1>3, <1>4, OutputsBound
<1>7. Len(N) \in Nat
  BY LenProperties
<1>8. Before(G, i) + 1 \in 1 .. Len(N)
  BY <1>4, <1>6, <1>7
<1>. QED
  BY <1>1, <1>4, <1>5, <1>8

(* One more of the first elements of a sequence.                             *)
LEMMA OneMore ==
  ASSUME NEW T, NEW N \in Seq(T), NEW n \in Nat, n + 1 \in 1 .. Len(N)
  PROVE  Append(SubSeq(N, 1, n), N[n + 1]) = SubSeq(N, 1, n + 1)
OBVIOUS

LEMMA NoName ==
  ASSUME NEW V, NEW j \in Nat \ {0}, ~Delimited(V.fields[j], 1)
  PROVE  Named(V, j + 1) = Named(V, j)
<1>1. (j + 1) - 1 = j
  OBVIOUS
<1>2. (\E n \in 1 .. j : Delimited(V.fields[n], 1))
        <=> \E n \in 1 .. j - 1 : Delimited(V.fields[n], 1)
  <2>1. \A n \in 1 .. j : n = j \/ n \in 1 .. j - 1
    OBVIOUS
  <2>2. 1 .. j - 1 \subseteq 1 .. j
    OBVIOUS
  <2>. QED
    BY <2>1, <2>2
<1>. QED
  BY <1>1, <1>2 DEF Named

LEMMA InRange ==
  \A n \in Nat : n + 1 \notin 1 .. n /\ \A k \in 1 .. n : k + 1 \in 1 .. n + 1
OBVIOUS

LEMMA ValueLength ==
  ASSUME model \in Models, TypeOK, NEW V, Body(V) \in Nat, Message(data, Body(V), end[level], V.fields),
         NEW j \in 1 .. Len(V.fields) + 1, At(V.fields, j), pc = "length", VarintOver
  PROVE  /\ j \in 1 .. Len(V.fields)
         /\ V.fields[j].wire = 2 /\ field = V.fields[j].num
         /\ p[level] = Body(V.fields[j])
         /\ p[level] + AtMost(r) = V.fields[j].next
BY AtLength

(* The reader of a value info, until it has found the end.                   *)
LEMMA OutputStep ==
  ASSUME model \in Models, TypeOK, Step, pc # "done", level = "value",
         NEW V, NEW b \in Nat, NEW N \in Seq(Seq(Byte)), b + 1 \in 1 .. Len(N),
         Body(V) \in Nat, ValueInfo(data, V, N[b + 1]), InOutput(V, b, N)
  PROVE  \/ /\ ~EndMessage
            /\ pc' # "done" /\ level' = "value" /\ end' = end /\ InOutput(V, b, N)'
         \/ EndMessage /\ AtTag /\ names = SubSeq(N, 1, b + 1)
<1>1. /\ p["graph"] = V.next /\ end["value"] = V.next
      /\ Message(data, Body(V), end[level], V.fields)
  BY DEF InOutput, ValueInfo
<1>2. PICK j \in 1 .. Len(V.fields) + 1 :
        At(V.fields, j) /\ names = SubSeq(N, 1, b + Named(V, j))
  BY DEF InOutput
<1>3. PICK n \in 1 .. Len(V.fields) :
        /\ \A k \in 1 .. Len(V.fields) : Delimited(V.fields[k], 1) <=> k = n
        /\ N[b + 1] = SubSeq(data, Body(V.fields[n]) + 1, V.fields[n].next)
  BY DEF ValueInfo
<1>4. Len(V.fields) \in Nat
  BY <1>1, MessageFields
<1>5. Wanted[level] = 1
  BY DEF Wanted
<1>6. CASE Reads
  <2>1. /\ j \in 1 .. Len(V.fields)
        /\ \/ At(V.fields, j)'
           \/ ~Delimited(V.fields[j], Wanted[level]) /\ At(V.fields, j + 1)'
    BY <1>1, <1>2, <1>6, StaysInStep
  <2>2. /\ level' = "value" /\ end' = end /\ names' = names /\ pc' # "done"
        /\ p'["graph"] = p["graph"]
    BY <1>6 DEF Reads, ReadByte, ReadTag, SkipVarint, SkipBytes, TypeOK, Level
  <2>3. ~Delimited(V.fields[j], 1) => Named(V, j + 1) = Named(V, j)
    BY <1>4, <2>1, NoName
  <2>4. \E k \in 1 .. Len(V.fields) + 1 :
          At(V.fields, k)' /\ names' = SubSeq(N, 1, b + Named(V, k))
    <3>1. CASE At(V.fields, j)'
      BY <1>2, <2>2, <3>1
    <3>2. CASE ~Delimited(V.fields[j], Wanted[level]) /\ At(V.fields, j + 1)'
      <4>1. j + 1 \in 1 .. Len(V.fields) + 1
        BY <1>4, <2>1, InRange
      <4>2. names' = SubSeq(N, 1, b + Named(V, j + 1))
        BY <1>2, <1>5, <2>2, <2>3, <3>2
      <4>. QED
        BY <3>2, <4>1, <4>2
    <3>. QED
      BY <2>1, <3>1, <3>2
  <2>5. InOutput(V, b, N)'
    BY <1>1, <2>2, <2>4 DEF InOutput
  <2>6. ~EndMessage
    <3>1. CASE ReadByte \/ ReadTag
      BY <3>1 DEF ReadByte, ReadTag, EndMessage, VarintOver
    <3>2. CASE SkipVarint \/ SkipBytes
      BY <3>2 DEF SkipVarint, SkipBytes, EndMessage
    <3>. QED
      BY <1>6, <3>1, <3>2 DEF Reads
  <2>. QED
    BY <2>2, <2>5, <2>6
<1>7. CASE Enter
  BY <1>7 DEF Enter
<1>8. CASE FoundName
  <2>1. /\ pc = "length" /\ VarintOver /\ field = 1
        /\ names' = Append(names, SubSeq(data, p[level] + 1, p[level] + AtMost(r)))
        /\ p' = [p EXCEPT ![level] = @ + AtMost(r)]
        /\ pc' = "tag" /\ NextVarint /\ level' = level /\ end' = end
    BY <1>5, <1>8 DEF FoundName
  <2>2. /\ j \in 1 .. Len(V.fields)
        /\ V.fields[j].wire = 2 /\ field = V.fields[j].num
        /\ p[level] = Body(V.fields[j])
        /\ p[level] + AtMost(r) = V.fields[j].next
    BY <1>1, <1>2, <2>1, ValueLength
  <2>3. j = n
    BY <1>3, <2>1, <2>2 DEF Delimited
  <2>4. names' = Append(names, N[b + 1])
    BY <1>3, <2>1, <2>2, <2>3
  <2>5. Named(V, j) = 0 /\ Named(V, j + 1) = 1
    <3>1. ~\E k \in 1 .. j - 1 : Delimited(V.fields[k], 1)
      <4>1. \A k \in 1 .. n - 1 : k \in 1 .. Len(V.fields) /\ k # n
        BY <1>4
      <4>. QED
        BY <1>3, <2>3, <4>1
    <3>2. j \in 1 .. (j + 1) - 1
      <4>1. \A k \in Nat \ {0} : k \in 1 .. (k + 1) - 1
        OBVIOUS
      <4>2. j \in Nat \ {0}
        BY <1>4
      <4>. QED
        BY <4>1, <4>2
    <3>3. Delimited(V.fields[j], 1)
      BY <1>3, <2>2, <2>3
    <3>. QED
      BY <3>1, <3>2, <3>3 DEF Named
  <2>6. names' = SubSeq(N, 1, b + Named(V, j + 1))
    <3>1. b + Named(V, j) = b /\ b + Named(V, j + 1) = b + 1
      BY <2>5
    <3>2. names = SubSeq(N, 1, b)
      BY <1>2, <3>1
    <3>3. Append(SubSeq(N, 1, b), N[b + 1]) = SubSeq(N, 1, b + 1)
      BY OneMore
    <3>. QED
      BY <2>4, <3>1, <3>2, <3>3
  <2>7. V.fields[j].next = Start(V.fields, Body(V), j + 1)
    <3>1. \E d, to : Message(d, Body(V), to, V.fields)
      BY <1>1
    <3>2. \A k \in 1 .. Len(V.fields) : V.fields[k].next = Start(V.fields, Body(V), k + 1)
      BY <3>1, MessageFields
    <3>. QED
      BY <2>2, <3>2
  <2>8. p'[level'] = Start(V.fields, Body(V), j + 1)
    BY <2>1, <2>2, <2>7 DEF TypeOK
  <2>9. j + 1 \in 1 .. Len(V.fields) + 1
    BY <1>4, <2>2, InRange
  <2>10. At(V.fields, j + 1)'
    <3>. PICK d : d = data
      OBVIOUS
    <3>1. Message(d, Body(V), end'[level'], V.fields)
      BY <1>1, <2>1
    <3>. QED
      BY <2>1, <2>8, <2>9, <3>1, NewField
  <2>11. p'["graph"] = p["graph"]
    BY <2>1 DEF TypeOK, Level
  <2>12. InOutput(V, b, N)'
    BY <1>1, <2>1, <2>6, <2>9, <2>10, <2>11 DEF InOutput
  <2>13. ~EndMessage
    BY <2>1 DEF EndMessage
  <2>. QED
    BY <2>1, <2>12, <2>13
<1>9. CASE EndMessage
  <2>1. pc = "tag" /\ place = 1 /\ eof
    BY <1>9 DEF EndMessage
  <2>2. j = Len(V.fields) + 1
    BY <1>1, <1>2, <2>1, AtEnd
  <2>3. AtTag
    <3>1. j \notin 1 .. Len(V.fields)
      BY <1>4, <2>2, InRange
    <3>. QED
      BY <1>2, <3>1 DEF At
  <2>4. Named(V, j) = 1
    <3>1. n \in 1 .. j - 1
      BY <1>4, <2>2
    <3>2. Delimited(V.fields[n], 1)
      BY <1>3
    <3>. QED
      BY <3>1, <3>2 DEF Named
  <2>. QED
    BY <1>2, <1>9, <2>3, <2>4
<1>. QED
  BY <1>6, <1>7, <1>8, <1>9 DEF Step, Reads

LEMMA ValueStep ==
  ASSUME model \in Models, TypeOK, Step, pc # "done", NEW F, NEW g, NEW N \in Seq(Seq(Byte)),
         Body(F[g]) \in Nat, Graph(data, F[g], N), InValue(F[g], N)
  PROVE  Stands(F, g, N)'
<1>. PICK G : G = F[g]
  OBVIOUS
<1>0. Stands(F, g, N)' <=>
        \/ pc' = "done" /\ names' = N
        \/ pc' # "done" /\ (InModel(F, g)' \/ InGraph(G, N)' \/ InValue(G, N)')
  BY DEF Stands
<1>1. /\ level = "value" /\ end["graph"] = G.next /\ Graph(data, G, N)
      /\ Message(data, Body(G), G.next, G.fields) /\ Body(G) \in Nat
  BY DEF InValue, Graph
<1>2. PICK i \in Outputs(G.fields, Len(G.fields)) : InOutput(G.fields[i], Before(G, i), N)
  BY DEF InValue
<1>3. /\ Before(G, i) \in Nat /\ Before(G, i) + 1 \in 1 .. Len(N)
      /\ Before(G, i + 1) = Before(G, i) + 1
      /\ ValueInfo(data, G.fields[i], N[Before(G, i) + 1])
  BY <1>1, TheName
<1>4. i \in 1 .. Len(G.fields) /\ Delimited(G.fields[i], 12)
  BY <1>2 DEF Outputs
<1>5. /\ Len(G.fields) \in Nat /\ Field(data, G.fields[i])
      /\ G.fields[i].next = Start(G.fields, Body(G), i + 1)
  BY <1>1, <1>4, MessageFields
<1>6. Body(G.fields[i]) \in Nat
  BY <1>4, <1>5, FieldParts DEF Delimited
<1>7. \/ /\ ~EndMessage
         /\ pc' # "done" /\ level' = "value" /\ end' = end
         /\ InOutput(G.fields[i], Before(G, i), N)'
      \/ EndMessage /\ AtTag /\ names = SubSeq(N, 1, Before(G, i + 1))
  BY <1>1, <1>2, <1>3, <1>6, OutputStep
<1>8. CASE ~EndMessage
  <2>1. InValue(G, N)'
    BY <1>1, <1>2, <1>7, <1>8 DEF InValue
  <2>. QED
    BY <1>0, <1>7, <1>8, <2>1
<1>9. CASE EndMessage
  <2>1. /\ level' = "graph" /\ pc' = pc
        /\ UNCHANGED << model, p, end, field, r, place, more, names >>
    BY <1>1, <1>9 DEF EndMessage
  <2>2. AtTag /\ names = SubSeq(N, 1, Before(G, i + 1))
    BY <1>7, <1>9
  <2>3. i + 1 \in 1 .. Len(G.fields) + 1
    BY <1>4, <1>5, InRange
  <2>4. p["graph"] = G.fields[i].next
    BY <1>2 DEF InOutput
  <2>5. At(G.fields, i + 1)'
    <3>. PICK d : d = data
      OBVIOUS
    <3>1. Message(d, Body(G), end'[level'], G.fields)
      BY <1>1, <2>1
    <3>2. p'[level'] = Start(G.fields, Body(G), i + 1)
      BY <1>5, <2>1, <2>4
    <3>3. pc' = "tag" /\ NextVarint
      BY <2>1, <2>2 DEF AtTag, NextVarint
    <3>. QED
      BY <1>1, <2>3, <3>1, <3>2, <3>3, NewField
  <2>6. InGraph(G, N)'
    BY <1>1, <2>1, <2>2, <2>3, <2>5 DEF InGraph
  <2>7. pc' # "done"
    BY <2>1
  <2>. QED
    BY <1>0, <2>6, <2>7
<1>. QED
  BY <1>8, <1>9

LEMMA NextInStep == IInv /\ InStep /\ [Next]_vars => InStep'
<1>. SUFFICES ASSUME IInv, InStep, [Next]_vars PROVE InStep'
  OBVIOUS
<1>. PICK F : F = model.fields
  OBVIOUS
<1>. PICK N : N = model.outputs
  OBVIOUS
<1>1. TypeOK /\ Nested /\ N \in Seq(Seq(Byte)) /\ model \in Models
  BY DEF IInv, TypeOK
<1>2. PICK g \in 1 .. Len(F) :
        IsGraph(F, g) /\ Graph(data, F[g], N) /\ Stands(F, g, N)
  BY DEF InStep
<1>3. model' = model
  BY DEF Next, Step, Done, vars, ReadByte, ReadTag, SkipVarint, SkipBytes, Enter,
         FoundName, EndMessage
<1>4. Message(data, 0, Len(data), F)
  BY <1>1, EncodingAssumption DEF Encoded, data
<1>5. Body(F[g]) \in Nat
  <2>1. Field(data, F[g]) /\ g \in 1 .. Len(F)
    BY <1>2, <1>4, MessageFields
  <2>2. Delimited(F[g], 7)
    BY <1>2, <1>4, MessageFields DEF IsGraph
  <2>. QED
    BY <2>1, <2>2, FieldParts DEF Delimited
<1>6. Stands(F, g, N)'
  <2>1. CASE UNCHANGED vars
    <3>1. /\ model' = model /\ level' = level /\ p' = p /\ end' = end /\ pc' = pc
          /\ field' = field /\ r' = r /\ place' = place /\ more' = more /\ names' = names
          /\ data' = data
      BY <2>1 DEF vars, data
    <3>2. \A a, b, v : InVarint(a, b, v) => InVarint(a, b, v)'
      BY <3>1 DEF InVarint
    <3>3. \A f : InField(f) => InField(f)'
      BY <3>1, <3>2 DEF InField
    <3>4. \A K, i : At(K, i) => At(K, i)'
      BY <3>1, <3>3 DEF At, AtTag
    <3>5. InModel(F, g) => InModel(F, g)'
      BY <3>1, <3>4 DEF InModel
    <3>6. \A G : InGraph(G, N) => InGraph(G, N)'
      BY <3>1, <3>4 DEF InGraph
    <3>7. \A V, b : InOutput(V, b, N) => InOutput(V, b, N)'
      BY <3>1, <3>4 DEF InOutput
    <3>8. \A G : InValue(G, N) => InValue(G, N)'
      BY <3>1, <3>7 DEF InValue
    <3>. QED
      BY <1>2, <3>1, <3>5, <3>6, <3>8 DEF Stands
  <2>2. CASE Step
    <3>1. pc # "done"
      BY <2>2 DEF Step, ReadByte, ReadTag, SkipVarint, SkipBytes, Enter,
                  FoundName, EndMessage
    <3>2. CASE InModel(F, g)
      BY <1>1, <1>2, <1>4, <2>2, <3>1, <3>2, ModelStep
    <3>3. CASE InGraph(F[g], N)
      BY <1>1, <1>2, <1>5, <2>2, <3>1, <3>3, GraphStep
    <3>4. CASE InValue(F[g], N)
      BY <1>1, <1>2, <1>5, <2>2, <3>1, <3>4, ValueStep
    <3>. QED
      BY <1>2, <3>1, <3>2, <3>3, <3>4 DEF Stands
  <2>. QED
    BY <2>1, <2>2 DEF Next, Done
<1>7. data' = data /\ F = model'.fields /\ N = model'.outputs
  BY <1>3 DEF data
<1>8. IsGraph(F, g) /\ Graph(data', F[g], N) /\ g \in 1 .. Len(F)
  BY <1>2, <1>7
<1>. QED
  BY <1>6, <1>7, <1>8 DEF InStep

(* A reader that is where its message has a field is asked for no more than   *)
(* the field has.                                                           *)
LEMMA FieldInBounds ==
  ASSUME model \in Models, TypeOK, NEW f, Field(data, f), InField(f), f.next <= end[level]
  PROVE  InBounds
<1>1. /\ f.wire \in {0, 1, 2, 5} /\ f.value \in Nat
      /\ f.tagged \in Nat /\ f.next \in Nat /\ f.tagged <= f.next
      /\ f.wire = 1 => f.next = f.tagged + 8
      /\ f.wire = 5 => f.next = f.tagged + 4
  BY FieldParts
<1>2. end[level] \in Nat
  BY DEF TypeOK
<1>3. ASSUME pc = "tag", VarintOver
      PROVE  Width \in 0 .. end[level] - p[level]
  <2>1. p[level] = f.tagged /\ r % 8 = f.wire
    BY <1>3, TagRead
  <2>2. CASE f.wire = 0 \/ f.wire = 2
    BY <1>1, <1>2, <2>1, <2>2 DEF Width
  <2>3. CASE f.wire = 1
    <3>1. AtMost(8) = 8 /\ p[level] + 8 <= end[level]
      BY <1>1, <1>2, <2>1, <2>3, AtMostFits
    <3>. QED
      BY <1>1, <1>2, <2>1, <2>3, <3>1 DEF Width
  <2>4. CASE f.wire = 5
    <3>1. AtMost(4) = 4 /\ p[level] + 4 <= end[level]
      BY <1>1, <1>2, <2>1, <2>4, AtMostFits
    <3>. QED
      BY <1>1, <1>2, <2>1, <2>4, <3>1 DEF Width
  <2>. QED
    BY <1>1, <2>2, <2>3, <2>4
<1>4. ASSUME pc = "length", VarintOver
      PROVE  AtMost(r) \in 0 .. end[level] - p[level]
  <2>1. /\ p[level] = Body(f) /\ Body(f) \in Nat /\ AtMost(r) = f.value
        /\ p[level] + AtMost(r) = f.next
    BY <1>4, LengthRead
  <2>. QED
    BY <1>1, <1>2, <2>1
<1>. QED
  BY <1>3, <1>4 DEF InBounds

LEMMA AtInBounds ==
  ASSUME model \in Models, TypeOK, NEW from \in Nat, NEW F,
         Message(data, from, end[level], F), NEW i \in 1 .. Len(F) + 1, At(F, i)
  PROVE  InBounds
<1>1. CASE i \in 1 .. Len(F) /\ InField(F[i])
  <2>1. Field(data, F[i]) /\ F[i].next <= end[level]
    BY <1>1, MessageFields, MessageBounds
  <2>. QED
    BY <1>1, <2>1, FieldInBounds
<1>2. CASE AtTag
  BY <1>2 DEF AtTag, InBounds
<1>. QED
  BY <1>1, <1>2 DEF At

LEMMA StepInBounds == IInv /\ InStep => InBounds
<1>. SUFFICES ASSUME IInv, InStep, pc # "done" PROVE InBounds
  BY DEF InBounds
<1>. PICK F : F = model.fields
  OBVIOUS
<1>. PICK N : N = model.outputs
  OBVIOUS
<1>1. TypeOK /\ N \in Seq(Seq(Byte)) /\ model \in Models
  BY DEF IInv, TypeOK
<1>2. PICK g \in 1 .. Len(F) :
        IsGraph(F, g) /\ Graph(data, F[g], N) /\ Stands(F, g, N)
  BY DEF InStep
<1>. PICK G : G = F[g]
  OBVIOUS
<1>3. Message(data, 0, Len(data), F)
  BY <1>1, EncodingAssumption DEF Encoded, data
<1>4. Message(data, Body(G), G.next, G.fields)
  BY <1>2 DEF Graph
<1>5. Len(F) \in Nat /\ Len(G.fields) \in Nat /\ Field(data, G)
  BY <1>3, <1>4, MessageFields
<1>6. Body(G) \in Nat
  <2>1. Delimited(G, 7)
    BY <1>2 DEF IsGraph
  <2>. QED
    BY <1>5, <2>1, FieldParts DEF Delimited
<1>7. CASE InModel(F, g)
  <2>1. PICK i \in 1 .. g : At(F, i)
    BY <1>7 DEF InModel
  <2>2. i \in 1 .. Len(F) + 1
    BY <1>5
  <2>3. Message(data, 0, end[level], F)
    BY <1>3, <1>7 DEF InModel
  <2>. QED
    BY <1>1, <2>1, <2>2, <2>3, AtInBounds
<1>8. CASE InGraph(G, N)
  <2>1. PICK i \in 1 .. Len(G.fields) + 1 : At(G.fields, i)
    BY <1>8 DEF InGraph
  <2>2. Message(data, Body(G), end[level], G.fields)
    BY <1>4, <1>8 DEF InGraph
  <2>. QED
    BY <1>1, <1>6, <2>1, <2>2, AtInBounds
<1>9. CASE InValue(G, N)
  <2>1. PICK i \in Outputs(G.fields, Len(G.fields)) : InOutput(G.fields[i], Before(G, i), N)
    BY <1>9 DEF InValue
  <2>. PICK V : V = G.fields[i]
    OBVIOUS
  <2>2. ValueInfo(data, V, N[Before(G, i) + 1])
    BY <1>1, <1>2, <2>1, TheName
  <2>3. Message(data, Body(V), V.next, V.fields)
    BY <2>2 DEF ValueInfo
  <2>4. PICK j \in 1 .. Len(V.fields) + 1 : At(V.fields, j)
    BY <2>1 DEF InOutput
  <2>5. Message(data, Body(V), end[level], V.fields)
    BY <1>9, <2>1, <2>3 DEF InValue, InOutput
  <2>6. Body(V) \in Nat
    <3>1. i \in 1 .. Len(G.fields) /\ Delimited(V, 12)
      BY DEF Outputs
    <3>2. Field(data, V)
      BY <1>4, <3>1, MessageFields
    <3>. QED
      BY <3>1, <3>2, FieldParts DEF Delimited
  <2>. QED
    BY <1>1, <2>4, <2>5, <2>6, AtInBounds
<1>. QED
  BY <1>2, <1>7, <1>8, <1>9 DEF Stands

LEMMA InStepAlways == Spec => [](IInv /\ InStep)
<1>1. Init => IInv /\ InStep
  BY InitIInv, Begun
<1>2. IInv /\ InStep /\ [Next]_vars => (IInv /\ InStep)'
  BY NextIInv, NextInStep, StepInBounds
<1>. QED
  BY <1>1, <1>2, PTL DEF Spec

(* However the walk stands, the names found are the first ones of the model.  *)
LEMMA FirstNames ==
  ASSUME TypeOK, NEW F, NEW g, NEW N \in Seq(Seq(Byte)), Graph(data, F[g], N),
         Stands(F, g, N)
  PROVE  \E n \in 0 .. Len(N) : names = SubSeq(N, 1, n)
<1>. PICK G : G = F[g]
  OBVIOUS
<1>0. Len(N) \in Nat
  BY LenProperties
<1>1. CASE names = N
  <2>1. SubSeq(N, 1, Len(N)) = N
    OBVIOUS
  <2>2. Len(N) \in 0 .. Len(N)
    BY <1>0
  <2>. QED
    BY <1>1, <2>1, <2>2
<1>2. CASE InModel(F, g)
  <2>1. SubSeq(N, 1, 0) = << >>
    OBVIOUS
  <2>. QED
    BY <1>0, <1>2, <2>1 DEF InModel
<1>3. CASE InGraph(G, N)
  <2>1. PICK i \in 1 .. Len(G.fields) + 1 : names = SubSeq(N, 1, Before(G, i))
    BY <1>3 DEF InGraph
  <2>2. /\ Len(G.fields) \in Nat
        /\ Len(N) = Cardinality(Outputs(G.fields, Len(G.fields)))
    BY MessageFields DEF Graph
  <2>3. i - 1 \in Nat /\ i - 1 <= Len(G.fields)
    BY <2>2
  <2>4. Before(G, i) \in Nat /\ Before(G, i) <= Len(N)
    BY <2>2, <2>3, OutputsBound DEF Before
  <2>. QED
    BY <1>0, <2>1, <2>4
<1>4. CASE InValue(G, N)
  <2>1. PICK i \in Outputs(G.fields, Len(G.fields)) : InOutput(G.fields[i], Before(G, i), N)
    BY <1>4 DEF InValue
  <2>2. PICK j : names = SubSeq(N, 1, Before(G, i) + Named(G.fields[i], j))
    BY <2>1 DEF InOutput
  <2>3. Before(G, i) \in Nat /\ Before(G, i) + 1 \in 1 .. Len(N)
    BY <2>1, TheName
  <2>4. Named(G.fields[i], j) \in {0, 1}
    BY DEF Named
  <2>5. Before(G, i) + Named(G.fields[i], j) \in 0 .. Len(N)
    BY <1>0, <2>3, <2>4
  <2>. QED
    BY <2>2, <2>5
<1>. QED
  BY <1>1, <1>2, <1>3, <1>4 DEF Stands

LEMMA StepInOrder == IInv /\ InStep => NeverOutOfStep
<1>. SUFFICES ASSUME IInv, InStep PROVE NeverOutOfStep
  OBVIOUS
<1>. PICK N : N = model.outputs
  OBVIOUS
<1>1. TypeOK /\ N \in Seq(Seq(Byte))
  BY DEF IInv, TypeOK
<1>2. PICK n \in 0 .. Len(N) : names = SubSeq(N, 1, n)
  BY <1>1, FirstNames DEF InStep
<1>3. Len(SubSeq(N, 1, n)) = n
  BY <1>1
<1>. QED
  BY <1>2, <1>3 DEF NeverOutOfStep

LEMMA StepNamesAll == IInv /\ InStep => RealNames
<1>. SUFFICES ASSUME IInv, InStep, pc = "done" PROVE names = model.outputs
  BY DEF RealNames, OutputName, IInv, TypeOK
<1>. QED
  BY DEF InStep, Stands

(* Of a model encoded as protobuf encodes it, at any address: every variable   *)
(* of the walk keeps its type, and no reader is given bytes that the model    *)
(* does not have.                                                           *)
THEOREM TypeCorrect == Spec => []TypeOK
<1>1. IInv /\ InStep => TypeOK
  BY DEF IInv
<1>. QED
  BY <1>1, InStepAlways, PTL

(* Of such a model, a reader in use has not passed its end, which is where the *)
(* reader around it goes on.                                                *)
THEOREM ReadersNested == Spec => []Nested
<1>1. IInv /\ InStep => Nested
  BY DEF IInv
<1>. QED
  BY <1>1, InStepAlways, PTL

(* Of a model encoded as protobuf encodes it, with any fields in any order,   *)
(* nothing is taken for an output's name that is not one, and no name is     *)
(* passed over.                                                             *)
THEOREM NamesInOrder == Spec => []NeverOutOfStep
BY InStepAlways, StepInOrder, PTL

(* When the walk over such a model is done, each output has its own name, or  *)
(* the numbered one if its own is empty.                                    *)
THEOREM NamesReal == Spec => []RealNames
BY InStepAlways, StepNamesAll, PTL
=============================================================================
