------------------------- MODULE ShapeBinding_proofs -------------------------
(***************************************************************************)
(* Proofs about ShapeBinding, for every set of models, every profile and    *)
(* every order in which MIGraphX lists the parameters.                      *)
(*                                                                         *)
(* The invariant SInv says that the engine is the one that build makes of   *)
(* the model and the profile (which it may, as nothing changes either        *)
(* afterwards) and that an accepted run has run with arguments that fit.     *)
(* What the metadata report of a tensor, where the k-th output is among them *)
(* and which axis is open follow from it by lemmas about one engine.         *)
(*                                                                         *)
(* That strides address a tensor needs no invariant but two lemmas about      *)
(* data, at the end: what a fold over an interval is, element by element, and *)
(* that an index adds up to the number of indices before it.                 *)
(***************************************************************************)
EXTENDS ShapeBinding, SequenceLemmas, FiniteSetTheorems, FunctionTheorems, TLAPS

(* The least of some natural numbers.                                        *)
LEMMA MinIs ==
  ASSUME NEW S \in SUBSET Nat, S # {}
  PROVE  Min(S) \in S /\ \A y \in S : Min(S) <= y
<1> DEFINE Less == { p \in Nat \X Nat : p[1] < p[2] }
<1>1. IsWellFoundedOn(Less, Nat)
  BY NatLessThanWellFounded DEF OpToRel
<1>2. PICK x \in S : \A y \in S : << y, x >> \notin Less
  <2> HIDE DEF Less
  <2> QED
    BY <1>1, WFMin
<1>3. \A y \in S : x <= y
  <2> TAKE y \in S
  <2>1. x \in Nat /\ y \in Nat /\ << y, x >> \notin Less
    BY <1>2
  <2> QED
    BY <2>1
<1> QED
  BY <1>3 DEF Min

(* The members of a sequence are finitely many.                              *)
LEMMA FiniteRange ==
  ASSUME NEW T, NEW s \in Seq(T)
  PROVE  IsFiniteSet(Range(s))
<1>1. Len(s) \in Nat /\ s \in [1 .. Len(s) -> T] /\ DOMAIN s = 1 .. Len(s)
  BY LenProperties
<1>2. s \in [1 .. Len(s) -> Range(s)]
  BY <1>1 DEF Range
<1>3. s \in Surjection(1 .. Len(s), Range(s))
  BY <1>1, <1>2 DEF Surjection, Range
<1>4. IsFiniteSet(1 .. Len(s))
  BY <1>1, FS_Interval
<1> QED
  BY <1>3, <1>4, FS_Surjection

(* A sequence of a set's members in some order holds each of them once.      *)
LEMMA OrderIs ==
  ASSUME NEW S, IsFiniteSet(S), NEW order \in SetToSeqs(S)
  PROVE  /\ Cardinality(S) \in Nat /\ order \in Seq(S) /\ Len(order) = Cardinality(S)
         /\ \A n \in S : \E i \in 1 .. Cardinality(S) : order[i] = n
<1> DEFINE c == Cardinality(S)
<1>1. c \in Nat
  BY FS_CardinalityType
<1>2. order \in [1 .. c -> S] /\ \A i, j \in 1 .. c : i # j => order[i] # order[j]
  BY DEF SetToSeqs
<1>3. IsFiniteSet(1 .. c) /\ Cardinality(1 .. c) = c
  BY <1>1, FS_Interval
<1>4. order \in Injection(1 .. c, S)
  BY <1>2 DEF Injection, IsInjective
<1>5. order \in Surjection(1 .. c, S)
  BY <1>3, <1>4, FS_Injection
<1>6. order \in Seq(S) /\ Len(order) = c
  BY <1>1, <1>2
<1> QED
  BY <1>1, <1>5, <1>6 DEF Surjection

-----------------------------------------------------------------------------
(***************************************************************************)
(* The shapes of a model.                                                   *)
(***************************************************************************)

Extent == Nat \ {0}

LEMMA GraphTyped ==
  ASSUME NEW g \in Graphs
  PROVE  /\ IsFiniteSet(DOMAIN g.inputs) /\ Cardinality(DOMAIN g.inputs) \in Nat
         /\ DOMAIN g.inputs \subseteq Range(InputNames)
         /\ DOMAIN g.inputs \subseteq Tensors
         /\ \A n \in DOMAIN g.inputs : g.inputs[n] \in Seq({Free} \cup Extent)
         /\ g.outputs \in Seq([name : Tensors, dims : Seq(Axes(g))])
         /\ \A k \in DOMAIN g.outputs :
              /\ g.outputs[k].name \notin DOMAIN g.inputs
              /\ \A l \in DOMAIN g.outputs : g.outputs[l].name = g.outputs[k].name => l = k
<1>1. IsFiniteSet(Range(InputNames)) /\ Range(InputNames) \subseteq Tensors
  <2>1. InputNames \in Seq(Tensors)
    BY GraphAssumption
  <2>2. IsFiniteSet(Range(InputNames))
    BY <2>1, FiniteRange
  <2>3. Range(InputNames) \subseteq Tensors
    BY <2>1, LenProperties DEF Range
  <2> QED
    BY <2>2, <2>3
<1>2. DOMAIN g.inputs \subseteq Range(InputNames)
  BY GraphAssumption
<1>3. IsFiniteSet(DOMAIN g.inputs)
  BY <1>1, <1>2, FS_Subset
<1>4. Cardinality(DOMAIN g.inputs) \in Nat
  BY <1>3, FS_CardinalityType
<1> QED
  BY <1>1, <1>2, <1>3, <1>4, GraphAssumption DEF Extent

LEMMA InputTyped ==
  ASSUME graph \in Graphs, NEW n \in DOMAIN graph.inputs
  PROVE  /\ graph.inputs[n] \in Seq({Free} \cup Extent)
         /\ DOMAIN graph.inputs[n] = 1 .. Len(graph.inputs[n]) /\ Len(graph.inputs[n]) \in Nat
         /\ \A a \in DOMAIN graph.inputs[n] :
              graph.inputs[n][a] = Free \/ graph.inputs[n][a] \in Extent
<1>1. graph.inputs[n] \in Seq({Free} \cup Extent)
  BY GraphTyped
<1> DEFINE s == graph.inputs[n]
<1> HIDE DEF s
<1>2. s \in Seq({Free} \cup Extent)
  BY <1>1 DEF s
<1>3. DOMAIN s = 1 .. Len(s) /\ Len(s) \in Nat /\ s \in [1 .. Len(s) -> {Free} \cup Extent]
  BY <1>2, LenProperties
<1> QED
  BY <1>2, <1>3 DEF s

(* The free axes pinned: every extent is one or more.                        *)
LEMMA PinnedTyped ==
  ASSUME graph \in Graphs, NEW n \in DOMAIN graph.inputs
  PROVE  /\ PinnedInputs[n] \in Seq(Extent)
         /\ DOMAIN PinnedInputs[n] = DOMAIN graph.inputs[n]
         /\ \A a \in DOMAIN graph.inputs[n] :
              PinnedInputs[n][a]
                = IF graph.inputs[n][a] = Free THEN 1 ELSE graph.inputs[n][a]
<1> DEFINE s == graph.inputs[n]
           t == PinnedInputs[n]
<1>1. /\ DOMAIN s = 1 .. Len(s) /\ Len(s) \in Nat
      /\ \A a \in DOMAIN s : s[a] = Free \/ s[a] \in Extent
  BY InputTyped
<1>2. t = [a \in DOMAIN s |-> IF s[a] = Free THEN 1 ELSE s[a]]
  BY DEF PinnedInputs, Pinned
<1> HIDE DEF s, t
<1>3. t \in [1 .. Len(s) -> Extent]
  <2>1. \A a \in DOMAIN s : (IF s[a] = Free THEN 1 ELSE s[a]) \in Extent
    BY <1>1 DEF Extent
  <2> QED
    BY <1>1, <1>2, <2>1
<1>4. t \in Seq(Extent)
  BY <1>1, <1>3
<1> QED
  BY <1>2, <1>4 DEF s, t

(* The shape of an output, for inputs with as many axes as the model's.      *)
LEMMA OutputTyped ==
  ASSUME graph \in Graphs, NEW k \in DOMAIN graph.outputs
  PROVE  /\ graph.outputs[k].name \in Tensors
         /\ graph.outputs[k].dims \in Seq(Axes(graph))
         /\ DOMAIN graph.outputs[k].dims = 1 .. Len(graph.outputs[k].dims)
         /\ Len(graph.outputs[k].dims) \in Nat
         /\ \A a \in DOMAIN graph.outputs[k].dims :
              \/ /\ graph.outputs[k].dims[a][1] = "" /\ graph.outputs[k].dims[a][2] \in Nat
              \/ /\ graph.outputs[k].dims[a][1] \in DOMAIN graph.inputs
                 /\ graph.outputs[k].dims[a][2]
                      \in DOMAIN graph.inputs[graph.outputs[k].dims[a][1]]
<1>1. graph.outputs \in Seq([name : Tensors, dims : Seq(Axes(graph))])
  BY GraphTyped
<1>2. graph.outputs[k] \in [name : Tensors, dims : Seq(Axes(graph))]
  BY <1>1, LenProperties
<1> DEFINE d == graph.outputs[k].dims
<1>3. d \in Seq(Axes(graph)) /\ graph.outputs[k].name \in Tensors
  BY <1>2
<1> HIDE DEF d
<1>4. DOMAIN d = 1 .. Len(d) /\ Len(d) \in Nat /\ d \in [1 .. Len(d) -> Axes(graph)]
  BY <1>3, LenProperties
<1>5. ASSUME NEW s \in Axes(graph)
      PROVE  \/ s[1] = "" /\ s[2] \in Nat
             \/ s[1] \in DOMAIN graph.inputs /\ s[2] \in DOMAIN graph.inputs[s[1]]
  <2>1. CASE s \in {""} \X Nat
    BY <2>1
  <2>2. CASE s \in UNION { {n} \X DOMAIN graph.inputs[n] : n \in DOMAIN graph.inputs }
    <3>1. PICK n \in DOMAIN graph.inputs : s \in {n} \X DOMAIN graph.inputs[n]
      BY <2>2
    <3>2. s[1] = n /\ s[2] \in DOMAIN graph.inputs[n]
      BY <3>1
    <3> QED
      BY <3>2
  <2> QED
    BY <1>5, <2>1, <2>2 DEF Axes
<1> QED
  BY <1>3, <1>4, <1>5 DEF d

LEMMA OutputDimsTyped ==
  ASSUME graph \in Graphs, NEW k \in DOMAIN graph.outputs
  PROVE  OutputDims(k, PinnedInputs) \in Seq(Nat)
<1> DEFINE d == graph.outputs[k].dims
           e(a) == IF d[a][1] = "" THEN d[a][2] ELSE PinnedInputs[d[a][1]][d[a][2]]
<1>1. DOMAIN d = 1 .. Len(d) /\ Len(d) \in Nat
  BY OutputTyped
<1>2. ASSUME NEW a \in DOMAIN d
      PROVE  e(a) \in Nat
  <2>1. CASE d[a][1] = "" /\ d[a][2] \in Nat
    BY <2>1
  <2>2. CASE d[a][1] # "" /\ d[a][1] \in DOMAIN graph.inputs
             /\ d[a][2] \in DOMAIN graph.inputs[d[a][1]]
    <3> DEFINE t == PinnedInputs[d[a][1]]
    <3>1. t \in Seq(Extent) /\ d[a][2] \in DOMAIN t
      BY <2>2, PinnedTyped
    <3> HIDE DEF t
    <3>2. t[d[a][2]] \in Extent
      BY <3>1, LenProperties
    <3> QED
      BY <2>2, <3>2 DEF Extent, t
  <2>3. CASE d[a][1] = "" /\ d[a][1] \in DOMAIN graph.inputs
             /\ d[a][2] \in DOMAIN graph.inputs[d[a][1]]
    <3> DEFINE n == d[a][1]
    <3>0. n \in DOMAIN graph.inputs /\ d[a][2] \in DOMAIN graph.inputs[n]
      BY <2>3
    <3> HIDE DEF n
    <3>1. d[a][2] \in Nat
      BY <3>0, InputTyped
    <3> QED
      BY <2>3, <3>1
  <2> QED
    BY <2>1, <2>2, <2>3, OutputTyped
<1>3. OutputDims(k, PinnedInputs) = [a \in DOMAIN d |-> e(a)]
  BY DEF OutputDims
<1> HIDE DEF d, e
<1> QED
  BY <1>1, <1>2, <1>3

-----------------------------------------------------------------------------
(***************************************************************************)
(* The engine of a build: its metadata, in terms of the model and profile.   *)
(***************************************************************************)

IO == [name : Tensors, dims : Dims, dir : {"input", "output"}]
InTensor(n) == IOTensor(n, PinnedInputs[n], "input")
OutTensor(k) == IOTensor(graph.outputs[k].name, OutputDims(k, PinnedInputs), "output")
Marked(io) == IF dynamicAxis = Null THEN io ELSE MarkDynamic(io, dynamicAxis)
Inputs == Cardinality(DOMAIN graph.inputs)

MadeFrom(order) ==
  engine = [ params |-> [n \in DOMAIN graph.inputs |-> Parameter(n, dynamicAxis)],
             zero_copy |-> dynamicAxis = Null,
             ios |-> IF dynamicAxis = Null THEN split_io(order)
                     ELSE [i \in DOMAIN split_io(order) |->
                             MarkDynamic(split_io(order)[i], dynamicAxis)] ]

Built == engine # Null => \E order \in SetToSeqs(DOMAIN graph.inputs) : MadeFrom(order)

LEMMA TensorsTyped ==
  ASSUME graph \in Graphs
  PROVE  /\ \A n \in DOMAIN graph.inputs :
              InTensor(n) \in IO /\ InTensor(n).dims \in Seq(Nat)
         /\ \A k \in DOMAIN graph.outputs :
              OutTensor(k) \in IO /\ OutTensor(k).dims \in Seq(Nat)
<1>0. \A s : s \in Seq(Nat) => s \in Dims
  BY SeqMonotonic DEF Dims
<1>1. ASSUME NEW n \in DOMAIN graph.inputs
      PROVE  InTensor(n) \in IO /\ InTensor(n).dims \in Seq(Nat)
  <2>1. PinnedInputs[n] \in Seq(Extent)
    BY PinnedTyped
  <2>2. PinnedInputs[n] \in Seq(Nat)
    BY <2>1, SeqMonotonic DEF Extent
  <2>3. n \in Tensors
    BY GraphTyped
  <2> QED
    BY <1>0, <2>2, <2>3 DEF InTensor, IOTensor, IO
<1>2. ASSUME NEW k \in DOMAIN graph.outputs
      PROVE  OutTensor(k) \in IO /\ OutTensor(k).dims \in Seq(Nat)
  <2>1. OutputDims(k, PinnedInputs) \in Seq(Nat) /\ graph.outputs[k].name \in Tensors
    BY OutputDimsTyped, OutputTyped
  <2> QED
    BY <1>0, <2>1 DEF OutTensor, IOTensor, IO
<1> QED
  BY <1>1, <1>2

(* Marking the open axes changes no tensor's name, direction or rank.        *)
LEMMA MarkedIs ==
  ASSUME NEW io \in IO
  PROVE  /\ Marked(io) \in IO /\ Marked(io).name = io.name /\ Marked(io).dir = io.dir
         /\ dynamicAxis = Null => Marked(io) = io
         /\ dynamicAxis # Null /\ io.dir = "input" =>
              Marked(io).dims = IF io.name = dynamicAxis.input
                                   /\ dynamicAxis.axis \in DOMAIN io.dims
                                THEN [io.dims EXCEPT ![dynamicAxis.axis] = Free]
                                ELSE io.dims
         /\ dynamicAxis # Null /\ io.dir = "output" =>
              Marked(io).dims = IF io.dims # << >> THEN [io.dims EXCEPT ![1] = Free]
                                ELSE io.dims
<1> DEFINE x == dynamicAxis
           d == io.dims
<1>1. io.dims \in Dims /\ DOMAIN io.dims = 1 .. Len(io.dims) /\ Free \in Int
      /\ (io.dims # << >> => 1 \in 1 .. Len(io.dims))
  <2>1. io.dims \in Dims
    BY DEF IO
  <2> DEFINE s == io.dims
  <2>2. s \in Seq(Int)
    BY <2>1 DEF Dims
  <2> HIDE DEF s
  <2>3. DOMAIN s = 1 .. Len(s) /\ (s # << >> => 1 \in 1 .. Len(s))
    BY <2>2, LenProperties, EmptySeq
  <2> QED
    BY <2>1, <2>3 DEF Free, s
<1>2. \A a \in DOMAIN io.dims : [io.dims EXCEPT ![a] = Free] \in Dims
  <2> TAKE a \in DOMAIN io.dims
  <2> DEFINE s == io.dims
  <2>1. s \in Seq(Int) /\ a \in 1 .. Len(s)
    BY <1>1 DEF Dims
  <2> HIDE DEF s
  <2>2. [s EXCEPT ![a] = Free] \in Seq(Int)
    BY <1>1, <2>1, ExceptSeq
  <2> QED
    BY <2>2 DEF s, Dims
<1>3. io = [name |-> io.name, dims |-> io.dims, dir |-> io.dir]
      /\ io.name \in Tensors /\ io.dir \in {"input", "output"}
  BY DEF IO
<1>4. \A a : [io EXCEPT !.dims[a] = Free]
               = [name |-> io.name, dims |-> [io.dims EXCEPT ![a] = Free], dir |-> io.dir]
  BY <1>3
<1> QED
  BY <1>1, <1>2, <1>3, <1>4 DEF Marked, MarkDynamic, IO

LEMMA SplitIs ==
  ASSUME graph \in Graphs, NEW order \in SetToSeqs(DOMAIN graph.inputs)
  PROVE  /\ split_io(order) \in Seq(IO) /\ Len(split_io(order)) = Inputs + Len(graph.outputs)
         /\ \A i \in 1 .. Inputs : /\ order[i] \in DOMAIN graph.inputs
                                   /\ split_io(order)[i] = InTensor(order[i])
         /\ \A k \in 1 .. Len(graph.outputs) : split_io(order)[Inputs + k] = OutTensor(k)
         /\ \A n \in DOMAIN graph.inputs : \E i \in 1 .. Inputs : order[i] = n
<1> DEFINE I == Inputs
           O == Len(graph.outputs)
           S == DOMAIN graph.inputs
           s == InputTensors(order)
           t == OutputTensors
<1>1. /\ I \in Nat /\ order \in Seq(S) /\ Len(order) = I
      /\ \A n \in S : \E i \in 1 .. I : order[i] = n
  <2>1. IsFiniteSet(S)
    BY GraphTyped
  <2> QED
    BY <2>1, OrderIs DEF Inputs
<1>2. DOMAIN order = 1 .. I /\ \A i \in 1 .. I : order[i] \in S
  BY <1>1, LenProperties
<1>3. O \in Nat /\ DOMAIN graph.outputs = 1 .. O
  BY GraphTyped, LenProperties
<1>4. s = [i \in 1 .. I |-> InTensor(order[i])] /\ t = [k \in 1 .. O |-> OutTensor(k)]
  BY <1>2, <1>3 DEF InputTensors, OutputTensors, InTensor, OutTensor
<1>5. /\ \A i \in 1 .. I : InTensor(order[i]) \in IO
      /\ \A k \in 1 .. O : OutTensor(k) \in IO
  BY <1>2, <1>3, TensorsTyped
<1> HIDE DEF I, O, s, t
<1>6. s \in Seq(IO) /\ Len(s) = I /\ t \in Seq(IO) /\ Len(t) = O
  BY <1>1, <1>3, <1>4, <1>5
<1>7. /\ s \o t \in Seq(IO) /\ Len(s \o t) = I + O
      /\ \A i \in 1 .. I + O : (s \o t)[i] = IF i <= I THEN s[i] ELSE t[i - I]
  BY <1>6, ConcatProperties
<1>8. \A i \in 1 .. I : (s \o t)[i] = InTensor(order[i])
  <2> TAKE i \in 1 .. I
  <2>1. i \in 1 .. I + O /\ i <= I
    BY <1>1, <1>3
  <2> QED
    BY <1>4, <1>7, <2>1
<1>9. \A k \in 1 .. O : (s \o t)[I + k] = OutTensor(k)
  <2> TAKE k \in 1 .. O
  <2>1. I + k \in 1 .. I + O /\ ~(I + k <= I) /\ (I + k) - I = k
    BY <1>1, <1>3
  <2> QED
    BY <1>4, <1>7, <2>1
<1>10. split_io(order) = s \o t
  BY DEF split_io, s, t
<1> QED
  BY <1>1, <1>2, <1>7, <1>8, <1>9, <1>10 DEF I, O

(* The metadata of an engine: the inputs in some order, then the outputs in  *)
(* theirs.                                                                  *)
LEMMA IosAre ==
  ASSUME graph \in Graphs, Built, engine # Null
  PROVE  /\ Inputs \in Nat /\ Len(graph.outputs) \in Nat
         /\ DOMAIN graph.outputs = 1 .. Len(graph.outputs)
         /\ engine.ios \in Seq(IO) /\ Len(engine.ios) = Inputs + Len(graph.outputs)
         /\ DOMAIN engine.ios = 1 .. Inputs + Len(graph.outputs)
         /\ \A i \in 1 .. Inputs : \E n \in DOMAIN graph.inputs :
              engine.ios[i] = Marked(InTensor(n))
         /\ \A n \in DOMAIN graph.inputs : \E i \in 1 .. Inputs :
              engine.ios[i] = Marked(InTensor(n))
         /\ \A k \in 1 .. Len(graph.outputs) :
              engine.ios[Inputs + k] = Marked(OutTensor(k))
         /\ engine.zero_copy = (dynamicAxis = Null)
         /\ engine.params = [n \in DOMAIN graph.inputs |-> Parameter(n, dynamicAxis)]
<1>1. PICK order \in SetToSeqs(DOMAIN graph.inputs) : MadeFrom(order)
  BY DEF Built
<1> DEFINE s == split_io(order)
           I == Inputs
           O == Len(graph.outputs)
<1>2. /\ s \in Seq(IO) /\ Len(s) = I + O
      /\ \A i \in 1 .. I : order[i] \in DOMAIN graph.inputs /\ s[i] = InTensor(order[i])
      /\ \A k \in 1 .. O : s[I + k] = OutTensor(k)
      /\ \A n \in DOMAIN graph.inputs : \E i \in 1 .. I : order[i] = n
  BY SplitIs
<1>3. I \in Nat /\ O \in Nat /\ DOMAIN graph.outputs = 1 .. O
  BY GraphTyped, LenProperties DEF Inputs
<1>4. engine.ios = [i \in 1 .. I + O |-> Marked(s[i])]
      /\ engine.zero_copy = (dynamicAxis = Null)
      /\ engine.params = [n \in DOMAIN graph.inputs |-> Parameter(n, dynamicAxis)]
  <2>1. engine.ios = (IF dynamicAxis = Null THEN s
                      ELSE [i \in DOMAIN s |-> MarkDynamic(s[i], dynamicAxis)])
        /\ engine.zero_copy = (dynamicAxis = Null)
        /\ engine.params = [n \in DOMAIN graph.inputs |-> Parameter(n, dynamicAxis)]
    BY <1>1 DEF MadeFrom
  <2> HIDE DEF s, I, O
  <2>2. DOMAIN s = 1 .. I + O /\ s = [i \in 1 .. I + O |-> s[i]]
    BY <1>2, <1>3, LenProperties
  <2> QED
    BY <2>1, <2>2 DEF Marked
<1>5. \A i \in 1 .. I + O : s[i] \in IO
  <2> HIDE DEF s, I, O
  <2> QED
    BY <1>2, LenProperties
<1>6. \A i \in 1 .. I + O : Marked(s[i]) \in IO
  BY <1>5, MarkedIs
<1> HIDE DEF s, I, O
<1>7. engine.ios \in Seq(IO) /\ Len(engine.ios) = I + O /\ DOMAIN engine.ios = 1 .. I + O
  BY <1>3, <1>4, <1>6
<1>8. \A i \in 1 .. I : i \in 1 .. I + O
  BY <1>3
<1>9. \A k \in 1 .. O : I + k \in 1 .. I + O
  BY <1>3
<1>10. /\ \A i \in 1 .. I : engine.ios[i] = Marked(InTensor(order[i]))
       /\ \A k \in 1 .. O : engine.ios[I + k] = Marked(OutTensor(k))
  BY <1>2, <1>4, <1>8, <1>9
<1>11. \A i \in 1 .. I : \E n \in DOMAIN graph.inputs : engine.ios[i] = Marked(InTensor(n))
  BY <1>2, <1>10
<1>12. \A n \in DOMAIN graph.inputs : \E i \in 1 .. I : engine.ios[i] = Marked(InTensor(n))
  <2> TAKE n \in DOMAIN graph.inputs
  <2>1. PICK i \in 1 .. I : order[i] = n
    BY <1>2
  <2>2. engine.ios[i] = Marked(InTensor(n))
    BY <1>10, <2>1
  <2> QED
    BY <2>2
<1> QED
  BY <1>3, <1>4, <1>7, <1>10, <1>11, <1>12 DEF I, O

LEMMA DirsOfTensors ==
  ASSUME graph \in Graphs
  PROVE  /\ \A n \in DOMAIN graph.inputs :
              /\ Marked(InTensor(n)) \in IO /\ Marked(InTensor(n)).name = n
              /\ Marked(InTensor(n)).dir = "input"
         /\ \A k \in DOMAIN graph.outputs :
              /\ Marked(OutTensor(k)) \in IO /\ Marked(OutTensor(k)).dir = "output"
              /\ Marked(OutTensor(k)).name = graph.outputs[k].name
  BY TensorsTyped, MarkedIs DEF InTensor, OutTensor, IOTensor

(* The k-th output among the metadata is the model's k-th output.            *)
LEMMA OutputsAre ==
  ASSUME graph \in Graphs, Built, engine # Null
  PROVE  Outputs = [k \in DOMAIN graph.outputs |-> Marked(OutTensor(k))]
<1> DEFINE I == Inputs
           O == Len(graph.outputs)
           at == { i \in DOMAIN engine.ios : engine.ios[i].dir = "output" }
<1>1. /\ I \in Nat /\ O \in Nat /\ DOMAIN graph.outputs = 1 .. O
      /\ DOMAIN engine.ios = 1 .. I + O
      /\ \A i \in 1 .. I : \E n \in DOMAIN graph.inputs : engine.ios[i] = Marked(InTensor(n))
      /\ \A k \in 1 .. O : engine.ios[I + k] = Marked(OutTensor(k))
  BY IosAre
<1>2. /\ \A i \in 1 .. I : engine.ios[i].dir = "input"
      /\ \A k \in 1 .. O : engine.ios[I + k].dir = "output"
  BY <1>1, DirsOfTensors
<1>3. Outputs = [k \in 1 .. Cardinality(at) |->
                   engine.ios[CHOOSE i \in at : Cardinality({ j \in at : j <= i }) = k]]
  BY DEF Outputs
<1> HIDE DEF I, O
<1>4. at = I + 1 .. I + O
  <2>1. ASSUME NEW i \in 1 .. I + O
        PROVE  engine.ios[i].dir = "output" <=> i \in I + 1 .. I + O
    <3>1. CASE i <= I
      <4>1. i \in 1 .. I /\ i \notin I + 1 .. I + O
        BY <1>1, <3>1
      <4> QED
        BY <1>2, <4>1
    <3>2. CASE ~(i <= I)
      <4>1. i - I \in 1 .. O /\ I + (i - I) = i /\ i \in I + 1 .. I + O
        BY <1>1, <3>2
      <4>2. engine.ios[I + (i - I)].dir = "output"
        BY <1>2, <4>1
      <4> QED
        BY <4>1, <4>2
    <3> QED
      BY <3>1, <3>2
  <2>2. \A i \in I + 1 .. I + O : i \in 1 .. I + O
    BY <1>1
  <2> QED
    BY <1>1, <2>1, <2>2
<1> HIDE DEF at
<1>5. Cardinality(at) = O
  BY <1>1, <1>4, FS_Interval
<1>6. \A i \in at : Cardinality({ j \in at : j <= i }) = i - I
  <2> TAKE i \in at
  <2>1. /\ { j \in at : j <= i } = I + 1 .. i /\ I + 1 \in Int /\ i \in Int
        /\ ~(I + 1 > i) /\ i - (I + 1) + 1 = i - I
    BY <1>1, <1>4
  <2>2. Cardinality(I + 1 .. i) = IF I + 1 > i THEN 0 ELSE i - (I + 1) + 1
    BY <2>1, FS_Interval
  <2> QED
    BY <2>1, <2>2
<1>7. ASSUME NEW k \in 1 .. O
      PROVE  (CHOOSE i \in at : Cardinality({ j \in at : j <= i }) = k) = I + k
  <2>1. I + k \in at /\ (I + k) - I = k
    BY <1>1, <1>4
  <2>2. \A i \in at : i - I = k => i = I + k
    BY <1>1, <1>4
  <2>3. \A i \in at : Cardinality({ j \in at : j <= i }) = k <=> i = I + k
    BY <1>6, <2>1, <2>2
  <2> QED
    BY <2>1, <2>3
<1> QED
  BY <1>1, <1>3, <1>5, <1>7

(* Every tensor among the metadata is an input's or an output's.             *)
LEMMA TensorsListed ==
  ASSUME graph \in Graphs, Built, engine # Null, NEW io \in Range(engine.ios)
  PROVE  \/ \E n \in DOMAIN graph.inputs : io = Marked(InTensor(n))
         \/ \E k \in DOMAIN graph.outputs : io = Marked(OutTensor(k))
<1>. DEFINE I == Inputs
            O == Len(graph.outputs)
<1>1. /\ I \in Nat /\ O \in Nat /\ DOMAIN graph.outputs = 1 .. O
      /\ DOMAIN engine.ios = 1 .. I + O
      /\ \A i \in 1 .. I : \E n \in DOMAIN graph.inputs : engine.ios[i] = Marked(InTensor(n))
      /\ \A k \in 1 .. O : engine.ios[I + k] = Marked(OutTensor(k))
  BY IosAre
<1>. HIDE DEF I, O
<1>2. PICK i \in 1 .. I + O : io = engine.ios[i]
  BY <1>1 DEF Range
<1>3. CASE i <= I
  <2>1. i \in 1 .. I
    BY <1>1, <1>3
  <2>. QED
    BY <1>1, <1>2, <2>1
<1>4. CASE ~(i <= I)
  <2>1. i - I \in 1 .. O /\ I + (i - I) = i
    BY <1>1, <1>4
  <2>. QED
    BY <1>1, <1>2, <2>1
<1>. QED
  BY <1>3, <1>4

(* What the metadata report of a tensor, found by its name.                  *)
LEMMA ReportedAre ==
  ASSUME graph \in Graphs, Built, engine # Null
  PROVE  /\ \A n \in DOMAIN graph.inputs : Reported(n) = Marked(InTensor(n)).dims
         /\ \A k \in DOMAIN graph.outputs :
              Reported(graph.outputs[k].name) = Marked(OutTensor(k)).dims
<1> DEFINE I == Inputs
           O == Len(graph.outputs)
           R == Range(engine.ios)
<1>1. /\ I \in Nat /\ O \in Nat /\ DOMAIN graph.outputs = 1 .. O
      /\ DOMAIN engine.ios = 1 .. I + O
      /\ \A i \in 1 .. I : \E n \in DOMAIN graph.inputs : engine.ios[i] = Marked(InTensor(n))
      /\ \A n \in DOMAIN graph.inputs : \E i \in 1 .. I : engine.ios[i] = Marked(InTensor(n))
      /\ \A k \in 1 .. O : engine.ios[I + k] = Marked(OutTensor(k))
  BY IosAre
<1>2. \A io \in R : \/ \E n \in DOMAIN graph.inputs : io = Marked(InTensor(n))
                    \/ \E k \in DOMAIN graph.outputs : io = Marked(OutTensor(k))
  BY TensorsListed
<1>3. \A n \in DOMAIN graph.inputs : Marked(InTensor(n)) \in R
  <2> TAKE n \in DOMAIN graph.inputs
  <2>1. PICK i \in 1 .. I : engine.ios[i] = Marked(InTensor(n))
    BY <1>1
  <2>2. i \in 1 .. I + O
    BY <1>1
  <2> QED
    BY <1>1, <2>1, <2>2 DEF Range
<1>4. \A k \in DOMAIN graph.outputs : Marked(OutTensor(k)) \in R
  <2> TAKE k \in DOMAIN graph.outputs
  <2>1. I + k \in 1 .. I + O /\ engine.ios[I + k] = Marked(OutTensor(k))
    BY <1>1
  <2> QED
    BY <1>1, <2>1 DEF Range
<1>5. /\ \A n \in DOMAIN graph.inputs : Marked(InTensor(n)).name = n
      /\ \A k \in DOMAIN graph.outputs : Marked(OutTensor(k)).name = graph.outputs[k].name
  BY DirsOfTensors
<1>6. \A k \in DOMAIN graph.outputs :
        /\ graph.outputs[k].name \notin DOMAIN graph.inputs
        /\ \A l \in DOMAIN graph.outputs : graph.outputs[l].name = graph.outputs[k].name => l = k
  BY GraphTyped
<1> HIDE DEF R, I, O
<1>7. ASSUME NEW n \in DOMAIN graph.inputs
      PROVE  (CHOOSE io \in R : io.name = n) = Marked(InTensor(n))
  <2>1. \A io \in R : io.name = n => io = Marked(InTensor(n))
    BY <1>2, <1>5, <1>6
  <2> QED
    BY <1>3, <1>5, <2>1
<1>8. ASSUME NEW k \in DOMAIN graph.outputs
      PROVE  (CHOOSE io \in R : io.name = graph.outputs[k].name) = Marked(OutTensor(k))
  <2>1. \A io \in R : io.name = graph.outputs[k].name => io = Marked(OutTensor(k))
    BY <1>2, <1>5, <1>6
  <2> QED
    BY <1>4, <1>5, <2>1
<1> QED
  BY <1>7, <1>8 DEF Reported, R

-----------------------------------------------------------------------------
(***************************************************************************)
(* The invariant: the types, where the engine comes from, and what the last  *)
(* accepted run has run with.                                                *)
(***************************************************************************)

Ran ==
  Accepted =>
    /\ engine # Null /\ last.ins \in Arguments /\ Fits(last.ins)
    /\ engine.zero_copy =>
         \A k \in DOMAIN Outputs :
           resolve(Outputs[k].dims, dynamic_batch) = OutputDims(k, last.ins)
    /\ last.outs = [k \in DOMAIN Outputs |->
                      [ptr |-> last.ptrs[Outputs[k].name], dims |-> OutputDims(k, last.ins)]]

Typed ==
  /\ graph \in Graphs
  /\ profile \in [Range(InputNames) -> [Selectors -> Dims]]
  /\ addrs \in [Tensors -> { call[2] : call \in BufferCalls } \cup {Null}]
  /\ DOMAIN shapes = Tensors
  /\ \A n \in Tensors : shapes[n] # Null => shapes[n] \in Dims
  /\ last # Null => last.ok \in BOOLEAN

SInv == Typed /\ Built /\ Ran

(* What is derived from the model and the profile stays while they do ...     *)
LEMMA SameModel ==
  ASSUME graph' = graph, profile' = profile
  PROVE  /\ dynamicAxis' = dynamicAxis
         /\ PinnedInputs' = PinnedInputs
         /\ \A k, ins : OutputDims(k, ins)' = OutputDims(k, ins)
         /\ \A n, dyn : Parameter(n, dyn)' = Parameter(n, dyn)
         /\ \A order : split_io(order)' = split_io(order)
<1>1. \A n : OpenAxes(n)' = OpenAxes(n)
  BY DEF OpenAxes
<1>2. dynamicAxis' = dynamicAxis
  <2>1. { j \in DOMAIN InputNames : OpenAxes(InputNames[j])' # {} }
          = { j \in DOMAIN InputNames : OpenAxes(InputNames[j]) # {} }
    BY <1>1
  <2>2. FirstOpen(InputNames)' = FirstOpen(InputNames)
    BY <1>1, <2>1 DEF FirstOpen
  <2> QED
    BY <1>1, <2>2 DEF dynamicAxis
<1>3. PinnedInputs' = PinnedInputs
  BY DEF PinnedInputs
<1>4. \A k, ins : OutputDims(k, ins)' = OutputDims(k, ins)
  BY DEF OutputDims
<1>5. \A n, dyn : Parameter(n, dyn)' = Parameter(n, dyn)
  BY DEF Parameter
<1>6. \A order : split_io(order)' = split_io(order)
  <2>1. \A order : InputTensors(order)' = InputTensors(order)
    BY <1>3 DEF InputTensors
  <2>2. OutputTensors' = OutputTensors
    <3>1. \A k : OutputDims(k, PinnedInputs)' = OutputDims(k, PinnedInputs)
      BY <1>3 DEF OutputDims
    <3> QED
      BY <3>1 DEF OutputTensors
  <2> QED
    BY <2>1, <2>2 DEF split_io
<1> QED
  BY <1>2, <1>3, <1>4, <1>5, <1>6

LEMMA SameBuilt ==
  ASSUME graph' = graph, profile' = profile, engine' = engine, Built
  PROVE  Built'
<1>1. /\ dynamicAxis' = dynamicAxis
      /\ \A n : Parameter(n, dynamicAxis)' = Parameter(n, dynamicAxis)
      /\ \A order : split_io(order)' = split_io(order)
  <2>1. dynamicAxis' = dynamicAxis /\ \A order : split_io(order)' = split_io(order)
    BY SameModel
  <2>2. \A n : Parameter(n, dynamicAxis)' = Parameter(n, dynamicAxis)
    BY <2>1 DEF Parameter
  <2> QED
    BY <2>1, <2>2
<1>2. ASSUME NEW order, MadeFrom(order)
      PROVE  MadeFrom(order)'
  <2>1. [n \in DOMAIN graph.inputs |-> Parameter(n, dynamicAxis)]'
          = [n \in DOMAIN graph.inputs |-> Parameter(n, dynamicAxis)]
    BY <1>1
  <2>2. [i \in DOMAIN split_io(order) |-> MarkDynamic(split_io(order)[i], dynamicAxis)]'
          = [i \in DOMAIN split_io(order) |-> MarkDynamic(split_io(order)[i], dynamicAxis)]
    BY <1>1
  <2> QED
    BY <1>1, <1>2, <2>1, <2>2 DEF MadeFrom
<1> QED
  BY <1>2 DEF Built

(* ... and so does what a run takes from the engine and the shapes.          *)
LEMMA SameArguments ==
  ASSUME graph' = graph, engine' = engine, shapes' = shapes
  PROVE  /\ Outputs' = Outputs /\ dynamic_batch' = dynamic_batch
         /\ Arguments' = Arguments
         /\ \A ins : Fits(ins)' = Fits(ins)
         /\ \A k, ins : OutputDims(k, ins)' = OutputDims(k, ins)
<1>1. Outputs' = Outputs
  BY DEF Outputs
<1>2. \A n : Reported(n)' = Reported(n)
  BY DEF Reported
<1>3. \A n : OpenGiven(n)' = OpenGiven(n)
  BY <1>2 DEF OpenGiven
<1>4. dynamic_batch' = dynamic_batch
  <2>1. { j \in DOMAIN InputNames : OpenGiven(InputNames[j])' # {} }
          = { j \in DOMAIN InputNames : OpenGiven(InputNames[j]) # {} }
    BY <1>3
  <2> QED
    BY <1>3, <2>1 DEF dynamic_batch
<1>5. \A n : Shapes(n)' = Shapes(n)
  <2> TAKE n
  <2>1. resolve(Reported(n), dynamic_batch)' = resolve(Reported(n), dynamic_batch)
    BY <1>2, <1>4 DEF resolve
  <2> QED
    BY <2>1 DEF Shapes
<1>6. Arguments' = Arguments
  <2>1. { Shapes(n)' : n \in DOMAIN graph.inputs } = { Shapes(n) : n \in DOMAIN graph.inputs }
    BY <1>5
  <2> QED
    BY <1>5, <2>1 DEF Arguments
<1>7. \A ins : Fits(ins)' = Fits(ins)
  BY DEF Fits
<1>8. \A k, ins : OutputDims(k, ins)' = OutputDims(k, ins)
  BY DEF OutputDims
<1> QED
  BY <1>1, <1>4, <1>6, <1>7, <1>8

LEMMA RunStep ==
  ASSUME SInv, NEW ptrs, run(ptrs)
  PROVE  SInv'
<1>1. UNCHANGED << graph, profile, engine, addrs, shapes >> /\ engine # Null
  BY DEF run
<1>2. Built'
  BY <1>1, SameBuilt DEF SInv
<1>3. CASE last' = [ok |-> FALSE]
  BY <1>1, <1>2, <1>3 DEF SInv, Typed, Ran, Accepted
<1>4. CASE \E ins \in Arguments :
             /\ Fits(ins)
             /\ engine.zero_copy =>
                  \A k \in DOMAIN Outputs :
                    resolve(Outputs[k].dims, dynamic_batch) = OutputDims(k, ins)
             /\ last' = [ok |-> TRUE, ptrs |-> ptrs, ins |-> ins,
                         outs |-> [k \in DOMAIN Outputs |->
                                     [ptr |-> ptrs[Outputs[k].name],
                                      dims |-> OutputDims(k, ins)]]]
  <2>1. PICK ins \in Arguments :
             /\ Fits(ins)
             /\ engine.zero_copy =>
                  \A k \in DOMAIN Outputs :
                    resolve(Outputs[k].dims, dynamic_batch) = OutputDims(k, ins)
             /\ last' = [ok |-> TRUE, ptrs |-> ptrs, ins |-> ins,
                         outs |-> [k \in DOMAIN Outputs |->
                                     [ptr |-> ptrs[Outputs[k].name],
                                      dims |-> OutputDims(k, ins)]]]
    BY <1>4
  <2>2. /\ last'.ok = TRUE /\ last'.ptrs = ptrs /\ last'.ins = ins
        /\ last'.outs = [k \in DOMAIN Outputs |->
                           [ptr |-> ptrs[Outputs[k].name], dims |-> OutputDims(k, ins)]]
    BY <2>1
  <2>3. /\ Arguments' = Arguments /\ Outputs' = Outputs /\ dynamic_batch' = dynamic_batch
        /\ Fits(ins)' = Fits(ins)
        /\ \A k : OutputDims(k, ins)' = OutputDims(k, ins)
    BY <1>1, SameArguments
  <2>4. Ran'
    <3>1. (engine' # Null /\ last'.ins \in Arguments' /\ Fits(last.ins)')
      BY <1>1, <2>1, <2>2, <2>3 DEF Fits
    <3>2. \A k : OutputDims(k, last.ins)' = OutputDims(k, ins)
      BY <1>1, <2>2 DEF OutputDims
    <3>3. engine'.zero_copy =>
            \A k \in DOMAIN Outputs' :
              resolve(Outputs[k].dims, dynamic_batch)' = OutputDims(k, last.ins)'
      BY <1>1, <2>1, <2>3, <3>2 DEF resolve
    <3>4. last'.outs = [k \in DOMAIN Outputs' |->
                          [ptr |-> last'.ptrs[Outputs'[k].name],
                           dims |-> OutputDims(k, last.ins)']]
      BY <2>2, <2>3, <3>2
    <3> QED
      BY <3>1, <3>3, <3>4 DEF Ran
  <2> QED
    BY <1>1, <1>2, <2>2, <2>4 DEF SInv, Typed
<1> QED
  BY <1>3, <1>4 DEF run

LEMMA BuildStep ==
  ASSUME SInv, Build
  PROVE  SInv'
<1>1. engine = Null /\ UNCHANGED << graph, profile, addrs, shapes, last >>
  BY DEF Build
<1>2. Built'
  <2>1. PICK order \in SetToSeqs(DOMAIN graph.inputs) :
          engine' = [ params |-> [n \in DOMAIN graph.inputs |-> Parameter(n, dynamicAxis)],
                      zero_copy |-> dynamicAxis = Null,
                      ios |-> IF dynamicAxis = Null THEN split_io(order)
                              ELSE [i \in DOMAIN split_io(order) |->
                                      MarkDynamic(split_io(order)[i], dynamicAxis)] ]
    BY DEF Build
  <2>2. dynamicAxis' = dynamicAxis /\ split_io(order)' = split_io(order)
    BY <1>1, SameModel
  <2>3. \A n : Parameter(n, dynamicAxis)' = Parameter(n, dynamicAxis)
    BY <1>1, <2>2 DEF Parameter
  <2>4. [n \in DOMAIN graph.inputs |-> Parameter(n, dynamicAxis)]'
          = [n \in DOMAIN graph.inputs |-> Parameter(n, dynamicAxis)]
    BY <1>1, <2>3
  <2>5. [i \in DOMAIN split_io(order) |-> MarkDynamic(split_io(order)[i], dynamicAxis)]'
          = [i \in DOMAIN split_io(order) |-> MarkDynamic(split_io(order)[i], dynamicAxis)]
    BY <2>2
  <2>6. MadeFrom(order)'
    BY <2>1, <2>2, <2>4, <2>5 DEF MadeFrom
  <2> QED
    BY <1>1, <2>6 DEF Built
<1>3. ~Accepted'
  BY <1>1 DEF SInv, Ran, Accepted
<1> QED
  BY <1>1, <1>2, <1>3 DEF SInv, Typed, Ran

LEMMA InvStep ==
  ASSUME SInv, [Next]_vars
  PROVE  SInv'
<1>1. ASSUME NEW call \in DimCalls, SetDimensions(call[1], call[2], call[3])
      PROVE  SInv'
  <2>1. engine = Null /\ UNCHANGED << graph, engine, addrs, shapes, last >>
        /\ profile' = [profile EXCEPT ![call[1]][call[2]] = call[3]]
    BY <1>1 DEF SetDimensions
  <2>2. call[1] \in Range(InputNames) /\ call[2] \in Selectors /\ call[3] \in Dims
    BY CallsAssumption DEF Dims
  <2>3. profile' \in [Range(InputNames) -> [Selectors -> Dims]]
    BY <2>1, <2>2 DEF SInv, Typed
  <2> QED
    BY <2>1, <2>3 DEF SInv, Typed, Built, Ran, Accepted
<1>2. CASE Build
  BY <1>2, BuildStep
<1>3. ASSUME NEW call \in BufferCalls, SetTensorAddress(call[1], call[2])
      PROVE  SInv'
  <2>1. UNCHANGED << graph, profile, engine, shapes >> /\ last' = Null
        /\ addrs' = [addrs EXCEPT ![call[1]] = call[2]]
    BY <1>3 DEF SetTensorAddress
  <2>2. addrs' \in [Tensors -> { c[2] : c \in BufferCalls } \cup {Null}]
    BY <2>1 DEF SInv, Typed
  <2>3. Built'
    BY <2>1, SameBuilt DEF SInv
  <2> QED
    BY <2>1, <2>2, <2>3 DEF SInv, Typed, Ran, Accepted
<1>4. ASSUME NEW call \in ShapeCalls, SetInputShape(call[1], call[2])
      PROVE  SInv'
  <2>1. UNCHANGED << graph, profile, engine, addrs >> /\ last' = Null
        /\ shapes' = [shapes EXCEPT ![call[1]] = call[2]]
    BY <1>4 DEF SetInputShape
  <2>2. call[1] \in Tensors /\ call[2] \in Dims
    BY CallsAssumption DEF Dims
  <2>3. Built'
    BY <2>1, SameBuilt DEF SInv
  <2> QED
    BY <2>1, <2>2, <2>3 DEF SInv, Typed, Ran, Accepted
<1>5. CASE enqueueV3
  BY <1>5, RunStep DEF enqueueV3
<1>6. ASSUME NEW bindings, executeV2(bindings)
      PROVE  SInv'
  BY <1>6, RunStep DEF executeV2
<1>7. CASE UNCHANGED vars
  <2>1. UNCHANGED << graph, profile, engine, addrs, shapes, last >>
    BY <1>7 DEF vars
  <2>2. Built'
    BY <2>1, SameBuilt DEF SInv
  <2>3. /\ Arguments' = Arguments /\ Outputs' = Outputs /\ dynamic_batch' = dynamic_batch
        /\ \A ins : Fits(ins)' = Fits(ins)
        /\ \A k, ins : OutputDims(k, ins)' = OutputDims(k, ins)
    BY <2>1, SameArguments
  <2>4. Ran'
    <3>1. Fits(last.ins)' = Fits(last.ins)
      BY <2>1 DEF Fits
    <3>2. \A k : OutputDims(k, last.ins)' = OutputDims(k, last.ins)
      BY <2>1 DEF OutputDims
    <3>3. \A k : resolve(Outputs[k].dims, dynamic_batch)' = resolve(Outputs[k].dims, dynamic_batch)
      BY <2>3 DEF resolve
    <3>4. Ran /\ Accepted' = Accepted
      BY <2>1 DEF SInv, Accepted
    <3>5. [k \in DOMAIN Outputs' |->
             [ptr |-> last'.ptrs[Outputs'[k].name], dims |-> OutputDims(k, last.ins)']]
          = [k \in DOMAIN Outputs |->
             [ptr |-> last.ptrs[Outputs[k].name], dims |-> OutputDims(k, last.ins)]]
      BY <2>1, <2>3, <3>2
    <3> QED
      BY <2>1, <2>3, <3>1, <3>2, <3>3, <3>4, <3>5 DEF Ran
  <2> QED
    BY <2>1, <2>2, <2>4 DEF SInv, Typed
<1> QED
  BY <1>1, <1>2, <1>3, <1>4, <1>5, <1>6, <1>7 DEF Next

LEMMA InitInv == Init => SInv
<1> SUFFICES ASSUME Init PROVE SInv
  OBVIOUS
<1>1. << >> \in Dims
  BY EmptySeq DEF Dims
<1> QED
  BY <1>1 DEF Init, SInv, Typed, Built, Ran, Accepted

THEOREM BindingInvariant == Spec => []SInv
  BY InitInv, InvStep, PTL DEF Spec

(* The maps keep their types, the metadata list every tensor once, and those *)
(* of an engine without a dynamic axis leave none open.                      *)
THEOREM BindingTypes == Spec => []TypeOK
<1>1. SInv => TypeOK
  <2> SUFFICES ASSUME SInv PROVE TypeOK
    OBVIOUS
  <2>1. ASSUME engine # Null
        PROVE  /\ DOMAIN engine.params = DOMAIN graph.inputs
               /\ Len(engine.ios) = Inputs + Len(graph.outputs)
               /\ \A io \in Range(engine.ios) : io.name \in Tensors /\ io.dims \in Dims
               /\ engine.zero_copy =>
                    \A io \in Range(engine.ios) : \A d \in Range(io.dims) : d >= 0
    <3>1. /\ graph \in Graphs /\ Built
      BY DEF SInv, Typed
    <3>2. /\ Inputs \in Nat /\ Len(graph.outputs) \in Nat
          /\ DOMAIN graph.outputs = 1 .. Len(graph.outputs)
          /\ engine.ios \in Seq(IO) /\ Len(engine.ios) = Inputs + Len(graph.outputs)
          /\ DOMAIN engine.ios = 1 .. Inputs + Len(graph.outputs)
          /\ \A i \in 1 .. Inputs : \E n \in DOMAIN graph.inputs :
               engine.ios[i] = Marked(InTensor(n))
          /\ \A k \in 1 .. Len(graph.outputs) :
               engine.ios[Inputs + k] = Marked(OutTensor(k))
          /\ engine.zero_copy = (dynamicAxis = Null)
          /\ engine.params = [n \in DOMAIN graph.inputs |-> Parameter(n, dynamicAxis)]
      BY <2>1, <3>1, IosAre
    <3> DEFINE I == Inputs
               O == Len(graph.outputs)
    <3>3. \A io \in Range(engine.ios) : io.name \in Tensors /\ io.dims \in Dims
      <4>1. \A io \in Range(engine.ios) : io \in IO
        BY <3>2, LenProperties DEF Range
      <4> QED
        BY <4>1 DEF IO
    <3>4. ASSUME engine.zero_copy, NEW io \in Range(engine.ios), NEW d \in Range(io.dims)
          PROVE  d >= 0
      <4>1. dynamicAxis = Null
        BY <3>2, <3>4
      <4>2. PICK i \in 1 .. I + O : io = engine.ios[i]
        BY <3>2, <3>4 DEF Range
      <4>3. io.dims \in Seq(Nat)
        <5>1. CASE i <= I
          <6>1. i \in 1 .. I
            BY <3>2, <5>1
          <6>2. PICK n \in DOMAIN graph.inputs : io = Marked(InTensor(n))
            BY <3>2, <4>2, <6>1
          <6>3. InTensor(n) \in IO /\ InTensor(n).dims \in Seq(Nat)
            BY <3>1, TensorsTyped
          <6> QED
            BY <4>1, <6>2, <6>3, MarkedIs
        <5>2. CASE ~(i <= I)
          <6>1. i - I \in 1 .. O /\ I + (i - I) = i
            BY <3>2, <5>2
          <6>2. io = Marked(OutTensor(i - I)) /\ i - I \in DOMAIN graph.outputs
            BY <3>2, <4>2, <6>1
          <6>3. OutTensor(i - I) \in IO /\ OutTensor(i - I).dims \in Seq(Nat)
            BY <3>1, <6>2, TensorsTyped
          <6> QED
            BY <4>1, <6>2, <6>3, MarkedIs
        <5> QED
          BY <5>1, <5>2
      <4>4. d \in Nat
        <5> DEFINE s == io.dims
        <5>1. s \in Seq(Nat) /\ d \in Range(s)
          BY <3>4, <4>3
        <5> HIDE DEF s
        <5> QED
          BY <5>1, LenProperties DEF Range
      <4> QED
        BY <4>4
    <3> QED
      BY <3>2, <3>3, <3>4
  <2> QED
    BY <2>1 DEF SInv, Typed, TypeOK, Inputs
<1> QED
  BY BindingInvariant, <1>1, PTL

(* Each output arrives in the buffer that its client has given for that name, *)
(* whatever the order in which MIGraphX lists the parameters.                *)
THEOREM OutputsArrive == Spec => []EachToItsBuffer
<1>1. SInv => EachToItsBuffer
  <2> SUFFICES ASSUME SInv, Accepted, NEW k \in DOMAIN last.outs
               PROVE  last.outs[k].ptr = last.ptrs[graph.outputs[k].name]
    BY DEF EachToItsBuffer
  <2>1. /\ graph \in Graphs /\ Built /\ engine # Null
        /\ last.outs = [i \in DOMAIN Outputs |->
                          [ptr |-> last.ptrs[Outputs[i].name], dims |-> OutputDims(i, last.ins)]]
    BY DEF SInv, Typed, Ran
  <2>2. Outputs = [i \in DOMAIN graph.outputs |-> Marked(OutTensor(i))]
    BY <2>1, OutputsAre
  <2>3. k \in DOMAIN graph.outputs /\ last.outs[k].ptr = last.ptrs[Outputs[k].name]
    BY <2>1, <2>2
  <2>4. Outputs[k].name = graph.outputs[k].name
    BY <2>1, <2>2, <2>3, DirsOfTensors
  <2> QED
    BY <2>3, <2>4
<1> QED
  BY BindingInvariant, <1>1, PTL

-----------------------------------------------------------------------------
(***************************************************************************)
(* The one axis that is open.                                                *)
(***************************************************************************)

LEMMA OpenAxesTyped ==
  ASSUME Typed, NEW n \in Range(InputNames)
  PROVE  /\ OpenAxes(n) \in SUBSET (Nat \ {0})
         /\ \A a \in OpenAxes(n) : profile[n]["min"][a] \in Int /\ profile[n]["max"][a] \in Int
         /\ \A a \in DOMAIN profile[n]["opt"] : profile[n]["opt"][a] \in Int
<1>1. profile[n]["min"] \in Dims /\ profile[n]["max"] \in Dims /\ profile[n]["opt"] \in Dims
  BY DEF Typed, Selectors
<1> DEFINE s == profile[n]["min"]
           t == profile[n]["max"]
           o == profile[n]["opt"]
<1>2. s \in Seq(Int) /\ t \in Seq(Int) /\ o \in Seq(Int)
  BY <1>1 DEF Dims
<1>3. OpenAxes(n) = { a \in DOMAIN s \cap DOMAIN t : s[a] # t[a] }
  BY DEF OpenAxes
<1> HIDE DEF s, t, o
<1>4. /\ DOMAIN s = 1 .. Len(s) /\ Len(s) \in Nat /\ \A a \in DOMAIN s : s[a] \in Int
      /\ \A a \in DOMAIN t : t[a] \in Int
      /\ \A a \in DOMAIN o : o[a] \in Int
  BY <1>2, LenProperties
<1> QED
  BY <1>3, <1>4 DEF s, t, o

(* dynamicAxis finds an axis where the profile opens one.                    *)
LEMMA DynamicAxisIs ==
  ASSUME Typed
  PROVE  /\ dynamicAxis = Null <=> ProfiledAxes = {}
         /\ dynamicAxis # Null =>
              /\ << dynamicAxis.input, dynamicAxis.axis >> \in ProfiledAxes
              /\ dynamicAxis.input \in Range(InputNames)
              /\ dynamicAxis.axis \in OpenAxes(dynamicAxis.input)
              /\ dynamicAxis.min = profile[dynamicAxis.input]["min"][dynamicAxis.axis]
              /\ dynamicAxis.max = profile[dynamicAxis.input]["max"][dynamicAxis.axis]
<1> DEFINE J == { j \in DOMAIN InputNames : OpenAxes(InputNames[j]) # {} }
           n == InputNames[Min(J)]
           a == Min(OpenAxes(n))
           F == FirstOpen(InputNames)
<1>1. CASE \A m \in Range(InputNames) : OpenAxes(m) = {}
  BY <1>1 DEF dynamicAxis, ProfiledAxes
<1>2. CASE ~(\A m \in Range(InputNames) : OpenAxes(m) = {})
  <2>1. DOMAIN InputNames = 1 .. Len(InputNames)
        /\ Range(InputNames) = { InputNames[j] : j \in DOMAIN InputNames }
    BY GraphAssumption, LenProperties DEF Range
  <2>2. J \in SUBSET Nat /\ J # {}
    <3>1. \A j \in DOMAIN InputNames : j \in Nat
      BY <2>1
    <3>2. PICK m \in Range(InputNames) : OpenAxes(m) # {}
      BY <1>2
    <3>3. PICK j \in DOMAIN InputNames : m = InputNames[j]
      BY <2>1
    <3>4. j \in J
      BY <3>2, <3>3
    <3> QED
      BY <3>1, <3>4
  <2>3. Min(J) \in J
    <3> HIDE DEF J
    <3> QED
      BY <2>2, MinIs
  <2>4. n \in Range(InputNames) /\ OpenAxes(n) # {}
    BY <2>1, <2>3
  <2> HIDE DEF J, n
  <2>5. OpenAxes(n) \in SUBSET Nat
    BY <2>4, OpenAxesTyped
  <2>6. a \in OpenAxes(n) /\ a \in Nat
    BY <2>4, <2>5, MinIs
  <2>7. F = [ input |-> n, axis |-> a, min |-> profile[n]["min"][a], max |-> profile[n]["max"][a],
              opt |-> IF a \in DOMAIN profile[n]["opt"] THEN profile[n]["opt"][a]
                      ELSE profile[n]["min"][a] ]
    BY DEF FirstOpen, n, J
  <2> HIDE DEF a, F
  <2>8. F # Null
    <3>1. F \in [input : Range(InputNames), axis : Nat, min : Int, max : Int, opt : Int]
      <4>1. /\ profile[n]["min"][a] \in Int /\ profile[n]["max"][a] \in Int
            /\ (a \in DOMAIN profile[n]["opt"] => profile[n]["opt"][a] \in Int)
        BY <2>4, <2>6, OpenAxesTyped
      <4> QED
        BY <2>4, <2>6, <2>7, <4>1
    <3> QED
      BY <3>1, NullAssumption
  <2>9. dynamicAxis = F
    BY <1>2 DEF dynamicAxis, F
  <2>10. << n, a >> \in ProfiledAxes
    BY <2>4, <2>6 DEF ProfiledAxes
  <2> QED
    BY <2>4, <2>6, <2>7, <2>8, <2>9, <2>10
<1> QED
  BY <1>1, <1>2

LEMMA FreeAxesFinite ==
  ASSUME graph \in Graphs
  PROVE  IsFiniteSet(FreeAxes)
<1> DEFINE D == DOMAIN graph.inputs
           Of(n) == {n} \X { a \in DOMAIN graph.inputs[n] : graph.inputs[n][a] = Free }
           S == { Of(n) : n \in D }
           f == [n \in D |-> Of(n)]
<1>1. IsFiniteSet(D)
  BY GraphTyped
<1>2. f \in Surjection(D, S)
  BY DEF Surjection
<1>3. IsFiniteSet(S)
  <2> HIDE DEF f, S
  <2> QED
    BY <1>1, <1>2, FS_Surjection
<1>4. ASSUME NEW n \in D
      PROVE  IsFiniteSet(Of(n))
  <2> DEFINE A == { a \in DOMAIN graph.inputs[n] : graph.inputs[n][a] = Free }
  <2>1. DOMAIN graph.inputs[n] = 1 .. Len(graph.inputs[n]) /\ Len(graph.inputs[n]) \in Nat
    BY InputTyped
  <2>2. IsFiniteSet(1 .. Len(graph.inputs[n]))
    BY <2>1, FS_Interval
  <2>3. A \in SUBSET (1 .. Len(graph.inputs[n]))
    BY <2>1
  <2> HIDE DEF A
  <2>4. IsFiniteSet(A)
    BY <2>2, <2>3, FS_Subset
  <2>5. IsFiniteSet({n})
    BY FS_Singleton
  <2>6. IsFiniteSet({n} \X A)
    BY <2>4, <2>5, FS_Product
  <2> QED
    BY <2>6 DEF A
<1>5. \A T \in S : IsFiniteSet(T)
  BY <1>4
<1>6. FreeAxes = UNION S
  BY DEF FreeAxes
<1> HIDE DEF S
<1> QED
  BY <1>3, <1>5, <1>6, FS_UNION

LEMMA OnlyFreeAxis ==
  ASSUME graph \in Graphs, SingleAxis
  PROVE  /\ \A x, y \in FreeAxes : x = y
         /\ ProfiledAxes \subseteq FreeAxes
<1>1. ProfiledAxes \subseteq FreeAxes /\ Cardinality(FreeAxes) <= 1
  BY DEF SingleAxis
<1>2. ASSUME NEW x \in FreeAxes, NEW y \in FreeAxes, x # y
      PROVE  FALSE
  <2>1. IsFiniteSet(FreeAxes) /\ Cardinality(FreeAxes) \in Nat
    BY FreeAxesFinite, FS_CardinalityType
  <2>2. IsFiniteSet(FreeAxes \ {x})
        /\ Cardinality(FreeAxes \ {x}) = Cardinality(FreeAxes) - 1
    BY <2>1, FS_RemoveElement
  <2>3. y \in FreeAxes \ {x}
    BY <1>2
  <2>4. Cardinality(FreeAxes \ {x}) = 0 \/ Cardinality(FreeAxes) = 0
    BY <1>1, <2>1, <2>2
  <2>5. FreeAxes \ {x} = {} \/ FreeAxes = {}
    BY <2>1, <2>2, <2>4, FS_EmptySet
  <2> QED
    BY <2>3, <2>5
<1> QED
  BY <1>1, <1>2

(* The engine of a model with at most one free axis, which the profile opens  *)
(* or leaves to its default: what a parameter takes, what is reported.       *)
LEMMA EngineAxis ==
  ASSUME SInv, engine # Null, SingleAxis,
         NEW n \in DOMAIN graph.inputs, NEW a \in DOMAIN graph.inputs[n]
  PROVE  /\ n \in DOMAIN engine.params /\ DOMAIN engine.params[n] = DOMAIN graph.inputs[n]
         /\ DOMAIN Reported(n) = DOMAIN graph.inputs[n] /\ Reported(n) \in Dims
         /\ PinnedInputs[n][a] \in Extent
         /\ << n, a >> \in ProfiledAxes =>
              /\ Reported(n)[a] = Free
              /\ engine.params[n][a] = profile[n]["min"][a] .. profile[n]["max"][a]
         /\ << n, a >> \notin ProfiledAxes =>
              /\ Reported(n)[a] = PinnedInputs[n][a]
              /\ engine.params[n][a] = { PinnedInputs[n][a] }
<1> DEFINE dyn == dynamicAxis
           p == PinnedInputs[n]
           in == graph.inputs[n]
<1>1. graph \in Graphs /\ Built /\ Typed
  BY DEF SInv, Typed
<1>2. /\ engine.params = [m \in DOMAIN graph.inputs |-> Parameter(m, dyn)]
      /\ Reported(n) = Marked(InTensor(n)).dims
  BY <1>1, IosAre, ReportedAre
<1>3. /\ DOMAIN engine.params[n] = DOMAIN in /\ n \in DOMAIN engine.params
      /\ engine.params[n][a] = IF in[a] # Free THEN {in[a]}
                               ELSE IF dyn = Null THEN {1} ELSE dyn.min .. dyn.max
  BY <1>2 DEF Parameter
<1>4. /\ DOMAIN p = DOMAIN in
      /\ p[a] = IF in[a] = Free THEN 1 ELSE in[a]
      /\ p \in Seq(Extent)
  BY <1>1, PinnedTyped
<1>5. p[a] \in Extent
  <2> HIDE DEF p, in
  <2> QED
    BY <1>4, LenProperties DEF in
<1>6. InTensor(n) \in IO /\ InTensor(n).dims = p /\ InTensor(n).dir = "input"
      /\ InTensor(n).name = n
  <2>1. InTensor(n) \in IO
    BY <1>1, TensorsTyped
  <2> QED
    BY <2>1 DEF InTensor, IOTensor
<1>7. /\ Marked(InTensor(n)) \in IO
      /\ dyn = Null => Reported(n) = p
      /\ dyn # Null =>
           Reported(n) = IF n = dyn.input /\ dyn.axis \in DOMAIN p
                         THEN [p EXCEPT ![dyn.axis] = Free] ELSE p
  BY <1>2, <1>6, MarkedIs
<1>8. Reported(n) \in Dims
  BY <1>2, <1>7 DEF IO
<1>9. DOMAIN Reported(n) = DOMAIN in
  BY <1>4, <1>7
<1>10. CASE dyn = Null
  <2>1. << n, a >> \notin ProfiledAxes
    BY <1>1, <1>10, DynamicAxisIs
  <2>2. engine.params[n][a] = { p[a] }
    BY <1>3, <1>4, <1>10
  <2> QED
    BY <1>3, <1>5, <1>7, <1>8, <1>9, <1>10, <2>1, <2>2
<1>11. CASE dyn # Null
  <2> DEFINE x == << dyn.input, dyn.axis >>
  <2>1. /\ x \in ProfiledAxes
        /\ dyn.min = profile[dyn.input]["min"][dyn.axis]
        /\ dyn.max = profile[dyn.input]["max"][dyn.axis]
    BY <1>1, <1>11, DynamicAxisIs
  <2>2. ProfiledAxes \subseteq FreeAxes /\ \A y, z \in FreeAxes : y = z
    BY <1>1, OnlyFreeAxis
  <2>3. << n, a >> \in FreeAxes <=> in[a] = Free
    BY DEF FreeAxes
  <2>4. << n, a >> \in ProfiledAxes <=> << n, a >> = x
    BY <2>1, <2>2
  <2>5. in[a] = Free <=> << n, a >> = x
    BY <2>1, <2>2, <2>3
  <2>6. << n, a >> = x <=> n = dyn.input /\ a = dyn.axis
    OBVIOUS
  <2>7. CASE << n, a >> = x
    <3>1. n = dyn.input /\ a = dyn.axis /\ dyn.axis \in DOMAIN p /\ in[a] = Free
      BY <1>4, <2>5, <2>6, <2>7
    <3>2. Reported(n) = [p EXCEPT ![a] = Free]
      BY <1>7, <1>11, <3>1
    <3>3. Reported(n)[a] = Free
      BY <3>1, <3>2
    <3>4. engine.params[n][a] = profile[n]["min"][a] .. profile[n]["max"][a]
      BY <1>3, <1>11, <2>1, <3>1
    <3> QED
      BY <1>3, <1>5, <1>8, <1>9, <2>4, <2>7, <3>3, <3>4
  <2>8. CASE << n, a >> # x
    <3>1. ~(n = dyn.input /\ a = dyn.axis) /\ in[a] # Free
      BY <2>5, <2>6, <2>8
    <3>2. Reported(n)[a] = p[a]
      BY <1>4, <1>7, <1>11, <3>1
    <3>3. engine.params[n][a] = { p[a] }
      BY <1>3, <1>4, <3>1
    <3> QED
      BY <1>3, <1>5, <1>8, <1>9, <2>4, <2>8, <3>2, <3>3
  <2> QED
    BY <2>7, <2>8
<1> QED
  BY <1>10, <1>11

(* An engine is dynamic on the axis its profile opens and on no other, and    *)
(* reports it, for every model with at most one free axis and every profile.  *)
THEOREM OpenIsReported == Spec => []ReportedOpen
<1>1. SInv => ReportedOpen
  <2> SUFFICES ASSUME SInv, engine # Null, SingleAxis, InOrder,
                      NEW n \in DOMAIN graph.inputs, NEW a \in DOMAIN graph.inputs[n]
               PROVE  /\ Cardinality(engine.params[n][a]) > 1 <=> << n, a >> \in ProfiledAxes
                      /\ Reported(n)[a] = Free <=> << n, a >> \in ProfiledAxes
    BY DEF ReportedOpen
  <2> DEFINE p == PinnedInputs[n][a]
             low == profile[n]["min"][a]
             high == profile[n]["max"][a]
             takes == engine.params[n][a]
             says == Reported(n)[a]
  <2>1. /\ p \in Extent
        /\ << n, a >> \in ProfiledAxes => says = Free /\ takes = low .. high
        /\ << n, a >> \notin ProfiledAxes => says = p /\ takes = {p}
    BY EngineAxis
  <2>2. ASSUME << n, a >> \in ProfiledAxes
        PROVE  low \in Int /\ high \in Int /\ low < high
    <3>1. n \in Range(InputNames) /\ a \in OpenAxes(n)
      BY <2>2 DEF ProfiledAxes
    <3>2. low \in Int /\ high \in Int
      BY <3>1, OpenAxesTyped DEF SInv
    <3> QED
      BY <3>1, <3>2 DEF InOrder
  <2> HIDE DEF p, low, high, takes, says
  <2>3. CASE << n, a >> \in ProfiledAxes
    <3>1. Cardinality(takes) = high - low + 1
      BY <2>1, <2>2, <2>3, FS_Interval
    <3> QED
      BY <2>1, <2>2, <2>3, <3>1 DEF takes, says
  <2>4. CASE << n, a >> \notin ProfiledAxes
    <3>1. Cardinality(takes) = 1
      BY <2>1, <2>4, FS_Singleton
    <3>2. says # Free
      BY <2>1, <2>4 DEF Extent, Free
    <3> QED
      BY <2>4, <3>1, <3>2 DEF takes, says
  <2> QED
    BY <2>3, <2>4
<1> QED
  BY BindingInvariant, <1>1, PTL

-----------------------------------------------------------------------------
(***************************************************************************)
(* The shapes a run has used.                                                *)
(***************************************************************************)

(* The free axis of the model, if it has one, is the first axis of every     *)
(* output that has axes, and no other axis of an output: what build takes    *)
(* for granted where it opens the outputs' first axis.                       *)
BatchFirst ==
  \/ FreeAxes = {}
  \/ \A k \in DOMAIN graph.outputs :
       LET dims == graph.outputs[k].dims
       IN  \A a \in DOMAIN dims : (dims[a][1] # "" /\ dims[a] \in FreeAxes) <=> a = 1

Batches ==
  IF ProfiledAxes = {} THEN {1} ELSE
  { shapes[x[1]][x[2]] : x \in { y \in ProfiledAxes : shapes[y[1]] # Null } }

(* The argument of an input is a shape, as long as its parameter's.          *)
LEMMA ArgumentTyped ==
  ASSUME SInv, Accepted, NEW n \in DOMAIN graph.inputs
  PROVE  /\ DOMAIN last.ins = DOMAIN graph.inputs
         /\ last.ins[n] = [a \in DOMAIN engine.params[n] |-> last.ins[n][a]]
         /\ \A a \in DOMAIN engine.params[n] : last.ins[n][a] \in engine.params[n][a]
         /\ shapes[n] # Null => last.ins[n] = shapes[n]
<1>1. /\ graph \in Graphs /\ Typed /\ last.ins \in Arguments /\ Fits(last.ins)
  BY DEF SInv, Typed, Ran
<1>2. DOMAIN last.ins = DOMAIN graph.inputs /\ last.ins[n] \in Shapes(n)
  BY <1>1 DEF Arguments
<1>3. /\ DOMAIN last.ins[n] = DOMAIN engine.params[n]
      /\ \A a \in DOMAIN last.ins[n] : last.ins[n][a] \in engine.params[n][a]
  BY <1>1, <1>2 DEF Fits
<1>4. n \in Tensors
  BY <1>1, GraphTyped
<1>5. last.ins[n] = [a \in DOMAIN last.ins[n] |-> last.ins[n][a]]
  <2>1. CASE shapes[n] # Null
    <3> DEFINE s == shapes[n]
    <3>1. s \in Seq(Int) /\ last.ins[n] = s
      BY <1>1, <1>2, <1>4, <2>1 DEF Typed, Dims, Shapes
    <3> HIDE DEF s
    <3>2. s = [a \in DOMAIN s |-> s[a]]
      BY <3>1
    <3> QED
      BY <3>1, <3>2
  <2>2. CASE shapes[n] = Null /\ engine.zero_copy
    <3>1. last.ins[n] = resolve(Reported(n), dynamic_batch)
      BY <1>2, <2>2 DEF Shapes
    <3> QED
      BY <3>1 DEF resolve
  <2>3. CASE shapes[n] = Null /\ ~engine.zero_copy
    <3>1. last.ins[n] \in [DOMAIN engine.params[n] -> UNION Range(engine.params[n])]
      BY <1>2, <2>3 DEF Shapes
    <3> QED
      BY <3>1
  <2> QED
    BY <2>1, <2>2, <2>3
<1> QED
  BY <1>1, <1>2, <1>3, <1>5 DEF Shapes

(* The extents a run has used, for a model with at most one free axis: the    *)
(* pinned ones, except where the profile opens the axis, which is the client's *)
LEMMA ArgumentIs ==
  ASSUME SInv, Accepted, SingleAxis, NEW batch \in Batches,
         NEW n \in DOMAIN graph.inputs, NEW a \in DOMAIN graph.inputs[n]
  PROVE  last.ins[n][a] = IF << n, a >> \in ProfiledAxes THEN batch ELSE PinnedInputs[n][a]
<1>1. engine # Null /\ graph \in Graphs
  BY DEF SInv, Typed, Ran
<1>2. /\ a \in DOMAIN engine.params[n]
      /\ << n, a >> \notin ProfiledAxes => engine.params[n][a] = { PinnedInputs[n][a] }
  BY <1>1, EngineAxis
<1>3. last.ins[n][a] \in engine.params[n][a]
  BY <1>2, ArgumentTyped
<1>4. CASE << n, a >> \notin ProfiledAxes
  BY <1>2, <1>3, <1>4
<1>5. CASE << n, a >> \in ProfiledAxes
  <2>1. PICK x \in ProfiledAxes : shapes[x[1]] # Null /\ batch = shapes[x[1]][x[2]]
    BY <1>5 DEF Batches
  <2>2. x = << n, a >>
    BY <1>1, <1>5, <2>1, OnlyFreeAxis
  <2>3. x[1] = n /\ x[2] = a
    BY <2>2
  <2>4. last.ins[n] = shapes[n]
    BY <2>1, <2>3, ArgumentTyped
  <2> QED
    BY <1>5, <2>1, <2>3, <2>4
<1> QED
  BY <1>4, <1>5

LEMMA InputAsReported ==
  ASSUME SInv, Accepted, SingleAxis, NEW batch \in Batches, NEW n \in DOMAIN graph.inputs
  PROVE  last.ins[n] = resolve(Reported(n), batch)
<1>1. engine # Null /\ graph \in Graphs /\ Built
  BY DEF SInv, Typed, Ran
<1>2. /\ DOMAIN engine.params[n] = DOMAIN graph.inputs[n]
      /\ DOMAIN Reported(n) = DOMAIN graph.inputs[n]
  <2>1. engine.params = [m \in DOMAIN graph.inputs |-> Parameter(m, dynamicAxis)]
        /\ Reported(n) = Marked(InTensor(n)).dims
    BY <1>1, IosAre, ReportedAre
  <2>2. DOMAIN engine.params[n] = DOMAIN graph.inputs[n]
    BY <2>1 DEF Parameter
  <2>3. InTensor(n) \in IO /\ InTensor(n).dir = "input" /\ InTensor(n).dims = PinnedInputs[n]
        /\ DOMAIN PinnedInputs[n] = DOMAIN graph.inputs[n]
    BY <1>1, TensorsTyped, PinnedTyped DEF InTensor, IOTensor
  <2>4. DOMAIN Marked(InTensor(n)).dims = DOMAIN InTensor(n).dims
    BY <2>3, MarkedIs
  <2> QED
    BY <2>1, <2>2, <2>3, <2>4
<1>3. ASSUME NEW a \in DOMAIN graph.inputs[n]
      PROVE  last.ins[n][a] = IF Reported(n)[a] < 0 THEN batch ELSE Reported(n)[a]
  <2>1. /\ PinnedInputs[n][a] \in Extent
        /\ << n, a >> \in ProfiledAxes => Reported(n)[a] = Free
        /\ << n, a >> \notin ProfiledAxes => Reported(n)[a] = PinnedInputs[n][a]
    BY <1>1, EngineAxis
  <2>2. last.ins[n][a] = IF << n, a >> \in ProfiledAxes THEN batch ELSE PinnedInputs[n][a]
    BY ArgumentIs
  <2>3. Free < 0 /\ ~(PinnedInputs[n][a] < 0)
    BY <2>1 DEF Free, Extent
  <2> QED
    BY <2>1, <2>2, <2>3
<1>4. last.ins[n] = [a \in DOMAIN graph.inputs[n] |-> last.ins[n][a]]
  BY <1>2, ArgumentTyped
<1> QED
  BY <1>2, <1>3, <1>4 DEF resolve

(* An output's extents follow its inputs'.                                   *)
LEMMA OutputAsReported ==
  ASSUME SInv, Accepted, SingleAxis, BatchFirst, NEW batch \in Batches,
         NEW k \in DOMAIN graph.outputs
  PROVE  OutputDims(k, last.ins) = resolve(Reported(graph.outputs[k].name), batch)
<1> DEFINE d == graph.outputs[k].dims
           q == OutputDims(k, PinnedInputs)
           r == Reported(graph.outputs[k].name)
           dyn == dynamicAxis
           e(a, ins) == IF d[a][1] = "" THEN d[a][2] ELSE ins[d[a][1]][d[a][2]]
           follows(a) == d[a][1] # "" /\ d[a] \in ProfiledAxes
<1>1. engine # Null /\ graph \in Graphs /\ Built /\ Typed
  BY DEF SInv, Typed, Ran
<1>2. /\ d \in Seq(Axes(graph)) /\ DOMAIN d = 1 .. Len(d) /\ Len(d) \in Nat
      /\ \A a \in DOMAIN d :
           \/ d[a][1] = "" /\ d[a][2] \in Nat
           \/ d[a][1] \in DOMAIN graph.inputs /\ d[a][2] \in DOMAIN graph.inputs[d[a][1]]
  BY <1>1, OutputTyped
<1>3. q = [a \in DOMAIN d |-> e(a, PinnedInputs)]
      /\ OutputDims(k, last.ins) = [a \in DOMAIN d |-> e(a, last.ins)]
  BY DEF OutputDims
<1>4. q \in Seq(Nat)
  BY <1>1, OutputDimsTyped
<1>5. \A a \in DOMAIN d : q[a] \in Nat
  <2> HIDE DEF q, d
  <2>1. DOMAIN q = DOMAIN d
    BY <1>3
  <2> QED
    BY <1>4, <2>1, LenProperties
<1>6. \A a \in DOMAIN d : d[a] = << d[a][1], d[a][2] >>
  <2> HIDE DEF d
  <2>1. \A a \in DOMAIN d : d[a] \in Axes(graph)
    BY <1>2, LenProperties
  <2>2. ASSUME NEW x \in Axes(graph)
        PROVE  x = << x[1], x[2] >>
    <3>0. \A A, B : \A z \in A \X B : z = << z[1], z[2] >>
      OBVIOUS
    <3>1. x \in {""} \X Nat \/ \E n \in DOMAIN graph.inputs : x \in {n} \X DOMAIN graph.inputs[n]
      BY <2>2 DEF Axes
    <3> QED
      BY <3>0, <3>1
  <2> QED
    BY <2>1, <2>2
<1>7. \A a \in DOMAIN d : e(a, last.ins) = IF follows(a) THEN batch ELSE q[a]
  <2> TAKE a \in DOMAIN d
  <2>1. CASE d[a][1] = ""
    BY <1>3, <2>1
  <2>2. CASE d[a][1] # ""
    <3>1. d[a][1] \in DOMAIN graph.inputs /\ d[a][2] \in DOMAIN graph.inputs[d[a][1]]
      BY <1>2, <2>2
    <3>2. last.ins[d[a][1]][d[a][2]]
            = IF << d[a][1], d[a][2] >> \in ProfiledAxes THEN batch
              ELSE PinnedInputs[d[a][1]][d[a][2]]
      BY <3>1, ArgumentIs
    <3> QED
      BY <1>3, <1>6, <2>2, <3>2
  <2> QED
    BY <2>1, <2>2
<1>8. OutTensor(k) \in IO /\ OutTensor(k).dims = q /\ OutTensor(k).dir = "output"
      /\ r = Marked(OutTensor(k)).dims
  <2>1. OutTensor(k) \in IO
    BY <1>1, TensorsTyped
  <2>2. r = Marked(OutTensor(k)).dims
    BY <1>1, ReportedAre
  <2> QED
    BY <2>1, <2>2 DEF OutTensor, IOTensor
<1>9. /\ dyn = Null => r = q
      /\ dyn # Null => r = IF q # << >> THEN [q EXCEPT ![1] = Free] ELSE q
  BY <1>8, MarkedIs
<1>10. /\ dyn = Null <=> ProfiledAxes = {}
       /\ ProfiledAxes \subseteq FreeAxes /\ \A x, y \in FreeAxes : x = y
  BY <1>1, DynamicAxisIs, OnlyFreeAxis
<1>11. CASE dyn = Null
  <2>1. \A a \in DOMAIN d : e(a, last.ins) = q[a] /\ ~(q[a] < 0)
    <3> TAKE a \in DOMAIN d
    <3>1. ~follows(a)
      BY <1>10, <1>11
    <3>2. e(a, last.ins) = q[a] /\ q[a] \in Nat
      BY <1>5, <1>7, <3>1
    <3>3. ~(q[a] < 0)
      <4> DEFINE y == q[a]
      <4>1. y \in Nat
        BY <3>2
      <4> HIDE DEF y
      <4>2. ~(y < 0)
        BY <4>1
      <4> QED
        BY <4>2 DEF y
    <3> QED
      BY <3>2, <3>3
  <2>2. DOMAIN q = DOMAIN d /\ r = q
    BY <1>3, <1>9, <1>11
  <2> HIDE DEF q, d, e, r
  <2>3. OutputDims(k, last.ins) = [a \in DOMAIN d |-> q[a]]
    BY <1>3, <2>1
  <2>4. resolve(r, batch) = [a \in DOMAIN d |-> q[a]]
    BY <2>1, <2>2 DEF resolve
  <2> QED
    BY <2>3, <2>4 DEF r
<1>12. CASE dyn # Null
  <2>1. ProfiledAxes = FreeAxes /\ FreeAxes # {}
    BY <1>10, <1>12
  <2>2. \A a \in DOMAIN d : follows(a) <=> a = 1
    BY <2>1 DEF BatchFirst
  <2>3. /\ DOMAIN q = DOMAIN d
        /\ q # << >> <=> 1 \in DOMAIN d
    <3> HIDE DEF q, d
    <3>1. DOMAIN q = DOMAIN d
      BY <1>3
    <3>2. q \in Seq(Nat) /\ Len(q) \in Nat /\ DOMAIN q = 1 .. Len(q)
      BY <1>4, LenProperties
    <3>3. q = << >> <=> Len(q) = 0
      BY <3>2, EmptySeq
    <3> QED
      BY <3>1, <3>2, <3>3
  <2>4. DOMAIN r = DOMAIN d /\ \A a \in DOMAIN d : r[a] = IF a = 1 THEN Free ELSE q[a]
    <3> HIDE DEF q, r
    <3> QED
      BY <1>9, <1>12, <2>3
  <2>5. \A a \in DOMAIN d : e(a, last.ins) = IF r[a] < 0 THEN batch ELSE r[a]
    <3> TAKE a \in DOMAIN d
    <3>1. e(a, last.ins) = IF a = 1 THEN batch ELSE q[a]
      BY <1>7, <2>2
    <3>2. r[a] = (IF a = 1 THEN Free ELSE q[a]) /\ q[a] \in Nat
      BY <1>5, <2>4
    <3> HIDE DEF q, e, r
    <3> QED
      BY <3>1, <3>2 DEF Free
  <2> HIDE DEF q, d, e, r
  <2> QED
    BY <1>3, <2>4, <2>5 DEF resolve, r
<1> QED
  BY <1>11, <1>12

(* A run that returns true has used the reported shapes with the extent the   *)
(* client has set for the open axis, for every model with at most one free   *)
(* axis whose outputs have it first.                                        *)
THEOREM RanAsReported == Spec => [](BatchFirst => ShapesAsReported)
<1>1. SInv => (BatchFirst => ShapesAsReported)
  <2> SUFFICES ASSUME SInv, BatchFirst, Accepted, SingleAxis, NEW batch \in Batches
               PROVE  /\ \A n \in DOMAIN last.ins : last.ins[n] = resolve(Reported(n), batch)
                      /\ \A k \in DOMAIN last.outs :
                           last.outs[k].dims = resolve(Reported(graph.outputs[k].name), batch)
    BY DEF ShapesAsReported, Batches
  <2>1. /\ graph \in Graphs /\ Built /\ engine # Null
        /\ last.ins \in Arguments
        /\ last.outs = [i \in DOMAIN Outputs |->
                          [ptr |-> last.ptrs[Outputs[i].name], dims |-> OutputDims(i, last.ins)]]
    BY DEF SInv, Typed, Ran
  <2>2. DOMAIN last.ins = DOMAIN graph.inputs
    BY <2>1 DEF Arguments
  <2>3. DOMAIN Outputs = DOMAIN graph.outputs
    BY <2>1, OutputsAre
  <2>4. \A k \in DOMAIN last.outs :
          k \in DOMAIN graph.outputs /\ last.outs[k].dims = OutputDims(k, last.ins)
    BY <2>1, <2>3
  <2> QED
    BY <2>2, <2>4, InputAsReported, OutputAsReported
<1> QED
  BY BindingInvariant, <1>1, PTL

-----------------------------------------------------------------------------
(***************************************************************************)
(* Folds of an associative and commutative operation, here a function on     *)
(* pairs of integers: sums and products are two of them.                     *)
(***************************************************************************)
Commutes(op) ==
  /\ op \in [Int \X Int -> Int]
  /\ \A x, y, z \in Int : op[<< x, op[<< y, z >>] >>] = op[<< y, op[<< x, z >>] >>]

(* f has integers on S.                                                     *)
IntsOn(f, S) == \A x \in S : f[x] \in Int

(* The function MapThenFoldSet is defined with.                              *)
Folds(h, op, base, f, S) ==
  h = [s \in SUBSET S |->
         IF s = {} THEN base
         ELSE op[<< f[CHOOSE x \in s : TRUE], h[s \ {CHOOSE x \in s : TRUE}] >>]]

HasFold(op, base, f, S) == \E h \in [SUBSET S -> Int] : Folds(h, op, base, f, S)

(* There is one, by induction on the size of the sets it is defined for.      *)
LEMMA FoldsExists ==
  ASSUME NEW op, Commutes(op), NEW base \in Int, NEW S, IsFiniteSet(S), NEW f, IntsOn(f, S)
  PROVE  HasFold(op, base, f, S)
<1>. DEFINE first(s) == CHOOSE x \in s : TRUE
            step(h, s) == IF s = {} THEN base ELSE op[<< f[first(s)], h[s \ {first(s)}] >>]
            K == { k \in Nat : \E h \in [SUBSET S -> Int] :
                     \A s \in SUBSET S : Cardinality(s) <= k => h[s] = step(h, s) }
<1>1. \A s \in SUBSET S : /\ IsFiniteSet(s) /\ Cardinality(s) \in Nat
                          /\ s # {} => first(s) \in s
                          /\ Cardinality(s) = 0 <=> s = {}
  BY FS_Subset, FS_CardinalityType, FS_EmptySet
<1>2. \A s \in SUBSET S : s # {} =>
        s \ {first(s)} \in SUBSET S /\ Cardinality(s \ {first(s)}) = Cardinality(s) - 1
  <2>. TAKE s \in SUBSET S
  <2>. HAVE s # {}
  <2>1. first(s) \in s /\ IsFiniteSet(s)
    BY <1>1
  <2>. HIDE DEF first
  <2>. QED
    BY <2>1, FS_RemoveElement
<1>3. \A h \in [SUBSET S -> Int], s \in SUBSET S : step(h, s) \in Int
  <2>. TAKE h \in [SUBSET S -> Int], s \in SUBSET S
  <2>1. CASE s = {}
    BY <2>1
  <2>2. CASE s # {}
    <3>1. f[first(s)] \in Int /\ h[s \ {first(s)}] \in Int
      BY <1>1, <1>2, <2>2 DEF IntsOn
    <3>. HIDE DEF first
    <3>. QED
      BY <2>2, <3>1 DEF Commutes
  <2>. QED
    BY <2>1, <2>2
<1>4. 0 \in K
  <2>1. \A s \in SUBSET S : Cardinality(s) <= 0 => s = {}
    BY <1>1
  <2>. DEFINE h == [s \in SUBSET S |-> base]
  <2>2. h \in [SUBSET S -> Int] /\ \A s \in SUBSET S : Cardinality(s) <= 0 => h[s] = step(h, s)
    BY <2>1
  <2>. QED
    BY <2>2
<1>5. ASSUME NEW k \in Nat, k \in K
      PROVE  k + 1 \in K
  <2>1. PICK h \in [SUBSET S -> Int] :
          \A s \in SUBSET S : Cardinality(s) <= k => h[s] = step(h, s)
    BY <1>5
  <2>. DEFINE g == [s \in SUBSET S |-> IF Cardinality(s) = k + 1 THEN step(h, s) ELSE h[s]]
  <2>2. g \in [SUBSET S -> Int]
    <3>. HIDE DEF step
    <3>. QED
      BY <1>3
  <2>3. ASSUME NEW s \in SUBSET S, Cardinality(s) <= k + 1
        PROVE  g[s] = step(g, s)
    <3>1. g[s] = step(h, s)
      <4>1. CASE Cardinality(s) = k + 1
        BY <4>1
      <4>2. CASE Cardinality(s) # k + 1
        <5>1. Cardinality(s) <= k
          BY <1>1, <2>3, <4>2
        <5>. QED
          BY <2>1, <4>2, <5>1
      <4>. QED
        BY <4>1, <4>2
    <3>2. s # {} => g[s \ {first(s)}] = h[s \ {first(s)}]
      <4>. HAVE s # {}
      <4>1. s \ {first(s)} \in SUBSET S /\ Cardinality(s \ {first(s)}) = Cardinality(s) - 1
            /\ Cardinality(s) \in Nat
        BY <1>1, <1>2
      <4>2. Cardinality(s \ {first(s)}) # k + 1
        BY <2>3, <4>1
      <4>. HIDE DEF first, step
      <4>. QED
        BY <4>1, <4>2
    <3>. QED
      <4>. HIDE DEF g, first
      <4>. QED
        BY <3>1, <3>2
  <2>. HIDE DEF g, step
  <2>. QED
    BY <2>2, <2>3
<1>6. Nat \subseteq K
  <2>. HIDE DEF K
  <2>. QED
    BY <1>4, <1>5, SetInduction
<1>7. Cardinality(S) \in Nat /\ \A s \in SUBSET S : Cardinality(s) <= Cardinality(S)
  BY FS_CardinalityType, FS_Subset
<1>8. PICK h \in [SUBSET S -> Int] : \A s \in SUBSET S : h[s] = step(h, s)
  <2>1. Cardinality(S) \in K
    BY <1>6, <1>7
  <2>. HIDE DEF step
  <2>. QED
    BY <1>7, <2>1
<1>9. Folds(h, op, base, f, S)
  <2>1. h = [s \in SUBSET S |-> h[s]]
    OBVIOUS
  <2>2. h = [s \in SUBSET S |-> step(h, s)]
    <3>. HIDE DEF step
    <3>. QED
      BY <1>8, <2>1
  <2>. QED
    BY <2>2 DEF Folds
<1>. QED
  BY <1>9 DEF HasFold

(* What two functions of a set agree on if they agree on a set whenever they   *)
(* do on all but its first element.                                         *)
SameStep(h, g, S) ==
  \A s \in SUBSET S :
    s # {} /\ h[s \ {CHOOSE x \in s : TRUE}] = g[s \ {CHOOSE x \in s : TRUE}] => h[s] = g[s]

Same(h, g, S) == \A s \in SUBSET S : h[s] = g[s]

LEMMA FoldsAgree ==
  ASSUME NEW S, IsFiniteSet(S), NEW h, NEW g, h[{}] = g[{}], SameStep(h, g, S)
  PROVE  Same(h, g, S)
<1>. DEFINE first(s) == CHOOSE x \in s : TRUE
            K == { k \in Nat : \A s \in SUBSET S : Cardinality(s) = k => h[s] = g[s] }
<1>1. \A s \in SUBSET S : /\ IsFiniteSet(s) /\ Cardinality(s) \in Nat
                          /\ s # {} => first(s) \in s
                          /\ Cardinality(s) = 0 <=> s = {}
  BY FS_Subset, FS_CardinalityType, FS_EmptySet
<1>2. \A s \in SUBSET S : s # {} =>
        s \ {first(s)} \in SUBSET S /\ Cardinality(s \ {first(s)}) = Cardinality(s) - 1
  <2>. TAKE s \in SUBSET S
  <2>. HAVE s # {}
  <2>1. first(s) \in s /\ IsFiniteSet(s)
    BY <1>1
  <2>. HIDE DEF first
  <2>. QED
    BY <2>1, FS_RemoveElement
<1>3. 0 \in K
  BY <1>1
<1>4. ASSUME NEW k \in Nat, k \in K
      PROVE  k + 1 \in K
  <2>1. SUFFICES ASSUME NEW s \in SUBSET S, Cardinality(s) = k + 1
                 PROVE  h[s] = g[s]
    OBVIOUS
  <2>2. s # {}
    BY <1>1, <2>1
  <2>3. s \ {first(s)} \in SUBSET S /\ Cardinality(s \ {first(s)}) = k
    BY <1>2, <2>1, <2>2
  <2>4. h[s \ {first(s)}] = g[s \ {first(s)}]
    <3>. HIDE DEF first
    <3>. QED
      BY <1>4, <2>3
  <2>. QED
    BY <2>2, <2>4 DEF SameStep
<1>5. Nat \subseteq K
  <2>. HIDE DEF K
  <2>. QED
    BY <1>3, <1>4, SetInduction
<1>. QED
  BY <1>1, <1>5 DEF Same

(* Any element may be taken first.                                          *)
AnyFirst(h, op, f, S) ==
  \A s \in SUBSET S : \A x \in s : h[s] = op[<< f[x], h[s \ {x}] >>]

LEMMA FoldsRemove ==
  ASSUME NEW op, Commutes(op), NEW base \in Int, NEW S, IsFiniteSet(S), NEW f, IntsOn(f, S),
         NEW h \in [SUBSET S -> Int], Folds(h, op, base, f, S)
  PROVE  AnyFirst(h, op, f, S)
<1>. DEFINE first(s) == CHOOSE x \in s : TRUE
            K == { k \in Nat : \A s \in SUBSET S : Cardinality(s) = k =>
                                 \A x \in s : h[s] = op[<< f[x], h[s \ {x}] >>] }
<1>1. \A s \in SUBSET S : IsFiniteSet(s) /\ Cardinality(s) \in Nat
                          /\ (Cardinality(s) = 0 <=> s = {})
  BY FS_Subset, FS_CardinalityType, FS_EmptySet
<1>2. \A s \in SUBSET S : \A x \in s : Cardinality(s \ {x}) = Cardinality(s) - 1
  BY <1>1, FS_RemoveElement
<1>3. \A s \in SUBSET S : s # {} => first(s) \in s /\ h[s] = op[<< f[first(s)], h[s \ {first(s)}] >>]
  BY DEF Folds
<1>. HIDE DEF first
<1>5. 0 \in K
  BY <1>1
<1>6. ASSUME NEW k \in Nat, k \in K
      PROVE  k + 1 \in K
  <2>1. SUFFICES ASSUME NEW s \in SUBSET S, Cardinality(s) = k + 1, NEW x \in s
                 PROVE  h[s] = op[<< f[x], h[s \ {x}] >>]
    OBVIOUS
  <2>2. PICK c \in s : h[s] = op[<< f[c], h[s \ {c}] >>]
    BY <1>3
  <2>3. CASE c = x
    BY <2>2, <2>3
  <2>4. CASE c # x
    <3>1. s \ {c} \in SUBSET S /\ Cardinality(s \ {c}) = k /\ x \in s \ {c}
          /\ s \ {x} \in SUBSET S /\ Cardinality(s \ {x}) = k /\ c \in s \ {x}
      BY <1>2, <2>1, <2>4
    <3>2. h[s \ {c}] = op[<< f[x], h[(s \ {c}) \ {x}] >>]
          /\ h[s \ {x}] = op[<< f[c], h[(s \ {x}) \ {c}] >>]
      BY <1>6, <3>1
    <3>3. (s \ {c}) \ {x} = (s \ {x}) \ {c} /\ (s \ {c}) \ {x} \in SUBSET S
      OBVIOUS
    <3>4. PICK y \in Int : y = h[(s \ {c}) \ {x}]
      BY <3>3
    <3>5. f[c] \in Int /\ f[x] \in Int
      BY DEF IntsOn
    <3>6. op[<< f[c], op[<< f[x], y >>] >>] = op[<< f[x], op[<< f[c], y >>] >>]
      BY <3>5 DEF Commutes
    <3>. QED
      BY <2>2, <3>2, <3>3, <3>4, <3>6
  <2>. QED
    BY <2>3, <2>4
<1>7. Nat \subseteq K
  <2>. HIDE DEF K
  <2>. QED
    BY <1>5, <1>6, SetInduction
<1>. QED
  BY <1>1, <1>7 DEF AnyFirst

(* The sum and the product of a function over a set.                         *)
Sum(f, S) == FoldFunctionOnSet(+, 0, f, S)
Product(f, S) == FoldFunctionOnSet(LAMBDA x, y : x * y, 1, f, S)

Sums(h, f, S) ==
  h[{}] = 0 /\ \A s \in SUBSET S : \A x \in s : h[s] = f[x] + h[s \ {x}]
Products(h, f, S) ==
  h[{}] = 1 /\ \A s \in SUBSET S : \A x \in s : h[s] = f[x] * h[s \ {x}]

LEMMA SumIs ==
  ASSUME NEW S, IsFiniteSet(S), NEW f, IntsOn(f, S)
  PROVE  \E h \in [SUBSET S -> Int] : Sums(h, f, S) /\ Sum(f, S) = h[S]
<1>. DEFINE op == [p \in Int \X Int |-> p[1] + p[2]]
            Unfolds(g) == g = [s \in SUBSET S |->
                              IF s = {} THEN 0
                              ELSE f[CHOOSE x \in s : TRUE] + g[s \ {CHOOSE x \in s : TRUE}]]
            first(s) == CHOOSE x \in s : TRUE
<1>0. \A x, y \in Int : op[<< x, y >>] = x + y
  OBVIOUS
<1>1. Commutes(op)
  BY DEF Commutes
<1>. HIDE DEF op
<1>2. PICK h \in [SUBSET S -> Int] : Folds(h, op, 0, f, S)
  <2>1. HasFold(op, 0, f, S)
    BY <1>1, FoldsExists
  <2>. QED
    BY <2>1 DEF HasFold
<1>3. \A s \in SUBSET S : s # {} => first(s) \in s /\ s \ {first(s)} \in SUBSET S
  OBVIOUS
<1>4. Unfolds(h)
  <2>1. ASSUME NEW s \in SUBSET S
        PROVE  h[s] = IF s = {} THEN 0 ELSE f[first(s)] + h[s \ {first(s)}]
    <3>1. CASE s = {}
      BY <1>2, <3>1 DEF Folds
    <3>2. CASE s # {}
      <4>1. f[first(s)] \in Int /\ h[s \ {first(s)}] \in Int
        BY <1>3, <3>2 DEF IntsOn
      <4>2. h[s] = op[<< f[first(s)], h[s \ {first(s)}] >>]
        BY <1>2, <3>2 DEF Folds
      <4>. HIDE DEF first
      <4>. QED
        BY <1>0, <3>2, <4>1, <4>2
    <3>. QED
      BY <3>1, <3>2
  <2>. QED
    BY <2>1
<1>5. PICK g : Unfolds(g) /\ Sum(f, S) = g[S]
  <2>. DEFINE g == CHOOSE g : Unfolds(g)
  <2>1. Unfolds(g)
    BY <1>4
  <2>2. Sum(f, S) = g[S]
    BY DEF Sum, FoldFunctionOnSet, MapThenFoldSet
  <2>. QED
    BY <2>1, <2>2
<1>6. \A s \in SUBSET S : h[s] = g[s]
  <2>1. h[{}] = g[{}]
    BY <1>4, <1>5
  <2>2. SameStep(h, g, S)
    <3>. SUFFICES \A s \in SUBSET S :
                    s # {} /\ h[s \ {first(s)}] = g[s \ {first(s)}] => h[s] = g[s]
      BY DEF SameStep
    <3>. TAKE s \in SUBSET S
    <3>1. s # {} => /\ h[s] = f[first(s)] + h[s \ {first(s)}]
                    /\ g[s] = f[first(s)] + g[s \ {first(s)}]
      BY <1>4, <1>5
    <3>. HIDE DEF first
    <3>. QED
      BY <3>1
  <2>. QED
    BY <2>1, <2>2, FoldsAgree DEF Same
<1>7. \A s \in SUBSET S : \A x \in s : h[s] = f[x] + h[s \ {x}]
  <2>0. AnyFirst(h, op, f, S)
    <3>1. PICK base \in Int : base = 0
      OBVIOUS
    <3>2. Folds(h, op, base, f, S)
      BY <1>2, <3>1
    <3>. QED
      BY <1>1, <3>1, <3>2, FoldsRemove
  <2>. TAKE s \in SUBSET S
  <2>. TAKE x \in s
  <2>1. h[s] = op[<< f[x], h[s \ {x}] >>]
    BY <2>0 DEF AnyFirst
  <2>2. f[x] \in Int /\ h[s \ {x}] \in Int
    BY DEF IntsOn
  <2>. QED
    BY <1>0, <2>1, <2>2
<1>8. h[{}] = 0 /\ h[S] = g[S]
  BY <1>4, <1>6
<1>9. Sums(h, f, S)
  BY <1>7, <1>8 DEF Sums
<1>. QED
  BY <1>5, <1>8, <1>9

LEMMA ProductIs ==
  ASSUME NEW S, IsFiniteSet(S), NEW f, IntsOn(f, S)
  PROVE  \E h \in [SUBSET S -> Int] : Products(h, f, S) /\ Product(f, S) = h[S]
<1>. DEFINE op == [p \in Int \X Int |-> p[1] * p[2]]
            Unfolds(g) == g = [s \in SUBSET S |->
                              IF s = {} THEN 1
                              ELSE f[CHOOSE x \in s : TRUE] * g[s \ {CHOOSE x \in s : TRUE}]]
            first(s) == CHOOSE x \in s : TRUE
<1>0. \A x, y \in Int : op[<< x, y >>] = x * y
  OBVIOUS
<1>1. Commutes(op)
  BY DEF Commutes
<1>. HIDE DEF op
<1>2. PICK h \in [SUBSET S -> Int] : Folds(h, op, 1, f, S)
  <2>1. HasFold(op, 1, f, S)
    BY <1>1, FoldsExists
  <2>. QED
    BY <2>1 DEF HasFold
<1>3. \A s \in SUBSET S : s # {} => first(s) \in s /\ s \ {first(s)} \in SUBSET S
  OBVIOUS
<1>4. Unfolds(h)
  <2>1. ASSUME NEW s \in SUBSET S
        PROVE  h[s] = IF s = {} THEN 1 ELSE f[first(s)] * h[s \ {first(s)}]
    <3>1. CASE s = {}
      BY <1>2, <3>1 DEF Folds
    <3>2. CASE s # {}
      <4>1. f[first(s)] \in Int /\ h[s \ {first(s)}] \in Int
        BY <1>3, <3>2 DEF IntsOn
      <4>2. h[s] = op[<< f[first(s)], h[s \ {first(s)}] >>]
        BY <1>2, <3>2 DEF Folds
      <4>. HIDE DEF first
      <4>. QED
        BY <1>0, <3>2, <4>1, <4>2
    <3>. QED
      BY <3>1, <3>2
  <2>. QED
    BY <2>1
<1>5. PICK g : Unfolds(g) /\ Product(f, S) = g[S]
  <2>. DEFINE g == CHOOSE g : Unfolds(g)
  <2>1. Unfolds(g)
    BY <1>4
  <2>2. Product(f, S) = g[S]
    BY DEF Product, FoldFunctionOnSet, MapThenFoldSet
  <2>. QED
    BY <2>1, <2>2
<1>6. \A s \in SUBSET S : h[s] = g[s]
  <2>1. h[{}] = g[{}]
    BY <1>4, <1>5
  <2>2. SameStep(h, g, S)
    <3>. SUFFICES \A s \in SUBSET S :
                    s # {} /\ h[s \ {first(s)}] = g[s \ {first(s)}] => h[s] = g[s]
      BY DEF SameStep
    <3>. TAKE s \in SUBSET S
    <3>1. s # {} => /\ h[s] = f[first(s)] * h[s \ {first(s)}]
                    /\ g[s] = f[first(s)] * g[s \ {first(s)}]
      BY <1>4, <1>5
    <3>. HIDE DEF first
    <3>. QED
      BY <3>1
  <2>. QED
    BY <2>1, <2>2, FoldsAgree DEF Same
<1>7. \A s \in SUBSET S : \A x \in s : h[s] = f[x] * h[s \ {x}]
  <2>0. AnyFirst(h, op, f, S)
    <3>1. PICK base \in Int : base = 1
      OBVIOUS
    <3>2. Folds(h, op, base, f, S)
      BY <1>2, <3>1
    <3>. QED
      BY <1>1, <3>1, <3>2, FoldsRemove
  <2>. TAKE s \in SUBSET S
  <2>. TAKE x \in s
  <2>1. h[s] = op[<< f[x], h[s \ {x}] >>]
    BY <2>0 DEF AnyFirst
  <2>2. f[x] \in Int /\ h[s \ {x}] \in Int
    BY DEF IntsOn
  <2>. QED
    BY <1>0, <2>1, <2>2
<1>8. h[{}] = 1 /\ h[S] = g[S]
  BY <1>4, <1>6
<1>9. Products(h, f, S)
  BY <1>7, <1>8 DEF Products
<1>. QED
  BY <1>5, <1>8, <1>9

(* Sums and products over an interval, element by element.                   *)
LEMMA SumTails ==
  ASSUME NEW n \in Nat, NEW f, IntsOn(f, 1 .. n)
  PROVE  \E t \in [1 .. n + 1 -> Int] :
           /\ t[n + 1] = 0 /\ \A a \in 1 .. n : t[a] = f[a] + t[a + 1]
           /\ Sum(f, 1 .. n) = t[1]
<1>1. IsFiniteSet(1 .. n)
  BY FS_Interval
<1>2. PICK h \in [SUBSET (1 .. n) -> Int] : Sums(h, f, 1 .. n) /\ Sum(f, 1 .. n) = h[1 .. n]
  BY <1>1, SumIs
<1>. DEFINE t == [a \in 1 .. n + 1 |-> h[a .. n]]
<1>3. \A a \in 1 .. n + 1 : a .. n \in SUBSET (1 .. n)
  OBVIOUS
<1>4. t \in [1 .. n + 1 -> Int]
  BY <1>3
<1>5. t[n + 1] = 0
  <2>1. n + 1 .. n = {} /\ n + 1 \in 1 .. n + 1
    OBVIOUS
  <2>. QED
    BY <1>2, <2>1 DEF Sums
<1>6. \A a \in 1 .. n : t[a] = f[a] + t[a + 1]
  <2>. TAKE a \in 1 .. n
  <2>1. a \in a .. n /\ (a .. n) \ {a} = a + 1 .. n /\ a + 1 \in 1 .. n + 1
    OBVIOUS
  <2>2. PICK s \in SUBSET (1 .. n) : s = a .. n
    BY <1>3
  <2>3. h[s] = f[a] + h[s \ {a}]
    BY <1>2, <2>1, <2>2 DEF Sums
  <2>4. t[a] = h[a .. n] /\ t[a + 1] = h[a + 1 .. n]
    BY <2>1
  <2>. HIDE DEF t
  <2>. QED
    BY <2>1, <2>2, <2>3, <2>4
<1>7. Sum(f, 1 .. n) = t[1]
  BY <1>2
<1>. HIDE DEF t
<1>. QED
  BY <1>4, <1>5, <1>6, <1>7

(* The products of f over what is behind each element.                      *)
Behind(q, f, n) ==
  /\ q \in [0 .. n -> Int]
  /\ q[n] = 1 /\ \A a \in 1 .. n : q[a - 1] = f[a] * q[a]
  /\ \A a \in 0 .. n : Product(f, a + 1 .. n) = q[a]

LEMMA ProductTails ==
  ASSUME NEW n \in Nat, NEW f, IntsOn(f, 1 .. n)
  PROVE  \E q : Behind(q, f, n)
<1>1. \A a \in 0 .. n : IsFiniteSet(a + 1 .. n) /\ a + 1 .. n \in SUBSET (1 .. n)
  BY FS_Interval
<1>2. 0 \in 0 .. n /\ 0 + 1 = 1
  OBVIOUS
<1>3. PICK h \in [SUBSET (1 .. n) -> Int] : Products(h, f, 1 .. n)
  <2>1. IsFiniteSet(1 .. n)
    BY <1>1, <1>2
  <2>. QED
    BY <2>1, ProductIs
<1>4. ASSUME NEW a \in 0 .. n
      PROVE  Product(f, a + 1 .. n) = h[a + 1 .. n]
  <2>. DEFINE S == a + 1 .. n
  <2>1. IsFiniteSet(S) /\ S \in SUBSET (1 .. n) /\ IntsOn(f, S)
    BY <1>1 DEF IntsOn
  <2>. HIDE DEF S
  <2>2. PICK g \in [SUBSET S -> Int] : Products(g, f, S) /\ Product(f, S) = g[S]
    BY <2>1, ProductIs
  <2>3. \A s \in SUBSET S : h[s] = g[s]
    <3>1. h[{}] = g[{}]
      BY <1>3, <2>2 DEF Products
    <3>2. \A s \in SUBSET S : \A x \in s : /\ h[s] = f[x] * h[s \ {x}]
                                         /\ g[s] = f[x] * g[s \ {x}]
      BY <1>3, <2>1, <2>2 DEF Products
    <3>3. SameStep(h, g, S)
      <4>. SUFFICES ASSUME NEW s \in SUBSET S, s # {},
                           h[s \ {CHOOSE x \in s : TRUE}] = g[s \ {CHOOSE x \in s : TRUE}]
                    PROVE  h[s] = g[s]
        BY DEF SameStep
      <4>1. PICK x \in s : x = CHOOSE y \in s : TRUE
        OBVIOUS
      <4>2. h[s \ {x}] = g[s \ {x}]
        BY <4>1
      <4>. QED
        BY <3>2, <4>2
    <3>4. Same(h, g, S)
      BY <2>1, <3>1, <3>3, FoldsAgree
    <3>. QED
      BY <3>4 DEF Same
  <2>. QED
    BY <2>2, <2>3 DEF S
<1>. DEFINE q == [a \in 0 .. n |-> h[a + 1 .. n]]
<1>5. q \in [0 .. n -> Int]
  BY <1>1
<1>6. q[n] = 1
  <2>1. n + 1 .. n = {} /\ n \in 0 .. n
    OBVIOUS
  <2>. QED
    BY <1>3, <2>1 DEF Products
<1>7. \A a \in 1 .. n : q[a - 1] = f[a] * q[a]
  <2>. TAKE a \in 1 .. n
  <2>1. /\ a - 1 \in 0 .. n /\ a \in 0 .. n /\ (a - 1) + 1 = a
        /\ a \in a .. n /\ (a .. n) \ {a} = a + 1 .. n
    OBVIOUS
  <2>2. a .. n \in SUBSET (1 .. n)
    OBVIOUS
  <2>3. h[a .. n] = f[a] * h[a + 1 .. n]
    BY <1>3, <2>1, <2>2 DEF Products
  <2>4. q[a - 1] = h[a .. n] /\ q[a] = h[a + 1 .. n]
    BY <2>1
  <2>. QED
    BY <2>3, <2>4
<1>8. \A a \in 0 .. n : Product(f, a + 1 .. n) = q[a]
  BY <1>4
<1>. HIDE DEF q
<1>. QED
  BY <1>5, <1>6, <1>7, <1>8 DEF Behind

-----------------------------------------------------------------------------
(***************************************************************************)
(* Row-major order.                                                         *)
(***************************************************************************)

(* Elements of a tensor of n axes with these extents, by index; how many      *)
(* elements follow one step along each axis; and what an index adds up to,   *)
(* from an axis on.                                                         *)
Elements(d, n) == { i \in [1 .. n -> Nat] : \A a \in 1 .. n : i[a] < d[a] }

Steps(w, d, n) ==
  /\ n \in Nat /\ d \in [1 .. n -> Nat \ {0}] /\ w \in [0 .. n -> Int]
  /\ w[n] = 1 /\ \A a \in 1 .. n : w[a - 1] = d[a] * w[a]

Tails(t, i, w, n) ==
  /\ t \in [1 .. n + 1 -> Int]
  /\ t[n + 1] = 0 /\ \A a \in 1 .. n : t[a] = i[a] * w[a] + t[a + 1]

(* Arithmetic of one digit x and a remainder r in a place worth w.            *)
LEMMA ProductTyped ==
  /\ \A x, y \in Int : x * y \in Int
  /\ \A x, y \in Nat \ {0} : x * y \in Nat \ {0}
OBVIOUS

LEMMA Digit ==
  \A x, y, r, w \in Int : w > 0 /\ x < y /\ 0 <= r /\ r < w => x * w + r < y * w
<1>. TAKE x, y, r, w \in Int
<1>. HAVE w > 0 /\ x < y /\ 0 <= r /\ r < w
<1>1. PICK k \in Nat \ {0} : k = y - x
  OBVIOUS
<1>2. y * w = x * w + k * w
  <2>1. y = x + k
    BY <1>1
  <2>2. (x + k) * w = x * w + k * w
    OBVIOUS
  <2>. QED
    BY <2>1, <2>2
<1>3. PICK l \in Nat : k = l + 1
  <2>1. k - 1 \in Nat /\ k = (k - 1) + 1
    OBVIOUS
  <2>. QED
    BY <2>1
<1>4. k * w = l * w + w
  <2>1. (l + 1) * w = l * w + w
    OBVIOUS
  <2>. QED
    BY <1>3, <2>1
<1>6. l * w \in Nat
  <2>1. PICK v \in Nat : v = w
    OBVIOUS
  <2>2. l * v \in Nat
    OBVIOUS
  <2>. QED
    BY <2>1, <2>2
<1>5. x * w \in Int
  OBVIOUS
<1>. QED
  BY <1>2, <1>4, <1>5, <1>6

LEMMA DivMod ==
  \A x \in Nat, v \in Nat \ {0} :
    /\ x \div v \in Nat /\ x % v \in Nat /\ x % v < v
    /\ x = ((x \div v) * v) + (x % v)
OBVIOUS

LEMMA NotNegative ==
  \A x, r, w \in Nat : x * w + r \in Nat
OBVIOUS

(* No extent is 0, so no step is.                                           *)
LEMMA StepsPositive ==
  ASSUME NEW w, NEW d, NEW n, Steps(w, d, n)
  PROVE  \A a \in 0 .. n : w[a] \in Nat \ {0}
<1>. DEFINE K == { k \in Nat : k <= n => w[n - k] \in Nat \ {0} }
<1>0. n \in Nat
  BY DEF Steps
<1>1. 0 \in K
  BY DEF Steps
<1>2. ASSUME NEW k \in Nat, k \in K
      PROVE  k + 1 \in K
  <2>1. SUFFICES ASSUME k + 1 <= n PROVE w[n - (k + 1)] \in Nat \ {0}
    OBVIOUS
  <2>2. n - k \in 1 .. n /\ n - (k + 1) = (n - k) - 1 /\ k <= n
    BY <1>0, <2>1
  <2>3. d[n - k] \in Nat \ {0} /\ w[n - k] \in Nat \ {0}
    BY <1>2, <2>2 DEF Steps
  <2>4. w[(n - k) - 1] = d[n - k] * w[n - k]
    BY <2>2 DEF Steps
  <2>. QED
    BY <2>2, <2>3, <2>4, ProductTyped
<1>3. Nat \subseteq K
  <2>. HIDE DEF K
  <2>. QED
    BY <1>1, <1>2, SetInduction
<1>4. \A a \in 0 .. n : n - a \in Nat /\ n - a <= n /\ n - (n - a) = a
  BY <1>0
<1>. QED
  BY <1>3, <1>4

(* What an index adds up to from an axis on depends on what is behind it.     *)
LEMMA TailsAgree ==
  ASSUME NEW w, NEW d, NEW n, Steps(w, d, n), NEW i, NEW j, NEW t, NEW u,
         Tails(t, i, w, n), Tails(u, j, w, n),
         NEW b \in 0 .. n, \A a \in b + 1 .. n : i[a] = j[a]
  PROVE  \A a \in b + 1 .. n + 1 : t[a] = u[a]
<1>. DEFINE K == { k \in Nat : k <= n - b => t[n + 1 - k] = u[n + 1 - k] }
<1>0. n \in Nat
  BY DEF Steps
<1>1. 0 \in K
  BY <1>0 DEF Tails
<1>2. ASSUME NEW k \in Nat, k \in K
      PROVE  k + 1 \in K
  <2>1. SUFFICES ASSUME k + 1 <= n - b PROVE t[n + 1 - (k + 1)] = u[n + 1 - (k + 1)]
    OBVIOUS
  <2>2. PICK a \in b + 1 .. n : a = n + 1 - (k + 1)
    BY <1>0, <2>1
  <2>3. a + 1 = n + 1 - k /\ k <= n - b /\ a \in 1 .. n
    BY <1>0, <2>1, <2>2
  <2>4. t[a + 1] = u[a + 1]
    BY <1>2, <2>3
  <2>5. t[a] = i[a] * w[a] + t[a + 1] /\ u[a] = j[a] * w[a] + u[a + 1]
    BY <2>3 DEF Tails
  <2>. QED
    BY <2>2, <2>4, <2>5
<1>3. Nat \subseteq K
  <2>. HIDE DEF K
  <2>. QED
    BY <1>1, <1>2, SetInduction
<1>4. \A a \in b + 1 .. n + 1 : n + 1 - a \in Nat /\ n + 1 - a <= n - b /\ n + 1 - (n + 1 - a) = a
  BY <1>0
<1>. QED
  BY <1>3, <1>4

Terms(f, i, w, n) == \A a \in 1 .. n : i[a] \in Int /\ f[a] = i[a] * w[a]

LEMMA TailsExist ==
  ASSUME NEW w, NEW d, NEW n, Steps(w, d, n), NEW i, NEW f, Terms(f, i, w, n)
  PROVE  \E t : Tails(t, i, w, n) /\ Sum(f, 1 .. n) = t[1]
<1>1. n \in Nat /\ \A a \in 1 .. n : w[a] \in Int
  BY DEF Steps
<1>2. IntsOn(f, 1 .. n)
  BY <1>1, ProductTyped DEF IntsOn, Terms
<1>3. PICK t \in [1 .. n + 1 -> Int] :
        /\ t[n + 1] = 0 /\ \A a \in 1 .. n : t[a] = f[a] + t[a + 1]
        /\ Sum(f, 1 .. n) = t[1]
  BY <1>1, <1>2, SumTails
<1>4. Tails(t, i, w, n)
  BY <1>3 DEF Tails, Terms
<1>. QED
  BY <1>3, <1>4

(* What is behind an axis is less than one step along it,                   *)
LEMMA TailBound ==
  ASSUME NEW w, NEW d, NEW n, Steps(w, d, n), NEW i \in Elements(d, n), NEW t, Tails(t, i, w, n)
  PROVE  \A a \in 1 .. n + 1 : t[a] \in Nat /\ t[a] < w[a - 1]
<1>. DEFINE K == { k \in Nat : k <= n => t[n + 1 - k] \in Nat /\ t[n + 1 - k] < w[n - k] }
<1>0. n \in Nat
  BY DEF Steps
<1>1. 0 \in K
  <2>1. t[n + 1] = 0 /\ w[n] = 1
    BY DEF Steps, Tails
  <2>2. n + 1 - 0 = n + 1 /\ n - 0 = n
    BY <1>0
  <2>. QED
    BY <2>1, <2>2
<1>2. ASSUME NEW k \in Nat, k \in K
      PROVE  k + 1 \in K
  <2>1. SUFFICES ASSUME k + 1 <= n
                 PROVE  t[n + 1 - (k + 1)] \in Nat /\ t[n + 1 - (k + 1)] < w[n - (k + 1)]
    OBVIOUS
  <2>2. PICK a \in 1 .. n : a = n - k
    BY <1>0, <2>1
  <2>3. /\ n + 1 - (k + 1) = a /\ n - (k + 1) = a - 1 /\ n + 1 - k = a + 1 /\ k <= n
        /\ a \in 0 .. n
    BY <1>0, <2>1, <2>2
  <2>4. t[a + 1] \in Nat /\ t[a + 1] < w[a]
    BY <1>2, <2>2, <2>3
  <2>5. t[a] = i[a] * w[a] + t[a + 1]
    BY DEF Tails
  <2>6. w[a - 1] = d[a] * w[a]
    BY DEF Steps
  <2>7. i[a] \in Nat /\ d[a] \in Nat /\ i[a] < d[a]
    BY DEF Elements, Steps
  <2>8. w[a] \in Nat \ {0}
    BY <2>3, StepsPositive
  <2>9. t[a] < w[a - 1]
    <3>1. PICK x, y, r, v \in Int : x = i[a] /\ y = d[a] /\ r = t[a + 1] /\ v = w[a]
      BY <2>4, <2>7, <2>8
    <3>2. v > 0 /\ x < y /\ 0 <= r /\ r < v
      BY <2>4, <2>7, <2>8, <3>1
    <3>3. x * v + r < y * v
      BY <3>2, Digit
    <3>. QED
      BY <2>5, <2>6, <3>1, <3>3
  <2>10. t[a] \in Nat
    BY <2>4, <2>5, <2>7, <2>8, NotNegative
  <2>. QED
    BY <2>3, <2>9, <2>10
<1>3. Nat \subseteq K
  <2>. HIDE DEF K
  <2>. QED
    BY <1>1, <1>2, SetInduction
<1>4. \A a \in 1 .. n + 1 : /\ n + 1 - a \in Nat /\ n + 1 - a <= n
                            /\ n + 1 - (n + 1 - a) = a /\ n - (n + 1 - a) = a - 1
  BY <1>0
<1>. QED
  BY <1>3, <1>4

(* so the first axis on which two indices differ decides,                   *)
LEMMA TailsOrder ==
  ASSUME NEW w, NEW d, NEW n, Steps(w, d, n),
         NEW i \in Elements(d, n), NEW j \in Elements(d, n), NEW t, NEW u,
         Tails(t, i, w, n), Tails(u, j, w, n),
         NEW a \in 1 .. n, j[a] < i[a], \A b \in 1 .. a - 1 : j[b] = i[b]
  PROVE  u[1] < t[1]
<1>. DEFINE K == { k \in Nat : k < a => u[a - k] < t[a - k] }
<1>0. n \in Nat
  BY DEF Steps
<1>1. 0 \in K
  <2>1. t[a] = i[a] * w[a] + t[a + 1] /\ u[a] = j[a] * w[a] + u[a + 1]
    BY DEF Tails
  <2>2. /\ t[a + 1] \in Nat /\ u[a + 1] \in Nat /\ u[a + 1] < w[a]
    <3>1. a + 1 \in 1 .. n + 1 /\ (a + 1) - 1 = a
      BY <1>0
    <3>. QED
      BY <3>1, TailBound
  <2>3. i[a] \in Nat /\ j[a] \in Nat /\ w[a] \in Nat \ {0}
    <3>1. a \in 0 .. n
      BY <1>0
    <3>. QED
      BY <3>1, StepsPositive DEF Elements
  <2>4. PICK x, y, r, v \in Int : x = j[a] /\ y = i[a] /\ r = u[a + 1] /\ v = w[a]
    BY <2>2, <2>3
  <2>5. x * v + r < y * v
    <3>1. v > 0 /\ x < y /\ 0 <= r /\ r < v
      BY <2>2, <2>3, <2>4
    <3>. QED
      BY <3>1, Digit
  <2>6. u[a] < i[a] * w[a]
    BY <2>1, <2>4, <2>5
  <2>7. i[a] * w[a] \in Int /\ u[a] \in Int
    <3>1. u[a] \in Int
      BY <1>0 DEF Tails
    <3>. QED
      BY <2>3, <3>1, ProductTyped
  <2>8. u[a] < t[a]
    BY <2>1, <2>2, <2>6, <2>7
  <2>. QED
    BY <2>8
<1>2. ASSUME NEW k \in Nat, k \in K
      PROVE  k + 1 \in K
  <2>1. SUFFICES ASSUME k + 1 < a PROVE u[a - (k + 1)] < t[a - (k + 1)]
    OBVIOUS
  <2>2. PICK b \in 1 .. a - 1 : b = a - (k + 1)
    BY <2>1
  <2>3. b + 1 = a - k /\ k < a /\ b \in 1 .. n /\ b + 1 \in 1 .. n + 1
    BY <1>0, <2>1, <2>2
  <2>4. u[b + 1] < t[b + 1]
    BY <1>2, <2>3
  <2>5. t[b] = i[b] * w[b] + t[b + 1] /\ u[b] = i[b] * w[b] + u[b + 1]
    BY <2>3 DEF Tails
  <2>6. t[b + 1] \in Int /\ u[b + 1] \in Int
    BY <2>3 DEF Tails
  <2>7. i[b] * w[b] \in Int
    BY <2>3, ProductTyped DEF Elements, Steps
  <2>. QED
    BY <2>2, <2>4, <2>5, <2>6, <2>7
<1>3. Nat \subseteq K
  <2>. HIDE DEF K
  <2>. QED
    BY <1>1, <1>2, SetInduction
<1>4. a - 1 \in Nat /\ a - 1 < a /\ a - (a - 1) = 1
  OBVIOUS
<1>. QED
  BY <1>3, <1>4

(* and every number below the size of the tensor is some index's.            *)
LEMMA Reach ==
  ASSUME NEW w, NEW d, NEW n, Steps(w, d, n), NEW m \in Nat, m < w[0]
  PROVE  \E i \in Elements(d, n) : \E t : Tails(t, i, w, n) /\ t[1] = m
<1>. DEFINE K == { k \in Nat : k <= n => \A x \in Nat : x < w[n - k] =>
                     \E i \in Elements(d, n) : \E t : Tails(t, i, w, n) /\ t[n + 1 - k] = x }
<1>0. n \in Nat
  BY DEF Steps
<1>t. ASSUME NEW i \in Elements(d, n)
      PROVE  \E t : Tails(t, i, w, n)
  <2>1. \A a \in 1 .. n : i[a] \in Int
    BY DEF Elements
  <2>2. PICK f : f = [a \in 1 .. n |-> i[a] * w[a]]
    OBVIOUS
  <2>3. Terms(f, i, w, n)
    BY <2>1, <2>2 DEF Terms
  <2>. QED
    BY <2>3, TailsExist
<1>1. 0 \in K
  <2>1. PICK i \in Elements(d, n) : TRUE
    <3>1. [a \in 1 .. n |-> 0] \in Elements(d, n)
      BY DEF Elements, Steps
    <3>. QED
      BY <3>1
  <2>2. PICK t : Tails(t, i, w, n)
    BY <1>t
  <2>3. t[n + 1] = 0 /\ w[n] = 1 /\ n + 1 - 0 = n + 1 /\ n - 0 = n
    BY <1>0, <2>2 DEF Tails, Steps
  <2>4. \A x \in Nat : x < 1 => x = 0
    OBVIOUS
  <2>. QED
    BY <2>2, <2>3, <2>4
<1>2. ASSUME NEW k \in Nat, k \in K
      PROVE  k + 1 \in K
  <2>1. SUFFICES ASSUME k + 1 <= n, NEW x \in Nat, x < w[n - (k + 1)]
                 PROVE  \E i \in Elements(d, n) : \E t :
                          Tails(t, i, w, n) /\ t[n + 1 - (k + 1)] = x
    OBVIOUS
  <2>2. PICK b \in 1 .. n : b = n - k
    BY <1>0, <2>1
  <2>3. /\ n + 1 - (k + 1) = b /\ n - (k + 1) = b - 1 /\ n + 1 - k = b + 1 /\ k <= n
        /\ b \in 0 .. n
    BY <1>0, <2>1, <2>2
  <2>4. w[b - 1] = d[b] * w[b] /\ d[b] \in Nat \ {0} /\ w[b] \in Nat \ {0}
    BY <2>3, StepsPositive DEF Steps
  <2>5. PICK q \in Nat, r \in Nat : x = q * w[b] + r /\ r < w[b] /\ q < d[b]
    <3>1. PICK v \in Nat \ {0}, e \in Nat \ {0} : v = w[b] /\ e = d[b]
      BY <2>4
    <3>2. x < e * v
      BY <2>1, <2>3, <2>4, <3>1
    <3>3. /\ x \div v \in Nat /\ x % v \in Nat /\ x % v < v
          /\ x = ((x \div v) * v) + (x % v)
      BY DivMod
    <3>4. x \div v < e
      <4>1. SUFFICES ASSUME ~(x \div v < e) PROVE FALSE
        OBVIOUS
      <4>2. PICK l \in Nat : x \div v = e + l
        <5>1. (x \div v) - e \in Nat /\ x \div v = e + ((x \div v) - e)
          BY <3>3, <4>1
        <5>. QED
          BY <5>1
      <4>3. (e + l) * v = e * v + l * v /\ l * v \in Nat /\ e * v \in Nat
        OBVIOUS
      <4>. QED
        BY <3>2, <3>3, <4>2, <4>3
    <3>. QED
      BY <3>1, <3>3, <3>4
  <2>i. PICK i \in Elements(d, n) : \E t : Tails(t, i, w, n) /\ t[b + 1] = r
    BY <1>2, <2>2, <2>3, <2>5
  <2>6. PICK t : Tails(t, i, w, n) /\ t[b + 1] = r
    BY <2>i
  <2>7. PICK j : j = [i EXCEPT ![b] = q]
    OBVIOUS
  <2>8. j \in Elements(d, n) /\ j[b] = q /\ \A a \in b + 1 .. n : j[a] = i[a]
    BY <2>5, <2>7 DEF Elements
  <2>9. PICK u : Tails(u, j, w, n)
    BY <1>t, <2>8
  <2>10. u[b + 1] = t[b + 1]
    <3>1. b + 1 \in b + 1 .. n + 1
      BY <1>0
    <3>2. \A a \in b + 1 .. n + 1 : u[a] = t[a]
      BY <2>3, <2>6, <2>8, <2>9, TailsAgree
    <3>. QED
      BY <3>1, <3>2
  <2>11. u[b] = j[b] * w[b] + u[b + 1]
    BY <2>9 DEF Tails
  <2>12. u[b] = x
    BY <2>5, <2>6, <2>8, <2>10, <2>11
  <2>. QED
    BY <2>3, <2>8, <2>9, <2>12
<1>3. Nat \subseteq K
  <2>. HIDE DEF K
  <2>. QED
    BY <1>1, <1>2, SetInduction
<1>4. n \in K /\ n - n = 0 /\ n + 1 - n = 1
  BY <1>0, <1>3
<1>. QED
  BY <1>0, <1>4

(* Of two indices one comes first.                                          *)
LEMMA FirstDifference ==
  ASSUME NEW n \in Nat, NEW i \in [1 .. n -> Nat], NEW j \in [1 .. n -> Nat], i # j
  PROVE  \E a \in 1 .. n : i[a] # j[a] /\ \A b \in 1 .. a - 1 : i[b] = j[b]
<1>. DEFINE S == { a \in 1 .. n : i[a] # j[a] }
<1>1. S # {} /\ S \in SUBSET Nat
  OBVIOUS
<1>. HIDE DEF S
<1>2. PICK a \in S : \A b \in S : a <= b
  BY <1>1, MinIs
<1>3. a \in 1 .. n /\ i[a] # j[a]
  BY DEF S
<1>4. \A b \in 1 .. a - 1 : i[b] = j[b]
  <2>. TAKE b \in 1 .. a - 1
  <2>1. b \in 1 .. n /\ ~(a <= b)
    BY <1>3
  <2>. QED
    BY <1>2, <2>1 DEF S
<1>. QED
  BY <1>3, <1>4

(* Row-major order is the order of what indices add up to, which tells them   *)
(* apart.                                                                   *)
LEMMA BeforeIs ==
  ASSUME NEW w, NEW d, NEW n, Steps(w, d, n),
         NEW i \in Elements(d, n), NEW j \in Elements(d, n), NEW t, NEW u,
         Tails(t, i, w, n), Tails(u, j, w, n)
  PROVE  /\ Before(j, i) <=> u[1] < t[1]
         /\ u[1] = t[1] => j = i
<1>0. n \in Nat /\ i \in [1 .. n -> Nat] /\ j \in [1 .. n -> Nat]
      /\ t[1] \in Int /\ u[1] \in Int
  <2>1. n \in Nat /\ i \in [1 .. n -> Nat] /\ j \in [1 .. n -> Nat]
    BY DEF Steps, Elements
  <2>2. 1 \in 1 .. n + 1
    BY <2>1
  <2>. QED
    BY <2>1, <2>2 DEF Tails
<1>1. ASSUME Before(j, i) PROVE u[1] < t[1]
  <2>1. PICK a \in 1 .. n : j[a] < i[a] /\ \A b \in 1 .. a - 1 : j[b] = i[b]
    BY <1>0, <1>1 DEF Before
  <2>. QED
    BY <2>1, TailsOrder
<1>2. ASSUME Before(i, j) PROVE t[1] < u[1]
  <2>1. PICK a \in 1 .. n : i[a] < j[a] /\ \A b \in 1 .. a - 1 : i[b] = j[b]
    BY <1>0, <1>2 DEF Before
  <2>. QED
    BY <2>1, TailsOrder
<1>3. ASSUME i # j PROVE Before(i, j) \/ Before(j, i)
  <2>1. PICK a \in 1 .. n : i[a] # j[a] /\ \A b \in 1 .. a - 1 : i[b] = j[b]
    BY <1>0, <1>3, FirstDifference
  <2>2. i[a] < j[a] \/ j[a] < i[a]
    BY <1>0, <2>1
  <2>3. DOMAIN i = 1 .. n /\ DOMAIN j = 1 .. n
    BY <1>0
  <2>. QED
    BY <2>1, <2>2, <2>3 DEF Before
<1>4. i = j => t[1] = u[1]
  <2>. HAVE i = j
  <2>1. \A a \in 1 .. n + 1 : t[a] = u[a]
    <3>1. PICK b \in 0 .. n : b = 0
      BY <1>0
    <3>2. \A a \in b + 1 .. n + 1 : t[a] = u[a]
      BY TailsAgree
    <3>. QED
      BY <3>1, <3>2
  <2>2. 1 \in 1 .. n + 1
    BY <1>0
  <2>. QED
    BY <2>1, <2>2
<1>5. CASE i = j
  BY <1>0, <1>1, <1>4, <1>5
<1>6. CASE i # j
  BY <1>0, <1>1, <1>2, <1>3, <1>6
<1>. QED
  BY <1>5, <1>6

(* The indices before one are then as many as the numbers below its own.     *)
Offsets(off, w, d, n) ==
  \A j \in Elements(d, n) : \E t : Tails(t, j, w, n) /\ t[1] = off[j]

Preceding(i, d, n) == { j \in Elements(d, n) : Before(j, i) }

LEMMA Counted ==
  ASSUME NEW w, NEW d, NEW n, Steps(w, d, n), NEW off, Offsets(off, w, d, n),
         NEW i \in Elements(d, n)
  PROVE  off[i] = Cardinality(Preceding(i, d, n))
<1>. DEFINE B == { j \in Elements(d, n) : Before(j, i) }
            T == 0 .. off[i] - 1
            F == [j \in B |-> off[j]]
<1>0. n \in Nat /\ 1 \in 1 .. n + 1 /\ 1 - 1 = 0
  BY DEF Steps
<1>1. \A j \in Elements(d, n) : off[j] \in Nat /\ off[j] < w[0]
  <2>. TAKE j \in Elements(d, n)
  <2>1. PICK t : Tails(t, j, w, n) /\ t[1] = off[j]
    BY DEF Offsets
  <2>. QED
    BY <1>0, <2>1, TailBound
<1>2. \A j, k \in Elements(d, n) :
        (Before(j, k) <=> off[j] < off[k]) /\ (off[j] = off[k] => j = k)
  <2>. TAKE j, k \in Elements(d, n)
  <2>1. PICK u : Tails(u, j, w, n) /\ u[1] = off[j]
    BY DEF Offsets
  <2>2. PICK t : Tails(t, k, w, n) /\ t[1] = off[k]
    BY DEF Offsets
  <2>. QED
    BY <2>1, <2>2, BeforeIs
<1>3. \A j \in B : off[j] \in T
  BY <1>1, <1>2
<1>4. \A x \in T : \E j \in B : off[j] = x
  <2>. TAKE x \in T
  <2>1. x \in Nat /\ x < off[i] /\ x < w[0]
    <3>1. off[i] \in Nat /\ off[i] < w[0]
      BY <1>1
    <3>2. w[0] \in Nat
      BY <1>0, StepsPositive
    <3>. QED
      BY <3>1, <3>2
  <2>j. PICK j \in Elements(d, n) : \E t : Tails(t, j, w, n) /\ t[1] = x
    BY <2>1, Reach
  <2>2. PICK t : Tails(t, j, w, n) /\ t[1] = x
    BY <2>j
  <2>3. off[j] = x
    <3>1. PICK u : Tails(u, j, w, n) /\ u[1] = off[j]
      BY DEF Offsets
    <3>2. u[1] = t[1]
      <4>1. PICK b \in 0 .. n : b = 0
        BY <1>0
      <4>2. \A a \in b + 1 .. n + 1 : u[a] = t[a]
        BY <2>2, <3>1, TailsAgree
      <4>. QED
        BY <1>0, <4>1, <4>2
    <3>. QED
      BY <2>2, <3>1, <3>2
  <2>. QED
    BY <1>2, <2>1, <2>3
<1>5. F \in Bijection(B, T)
  <2>1. F \in [B -> T]
    BY <1>3
  <2>2. \A j, k \in B : F[j] = F[k] => j = k
    BY <1>2
  <2>3. \A x \in T : \E j \in B : F[j] = x
    BY <1>4
  <2>. HIDE DEF F, B, T
  <2>. QED
    BY <2>1, <2>2, <2>3, Fun_IsBij
<1>6. IsFiniteSet(T) /\ Cardinality(T) = off[i]
  <2>1. off[i] \in Nat /\ off[i] - 1 \in Int /\ 0 \in Int
    BY <1>1
  <2>2. IsFiniteSet(T) /\ Cardinality(T) = IF 0 > off[i] - 1 THEN 0 ELSE (off[i] - 1) - 0 + 1
    BY <2>1, FS_Interval
  <2>. QED
    BY <2>1, <2>2
<1>7. Cardinality(B) = Cardinality(T)
  <2>. HIDE DEF F, B, T
  <2>1. ExistsBijection(B, T)
    BY <1>5 DEF ExistsBijection
  <2>2. ExistsBijection(T, B)
    BY <2>1, Fun_ExistsBijSymmetric
  <2>. QED
    BY <1>6, <2>2, FS_Bijection
<1>. QED
  BY <1>6, <1>7 DEF Preceding

(* The greatest of some extents.                                            *)
LEMMA MaxIs ==
  ASSUME NEW dims \in Seq(Int), Len(dims) # 0
  PROVE  /\ Max(Range(dims)) \in Range(dims)
         /\ \A a \in 1 .. Len(dims) : dims[a] <= Max(Range(dims))
<1>. DEFINE K == { k \in Nat : k # 0 /\ k <= Len(dims) =>
                     \E a \in 1 .. k : \A b \in 1 .. k : dims[b] <= dims[a] }
<1>0. Len(dims) \in Nat /\ DOMAIN dims = 1 .. Len(dims) /\ \A a \in 1 .. Len(dims) : dims[a] \in Int
  BY LenProperties
<1>1. 0 \in K
  OBVIOUS
<1>2. ASSUME NEW k \in Nat, k \in K
      PROVE  k + 1 \in K
  <2>1. SUFFICES ASSUME k + 1 <= Len(dims)
                 PROVE  \E a \in 1 .. k + 1 : \A b \in 1 .. k + 1 : dims[b] <= dims[a]
    OBVIOUS
  <2>2. CASE k = 0
    <3>1. \A b \in 1 .. k + 1 : b = 1 /\ dims[b] <= dims[1] /\ 1 \in 1 .. k + 1
      BY <1>0, <2>1, <2>2
    <3>. QED
      BY <2>2, <3>1
  <2>3. CASE k # 0
    <3>1. PICK a \in 1 .. k : \A b \in 1 .. k : dims[b] <= dims[a]
      BY <1>0, <1>2, <2>1, <2>3
    <3>2. /\ a \in 1 .. k + 1 /\ k + 1 \in 1 .. k + 1
          /\ \A b \in 1 .. k + 1 : b \in 1 .. k \/ b = k + 1
          /\ dims[a] \in Int /\ dims[k + 1] \in Int
          /\ \A b \in 1 .. k : dims[b] \in Int
      BY <1>0, <2>1
    <3>3. CASE dims[k + 1] <= dims[a]
      BY <3>1, <3>2, <3>3
    <3>4. CASE ~(dims[k + 1] <= dims[a])
      <4>1. \A b \in 1 .. k + 1 : dims[b] <= dims[k + 1]
        BY <3>1, <3>2, <3>4
      <4>. QED
        BY <3>2, <4>1
    <3>. QED
      BY <3>3, <3>4
  <2>. QED
    BY <2>2, <2>3
<1>3. Nat \subseteq K
  <2>. HIDE DEF K
  <2>. QED
    BY <1>1, <1>2, SetInduction
<1>4. PICK a \in 1 .. Len(dims) : \A b \in 1 .. Len(dims) : dims[b] <= dims[a]
  <2>1. Len(dims) \in K
    BY <1>0, <1>3
  <2>. QED
    BY <1>0, <2>1
<1>5. dims[a] \in Range(dims) /\ \A y \in Range(dims) : dims[a] >= y /\ y \in Int
  BY <1>0, <1>4 DEF Range
<1>6. Max(Range(dims)) \in Range(dims) /\ \A y \in Range(dims) : Max(Range(dims)) >= y
  BY <1>5 DEF Max
<1>7. Max(Range(dims)) \in Int /\ \A b \in 1 .. Len(dims) : dims[b] \in Range(dims)
  BY <1>0, <1>5, <1>6 DEF Range
<1>. QED
  BY <1>0, <1>6, <1>7

(* A tensor with extents above 0 has these elements, any other one none.      *)
LEMMA IndicesAre ==
  ASSUME NEW dims \in Seq(Int), \A a \in 1 .. Len(dims) : dims[a] > 0
  PROVE  Indices(dims) = Elements(dims, Len(dims))
<1>0. Len(dims) \in Nat /\ DOMAIN dims = 1 .. Len(dims) /\ \A a \in 1 .. Len(dims) : dims[a] \in Int
  BY LenProperties
<1>1. \A i \in Indices(dims) : i \in Elements(dims, Len(dims))
  BY <1>0 DEF Indices, Elements
<1>2. ASSUME NEW i \in Elements(dims, Len(dims))
      PROVE  i \in Indices(dims)
  <2>1. ASSUME NEW a \in 1 .. Len(dims)
        PROVE  i[a] \in 0 .. Max(Range(dims))
    <3>1. Len(dims) # 0
      BY <1>0
    <3>2. dims[a] <= Max(Range(dims)) /\ Max(Range(dims)) \in Range(dims)
      BY <3>1, MaxIs
    <3>3. Max(Range(dims)) \in Int
      BY <1>0, <3>2 DEF Range
    <3>4. i[a] \in Nat /\ i[a] < dims[a]
      BY DEF Elements
    <3>. QED
      BY <1>0, <3>2, <3>3, <3>4
  <2>. QED
    BY <1>0, <2>1 DEF Indices, Elements
<1>. QED
  BY <1>1, <1>2

LEMMA NoIndices ==
  ASSUME NEW dims \in Seq(Int), NEW a \in 1 .. Len(dims), ~(dims[a] > 0)
  PROVE  Indices(dims) = {}
<1>0. a \in DOMAIN dims /\ dims[a] \in Int
  BY LenProperties
<1>1. \A i \in Indices(dims) : i[a] \in Int /\ i[a] >= 0 /\ i[a] < dims[a]
  BY <1>0 DEF Indices
<1>. QED
  BY <1>0, <1>1

(* Strides that multiply the extents behind an axis address the elements of   *)
(* a tensor in row-major order without a gap.                               *)
LEMMA ProductsPack ==
  ASSUME NEW dims \in Seq(Int), NEW e,
         \A b \in 1 .. Len(dims) : e[b] = IF dims[b] > 0 THEN dims[b] ELSE 1,
         NEW strides, \A a \in 1 .. Len(dims) : strides[a] = Product(e, a + 1 .. Len(dims)),
         NEW i \in Indices(dims)
  PROVE  Offset(i, strides) = Cardinality({ j \in Indices(dims) : Before(j, i) })
<1>. DEFINE n == Len(dims)
<1>0. n \in Nat /\ DOMAIN dims = 1 .. n /\ \A a \in 1 .. n : dims[a] \in Int
  BY LenProperties
<1>1. \A a \in 1 .. n : dims[a] > 0
  BY NoIndices
<1>2. \A a \in 1 .. n : e[a] = dims[a]
  BY <1>1
<1>3. Indices(dims) = Elements(dims, n)
  BY <1>1, IndicesAre
<1>. HIDE DEF n
<1>4. IntsOn(e, 1 .. n)
  BY <1>0, <1>2 DEF IntsOn
<1>5. PICK w : Behind(w, e, n)
  BY <1>0, <1>4, ProductTails
<1>6. Steps(w, dims, n)
  <2>1. dims \in [1 .. n -> Nat \ {0}]
    <3>1. dims \in [1 .. n -> Int]
      BY LenProperties DEF n
    <3>2. \A a \in 1 .. n : dims[a] \in Nat \ {0}
      BY <1>0, <1>1
    <3>. QED
      BY <3>1, <3>2
  <2>2. \A a \in 1 .. n : w[a - 1] = dims[a] * w[a]
    BY <1>2, <1>5 DEF Behind
  <2>. QED
    BY <1>0, <1>5, <2>1, <2>2 DEF Steps, Behind
<1>7. \A a \in 1 .. n : strides[a] = w[a]
  <2>1. \A a \in 1 .. n : a \in 0 .. n
    BY <1>0
  <2>. QED
    BY <1>5, <2>1 DEF n, Behind
<1>8. ASSUME NEW j \in Elements(dims, n)
      PROVE  \E t : Tails(t, j, w, n) /\ t[1] = Offset(j, strides)
  <2>1. DOMAIN j = 1 .. n /\ \A a \in 1 .. n : j[a] \in Int
    BY DEF Elements
  <2>2. PICK f : f = [a \in DOMAIN j |-> j[a] * strides[a]]
    OBVIOUS
  <2>3. Offset(j, strides) = Sum(f, 1 .. n)
    <3>1. DOMAIN f = 1 .. n
      BY <2>1, <2>2
    <3>2. Offset(j, strides) = Sum(f, DOMAIN f)
      BY <2>2 DEF Offset, FoldFunction, FoldFunctionOnSet, MapThenFoldSet, Sum
    <3>. QED
      BY <3>1, <3>2
  <2>4. Terms(f, j, w, n)
    BY <1>7, <2>1, <2>2 DEF Terms
  <2>. QED
    BY <1>6, <2>3, <2>4, TailsExist
<1>9. PICK off : off = [j \in Elements(dims, n) |-> Offset(j, strides)]
  OBVIOUS
<1>10. Offsets(off, w, dims, n)
  BY <1>8, <1>9 DEF Offsets
<1>11. off[i] = Cardinality(Preceding(i, dims, n))
  BY <1>3, <1>6, <1>10, Counted
<1>12. Preceding(i, dims, n) = { j \in Indices(dims) : Before(j, i) }
  BY <1>3 DEF Preceding
<1>. QED
  BY <1>3, <1>9, <1>11, <1>12

(* getTensorStrides of a tensor that fits a Dims.                            *)
LEMMA StridesAre ==
  ASSUME NEW name, NEW dims \in Seq(Int), Len(dims) <= MaxDims,
         getTensorShape(name) = to_dims(dims)
  PROVE  /\ DOMAIN getTensorStrides(name) = DOMAIN dims
         /\ \A i \in Indices(dims) :
              Offset(i, getTensorStrides(name)) = Cardinality({ j \in Indices(dims) : Before(j, i) })
<1>. DEFINE v == to_dims(dims)
            e == [b \in DOMAIN v.d |-> IF v.d[b] > 0 THEN v.d[b] ELSE 1]
            strides == getTensorStrides(name)
<1>0. Len(dims) \in Nat /\ DOMAIN dims = 1 .. Len(dims) /\ MaxDims \in Nat
  BY MaxDimsAssumption, LenProperties
<1>1. v.nbDims = Len(dims) /\ DOMAIN v.d = 1 .. MaxDims /\ \A b \in 1 .. Len(dims) : v.d[b] = dims[b]
  BY <1>0 DEF to_dims
<1>2. strides = [a \in 1 .. v.nbDims |-> Product(e, a + 1 .. v.nbDims)]
  BY DEF getTensorStrides, Product, FoldFunctionOnSet, MapThenFoldSet
<1>3. \A b \in 1 .. Len(dims) : e[b] = IF dims[b] > 0 THEN dims[b] ELSE 1
  BY <1>0, <1>1
<1>. HIDE DEF v, e
<1>4. DOMAIN strides = 1 .. Len(dims)
      /\ \A a \in 1 .. Len(dims) : strides[a] = Product(e, a + 1 .. Len(dims))
  BY <1>1, <1>2
<1>. HIDE DEF strides
<1>5. \A i \in Indices(dims) :
        Offset(i, strides) = Cardinality({ j \in Indices(dims) : Before(j, i) })
  BY <1>3, <1>4, ProductsPack
<1>. QED
  BY <1>0, <1>4, <1>5 DEF strides

-----------------------------------------------------------------------------
(***************************************************************************)
(* The strides of a context.                                                *)
(***************************************************************************)

(* The tensors of a model have no more axes than a Dims holds, and a client   *)
(* sets the shapes of inputs.                                               *)
RanksFit ==
  \A g \in Graphs :
    /\ \A n \in DOMAIN g.inputs : Len(g.inputs[n]) <= MaxDims
    /\ \A k \in DOMAIN g.outputs : Len(g.outputs[k].dims) <= MaxDims
ShapesOfInputs ==
  \A call \in ShapeCalls : \A g \in Graphs : \A k \in DOMAIN g.outputs :
    call[1] # g.outputs[k].name

(* Then no shape is ever set for an output.                                 *)
OutputsUnset == \A k \in DOMAIN graph.outputs : shapes[graph.outputs[k].name] = Null

LEMMA UnsetInit == SInv /\ Init => OutputsUnset
  BY GraphTyped, OutputTyped DEF SInv, Typed, Init, OutputsUnset

LEMMA UnsetStep ==
  ASSUME ShapesOfInputs, SInv, OutputsUnset, [Next]_vars
  PROVE  OutputsUnset'
<1>1. graph \in Graphs /\ DOMAIN shapes = Tensors
  BY DEF SInv, Typed
<1>2. ASSUME NEW call \in ShapeCalls, SetInputShape(call[1], call[2])
      PROVE  OutputsUnset'
  <2>1. \A k \in DOMAIN graph.outputs :
          graph.outputs[k].name \in Tensors /\ graph.outputs[k].name # call[1]
    BY <1>1, OutputTyped DEF ShapesOfInputs
  <2>. QED
    BY <1>1, <1>2, <2>1 DEF SetInputShape, OutputsUnset
<1>3. CASE UNCHANGED << graph, shapes >>
  BY <1>3 DEF OutputsUnset
<1>4. Next => \/ \E call \in ShapeCalls : SetInputShape(call[1], call[2])
              \/ UNCHANGED << graph, shapes >>
  BY DEF Next, SetDimensions, Build, SetTensorAddress, enqueueV3, executeV2, run
<1>. QED
  BY <1>2, <1>3, <1>4 DEF vars

(* A run of an input with the shape its context reports.                     *)
LEMMA InputShape ==
  ASSUME SInv, RanksFit, Accepted, SingleAxis, NEW n \in DOMAIN graph.inputs,
         Free \notin Range(getTensorShape(n).d)
  PROVE  /\ last.ins[n] \in Seq(Int) /\ Len(last.ins[n]) <= MaxDims
         /\ getTensorShape(n) = to_dims(last.ins[n])
<1>. DEFINE r == Reported(n)
<1>1. engine # Null /\ graph \in Graphs /\ Built /\ Typed /\ n \in Tensors
  BY GraphTyped DEF SInv, Typed, Ran
<1>2. /\ DOMAIN engine.params[n] = DOMAIN graph.inputs[n]
      /\ DOMAIN r = DOMAIN graph.inputs[n] /\ r \in Seq(Int)
  <2>1. engine.params = [m \in DOMAIN graph.inputs |-> Parameter(m, dynamicAxis)]
        /\ r = Marked(InTensor(n)).dims
    BY <1>1, IosAre, ReportedAre
  <2>2. DOMAIN engine.params[n] = DOMAIN graph.inputs[n]
    BY <2>1 DEF Parameter
  <2>3. InTensor(n) \in IO /\ InTensor(n).dir = "input" /\ InTensor(n).dims = PinnedInputs[n]
        /\ DOMAIN PinnedInputs[n] = DOMAIN graph.inputs[n]
    BY <1>1, TensorsTyped, PinnedTyped DEF InTensor, IOTensor
  <2>4. DOMAIN Marked(InTensor(n)).dims = DOMAIN InTensor(n).dims
    BY <2>3, MarkedIs
  <2>5. Marked(InTensor(n)).dims \in Seq(Int)
    BY <2>3, MarkedIs DEF IO, Dims
  <2>. QED
    BY <2>1, <2>2, <2>3, <2>4, <2>5
<1>3. /\ graph.inputs[n] \in Seq({Free} \cup Extent)
      /\ Len(graph.inputs[n]) <= MaxDims /\ Len(graph.inputs[n]) \in Nat
      /\ DOMAIN graph.inputs[n] = 1 .. Len(graph.inputs[n])
  <2>1. graph.inputs[n] \in Seq({Free} \cup Extent)
    BY <1>1, GraphTyped
  <2>2. Len(graph.inputs[n]) <= MaxDims
    BY <1>1 DEF RanksFit
  <2>. QED
    BY <2>1, <2>2, LenProperties
<1>4. /\ last.ins[n] = [a \in DOMAIN engine.params[n] |-> last.ins[n][a]]
      /\ \A a \in DOMAIN engine.params[n] : last.ins[n][a] \in engine.params[n][a]
      /\ shapes[n] # Null => last.ins[n] = shapes[n]
  BY ArgumentTyped
<1>. HIDE DEF r
<1>5. CASE shapes[n] # Null
  <2>. DEFINE s == shapes[n]
  <2>1. s \in Seq(Int) /\ last.ins[n] = s
    BY <1>1, <1>4, <1>5 DEF Typed, Dims
  <2>2. getTensorShape(n) = to_dims(s)
    BY <1>5 DEF getTensorShape
  <2>3. DOMAIN s = DOMAIN graph.inputs[n]
    BY <1>2, <1>4, <2>1
  <2>. HIDE DEF s
  <2>4. Len(s) = Len(graph.inputs[n])
    BY <1>3, <2>1, <2>3, LenProperties
  <2>. QED
    BY <1>3, <2>1, <2>2, <2>4
<1>6. CASE shapes[n] = Null
  <2>1. getTensorShape(n) = to_dims(r)
    BY <1>6 DEF getTensorShape, r
  <2>2. Len(r) = Len(graph.inputs[n]) /\ DOMAIN r = 1 .. Len(r)
    BY <1>2, <1>3, LenProperties
  <2>3. ASSUME NEW a \in DOMAIN r
        PROVE  r[a] # Free
    <3>1. a \in 1 .. MaxDims /\ a <= Len(r)
      BY <1>3, <2>2, MaxDimsAssumption
    <3>2. to_dims(r).d[a] = r[a] /\ a \in DOMAIN to_dims(r).d
      BY <3>1 DEF to_dims
    <3>3. r[a] \in Range(to_dims(r).d)
      BY <3>2 DEF Range
    <3>. QED
      BY <2>1, <3>3
  <2>4. ASSUME NEW a \in DOMAIN graph.inputs[n]
        PROVE  last.ins[n][a] = r[a]
    <3>1. << n, a >> \notin ProfiledAxes
      BY <1>1, <1>2, <2>3, EngineAxis DEF r
    <3>2. r[a] = PinnedInputs[n][a] /\ engine.params[n][a] = { PinnedInputs[n][a] }
      BY <1>1, <3>1, EngineAxis DEF r
    <3>. QED
      BY <1>2, <1>4, <3>2
  <2>5. last.ins[n] = r
    <3>1. r = [a \in DOMAIN r |-> r[a]]
      BY <1>2
    <3>. QED
      BY <1>2, <1>4, <2>4, <3>1
  <2>. QED
    BY <1>2, <1>3, <2>1, <2>2, <2>5
<1>. QED
  BY <1>5, <1>6

(* Without an open axis an output has the pinned extents.                    *)
LEMMA OutputPinned ==
  ASSUME SInv, Accepted, SingleAxis, ProfiledAxes = {}, NEW k \in DOMAIN graph.outputs
  PROVE  OutputDims(k, last.ins) = OutputDims(k, PinnedInputs)
<1>. DEFINE d == graph.outputs[k].dims
            e(a, ins) == IF d[a][1] = "" THEN d[a][2] ELSE ins[d[a][1]][d[a][2]]
<1>1. engine # Null /\ graph \in Graphs
  BY DEF SInv, Typed, Ran
<1>2. \A n \in DOMAIN graph.inputs : \A a \in DOMAIN graph.inputs[n] :
        last.ins[n][a] = PinnedInputs[n][a]
  <2>. TAKE n \in DOMAIN graph.inputs
  <2>. TAKE a \in DOMAIN graph.inputs[n]
  <2>1. DOMAIN engine.params[n] = DOMAIN graph.inputs[n]
        /\ engine.params[n][a] = { PinnedInputs[n][a] }
    BY <1>1, EngineAxis
  <2>2. last.ins[n][a] \in engine.params[n][a]
    BY <2>1, ArgumentTyped
  <2>. QED
    BY <2>1, <2>2
<1>3. \A a \in DOMAIN d :
        d[a][1] = "" \/ (d[a][1] \in DOMAIN graph.inputs /\ d[a][2] \in DOMAIN graph.inputs[d[a][1]])
  BY <1>1, OutputTyped
<1>4. \A a \in DOMAIN d : e(a, last.ins) = e(a, PinnedInputs)
  BY <1>2, <1>3
<1>5. \A ins : OutputDims(k, ins) = [a \in DOMAIN d |-> e(a, ins)]
  BY DEF OutputDims
<1>. HIDE DEF e, d
<1>. QED
  BY <1>4, <1>5

(* A run of an output with the shape its context reports: an engine with an   *)
(* open axis leaves the first axis of every output open, unless it has none.  *)
LEMMA OutputShape ==
  ASSUME SInv, RanksFit, OutputsUnset, Accepted, SingleAxis, NEW k \in DOMAIN graph.outputs,
         Free \notin Range(getTensorShape(graph.outputs[k].name).d)
  PROVE  LET dims == OutputDims(k, last.ins)
         IN  /\ dims \in Seq(Int) /\ Len(dims) <= MaxDims
             /\ getTensorShape(graph.outputs[k].name) = to_dims(dims)
<1>. DEFINE d == graph.outputs[k].dims
            q == OutputDims(k, PinnedInputs)
            r == Reported(graph.outputs[k].name)
<1>1. engine # Null /\ graph \in Graphs /\ Built /\ Typed
  BY DEF SInv, Typed, Ran
<1>2. d \in Seq(Axes(graph)) /\ DOMAIN d = 1 .. Len(d) /\ Len(d) \in Nat /\ Len(d) <= MaxDims
  BY <1>1, OutputTyped DEF RanksFit
<1>3. q \in Seq(Nat) /\ DOMAIN q = DOMAIN d /\ DOMAIN OutputDims(k, last.ins) = DOMAIN d
  BY <1>1, OutputDimsTyped DEF OutputDims
<1>4. OutTensor(k) \in IO /\ OutTensor(k).dims = q /\ OutTensor(k).dir = "output"
      /\ r = Marked(OutTensor(k)).dims
  <2>1. OutTensor(k) \in IO
    BY <1>1, TensorsTyped
  <2>2. r = Marked(OutTensor(k)).dims
    BY <1>1, ReportedAre
  <2>. QED
    BY <2>1, <2>2 DEF OutTensor, IOTensor
<1>5. getTensorShape(graph.outputs[k].name) = to_dims(r)
  BY DEF getTensorShape, OutputsUnset
<1>. HIDE DEF d
<1>6. Len(q) = Len(d) /\ q \in Seq(Int)
  <2>. HIDE DEF q
  <2>1. Len(q) = Len(d)
    BY <1>2, <1>3, LenProperties
  <2>2. \A s \in Seq(Nat) : s \in Seq(Int)
    OBVIOUS
  <2>. QED
    BY <1>3, <2>1, <2>2
<1>7. CASE dynamicAxis = Null
  <2>1. r = q
    BY <1>4, <1>7, MarkedIs
  <2>2. ProfiledAxes = {}
    BY <1>1, <1>7, DynamicAxisIs
  <2>3. OutputDims(k, last.ins) = q
    BY <2>2, OutputPinned
  <2>. HIDE DEF q, r
  <2>. QED
    BY <1>2, <1>5, <1>6, <2>1, <2>3
<1>8. CASE dynamicAxis # Null /\ q # << >>
  <2>1. r = [q EXCEPT ![1] = Free]
    BY <1>4, <1>8, MarkedIs
  <2>. HIDE DEF q, r
  <2>2. Len(q) # 0
    BY <1>3, <1>8, EmptySeq
  <2>3. 1 \in DOMAIN q /\ 1 \in 1 .. MaxDims
    BY <1>2, <1>3, <1>6, <2>2, MaxDimsAssumption
  <2>4. r[1] = Free /\ Len(r) = Len(q) /\ 1 <= Len(r)
    <3>1. r[1] = Free
      BY <2>1, <2>3
    <3>2. r \in Seq(Int) /\ DOMAIN r = DOMAIN q
      <4>1. Marked(OutTensor(k)) \in IO
        BY <1>4, MarkedIs
      <4>. QED
        BY <1>4, <2>1, <4>1 DEF IO, Dims
    <3>3. Len(r) = Len(q)
      BY <1>6, <3>2, LenProperties
    <3>. QED
      BY <1>2, <1>6, <2>2, <3>1, <3>3
  <2>5. to_dims(r).d[1] = Free /\ 1 \in DOMAIN to_dims(r).d
    BY <2>3, <2>4 DEF to_dims
  <2>6. Free \in Range(to_dims(r).d)
    BY <2>5 DEF Range
  <2>. QED
    BY <1>5, <2>6
<1>9. CASE dynamicAxis # Null /\ q = << >>
  <2>1. r = q
    BY <1>4, <1>9, MarkedIs
  <2>2. DOMAIN d = {}
    BY <1>3, <1>9
  <2>3. OutputDims(k, last.ins) = q
    BY <2>2 DEF OutputDims, d
  <2>. HIDE DEF q, r
  <2>. QED
    BY <1>2, <1>5, <1>6, <2>1, <2>3
<1>. QED
  BY <1>7, <1>8, <1>9

(* The strides that a context reports address the elements of the tensor that *)
(* was run, in row-major order and without a gap, unless an axis of the shape *)
(* it reports is still open.                                                *)
THEOREM StridesAddress ==
  ASSUME RanksFit, ShapesOfInputs
  PROVE  Spec => []StridesPacked
<1>1. Init => SInv /\ OutputsUnset
  BY InitInv, UnsetInit
<1>2. SInv /\ OutputsUnset /\ [Next]_vars => (SInv /\ OutputsUnset)'
  BY InvStep, UnsetStep
<1>3. SInv /\ OutputsUnset => StridesPacked
  <2>. SUFFICES ASSUME SInv, OutputsUnset, Accepted, SingleAxis, NEW io \in Range(engine.ios),
                       Free \notin Range(getTensorShape(io.name).d)
                PROVE  LET dims == IF io.dir = "input" THEN last.ins[io.name]
                                   ELSE LET k == CHOOSE k \in DOMAIN graph.outputs :
                                                   graph.outputs[k].name = io.name
                                        IN  last.outs[k].dims
                           strides == getTensorStrides(io.name)
                       IN  /\ DOMAIN strides = DOMAIN dims
                           /\ \A i \in Indices(dims) :
                                Offset(i, strides)
                                  = Cardinality({ j \in Indices(dims) : Before(j, i) })
    BY DEF StridesPacked
  <2>1. /\ graph \in Graphs /\ Built /\ engine # Null
        /\ last.outs = [i \in DOMAIN Outputs |->
                          [ptr |-> last.ptrs[Outputs[i].name], dims |-> OutputDims(i, last.ins)]]
    BY DEF SInv, Typed, Ran
  <2>2. \/ \E n \in DOMAIN graph.inputs : io = Marked(InTensor(n))
        \/ \E k \in DOMAIN graph.outputs : io = Marked(OutTensor(k))
    BY <2>1, TensorsListed
  <2>3. ASSUME NEW n \in DOMAIN graph.inputs, io = Marked(InTensor(n))
        PROVE  io.name = n /\ io.dir = "input"
    BY <2>1, <2>3, DirsOfTensors
  <2>4. ASSUME NEW k \in DOMAIN graph.outputs, io = Marked(OutTensor(k))
        PROVE  /\ io.name = graph.outputs[k].name /\ io.dir = "output"
               /\ (CHOOSE l \in DOMAIN graph.outputs : graph.outputs[l].name = io.name) = k
               /\ last.outs[k].dims = OutputDims(k, last.ins)
    <3>1. io.name = graph.outputs[k].name /\ io.dir = "output"
      BY <2>1, <2>4, DirsOfTensors
    <3>2. \A l \in DOMAIN graph.outputs : graph.outputs[l].name = graph.outputs[k].name => l = k
      BY <2>1, GraphTyped
    <3>3. (CHOOSE l \in DOMAIN graph.outputs : graph.outputs[l].name = io.name) = k
      BY <3>1, <3>2
    <3>4. k \in DOMAIN Outputs
      BY <2>1, OutputsAre
    <3>5. last.outs[k].dims = OutputDims(k, last.ins)
      BY <2>1, <3>4
    <3>. QED
      BY <3>1, <3>3, <3>5
  <2>5. CASE \E n \in DOMAIN graph.inputs : io = Marked(InTensor(n))
    <3>1. PICK n \in DOMAIN graph.inputs : io = Marked(InTensor(n))
      BY <2>5
    <3>2. io.name = n /\ io.dir = "input"
      BY <2>3, <3>1
    <3>3. /\ last.ins[n] \in Seq(Int) /\ Len(last.ins[n]) <= MaxDims
          /\ getTensorShape(n) = to_dims(last.ins[n])
      BY <3>2, InputShape
    <3>. QED
      BY <3>2, <3>3, StridesAre
  <2>6. CASE \E k \in DOMAIN graph.outputs : io = Marked(OutTensor(k))
    <3>1. PICK k \in DOMAIN graph.outputs : io = Marked(OutTensor(k))
      BY <2>6
    <3>2. /\ io.name = graph.outputs[k].name /\ io.dir # "input"
          /\ (CHOOSE l \in DOMAIN graph.outputs : graph.outputs[l].name = io.name) = k
          /\ last.outs[k].dims = OutputDims(k, last.ins)
      BY <2>4, <3>1
    <3>3. /\ OutputDims(k, last.ins) \in Seq(Int) /\ Len(OutputDims(k, last.ins)) <= MaxDims
          /\ getTensorShape(io.name) = to_dims(OutputDims(k, last.ins))
      BY <3>2, OutputShape
    <3>4. PICK dims \in Seq(Int) : dims = last.outs[k].dims
      BY <3>2, <3>3
    <3>5. /\ DOMAIN getTensorStrides(io.name) = DOMAIN dims
          /\ \A i \in Indices(dims) :
               Offset(i, getTensorStrides(io.name))
                 = Cardinality({ j \in Indices(dims) : Before(j, i) })
      BY <3>2, <3>3, <3>4, StridesAre
    <3>. QED
      BY <3>2, <3>4, <3>5
  <2>. QED
    BY <2>2, <2>5, <2>6
<1>. QED
  BY <1>1, <1>2, <1>3, PTL DEF Spec
=============================================================================
