---------------------------- MODULE ShapeBinding ----------------------------
(***************************************************************************)
(* From an optimization profile to the shapes and buffers of a run:         *)
(* ShimOptimizationProfile and ShimContext (src/shim.cpp); split_io, the    *)
(* IO metadata of build, dynamic_batch, resolve and the parameter loops of  *)
(* run_zero_copy and run_staged (src/backend.cpp).                          *)
(*                                                                         *)
(* Which axes of an engine are dynamic is said three times: by the client,  *)
(* in the dimensions of a profile; to MIGraphX, in the options the model is *)
(* parsed with; and to the client again, in the IO metadata of the engine,  *)
(* which it sizes its buffers by.  A run then pairs the buffers and shapes  *)
(* the client has given by name with parameters MIGraphX knows by other     *)
(* names and in an order of its own.                                        *)
(*                                                                         *)
(* MIGraphX is external: parsing gives every free axis of the model the     *)
(* default extent or range of extents; a run computes the outputs' shapes   *)
(* from the inputs' and throws if an argument does not fit its parameter.   *)
(*                                                                         *)
(* Dims are sequences of extents, axes count from 1, Free is the -1 of an   *)
(* axis whose extent is left open.                                          *)
(***************************************************************************)
EXTENDS Integers, SequencesExt

CONSTANTS
  Graphs,      \* ONNX models: inputs by name, outputs in order
  InputNames,  \* names of inputs, in the order of a std::map
  DimCalls,    \* calls of setDimensions: << name, selector, dims >>
  ShapeCalls,  \* calls of setInputShape: << name, dims >>
  BufferCalls, \* buffers the client has for a tensor: << name, buffer >>
  MaxDims,     \* Dims::MAX_DIMS
  Null         \* null pointer, not set, no dynamic axis

Free == -1
Selectors == {"min", "opt", "max"}
Tensors == { call[1] : call \in BufferCalls }

ASSUME MaxDimsAssumption == MaxDims \in Nat \ {0}

(* An output's axis has a fixed extent, << "", n >>, or that of an axis of   *)
(* an input, << name, axis >>.                                              *)
Axes(g) ==
  ({""} \X Nat) \cup UNION { {n} \X DOMAIN g.inputs[n] : n \in DOMAIN g.inputs }

(* The tensors of a model have names of their own.                           *)
ASSUME GraphAssumption ==
  /\ InputNames \in Seq(Tensors)
  /\ \A g \in Graphs :
       /\ DOMAIN g.inputs \subseteq Range(InputNames)
       /\ \A n \in DOMAIN g.inputs : g.inputs[n] \in Seq({Free} \cup (Nat \ {0}))
       /\ g.outputs \in Seq([name : Tensors, dims : Seq(Axes(g))])
       /\ \A k \in DOMAIN g.outputs :
            /\ g.outputs[k].name \notin DOMAIN g.inputs
            /\ \A l \in DOMAIN g.outputs : g.outputs[l].name = g.outputs[k].name => l = k

ASSUME CallsAssumption ==
  /\ DimCalls \subseteq Range(InputNames) \X Selectors \X Seq(Int)
  /\ ShapeCalls \subseteq Tensors \X Seq(Int)

ASSUME NullAssumption ==
  Null \notin [input : Range(InputNames), axis : Nat, min : Int, max : Int, opt : Int]

VARIABLES
  graph,    \* the model
  profile,  \* dims_ of the profile, << >> where nothing has been set
  engine,   \* the engine, Null before build
  addrs,    \* ShimContext: addrs_
  shapes,   \* ShimContext: shapes_
  last      \* what the last call ran with, Null if the client has gone on

vars == << graph, profile, engine, addrs, shapes, last >>

Init ==
  /\ graph \in Graphs
  /\ profile = [n \in Range(InputNames) |-> [s \in Selectors |-> << >>]]
  /\ engine = Null
  /\ addrs = [n \in Tensors |-> Null]
  /\ shapes = [n \in Tensors |-> Null]
  /\ last = Null

-----------------------------------------------------------------------------
(* The profile.                                                             *)

SetDimensions(name, sel, dims) ==
  /\ engine = Null
  /\ profile' = [profile EXCEPT ![name][sel] = dims]
  /\ UNCHANGED << graph, engine, addrs, shapes, last >>

(* The axes of input n, as the profile has it, where kMIN and kMAX differ.   *)
OpenAxes(n) ==
  LET p == profile[n]
  IN  { a \in DOMAIN p["min"] \cap DOMAIN p["max"] : p["min"][a] # p["max"][a] }

FirstOpen(names) ==
  LET i == Min({ j \in DOMAIN names : OpenAxes(names[j]) # {} })
      a == Min(OpenAxes(names[i]))
      p == profile[names[i]]
  IN  [ input |-> names[i], axis |-> a, min |-> p["min"][a], max |-> p["max"][a],
        opt |-> IF a \in DOMAIN p["opt"] THEN p["opt"][a] ELSE p["min"][a] ]

dynamicAxis_FirstInput ==   \* mutant: gives up after the first input
  IF OpenAxes(InputNames[1]) = {} THEN Null ELSE FirstOpen(InputNames)

dynamicAxis ==
  IF \A n \in Range(InputNames) : OpenAxes(n) = {}
  THEN Null ELSE FirstOpen(InputNames)

-----------------------------------------------------------------------------
(* build.                                                                   *)

Pinned_Dropped(dims) == dims   \* mutant: parsed without a default extent

Pinned(dims) == [a \in DOMAIN dims |-> IF dims[a] = Free THEN 1 ELSE dims[a]]

(* MIGraphX (external): the shapes of the outputs for shapes of the inputs.  *)
OutputDims(k, ins) ==
  LET dims == graph.outputs[k].dims
  IN  [a \in DOMAIN dims |-> IF dims[a][1] = "" THEN dims[a][2]
                             ELSE ins[dims[a][1]][dims[a][2]]]

(* MIGraphX (external): the extents a parsed parameter takes on each axis.   *)
Parameter(n, dyn) ==
  [a \in DOMAIN graph.inputs[n] |->
     LET d == graph.inputs[n][a]
     IN  IF d # Free THEN {d} ELSE IF dyn = Null THEN {1} ELSE dyn.min .. dyn.max]

(* The metadata of the program with its free axes pinned; inputs come in the *)
(* order in which MIGraphX lists the parameters.                             *)
IOTensor(name, dims, dir) == [name |-> name, dims |-> dims, dir |-> dir]

PinnedInputs == [n \in DOMAIN graph.inputs |-> Pinned(graph.inputs[n])]

InputTensors(order) ==
  [i \in DOMAIN order |-> IOTensor(order[i], PinnedInputs[order[i]], "input")]

OutputTensors ==
  [k \in DOMAIN graph.outputs |->
     IOTensor(graph.outputs[k].name, OutputDims(k, PinnedInputs), "output")]

split_io_Unsorted(order) ==   \* mutant: outputs, too, in MIGraphX's order
  InputTensors(order) \o Reverse(OutputTensors)

split_io(order) == InputTensors(order) \o OutputTensors

MarkDynamic_InputsOnly(io, dyn) ==   \* mutant: outputs keep the pinned extent
  IF io.dir = "input" /\ io.name = dyn.input /\ dyn.axis \in DOMAIN io.dims
  THEN [io EXCEPT !.dims[dyn.axis] = Free] ELSE io

MarkDynamic(io, dyn) ==
  IF io.dir = "input" /\ io.name = dyn.input /\ dyn.axis \in DOMAIN io.dims
  THEN [io EXCEPT !.dims[dyn.axis] = Free]
  ELSE IF io.dir = "output" /\ io.dims # << >>
  THEN [io EXCEPT !.dims[1] = Free] ELSE io

(* buildSerializedNetwork, deserializeCudaEngine, createExecutionContext.    *)
Build ==
  /\ engine = Null
  /\ LET dyn == dynamicAxis
     IN  \E order \in SetToSeqs(DOMAIN graph.inputs) :
           LET ios == split_io(order)
           IN  engine' =
                 [ params |-> [n \in DOMAIN graph.inputs |-> Parameter(n, dyn)],
                   zero_copy |-> dyn = Null,
                   ios |-> IF dyn = Null THEN ios
                           ELSE [i \in DOMAIN ios |-> MarkDynamic(ios[i], dyn)] ]
  /\ UNCHANGED << graph, profile, addrs, shapes, last >>

(* The outputs among the metadata, numbered in their order there.            *)
Outputs ==
  LET at == { i \in DOMAIN engine.ios : engine.ios[i].dir = "output" }
  IN  [k \in 1 .. Cardinality(at) |->
         engine.ios[CHOOSE i \in at : Cardinality({ j \in at : j <= i }) = k]]

Reported(n) == (CHOOSE io \in Range(engine.ios) : io.name = n).dims

-----------------------------------------------------------------------------
(* ShimContext.                                                             *)

SetTensorAddress(name, buffer) ==
  /\ engine # Null
  /\ addrs' = [addrs EXCEPT ![name] = buffer]
  /\ last' = Null
  /\ UNCHANGED << graph, profile, engine, shapes >>

SetInputShape(name, dims) ==
  /\ engine # Null
  /\ shapes' = [shapes EXCEPT ![name] = dims]
  /\ last' = Null
  /\ UNCHANGED << graph, profile, engine, addrs >>

(* A Dims holds MaxDims extents, whatever nbDims says; those not copied are 0. *)
to_dims(v) ==
  [nbDims |-> Len(v),
   d |-> [a \in 1 .. MaxDims |-> IF a <= Len(v) THEN v[a] ELSE 0]]

(* ShimContext::getTensorShape.                                             *)
getTensorShape(n) == to_dims(IF shapes[n] # Null THEN shapes[n] ELSE Reported(n))

(* An open axis, of -1, counts as one element.                               *)
getTensorStrides_Early(n) ==   \* mutant: multiplied before it is stored
  LET dims == getTensorShape(n)
  IN  [a \in 1 .. dims.nbDims |->
         FoldFunctionOnSet(LAMBDA x, y : x * y, 1,
                           [b \in DOMAIN dims.d |-> Max({dims.d[b], 1})],
                           a .. dims.nbDims)]

getTensorStrides(n) ==
  LET dims == getTensorShape(n)
  IN  [a \in 1 .. dims.nbDims |->
         FoldFunctionOnSet(LAMBDA x, y : x * y, 1,
                           [b \in DOMAIN dims.d |-> IF dims.d[b] > 0 THEN dims.d[b] ELSE 1],
                           a + 1 .. dims.nbDims)]

(* The extent the client has given for an axis that the metadata leave open. *)
OpenGiven(n) ==
  IF n \in DOMAIN graph.inputs /\ shapes[n] # Null
  THEN { a \in DOMAIN Reported(n) \cap DOMAIN shapes[n] : Reported(n)[a] < 0 }
  ELSE {}

dynamic_batch ==
  LET given == { j \in DOMAIN InputNames : OpenGiven(InputNames[j]) # {} }
      n == InputNames[Min(given)]
  IN  IF given = {} THEN 1 ELSE shapes[n][Min(OpenGiven(n))]

resolve(dims, batch) ==
  [a \in DOMAIN dims |-> IF dims[a] < 0 THEN batch ELSE dims[a]]

(* The shapes an input's argument may have.  Where the client has set none,  *)
(* run_zero_copy takes the metadata's and run_staged its parameter's; which  *)
(* extents MIGraphX computes with if that is a range is left open.          *)
Shapes(n) ==
  IF shapes[n] # Null THEN { shapes[n] }
  ELSE IF engine.zero_copy THEN { resolve(Reported(n), dynamic_batch) }
  ELSE { dims \in [DOMAIN engine.params[n] -> UNION Range(engine.params[n])] :
           \A a \in DOMAIN dims : dims[a] \in engine.params[n][a] }

Arguments ==
  { ins \in [DOMAIN graph.inputs -> UNION { Shapes(n) : n \in DOMAIN graph.inputs }] :
      \A n \in DOMAIN ins : ins[n] \in Shapes(n) }

(* MIGraphX (external): an argument that does not fit its parameter throws.  *)
Fits(ins) ==
  \A n \in DOMAIN ins :
    /\ DOMAIN ins[n] = DOMAIN engine.params[n]
    /\ \A a \in DOMAIN ins[n] : ins[n][a] \in engine.params[n][a]

(* Engine::run with the buffers ptrs.  Output k of the program is the        *)
(* parameter #output_k in run_zero_copy, which has to have the shape MIGraphX *)
(* computes, and result k in run_staged.                                    *)
run(ptrs) ==
  /\ engine # Null
  /\ \/ last' = [ok |-> FALSE]
     \/ /\ \A i \in DOMAIN engine.ios : ptrs[engine.ios[i].name] # Null
        /\ \E ins \in Arguments :
             /\ Fits(ins)
             /\ engine.zero_copy =>
                  \A k \in DOMAIN Outputs :
                    resolve(Outputs[k].dims, dynamic_batch) = OutputDims(k, ins)
             /\ last' = [ok |-> TRUE, ptrs |-> ptrs, ins |-> ins,
                         outs |-> [k \in DOMAIN Outputs |->
                                     [ptr |-> ptrs[Outputs[k].name],
                                      dims |-> OutputDims(k, ins)]]]
  /\ UNCHANGED << graph, profile, engine, addrs, shapes >>

enqueueV3 == run(addrs)

(* The client passes a buffer for every tensor, in the order of              *)
(* getIOTensorName.                                                         *)
executeV2(bindings) ==
  run([n \in Tensors |->
         IF \E i \in DOMAIN engine.ios : engine.ios[i].name = n
         THEN bindings[CHOOSE i \in DOMAIN engine.ios : engine.ios[i].name = n]
         ELSE Null])

Next ==
  \/ \E call \in DimCalls : SetDimensions(call[1], call[2], call[3])
  \/ Build
  \/ \E call \in BufferCalls : SetTensorAddress(call[1], call[2])
  \/ \E call \in ShapeCalls : SetInputShape(call[1], call[2])
  \/ enqueueV3
  \/ /\ engine # Null
     /\ \E bindings \in [DOMAIN engine.ios -> { call[2] : call \in BufferCalls }] :
          /\ \A i \in DOMAIN bindings :
               << engine.ios[i].name, bindings[i] >> \in BufferCalls
          /\ executeV2(bindings)

Spec == Init /\ [][Next]_vars

-----------------------------------------------------------------------------
(* Properties. *)

Dims == Seq(Int)

(* The maps of a profile and of a context keep their types; the metadata list *)
(* every tensor of the model once, and those of an engine without a dynamic  *)
(* axis leave none open (introspect and build pin the free ones).            *)
TypeOK ==
  /\ graph \in Graphs
  /\ profile \in [Range(InputNames) -> [Selectors -> Dims]]
  /\ addrs \in [Tensors -> { call[2] : call \in BufferCalls } \cup {Null}]
  /\ \A n \in Tensors : shapes[n] # Null => shapes[n] \in Dims
  /\ engine # Null =>
       /\ DOMAIN engine.params = DOMAIN graph.inputs
       /\ Len(engine.ios) = Cardinality(DOMAIN graph.inputs) + Len(graph.outputs)
       /\ \A io \in Range(engine.ios) : io.name \in Tensors /\ io.dims \in Dims
       /\ engine.zero_copy =>
            \A io \in Range(engine.ios) : \A d \in Range(io.dims) : d >= 0
  /\ last # Null => last.ok \in BOOLEAN

FreeAxes ==
  UNION { {n} \X { a \in DOMAIN graph.inputs[n] : graph.inputs[n][a] = Free } :
            n \in DOMAIN graph.inputs }
ProfiledAxes == UNION { {n} \X OpenAxes(n) : n \in Range(InputNames) }

Accepted == last # Null /\ last.ok

(* The case the shim is for: one free axis, and no other one in the profile. *)
SingleAxis == Cardinality(FreeAxes) <= 1 /\ ProfiledAxes \subseteq FreeAxes

(* "0 <= minDims.d[i] <= optDims.d[i] <= maxDims.d[i]" (NvInferRuntime.h,     *)
(* setDimensions), where the two ends differ.                               *)
InOrder ==
  \A n \in Range(InputNames) : \A a \in OpenAxes(n) :
    profile[n]["min"][a] < profile[n]["max"][a]

(* The axis that the profile opens, and no other, is one on which the program *)
(* takes more than one extent, and the engine tells its client that it is    *)
(* open, whatever the order of the calls that filled the profile and of       *)
(* MIGraphX's parameters.                                                   *)
ReportedOpen ==
  engine # Null /\ SingleAxis /\ InOrder =>
    \A n \in DOMAIN graph.inputs : \A a \in DOMAIN graph.inputs[n] :
      /\ Cardinality(engine.params[n][a]) > 1 <=> << n, a >> \in ProfiledAxes
      /\ Reported(n)[a] = Free <=> << n, a >> \in ProfiledAxes

(* "build parses that input as dynamic ... and marks the dynamic axis -1 in  *)
(* the IO metadata" (docs/ARCHITECTURE.md): every axis on which the program  *)
(* is dynamic is reported so, for any model and profile.                     *)
ParsedAsReported ==
  engine # Null =>
    \A n \in DOMAIN graph.inputs : \A a \in DOMAIN graph.inputs[n] :
      Cardinality(engine.params[n][a]) > 1 => Reported(n)[a] = Free

(* A run that returns true has used, for every tensor, the shape its client   *)
(* computes: the reported one, with the extent that it has set for the open  *)
(* axis in place of every -1 (as tools/trtshim_dyn_run.cpp sizes its         *)
(* buffers).                                                                 *)
ShapesAsReported ==
  Accepted /\ SingleAxis =>
    \A batch \in IF ProfiledAxes = {} THEN {1} ELSE
                  { shapes[x[1]][x[2]] :
                      x \in { y \in ProfiledAxes : shapes[y[1]] # Null } } :
      /\ \A n \in DOMAIN last.ins : last.ins[n] = resolve(Reported(n), batch)
      /\ \A k \in DOMAIN last.outs :
           last.outs[k].dims = resolve(Reported(graph.outputs[k].name), batch)

(* The data of each output of the model arrive in the buffer the client has  *)
(* given for the output of that name, although they are paired by position   *)
(* (results[oi], #output_N) on the way.                                      *)
EachToItsBuffer ==
  Accepted =>
    \A k \in DOMAIN last.outs :
      last.outs[k].ptr = last.ptrs[graph.outputs[k].name]

(* The elements of a tensor by their indices, and which of two comes first in *)
(* row-major order.                                                         *)
Indices(dims) ==
  { i \in [DOMAIN dims -> 0 .. Max(Range(dims))] : \A a \in DOMAIN dims : i[a] < dims[a] }
Before(i, j) ==
  \E a \in DOMAIN i : i[a] < j[a] /\ \A b \in 1 .. a - 1 : i[b] = j[b]
Offset(i, strides) == FoldFunction(+, 0, [a \in DOMAIN i |-> i[a] * strides[a]])

(* The strides a context gives after a run address the elements of the        *)
(* tensor as it has been run, in row-major order and without a gap, whenever  *)
(* the context's shape for it has no open axis left.                         *)
StridesPacked ==
  Accepted /\ SingleAxis =>
    \A io \in Range(engine.ios) :
      LET dims == IF io.dir = "input" THEN last.ins[io.name]
                  ELSE LET k == CHOOSE k \in DOMAIN graph.outputs :
                                  graph.outputs[k].name = io.name
                       IN  last.outs[k].dims
          strides == getTensorStrides(io.name)
      IN  Free \notin Range(getTensorShape(io.name).d) =>
            /\ DOMAIN strides = DOMAIN dims
            /\ \A i \in Indices(dims) :
                 Offset(i, strides) = Cardinality({ j \in Indices(dims) : Before(j, i) })

(* "A dimension in an output tensor will have a -1 wildcard value if ...      *)
(* setInputShape() has NOT been called for some input tensor(s) with a runtime *)
(* shape" (NvInferRuntime.h, getTensorShape of a context): once the shapes    *)
(* of all inputs have been set, and a run has taken them, none is left open.   *)
OutputShapeResolved ==
  Accepted /\ SingleAxis /\ (\A n \in DOMAIN graph.inputs : shapes[n] # Null) =>
    \A k \in DOMAIN graph.outputs :
      Free \notin Range(getTensorShape(graph.outputs[k].name).d)
=============================================================================
