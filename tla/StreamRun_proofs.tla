--------------------------- MODULE StreamRun_proofs ---------------------------
(***************************************************************************)
(* Proofs about StreamRun, for any number of contexts, outputs and          *)
(* inferences: types, and the order of host copies and answers.             *)
(***************************************************************************)
EXTENDS StreamRun, SequenceTheorems, TLAPS

(***************************************************************************)
(* Type correctness.                                                        *)
(***************************************************************************)

(* A call is for an inference the client has asked for. *)
Asked == \A c \in Contexts : pc[c] # "idle" => run[c] \in Runs

TypeInv == TypeOK /\ Asked

Answer0 == {0} \cup Runs

LEMMA RunsNat == Runs \subseteq Nat /\ Answer0 \subseteq Nat
  BY CountAssumption DEF Runs, Answer0

LEMMA OutsNat == Outs \subseteq Nat
  BY CountAssumption DEF Outs

(* Submitting operations to one stream keeps the streams' type. *)
LEMMA SubmitType ==
  ASSUME queue \in [Contexts -> Seq(OpType)],
         NEW c \in Contexts, NEW ops \in Seq(OpType), Submit(c, ops)
  PROVE  queue' \in [Contexts -> Seq(OpType)]
<1>1. queue[c] \o ops \in Seq(OpType)
  BY ConcatProperties
<1> QED
  BY <1>1 DEF Submit

LEMMA OneOpType ==
  ASSUME NEW op \in OpType
  PROVE  << op >> \in Seq(OpType)
  OBVIOUS

LEMMA FetchType ==
  ASSUME NEW r \in Runs
  PROVE  /\ [o \in Outs |-> Op("d2h", r, o)] \in Seq(OpType)
         /\ Len([o \in Outs |-> Op("d2h", r, o)]) = OutputCount
<1>1. \A o \in Outs : Op("d2h", r, o) \in OpType
  BY DEF Op, OpType
<1> QED
  BY <1>1, CountAssumption DEF Outs

LEMMA LaunchType ==
  ASSUME NEW r \in Runs, NEW g \in Seq({"infer"})
  PROVE  [i \in DOMAIN g |-> Op(g[i], r, 0)] \in Seq(OpType)
<1>1. \A i \in DOMAIN g : Op(g[i], r, 0) \in OpType
  BY DEF Op, OpType
<1>2. DOMAIN g = 1 .. Len(g) /\ Len(g) \in Nat
  BY LenProperties
<1> QED
  BY <1>1, <1>2

LEMMA MemcpyType ==
  ASSUME TypeOK, NEW c \in Contexts, CallMemcpy(c)
  PROVE  mark' \in [Contexts -> [Contexts -> Nat]]
<1>1. \A s \in Contexts : Len(queue[s]) \in Nat
  BY LenProperties DEF TypeOK
<1> QED
  BY <1>1 DEF CallMemcpy, TypeOK

LEMMA ReturnType ==
  ASSUME TypeOK, NEW c \in Contexts, NEW label \in {"accepted", "failed"},
         Return(c, label)
  PROVE  /\ pc' = [pc EXCEPT ![c] = label]
         /\ mark' \in [Contexts -> [Contexts -> Nat]]
         /\ staging' \in [Contexts -> {0} \cup Runs]
         /\ results' \in [Contexts -> {0} \cup Runs]
         /\ copied' \in [Contexts -> 0 .. OutputCount]
  BY CountAssumption DEF TypeOK, Return, Goto

LEMMA SubmitInputType ==
  ASSUME TypeInv, NEW c \in Contexts, SubmitInput(c)
  PROVE  TypeInv'
<1>0. run[c] \in {0} \cup Runs /\ run[c] < MaxRun
  BY DEF SubmitInput, TypeInv, TypeOK
<1>1. run[c] + 1 \in Runs
  BY <1>0, CountAssumption DEF Runs
<1>2. << Op("h2d", run[c] + 1, 0) >> \in Seq(OpType)
  BY <1>1 DEF Op, OpType
<1>3. queue' \in [Contexts -> Seq(OpType)]
  BY <1>2, SubmitType DEF SubmitInput, TypeInv, TypeOK
<1> QED
  BY <1>1, <1>3 DEF SubmitInput, Goto, TypeInv, TypeOK, Asked, stagedVars

LEMMA CopyInputType ==
  ASSUME TypeInv, NEW c \in Contexts, CopyInput(c)
  PROVE  TypeInv'
<1>0. run[c] \in {0} \cup Runs /\ run[c] < MaxRun
  BY DEF CopyInput, TypeInv, TypeOK
<1>1. run[c] + 1 \in Runs
  BY <1>0, CountAssumption DEF Runs
<1> QED
  BY <1>1 DEF CopyInput, Goto, TypeInv, TypeOK, Asked, stagedVars

LEMMA BeginCaptureType ==
  ASSUME TypeInv, NEW c \in Contexts, BeginCapture(c)
  PROVE  TypeInv'
<1>1. run[c] \in Runs
  BY CountAssumption DEF BeginCapture, TypeInv, TypeOK, Runs
<1> QED
  BY <1>1 DEF BeginCapture, Goto, TypeInv, TypeOK, Asked, deviceVars, stagedVars

LEMMA EndCaptureType ==
  ASSUME TypeInv, NEW c \in Contexts, EndCapture(c)
  PROVE  TypeInv'
<1>1. graph' \in [Contexts -> Seq({"infer"})]
  <2>1. graph' = graph \/ graph' = [graph EXCEPT ![c] = << >>]
    BY DEF EndCapture
  <2>2. << >> \in Seq({"infer"}) /\ graph \in [Contexts -> Seq({"infer"})]
    BY EmptySeq DEF TypeInv, TypeOK
  <2> QED
    BY <2>1, <2>2
<1>2. mode' \in [Contexts -> {"explicit", "graph"}]
  BY DEF EndCapture, TypeInv, TypeOK
<1> QED
  BY <1>1, <1>2
  DEF EndCapture, Goto, TypeInv, TypeOK, Asked, deviceVars, stagedVars

LEMMA LaunchGraphType ==
  ASSUME TypeInv, NEW c \in Contexts, LaunchGraph(c)
  PROVE  TypeInv'
<1>1. run[c] \in Runs /\ graph[c] \in Seq({"infer"})
  BY DEF LaunchGraph, TypeInv, TypeOK, Asked
<1>2. queue' \in [Contexts -> Seq(OpType)]
  BY <1>1, LaunchType, SubmitType DEF LaunchGraph, TypeInv, TypeOK
<1> QED
  BY <1>1, <1>2 DEF LaunchGraph, Goto, TypeInv, TypeOK, Asked, stagedVars

LEMMA FetchOutputsType ==
  ASSUME TypeInv, NEW c \in Contexts, FetchOutputs(c)
  PROVE  TypeInv'
<1>1. run[c] \in Runs
  BY DEF FetchOutputs, TypeInv, TypeOK, Asked
<1>2. queue' \in [Contexts -> Seq(OpType)]
  BY <1>1, FetchType, SubmitType DEF FetchOutputs, TypeInv, TypeOK
<1> QED
  BY <1>1, <1>2 DEF FetchOutputs, Goto, TypeInv, TypeOK, Asked, stagedVars

LEMMA CopyOutputsType ==
  ASSUME TypeInv, NEW c \in Contexts, CopyOutputs(c)
  PROVE  TypeInv'
<1>1. run[c] \in Runs /\ dout[c] \in [Outs -> {0} \cup Runs]
  BY DEF CopyOutputs, TypeInv, TypeOK, Asked
<1> QED
  BY <1>1 DEF CopyOutputs, Goto, TypeInv, TypeOK, Asked, stagedVars

LEMMA GiveUpType ==
  ASSUME TypeInv, NEW c \in Contexts, GiveUp(c)
  PROVE  TypeInv'
  BY CountAssumption DEF GiveUp, Goto, TypeInv, TypeOK, Asked, deviceVars, stagedVars

LEMMA ExecuteOpType ==
  ASSUME TypeInv, NEW c \in Contexts, ExecuteOp(c)
  PROVE  TypeInv'
<1> DEFINE op == Head(queue[c])
<1>1. queue[c] \in Seq(OpType) /\ queue[c] # << >>
  BY DEF ExecuteOp, Drained, TypeInv, TypeOK
<1>2. op \in OpType /\ Tail(queue[c]) \in Seq(OpType)
  BY <1>1, HeadTailProperties
<1>3. queue' \in [Contexts -> Seq(OpType)]
  BY <1>2 DEF ExecuteOp, TypeInv, TypeOK
<1>4. mark' \in [Contexts -> [Contexts -> Nat]]
  BY DEF ExecuteOp, TypeInv, TypeOK
<1>5. op.run \in Runs /\ (op.kind = "d2h" => op.out \in Outs)
  BY <1>2 DEF OpType
<1>6. /\ din' \in [Contexts -> {0} \cup Runs]
      /\ dout' \in [Contexts -> [Outs -> {0} \cup Runs]]
      /\ host' \in [Contexts -> [Runs -> [Outs -> {0} \cup Runs]]]
  <2>0. /\ din \in [Contexts -> {0} \cup Runs]
        /\ dout \in [Contexts -> [Outs -> {0} \cup Runs]]
        /\ host \in [Contexts -> [Runs -> [Outs -> {0} \cup Runs]]]
    BY DEF TypeInv, TypeOK
  <2>1. CASE op.kind = "h2d"
    <3>1. din' = [din EXCEPT ![c] = op.run] /\ dout' = dout /\ host' = host
      BY <2>1 DEF ExecuteOp
    <3> HIDE DEF op
    <3> QED
      BY <1>5, <2>0, <3>1
  <2>2. CASE op.kind = "infer"
    <3>1. /\ din' = din /\ host' = host
          /\ dout' = [dout EXCEPT ![c] = [o \in Outs |-> din[c]]]
      BY <2>2 DEF ExecuteOp
    <3> QED
      BY <2>0, <3>1
  <2>3. CASE op.kind = "d2h"
    <3>1. /\ din' = din /\ dout' = dout
          /\ host' = [host EXCEPT ![c][op.run][op.out] = dout[c][op.out]]
      BY <2>3 DEF ExecuteOp
    <3>2. dout[c][op.out] \in {0} \cup Runs
      BY <1>5, <2>0, <2>3
    <3>3. [host[c] EXCEPT ![op.run][op.out] = dout[c][op.out]]
            \in [Runs -> [Outs -> {0} \cup Runs]]
      <4>1. host[c] \in [Runs -> [Outs -> {0} \cup Runs]]
        BY <2>0
      <4>2. [host[c][op.run] EXCEPT ![op.out] = dout[c][op.out]]
              \in [Outs -> {0} \cup Runs]
        BY <1>5, <2>3, <3>2, <4>1
      <4> QED
        BY <4>1, <4>2
    <3> QED
      BY <2>0, <3>1, <3>3
  <2> QED
    BY <2>1, <2>2, <2>3 DEF ExecuteOp
<1> QED
  BY <1>3, <1>4, <1>6 DEF ExecuteOp, TypeInv, TypeOK, Asked, threadVars

LEMMA RunZeroCopyType ==
  ASSUME TypeInv, NEW c \in Contexts, RunZeroCopy(c)
  PROVE  TypeInv'
<1>1. run[c] \in Runs
  BY DEF RunZeroCopy, Called, TypeInv, TypeOK, Asked
<1>2. << Op("infer", run[c], 0) >> \in Seq(OpType)
  BY <1>1 DEF Op, OpType
<1>3. queue' \in [Contexts -> Seq(OpType)]
  BY <1>2, SubmitType DEF RunZeroCopy, TypeInv, TypeOK
<1>4. Append(graph[c], "infer") \in Seq({"infer"})
  BY AppendProperties DEF TypeInv, TypeOK
<1>5. graph' \in [Contexts -> Seq({"infer"})]
  BY <1>4 DEF RunZeroCopy, TypeInv, TypeOK
<1>6. dout' \in [Contexts -> [Outs -> {0} \cup Runs]]
  <2>1. [o \in Outs |-> din[c]] \in [Outs -> {0} \cup Runs]
    BY DEF TypeInv, TypeOK
  <2>2. \/ dout' = dout
        \/ dout' = [dout EXCEPT ![c] = [o \in Outs |-> din[c]]]
    BY DEF RunZeroCopy
  <2>3. dout \in [Contexts -> [Outs -> {0} \cup Runs]]
    BY DEF TypeInv, TypeOK
  <2> DEFINE same == [o \in Outs |-> din[c]]
  <2> HIDE DEF same
  <2>4. same \in [Outs -> {0} \cup Runs]
    BY <2>1 DEF same
  <2>5. dout' = dout \/ dout' = [dout EXCEPT ![c] = same]
    BY <2>2 DEF same
  <2> QED
    BY <2>3, <2>4, <2>5
<1> QED
  BY <1>1, <1>3, <1>5, <1>6
  DEF RunZeroCopy, Goto, TypeInv, TypeOK, Asked, stagedVars

LEMMA ZeroCopyFailsType ==
  ASSUME TypeInv, NEW c \in Contexts, ZeroCopyFails(c)
  PROVE  TypeInv'
  BY CountAssumption DEF ZeroCopyFails, Goto, TypeInv, TypeOK, Asked, deviceVars, stagedVars, Called

LEMMA RunStagedType ==
  ASSUME TypeInv, NEW c \in Contexts, RunStaged(c)
  PROVE  TypeInv'
<1>1. mark' \in [Contexts -> [Contexts -> Nat]]
  BY MemcpyType DEF RunStaged, TypeInv
<1> QED
  BY <1>1 DEF RunStaged, Called, Goto, TypeInv, TypeOK, Asked, deviceVars

LEMMA CopyInType ==
  ASSUME TypeInv, NEW c \in Contexts, CopyIn(c)
  PROVE  TypeInv'
  BY CountAssumption DEF CopyIn, Goto, TypeInv, TypeOK, Asked, deviceVars, stagedVars

LEMMA EvalType ==
  ASSUME TypeInv, NEW c \in Contexts, Eval(c)
  PROVE  TypeInv'
<1>1. mark' \in [Contexts -> [Contexts -> Nat]]
  BY MemcpyType DEF Eval, TypeInv
<1> QED
  BY <1>1 DEF Eval, Goto, TypeInv, TypeOK, Asked, deviceVars

LEMMA CopyOutType ==
  ASSUME TypeInv, NEW c \in Contexts, CopyOut(c)
  PROVE  TypeInv'
<1>1. dout' \in [Contexts -> [Outs -> {0} \cup Runs]]
  BY DEF CopyOut, TypeInv, TypeOK
<1>2. CASE copied[c] + 1 < OutputCount
  <2>1. mark' \in [Contexts -> [Contexts -> Nat]]
    BY <1>2, MemcpyType DEF CopyOut, TypeInv
  <2>2. copied[c] + 1 \in 0 .. OutputCount
    BY <1>2, CountAssumption DEF TypeInv, TypeOK
  <2>3. copied' \in [Contexts -> 0 .. OutputCount]
    BY <1>2, <2>2 DEF CopyOut, TypeInv, TypeOK
  <2> QED
    BY <1>1, <1>2, <2>1, <2>3 DEF CopyOut, TypeInv, TypeOK, Asked
<1>3. CASE ~(copied[c] + 1 < OutputCount)
  <2>1. Return(c, "accepted")
    BY <1>3 DEF CopyOut
  <2>2. /\ pc' = [pc EXCEPT ![c] = "accepted"]
        /\ mark' \in [Contexts -> [Contexts -> Nat]]
        /\ staging' \in [Contexts -> {0} \cup Runs]
        /\ results' \in [Contexts -> {0} \cup Runs]
        /\ copied' \in [Contexts -> 0 .. OutputCount]
    BY <2>1, ReturnType DEF TypeInv
  <2> QED
    BY <1>1, <2>1, <2>2 DEF CopyOut, TypeInv, TypeOK, Asked
<1> QED
  BY <1>2, <1>3

LEMMA StagedFailsType ==
  ASSUME TypeInv, NEW c \in Contexts, StagedFails(c)
  PROVE  TypeInv'
<1>1. Return(c, "failed")
  BY DEF StagedFails
<1> QED
  BY <1>1, ReturnType DEF StagedFails, TypeInv, TypeOK, Asked, deviceVars

(* Init and every step keep the types. *)
LEMMA TypeInvariant == Spec => []TypeInv
<1>1. Init => TypeInv
  BY CountAssumption DEF Init, TypeInv, TypeOK, Asked
<1>2. TypeInv /\ [Next]_vars => TypeInv'
  <2> SUFFICES ASSUME TypeInv, [Next]_vars
               PROVE  TypeInv'
    OBVIOUS
  <2>1. CASE UNCHANGED vars
    BY <2>1 DEF vars, deviceVars, threadVars, stagedVars, TypeInv, TypeOK, Asked
  <2>2. ASSUME NEW c \in Contexts, ClientStep(c) PROVE TypeInv'
    BY <2>2, SubmitInputType, CopyInputType, BeginCaptureType, EndCaptureType,
       LaunchGraphType, FetchOutputsType, CopyOutputsType, GiveUpType
    DEF ClientStep
  <2>3. ASSUME NEW c \in Contexts, RunStep(c) PROVE TypeInv'
    BY <2>3, RunZeroCopyType, ZeroCopyFailsType, RunStagedType, CopyInType,
       EvalType, CopyOutType, StagedFailsType
    DEF RunStep
  <2> QED
    BY <2>1, <2>2, <2>3, ExecuteOpType DEF Next
<1> QED
  BY <1>1, <1>2, PTL DEF Spec

(* Every variable keeps its type; in particular each copy of an output that  *)
(* is on a stream names an inference the client asked for and an output of   *)
(* the engine.                                                              *)
THEOREM TypeCorrect == Spec => []TypeOK
<1>1. TypeInv => TypeOK
  BY DEF TypeInv
<1> QED
  BY <1>1, TypeInvariant, PTL

-----------------------------------------------------------------------------
(***************************************************************************)
(* The order of what a stream executes and of what its thread does.         *)
(*                                                                         *)
(* ResultsMatch is not inductive: what a copy of an output delivers depends *)
(* on the operations before it on the stream, on what they will have left   *)
(* in the buffers, and, for the operations still to be submitted, on what   *)
(* the thread is about to do.                                               *)
(***************************************************************************)

(* p leaves in the buffers what op, executed next, is meant to work on.      *)
Feeds(p, op) ==
  \/ op.kind = "h2d"
  \/ /\ p.run = op.run
     /\ \/ op.kind = "infer" /\ p.kind = "h2d"
        \/ op.kind = "d2h" /\ p.kind \in {"infer", "d2h"}

(* Buffers with contents in, outs hold what op is meant to work on.          *)
FedBy(in, outs, op) ==
  \/ op.kind = "h2d"
  \/ op.kind = "infer" /\ in = op.run
  \/ op.kind = "d2h" /\ \A o \in Outs : outs[o] = op.run

(* Every operation of q will find what it is meant to work on.               *)
Chain(q, in, outs) ==
  /\ q # << >> => FedBy(in, outs, q[1])
  /\ \A i \in 2 .. Len(q) : Feeds(q[i - 1], q[i])

(* So will op, submitted behind q, or done at once if q is empty.            *)
Extends(q, in, outs, op) ==
  /\ q = << >> => FedBy(in, outs, op)
  /\ q # << >> => Feeds(q[Len(q)], op)

StreamInv(c) == Chain(queue[c], din[c], dout[c])
Follows(c, op) == Extends(queue[c], din[c], dout[c], op)

(* So will the thread's next operation: it finds the stream as the client    *)
(* left it, or, in a staged or synchronous call, drained.  A hipMemcpy that  *)
(* has become ready finds it drained because it waits for the number of      *)
(* operations on the stream, which only the device takes from meanwhile.     *)
ThreadInv(c) ==
  /\ pc[c] \in {"call", "copyin"} /\ call[c] # "capture"
       => Follows(c, Op("infer", run[c], 0))
  /\ pc[c] = "accepted" /\ call[c] # "capture"
       => Follows(c, Op("d2h", run[c], 1))
  /\ pc[c] # "idle" /\ call[c] = "executeV2" => queue[c] = << >>
  /\ pc[c] = "copyin" => mark[c][c] = Len(queue[c])
  /\ pc[c] \in {"eval", "copyout"} => queue[c] = << >>
  /\ pc[c] = "eval" => staging[c] = run[c]
  /\ pc[c] # "copyout" => copied[c] = 0
  /\ pc[c] = "copyout" =>
       /\ results[c] = run[c] /\ copied[c] < OutputCount
       /\ \A o \in Outs : o <= copied[c] => dout[c][o] = run[c]

(* What capture has recorded.                                               *)
GraphInv(c) ==
  /\ mode[c] = "graph" => graph[c] = << "infer" >>
  /\ call[c] = "capture" /\ pc[c] = "accepted" => graph[c] = << "infer" >>
  /\ call[c] = "capture" /\ pc[c] # "idle" => mode[c] = "explicit"
  /\ mode[c] = "explicit" /\ ~(call[c] = "capture" /\ pc[c] = "accepted")
       => graph[c] = << >>
  /\ pc[c] \in {"eval", "copyout"} => call[c] # "capture"

HostInv(c) == \A r \in Runs, o \in Outs : host[c][r][o] \in {0, r}

CtxInv(c) == StreamInv(c) /\ ThreadInv(c) /\ GraphInv(c) /\ HostInv(c)

(* What a step leaves alone for a context that does not take it.            *)
Same(c) ==
  /\ queue'[c] = queue[c] /\ din'[c] = din[c] /\ dout'[c] = dout[c]
  /\ host'[c] = host[c] /\ pc'[c] = pc[c] /\ call'[c] = call[c]
  /\ run'[c] = run[c] /\ mode'[c] = mode[c] /\ graph'[c] = graph[c]
  /\ mark'[c][c] = mark[c][c] /\ staging'[c] = staging[c]
  /\ results'[c] = results[c] /\ copied'[c] = copied[c]

LEMMA CtxFrame ==
  ASSUME NEW c, Same(c), CtxInv(c)
  PROVE  CtxInv(c)'
<1>1. StreamInv(c)'
  BY DEF Same, CtxInv, StreamInv
<1>2. GraphInv(c)'
  BY DEF Same, CtxInv, GraphInv
<1>3. HostInv(c)'
  BY DEF Same, CtxInv, HostInv
<1>4. ThreadInv(c)'
  BY DEF Same, CtxInv, ThreadInv, Follows, Op
<1> QED
  BY <1>1, <1>2, <1>3, <1>4 DEF CtxInv

(* A chain behind a chain whose end it fits.                                *)
LEMMA ChainAppend ==
  ASSUME NEW q \in Seq(OpType), NEW ops \in Seq(OpType), NEW in, NEW outs,
         ops # << >>, Chain(q, in, outs), Extends(q, in, outs, ops[1]),
         \A i \in 2 .. Len(ops) : Feeds(ops[i - 1], ops[i])
  PROVE  /\ Chain(q \o ops, in, outs)
         /\ q \o ops # << >>
         /\ (q \o ops)[Len(q \o ops)] = ops[Len(ops)]
<1> DEFINE qq == q \o ops
<1>1. Len(q) \in Nat /\ Len(ops) \in Nat \ {0}
  BY EmptySeq, LenProperties
<1>2. /\ qq \in Seq(OpType)
      /\ Len(qq) = Len(q) + Len(ops)
      /\ \A i \in 1 .. Len(q) + Len(ops) :
           qq[i] = IF i <= Len(q) THEN q[i] ELSE ops[i - Len(q)]
  BY ConcatProperties
<1>3. (q = << >>) <=> Len(q) = 0
  BY EmptySeq
<1> HIDE DEF qq
<1>4. qq # << >>
  BY <1>1, <1>2, EmptySeq
<1>5. FedBy(in, outs, qq[1])
  <2>1. CASE q = << >>
    <3>1. qq[1] = ops[1]
      BY <1>1, <1>2, <1>3, <2>1
    <3> QED
      BY <2>1, <3>1 DEF Extends
  <2>2. CASE q # << >>
    <3>1. qq[1] = q[1]
      BY <1>1, <1>2, <1>3, <2>2
    <3> QED
      BY <2>2, <3>1 DEF Chain
  <2> QED
    BY <2>1, <2>2
<1>6. ASSUME NEW i \in 2 .. Len(qq) PROVE Feeds(qq[i - 1], qq[i])
  <2>1. i \in Int /\ i - 1 \in 1 .. Len(q) + Len(ops) /\ i \in 1 .. Len(q) + Len(ops)
    BY <1>1, <1>2
  <2>2. CASE i <= Len(q)
    <3>1. qq[i - 1] = q[i - 1] /\ qq[i] = q[i] /\ i \in 2 .. Len(q)
      BY <1>1, <1>2, <2>1, <2>2
    <3> QED
      BY <3>1 DEF Chain
  <2>3. CASE i = Len(q) + 1
    <3>1. qq[i - 1] = q[Len(q)] /\ qq[i] = ops[1] /\ q # << >>
      BY <1>1, <1>2, <1>3, <2>1, <2>3
    <3> QED
      BY <3>1 DEF Extends
  <2>4. CASE i > Len(q) + 1
    <3>1. i - Len(q) \in 2 .. Len(ops) /\ i - 1 - Len(q) = i - Len(q) - 1
      BY <1>1, <1>2, <2>1, <2>4
    <3>2. qq[i] = ops[i - Len(q)]
      BY <1>1, <1>2, <2>1, <2>4
    <3>3. qq[i - 1] = ops[i - 1 - Len(q)]
      <4>1. ~(i - 1 <= Len(q))
        BY <1>1, <2>1, <2>4
      <4> QED
        BY <1>2, <2>1, <4>1
    <3>4. Feeds(ops[i - Len(q) - 1], ops[i - Len(q)])
      BY <3>1
    <3> QED
      BY <3>1, <3>2, <3>3, <3>4
  <2> QED
    BY <1>1, <2>1, <2>2, <2>3, <2>4
<1>7. Chain(qq, in, outs)
  BY <1>5, <1>6 DEF Chain
<1>8. qq[Len(qq)] = ops[Len(ops)]
  BY <1>1, <1>2
<1> QED
  BY <1>4, <1>7, <1>8 DEF qq

(* What executing op leaves in buffers that held in and outs.               *)
Executed(op, in, outs, in2, outs2) ==
  \/ op.kind = "h2d" /\ in2 = op.run /\ outs2 = outs
  \/ op.kind = "infer" /\ in2 = in /\ outs2 = [o \in Outs |-> in]
  \/ op.kind = "d2h" /\ in2 = in /\ outs2 = outs

(* Executing the head of a chain leaves a chain, with the same end.         *)
LEMMA ChainExecute ==
  ASSUME NEW q \in Seq(OpType), q # << >>, NEW in, NEW outs,
         Chain(q, in, outs),
         NEW in2, NEW outs2, Executed(q[1], in, outs, in2, outs2)
  PROVE  /\ Chain(Tail(q), in2, outs2)
         /\ \A op : Extends(q, in, outs, op) => Extends(Tail(q), in2, outs2, op)
<1>1. FedBy(in, outs, q[1])
  BY DEF Chain
<1>2. ASSUME NEW op, Feeds(q[1], op) PROVE FedBy(in2, outs2, op)
  BY <1>1, <1>2 DEF FedBy, Feeds, Executed
<1>3. /\ Tail(q) \in Seq(OpType)
      /\ Len(q) \in Nat \ {0}
      /\ Len(Tail(q)) = Len(q) - 1
      /\ \A i \in 1 .. Len(Tail(q)) : Tail(q)[i] = q[i + 1]
  BY HeadTailProperties, EmptySeq, LenProperties
<1>4. (Tail(q) = << >>) <=> Len(q) = 1
  BY <1>3, EmptySeq
<1> DEFINE t == Tail(q)
<1> HIDE DEF t
<1>5. /\ Len(t) = Len(q) - 1
      /\ \A i \in 1 .. Len(q) - 1 : t[i] = q[i + 1]
      /\ (t = << >>) <=> Len(q) = 1
  BY <1>3, <1>4 DEF t
<1>6. Chain(t, in2, outs2)
  <2>1. t # << >> => FedBy(in2, outs2, t[1])
    <3> SUFFICES ASSUME t # << >> PROVE FedBy(in2, outs2, t[1])
      OBVIOUS
    <3>1. t[1] = q[2] /\ 2 \in 2 .. Len(q) /\ q[2 - 1] = q[1]
      BY <1>3, <1>5
    <3>2. Feeds(q[1], q[2])
      BY <3>1 DEF Chain
    <3> QED
      BY <1>2, <3>1, <3>2
  <2>2. ASSUME NEW i \in 2 .. Len(t) PROVE Feeds(t[i - 1], t[i])
    <3>1. t[i] = q[i + 1] /\ t[i - 1] = q[(i + 1) - 1] /\ i + 1 \in 2 .. Len(q)
      BY <1>3, <1>5
    <3> QED
      BY <3>1 DEF Chain
  <2> QED
    BY <2>1, <2>2 DEF Chain
<1>7. ASSUME NEW op, Extends(q, in, outs, op) PROVE Extends(t, in2, outs2, op)
  <2>1. Feeds(q[Len(q)], op)
    BY <1>7 DEF Extends
  <2>2. CASE t = << >>
    <3>1. Len(q) = 1
      BY <1>5, <2>2
    <3>2. FedBy(in2, outs2, op)
      BY <1>2, <2>1, <3>1
    <3> QED
      BY <2>2, <3>2 DEF Extends
  <2>3. CASE t # << >>
    <3>1. t[Len(t)] = q[Len(q)]
      BY <1>3, <1>5, <2>3
    <3> QED
      BY <2>1, <2>3, <3>1 DEF Extends
  <2> QED
    BY <2>2, <2>3
<1> QED
  BY <1>6, <1>7 DEF t

(***************************************************************************)
(* Each step keeps the invariant of the context that takes it.              *)
(***************************************************************************)

LEMMA SubmitInputCtx ==
  ASSUME TypeInv, NEW c \in Contexts, CtxInv(c), SubmitInput(c)
  PROVE  CtxInv(c)'
<1> DEFINE op == Op("h2d", run[c] + 1, 0)
<1>1. /\ run[c] + 1 \in Runs /\ run'[c] = run[c] + 1
      /\ op \in OpType /\ op.kind = "h2d" /\ op.run = run'[c]
  <2>1. run[c] < MaxRun /\ run' = [run EXCEPT ![c] = run[c] + 1]
    BY DEF SubmitInput
  <2>2. run \in [Contexts -> {0} \cup Runs]
    BY DEF TypeInv, TypeOK
  <2>3. run[c] \in Nat
    BY <2>2, RunsNat DEF Answer0
  <2>4. run[c] + 1 \in Runs
    BY <2>1, <2>3, CountAssumption DEF Runs
  <2>5. run'[c] = run[c] + 1
    BY <2>1, <2>2
  <2> QED
    BY <2>4, <2>5 DEF Op, OpType
<1>2. /\ queue[c] \in Seq(OpType) /\ queue'[c] = queue[c] \o << op >>
      /\ din' = din /\ dout' = dout
  BY DEF SubmitInput, Submit, TypeInv, TypeOK
<1> HIDE DEF op
<1>3. /\ << op >> \in Seq(OpType) /\ << op >> # << >>
      /\ Len(<< op >>) = 1 /\ << op >>[1] = op
  BY <1>1
<1>4. Extends(queue[c], din[c], dout[c], op)
  BY <1>1 DEF Extends, FedBy, Feeds
<1>5. Chain(queue[c], din[c], dout[c])
  BY DEF CtxInv, StreamInv
<1>6. \A i \in 2 .. Len(<< op >>) : Feeds(<< op >>[i - 1], << op >>[i])
  BY <1>3
<1>7. /\ Chain(queue'[c], din[c], dout[c])
      /\ queue'[c] # << >> /\ queue'[c][Len(queue'[c])] = op
  BY <1>2, <1>3, <1>4, <1>5, <1>6, ChainAppend
<1>8. StreamInv(c)'
  BY <1>2, <1>7 DEF StreamInv
<1>9. Follows(c, Op("infer", run[c], 0))'
  BY <1>1, <1>7 DEF Follows, Extends, Feeds, Op
<1>10. ThreadInv(c)'
  BY <1>9 DEF SubmitInput, Goto, CtxInv, ThreadInv, stagedVars, TypeInv, TypeOK
<1>11. GraphInv(c)' /\ HostInv(c)'
  BY DEF SubmitInput, Goto, CtxInv, GraphInv, HostInv, TypeInv, TypeOK
<1> QED
  BY <1>8, <1>10, <1>11 DEF CtxInv

LEMMA CopyInputCtx ==
  ASSUME TypeInv, NEW c \in Contexts, CtxInv(c), CopyInput(c)
  PROVE  CtxInv(c)'
<1>1. /\ queue'[c] = << >> /\ din'[c] = run'[c]
      /\ pc'[c] = "call" /\ call'[c] = "executeV2"
  BY DEF CopyInput, Drained, Goto, TypeInv, TypeOK
<1>2. StreamInv(c)'
  BY <1>1, EmptySeq DEF StreamInv, Chain
<1>3. Follows(c, Op("infer", run[c], 0))'
  BY <1>1 DEF Follows, Extends, FedBy, Op
<1>4. ThreadInv(c)'
  BY <1>1, <1>3 DEF CopyInput, CtxInv, ThreadInv, stagedVars
<1>5. GraphInv(c)' /\ HostInv(c)'
  BY <1>1 DEF CopyInput, CtxInv, GraphInv, HostInv
<1> QED
  BY <1>2, <1>4, <1>5 DEF CtxInv

LEMMA BeginCaptureCtx ==
  ASSUME TypeInv, NEW c \in Contexts, CtxInv(c), BeginCapture(c)
  PROVE  CtxInv(c)'
<1>1. pc'[c] = "call" /\ call'[c] = "capture"
  BY DEF BeginCapture, Goto, TypeInv, TypeOK
<1>2. StreamInv(c)' /\ HostInv(c)'
  BY DEF BeginCapture, deviceVars, CtxInv, StreamInv, HostInv
<1>3. ThreadInv(c)' /\ GraphInv(c)'
  BY <1>1 DEF BeginCapture, deviceVars, stagedVars, CtxInv, ThreadInv, GraphInv
<1> QED
  BY <1>2, <1>3 DEF CtxInv

LEMMA EndCaptureCtx ==
  ASSUME TypeInv, NEW c \in Contexts, CtxInv(c), EndCapture(c)
  PROVE  CtxInv(c)'
<1>1. pc'[c] = "idle" /\ call'[c] = "capture"
  BY DEF EndCapture, Goto, TypeInv, TypeOK
<1>2. StreamInv(c)' /\ HostInv(c)'
  BY DEF EndCapture, deviceVars, CtxInv, StreamInv, HostInv
<1>3. ThreadInv(c)'
  BY <1>1 DEF EndCapture, deviceVars, stagedVars, CtxInv, ThreadInv
<1>4. GraphInv(c)'
  BY <1>1 DEF EndCapture, CtxInv, GraphInv, TypeInv, TypeOK
<1> QED
  BY <1>2, <1>3, <1>4 DEF CtxInv

LEMMA LaunchGraphCtx ==
  ASSUME TypeInv, NEW c \in Contexts, CtxInv(c), LaunchGraph(c)
  PROVE  CtxInv(c)'
<1> DEFINE ops == [i \in DOMAIN graph[c] |-> Op(graph[c][i], run[c], 0)]
<1>1. run[c] \in Runs /\ graph[c] = << "infer" >> /\ graph[c] \in Seq({"infer"})
  BY DEF LaunchGraph, TypeInv, TypeOK, Asked, CtxInv, GraphInv
<1>2. ops \in Seq(OpType)
  BY <1>1, LaunchType
<1>3. /\ DOMAIN << "infer" >> = 1 .. 1
      /\ << "infer" >>[1] = "infer"
  OBVIOUS
<1>4. /\ DOMAIN ops = 1 .. 1
      /\ ops[1] = Op("infer", run[c], 0)
  BY <1>1, <1>3
<1>5. /\ queue[c] \in Seq(OpType) /\ queue'[c] = queue[c] \o ops
      /\ din' = din /\ dout' = dout /\ run' = run
      /\ pc'[c] = "accepted" /\ call'[c] = "enqueueV3"
  BY DEF LaunchGraph, Submit, Goto, TypeInv, TypeOK
<1>6. Extends(queue[c], din[c], dout[c], Op("infer", run[c], 0))
  BY DEF LaunchGraph, CtxInv, ThreadInv, Follows
<1> HIDE DEF ops
<1>7. Len(ops) = 1 /\ ops # << >>
  <2>1. Len(ops) \in Nat /\ DOMAIN ops = 1 .. Len(ops)
    BY <1>2, LenProperties
  <2>2. 1 .. Len(ops) = 1 .. 1
    BY <1>4, <2>1
  <2>3. Len(ops) = 1
    BY <2>1, <2>2
  <2> QED
    BY <1>2, <2>3, EmptySeq
<1>8. \A i \in 2 .. Len(ops) : Feeds(ops[i - 1], ops[i])
  BY <1>7
<1>9. Chain(queue[c], din[c], dout[c])
  BY DEF CtxInv, StreamInv
<1>10. /\ Chain(queue'[c], din[c], dout[c])
       /\ queue'[c] # << >>
       /\ queue'[c][Len(queue'[c])] = Op("infer", run[c], 0)
  BY <1>2, <1>4, <1>5, <1>6, <1>7, <1>8, <1>9, ChainAppend
<1>11. StreamInv(c)'
  BY <1>5, <1>10 DEF StreamInv
<1>12. Follows(c, Op("d2h", run[c], 1))'
  BY <1>5, <1>10 DEF Follows, Extends, Feeds, Op
<1>13. ThreadInv(c)'
  BY <1>5, <1>12 DEF LaunchGraph, CtxInv, ThreadInv, stagedVars
<1>14. GraphInv(c)' /\ HostInv(c)'
  BY <1>5 DEF LaunchGraph, CtxInv, GraphInv, HostInv
<1> QED
  BY <1>11, <1>13, <1>14 DEF CtxInv

LEMMA FetchOutputsCtx ==
  ASSUME TypeInv, NEW c \in Contexts, CtxInv(c), FetchOutputs(c)
  PROVE  CtxInv(c)'
<1> DEFINE ops == [o \in Outs |-> Op("d2h", run[c], o)]
<1>1. run[c] \in Runs
  BY DEF FetchOutputs, TypeInv, Asked
<1>2. ops \in Seq(OpType) /\ Len(ops) = OutputCount /\ 1 \in Outs
  BY <1>1, FetchType, CountAssumption DEF Outs
<1>3. \A o \in Outs : ops[o] = Op("d2h", run[c], o)
  OBVIOUS
<1>4. /\ queue[c] \in Seq(OpType) /\ queue'[c] = queue[c] \o ops
      /\ din' = din /\ dout' = dout /\ pc'[c] = "idle"
  BY DEF FetchOutputs, Submit, Goto, TypeInv, TypeOK
<1>5. Extends(queue[c], din[c], dout[c], Op("d2h", run[c], 1))
  BY DEF FetchOutputs, CtxInv, ThreadInv, Follows
<1> HIDE DEF ops
<1>6. ops # << >>
  BY <1>2, CountAssumption, EmptySeq
<1>7. ASSUME NEW i \in 2 .. Len(ops) PROVE Feeds(ops[i - 1], ops[i])
  <2>1. i \in Outs /\ i - 1 \in Outs
    BY <1>2, CountAssumption DEF Outs
  <2>2. /\ ops[i - 1] = Op("d2h", run[c], i - 1)
        /\ ops[i] = Op("d2h", run[c], i)
    BY <1>3, <2>1
  <2> QED
    BY <2>2 DEF Feeds, Op
<1>8. Chain(queue[c], din[c], dout[c])
  BY DEF CtxInv, StreamInv
<1>9. Chain(queue'[c], din[c], dout[c])
  BY <1>2, <1>3, <1>4, <1>5, <1>6, <1>7, <1>8, ChainAppend
<1>10. StreamInv(c)'
  BY <1>4, <1>9 DEF StreamInv
<1>11. ThreadInv(c)' /\ GraphInv(c)' /\ HostInv(c)'
  BY <1>4 DEF FetchOutputs, CtxInv, ThreadInv, GraphInv, HostInv, stagedVars
<1> QED
  BY <1>10, <1>11 DEF CtxInv

LEMMA CopyOutputsCtx ==
  ASSUME TypeInv, NEW c \in Contexts, CtxInv(c), CopyOutputs(c)
  PROVE  CtxInv(c)'
<1>1. \A o \in Outs : dout[c][o] = run[c]
  BY DEF CopyOutputs, CtxInv, ThreadInv, Follows, Extends, FedBy, Op
<1>2. run[c] \in Runs /\ pc'[c] = "idle"
  BY DEF CopyOutputs, Goto, TypeInv, TypeOK, Asked
<1>3. HostInv(c)'
  BY <1>1, <1>2 DEF CopyOutputs, CtxInv, HostInv, TypeInv, TypeOK
<1>4. StreamInv(c)' /\ ThreadInv(c)' /\ GraphInv(c)'
  BY <1>2 DEF CopyOutputs, CtxInv, StreamInv, ThreadInv, GraphInv, stagedVars
<1> QED
  BY <1>3, <1>4 DEF CtxInv

LEMMA GiveUpCtx ==
  ASSUME TypeInv, NEW c \in Contexts, CtxInv(c), GiveUp(c)
  PROVE  CtxInv(c)'
<1>1. pc'[c] = "idle"
  BY DEF GiveUp, Goto, TypeInv, TypeOK
<1>2. StreamInv(c)' /\ HostInv(c)'
  BY DEF GiveUp, deviceVars, CtxInv, StreamInv, HostInv
<1>3. ThreadInv(c)' /\ GraphInv(c)'
  BY <1>1 DEF GiveUp, CtxInv, ThreadInv, GraphInv, deviceVars, stagedVars
<1> QED
  BY <1>2, <1>3 DEF CtxInv

LEMMA ExecuteOpCtx ==
  ASSUME TypeInv, NEW c \in Contexts, CtxInv(c), ExecuteOp(c)
  PROVE  CtxInv(c)'
<1> DEFINE op == queue[c][1]
<1>1. /\ queue[c] \in Seq(OpType) /\ queue[c] # << >>
      /\ Len(queue[c]) \in Nat \ {0}
      /\ queue'[c] = Tail(queue[c]) /\ op = Head(queue[c])
      /\ Len(queue'[c]) = Len(queue[c]) - 1
  <2>1. queue[c] \in Seq(OpType) /\ queue[c] # << >> /\ queue'[c] = Tail(queue[c])
    BY DEF ExecuteOp, Drained, TypeInv, TypeOK
  <2> QED
    BY <2>1, HeadTailProperties, EmptySeq, LenProperties
<1>2. op \in OpType
  BY <1>1, ElementOfSeq
<1>3. FedBy(din[c], dout[c], op) /\ Chain(queue[c], din[c], dout[c])
  BY <1>1 DEF CtxInv, StreamInv, Chain
<1>4. Executed(op, din[c], dout[c], din'[c], dout'[c])
  BY <1>1 DEF ExecuteOp, Executed, TypeInv, TypeOK
<1>5. mark'[c][c] = IF mark[c][c] > 0 THEN mark[c][c] - 1 ELSE 0
  BY DEF ExecuteOp, TypeInv, TypeOK
<1>6. HostInv(c)'
  <2>1. CASE host' = host
    BY <2>1 DEF CtxInv, HostInv
  <2>2. CASE host' # host
    <3>1. /\ op.kind = "d2h"
          /\ host' = [host EXCEPT ![c][op.run][op.out] = dout[c][op.out]]
      BY <1>1, <2>2 DEF ExecuteOp
    <3>2. op.run \in Runs /\ op.out \in Outs
      BY <1>2, <3>1 DEF OpType
    <3>3. dout[c][op.out] = op.run
      BY <1>3, <3>1, <3>2 DEF FedBy
    <3>4. host \in [Contexts -> [Runs -> [Outs -> {0} \cup Runs]]]
      BY DEF TypeInv, TypeOK
    <3> HIDE DEF op
    <3>5. \A r \in Runs, o \in Outs :
            host'[c][r][o] = IF r = op.run /\ o = op.out THEN op.run
                             ELSE host[c][r][o]
      BY <3>1, <3>2, <3>3, <3>4
    <3> QED
      BY <3>5 DEF CtxInv, HostInv
  <2> QED
    BY <2>1, <2>2
<1> HIDE DEF op
<1>7. /\ Chain(queue'[c], din'[c], dout'[c])
      /\ \A f : Extends(queue[c], din[c], dout[c], f)
               => Extends(queue'[c], din'[c], dout'[c], f)
  BY <1>1, <1>3, <1>4, ChainExecute DEF op
<1>8. StreamInv(c)'
  BY <1>7 DEF StreamInv
<1>9. \A f : Follows(c, f) => Extends(queue'[c], din'[c], dout'[c], f)
  BY <1>7 DEF Follows
<1>10. /\ pc'[c] = pc[c] /\ call'[c] = call[c] /\ run'[c] = run[c]
       /\ mode'[c] = mode[c] /\ graph'[c] = graph[c]
       /\ staging'[c] = staging[c] /\ results'[c] = results[c]
       /\ copied'[c] = copied[c]
  BY DEF ExecuteOp, threadVars
<1>11. /\ pc[c] \notin {"eval", "copyout"}
       /\ pc[c] # "idle" => call[c] # "executeV2"
  BY <1>1 DEF CtxInv, ThreadInv
<1>12. pc[c] = "copyin" => mark'[c][c] = Len(queue'[c])
  BY <1>1, <1>5 DEF CtxInv, ThreadInv
<1>13. /\ pc[c] \in {"call", "copyin"} /\ call[c] # "capture"
            => Extends(queue'[c], din'[c], dout'[c], Op("infer", run[c], 0))
       /\ pc[c] = "accepted" /\ call[c] # "capture"
            => Extends(queue'[c], din'[c], dout'[c], Op("d2h", run[c], 1))
  BY <1>9 DEF CtxInv, ThreadInv
<1>14. ThreadInv(c)'
  BY <1>10, <1>11, <1>12, <1>13 DEF CtxInv, ThreadInv, Follows, Op
<1>15. GraphInv(c)'
  BY <1>10 DEF CtxInv, GraphInv
<1> QED
  BY <1>6, <1>8, <1>14, <1>15 DEF CtxInv

LEMMA RunZeroCopyCtx ==
  ASSUME TypeInv, NEW c \in Contexts, CtxInv(c), RunZeroCopy(c)
  PROVE  CtxInv(c)'
<1>1. /\ pc'[c] = "accepted" /\ call'[c] = call[c] /\ run'[c] = run[c]
      /\ mode'[c] = mode[c] /\ din'[c] = din[c] /\ copied'[c] = copied[c]
      /\ pc[c] = "call" /\ host' = host
  BY DEF RunZeroCopy, Called, Goto, stagedVars, TypeInv, TypeOK
<1>2. HostInv(c)'
  BY <1>1 DEF CtxInv, HostInv
<1>3. CASE call[c] = "enqueueV3"
  <2> DEFINE op == Op("infer", run[c], 0)
  <2>1. /\ queue[c] \in Seq(OpType) /\ queue'[c] = queue[c] \o << op >>
        /\ dout'[c] = dout[c] /\ graph'[c] = graph[c]
    BY <1>3 DEF RunZeroCopy, Submit, TypeInv, TypeOK
  <2>2. op \in OpType
    BY <1>1 DEF TypeInv, Asked, Op, OpType
  <2>3. Extends(queue[c], din[c], dout[c], op) /\ Chain(queue[c], din[c], dout[c])
    BY <1>1, <1>3 DEF CtxInv, ThreadInv, StreamInv, Follows
  <2> HIDE DEF op
  <2>4. /\ << op >> \in Seq(OpType) /\ << op >> # << >>
        /\ Len(<< op >>) = 1 /\ << op >>[1] = op
    BY <2>2
  <2>5. \A i \in 2 .. Len(<< op >>) : Feeds(<< op >>[i - 1], << op >>[i])
    BY <2>4
  <2>6. /\ Chain(queue'[c], din[c], dout[c])
        /\ queue'[c] # << >> /\ queue'[c][Len(queue'[c])] = op
    BY <2>1, <2>3, <2>4, <2>5, ChainAppend
  <2>7. StreamInv(c)'
    BY <1>1, <2>1, <2>6 DEF StreamInv
  <2>8. Follows(c, Op("d2h", run[c], 1))'
    BY <1>1, <2>6 DEF Follows, Extends, Feeds, Op, op
  <2>9. ThreadInv(c)' /\ GraphInv(c)'
    BY <1>1, <1>3, <2>1, <2>8 DEF CtxInv, ThreadInv, GraphInv
  <2> QED
    BY <1>2, <2>7, <2>9 DEF CtxInv
<1>4. CASE call[c] = "capture"
  <2>1. /\ queue'[c] = queue[c] /\ dout'[c] = dout[c]
        /\ graph'[c] = Append(graph[c], "infer")
    BY <1>4 DEF RunZeroCopy, TypeInv, TypeOK
  <2>2. mode[c] = "explicit" /\ graph[c] = << >>
    BY <1>1, <1>4, TypeInv DEF CtxInv, GraphInv, TypeInv, TypeOK
  <2>3. graph'[c] = << "infer" >>
    BY <2>1, <2>2
  <2>4. StreamInv(c)'
    BY <1>1, <2>1 DEF CtxInv, StreamInv
  <2>5. ThreadInv(c)' /\ GraphInv(c)'
    BY <1>1, <1>4, <2>2, <2>3 DEF CtxInv, ThreadInv, GraphInv
  <2> QED
    BY <1>2, <2>4, <2>5 DEF CtxInv
<1>5. CASE call[c] = "executeV2"
  <2>1. /\ queue'[c] = queue[c] /\ graph'[c] = graph[c]
        /\ dout'[c] = [o \in Outs |-> din[c]]
    BY <1>5 DEF RunZeroCopy, TypeInv, TypeOK
  <2>2. queue[c] = << >> /\ din[c] = run[c]
    BY <1>1, <1>5 DEF CtxInv, ThreadInv, Follows, Extends, FedBy, Op
  <2>3. StreamInv(c)'
    BY <2>1, <2>2, EmptySeq DEF StreamInv, Chain
  <2>4. Follows(c, Op("d2h", run[c], 1))'
    BY <1>1, <2>1, <2>2 DEF Follows, Extends, FedBy, Op
  <2>5. ThreadInv(c)' /\ GraphInv(c)'
    BY <1>1, <1>5, <2>1, <2>2, <2>4 DEF CtxInv, ThreadInv, GraphInv
  <2> QED
    BY <1>2, <2>3, <2>5 DEF CtxInv
<1> QED
  BY <1>3, <1>4, <1>5 DEF TypeInv, TypeOK

LEMMA ZeroCopyFailsCtx ==
  ASSUME TypeInv, NEW c \in Contexts, CtxInv(c), ZeroCopyFails(c)
  PROVE  CtxInv(c)'
<1>1. pc'[c] = "failed" /\ pc[c] = "call"
  BY DEF ZeroCopyFails, Called, Goto, TypeInv, TypeOK
<1>2. StreamInv(c)' /\ HostInv(c)'
  BY DEF ZeroCopyFails, deviceVars, CtxInv, StreamInv, HostInv
<1>3. ThreadInv(c)' /\ GraphInv(c)'
  BY <1>1 DEF ZeroCopyFails, CtxInv, ThreadInv, GraphInv, deviceVars, stagedVars
<1> QED
  BY <1>2, <1>3 DEF CtxInv

(* Every hipMemcpy of a staged call waits for the call's own stream too.    *)
StagedBlocks == Staged \cap NonBlocking = {}

LEMMA RunStagedCtx ==
  ASSUME TypeInv, StagedBlocks, NEW c \in Contexts, CtxInv(c), RunStaged(c)
  PROVE  CtxInv(c)'
<1>1. pc'[c] = "copyin" /\ pc[c] = "call"
  BY DEF RunStaged, Called, Goto, TypeInv, TypeOK
<1>2. mark'[c][c] = Len(queue[c])
  BY DEF RunStaged, CallMemcpy, StagedBlocks, Blocking, TypeInv, TypeOK
<1>3. StreamInv(c)' /\ HostInv(c)'
  BY DEF RunStaged, deviceVars, CtxInv, StreamInv, HostInv
<1>4. ThreadInv(c)' /\ GraphInv(c)'
  BY <1>1, <1>2
  DEF RunStaged, deviceVars, CtxInv, ThreadInv, Follows, GraphInv
<1> QED
  BY <1>3, <1>4 DEF CtxInv

(* A copy to the host that has become ready finds the stream drained.       *)
LEMMA CopyInDrained ==
  ASSUME TypeInv, NEW c \in Contexts, CtxInv(c), CopyIn(c)
  PROVE  queue[c] = << >> /\ din[c] = run[c]
<1>1. queue[c] \in Seq(OpType)
  BY DEF TypeInv, TypeOK
<1>2. Len(queue[c]) = 0
  BY DEF CopyIn, MemcpyReady, CtxInv, ThreadInv
<1>3. queue[c] = << >>
  BY <1>1, <1>2, EmptySeq
<1> QED
  BY <1>3
  DEF CopyIn, MemcpyReady, CtxInv, ThreadInv, Follows, Extends, FedBy, Op

LEMMA CopyInCtx ==
  ASSUME TypeInv, NEW c \in Contexts, CtxInv(c), CopyIn(c)
  PROVE  CtxInv(c)'
<1>1. /\ pc'[c] = "eval" /\ pc[c] = "copyin" /\ call[c] # "capture"
      /\ staging'[c] = din[c]
  BY DEF CopyIn, MemcpyReady, Goto, TypeInv, TypeOK
<1>2. queue[c] = << >> /\ din[c] = run[c]
  BY CopyInDrained
<1>3. StreamInv(c)' /\ HostInv(c)'
  BY DEF CopyIn, deviceVars, CtxInv, StreamInv, HostInv
<1>4. ThreadInv(c)' /\ GraphInv(c)'
  BY <1>1, <1>2 DEF CopyIn, deviceVars, CtxInv, ThreadInv, GraphInv
<1> QED
  BY <1>3, <1>4 DEF CtxInv

LEMMA EvalCtx ==
  ASSUME TypeInv, NEW c \in Contexts, CtxInv(c), Eval(c)
  PROVE  CtxInv(c)'
<1>1. /\ pc'[c] = "copyout" /\ pc[c] = "eval"
      /\ results'[c] = run[c] /\ copied'[c] = 0
  BY DEF Eval, Goto, CtxInv, ThreadInv, TypeInv, TypeOK
<1>2. StreamInv(c)' /\ HostInv(c)'
  BY DEF Eval, deviceVars, CtxInv, StreamInv, HostInv
<1>3. ~ \E o \in Outs : o <= 0
  BY CountAssumption DEF Outs
<1>4. ThreadInv(c)' /\ GraphInv(c)'
  BY <1>1, <1>3, CountAssumption
  DEF Eval, deviceVars, CtxInv, ThreadInv, GraphInv
<1> QED
  BY <1>2, <1>4 DEF CtxInv

LEMMA CopyOutCtx ==
  ASSUME TypeInv, NEW c \in Contexts, CtxInv(c), CopyOut(c)
  PROVE  CtxInv(c)'
<1>1. /\ pc[c] = "copyout" /\ call[c] # "capture" /\ queue'[c] = << >>
      /\ queue[c] = << >>
      /\ call'[c] = call[c] /\ run'[c] = run[c]
      /\ mode'[c] = mode[c] /\ graph'[c] = graph[c] /\ host'[c] = host[c]
  BY DEF CopyOut, MemcpyReady, CtxInv, ThreadInv
<1>2. StreamInv(c)' /\ HostInv(c)'
  BY <1>1, EmptySeq DEF CtxInv, StreamInv, Chain, HostInv
<1>3. copied[c] \in Nat /\ copied[c] < OutputCount /\ copied[c] + 1 \in Outs
  BY CountAssumption, <1>1 DEF CtxInv, ThreadInv, TypeInv, TypeOK, Outs
<1>4. ASSUME NEW o \in Outs, o <= copied[c] + 1
      PROVE  dout'[c][o] = run[c]
  <2>1. dout'[c] = [dout[c] EXCEPT ![copied[c] + 1] = run[c]]
    BY <1>1 DEF CopyOut, CtxInv, ThreadInv, TypeInv, TypeOK
  <2>2. dout[c] \in [Outs -> {0} \cup Runs]
    BY DEF TypeInv, TypeOK
  <2>3. CASE o = copied[c] + 1
    BY <1>3, <2>1, <2>2, <2>3
  <2>4. CASE o # copied[c] + 1
    <3>1. o <= copied[c]
      BY <1>3, <1>4, <2>4, OutsNat
    <3>2. dout[c][o] = run[c]
      BY <1>1, <3>1 DEF CtxInv, ThreadInv
    <3> QED
      BY <2>1, <2>2, <2>4, <3>2
  <2> QED
    BY <2>3, <2>4
<1>5. CASE copied[c] + 1 < OutputCount
  <2>1. /\ pc'[c] = "copyout" /\ copied'[c] = copied[c] + 1
        /\ results'[c] = run[c]
    BY <1>1, <1>5 DEF CopyOut, CtxInv, ThreadInv, TypeInv, TypeOK
  <2>2. ThreadInv(c)' /\ GraphInv(c)'
    BY <1>1, <1>4, <1>5, <2>1 DEF CtxInv, ThreadInv, GraphInv
  <2> QED
    BY <1>2, <2>2 DEF CtxInv
<1>6. CASE ~(copied[c] + 1 < OutputCount)
  <2>1. pc'[c] = "accepted" /\ copied'[c] = 0
    BY <1>6 DEF CopyOut, Return, Goto, TypeInv, TypeOK
  <2>2. \A o \in Outs : dout'[c][o] = run[c]
    BY <1>3, <1>4, <1>6, CountAssumption DEF Outs
  <2>3. Follows(c, Op("d2h", run[c], 1))'
    BY <1>1, <2>2 DEF Follows, Extends, FedBy, Op
  <2>4. ThreadInv(c)' /\ GraphInv(c)'
    BY <1>1, <2>1, <2>3 DEF CtxInv, ThreadInv, GraphInv
  <2> QED
    BY <1>2, <2>4 DEF CtxInv
<1> QED
  BY <1>5, <1>6

LEMMA StagedFailsCtx ==
  ASSUME TypeInv, NEW c \in Contexts, CtxInv(c), StagedFails(c)
  PROVE  CtxInv(c)'
<1>1. pc'[c] = "failed" /\ copied'[c] = 0
  BY DEF StagedFails, Return, Goto, TypeInv, TypeOK
<1>2. StreamInv(c)' /\ HostInv(c)'
  BY DEF StagedFails, deviceVars, CtxInv, StreamInv, HostInv
<1>3. ThreadInv(c)' /\ GraphInv(c)'
  BY <1>1 DEF StagedFails, CtxInv, ThreadInv, GraphInv, deviceVars
<1> QED
  BY <1>2, <1>3 DEF CtxInv

(***************************************************************************)
(* And leaves the other contexts' state alone.                              *)
(***************************************************************************)

LEMMA ClientStepSame ==
  ASSUME TypeInv, NEW c \in Contexts, NEW d \in Contexts, c # d, ClientStep(d)
  PROVE  Same(c)
<1> USE DEF TypeInv, TypeOK, Same, Goto, Submit, deviceVars, stagedVars
<1>1. CASE SubmitInput(d)
  BY <1>1 DEF SubmitInput
<1>2. CASE CopyInput(d)
  BY <1>2 DEF CopyInput
<1>3. CASE BeginCapture(d)
  BY <1>3 DEF BeginCapture
<1>4. CASE EndCapture(d)
  BY <1>4 DEF EndCapture
<1>5. CASE LaunchGraph(d)
  BY <1>5 DEF LaunchGraph
<1>6. CASE FetchOutputs(d)
  BY <1>6 DEF FetchOutputs
<1>7. CASE CopyOutputs(d)
  BY <1>7 DEF CopyOutputs
<1>8. CASE GiveUp(d)
  BY <1>8 DEF GiveUp
<1> QED
  BY <1>1, <1>2, <1>3, <1>4, <1>5, <1>6, <1>7, <1>8 DEF ClientStep

LEMMA ExecuteOpSame ==
  ASSUME TypeInv, NEW c \in Contexts, NEW d \in Contexts, c # d, ExecuteOp(d)
  PROVE  Same(c)
<1>1. queue'[c] = queue[c] /\ mark'[c][c] = mark[c][c]
  BY DEF ExecuteOp, TypeInv, TypeOK
<1>2. din'[c] = din[c] /\ dout'[c] = dout[c] /\ host'[c] = host[c]
  BY DEF ExecuteOp, TypeInv, TypeOK
<1> QED
  BY <1>1, <1>2 DEF ExecuteOp, Same, threadVars

LEMMA RunStepSame ==
  ASSUME TypeInv, NEW c \in Contexts, NEW d \in Contexts, c # d, RunStep(d)
  PROVE  Same(c)
<1> USE DEF TypeInv, TypeOK, Same, Goto, Submit, CallMemcpy, Return,
            deviceVars, threadVars, stagedVars
<1>1. CASE RunZeroCopy(d)
  BY <1>1 DEF RunZeroCopy
<1>2. CASE ZeroCopyFails(d)
  BY <1>2 DEF ZeroCopyFails
<1>3. CASE RunStaged(d)
  BY <1>3 DEF RunStaged
<1>4. CASE CopyIn(d)
  BY <1>4 DEF CopyIn
<1>5. CASE Eval(d)
  BY <1>5 DEF Eval
<1>6. CASE CopyOut(d)
  BY <1>6 DEF CopyOut
<1>7. CASE StagedFails(d)
  BY <1>7 DEF StagedFails
<1> QED
  BY <1>1, <1>2, <1>3, <1>4, <1>5, <1>6, <1>7 DEF RunStep

(***************************************************************************)
(* The invariant, and what it implies.                                      *)
(***************************************************************************)

Inv == TypeInv /\ \A c \in Contexts : CtxInv(c)

LEMMA InvInit == Init => \A c \in Contexts : CtxInv(c)
<1> SUFFICES ASSUME Init, NEW c \in Contexts PROVE CtxInv(c)
  OBVIOUS
<1>1. StreamInv(c)
  BY EmptySeq DEF Init, StreamInv, Chain
<1>2. ThreadInv(c) /\ GraphInv(c)
  BY DEF Init, ThreadInv, GraphInv
<1>3. HostInv(c)
  BY DEF Init, HostInv
<1> QED
  BY <1>1, <1>2, <1>3 DEF CtxInv

LEMMA InvStep ==
  ASSUME StagedBlocks, Inv, [Next]_vars
  PROVE  \A c \in Contexts : CtxInv(c)'
<1> TAKE c \in Contexts
<1>1. TypeInv /\ CtxInv(c)
  BY DEF Inv
<1>2. CASE UNCHANGED vars
  <2>1. Same(c)
    BY <1>2 DEF vars, deviceVars, threadVars, stagedVars, Same
  <2> QED
    BY <1>1, <2>1, CtxFrame
<1>3. ASSUME NEW d \in Contexts, ClientStep(d) \/ ExecuteOp(d) \/ RunStep(d)
      PROVE  CtxInv(c)'
  <2>1. CASE c # d
    <3>1. Same(c)
      BY <1>1, <1>3, <2>1, ClientStepSame, ExecuteOpSame, RunStepSame
    <3> QED
      BY <1>1, <3>1, CtxFrame
  <2>2. CASE c = d
    <3>1. CASE ClientStep(c)
      BY <1>1, <3>1, SubmitInputCtx, CopyInputCtx, BeginCaptureCtx,
         EndCaptureCtx, LaunchGraphCtx, FetchOutputsCtx, CopyOutputsCtx,
         GiveUpCtx
      DEF ClientStep
    <3>2. CASE ExecuteOp(c)
      BY <1>1, <3>2, ExecuteOpCtx
    <3>3. CASE RunStep(c)
      BY <1>1, <3>3, RunZeroCopyCtx, ZeroCopyFailsCtx, RunStagedCtx, CopyInCtx,
         EvalCtx, CopyOutCtx, StagedFailsCtx
      DEF RunStep
    <3> QED
      BY <1>3, <2>2, <3>1, <3>2, <3>3
  <2> QED
    BY <2>1, <2>2
<1> QED
  BY <1>2, <1>3 DEF Next

LEMMA Invariant ==
  ASSUME StagedBlocks
  PROVE  Spec => []Inv
<1> DEFINE Ctxs == \A c \in Contexts : CtxInv(c)
<1>1. Init => Ctxs
  BY InvInit
<1>2. TypeInv /\ Ctxs /\ [Next]_vars => Ctxs'
  BY InvStep DEF Inv
<1>3. TypeInv /\ Ctxs => Inv
  BY DEF Inv
<1> HIDE DEF Ctxs
<1> QED
  BY <1>1, <1>2, <1>3, TypeInvariant, PTL DEF Spec

(* Whatever the interleaving of the contexts and the device, the client      *)
(* receives for an inference only what was computed from its input, provided *)
(* the streams of dynamic engines' contexts synchronize with the null        *)
(* stream.                                                                  *)
THEOREM AnswersMatch ==
  ASSUME StagedBlocks
  PROVE  Spec => []ResultsMatch
<1>1. Inv => ResultsMatch
  BY DEF Inv, CtxInv, HostInv, ResultsMatch
<1> QED
  BY <1>1, Invariant, PTL

(* The copies of a staged or synchronous call are made when the stream has   *)
(* nothing left to do, under the same condition.                            *)
THEOREM CopiesOrdered ==
  ASSUME StagedBlocks
  PROVE  Spec => HostCopiesOrdered
<1> DEFINE Ordered ==
      \A c \in Contexts :
        \/ pc[c] = "copyin" /\ pc'[c] = "eval"
        \/ dout'[c] # dout[c] /\ queue'[c] = queue[c]
        => Drained(c)
<1>1. Inv /\ [Next]_vars => [Ordered]_vars
  <2> SUFFICES ASSUME Inv, Next, NEW c \in Contexts,
                      \/ pc[c] = "copyin" /\ pc'[c] = "eval"
                      \/ dout'[c] # dout[c] /\ queue'[c] = queue[c]
               PROVE  queue[c] = << >>
    BY DEF Drained
  <2>1. TypeInv /\ CtxInv(c) /\ ~Same(c)
    BY DEF Inv, Same
  <2>2. ClientStep(c) \/ ExecuteOp(c) \/ RunStep(c)
    BY <2>1, ClientStepSame, ExecuteOpSame, RunStepSame DEF Next
  <2>3. CASE ClientStep(c)
    BY <2>3 DEF ClientStep, SubmitInput, CopyInput, BeginCapture, EndCapture,
       LaunchGraph, FetchOutputs, CopyOutputs, GiveUp, deviceVars
  <2>4. CASE ExecuteOp(c)
    <3>1. queue[c] \in Seq(OpType) /\ queue[c] # << >>
      BY <2>1, <2>4 DEF TypeInv, TypeOK, ExecuteOp, Drained
    <3>2. queue'[c] = Tail(queue[c]) /\ pc' = pc
      BY <2>1, <2>4 DEF TypeInv, TypeOK, ExecuteOp, threadVars
    <3>3. Len(Tail(queue[c])) = Len(queue[c]) - 1 /\ Len(queue[c]) \in Nat
      BY <3>1, HeadTailProperties, LenProperties
    <3>4. queue'[c] # queue[c]
      <4>1. SUFFICES ASSUME queue'[c] = queue[c] PROVE FALSE
        OBVIOUS
      <4>2. Tail(queue[c]) = queue[c]
        BY <3>2, <4>1
      <4> HIDE <4>1
      <4>3. Len(Tail(queue[c])) = Len(queue[c])
        BY Zenon, <4>2
      <4> QED
        BY <3>3, <4>3
    <3> QED
      BY <3>2, <3>4
  <2>5. CASE RunStep(c)
    <3>1. CASE CopyIn(c)
      BY <2>1, <3>1, CopyInDrained
    <3>2. CASE CopyOut(c)
      BY <2>1, <3>2 DEF CopyOut, CtxInv, ThreadInv
    <3>3. CASE RunZeroCopy(c)
      <4>1. pc[c] = "call"
        BY <3>3 DEF RunZeroCopy, Called
      <4>2. dout'[c] # dout[c]
        BY <4>1
      <4>3. call[c] = "executeV2"
        BY <3>3, <4>2 DEF RunZeroCopy
      <4> QED
        BY <2>1, <4>1, <4>3 DEF CtxInv, ThreadInv
    <3>4. CASE ZeroCopyFails(c) \/ RunStaged(c) \/ Eval(c) \/ StagedFails(c)
      BY <2>1, <3>4 DEF ZeroCopyFails, RunStaged, Eval, StagedFails, Called,
         Return, Goto, deviceVars, TypeInv, TypeOK
    <3> QED
      BY <2>5, <3>1, <3>2, <3>3, <3>4 DEF RunStep
  <2> QED
    BY <2>2, <2>3, <2>4, <2>5
<1>2. HostCopiesOrdered <=> [][Ordered]_vars
  BY DEF HostCopiesOrdered
<1> HIDE DEF Ordered
<1> QED
  BY <1>1, <1>2, Invariant, PTL DEF Spec

(***************************************************************************)
(* What capture records does not depend on the streams.                     *)
(***************************************************************************)

LEMMA GraphStep ==
  ASSUME TypeInv, NEW c \in Contexts, GraphInv(c), [Next]_vars
  PROVE  GraphInv(c)'
<1> USE DEF TypeInv, TypeOK, GraphInv, Goto
<1>1. CASE UNCHANGED vars
  BY <1>1 DEF vars, threadVars
<1>2. ASSUME NEW d \in Contexts, ClientStep(d) PROVE GraphInv(c)'
  <2>1. CASE SubmitInput(d) \/ CopyInput(d)
    BY <2>1 DEF SubmitInput, CopyInput
  <2>2. CASE BeginCapture(d)
    BY <2>2 DEF BeginCapture
  <2>3. CASE EndCapture(d)
    BY <2>3 DEF EndCapture
  <2>4. CASE LaunchGraph(d)
    BY <2>4 DEF LaunchGraph
  <2>5. CASE FetchOutputs(d) \/ CopyOutputs(d)
    BY <2>5 DEF FetchOutputs, CopyOutputs
  <2>6. CASE GiveUp(d)
    BY <2>6 DEF GiveUp
  <2> QED
    BY <1>2, <2>1, <2>2, <2>3, <2>4, <2>5, <2>6 DEF ClientStep
<1>3. ASSUME NEW d \in Contexts, ExecuteOp(d) PROVE GraphInv(c)'
  BY <1>3 DEF ExecuteOp, threadVars
<1>4. ASSUME NEW d \in Contexts, RunStep(d) PROVE GraphInv(c)'
  <2>1. CASE RunZeroCopy(d)
    <3>1. CASE c = d /\ call[c] = "capture"
      <4>1. /\ pc[c] = "call" /\ pc'[c] = "accepted" /\ call' = call
            /\ mode' = mode /\ graph'[c] = Append(graph[c], "infer")
        BY <2>1, <3>1 DEF RunZeroCopy, Called
      <4>2. mode[c] = "explicit" /\ graph[c] = << >>
        BY <3>1, <4>1
      <4>3. graph'[c] = << "infer" >>
        BY <4>1, <4>2
      <4> QED
        BY <3>1, <4>1, <4>2, <4>3
    <3>2. CASE ~(c = d /\ call[c] = "capture")
      <4>1. /\ graph'[c] = graph[c] /\ call' = call /\ mode' = mode
            /\ pc'[c] = IF c = d THEN "accepted" ELSE pc[c]
            /\ pc[d] = "call"
        BY <2>1, <3>2 DEF RunZeroCopy, Called
      <4> QED
        BY <3>2, <4>1
    <3> QED
      BY <3>1, <3>2
  <2>2. CASE ZeroCopyFails(d)
    BY <2>2 DEF ZeroCopyFails, Called
  <2>3. CASE RunStaged(d)
    BY <2>3 DEF RunStaged, Called
  <2>4. CASE CopyIn(d)
    BY <2>4 DEF CopyIn, MemcpyReady
  <2>5. CASE Eval(d)
    BY <2>5 DEF Eval
  <2>6. CASE CopyOut(d)
    BY <2>6 DEF CopyOut, MemcpyReady, Return
  <2>7. CASE StagedFails(d)
    BY <2>7 DEF StagedFails, Return
  <2> QED
    BY <1>4, <2>1, <2>2, <2>3, <2>4, <2>5, <2>6, <2>7 DEF RunStep
<1> QED
  BY <1>1, <1>2, <1>3, <1>4 DEF Next

(* A graph launched in place of enqueueV3 holds exactly one inference, on    *)
(* any stream: a staged run, which cannot be recorded, makes the captured    *)
(* call fail.                                                               *)
THEOREM GraphsInfer == Spec => []GraphInfers
<1> DEFINE Graphs == \A c \in Contexts : GraphInv(c)
<1>1. Init => Graphs
  BY DEF Init, GraphInv
<1>2. TypeInv /\ Graphs /\ [Next]_vars => Graphs'
  BY GraphStep
<1>3. Graphs => GraphInfers
  BY DEF GraphInv, GraphInfers
<1> HIDE DEF Graphs
<1> QED
  BY <1>1, <1>2, <1>3, TypeInvariant, PTL DEF Spec

-----------------------------------------------------------------------------
(***************************************************************************)
(* StreamRun implements InferenceOrder.                                     *)
(*                                                                         *)
(* What an answer has to be follows from Inv.  That answers come in the      *)
(* order the inferences were asked for needs in addition that the           *)
(* operations on a stream are in that order, and that no answer is ahead of  *)
(* the first of them.                                                       *)
(***************************************************************************)

(* The operations of q are for inferences up to n, in order.                 *)
InOrder(q, n) ==
  /\ \A i \in 1 .. Len(q) : q[i].run <= n
  /\ \A i \in 2 .. Len(q) : q[i - 1].run <= q[i].run

(* h holds no answer to an inference after n.                               *)
UpTo(h, n) == \A r \in Runs, o \in Outs : h[r][o] # 0 => r <= n

Ordered(q, h, n) ==
  /\ InOrder(q, n)
  /\ UpTo(h, n)
  /\ q # << >> => UpTo(h, q[1].run)

OrderInv(c) == Ordered(queue[c], host[c], run[c])

LEMMA OpRunNat ==
  ASSUME NEW op \in OpType
  PROVE  op.run \in Runs /\ op.run \in Nat
  BY RunsNat DEF OpType

LEMMA UpToLater ==
  ASSUME NEW h, NEW n \in Nat, NEW m \in Nat, n <= m, UpTo(h, n)
  PROVE  UpTo(h, m)
<1>1. \A r \in Runs : r \in Nat
  BY RunsNat
<1>2. \A r \in Runs : r <= n => r <= m
  BY <1>1
<1> QED
  BY <1>2 DEF UpTo

LEMMA OrderedEmpty ==
  ASSUME NEW h, NEW n, UpTo(h, n)
  PROVE  Ordered(<< >>, h, n)
  BY EmptySeq DEF Ordered, InOrder

(* Submitting operations for the current inference.                         *)
LEMMA OrderedAppend ==
  ASSUME NEW q \in Seq(OpType), NEW ops \in Seq(OpType), ops # << >>,
         NEW h, NEW n \in Nat, NEW m \in Nat, n <= m, Ordered(q, h, n),
         \A i \in 1 .. Len(ops) : ops[i].run = m
  PROVE  Ordered(q \o ops, h, m)
<1> DEFINE qq == q \o ops
<1>1. Len(q) \in Nat /\ Len(ops) \in Nat \ {0}
  BY EmptySeq, LenProperties
<1>2. /\ qq \in Seq(OpType)
      /\ Len(qq) = Len(q) + Len(ops)
      /\ \A i \in 1 .. Len(q) + Len(ops) :
           qq[i] = IF i <= Len(q) THEN q[i] ELSE ops[i - Len(q)]
  BY ConcatProperties
<1>3. (q = << >>) <=> Len(q) = 0
  BY EmptySeq
<1>4. \A i \in 1 .. Len(q) : q[i] \in OpType
  BY ElementOfSeq
<1>5. UpTo(h, m)
  BY RunsNat DEF Ordered, UpTo
<1> HIDE DEF qq
<1>6. ASSUME NEW i \in 1 .. Len(qq)
      PROVE  IF i <= Len(q) THEN qq[i] = q[i] /\ q[i].run \in Nat /\ q[i].run <= n
                            ELSE qq[i].run = m
  <2>1. i \in 1 .. Len(q) + Len(ops)
    BY <1>2
  <2>2. CASE i <= Len(q)
    <3>1. i \in 1 .. Len(q) /\ qq[i] = q[i]
      BY <1>1, <1>2, <2>1, <2>2
    <3>2. q[i].run \in Nat
      BY <1>4, <3>1, OpRunNat
    <3>3. q[i].run <= n
      BY <3>1 DEF Ordered, InOrder
    <3> QED
      BY <2>2, <3>1, <3>2, <3>3
  <2>3. CASE ~(i <= Len(q))
    <3>1. i - Len(q) \in 1 .. Len(ops) /\ qq[i] = ops[i - Len(q)]
      BY <1>1, <1>2, <2>1, <2>3
    <3> QED
      BY <2>3, <3>1
  <2> QED
    BY <2>2, <2>3
<1>7. ASSUME NEW i \in 1 .. Len(qq) PROVE qq[i].run <= m
  BY <1>6
<1>8. ASSUME NEW i \in 2 .. Len(qq) PROVE qq[i - 1].run <= qq[i].run
  <2>1. i \in Int /\ i \in 1 .. Len(qq) /\ i - 1 \in 1 .. Len(qq)
    BY <1>1, <1>2
  <2>2. CASE i <= Len(q)
    <3>1. i \in 2 .. Len(q) /\ i - 1 <= Len(q)
      BY <1>1, <2>1, <2>2
    <3>2. qq[i] = q[i] /\ qq[i - 1] = q[i - 1]
      BY <1>6, <2>1, <2>2, <3>1
    <3> QED
      BY <3>1, <3>2 DEF Ordered, InOrder
  <2>3. CASE ~(i <= Len(q))
    <3>1. qq[i].run = m
      BY <1>6, <2>1, <2>3
    <3>2. qq[i - 1].run <= m
      BY <1>7, <2>1
    <3> QED
      BY <3>1, <3>2
  <2> QED
    BY <2>2, <2>3
<1>9. UpTo(h, qq[1].run)
  <2>1. 1 \in 1 .. Len(qq)
    BY <1>1, <1>2
  <2>2. CASE q = << >>
    <3>1. qq[1].run = m
      BY <1>1, <1>3, <1>6, <2>1, <2>2
    <3> QED
      BY <1>5, <3>1
  <2>3. CASE q # << >>
    <3>1. qq[1] = q[1]
      BY <1>1, <1>3, <1>6, <2>1, <2>3
    <3> QED
      BY <2>3, <3>1 DEF Ordered
  <2> QED
    BY <2>2, <2>3
<1>10. InOrder(qq, m)
  BY <1>7, <1>8 DEF InOrder
<1> QED
  BY <1>5, <1>9, <1>10 DEF Ordered, qq

(* Executing the first operation, which may deliver an answer to its         *)
(* inference.                                                               *)
LEMMA OrderedExecute ==
  ASSUME NEW q \in Seq(OpType), q # << >>, NEW h, NEW h2, NEW n \in Nat,
         Ordered(q, h, n),
         \A r \in Runs, o \in Outs : h2[r][o] # h[r][o] => r = q[1].run
  PROVE  Ordered(Tail(q), h2, n)
<1>1. /\ Len(q) \in Nat \ {0}
      /\ Len(Tail(q)) = Len(q) - 1
      /\ \A i \in 1 .. Len(Tail(q)) : Tail(q)[i] = q[i + 1]
      /\ Tail(q) \in Seq(OpType)
  BY HeadTailProperties, EmptySeq, LenProperties
<1>2. (Tail(q) = << >>) <=> Len(Tail(q)) = 0
  BY <1>1, EmptySeq
<1>3. \A i \in 1 .. Len(q) : q[i].run \in Nat
  BY ElementOfSeq, OpRunNat
<1>4. 1 \in 1 .. Len(q) /\ q[1].run \in Nat /\ q[1].run <= n
  BY <1>1, <1>3 DEF Ordered, InOrder
<1>5. UpTo(h2, q[1].run)
  BY <1>4 DEF Ordered, UpTo
<1>6. UpTo(h2, n)
  BY <1>4, <1>5, RunsNat DEF UpTo
<1> DEFINE t == Tail(q)
<1>7. /\ Len(t) = Len(q) - 1
      /\ \A i \in 1 .. Len(q) - 1 : t[i] = q[i + 1]
      /\ (t = << >>) <=> Len(t) = 0
  BY <1>1, <1>2
<1> HIDE DEF t
<1>8. InOrder(t, n)
  <2>1. ASSUME NEW i \in 1 .. Len(t) PROVE t[i].run <= n
    <3>1. i + 1 \in 1 .. Len(q) /\ t[i] = q[i + 1]
      BY <1>1, <1>7
    <3> QED
      BY <3>1 DEF Ordered, InOrder
  <2>2. ASSUME NEW i \in 2 .. Len(t) PROVE t[i - 1].run <= t[i].run
    <3>1. t[i] = q[i + 1] /\ t[i - 1] = q[(i + 1) - 1] /\ i + 1 \in 2 .. Len(q)
      BY <1>1, <1>7
    <3> QED
      BY <3>1 DEF Ordered, InOrder
  <2> QED
    BY <2>1, <2>2 DEF InOrder
<1>9. t # << >> => UpTo(h2, t[1].run)
  <2> SUFFICES ASSUME t # << >> PROVE UpTo(h2, t[1].run)
    OBVIOUS
  <2>1. t[1] = q[2] /\ 2 \in 2 .. Len(q) /\ 2 \in 1 .. Len(q) /\ q[2 - 1] = q[1]
    BY <1>1, <1>7
  <2>2. q[1].run <= q[2].run
    BY <2>1 DEF Ordered, InOrder
  <2>3. q[2].run \in Nat
    BY <1>3, <2>1
  <2> QED
    BY <1>4, <1>5, <2>1, <2>2, <2>3, RunsNat DEF UpTo
<1> QED
  BY <1>6, <1>8, <1>9 DEF Ordered, t

(* Steps that neither submit nor deliver anything.                          *)
LEMMA OrderFrame ==
  ASSUME NEW c, OrderInv(c), queue'[c] = queue[c], host'[c] = host[c],
         run'[c] = run[c]
  PROVE  OrderInv(c)'
  BY DEF OrderInv

(* Steps that submit operations for the current inference.                  *)
LEMMA OrderSubmit ==
  ASSUME TypeInv, NEW c \in Contexts, OrderInv(c),
         NEW ops \in Seq(OpType), ops # << >>, NEW m \in Nat, run[c] <= m,
         \A i \in 1 .. Len(ops) : ops[i].run = m,
         queue'[c] = queue[c] \o ops, host'[c] = host[c], run'[c] = m
  PROVE  OrderInv(c)'
<1>1. queue[c] \in Seq(OpType) /\ run[c] \in Nat
  BY RunsNat DEF TypeInv, TypeOK, Answer0
<1>2. Ordered(queue[c], host[c], run[c])
  BY DEF OrderInv
<1>3. Ordered(queue[c] \o ops, host[c], m)
  BY <1>1, <1>2, OrderedAppend
<1> QED
  BY <1>3 DEF OrderInv

LEMMA OrderClient ==
  ASSUME TypeInv, NEW c \in Contexts, CtxInv(c), OrderInv(c), ClientStep(c)
  PROVE  OrderInv(c)'
<1>1. CASE SubmitInput(c)
  <2>1. run \in [Contexts -> {0} \cup Runs] /\ run[c] \in Nat
    BY RunsNat DEF TypeInv, TypeOK, Answer0
  <2>2. /\ run[c] < MaxRun /\ run' = [run EXCEPT ![c] = run[c] + 1]
        /\ queue' = [queue EXCEPT ![c] = queue[c] \o << Op("h2d", run[c] + 1, 0) >>]
        /\ host' = host
    BY <1>1 DEF SubmitInput, Submit
  <2>3. run[c] + 1 \in Runs /\ run'[c] = run[c] + 1
    BY <2>1, <2>2, CountAssumption DEF Runs
  <2>4. queue'[c] = queue[c] \o << Op("h2d", run[c] + 1, 0) >>
    BY <2>2 DEF TypeInv, TypeOK
  <2> DEFINE op == Op("h2d", run[c] + 1, 0)
  <2>5. op \in OpType /\ op.run = run[c] + 1
    BY <2>3 DEF Op, OpType
  <2> HIDE DEF op
  <2>6. /\ << op >> \in Seq(OpType) /\ << op >> # << >>
        /\ \A i \in 1 .. Len(<< op >>) : << op >>[i].run = run[c] + 1
    BY <2>5
  <2>7. queue'[c] = queue[c] \o << op >>
    BY <2>4 DEF op
  <2>8. run[c] + 1 \in Nat /\ run[c] <= run[c] + 1
    BY <2>1
  <2> QED
    BY <2>2, <2>3, <2>6, <2>7, <2>8, OrderSubmit
<1>2. CASE CopyInput(c)
  <2>1. /\ queue'[c] = << >> /\ host' = host /\ run'[c] = run[c] + 1
        /\ run[c] \in Nat
    BY <1>2, RunsNat DEF CopyInput, Drained, TypeInv, TypeOK, Answer0
  <2>2. UpTo(host[c], run[c])
    BY DEF OrderInv, Ordered
  <2>3. run[c] + 1 \in Nat /\ run[c] <= run[c] + 1
    BY <2>1
  <2>4. UpTo(host[c], run[c] + 1)
    BY <2>1, <2>2, <2>3, UpToLater
  <2> QED
    BY <2>1, <2>4, OrderedEmpty DEF OrderInv
<1>3. CASE LaunchGraph(c)
  <2> DEFINE ops == [i \in DOMAIN graph[c] |-> Op(graph[c][i], run[c], 0)]
  <2>1. run[c] \in Runs /\ graph[c] = << "infer" >> /\ graph[c] \in Seq({"infer"})
    BY <1>3 DEF LaunchGraph, TypeInv, TypeOK, Asked, CtxInv, GraphInv
  <2>2. ops \in Seq(OpType)
    BY <2>1, LaunchType
  <2>3. DOMAIN ops = DOMAIN graph[c] /\ \A i \in DOMAIN ops : ops[i].run = run[c]
    BY DEF Op
  <2>4. /\ queue'[c] = queue[c] \o ops /\ host' = host /\ run' = run
    BY <1>3 DEF LaunchGraph, Submit, TypeInv, TypeOK
  <2>5. 1 \in DOMAIN graph[c]
    BY <2>1
  <2> HIDE DEF ops
  <2>6. DOMAIN ops = 1 .. Len(ops) /\ ops # << >>
    BY <2>2, <2>3, <2>5, LenProperties, EmptySeq
  <2>7. run[c] \in Nat /\ run[c] <= run[c]
    <3>1. run[c] \in Nat
      BY <2>1, RunsNat
    <3> QED
      BY <3>1
  <2> QED
    BY <2>2, <2>3, <2>4, <2>6, <2>7, OrderSubmit
<1>4. CASE FetchOutputs(c)
  <2> DEFINE ops == [o \in Outs |-> Op("d2h", run[c], o)]
  <2>1. run[c] \in Runs
    BY <1>4 DEF FetchOutputs, TypeInv, Asked
  <2>2. ops \in Seq(OpType) /\ Len(ops) = OutputCount
    BY <2>1, FetchType
  <2>3. \A i \in 1 .. OutputCount : ops[i].run = run[c]
    BY DEF Op, Outs
  <2>4. /\ queue'[c] = queue[c] \o ops /\ host' = host /\ run' = run
    BY <1>4 DEF FetchOutputs, Submit, TypeInv, TypeOK
  <2> HIDE DEF ops
  <2>5. ops # << >>
    BY <2>2, CountAssumption, EmptySeq
  <2>6. run[c] \in Nat /\ run[c] <= run[c]
    <3>1. run[c] \in Nat
      BY <2>1, RunsNat
    <3> QED
      BY <3>1
  <2> QED
    BY <2>2, <2>3, <2>4, <2>5, <2>6, OrderSubmit
<1>5. CASE CopyOutputs(c)
  <2>1. /\ queue'[c] = << >> /\ run' = run /\ run[c] \in Runs /\ run[c] \in Nat
    BY <1>5, RunsNat DEF CopyOutputs, CtxInv, ThreadInv, TypeInv, Asked
  <2>2. \A r \in Runs : r # run[c] => host'[c][r] = host[c][r]
    BY <1>5 DEF CopyOutputs, TypeInv, TypeOK
  <2>3. UpTo(host'[c], run'[c])
    BY <2>1, <2>2 DEF OrderInv, Ordered, UpTo
  <2> QED
    BY <2>1, <2>3, OrderedEmpty DEF OrderInv
<1>6. CASE BeginCapture(c)
  BY <1>6, OrderFrame DEF BeginCapture, deviceVars
<1>7. CASE EndCapture(c)
  BY <1>7, OrderFrame DEF EndCapture, deviceVars
<1>8. CASE GiveUp(c)
  BY <1>8, OrderFrame DEF GiveUp, deviceVars
<1> QED
  BY <1>1, <1>2, <1>3, <1>4, <1>5, <1>6, <1>7, <1>8 DEF ClientStep

(* The copy of an output to the client, as a step of the stream.            *)
LEMMA Delivery ==
  ASSUME TypeInv, NEW c \in Contexts, CtxInv(c), ExecuteOp(c), host' # host
  PROVE  LET op == queue[c][1]
         IN  /\ queue[c] # << >> /\ op.run \in Runs /\ op.out \in Outs
             /\ host' = [host EXCEPT ![c][op.run][op.out] = op.run]
<1> DEFINE op == queue[c][1]
<1>1. queue[c] \in Seq(OpType) /\ queue[c] # << >> /\ op = Head(queue[c])
  BY DEF ExecuteOp, Drained, TypeInv, TypeOK
<1>2. op \in OpType
  BY <1>1, ElementOfSeq, EmptySeq, LenProperties
<1>3. FedBy(din[c], dout[c], op)
  BY <1>1 DEF CtxInv, StreamInv, Chain
<1>4. /\ op.kind = "d2h"
      /\ host' = [host EXCEPT ![c][op.run][op.out] = dout[c][op.out]]
  BY <1>1 DEF ExecuteOp
<1> HIDE DEF op
<1>5. op.run \in Runs /\ op.out \in Outs
  BY <1>2, <1>4 DEF OpType
<1>6. dout[c][op.out] = op.run
  BY <1>3, <1>4, <1>5 DEF FedBy
<1> QED
  BY <1>1, <1>4, <1>5, <1>6 DEF op

LEMMA OrderExecute ==
  ASSUME TypeInv, NEW c \in Contexts, CtxInv(c), OrderInv(c), ExecuteOp(c)
  PROVE  OrderInv(c)'
<1>1. /\ queue[c] \in Seq(OpType) /\ queue[c] # << >>
      /\ queue'[c] = Tail(queue[c]) /\ run' = run /\ run[c] \in Nat
  BY RunsNat DEF ExecuteOp, Drained, threadVars, TypeInv, TypeOK, Answer0
<1>2. \A r \in Runs, o \in Outs :
        host'[c][r][o] # host[c][r][o] => r = queue[c][1].run
  <2>1. CASE host' = host
    BY <2>1
  <2>2. CASE host' # host
    <3> DEFINE op == queue[c][1]
    <3>1. /\ op.run \in Runs /\ op.out \in Outs
          /\ host' = [host EXCEPT ![c][op.run][op.out] = op.run]
      BY <2>2, Delivery
    <3> HIDE DEF op
    <3>2. \A r \in Runs, o \in Outs : host'[c][r][o] # host[c][r][o] => r = op.run
      BY <3>1 DEF TypeInv, TypeOK
    <3> QED
      BY <3>2 DEF op
  <2> QED
    BY <2>1, <2>2
<1>3. Ordered(Tail(queue[c]), host'[c], run[c])
  BY <1>1, <1>2, OrderedExecute DEF OrderInv
<1> QED
  BY <1>1, <1>3 DEF OrderInv

LEMMA OrderRun ==
  ASSUME TypeInv, NEW c \in Contexts, OrderInv(c), RunStep(c)
  PROVE  OrderInv(c)'
<1>1. host' = host /\ run' = run
  BY DEF RunStep, RunZeroCopy, ZeroCopyFails, RunStaged, CopyIn, Eval, CopyOut,
     StagedFails, deviceVars
<1>2. CASE queue' = queue
  BY <1>1, <1>2, OrderFrame
<1>3. CASE queue' # queue
  <2> DEFINE op == Op("infer", run[c], 0)
  <2>1. RunZeroCopy(c)
    BY <1>3 DEF RunStep, ZeroCopyFails, RunStaged, CopyIn, Eval, CopyOut,
       StagedFails, deviceVars
  <2>2. queue'[c] = queue[c] \o << op >> /\ run[c] \in Runs
    BY <1>3, <2>1 DEF RunZeroCopy, Called, Submit, TypeInv, TypeOK, Asked
  <2>3. op \in OpType /\ op.run = run[c]
    BY <2>2 DEF Op, OpType
  <2> HIDE DEF op
  <2>4. /\ << op >> \in Seq(OpType) /\ << op >> # << >>
        /\ \A i \in 1 .. Len(<< op >>) : << op >>[i].run = run[c]
    BY <2>3
  <2>5. run[c] \in Nat /\ run[c] <= run[c]
    <3>1. run[c] \in Nat
      BY <2>2, RunsNat
    <3> QED
      BY <3>1
  <2> QED
    BY <1>1, <2>2, <2>4, <2>5, OrderSubmit
<1> QED
  BY <1>2, <1>3

Orders == \A c \in Contexts : OrderInv(c)

LEMMA OrdersInit == Init => Orders
<1> SUFFICES ASSUME Init, NEW c \in Contexts PROVE OrderInv(c)
  BY DEF Orders
<1>1. queue[c] = << >> /\ UpTo(host[c], run[c])
  BY DEF Init, UpTo
<1> QED
  BY <1>1, OrderedEmpty DEF OrderInv

LEMMA OrdersStep ==
  ASSUME Inv, Orders, [Next]_vars
  PROVE  Orders'
<1> SUFFICES ASSUME NEW c \in Contexts PROVE OrderInv(c)'
  BY DEF Orders
<1>1. TypeInv /\ CtxInv(c) /\ OrderInv(c)
  BY DEF Inv, Orders
<1>2. CASE Same(c)
  BY <1>1, <1>2, OrderFrame DEF Same
<1>3. CASE ~Same(c)
  <2>1. ~ UNCHANGED vars
    BY <1>3 DEF vars, deviceVars, threadVars, stagedVars, Same
  <2>2. ClientStep(c) \/ ExecuteOp(c) \/ RunStep(c)
    BY <1>1, <1>3, <2>1, ClientStepSame, ExecuteOpSame, RunStepSame DEF Next
  <2> QED
    BY <1>1, <2>2, OrderClient, OrderExecute, OrderRun
<1> QED
  BY <1>2, <1>3

(* Every step is a step of InferenceOrder or leaves what it tells unchanged. *)
LEMMA AskSimulated ==
  ASSUME NEW c \in Contexts, SubmitInput(c) \/ CopyInput(c)
  PROVE  Service!Next
<1>1. Service!Ask(c)
  BY DEF SubmitInput, CopyInput, Service!Ask
<1> QED
  BY <1>1 DEF Service!Next

LEMMA CopyOutputsSimulated ==
  ASSUME TypeInv, NEW c \in Contexts, CtxInv(c), OrderInv(c), CopyOutputs(c)
  PROVE  Service!Next
<1>1. /\ run[c] \in Runs /\ run[c] \in Nat /\ run' = run
      /\ host' = [host EXCEPT ![c][run[c]] = dout[c]]
  BY RunsNat DEF CopyOutputs, TypeInv, Asked
<1>2. \A o \in Outs : dout[c][o] = run[c]
  BY DEF CopyOutputs, CtxInv, ThreadInv, Follows, Extends, FedBy, Op
<1>3. dout[c] = [o \in Outs |-> IF o \in Outs THEN run[c] ELSE host[c][run[c]][o]]
  BY <1>2 DEF TypeInv, TypeOK
<1>4. \A later \in Runs, o \in Outs : later > run[c] => host[c][later][o] = 0
  BY <1>1, RunsNat DEF OrderInv, Ordered, UpTo
<1>5. Service!Answer(c, run[c], Outs)
  BY <1>1, <1>3, <1>4 DEF Service!Answer, Service!Runs, Service!Outs, Runs, Outs
<1> QED
  BY <1>1, <1>5 DEF Service!Next, Service!Runs, Service!Outs, Runs, Outs

LEMMA DeliverySimulated ==
  ASSUME TypeInv, NEW c \in Contexts, CtxInv(c), OrderInv(c), ExecuteOp(c),
         host' # host
  PROVE  Service!Next
<1> DEFINE op == queue[c][1]
           new == [o \in Outs |-> IF o \in {op.out} THEN op.run
                                  ELSE host[c][op.run][o]]
<1>1. /\ queue[c] # << >> /\ op.run \in Runs /\ op.out \in Outs
      /\ host' = [host EXCEPT ![c][op.run][op.out] = op.run]
  BY Delivery
<1>2. run' = run
  BY DEF ExecuteOp, threadVars
<1>3. op.run <= run[c] /\ UpTo(host[c], op.run)
  <2>1. queue[c] \in Seq(OpType)
    BY DEF TypeInv, TypeOK
  <2>2. 1 \in 1 .. Len(queue[c])
    BY <1>1, <2>1, EmptySeq, LenProperties
  <2> QED
    BY <1>1, <2>2 DEF OrderInv, Ordered, InOrder
<1> HIDE DEF op
<1>4. op.run \in Nat /\ \A r \in Runs : r \in Nat
  BY <1>1, RunsNat
<1>5. \A later \in Runs, o \in Outs : later > op.run => host[c][later][o] = 0
  BY <1>3, <1>4 DEF UpTo
<1>6. host' = [host EXCEPT ![c][op.run] = new]
  <2>1. host[c][op.run] \in [Outs -> {0} \cup Runs]
    BY <1>1 DEF TypeInv, TypeOK
  <2>2. [host[c][op.run] EXCEPT ![op.out] = op.run] = new
    BY <1>1, <2>1
  <2> HIDE DEF new
  <2> QED
    BY <1>1, <2>2
<1>7. Service!Answer(c, op.run, {op.out})
  BY <1>2, <1>3, <1>5, <1>6
  DEF Service!Answer, Service!Runs, Service!Outs, Runs, Outs
<1>8. {op.out} \in SUBSET Outs
  BY <1>1
<1> QED
  BY <1>1, <1>7, <1>8 DEF Service!Next, Service!Runs, Service!Outs, Runs, Outs

LEMMA StepSimulated ==
  ASSUME Inv, Orders, [Next]_vars
  PROVE  Service!Next \/ UNCHANGED << run, host >>
<1>1. CASE UNCHANGED vars
  BY <1>1 DEF vars, deviceVars, threadVars
<1>2. ASSUME NEW c \in Contexts, ClientStep(c) \/ ExecuteOp(c) \/ RunStep(c)
      PROVE  Service!Next \/ UNCHANGED << run, host >>
  <2>1. TypeInv /\ CtxInv(c) /\ OrderInv(c)
    BY DEF Inv, Orders
  <2>2. CASE SubmitInput(c) \/ CopyInput(c)
    BY <2>2, AskSimulated
  <2>3. CASE CopyOutputs(c)
    BY <2>1, <2>3, CopyOutputsSimulated
  <2>4. CASE ExecuteOp(c)
    BY <2>1, <2>4, DeliverySimulated DEF ExecuteOp, threadVars
  <2>5. CASE BeginCapture(c) \/ EndCapture(c) \/ LaunchGraph(c)
               \/ FetchOutputs(c) \/ GiveUp(c)
    BY <2>5 DEF BeginCapture, EndCapture, LaunchGraph, FetchOutputs, GiveUp,
       deviceVars
  <2>6. CASE RunStep(c)
    BY <2>6 DEF RunStep, RunZeroCopy, ZeroCopyFails, RunStaged, CopyIn, Eval,
       CopyOut, StagedFails, deviceVars
  <2> QED
    BY <1>2, <2>2, <2>3, <2>4, <2>5, <2>6 DEF ClientStep
<1> QED
  BY <1>1, <1>2 DEF Next

(* Execution contexts implement the ordered service: every inference is      *)
(* answered at most once per output, from its own input, in the order asked. *)
THEOREM ImplementsInferenceOrder ==
  ASSUME StagedBlocks
  PROVE  Spec => ServiceSpec
<1>1. Init => Service!Init
  BY DEF Init, Service!Init, Service!Runs, Service!Outs, Runs, Outs
<1>2. Init => Orders
  BY OrdersInit
<1>3. Inv /\ Orders /\ [Next]_vars => Orders'
  BY OrdersStep
<1>4. Inv /\ Orders /\ [Next]_vars => [Service!Next]_<< run, host >>
  BY StepSimulated
<1> QED
  BY <1>1, <1>2, <1>3, <1>4, Invariant, PTL DEF Spec, ServiceSpec, Service!Spec
=============================================================================
