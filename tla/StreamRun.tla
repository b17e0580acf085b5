------------------------------ MODULE StreamRun ------------------------------
(***************************************************************************)
(* Execution contexts running inferences: ShimContext::enqueueV3 and        *)
(* executeV2 (src/shim.cpp) over Engine::run with its two paths             *)
(* (src/backend.cpp).                                                       *)
(*                                                                         *)
(*  - run_zero_copy, for a static engine, binds the caller's buffers and    *)
(*    queues the program on the caller's stream (or runs it, for a null     *)
(*    stream);                                                              *)
(*  - run_staged, for a dynamic engine, copies the input to the host, runs  *)
(*    the program, and copies each output back, all on the calling thread.  *)
(*    It is not given the stream.                                           *)
(*                                                                         *)
(* Each context has a thread, a stream and device buffers of its own, as in *)
(* trtexec.  The client is the one the interface is written for: copy the   *)
(* input to the device on the stream, enqueueV3, copy the outputs back on   *)
(* the stream, and go on to the next inference without waiting (trtexec has *)
(* a stream each for input, call and output, ordered by events within one   *)
(* inference but not from one to the next: less than is assumed here); or   *)
(* synchronize and use executeV2; or capture enqueueV3 into a graph and     *)
(* launch the graph.  Client, HIP streams and hipMemcpy are external and    *)
(* modelled from how they are used.                                         *)
(*                                                                         *)
(* An inference is named by its number in its context, and a buffer's       *)
(* contents by the number of the inference whose data it holds.             *)
(***************************************************************************)
EXTENDS Naturals, Sequences

CONSTANTS Contexts,
          Staged,       \* contexts of engines that run staged (dynamic ones)
          NonBlocking,  \* contexts whose stream is hipStreamNonBlocking
          OutputCount,  \* output tensors of an engine
          MaxRun        \* bound: inferences one context is asked for

ASSUME StagedAssumption == Staged \subseteq Contexts
ASSUME NonBlockingAssumption == NonBlocking \subseteq Contexts
ASSUME CountAssumption == OutputCount \in Nat \ {0} /\ MaxRun \in Nat

Runs == 1 .. MaxRun
Outs == 1 .. OutputCount
Blocking == Contexts \ NonBlocking

VARIABLES
  \* the streams and the memory they work on, per context
  queue,    \* what has been submitted to the stream and not executed yet
  din,      \* device input buffer
  dout,     \* device output buffers
  host,     \* host[c][r][o]: output o of inference r as the client has it
  \* the host thread of each context
  pc,       \* where it is
  call,     \* how Engine::run is being called
  run,      \* number of the current (last) inference
  mode,     \* whether enqueueV3 or a graph launch serves the next inference
  graph,    \* what capture has recorded
  mark,     \* what a hipMemcpy in progress still waits for, per stream
  staging,  \* run_staged: the host copy of the input
  results,  \* run_staged: the host results of eval
  copied    \* run_staged: outputs copied back so far

deviceVars == << queue, din, dout, host >>
threadVars == << pc, call, run, mode, graph >>
stagedVars == << mark, staging, results, copied >>
vars == << deviceVars, threadVars, stagedVars >>

Op(kind, r, o) == [kind |-> kind, run |-> r, out |-> o]

Init ==
  /\ queue = [c \in Contexts |-> << >>]
  /\ din = [c \in Contexts |-> 0]
  /\ dout = [c \in Contexts |-> [o \in Outs |-> 0]]
  /\ host = [c \in Contexts |-> [r \in Runs |-> [o \in Outs |-> 0]]]
  /\ pc = [c \in Contexts |-> "idle"]
  /\ call = [c \in Contexts |-> "enqueueV3"]
  /\ run = [c \in Contexts |-> 0]
  /\ mode = [c \in Contexts |-> "explicit"]
  /\ graph = [c \in Contexts |-> << >>]
  /\ mark = [c \in Contexts |-> [s \in Contexts |-> 0]]
  /\ staging = [c \in Contexts |-> 0]
  /\ results = [c \in Contexts |-> 0]
  /\ copied = [c \in Contexts |-> 0]

Drained(c) == queue[c] = << >>

Goto(c, label) == pc' = [pc EXCEPT ![c] = label]
Submit(c, ops) == queue' = [queue EXCEPT ![c] = @ \o ops]

-----------------------------------------------------------------------------
(* The client (external): vendor/tensorrt-samples/common/sampleInference.cpp *)
(* and tools/trtshim_run.cpp.                                               *)

SubmitInput(c) ==
  /\ pc[c] = "idle" /\ run[c] < MaxRun
  /\ run' = [run EXCEPT ![c] = @ + 1]
  /\ Submit(c, << Op("h2d", run[c] + 1, 0) >>)
  /\ call' = [call EXCEPT ![c] = "enqueueV3"]
  /\ Goto(c, "call")
  /\ UNCHANGED << din, dout, host, mode, graph, stagedVars >>

(* A synchronous copy to the device, with nothing pending, before executeV2. *)
CopyInput(c) ==
  /\ pc[c] = "idle" /\ run[c] < MaxRun /\ Drained(c)
  /\ run' = [run EXCEPT ![c] = @ + 1]
  /\ din' = [din EXCEPT ![c] = run[c] + 1]
  /\ call' = [call EXCEPT ![c] = "executeV2"]
  /\ Goto(c, "call")
  /\ UNCHANGED << queue, dout, host, mode, graph, stagedVars >>

(* After a first inference and a synchronize: capture one more enqueueV3.    *)
BeginCapture(c) ==
  /\ pc[c] = "idle" /\ run[c] > 0 /\ Drained(c)
  /\ mode[c] = "explicit"
  /\ call' = [call EXCEPT ![c] = "capture"]
  /\ Goto(c, "call")
  /\ UNCHANGED << deviceVars, run, mode, graph, stagedVars >>

(* The client launches graphs only if the captured call returned true and    *)
(* the capture was not invalidated.                                          *)
EndCapture(c) ==
  /\ call[c] = "capture" /\ pc[c] \in {"accepted", "failed"}
  /\ \/ /\ pc[c] = "accepted"
        /\ mode' = [mode EXCEPT ![c] = "graph"] /\ UNCHANGED graph
     \/ graph' = [graph EXCEPT ![c] = << >>] /\ UNCHANGED mode
  /\ Goto(c, "idle")
  /\ UNCHANGED << deviceVars, call, run, stagedVars >>

LaunchGraph(c) ==
  /\ pc[c] = "call" /\ call[c] = "enqueueV3" /\ mode[c] = "graph"
  /\ Submit(c, [i \in DOMAIN graph[c] |-> Op(graph[c][i], run[c], 0)])
  /\ Goto(c, "accepted")
  /\ UNCHANGED << din, dout, host, call, run, mode, graph, stagedVars >>

FetchOutputs_ZeroBased(c) ==   \* mutant: output positions count from 0
  /\ pc[c] = "accepted" /\ call[c] = "enqueueV3"
  /\ Submit(c, [o \in Outs |-> Op("d2h", run[c], o - 1)])
  /\ Goto(c, "idle")
  /\ UNCHANGED << din, dout, host, call, run, mode, graph, stagedVars >>

FetchOutputs(c) ==
  /\ pc[c] = "accepted" /\ call[c] = "enqueueV3"
  /\ Submit(c, [o \in Outs |-> Op("d2h", run[c], o)])
  /\ Goto(c, "idle")
  /\ UNCHANGED << din, dout, host, call, run, mode, graph, stagedVars >>

CopyOutputs(c) ==
  /\ pc[c] = "accepted" /\ call[c] = "executeV2"
  /\ host' = [host EXCEPT ![c][run[c]] = dout[c]]
  /\ Goto(c, "idle")
  /\ UNCHANGED << queue, din, dout, call, run, mode, graph, stagedVars >>

(* The call returned false: the client has no result for this inference.     *)
GiveUp(c) ==
  /\ pc[c] = "failed" /\ call[c] # "capture"
  /\ Goto(c, "idle")
  /\ UNCHANGED << deviceVars, call, run, mode, graph, stagedVars >>

-----------------------------------------------------------------------------
(* The device (external): each stream in order.                             *)
ExecuteOp(c) ==
  /\ ~Drained(c)
  /\ queue' = [queue EXCEPT ![c] = Tail(@)]
  /\ LET op == Head(queue[c])
     IN  \/ /\ op.kind = "h2d"
            /\ din' = [din EXCEPT ![c] = op.run]
            /\ UNCHANGED << dout, host >>
         \/ /\ op.kind = "infer"
            /\ dout' = [dout EXCEPT ![c] = [o \in Outs |-> din[c]]]
            /\ UNCHANGED << din, host >>
         \/ /\ op.kind = "d2h"
            /\ host' = [host EXCEPT ![c][op.run][op.out] = dout[c][op.out]]
            /\ UNCHANGED << din, dout >>
  /\ mark' = [w \in Contexts |->
                [mark[w] EXCEPT ![c] = IF @ > 0 THEN @ - 1 ELSE 0]]
  /\ UNCHANGED << threadVars, staging, results, copied >>

-----------------------------------------------------------------------------
(* hipMemcpy (external) works on the null stream.  A call waits for what had *)
(* been submitted, when it was made, to the streams that synchronize with    *)
(* the null stream, and not for the others; it fails in a thread that is     *)
(* capturing, and may fail otherwise.                                        *)
CallMemcpy(c) ==
  mark' = [mark EXCEPT ![c] =
             [s \in Contexts |-> IF s \in Blocking THEN Len(queue[s]) ELSE 0]]

MemcpyReady(c) ==
  /\ call[c] # "capture"
  /\ \A s \in Contexts : mark[c][s] = 0

-----------------------------------------------------------------------------
(* Engine::run.                                                             *)

Called(c) ==
  pc[c] = "call" /\ ~(call[c] = "enqueueV3" /\ mode[c] = "graph")

(* Mutants: eval in place of run_async; a captured run that goes elsewhere   *)
(* than into the capture.                                                   *)
RunZeroCopy_Eval(c) ==
  /\ Called(c) /\ c \notin Staged
  /\ dout' = [dout EXCEPT ![c] = [o \in Outs |-> din[c]]]
  /\ Goto(c, "accepted")
  /\ UNCHANGED << queue, din, host, call, run, mode, graph, stagedVars >>

RunZeroCopy_NotCaptured(c) ==
  /\ Called(c) /\ c \notin Staged
  /\ Submit(c, << Op("infer", run[c], 0) >>)
  /\ Goto(c, "accepted")
  /\ UNCHANGED << din, dout, host, call, run, mode, graph, stagedVars >>

(* run_zero_copy: run_async on the caller's stream, where a capture records  *)
(* it instead, or eval when there is no stream.                             *)
RunZeroCopy(c) ==
  /\ Called(c) /\ c \notin Staged
  /\ \/ /\ call[c] = "enqueueV3"
        /\ Submit(c, << Op("infer", run[c], 0) >>)
        /\ UNCHANGED << dout, graph >>
     \/ /\ call[c] = "capture"
        /\ graph' = [graph EXCEPT ![c] = Append(@, "infer")]
        /\ UNCHANGED << queue, dout >>
     \/ /\ call[c] = "executeV2"
        /\ dout' = [dout EXCEPT ![c] = [o \in Outs |-> din[c]]]
        /\ UNCHANGED << queue, graph >>
  /\ Goto(c, "accepted")
  /\ UNCHANGED << din, host, call, run, mode, stagedVars >>

(* An IO tensor without an address, or an exception of MIGraphX.            *)
ZeroCopyFails(c) ==
  /\ Called(c) /\ c \notin Staged
  /\ Goto(c, "failed")
  /\ UNCHANGED << deviceVars, call, run, mode, graph, stagedVars >>

(* run_staged: hipMemcpy of the inputs to the host, ...                     *)
RunStaged(c) ==
  /\ Called(c) /\ c \in Staged
  /\ CallMemcpy(c)
  /\ Goto(c, "copyin")
  /\ UNCHANGED << deviceVars, call, run, mode, graph, staging, results, copied >>

CopyIn_Async(c) ==   \* mutant: the copy does not wait
  /\ pc[c] = "copyin" /\ call[c] # "capture"
  /\ staging' = [staging EXCEPT ![c] = din[c]]
  /\ Goto(c, "eval")
  /\ UNCHANGED << deviceVars, call, run, mode, graph, mark, results, copied >>

CopyIn(c) ==
  /\ pc[c] = "copyin" /\ MemcpyReady(c)
  /\ staging' = [staging EXCEPT ![c] = din[c]]
  /\ Goto(c, "eval")
  /\ UNCHANGED << deviceVars, call, run, mode, graph, mark, results, copied >>

(* ... eval, ...                                                            *)
Eval(c) ==
  /\ pc[c] = "eval"
  /\ results' = [results EXCEPT ![c] = staging[c]]
  /\ CallMemcpy(c)
  /\ Goto(c, "copyout")
  /\ UNCHANGED << deviceVars, call, run, mode, graph, staging, copied >>

(* The locals of run_staged die with the call.                              *)
Return(c, label) ==
  /\ Goto(c, label)
  /\ mark' = [mark EXCEPT ![c] = [s \in Contexts |-> 0]]
  /\ staging' = [staging EXCEPT ![c] = 0]
  /\ results' = [results EXCEPT ![c] = 0]
  /\ copied' = [copied EXCEPT ![c] = 0]

(* ... and hipMemcpy of one output after the other to the device.           *)
CopyOut_FirstOnly(c) ==   \* mutant: returns after one output
  /\ pc[c] = "copyout" /\ MemcpyReady(c)
  /\ dout' = [dout EXCEPT ![c][1] = results[c]]
  /\ Return(c, "accepted")
  /\ UNCHANGED << queue, din, host, call, run, mode, graph >>

CopyOut_NoCount(c) ==   \* mutant: oi is not incremented
  /\ pc[c] = "copyout" /\ MemcpyReady(c)
  /\ dout' = [dout EXCEPT ![c][copied[c] + 1] = results[c]]
  /\ CallMemcpy(c)
  /\ UNCHANGED << queue, din, host, threadVars, staging, results, copied >>

CopyOut(c) ==
  /\ pc[c] = "copyout" /\ MemcpyReady(c)
  /\ dout' = [dout EXCEPT ![c][copied[c] + 1] = results[c]]
  /\ IF copied[c] + 1 < OutputCount
     THEN /\ copied' = [copied EXCEPT ![c] = @ + 1]
          /\ CallMemcpy(c)
          /\ UNCHANGED << pc, staging, results >>
     ELSE Return(c, "accepted")
  /\ UNCHANGED << queue, din, host, call, run, mode, graph >>

(* A failed hipMemcpy, an exception of eval, an IO tensor without address:   *)
(* false, with whatever has been copied so far left in the output buffers.   *)
StagedFails(c) ==
  /\ pc[c] \in {"copyin", "eval", "copyout"}
  /\ Return(c, "failed")
  /\ UNCHANGED << deviceVars, call, run, mode, graph >>

-----------------------------------------------------------------------------
RunStep(c) == \/ RunZeroCopy(c) \/ ZeroCopyFails(c)
              \/ RunStaged(c) \/ CopyIn(c) \/ Eval(c) \/ CopyOut(c)
              \/ StagedFails(c)

ClientStep(c) == \/ SubmitInput(c) \/ CopyInput(c) \/ BeginCapture(c)
                 \/ EndCapture(c) \/ LaunchGraph(c) \/ FetchOutputs(c)
                 \/ CopyOutputs(c) \/ GiveUp(c)

Next == \E c \in Contexts : ClientStep(c) \/ ExecuteOp(c) \/ RunStep(c)

Spec == Init /\ [][Next]_vars

(* The device executes what is queued, a call that is being made goes on     *)
(* (MIGraphX and HIP answer), and a client that was given true copies the    *)
(* outputs.  Calls are not assumed to fail, except the hipMemcpy of a thread *)
(* that is capturing; nothing makes the client ask for another inference or  *)
(* begin a capture.                                                         *)
FairSpec ==
  /\ Spec
  /\ \A c \in Contexts :
       /\ WF_vars(ExecuteOp(c))
       /\ WF_vars(RunZeroCopy(c) \/ RunStaged(c) \/ CopyIn(c) \/ Eval(c)
                    \/ CopyOut(c) \/ LaunchGraph(c))
       /\ WF_vars(call[c] = "capture" /\ StagedFails(c))
       /\ WF_vars(FetchOutputs(c) \/ CopyOutputs(c))

-----------------------------------------------------------------------------
(* Properties. *)

OpType == [kind : {"h2d", "infer"}, run : Runs, out : {0}]
            \cup [kind : {"d2h"}, run : Runs, out : Outs]

(* Types; a copy of an output names one of the engine's outputs.            *)
TypeOK ==
  /\ queue \in [Contexts -> Seq(OpType)]
  /\ din \in [Contexts -> {0} \cup Runs]
  /\ dout \in [Contexts -> [Outs -> {0} \cup Runs]]
  /\ host \in [Contexts -> [Runs -> [Outs -> {0} \cup Runs]]]
  /\ pc \in [Contexts -> {"idle", "call", "copyin", "eval", "copyout",
                          "accepted", "failed"}]
  /\ call \in [Contexts -> {"enqueueV3", "executeV2", "capture"}]
  /\ run \in [Contexts -> {0} \cup Runs]
  /\ mode \in [Contexts -> {"explicit", "graph"}]
  /\ graph \in [Contexts -> Seq({"infer"})]
  /\ mark \in [Contexts -> [Contexts -> Nat]]
  /\ staging \in [Contexts -> {0} \cup Runs]
  /\ results \in [Contexts -> {0} \cup Runs]
  /\ copied \in [Contexts -> 0 .. OutputCount]

(* What the client receives for an inference was computed from that          *)
(* inference's input, never from an earlier or a later one, although it      *)
(* submits the next inference while the last is still on the stream          *)
(* ("Run ... async on the given hipStream_t. ... Outputs are copied into     *)
(* the caller's buffers", src/backend.h).                                    *)
ResultsMatch ==
  \A c \in Contexts, r \in Runs, o \in Outs : host[c][r][o] \in {0, r}

(* The copies run_staged makes from the calling thread take their place in   *)
(* the order of the context's stream: while it still has work to do, they    *)
(* neither read the input buffer nor write an output buffer.                 *)
HostCopiesOrdered ==
  [][\A c \in Contexts :
       \/ pc[c] = "copyin" /\ pc'[c] = "eval"
       \/ dout'[c] # dout[c] /\ queue'[c] = queue[c]
       => Drained(c)]_vars

(* A graph that the client launches in place of enqueueV3 does the           *)
(* inference: an engine whose run cannot be recorded makes the captured call *)
(* fail ("falls back to non-graph execution -- which is correct, never       *)
(* silently wrong", include/compat/cuda_runtime_api.h).                      *)
GraphInfers ==
  \A c \in Contexts : mode[c] = "graph" => graph[c] = << "infer" >>

(* The contexts implement the ordered service of InferenceOrder.             *)
Service == INSTANCE InferenceOrder WITH asked <- run, answer <- host
ServiceSpec == Service!Spec

(* An inference that enqueueV3 or executeV2 accepted is delivered, all its   *)
(* outputs, although a staged call waits for the streams of other contexts.  *)
Delivered ==
  \A c \in Contexts, r \in Runs :
    (pc[c] = "accepted" /\ call[c] # "capture" /\ run[c] = r)
      ~> (\A o \in Outs : host[c][r][o] = r)

(* A call of enqueueV3 or executeV2 returns.                                *)
CallReturns ==
  \A c \in Contexts : pc[c] = "call" ~> pc[c] \in {"accepted", "failed"}
=============================================================================
