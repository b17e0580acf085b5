--------------------------- MODULE InferenceOrder ---------------------------
(***************************************************************************)
(* What execution contexts promise their client, whatever the engine and    *)
(* the stream: each inference a context is asked for gets, output by        *)
(* output, at most one answer, the answer computed from that inference's    *)
(* own input, and a context answers its inferences in the order it was      *)
(* asked for them (IExecutionContext::executeV2 and enqueueV3).             *)
(*                                                                         *)
(* An inference is named by its number; its answer is that number, for      *)
(* "computed from the input of inference number ...".                       *)
(***************************************************************************)
EXTENDS Naturals

CONSTANTS Contexts,    \* execution contexts
          OutputCount, \* output tensors of an engine
          MaxRun       \* bound: inferences asked of one context

Runs == 1 .. MaxRun
Outs == 1 .. OutputCount

VARIABLES asked,   \* asked[c]: inferences c has been asked for
          answer   \* answer[c][r][o]: 0 before output o of inference r is there

Init ==
  /\ asked = [c \in Contexts |-> 0]
  /\ answer = [c \in Contexts |-> [r \in Runs |-> [o \in Outs |-> 0]]]

Ask(c) ==
  /\ asked[c] < MaxRun
  /\ asked' = [asked EXCEPT ![c] = @ + 1]
  /\ UNCHANGED answer

(* Some outputs of inference r arrive, and no later one has been answered.  *)
Answer(c, r, outputs) ==
  /\ r <= asked[c]
  /\ \A later \in Runs, o \in Outs : later > r => answer[c][later][o] = 0
  /\ answer' = [answer EXCEPT ![c][r] =
                  [o \in Outs |-> IF o \in outputs THEN r ELSE @[o]]]
  /\ UNCHANGED asked

Next ==
  \E c \in Contexts :
    \/ Ask(c)
    \/ \E r \in Runs, outputs \in SUBSET Outs : Answer(c, r, outputs)

Spec == Init /\ [][Next]_<< asked, answer >>
=============================================================================
