---------------------------- MODULE DriverRunsMC ----------------------------
(***************************************************************************)
(* An instance of DriverRuns: two models with the same golden answer to the   *)
(* first row, one larger than the other, and one with another answer.         *)
(***************************************************************************)
EXTENDS DriverRuns, TLC

CONSTANTS M1, M2, M3

MCAnswer == (M1 :> << 0, 1 >>) @@ (M2 :> << 0, 0 >>) @@ (M3 :> << 1, 1 >>)

MCSize == [m \in Models |-> IF m = M1 THEN 3 ELSE 2]

Run(m, e) == [dynamic |-> FALSE, model |-> m, engine |-> e,
              batches |-> << 1 >>, golden |-> << 0 >>]

DynRun(m) == [dynamic |-> TRUE, model |-> m, engine |-> "build",
              batches |-> << 1, 2 >>, golden |-> << 0, 1 >>]

MCCommands ==
  { Run(m, "save") : m \in Models } \cup { Run(M3, "build"), Run(M1, "load") }
    \cup { DynRun(m) : m \in Models }
=============================================================================
