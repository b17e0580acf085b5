----------------------------- MODULE StreamRunMC -----------------------------
(* Instances of StreamRun for TLC: a context of a dynamic engine, which runs  *)
(* staged, and one of a static engine.                                       *)
EXTENDS StreamRun

CONSTANTS dynamic, static

MCContexts == { dynamic, static }
MCStaged == { dynamic }
MCDynamicOnly == { dynamic }
MCNone == {}
=============================================================================
