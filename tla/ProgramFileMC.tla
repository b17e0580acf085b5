---------------------------- MODULE ProgramFileMC ----------------------------
(* An instance of ProgramFile for TLC: a program of one block and one of two,  *)
(* and a disk that two calls can fill.                                      *)
EXTENDS ProgramFile, TLC

CONSTANTS t1, t2, q1, q2, x1, x2, x3

MCThreads == { t1, t2 }
MCPrograms == { q1, q2 }
MCSize == q1 :> 1 @@ q2 :> 2
MCPaths == { x1, x2, x3 }
=============================================================================
