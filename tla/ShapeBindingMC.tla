--------------------------- MODULE ShapeBindingMC ---------------------------
(* Instances of ShapeBinding for TLC.                                       *)
EXTENDS ShapeBinding

Fixed(extent) == << "", extent >>
Output(name, dims) == [name |-> name, dims |-> dims]

(* A batch of pairs and a fixed second input; two outputs of one shape.      *)
Batch ==
  [inputs |-> ("a" :> << 2 >> @@ "x" :> << Free, 2 >>),
   outputs |-> << Output("y", << << "x", 1 >> >>), Output("z", << << "x", 1 >> >>) >>]

(* Nothing free.                                                            *)
Static ==
  [inputs |-> "x" :> << 3, 2 >>,
   outputs |-> << Output("y", << Fixed(3) >>), Output("z", << Fixed(3) >>) >>]

(* Two inputs of the same batch.                                            *)
Pair ==
  [inputs |-> ("a" :> << Free >> @@ "x" :> << Free, 2 >>),
   outputs |-> << Output("y", << << "x", 1 >> >>) >>]

(* A free second axis: samples of any length.                               *)
Length ==
  [inputs |-> "x" :> << 2, Free >>,
   outputs |-> << Output("y", << << "x", 1 >>, << "x", 2 >> >>) >>]

MCGraphs == { Batch, Static }
MCPair == { Pair }
MCLength == { Length }

MCInputNames == << "a", "x" >>
MCDimCalls ==
  { << "x", "min", << 1, 2 >> >>, << "x", "opt", << 2, 2 >> >>,
    << "x", "max", << 3, 2 >> >>, << "x", "max", << 1, 2 >> >>,
    << "a", "min", << 2 >> >>, << "a", "max", << 2 >> >> }
MCPairCalls ==
  { << "x", "min", << 1, 2 >> >>, << "x", "max", << 3, 2 >> >>,
    << "a", "min", << 1 >> >>, << "a", "max", << 3 >> >> }
MCLengthCalls ==
  { << "x", "min", << 2, 1 >> >>, << "x", "max", << 2, 3 >> >> }
MCShapeCalls ==
  { << "x", << 2, 2 >> >>, << "x", << 3, 2 >> >>, << "x", << 4, 2 >> >>,
    << "x", << 2, 3 >> >>, << "a", << 2 >> >> }
MCBufferCalls ==
  { << "a", 1 >>, << "x", 1 >>, << "y", 1 >>, << "y", 2 >>, << "z", 1 >>, << "z", 2 >> }
=============================================================================
