------------------------ MODULE BuildSession_proofs ------------------------
(***************************************************************************)
(* Proofs about BuildSession, for any models, calibrators and profiles, and   *)
(* any number of parses and builds.                                         *)
(***************************************************************************)
EXTENDS BuildSession, TLAPS

(* After a parse that succeeded, what was captured is what was introspected.  *)
ModelInv ==
  /\ parsed = "true" => tensors = onnx
  /\ pc \in {"calibrate", "stage", "quantize", "compile"} => onnx \in Models

(* While a build calibrates: batch k is staged to object k, and entry k of    *)
(* the calibration data points to it; the batch that is being staged is the   *)
(* last one given, and still in the device buffer.                           *)
BatchInv ==
  /\ \A c \in Calibrators : left[c] <= BatchCount[c]
  /\ pc \in {"calibrate", "stage"} => calib \in Calibrators
  /\ Len(params) = Len(heap)
  /\ \A k \in 1 .. Len(heap) : params[k] = k /\ heap[k] \in {given[k], 0}
  /\ Len(given) = IF pc = "stage" THEN Len(heap) + 1 ELSE Len(heap)
  /\ pc = "stage" => devbuf[calib] = given[Len(given)]
  /\ pc \in {"idle", "parse", "calibrate", "stage"} => int8 = << >>
  /\ pc \in {"idle", "parse"} => heap = << >>

IInv == TypeOK /\ ModelInv /\ BatchInv /\ CalibrationFaithful

-----------------------------------------------------------------------------
LEMMA InitIInv == Init => IInv
<1>. SUFFICES ASSUME Init PROVE IInv
  OBVIOUS
<1>1. TypeOK
  <2>1. \A S : << >> \in Seq(S)
    OBVIOUS
  <2>2. 0 \in 0 .. MaxParses /\ 0 \in 0 .. MaxBuilds
    BY BoundAssumption
  <2>3. left \in [Calibrators -> Nat] /\ devbuf \in [Calibrators -> Nat]
    BY BatchAssumption DEF Init
  <2>. QED
    BY <2>1, <2>2, <2>3 DEF Init, TypeOK
<1>2. ModelInv
  BY DEF Init, ModelInv
<1>3. BatchInv
  BY BatchAssumption DEF Init, BatchInv
<1>4. CalibrationFaithful
  BY DEF Init, CalibrationFaithful
<1>. QED
  BY <1>1, <1>2, <1>3, <1>4 DEF IInv

(* The client calls between builds and has no part in their locals.          *)
LEMMA ClientKeeps ==
  ASSUME IInv, Client
  PROVE  IInv'
<1>. USE DEF netVars, cfgVars, appVars, localVars
<1>1. pc = "idle" /\ UNCHANGED << pc, localVars, builds, blobs, left, devbuf >>
  BY DEF Client, Parse, FileUnreadable, HoldTensors, SetFlag, ClearFlag, SetInt8Calibrator,
         AddOptimizationProfile, SetDimensions, Idle
<1>2. TypeOK'
  <2>1. ASSUME NEW m \in Models, Parse(m) PROVE TypeOK'
    <3>1. held' \in BOOLEAN
      BY <2>1 DEF Parse, Populate, IInv, TypeOK
    <3>2. parses' \in 0 .. MaxParses
      BY <2>1, BoundAssumption DEF Parse, IInv, TypeOK
    <3>3. /\ onnx' = m /\ tensors' \in {m, tensors} /\ parsed' \in {"true", "false"}
          /\ UNCHANGED << cfgVars, appVars, pc, localVars, builds, blobs >>
      BY <2>1 DEF Parse, Populate
    <3>. QED
      BY <3>1, <3>2, <3>3 DEF IInv, TypeOK
  <2>2. CASE FileUnreadable
    BY <2>2, BoundAssumption DEF FileUnreadable, IInv, TypeOK
  <2>3. CASE HoldTensors
    BY <2>3 DEF HoldTensors, IInv, TypeOK
  <2>4. ASSUME NEW f \in Flags, SetFlag(f) \/ ClearFlag(f) PROVE TypeOK'
    BY <2>4 DEF SetFlag, ClearFlag, IInv, TypeOK
  <2>5. ASSUME NEW c \in Calibrators \cup {Null}, SetInt8Calibrator(c) PROVE TypeOK'
    BY <2>5 DEF SetInt8Calibrator, IInv, TypeOK
  <2>6. ASSUME NEW p \in Profiles, AddOptimizationProfile(p) PROVE TypeOK'
    BY <2>6 DEF AddOptimizationProfile, IInv, TypeOK
  <2>7. ASSUME NEW p \in Profiles, NEW a \in Axes \cup {Null}, SetDimensions(p, a)
        PROVE  TypeOK'
    BY <2>7 DEF SetDimensions, IInv, TypeOK
  <2>. QED
    BY <2>1, <2>2, <2>3, <2>4, <2>5, <2>6, <2>7 DEF Client
<1>3. ModelInv'
  <2>1. \/ \E m \in Models : onnx' = m /\ (parsed' = "true" => tensors' = m)
        \/ parsed' = "false"
        \/ UNCHANGED << onnx, tensors, parsed >>
    BY DEF Client, Parse, Populate, FileUnreadable, HoldTensors, SetFlag, ClearFlag,
           SetInt8Calibrator, AddOptimizationProfile, SetDimensions
  <2>. QED
    BY <1>1, <2>1 DEF IInv, ModelInv
<1>4. BatchInv'
  BY <1>1 DEF IInv, BatchInv
<1>5. CalibrationFaithful'
  BY <1>1 DEF IInv, CalibrationFaithful
<1>. QED
  BY <1>2, <1>3, <1>4, <1>5 DEF IInv

-----------------------------------------------------------------------------
(* The steps of a build.                                                    *)

LEMMA StartBuildKeeps ==
  ASSUME IInv, StartBuild
  PROVE  IInv'
<1>. USE DEF netVars, cfgVars, appVars
<1>1. TypeOK'
  <2>1. dyn' \in Axes \cup {Null}
    <3>1. FirstProfile # Null => FirstProfile \in Profiles
      BY DEF FirstProfile, IInv, TypeOK
    <3>. QED
      BY <3>1 DEF StartBuild, IInv, TypeOK
  <2>. QED
    BY <2>1, BoundAssumption DEF StartBuild, IInv, TypeOK
<1>2. ModelInv' /\ BatchInv' /\ CalibrationFaithful'
  BY DEF StartBuild, Idle, IInv, ModelInv, BatchInv, CalibrationFaithful
<1>. QED
  BY <1>1, <1>2 DEF IInv

(* The end of a build, with an engine or without one.                        *)
LEMMA LeaveKeeps ==
  ASSUME IInv, Leave, UNCHANGED << netVars, cfgVars, appVars, builds >>,
         blobs' \in Seq(Blob)
  PROVE  IInv'
<1>. USE DEF netVars, cfgVars, appVars
<1>1. << >> \in Seq(Nat)
  OBVIOUS
<1>2. TypeOK'
  BY <1>1 DEF Leave, IInv, TypeOK
<1>3. ModelInv' /\ BatchInv' /\ CalibrationFaithful'
  BY DEF Leave, IInv, ModelInv, BatchInv, CalibrationFaithful
<1>. QED
  BY <1>2, <1>3 DEF IInv

LEMMA CompileKeeps ==
  ASSUME IInv, Compile
  PROVE  IInv'
<1>. DEFINE blob == [model |-> onnx, flags |-> opts, calib |-> calib,
                     int8 |-> int8, dynamic |-> dyn]
<1>1. blob \in Blob
  BY DEF Blob, Compile, IInv, TypeOK, ModelInv
<1>2. blobs \in Seq(Blob) /\ blobs' = Append(blobs, blob)
  BY DEF Compile, IInv, TypeOK
<1>. HIDE DEF blob
<1>3. blobs' \in Seq(Blob)
  BY <1>1, <1>2
<1>. QED
  BY <1>3, LeaveKeeps DEF Compile

LEMMA ParseForBuildKeeps ==
  ASSUME IInv, ParseForBuild
  PROVE  IInv'
<1>. USE DEF netVars, cfgVars, appVars, localVars
<1>1. TypeOK'
  <2>1. held' \in BOOLEAN
    BY DEF ParseForBuild, IInv, TypeOK
  <2>2. pc' \in {"calibrate", "compile"}
    BY DEF ParseForBuild
  <2>3. UNCHANGED << netVars, cfgVars, appVars, localVars, builds, blobs >>
    BY DEF ParseForBuild
  <2>. QED
    BY <2>1, <2>2, <2>3 DEF IInv, TypeOK
<1>2. onnx \in Models /\ (pc' = "calibrate" => calib \in Calibrators)
  BY DEF ParseForBuild, IInv, TypeOK
<1>3. ModelInv' /\ BatchInv' /\ CalibrationFaithful'
  BY <1>2 DEF ParseForBuild, IInv, ModelInv, BatchInv, CalibrationFaithful
<1>. QED
  BY <1>1, <1>3 DEF IInv

LEMMA GetBatchKeeps ==
  ASSUME IInv, GetBatch
  PROVE  IInv'
<1>. USE DEF netVars
<1>. DEFINE b == BatchCount[calib] - left[calib] + 1
<1>1. /\ calib \in Calibrators /\ left[calib] \in Nat \ {0} /\ left[calib] <= BatchCount[calib]
      /\ BatchCount[calib] \in Nat
  <2>1. pc = "calibrate" /\ left[calib] > 0
    BY DEF GetBatch
  <2>2. calib \in Calibrators /\ left[calib] <= BatchCount[calib]
    BY <2>1 DEF IInv, BatchInv
  <2>3. left[calib] \in Nat /\ BatchCount[calib] \in Nat
    BY <2>2, BatchAssumption DEF IInv, TypeOK
  <2>. QED
    BY <2>1, <2>2, <2>3
<1>2. b \in Nat /\ left[calib] - 1 \in Nat
  BY <1>1
<1>3. /\ left' = [left EXCEPT ![calib] = left[calib] - 1]
      /\ devbuf' = [devbuf EXCEPT ![calib] = b] /\ given' = Append(given, b)
      /\ pc = "calibrate" /\ pc' = "stage"
      /\ UNCHANGED << netVars, cfgVars, axis, opts, calib, dyn, heap, params, int8,
                      builds, blobs >>
  BY DEF GetBatch
<1>. HIDE DEF b
<1>4. TypeOK'
  <2>1. held' \in BOOLEAN
    BY <1>3 DEF IInv, TypeOK
  <2>2. left' \in [Calibrators -> Nat] /\ devbuf' \in [Calibrators -> Nat]
    BY <1>2, <1>3 DEF IInv, TypeOK
  <2>3. given' \in Seq(Nat)
    BY <1>2, <1>3 DEF IInv, TypeOK
  <2>. QED
    BY <1>3, <2>1, <2>2, <2>3 DEF IInv, TypeOK, cfgVars
<1>5. ModelInv'
  BY <1>3 DEF IInv, ModelInv
<1>6. BatchInv'
  <2>1. \A c \in Calibrators : left'[c] <= BatchCount[c]
    BY <1>1, <1>3, BatchAssumption DEF IInv, TypeOK, BatchInv
  <2>2. /\ Len(given') = Len(heap) + 1 /\ given'[Len(given')] = b
        /\ \A k \in 1 .. Len(heap) : given'[k] = given[k]
    BY <1>2, <1>3 DEF IInv, TypeOK, BatchInv
  <2>3. devbuf'[calib] = b
    BY <1>1, <1>3 DEF IInv, TypeOK
  <2>. QED
    BY <1>1, <1>3, <2>1, <2>2, <2>3 DEF IInv, BatchInv
<1>7. CalibrationFaithful'
  BY <1>3 DEF IInv, BatchInv, CalibrationFaithful
<1>. QED
  BY <1>4, <1>5, <1>6, <1>7 DEF IInv

LEMMA StageBatchKeeps ==
  ASSUME IInv, StageBatch
  PROVE  IInv'
<1>. USE DEF netVars, appVars
<1>1. PICK data \in {devbuf[calib], 0} : heap' = Append(heap, data)
  BY DEF StageBatch
<1>2. /\ params' = Append(params, Len(heap) + 1) /\ pc = "stage" /\ pc' = "calibrate"
      /\ UNCHANGED << netVars, cfgVars, appVars, opts, calib, dyn, int8, given,
                      builds, blobs >>
  BY DEF StageBatch
<1>3. calib \in Calibrators /\ data \in Nat /\ data \in {given[Len(given)], 0}
  BY <1>1, <1>2 DEF IInv, TypeOK, BatchInv
<1>4. TypeOK'
  <2>1. held' \in BOOLEAN
    BY <1>2 DEF IInv, TypeOK
  <2>2. heap' \in Seq(Nat)
    BY <1>1, <1>3 DEF IInv, TypeOK
  <2>3. params' \in Seq(Nat)
    BY <1>2 DEF IInv, TypeOK
  <2>4. /\ pc' \in {"idle", "parse", "calibrate", "stage", "quantize", "compile"}
        /\ UNCHANGED cfgVars
    BY <1>2 DEF cfgVars
  <2>. QED
    BY <1>2, <2>1, <2>2, <2>3, <2>4 DEF IInv, TypeOK, cfgVars
<1>5. ModelInv'
  BY <1>2 DEF IInv, ModelInv
<1>6. BatchInv'
  <2>1. /\ Len(heap') = Len(heap) + 1 /\ Len(params') = Len(heap) + 1
        /\ heap'[Len(heap) + 1] = data /\ params'[Len(heap) + 1] = Len(heap) + 1
        /\ \A k \in 1 .. Len(heap) : heap'[k] = heap[k] /\ params'[k] = params[k]
    BY <1>1, <1>2, <1>3 DEF IInv, TypeOK, BatchInv
  <2>2. Len(given) = Len(heap) + 1 /\ Len(heap) \in Nat
    BY <1>2 DEF IInv, TypeOK, BatchInv
  <2>. QED
    BY <1>2, <1>3, <2>1, <2>2 DEF IInv, BatchInv
<1>7. CalibrationFaithful'
  BY <1>2 DEF IInv, CalibrationFaithful
<1>. QED
  BY <1>4, <1>5, <1>6, <1>7 DEF IInv

LEMMA CalibratorExhaustedKeeps ==
  ASSUME IInv, CalibratorExhausted
  PROVE  IInv'
<1>. USE DEF netVars, cfgVars, appVars, localVars
<1>1. held' \in BOOLEAN
  BY DEF CalibratorExhausted, IInv, TypeOK
<1>2. /\ pc = "calibrate" /\ pc' \in {"compile", "quantize"}
      /\ UNCHANGED << netVars, cfgVars, appVars, localVars, builds, blobs >>
  BY DEF CalibratorExhausted
<1>3. TypeOK'
  BY <1>1, <1>2 DEF IInv, TypeOK
<1>4. ModelInv' /\ BatchInv' /\ CalibrationFaithful'
  BY <1>2 DEF IInv, ModelInv, BatchInv, CalibrationFaithful
<1>. QED
  BY <1>3, <1>4 DEF IInv

LEMMA QuantizeInt8Keeps ==
  ASSUME IInv, QuantizeInt8
  PROVE  IInv'
<1>. USE DEF netVars, cfgVars, appVars
<1>1. /\ pc = "quantize" /\ pc' = "compile"
      /\ UNCHANGED << netVars, cfgVars, appVars, opts, calib, dyn, heap, params,
                      given, builds, blobs >>
  BY DEF QuantizeInt8
<1>2. DOMAIN params = 1 .. Len(heap) /\ Len(heap) \in Nat
  BY DEF IInv, TypeOK, BatchInv
<1>3. int8' = [k \in 1 .. Len(heap) |-> heap[k]]
  BY <1>2 DEF QuantizeInt8, IInv, BatchInv
<1>4. int8' \in Seq(Nat) /\ Len(int8') = Len(heap)
  <2>1. \A k \in 1 .. Len(heap) : heap[k] \in Nat
    BY DEF IInv, TypeOK
  <2>. QED
    BY <1>2, <1>3, <2>1
<1>5. TypeOK'
  BY <1>1, <1>4 DEF IInv, TypeOK
<1>6. ModelInv' /\ BatchInv'
  BY <1>1 DEF IInv, ModelInv, BatchInv
<1>7. CalibrationFaithful'
  <2>1. Len(given) = Len(heap) /\ \A k \in 1 .. Len(heap) : heap[k] \in {given[k], 0}
    BY <1>1 DEF IInv, BatchInv
  <2>. QED
    BY <1>1, <1>2, <1>3, <1>4, <2>1 DEF CalibrationFaithful
<1>. QED
  BY <1>5, <1>6, <1>7 DEF IInv

LEMMA NextIInv == IInv /\ [Next]_vars => IInv'
<1>. SUFFICES ASSUME IInv, [Next]_vars PROVE IInv'
  OBVIOUS
<1>1. CASE BuildThrows
  BY <1>1, LeaveKeeps DEF BuildThrows, IInv, TypeOK
<1>2. CASE UNCHANGED vars
  <2>. USE DEF vars, netVars, cfgVars, appVars, localVars
  <2>1. held' \in BOOLEAN
    BY <1>2 DEF IInv, TypeOK
  <2>2. TypeOK'
    BY <1>2, <2>1 DEF IInv, TypeOK
  <2>3. ModelInv' /\ BatchInv' /\ CalibrationFaithful'
    BY <1>2 DEF IInv, ModelInv, BatchInv, CalibrationFaithful
  <2>. QED
    BY <2>2, <2>3 DEF IInv
<1>. QED
  BY <1>1, <1>2, ClientKeeps, StartBuildKeeps, ParseForBuildKeeps, GetBatchKeeps,
     StageBatchKeeps, CalibratorExhaustedKeeps, QuantizeInt8Keeps, CompileKeeps
     DEF Next, Build

LEMMA Invariant == Spec => []IInv
BY InitIInv, NextIInv, PTL DEF Spec

(* Every variable keeps its type; in particular an engine is built from a     *)
(* model that was captured, never from an empty network.                     *)
THEOREM TypeCorrect == Spec => []TypeOK
BY Invariant, PTL DEF IInv

(* quantize_int8 reads the batches its build was given, each once, in order.  *)
THEOREM CalibratesFaithfully == Spec => []CalibrationFaithful
BY Invariant, PTL DEF IInv

(* After a parse that succeeded, what is built is what the network reports.   *)
THEOREM BuildsAsReported == Spec => BuiltAsReported
<1>1. IInv /\ [Next]_vars =>
        [(blobs' # blobs /\ parsed = "true") => blobs'[Len(blobs')].model = tensors]_vars
  <2>. SUFFICES ASSUME IInv, [Next]_vars, blobs' # blobs, parsed = "true"
                PROVE  blobs'[Len(blobs')].model = tensors
    OBVIOUS
  <2>1. Compile
    BY DEF Next, Client, Parse, FileUnreadable, HoldTensors, SetFlag, ClearFlag,
           SetInt8Calibrator, AddOptimizationProfile, SetDimensions, Build, StartBuild,
           BuildThrows, ParseForBuild, GetBatch, StageBatch, CalibratorExhausted,
           QuantizeInt8, vars
  <2>2. blobs'[Len(blobs')].model = onnx
    BY <2>1 DEF Compile, IInv, TypeOK
  <2>. QED
    BY <2>2 DEF IInv, ModelInv
<1>. QED
  BY <1>1, Invariant, PTL DEF Spec, BuiltAsReported

(* Tensors a client holds die only by a parse that tells it so: neither a file *)
(* that cannot be read or parsed nor a build takes them away.                *)
THEOREM TensorsHeld == Spec => HeldUntilParsed
<1>1. IInv /\ [Next]_vars => [held /\ ~held' => parses' # parses /\ parsed' = "true"]_vars
  <2>. SUFFICES ASSUME IInv, [Next]_vars, held' # held, held
                PROVE  parses' # parses /\ parsed' = "true"
    BY DEF IInv, TypeOK
  <2>1. \E m \in Models : Parse(m)
    BY DEF Next, Client, FileUnreadable, HoldTensors, SetFlag, ClearFlag, netVars,
           SetInt8Calibrator, AddOptimizationProfile, SetDimensions, Build, StartBuild,
           BuildThrows, ParseForBuild, GetBatch, StageBatch, CalibratorExhausted,
           QuantizeInt8, Compile, Leave, vars
  <2>2. parses' = parses + 1 /\ (parsed' = "true" \/ held' = held)
    BY <2>1 DEF Parse
  <2>3. parses \in 0 .. MaxParses /\ MaxParses \in Nat
    BY BoundAssumption DEF IInv, TypeOK
  <2>4. parses' # parses
    BY <2>2, <2>3
  <2>. QED
    BY <2>2, <2>4
<1>. QED
  BY <1>1, Invariant, PTL DEF Spec, HeldUntilParsed
=============================================================================
