---------------------------- MODULE BuildSession ----------------------------
(***************************************************************************)
(* From a model to a serialized engine: one network definition, its parser, *)
(* a builder configuration with calibrators and optimization profiles, and  *)
(* the builder (ShimParser, ShimNetwork, ShimConfig, ShimCalibSource and    *)
(* ShimBuilder of src/shim.cpp; introspect and build of src/backend.cpp).   *)
(*                                                                         *)
(* The client calls these objects in any order, and again after a failure:  *)
(* it parses a second model into the same network, changes flags, attaches  *)
(* another calibrator or profile, builds again with the same configuration. *)
(* A build holds raw pointers to the calibrator and the profile it finds in *)
(* the configuration when it starts; an int8 build then pulls batches from  *)
(* the calibrator until it is exhausted.                                    *)
(*                                                                         *)
(* MIGraphX (parsing, quantizing, compiling) and the application's          *)
(* calibrators are external.  A call of MIGraphX may throw, and always does *)
(* for a model it cannot handle.                                            *)
(***************************************************************************)
EXTENDS Naturals, Sequences

CONSTANTS
  Models,       \* contents of ONNX files
  Broken,       \* those MIGraphX cannot parse or compile
  Calibrators,  \* the application's IInt8Calibrator objects
  BatchCount,   \* batches each of them has to give
  Profiles,     \* IOptimizationProfile objects
  Axes,         \* dynamic axes a profile may describe
  Null,         \* null pointer, empty string, no dynamic axis
  MaxProfiles,  \* bound: calls of addOptimizationProfile
  MaxParses,    \* bound: calls of the parser
  MaxBuilds     \* bound: calls of buildSerializedNetwork

ASSUME BrokenAssumption == Broken \subseteq Models
ASSUME BatchAssumption == BatchCount \in [Calibrators -> Nat]
ASSUME NullAssumption ==
  Null \notin Models /\ Null \notin Calibrators /\ Null \notin Profiles
    /\ Null \notin Axes
ASSUME BoundAssumption ==
  MaxProfiles \in Nat /\ MaxParses \in Nat /\ MaxBuilds \in Nat

Flags == {"fp16", "int8"}

VARIABLES
  \* ShimNetwork
  onnx,       \* onnx_: the captured model, Null before the first
  tensors,    \* the model inputs_ and outputs_ describe, Null when empty
  parsed,     \* result of the last parse: "none", "true" or "false"
  parses,     \* parses so far
  held,       \* the client holds ITensors of the network, and they are alive
  \* ShimConfig
  flags,
  calibrator, \* calibrator_
  profiles,   \* profiles_
  \* objects of the application
  axis,       \* axis[p]: what dynamicAxis() derives from p's dimensions now
  left,       \* left[c]: batches calibrator c has not given yet
  devbuf,     \* devbuf[c]: batch in the device buffer c hands out
  \* locals of buildSerializedNetwork and build
  pc,
  opts,       \* BuildOptions
  calib,      \* the calibrator behind the CalibrationSource, Null without one
  dyn,        \* DynamicAxis
  heap,       \* CalibrationData objects, in the order of their allocation
  params,     \* calibration data of qopts: each entry points to an object
  int8,       \* what quantize_int8 read, << >> when it was not called
  given,      \* history: batches the calibrator gave this build
  \* what the client got
  builds,     \* calls of buildSerializedNetwork so far
  blobs       \* serialized engines, in the order they were returned

netVars == << onnx, tensors, parsed, parses, held >>
cfgVars == << flags, calibrator, profiles >>
appVars == << axis, left, devbuf >>
localVars == << opts, calib, dyn, heap, params, int8, given >>
vars == << netVars, cfgVars, appVars, pc, localVars, builds, blobs >>

Init ==
  /\ onnx = Null /\ tensors = Null /\ parsed = "none" /\ parses = 0 /\ held = FALSE
  /\ flags = {} /\ calibrator = Null /\ profiles = << >>
  /\ axis \in [Profiles -> Axes \cup {Null}]
  /\ left = BatchCount
  /\ devbuf = [c \in Calibrators |-> 0]
  /\ pc = "idle"
  /\ opts = {} /\ calib = Null /\ dyn = Null
  /\ heap = << >> /\ params = << >> /\ int8 = << >> /\ given = << >>
  /\ builds = 0 /\ blobs = << >>

Idle == pc = "idle"

-----------------------------------------------------------------------------
(* introspect: parse and compile the bytes with fixed dimensions, and        *)
(* describe the tensors of the program; or throw.                           *)
Introspect(m) == {"throws"} \cup (IF m \in Broken THEN {} ELSE {"tensors"})

(* populate: the network's tensors are those of the model just introspected, *)
(* the ones it had are destroyed.                                           *)
Populate(m) == tensors' = m /\ held' = FALSE

(* Mutant: the network keeps the first model it was given.                  *)
Parse_FirstWins(m) ==
  /\ Idle /\ parses < MaxParses
  /\ parses' = parses + 1
  /\ onnx' = IF onnx = Null THEN m ELSE onnx
  /\ \/ /\ "tensors" \in Introspect(m)
        /\ Populate(m) /\ parsed' = "true"
     \/ /\ "throws" \in Introspect(m)
        /\ parsed' = "false" /\ UNCHANGED << tensors, held >>
  /\ UNCHANGED << cfgVars, appVars, pc, localVars, builds, blobs >>

Parse_ClearsFirst(m) ==   \* mutant: the tensors go before the bytes are parsed
  /\ Idle /\ parses < MaxParses
  /\ parses' = parses + 1
  /\ onnx' = m
  /\ \/ /\ "tensors" \in Introspect(m)
        /\ Populate(m) /\ parsed' = "true"
     \/ /\ "throws" \in Introspect(m)
        /\ parsed' = "false" /\ Populate(Null)
  /\ UNCHANGED << cfgVars, appVars, pc, localVars, builds, blobs >>

(* ShimParser::ingest: capture the bytes, then introspect them and populate  *)
(* the tensors; an exception of introspect ends it with false.              *)
Parse(m) ==
  /\ Idle /\ parses < MaxParses
  /\ parses' = parses + 1
  /\ onnx' = m
  /\ \/ /\ "tensors" \in Introspect(m)
        /\ Populate(m) /\ parsed' = "true"
     \/ /\ "throws" \in Introspect(m)
        /\ parsed' = "false" /\ UNCHANGED << tensors, held >>
  /\ UNCHANGED << cfgVars, appVars, pc, localVars, builds, blobs >>

(* parseFromFile gives up before ingest when the file cannot be opened or    *)
(* read to its end.                                                         *)
FileUnreadable ==
  /\ Idle /\ parses < MaxParses
  /\ parses' = parses + 1
  /\ parsed' = "false"
  /\ UNCHANGED << onnx, tensors, held, cfgVars, appVars, pc, localVars, builds, blobs >>

(* getInput, getOutput: the network goes on owning the tensor.               *)
HoldTensors ==
  /\ Idle /\ tensors # Null /\ ~held
  /\ held' = TRUE
  /\ UNCHANGED << onnx, tensors, parsed, parses, cfgVars, appVars, pc, localVars,
                  builds, blobs >>

-----------------------------------------------------------------------------
(* ShimConfig and ShimOptimizationProfile. *)

SetFlag(f) ==
  /\ Idle /\ f \notin flags
  /\ flags' = flags \cup {f}
  /\ UNCHANGED << netVars, calibrator, profiles, appVars, pc, localVars,
                  builds, blobs >>

ClearFlag(f) ==
  /\ Idle /\ f \in flags
  /\ flags' = flags \ {f}
  /\ UNCHANGED << netVars, calibrator, profiles, appVars, pc, localVars,
                  builds, blobs >>

SetInt8Calibrator(c) ==
  /\ Idle
  /\ calibrator' = c
  /\ UNCHANGED << netVars, flags, profiles, appVars, pc, localVars,
                  builds, blobs >>

AddOptimizationProfile(p) ==
  /\ Idle /\ Len(profiles) < MaxProfiles
  /\ profiles' = Append(profiles, p)
  /\ UNCHANGED << netVars, flags, calibrator, appVars, pc, localVars,
                  builds, blobs >>

(* The profile object stays the client's: setDimensions may be called after  *)
(* it has been added to the configuration.                                  *)
SetDimensions(p, a) ==
  /\ Idle
  /\ axis' = [axis EXCEPT ![p] = a]
  /\ UNCHANGED << netVars, cfgVars, left, devbuf, pc, localVars, builds, blobs >>

-----------------------------------------------------------------------------
(* buildSerializedNetwork and build. *)

(* ShimConfig::profile(): only the first profile counts. *)
FirstProfile == IF profiles = << >> THEN Null ELSE profiles[1]

(* Options, calibrator and dynamic axis are read, and build is entered.      *)
StartBuild ==
  /\ Idle /\ builds < MaxBuilds
  /\ builds' = builds + 1
  /\ opts' = flags
  /\ calib' = IF "int8" \in flags THEN calibrator ELSE Null
  /\ dyn' = IF FirstProfile = Null THEN Null ELSE axis[FirstProfile]
  /\ pc' = "parse"
  /\ UNCHANGED << netVars, cfgVars, appVars, heap, params, int8, given, blobs >>

(* The locals of a build are gone when it returns. *)
Leave ==
  /\ pc' = "idle"
  /\ opts' = {} /\ calib' = Null /\ dyn' = Null
  /\ heap' = << >> /\ params' = << >> /\ int8' = << >> /\ given' = << >>

(* Any call of MIGraphX throws, building an argument of a batch included;    *)
(* buildSerializedNetwork catches, logs and returns nullptr.  What the       *)
(* calibrator has given is gone.                                            *)
BuildThrows ==
  /\ pc \in {"parse", "stage", "quantize", "compile"}
  /\ Leave
  /\ UNCHANGED << netVars, cfgVars, appVars, builds, blobs >>

ParseForBuild_AcceptsEmpty ==   \* mutant: a network nothing was parsed into
  /\ pc = "parse" /\ onnx \notin Broken
  /\ pc' = IF "int8" \in opts /\ calib # Null THEN "calibrate" ELSE "compile"
  /\ UNCHANGED << netVars, cfgVars, appVars, localVars, builds, blobs >>

ParseForBuild ==
  /\ pc = "parse" /\ onnx \notin Broken \cup {Null}
  /\ pc' = IF "int8" \in opts /\ calib # Null THEN "calibrate" ELSE "compile"
  /\ UNCHANGED << netVars, cfgVars, appVars, localVars, builds, blobs >>

(* CalibrationSource::next: the application's getBatch fills its device      *)
(* buffer, the same one for every batch, ...                                *)
GetBatch ==
  /\ pc = "calibrate" /\ left[calib] > 0
  /\ left' = [left EXCEPT ![calib] = @ - 1]
  /\ devbuf' = [devbuf EXCEPT ![calib] = BatchCount[calib] - left[calib] + 1]
  /\ given' = Append(given, BatchCount[calib] - left[calib] + 1)
  /\ pc' = "stage"
  /\ UNCHANGED << netVars, cfgVars, axis, opts, calib, dyn, heap, params, int8,
                  builds, blobs >>

StageBatch_Reused ==   \* mutant: one host object for all batches
  /\ pc = "stage"
  /\ heap' = << devbuf[calib] >>
  /\ params' = Append(params, 1)
  /\ pc' = "calibrate"
  /\ UNCHANGED << netVars, cfgVars, appVars, opts, calib, dyn, int8, given,
                  builds, blobs >>

(* ... and the batch is staged to a host object of its own, which stays      *)
(* zero-filled when the application set no binding or the copy failed; the   *)
(* object is handed to MIGraphX by pointer and kept.                        *)
StageBatch ==
  /\ pc = "stage"
  /\ \E data \in {devbuf[calib], 0} : heap' = Append(heap, data)
  /\ params' = Append(params, Len(heap) + 1)
  /\ pc' = "calibrate"
  /\ UNCHANGED << netVars, cfgVars, appVars, opts, calib, dyn, int8, given,
                  builds, blobs >>

CalibratorExhausted_Ignored ==   \* mutant: false of getBatch is not heeded
  /\ pc = "calibrate" /\ left[calib] = 0
  /\ UNCHANGED vars

CalibratorExhausted ==
  /\ pc = "calibrate" /\ left[calib] = 0
  /\ pc' = IF heap = << >> THEN "compile" ELSE "quantize"
  /\ UNCHANGED << netVars, cfgVars, appVars, localVars, builds, blobs >>

(* quantize_int8 reads the calibration data through the pointers.           *)
QuantizeInt8 ==
  /\ pc = "quantize"
  /\ int8' = [k \in DOMAIN params |-> heap[params[k]]]
  /\ pc' = "compile"
  /\ UNCHANGED << netVars, cfgVars, appVars, opts, calib, dyn, heap, params,
                  given, builds, blobs >>

(* fp16 quantization, compilation, IO metadata (for a dynamic engine from a  *)
(* second, static parse of the same bytes) and pack_blob.                   *)
Compile ==
  /\ pc = "compile"
  /\ blobs' = Append(blobs,
                [model |-> onnx, flags |-> opts, calib |-> calib,
                 int8 |-> int8, dynamic |-> dyn])
  /\ Leave
  /\ UNCHANGED << netVars, cfgVars, appVars, builds >>

Build == \/ StartBuild \/ BuildThrows \/ ParseForBuild \/ GetBatch \/ StageBatch
         \/ CalibratorExhausted \/ QuantizeInt8 \/ Compile

Client ==
  \/ \E m \in Models : Parse(m)
  \/ FileUnreadable \/ HoldTensors
  \/ \E f \in Flags : SetFlag(f) \/ ClearFlag(f)
  \/ \E c \in Calibrators \cup {Null} : SetInt8Calibrator(c)
  \/ \E p \in Profiles : \/ AddOptimizationProfile(p)
                         \/ \E a \in Axes \cup {Null} : SetDimensions(p, a)

Next == Client \/ Build

Spec == Init /\ [][Next]_vars

(* A build that has started runs on its caller's thread to its end.          *)
FairSpec ==
  Spec /\ WF_vars(BuildThrows \/ ParseForBuild \/ GetBatch \/ StageBatch
                    \/ CalibratorExhausted \/ QuantizeInt8 \/ Compile)

-----------------------------------------------------------------------------
(* Properties. *)

Blob == [model : Models, flags : SUBSET Flags, calib : Calibrators \cup {Null},
         int8 : Seq(Nat), dynamic : Axes \cup {Null}]

(* Types. *)
TypeOK ==
  /\ onnx \in Models \cup {Null} /\ tensors \in Models \cup {Null}
  /\ parsed \in {"none", "true", "false"} /\ parses \in 0 .. MaxParses
  /\ held \in BOOLEAN
  /\ flags \subseteq Flags
  /\ calibrator \in Calibrators \cup {Null} /\ profiles \in Seq(Profiles)
  /\ axis \in [Profiles -> Axes \cup {Null}]
  /\ left \in [Calibrators -> Nat] /\ devbuf \in [Calibrators -> Nat]
  /\ pc \in {"idle", "parse", "calibrate", "stage", "quantize", "compile"}
  /\ opts \subseteq Flags /\ calib \in Calibrators \cup {Null}
  /\ dyn \in Axes \cup {Null}
  /\ heap \in Seq(Nat) /\ params \in Seq(Nat) /\ int8 \in Seq(Nat)
  /\ given \in Seq(Nat)
  /\ builds \in 0 .. MaxBuilds
  /\ blobs \in Seq(Blob)

(* What quantize_int8 reads is what the calibrator gave to this build, batch *)
(* for batch and in order, although the calibrator hands out one device      *)
(* buffer again and again and MIGraphX gets pointers; only a batch whose     *)
(* staging failed reads as zeros.                                           *)
CalibrationFaithful ==
  int8 # << >> =>
    /\ Len(int8) = Len(given)
    /\ \A k \in DOMAIN int8 : int8[k] \in {given[k], 0}

(* An engine that is built while the parser's last answer was true is built  *)
(* from the model whose tensors the network reports, whatever was parsed     *)
(* into the network, or failed to parse, before.                            *)
BuiltAsReported ==
  [][(blobs' # blobs /\ parsed = "true") =>
       blobs'[Len(blobs')].model = tensors]_vars

(* The ITensors a client holds stay alive until a parse succeeds, which tells  *)
(* it so: a file that cannot be read or parsed, and a build (which parses and  *)
(* introspects the model anew), leave it what it has.                        *)
HeldUntilParsed ==
  [][held /\ ~held' => parses' # parses /\ parsed' = "true"]_vars

(* buildSerializedNetwork returns when its calibrator is finite.            *)
BuildReturns == pc # "idle" ~> pc = "idle"

(* "When opts.int8 is set and calib is non-null, calibration batches drive   *)
(* migraphx int8 quantization" (src/backend.h).                             *)
Int8Quantized ==
  \A i \in DOMAIN blobs :
    ("int8" \in blobs[i].flags /\ blobs[i].calib # Null) => blobs[i].int8 # << >>
=============================================================================
