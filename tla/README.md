# trt-shim-rocm in TLA+

trt-shim-rocm implements the TensorRT C++ interface on top of AMD MIGraphX.
This directory holds TLA+ models of it, configurations that check them with TLC
on small instances, and proofs of what matters most for every instance.
Line numbers without a file are those of `src/backend.cpp`.

## The system

| Component | State | Operations | Interacts with |
|---|---|---|---|
| Parser and network (`ShimParser`, `ShimNetwork`, `introspect`) | captured ONNX bytes; tensors of the introspected model | `parse`, `parseFromFile` | network is read by the builder; MIGraphX parses and compiles |
| Configuration (`ShimConfig`, `ShimOptimizationProfile`) | flags, raw calibrator pointer, profile pointers, dimensions per profile | `setFlag`, `clearFlag`, `setInt8Calibrator`, `addOptimizationProfile`, `setDimensions` | read by the builder when a build starts |
| Builder (`ShimBuilder`, `ShimCalibSource`, `build`) | none between calls; options, calibration batches and program during one | `buildSerializedNetwork` | pulls batches from the application's calibrator (callback), packs an engine |
| Engine format (`pack_blob`) | none | writer in the builder, reader in `load` | disk, stream readers |
| Runtime (`ShimRuntime`, `load`) | none between calls | `deserializeCudaEngine` from memory or from a stream reader | reader callbacks, MIGraphX |
| Execution contexts (`ShimContext`, `EngineImpl`) | addresses and shapes by tensor name; program shared by all contexts of an engine | `setTensorAddress`, `setInputShape`, `executeV2`, `enqueueV3` | HIP streams, `hipMemcpy`, graph capture |
| ONNX output names (`PbReader`) | none | `onnx_output_names` | names the engine's outputs |
| Program files | `/tmp/trtshim_XXXXXX` | `program_to_bytes`, `program_from_bytes` | file system, MIGraphX |
| Drivers (`tools/trtshim_run.cpp`, `trtshim_dyn_run.cpp`) | an engine file between runs; device buffers within one | build or load, save, infer, compare | everything above, as a test suite sees it |

The program starts no thread of its own. Concurrency comes from its callers (one
thread per context, as in trtexec) and from the device, which executes streams
while the host goes on. Failure comes from MIGraphX (exceptions at any call),
from HIP (error codes), from stream readers, and from the bytes of an engine,
which may have been damaged or cut short.

What is hard, and where it is: the order of the staged path's synchronous copies
against the stream (`run_staged`, 301-346); capture of a call that cannot be
captured; one dynamic axis described in
three places (`dynamicAxis`, parse options, IO metadata); decoding of lengths and counts that cannot be trusted (472-538);
failures that leave half of an object updated (`ingest`, shim.cpp 581-592);
callbacks that hand out one buffer again and again (`getBatch`); objects that
are consumed by use (calibrators); a walk over bytes that loses its step once
and for all if one field is skipped wrongly (`PbReader`, 27-107); temporary files
that several threads make, reuse the names of and leave behind (116-142); an
engine file that a run was killed over; one context that serves several batch
sizes with buffers that come and go; results that nobody looks at (the streams of
122-138, the drivers' `hipMalloc` and `hipMemcpy`).

## Modules

| Module | Models | Kind |
|---|---|---|
| `EngineFormat` | `pack_blob` (355-372), field readers (487-496, 523) | operators |
| `EngineLoad` | `deserializeCudaEngine` (shim.cpp 401-431), `load` (472-538), `program_from_bytes` as a choice | state machine |
| `SequenceLemmas` | induction as a fact about sets; prefixes; `FlattenSeq` | lemmas |
| `EngineLoadMC` | engines and damaged engines for TLC | instance |
| `EngineLoad_proofs` | theorems about `EngineLoad` | proofs |
| `InferenceOrder` | what contexts promise: every inference gets at most one answer, its own, in order | abstract specification |
| `StreamRun` | `executeV2`, `enqueueV3` (shim.cpp 295-303), `run`, `run_zero_copy`, `run_staged` (218-346) against streams | state machine, implements `InferenceOrder` |
| `StreamRunMC` | a staged and a zero-copy context | instance |
| `StreamRun_proofs` | theorems about `StreamRun` | proofs |
| `BuildSession` | parser, network, configuration, builder, calibration (shim.cpp 143-252, 438-592; `introspect`, `build` 376-470) | state machine |
| `BuildSessionMC` | three models, a calibrator, a profile | instance |
| `BuildSession_proofs` | theorems about `BuildSession` | proofs |
| `ShapeBinding` | `setDimensions`, `dynamicAxis`, `setTensorAddress`, `setInputShape` (shim.cpp 168-200, 286-303); parse options, IO metadata, `split_io`, `dynamic_batch`, `resolve`, parameter loops of both run paths (173-192, 203-214, 229-346, 392-467); `to_dims`, `getTensorShape`, `getTensorStrides` (shim.cpp 69-76, 267-284) | state machine |
| `ShapeBindingMC` | models with free axes in different places | instance |
| `ShapeBinding_proofs` | theorems about `ShapeBinding` | proofs |
| `OnnxEncoding` | how the fields of an ONNX model stand in its bytes; protobuf's and ONNX's, external to the repository | operators |
| `OnnxNames` | `PbReader`, `onnx_output_names`, naming in `split_io` (27-107, 180-186) | state machine |
| `OnnxNamesMC` | models encoded as protobuf encodes them | instance |
| `OnnxNames_proofs` | theorems about `OnnxNames` | proofs |
| `ProgramFile` | `program_to_bytes`, `program_from_bytes` (116-142) in several threads | state machine |
| `ProgramFileMC` | two threads, two programs, a small disk | instance |
| `ProgramFile_proofs` | theorems about `ProgramFile` | proofs |
| `DriverRuns` | `tools/trtshim_run.cpp`, `tools/trtshim_dyn_run.cpp`, run after run | state machine |
| `DriverRunsMC` | three models, one with the golden answers, one with half of them | instance |
| `DriverRuns_proofs` | theorems about `DriverRuns` | proofs |

### EngineLoad

One action is one read of the decoder; `off`, `ok`, `n_io`, `ios`, `io`, `ndim`
are the locals of `load`, `pc` names the next statement. `Need`, `Get`,
`get_u32`, `get_u64` are its lambdas. `high` and `alloc` are history variables:
the highest byte touched, and the elements of all `dims` vectors resized.

The caller's bytes are a parameter (`Sources`). A byte has `Radix` values, 256 in
the program and 4 for TLC: a `uint32_t` then has 256 values and a `uint64_t`
65536, both above the length of every blob in the runs, so that a length field
can announce more than there is and position plus length can wrap. The field
widths are the program's. A stream reader hands out chunks of at most `Chunk`
bytes and stops at any time: the loops (418, 427) do not tell an error from the
end.

### StreamRun

Every context has a thread, a stream (`queue`), device buffers (`din`, `dout`)
and a client. A buffer's contents are named by the number of the inference whose
data they are; this is all the properties need. The client's actions are those
of trtexec and of the drivers in `tools/`: submit the input copy, call, submit
the output copies, go on; or everything synchronously around `executeV2`; or
capture one `enqueueV3` and launch the graph from then on.

trtexec spreads an inference over three streams, chained by events from the input
copy to the call and from the call to the output copy
(`sampleInference.cpp` 742-777). That orders one inference like one stream, but
nothing orders the next inference's input copy after this one's call, or its call
after this one's output copy. The client modelled here uses one stream and is
stricter than trtexec with overlapping inferences; what the runs and theorems say
of answers is said of clients that order their own copies as it does.

A context in `Staged` belongs to a dynamic engine. `run_staged` is four steps
(`RunStaged`, `CopyIn`, `Eval`, `CopyOut` once per output), each `hipMemcpy`
waiting for what the blocking streams held when it was called (`mark`); a
context in `NonBlocking` has a stream it does not wait for. Failures of HIP, of
MIGraphX and of an unbound tensor are `ZeroCopyFails` and `StagedFails`.

### BuildSession

The client's calls are atomic except `buildSerializedNetwork`, whose steps are
those at which something outside runs: parsing, one `getBatch`, one staging, the
quantization, the compilation. `heap` and `params` keep the pointer structure of
the calibration data: `params[k]` is an index into `heap`, and the device buffer
`devbuf` of the calibrator is refilled for every batch. Every MIGraphX call may
throw; for a model in `Broken` parsing always does. `held` says that the client
holds ITensors of the network (shim.cpp 133-140), which a later `populate`
destroys: the objects of an interface are deleted by whoever made them, and these
are the only ones that the code deletes under the client's hands.

### ShapeBinding

Which axis is dynamic is written in three places: the profile (`profile`), the
options the model is parsed with (`engine.params`, the set of extents each axis
of a parameter takes) and the IO metadata (`engine.ios`). `Build` derives the
last two from the first as the code does: `dynamicAxis` picks the first open
axis of the first name in the order of the `std::map`, the parse option is given
to every free axis of the model, and `MarkDynamic` puts -1 on one axis of one
input and on axis 0 of every output. `run` is one action for `run_zero_copy` and
`run_staged`: their copies and their order are `StreamRun`'s subject, here only
names, shapes and buffers count. Parameters come in any order (`order`). That an
argument which does not fit its parameter throws, and that output shapes follow
from input shapes, is what the code expects of MIGraphX (`Fits`, `OutputDims`).
Any run may also fail. What a context then tells of shapes and strides
(`getTensorShape`, `getTensorStrides`) goes through `to_dims`, whose array is
bounded by `MaxDims`; `StridesPacked` is about the element each index reaches.

`ReportedOpen` and `ShapesAsReported` speak of the case `DynamicAxis` is meant
for (`SingleAxis`): the model has at most one free axis and the profile opens no
other. `ReportedOpen` also presupposes a profile whose minimum is below its
maximum (`InOrder`), as the interface asks of a client. `ShapesAsReported` holds
for the passing run's models, whose free axis is the first of every output;
finding 4 is what happens when it is not, and `RanAsReported` proves that nothing
else is in its way.

### OnnxNames

One action is one byte of a varint, or what `tag`, `bytes` or `skip` do when
their varint is complete. `level` says which of the three nested readers is in
use; `p` and `end` are the members of each. Bytes have 256 values, and a word 17
bits for TLC (64 in the program), so that a varint can be cut off by the word; a
field number is cut to `FieldWord` values (line 45). The model's bytes are at the
addresses from `Base`: `p_ + len` (line 51) wraps at the word (`Ahead`), and
`AtMost` is then not the clamp it looks like but takes the reader back. No such
length is in a model that is encoded as it should be, and models that reach the walk
have been parsed by MIGraphX, which reads the same fields; of other bytes nothing is
claimed.

A member of `Models` is the bytes of a model, the names it gives its outputs and
the fields it has, each with the place where it stands. `OnnxEncoding` says what
the three have to do with each other (`Encoded`), in the direction a writer goes,
from fields to bytes: a message is its fields without a gap, a varint may be padded
but fits the word, a value info has one name, the first graph of a model is its graph. That this
holds of every model is the assumption `EncodingAssumption`, which TLC evaluates
for each model of the instance and which is false if one byte or one position of
one is changed. Every property and theorem of the walk is about such models. A
value info without a name, or whose name equals another output's fallback, is not
valid ONNX.

### ProgramFile

A file is the sequence of blocks written so far, each with the program it is of.
A thread's call goes from `mkstemp` through `write`, `open`, `read` or `load` to
`unlink`; `Throw` leaves from where the code can throw, without `unlink`, and
`left` remembers the name. The streams (122-126, 136-138) are not asked whether
they failed, so `CloseFile` may come early when the disk is full, `Open` takes the
size it finds, and `Read` may stop anywhere and leave zeros in the string that was
to be filled. Only complete programs load: MIGraphX parses what it loads.

### DriverRuns

A run goes from its arguments to its exit status; the engine file stays. A run of
`trtshim_run` builds, saves and infers once, or loads and infers; a run of
`trtshim_dyn_run` loops over batch sizes with one context. `Kill` may end a run at
any step. `--save` may fail to open (the file stays as it was) or stop early (a
full disk), and `--load` may stop reading early (zeros stay in the string); nothing
asks. `Decoded` is what `EngineLoad` shows of `load`: a prefix is rejected, bytes
behind the engine are not looked at, and what is of two engines, or has lost bytes,
is for MIGraphX to accept or not. Runs do not overlap: the tests that
share the file are ordered by a fixture, and nothing in the drivers would make two
processes that write one file safe. A device buffer is a sequence of rows;
`Malloc` may give any free address, one just freed included, or null. A row
nobody has written has any argmax.

Neither driver looks at what `hipMemcpy` returns. The input's copy may fail
(`Bind`): the buffer then holds undefined rows. The output's may fail (`Fetch`):
`out` keeps its zeros, and the argmax of zeros is 0. `unfed` and `blank` remember the
batches to which that has happened, and `prev` keeps them, with the command and the
engine, for `ExitTellsMatch`: a run passes only if no batch differed from the golden
answers and fails only if one did, where a batch that was copied in and out differs
exactly if its engine does. What the file's header says is stronger than what the
code does (see Findings). The input and the golden answers are what the run has read from their
files; reads of those are not checked by the code either, and are not modelled.

## Runs

| Run | Shows | Bounds |
|---|---|---|
| `EngineLoad` | round trip; a prefix is never an engine; no over-read, linear allocation; accepted bytes are packed bytes; every call returns | 4 engines: none, one and two IO tensors, empty and equal names, scalar, negative and two-byte dimensions, a program that looks like a header; of the two with most fields also every byte overwritten, every 4- and 8-byte window saturated, trailing bytes; whole or cut short anywhere; every way to cut the stream into chunks of up to 3 |
| `StreamRun_mixed` | answers match their inputs and come in order, host copies respect the stream, captured graphs infer, calls return, accepted inferences are delivered; implements `InferenceOrder` | one staged and one zero-copy context, 2 outputs, 2 inferences each: the next inference is in flight while the last is fetched, and a graph is captured after the first and launched for the second |
| `StreamRun_nonblocking` | finding 1 | one staged context on a non-blocking stream |
| `BuildSession` | calibration data is what was given, engines are built from the model that was reported, builds return | 2 usable models and a broken one, 2 parses, 2 builds, 2 batches, 1 profile |
| `BuildSession_int8` | finding 2 | the same |
| `ShapeBinding_single` | the axis the profile opens is dynamic in the program and reported so; accepted runs use the shapes the client computes and the buffers it names; strides address the tensors that were run | a model with one free axis, a fixed second input that precedes it by name and two outputs of one shape, and one with no free axis; profiles that open the axis or do not, set in any order; shapes inside and outside the range; two buffers for each output |
| `ShapeBinding_pair` | finding 3 | two inputs with a free axis |
| `ShapeBinding_length` | finding 4 | one input with a free second axis |
| `ShapeBinding_resolved` | finding 5 | as `ShapeBinding_single` |
| `OnnxNames` | the names found are the outputs' own, in order, at every moment; readers stay nested; the walk ends | every graph of up to two fields out of six that must be skipped (each wire type, with bytes inside that look like outputs, and padded or maximal varints) and three outputs, and every one of them between two outputs; with four kinds of fields before the graph and two after |
| `ProgramFile` | engines hold their own program or zeros, loads give what was saved, files are accounted for, calls return | two threads of two calls each, programs of one and two blocks, three names, a disk of three blocks: two calls fill it, and a name can be reused while the other thread works |
| `DriverRuns` | exit statuses tell the truth, buffers are live, no partial engine is run, runs end | three runs, so that a load can follow a save that follows a killed one; three models of two sizes; batches of 1 and 2; two classes, one of which is the argmax of zeros; two addresses for two buffers, so that both are reused |

Deadlock is not checked for `StreamRun`: after `MaxRun` inferences a client is
done. It is checked everywhere else.

`ShapeBinding` needs no more than two inputs and two outputs: the code treats
every pair of tensors alike, and names, numbers and order can disagree only from
two on. It has no liveness property: its calls are single steps.

Fairness. `EngineLoad` and `BuildSession` run on their caller's thread, so a call
that has begun takes its next step; the reader of a stream decides when to stop,
and its source is finite. The same holds of a walk over names (`OnnxNames`), of a
call that holds a temporary file (`ProgramFile`, one condition per thread: none
waits for another) and of a driver (`DriverRuns`). `StreamRun` assumes that the device executes what is
queued, that the steps of a call are taken (MIGraphX and HIP return), that a
`hipMemcpy` in a capturing thread fails rather than hangs, and that a client that
was answered true fetches the outputs. Nothing makes a client begin another
inference, a capture, a parse or a build, and no failure is assumed to happen.

Every property of a passing run is also violated by at least one small bug put
into the model; the operators for these are next to the ones they replace,
marked "mutant".

## Findings

1. `src/backend.cpp:222`. `enqueueV3` of a dynamic engine ignores the stream.
   Its copies run on the null stream, which is not ordered with a
   `hipStreamNonBlocking` stream (the kind `makeCudaStream` of the samples
   creates). `backend.h:63` promises "async on the given hipStream_t".
2. `src/backend.cpp:436`. An int8 build whose calibrator is exhausted succeeds
   without quantization; `backend.h:91-93` says the calibration batches drive
   it. The second build with one calibrator is such a build.
3. `src/backend.cpp:457`. The parse option makes every free axis of every input
   dynamic, the metadata mark one. A second input with a free batch is dynamic in
   the program and reported as 1. `docs/ARCHITECTURE.md:153-154` speaks of one
   input in both places, and line 157 says "Single-axis only."
4. `src/backend.cpp:460`. Axis 0 of every output is marked -1 whichever axis of
   the input is dynamic. For a free second axis the client computes output shapes
   that are not those of the run. `backend.h:79` and `dynamicAxis` allow any axis.
5. `src/shim.cpp:267`. A context reports an output's dynamic axis as -1 even
   after the shapes of all inputs have been set. `NvInferRuntime.h:4217-4220`
   allows -1 only before that (or for shapes that depend on values). trtexec, which
   asks in order to size its buffers, then asks for an output allocator, which the
   shim does not implement.

Three more that need no run to see. `to_dims` (shim.cpp 69-76) counts more axes than
a `Dims` holds when a tensor has more than `MAX_DIMS`; no model is rejected for its
rank, and `getTensorStrides` then reads past the array. A `--save` that cannot open
its file (`trtshim_run.cpp:131`) reports "saved engine" and passes; with an older
file in place the load test after it passes too, though `CMakeLists.txt:177` calls
the pair a round trip. The drivers do not look at what `hipMemcpy` returns
(`trtshim_run.cpp:157` and 171, `trtshim_dyn_run.cpp:91` and 99): without its input
the engine answers something else, and without its output the run compares zeros,
so it may pass with an engine that is wrong, or fail with one that is right, though
`trtshim_run.cpp:13` says "Exit 0 iff argmax matches the golden." `DriverRuns` models
the second and the third as they are.

## Proofs

`EngineLoad_proofs` proves, for every radix, magic, set of sources and chunk
size, that the decoder keeps its types (`TypeCorrect`), reads nothing past the
end (`ReadsInBounds`) and sizes its vectors linearly in the blob
(`AllocatesLinearly`). The argument is one inductive invariant, `IInv`:
`TypeOK`, `Bounds` (the position and everything touched lie inside the blob, and
before `pc = "magic"` nothing has been read) and `Paid` (each dimension that was
resized and is not of the record at hand has cost 8 bytes of progress; the
record at hand has not yet read its dimensions but its count is at most the
size). `InBounds` is not inductive alone: that a read is inside follows from
where the position was. `AllocLinear` needs `Paid`, since nothing in its
statement says that a record with many dimensions consumed bytes.

The format itself is proved in both directions, for engines and blobs of any size.
An engine that `load` accepts packs to a beginning of the blob, whatever the bytes
(`AcceptedPacked`); one that arrived only in part is never accepted
(`NeverPartialEngine`); and what was packed and arrives whole is decoded into itself
unless MIGraphX throws (`RoundTrips`). The invariant is `FInv`. Its part
`Positions` reads the bytes as what they came from: while the decoder's flag is
up, the bytes before `off` are those `pack_blob` writes for the records decoded
and the fields read so far, so each step appends one field to both sides;
`AcceptedIsPacked` is where that ends. Its part `Tracks` goes the other way: of any
engine whose packing the blob begins, the decoder has the same records, the
same fields and, when all of it is there, a flag that never fell. The two
directions meet in lemmas about one field (what `get_u32` and `get_u64` read where
`put_u32` and `put_u64` have written, two's complement included) and about
concatenation (`FlattenAppend`, `PrefixExtend`). `EnginesAssumption` says of the
engines a builder packs that their fields fit the widths they are cast to
(`Representable`); without it `pack_blob` cuts them off. Everything else is the
constants' types.

`StreamRun_proofs` proves, for any number of contexts, outputs and inferences and
any choice of staged contexts and non-blocking streams, that types are kept
(`TypeCorrect`) and that a launched graph is one inference (`GraphsInfer`), and,
if no staged context has a non-blocking stream (`StagedBlocks`), that no client
receives anything computed from another inference's input (`AnswersMatch`), that
host copies happen on a drained stream (`CopiesOrdered`) and that `StreamRun`
implements `InferenceOrder` (`ImplementsInferenceOrder`). The run
`StreamRun_nonblocking` shows that `StagedBlocks` cannot be dropped.

What a copy delivers depends on what is queued before it and on what its thread
is going to submit, so `ResultsMatch` is strengthened, for every context, to
`CtxInv`:

- `StreamInv`: the first operation on the stream finds in the buffers what it is
  meant to work on, and each later one is preceded by the operation that leaves
  it there (`Chain`);
- `ThreadInv`: so will the operation the thread submits next; in a staged or
  synchronous call the stream has drained, which holds because a `hipMemcpy`
  waits for as many operations as the stream held when it was called;
- `GraphInv`: what a capture has recorded, at every stage of it;
- `HostInv`: `ResultsMatch` itself.

`ChainAppend` and `ChainExecute` state once, without state variables, what
submitting and executing an operation do to a chain; there is one lemma per action
on top of them. Steps of other contexts leave `CtxInv` alone (`Same`, `CtxFrame`).
The refinement needs `OrderInv` too: operations are on a stream in the order in
which they were asked for, and no answer is ahead of the first of them.

`BuildSession_proofs` proves, for any models, calibrators with any number of
batches, and profiles, that types are kept, that quantization reads the batches
the calibrator gave (`CalibratesFaithfully`) and that an engine is built from the
model the network reports (`BuildsAsReported`), and that tensors a client holds die
only by a parse that returns true (`TensorsHeld`). The invariant says of a build under
way that `params` is 1, 2, 3 ... into a `heap` whose entries are the batches given
so far, so nothing is moved or written again after MIGraphX was told of it; and of
the network that a true parse left `onnx` and `tensors` the same model.

`OnnxNames_proofs` proves, for every model that is encoded as `EncodingAssumption`
says, with any number of fields, of any wire types, in any order and at every level,
at any address, that readers stay inside the model's bytes (`TypeCorrect`) and nested
(`ReadersNested`), that the names found so far are
always the first of the model's outputs (`NamesInOrder`) and at the end all of them
(`NamesReal`). Nothing in these statements says where in a field a reader is, and once one
is out of step everything after it is noise, so the invariant `InStep` places all of
them. The reader in use is where its message has a field, or inside the varint of
one, of which `r` holds the bits read (the value modulo `place`); each reader
around it is where the field after the one it handed on begins; and as many names
have been found as outputs are behind the graph's reader. One lemma on seven more
bits of a number (`NextBits`) carries the varint loop, one says that a reader that
reads a tag, a length or a skipped value in step stays so (`StaysInStep`), and one
per level says what a field means there. That types and nesting are kept needs `InStep`
too: `AtMost` and `Width` stay within what is left of the message (`InBounds`) because
a field that the message has ends inside it, and its length then neither wraps nor is
clamped (`AtMostFits`).

`ShapeBinding_proofs` proves, for any models, profiles, calls and orders of
MIGraphX's parameters, that the metadata keep their types and list every tensor
once (`BindingTypes`), that outputs arrive in the buffers of their names
(`OutputsArrive`), that the axis a profile opens, and no other, is dynamic and
reported (`OpenIsReported`), and that an accepted run has used the shapes its client
computes (`RanAsReported`), the last for models whose free axis is the first of
every output (`BatchFirst`). The invariant `SInv` says where things come from
rather than what they are: the engine is the one that `Build` makes of the present
model and profile, for some order of the parameters (`Built`; neither changes once
there is an engine), and an accepted run has run with arguments that fit (`Ran`).
The rest are lemmas about one state: the k-th output among the metadata is the
model's k-th (`OutputsAre`), a name finds its own tensor (`ReportedAre`),
`dynamicAxis` is null exactly if no axis is open (`DynamicAxisIs`), and at most one
free axis leaves nothing to confuse (`EngineAxis`, `ArgumentIs`).
`GraphAssumption` asks that a model's tensors have different names and an output's
axis be fixed or an input's.

That the strides of a context address the tensor that was run (`StridesAddress`) is
proved for tensors of any rank and any extents, under two conditions that the code
does not enforce: no tensor has more axes than a `Dims` holds (`RanksFit`; see
`to_dims` under Findings), and shapes are set for inputs only (`ShapesOfInputs`, as
the interface asks). The property counts the indices that precede one in row-major
order. Folds are over sets in an unspecified order, so lemmas first say what a sum
and a product over an interval are, one element after the other (`SumTails`,
`ProductTails`); then what is behind an axis is less than one step along it
(`TailBound`), so indices are ordered as their offsets are (`BeforeIs`), and every
offset below the size is reached (`Reach`), which makes offsets a bijection from the
indices before one onto the numbers below its own (`Counted`).

`ProgramFile_proofs` proves, for any threads, programs, names and disk, that files
are accounted for (`NothingLeftBehind`), that engines hold bytes of their own
program, each in its place, or zeros, and all of them if no write and no read failed
(`EnginesHoldOwnBytes`), and that loads give what was saved (`LoadsWhatWasSaved`). `FilesAccounted` is nearly
inductive; the other two rest on it, since a file belongs to one call: what is in
it is then a beginning of what that call writes, and what was read a beginning of
that.

`DriverRuns_proofs` proves, for any commands, models, addresses and number of runs,
that types are kept (`TypeCorrect`), that exit statuses tell what comparing the
batches has found (`ExitsTell`), that buffers are live (`BuffersAreLive`) and that
engines are whole unless reading their file has stopped early (`EnginesAreWhole`).
The invariant has a part for the file (the beginning of one engine, and whole only
if some run wrote it to the end), one for the run (which engine follows from which
memory), one for the copies (which batches have gone without them), one for the
buffers (what each holds, step by step; a new address differs
from a live one because it is free) and one for the verdict (what `all_ok` says of the
iterations done). A row that was computed has one argmax,
so the comparison has the outcome `Found` says (`AgreesFound`).

Every assumption is a constant's type or that sentinels are not members of it,
except four: `CommandAssumption` (command lines are those the drivers take),
`GraphAssumption` and `EncodingAssumption` (what a valid ONNX model is), and
`AddressAssumption` (the bytes of a model have addresses).

`SequenceLemmas` has what these proofs share. The induction theorems of the library
take an operator as a parameter, which the provers cannot instantiate; here
induction is stated of a set (`SetInduction`, `SequenceInduction`) and proved from
the well-foundedness of the natural numbers. The lemmas about `FlattenSeq`, a
recursive function under a `CHOOSE`, rest on it.

Liveness (`Returns`, `Delivered`, `CallReturns`, `BuildReturns`, `CallsReturn`,
`RunEnds`) is model-checked and not proved, since the prover has no rule for
fairness. Every other property of a passing run is the subject of a theorem.

## Not modelled, and the plan

What is left to do, in order:

1. `trtshim_infer` with its file per output, if it gets a check of its own; now
   its exit status says only that inference ran.

Not modelled, and why:

- Object lifetimes other than that of ITensors. An object lives until its owner
  deletes it, and the interface asks the caller to keep the runtime, the engine
  and the context alive in that order; a model would assume what it shows.
- Contexts of one engine running its program in several threads (348): whether that
  is safe is decided inside MIGraphX.
- Data types: one table in either direction (shim.cpp 40-67).
- The CUDA forwarding headers and the plugin stub (no state), the stub generator
  (build time), scripts, vendored samples and headers. `driver_smoke` is
  `trtshim_run` without a file; `migraphx_smoke` does not use the shim.
