----------------------------- MODULE DriverRuns -----------------------------
(***************************************************************************)
(* The drivers trtshim_run and trtshim_dyn_run (src/tools), run one after    *)
(* another, as a test suite runs them, each from its arguments to its exit    *)
(* status.                                                                  *)
(*                                                                         *)
(* A run of trtshim_run builds an engine and may save it to a file, or loads  *)
(* one that an earlier run has left there; it then infers once.  A run of     *)
(* trtshim_dyn_run builds an engine with a dynamic batch and infers with one  *)
(* context for one batch size after another, with new device buffers each     *)
(* time, while the context remembers shapes and addresses.  Either compares   *)
(* what it has fetched with a golden answer.                                 *)
(*                                                                         *)
(* A run may be killed at any step.  The file may be impossible to open for   *)
(* writing, the disk may be full, and the file may not be read to its end.    *)
(* hipMalloc and hipMemcpy, which the drivers do not check, may fail.         *)
(* hipMalloc, hipMemcpy, MIGraphX and the disk are external; a device buffer  *)
(* holds rows, and a row is what was copied or computed there, or undefined.  *)
(* The input and the golden answers are what the run has read from its files. *)
(***************************************************************************)
EXTENDS Naturals, Sequences

CONSTANTS
  Models,    \* ONNX files
  Classes,   \* indices of the classes an answer picks from
  Answer,    \* Answer[m][r]: the class model m gives row r of the input
  Size,      \* Size[m]: blocks of the serialized engine of m
  Commands,  \* command lines: see Command
  Addresses, \* device addresses
  Null,      \* no file, null pointer, no engine
  Undef,     \* a row nobody has written
  MaxRuns    \* bound: runs of a driver

Command == [dynamic : BOOLEAN, model : Models, engine : {"build", "save", "load"},
            batches : Seq(Nat \ {0}), golden : Seq(Classes)]

ASSUME CommandAssumption ==
  /\ Commands \subseteq Command
  /\ \A c \in Commands :
       IF c.dynamic THEN c.engine = "build" ELSE c.batches = << 1 >>
  /\ \A c \in Commands :
       /\ c.batches # << >>
       /\ \A i \in 1 .. Len(c.batches) :
            c.batches[i] <= Len(c.golden) /\ \A m \in Models : c.batches[i] <= Len(Answer[m])
ASSUME ModelAssumption ==
  /\ Size \in [Models -> Nat \ {0}] /\ Answer \in [Models -> Seq(Classes)]
  /\ Classes \subseteq Nat /\ 0 \in Classes
Mixed == "mixed"   \* an engine whose program is of two models, or has lost bytes

ASSUME NullAssumption ==
  /\ Null \notin Models \cup Addresses \cup {Mixed} /\ Null \notin Commands
  /\ Mixed \notin Models
  /\ Undef \notin Classes \cup Nat /\ Null \notin Seq(Nat \cup {Undef})
  /\ MaxRuns \in Nat

Zero == << Null, 0 >>                \* a block of zero bytes

Tensors == << "input", "output" >>   \* the IO tensors, in the engine's order

VARIABLES
  file,   \* the engine file: its blocks, Null when there is none
  runs,   \* runs started
  prev,   \* history: how the run before this one ended, and what led to its verdict
  \* the run in progress
  pc,
  cmd,    \* its command
  plan,   \* plan or blob: the serialized engine in memory
  pos,    \* blocks of it written to the file, size tellg has returned
  engine, \* the model of the deserialized engine, Mixed, or Null
  loop,   \* index of the batch in the loop
  io,     \* index of the tensor in the loop over the IO tensors
  shape,  \* the context's shapes_: rows of the input, 0 when not set
  addrs,  \* the context's addrs_
  dev,    \* device: the buffers of this iteration
  mem,    \* device memory: rows of each allocation, Null when free
  out,    \* the rows fetched
  all_ok, \* no answer has differed from the golden one
  unfed,  \* history: batches whose input did not get to the device
  blank,  \* history: batches whose output did not get to the host
  whole   \* history: models whose engine a run has written to the end

local == << pos, loop, io, shape, addrs, dev, mem, out, all_ok, unfed, blank >>
vars == << file, runs, prev, pc, cmd, plan, engine, local, whole >>

(* What the inferences leave alone.                                         *)
settled == << file, runs, prev, cmd, plan, engine, pos, whole >>

Serialized(m) == [i \in 1 .. Size[m] |-> << m, i >>]

NoBuffers == [i \in 1 .. Len(Tensors) |-> Null]

Ended(how) == [exit |-> how]

Verdict(how) == [exit |-> how, cmd |-> cmd, engine |-> engine, unfed |-> unfed, blank |-> blank]

Init ==
  /\ file = Null /\ runs = 0 /\ whole = {}
  /\ prev = Ended("none")
  /\ pc = "none" /\ cmd = Null /\ plan = << >> /\ engine = Null
  /\ pos = 0 /\ loop = 0 /\ io = 0 /\ shape = 0
  /\ addrs = NoBuffers /\ dev = NoBuffers
  /\ mem = [a \in Addresses |-> Null]
  /\ out = << >> /\ all_ok = TRUE /\ unfed = {} /\ blank = {}

Goto(l) == pc' = l

(* The process ends, and with it everything but the file.                    *)
Exit(how) ==
  /\ Goto("none")
  /\ prev' = IF how \in {"passed", "failed"} THEN Verdict(how) ELSE Ended(how)
  /\ cmd' = Null /\ plan' = << >> /\ engine' = Null
  /\ pos' = 0 /\ loop' = 0 /\ io' = 0 /\ shape' = 0
  /\ addrs' = NoBuffers /\ dev' = NoBuffers
  /\ mem' = [a \in Addresses |-> Null]
  /\ out' = << >> /\ all_ok' = TRUE /\ unfed' = {} /\ blank' = {}
  /\ UNCHANGED << file, runs, whole >>

-----------------------------------------------------------------------------
(* The engine.                                                              *)

Start ==
  /\ pc = "none" /\ runs < MaxRuns
  /\ runs' = runs + 1
  /\ \E c \in Commands :
       cmd' = c /\ Goto(IF c.engine = "load" THEN "open" ELSE "build")
  /\ UNCHANGED << file, prev, plan, engine, local, whole >>

(* Parsed and built; or either fails, and the run with it.                   *)
Build ==
  /\ pc = "build"
  /\ \/ /\ plan' = Serialized(cmd.model)
        /\ Goto(IF cmd.engine = "save" THEN "save" ELSE "deserialize")
        /\ UNCHANGED << file, runs, prev, cmd, engine, local, whole >>
     \/ Exit("error")

OpenForSave_Keeps ==   \* mutant: opened without truncation
  /\ pc = "save"
  /\ \/ /\ file' = IF file = Null THEN << >> ELSE file
        /\ Goto("write")
     \/ Goto("deserialize") /\ file' = file
  /\ UNCHANGED << runs, prev, cmd, plan, engine, local, whole >>

(* The ofstream of --save: opened and truncated, or not opened, which nobody  *)
(* asks about.                                                              *)
OpenForSave ==
  /\ pc = "save"
  /\ \/ file' = << >> /\ Goto("write")
     \/ Goto("deserialize") /\ file' = file
  /\ UNCHANGED << runs, prev, cmd, plan, engine, local, whole >>

(* One block of the write.                                                  *)
Write ==
  /\ pc = "write" /\ pos < Len(plan)
  /\ pos' = pos + 1
  /\ file' = [i \in 1 .. (IF pos < Len(file) THEN Len(file) ELSE pos + 1) |->
                IF i = pos + 1 THEN plan[i] ELSE file[i]]
  /\ whole' = IF pos + 1 = Len(plan) THEN whole \cup {cmd.model} ELSE whole
  /\ UNCHANGED << runs, prev, pc, cmd, plan, engine, loop, io, shape, addrs, dev, mem,
                  out, all_ok, unfed, blank >>

(* The ofstream is closed, everything written or the disk full.               *)
CloseSaved ==
  /\ pc = "write"
  /\ Goto("deserialize")
  /\ pos' = 0
  /\ UNCHANGED << file, runs, prev, cmd, plan, engine, loop, io, shape, addrs, dev, mem,
                  out, all_ok, unfed, blank, whole >>

(* What read_file returns: as many blocks as the file has, zero from where     *)
(* reading it stopped, which nobody asks about.                              *)
Contents == { [i \in 1 .. Len(file) |-> IF i <= n THEN file[i] ELSE Zero] :
                n \in 0 .. Len(file) }

(* read_file of --load; its exception is not caught.                         *)
ReadEngine ==
  /\ pc = "open"
  /\ \/ /\ file # Null
        /\ plan' \in Contents /\ Goto("deserialize")
        /\ UNCHANGED << file, runs, prev, cmd, engine, local, whole >>
     \/ file = Null /\ Exit("aborted")

(* What load makes of a blob: nothing of one that ends too early; for one      *)
(* whose lengths fit but whose blocks are of two engines, MIGraphX decides,    *)
(* and so it does when zeros have taken the place of blocks after the first.   *)
Decoded(blob) ==
  IF blob = << >> \/ blob[1] = Zero THEN {Null}
  ELSE IF \E i \in 1 .. Len(blob) : blob[i] = Zero THEN {Mixed, Null}
  ELSE LET m == blob[1][1] IN
       IF Len(blob) < Size[m] THEN {Null}
       ELSE IF SubSeq(blob, 1, Size[m]) = Serialized(m) THEN {m, Null}
       ELSE {Mixed, Null}

Deserialize ==
  /\ pc = "deserialize"
  /\ \E e \in Decoded(plan) :
       IF e = Null THEN Exit("error")
       ELSE /\ engine' = e /\ loop' = 1
            /\ Goto(IF cmd.dynamic THEN "shape" ELSE "bind")
            /\ io' = 1
            /\ UNCHANGED << file, runs, prev, cmd, plan, pos, shape, addrs, dev, mem,
                            out, all_ok, unfed, blank, whole >>

-----------------------------------------------------------------------------
(* The inferences.                                                          *)

Batch == cmd.batches[loop]

SetInputShape_Once ==   \* mutant: set before the loop
  /\ pc = "shape"
  /\ shape' = IF loop = 1 THEN Batch ELSE shape
  /\ dev' = NoBuffers /\ io' = 1
  /\ Goto("bind")
  /\ UNCHANGED << settled, loop, addrs, mem, out, all_ok, unfed, blank >>

(* trtshim_dyn_run, at the top of its loop.                                  *)
SetInputShape ==
  /\ pc = "shape"
  /\ shape' = Batch
  /\ dev' = NoBuffers /\ io' = 1
  /\ Goto("bind")
  /\ UNCHANGED << settled, loop, addrs, mem, out, all_ok, unfed, blank >>

Rows(n, x) == [r \in 1 .. n |-> x]

Input(n) == [r \in 1 .. n |-> r]

(* hipMalloc: an address nothing is at, or null, which nobody asks about.     *)
Malloc(a) == a = Null \/ (a \in Addresses /\ mem[a] = Null)

(* What a new buffer holds: the input's is filled, if it could be copied.      *)
Filled(copied) ==
  IF Tensors[io] = "input" /\ copied THEN Input(Batch) ELSE Rows(Batch, Undef)

(* One tensor of the loop over the engine's: allocated, bound in the context   *)
(* and, if it is the input, filled, by a hipMemcpy that may fail without        *)
(* anybody asking.                                                          *)
Bind ==
  /\ pc = "bind" /\ io <= Len(Tensors)
  /\ \E a \in Addresses \cup {Null}, copied \in BOOLEAN :
       /\ Malloc(a) /\ (a = Null => ~copied)
       /\ dev' = [dev EXCEPT ![io] = a]
       /\ addrs' = [addrs EXCEPT ![io] = a]
       /\ mem' = IF a = Null THEN mem ELSE [mem EXCEPT ![a] = Filled(copied)]
       /\ unfed' = IF Tensors[io] = "input" /\ ~copied THEN unfed \cup {loop} ELSE unfed
  /\ io' = io + 1
  /\ Goto(IF io = Len(Tensors) THEN "execute" ELSE "bind")
  /\ UNCHANGED << settled, loop, shape, out, all_ok, blank >>

(* The rows a run of the context takes: those set, or the one of a static      *)
(* engine.                                                                  *)
RunRows == IF cmd.dynamic THEN shape ELSE 1

(* A mixed engine answers anything.                                         *)
Computed(x) == IF engine = Mixed \/ x = Undef THEN Undef ELSE Answer[engine][x]

(* executeV2 has run the bindings, or has failed, as it does without a buffer.  *)
Execute ==
  /\ pc = "execute"
  /\ \/ /\ Null \notin { dev[1], dev[2] }
        /\ mem' = [mem EXCEPT ![dev[2]] =
                     [r \in DOMAIN @ |-> IF r <= RunRows THEN Computed(mem[dev[1]][r])
                                         ELSE @[r]]]
        /\ Goto("fetch")
        /\ UNCHANGED << settled, loop, io, shape, addrs, dev, out, all_ok, unfed, blank >>
     \/ Exit("error")

Fetch_Freed ==   \* mutant: the buffers are freed before the output is copied
  /\ pc = "fetch"
  /\ out' = Rows(Batch, Undef)
  /\ mem' = [a \in Addresses |-> IF a \in { dev[1], dev[2] } THEN Null ELSE mem[a]]
  /\ Goto("compare")
  /\ UNCHANGED << settled, loop, io, shape, addrs, dev, all_ok, unfed, blank >>

(* The output is copied to the host, or out keeps the zeros it was made with,  *)
(* which nobody asks about; the buffers are freed.  The context keeps their    *)
(* addresses.                                                               *)
Fetch ==
  /\ pc = "fetch"
  /\ \/ out' = mem[dev[2]] /\ blank' = blank
     \/ out' = Rows(Batch, 0) /\ blank' = blank \cup {loop}
  /\ mem' = [a \in Addresses |-> IF a \in { dev[1], dev[2] } THEN Null ELSE mem[a]]
  /\ Goto("compare")
  /\ UNCHANGED << settled, loop, io, shape, addrs, dev, all_ok, unfed >>

(* The argmax of a row: a row of zeros, like one whose class is 0, picks 0.    *)
Argmax(x) == IF x = Undef THEN Classes ELSE {x}

(* Whether the rows fetched may and may not agree with the golden answers.    *)
Agrees == { \A r \in 1 .. Len(out) : pick[r] = cmd.golden[r] :
              pick \in { f \in [1 .. Len(out) -> Classes] :
                           \A r \in 1 .. Len(out) : f[r] \in Argmax(out[r]) } }

Compare_Repeats ==   \* mutant: the loop is not left
  /\ pc = "compare"
  /\ \E agrees \in Agrees :
       /\ all_ok' = (all_ok /\ agrees)
       /\ loop' = IF loop < Len(cmd.batches) THEN loop + 1 ELSE loop
       /\ Goto("shape")
       /\ UNCHANGED << settled, io, shape, addrs, dev, mem, out, unfed, blank >>

Compare_OffByOne ==   \* mutant: one iteration too many
  /\ pc = "compare"
  /\ \E agrees \in Agrees :
       IF loop <= Len(cmd.batches)
       THEN /\ all_ok' = (all_ok /\ agrees) /\ loop' = loop + 1
            /\ Goto("shape")
            /\ UNCHANGED << settled, io, shape, addrs, dev, mem, out, unfed, blank >>
       ELSE Exit(IF all_ok /\ agrees THEN "passed" ELSE "failed")

(* Every row's argmax is compared; then comes the next batch, or the end.     *)
Compare ==
  /\ pc = "compare"
  /\ \E agrees \in Agrees :
       IF loop < Len(cmd.batches)
       THEN /\ all_ok' = (all_ok /\ agrees) /\ loop' = loop + 1
            /\ Goto("shape")
            /\ UNCHANGED << settled, io, shape, addrs, dev, mem, out, unfed, blank >>
       ELSE Exit(IF all_ok /\ agrees THEN "passed" ELSE "failed")

-----------------------------------------------------------------------------
(* The run is killed.                                                       *)
Kill == pc # "none" /\ Exit("killed")

Driver ==
  \/ Build \/ OpenForSave \/ Write \/ CloseSaved \/ ReadEngine \/ Deserialize
  \/ SetInputShape \/ Bind \/ Execute \/ Fetch \/ Compare

Finished == pc = "none" /\ runs = MaxRuns /\ UNCHANGED vars

Next == Start \/ Driver \/ Kill \/ Finished

Spec == Init /\ [][Next]_vars

(* A driver that runs goes on: it waits for nobody.                          *)
FairSpec == Spec /\ WF_vars(Driver)

-----------------------------------------------------------------------------
(* Properties. *)

Steps == { "none", "build", "save", "write", "open", "deserialize", "shape", "bind",
           "execute", "fetch", "compare" }

Cells == Classes \cup {Undef} \cup Nat

(* The variables keep their types; the loops stay inside their lists.         *)
TypeOK ==
  /\ file = Null \/ file \in Seq(Models \X Nat)
  /\ runs \in 0 .. MaxRuns /\ pc \in Steps
  /\ cmd \in Commands \cup {Null} /\ (cmd = Null <=> pc = "none")
  /\ plan \in Seq((Models \cup {Null}) \X Nat) /\ pos \in 0 .. Len(plan)
  /\ engine \in Models \cup {Null, Mixed}
  /\ pc \in { "shape", "bind", "execute", "fetch", "compare" } =>
       engine # Null /\ loop \in 1 .. Len(cmd.batches)
  /\ io \in 0 .. Len(Tensors) + 1 /\ shape \in Nat
  /\ dev \in [1 .. 2 -> Addresses \cup {Null}] /\ addrs \in [1 .. 2 -> Addresses \cup {Null}]
  /\ \A a \in Addresses : mem[a] = Null \/ mem[a] \in Seq(Cells)
  /\ out \in Seq(Cells)
  /\ all_ok \in BOOLEAN /\ whole \subseteq Models
  /\ unfed \subseteq 1 .. loop /\ blank \subseteq 1 .. loop

(* The engine gives the golden answer to every row of batch i.               *)
MatchesAt(c, m, i) ==
  m \in Models /\ \A r \in 1 .. c.batches[i] : Answer[m][r] = c.golden[r]

(* What comparing batch i may have found: whether the engine matches, if its   *)
(* input has reached the device and its output the host; whether the golden    *)
(* answers are all class 0, if the output has not reached the host.           *)
Found(run, i) ==
  IF i \in run.blank THEN { \A r \in 1 .. run.cmd.batches[i] : run.cmd.golden[r] = 0 }
  ELSE IF run.engine = Mixed \/ i \in run.unfed THEN BOOLEAN
  ELSE { MatchesAt(run.cmd, run.engine, i) }

(* The exit status of a driver tells what comparing the batches has found, and *)
(* for a batch that was copied to the device and back, that is whether the     *)
(* engine it ran gives the golden answer to every row of it, whatever buffers,  *)
(* addresses and shapes the iterations before have left behind: the run fails  *)
(* only if some batch differs, and passes only if none does.  That is less     *)
(* than tools/trtshim_run.cpp:13 says, "Exit 0 iff argmax matches the golden":   *)
(* of a batch whose copies have failed the status says nothing.               *)
ExitTellsMatch ==
  /\ prev.exit = "passed" =>
       \A i \in 1 .. Len(prev.cmd.batches) : TRUE \in Found(prev, i)
  /\ prev.exit = "failed" =>
       \E i \in 1 .. Len(prev.cmd.batches) : FALSE \in Found(prev, i)

(* When the context runs, the buffers it is given are those it was told of, two  *)
(* live ones, with the rows it was told of: the input's, unless they could not   *)
(* be copied, and room for the output.                                       *)
BuffersLive ==
  pc = "execute" =>
    /\ dev = addrs
    /\ dev[1] # Null /\ dev[2] # Null => dev[1] # dev[2]
    /\ \A i \in 1 .. 2 : dev[i] # Null => mem[dev[i]] # Null /\ Len(mem[dev[i]]) = RunRows
    /\ dev[1] # Null =>
         mem[dev[1]] = IF loop \in unfed THEN Rows(RunRows, Undef) ELSE Input(RunRows)

(* A driver infers with the engine of its own model or, with --load, with one   *)
(* that some run has written to the end: runs that were killed while they wrote *)
(* and disks that filled leave nothing that a later run takes for an engine.    *)
(* That is, unless reading the file has itself stopped before its end.         *)
RunsWholeEngine ==
  engine # Null /\ (\A i \in 1 .. Len(plan) : plan[i] # Zero) =>
    IF cmd.engine = "load" THEN engine \in whole ELSE engine = cmd.model

(* Every run ends.                                                          *)
RunEnds == pc # "none" ~> pc = "none"
=============================================================================
