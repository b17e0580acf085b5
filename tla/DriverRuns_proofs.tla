------------------------- MODULE DriverRuns_proofs -------------------------
(***************************************************************************)
(* Proofs about DriverRuns: its safety properties, for any models, command    *)
(* lines and device addresses, by one inductive invariant in five parts.      *)
(***************************************************************************)
EXTENDS DriverRuns, TLAPS

Infer == { "shape", "bind", "execute", "fetch", "compare" }

(* The first k blocks of the engine of m.                                    *)
Prefix(m, k) == [i \in 1 .. k |-> << m, i >>]

(* b is the beginning of some engine, and all of it only if a run has written  *)
(* all of it.                                                               *)
Begun(b, m, k) ==
  /\ m \in Models /\ k \in 0 .. Size[m]
  /\ b = Prefix(m, k)
  /\ k = Size[m] => m \in whole

(* The file holds the beginning of one engine, that of the run that writes.    *)
FileInv ==
  \/ file = Null /\ pc # "write"
  \/ \E m, k : Begun(file, m, k) /\ (pc = "write" => m = cmd.model /\ k = pos)

(* b is what has been read of such a file: zero after the first n blocks.      *)
ReadOf(b, m, k, n) ==
  /\ m \in Models /\ k \in 0 .. Size[m] /\ n \in 0 .. k
  /\ b = [i \in 1 .. k |-> IF i <= n THEN << m, i >> ELSE Zero]
  /\ k = Size[m] => m \in whole

Clean(b) == \A i \in 1 .. Len(b) : b[i] # Zero

(* Where the run is, what it has in memory, and which engine it runs.          *)
RunInv ==
  /\ whole \subseteq Models /\ pc \in Steps
  /\ pc # "none" => cmd \in Commands
  /\ pos \in Nat /\ (pc # "write" => pos = 0)
  /\ pc = "build" => cmd.engine # "load"
  /\ pc \in {"save", "write"} => cmd.engine = "save" /\ plan = Serialized(cmd.model)
  /\ pc = "open" => cmd.engine = "load"
  /\ pc = "deserialize" =>
       IF cmd.engine = "load" THEN \E m, k, n : ReadOf(plan, m, k, n)
       ELSE plan = Serialized(cmd.model)
  /\ pc \in Infer =>
       /\ engine \in Models \cup {Mixed} /\ loop \in 1 .. Len(cmd.batches)
       /\ cmd.engine = "load" /\ Clean(plan) => engine \in whole
       /\ cmd.engine # "load" => engine = cmd.model
  /\ pc \notin Infer => engine = Null /\ all_ok = TRUE

(* The history of the copies is about the iterations there have been.          *)
CopyInv ==
  /\ pc \notin Infer => unfed = {} /\ blank = {}
  /\ pc \in Infer => unfed \subseteq 1 .. loop /\ blank \subseteq 1 .. loop
  /\ pc \in Infer \ {"compare"} => loop \notin blank
  /\ pc = "shape" \/ (pc = "bind" /\ io = 1) => loop \notin unfed

(* The rows the input buffer holds, and the rows an engine makes of them.      *)
Fed == IF loop \in unfed THEN Rows(Batch, Undef) ELSE Input(Batch)

Answers ==
  IF engine = Mixed \/ loop \in unfed THEN Rows(Batch, Undef)
  ELSE [r \in 1 .. Batch |-> Answer[engine][r]]

Fetched == IF loop \in blank THEN Rows(Batch, 0) ELSE Answers

(* Buffer j has been allocated and bound in this iteration, and filled.        *)
Ready(j) ==
  /\ dev[j] = addrs[j]
  /\ dev[j] # Null => mem[dev[j]] = IF j = 1 THEN Fed ELSE Rows(Batch, Undef)

(* The buffers, and what has become of them.                                 *)
BufferInv ==
  /\ mem = [a \in Addresses |-> mem[a]]
  /\ dev \in [1 .. 2 -> Addresses \cup {Null}] /\ addrs \in [1 .. 2 -> Addresses \cup {Null}]
  /\ pc \in { "bind", "execute" } => RunRows = Batch
  /\ pc = "bind" => io \in {1, 2} /\ (io = 2 => Ready(1))
  /\ pc = "execute" =>
       /\ Ready(1) /\ Ready(2)
       /\ dev[1] # Null /\ dev[2] # Null => dev[1] # dev[2]
  /\ pc = "fetch" => dev[2] # Null /\ mem[dev[2]] = Answers
  /\ pc = "compare" => out = Fetched

(* What comparing batch i of the run in progress may have found.               *)
FoundNow(i) ==
  IF i \in blank THEN { \A r \in 1 .. cmd.batches[i] : cmd.golden[r] = 0 }
  ELSE IF engine = Mixed \/ i \in unfed THEN BOOLEAN
  ELSE { MatchesAt(cmd, engine, i) }

(* all_ok is about the iterations there have been.                           *)
VerdictInv ==
  /\ pc \in Infer =>
       /\ all_ok \in BOOLEAN
       /\ all_ok => \A i \in 1 .. loop - 1 : TRUE \in FoundNow(i)
       /\ ~all_ok => \E i \in 1 .. loop - 1 : FALSE \in FoundNow(i)
  /\ ExitTellsMatch

IInv == FileInv /\ RunInv /\ CopyInv /\ BufferInv /\ VerdictInv

-----------------------------------------------------------------------------

LEMMA PrefixLen ==
  ASSUME NEW m, NEW k \in Nat
  PROVE  Len(Prefix(m, k)) = k
<1>1. Prefix(m, k) \in Seq({m} \X Nat)
  BY DEF Prefix
<1> QED BY <1>1 DEF Prefix

LEMMA RowsLen ==
  ASSUME NEW n \in Nat
  PROVE  /\ Len(Input(n)) = n /\ Input(n) # Null
         /\ \A x : Len(Rows(n, x)) = n
         /\ Rows(n, Undef) # Null
<1>1. Input(n) \in Seq(Nat \cup {Undef}) /\ Rows(n, Undef) \in Seq(Nat \cup {Undef})
  BY DEF Input, Rows
<1>2. \A x : Rows(n, x) \in Seq({x})
  BY DEF Rows
<1> QED BY <1>1, <1>2, NullAssumption DEF Input, Rows

(* The batches of a command.                                                *)
LEMMA Batches ==
  ASSUME NEW c \in Commands
  PROVE  /\ c.batches \in Seq(Nat \ {0}) /\ c.golden \in Seq(Classes) /\ c.model \in Models
         /\ Len(c.batches) >= 1
         /\ \A i \in 1 .. Len(c.batches) :
              /\ c.batches[i] \in Nat \ {0}
              /\ \A m \in Models : \A r \in 1 .. c.batches[i] : Answer[m][r] \in Classes
         /\ ~c.dynamic => c.batches = << 1 >>
         /\ c.dynamic \in BOOLEAN /\ (c.dynamic => c.engine = "build")
<1>1. c \in Command
  BY CommandAssumption
<1>2. c.batches \in Seq(Nat \ {0}) /\ c.golden \in Seq(Classes) /\ c.model \in Models
        /\ c.dynamic \in BOOLEAN
  BY <1>1 DEF Command
<1>3. c.batches # << >> /\ (~c.dynamic => c.batches = << 1 >>)
        /\ (c.dynamic => c.engine = "build")
  BY CommandAssumption
<1>4. Len(c.batches) >= 1
  BY <1>2, <1>3
<1>5. ASSUME NEW i \in 1 .. Len(c.batches)
      PROVE  /\ c.batches[i] \in Nat \ {0}
             /\ \A m \in Models : \A r \in 1 .. c.batches[i] : Answer[m][r] \in Classes
  <2>1. c.batches[i] \in Nat \ {0}
    BY <1>2
  <2>2. \A m \in Models : c.batches[i] <= Len(Answer[m])
    BY CommandAssumption
  <2>3. \A m \in Models : Answer[m] \in Seq(Classes)
    BY ModelAssumption
  <2> QED BY <2>1, <2>2, <2>3
<1> QED BY <1>2, <1>3, <1>4, <1>5

(* What Decoded makes of what has been read of an engine's beginning.          *)
LEMMA ReadTyped ==
  ASSUME NEW b, NEW m, NEW k, NEW n, ReadOf(b, m, k, n)
  PROVE  /\ m \in Models /\ Size[m] \in Nat \ {0} /\ k \in 0 .. Size[m] /\ n \in Nat
         /\ b \in Seq((Models \cup {Null}) \X Nat) /\ Len(b) = k
         /\ \A i \in 1 .. k : b[i] = IF i <= n THEN << m, i >> ELSE Zero
         /\ \A i \in 1 .. k : << m, i >> # Zero
<1>1. m \in Models /\ k \in 0 .. Size[m] /\ Size[m] \in Nat \ {0} /\ n \in 0 .. k
  BY ModelAssumption DEF ReadOf
<1>2. b = [i \in 1 .. k |-> IF i <= n THEN << m, i >> ELSE Zero]
  BY DEF ReadOf
<1>3. \A i \in 1 .. k : << m, i >> \in (Models \cup {Null}) \X Nat
  BY <1>1
<1>4. Zero \in (Models \cup {Null}) \X Nat
  BY DEF Zero
<1>5. \A i \in 1 .. k : << m, i >> # Zero
  BY <1>1, NullAssumption DEF Zero
<1> QED
  BY <1>1, <1>2, <1>3, <1>4, <1>5

LEMMA DecodesRead ==
  ASSUME NEW b, NEW m, NEW k, NEW n, ReadOf(b, m, k, n), NEW e \in Decoded(b), e # Null
  PROVE  /\ e = Mixed \/ (e = m /\ k = Size[m])
         /\ Clean(b) => e = m
<1>1. /\ Size[m] \in Nat \ {0} /\ k \in 0 .. Size[m] /\ n \in Nat /\ m \in Models
      /\ b \in Seq((Models \cup {Null}) \X Nat) /\ Len(b) = k
      /\ \A i \in 1 .. k : b[i] = IF i <= n THEN << m, i >> ELSE Zero
      /\ \A i \in 1 .. k : << m, i >> # Zero
  BY ReadTyped
<1>2. b # << >> /\ b[1] # Zero
  BY DEF Decoded
<1>3. k >= 1
  BY <1>1, <1>2
<1>4. CASE \E i \in 1 .. Len(b) : b[i] = Zero
  BY <1>2, <1>4 DEF Decoded, Clean
<1>5. CASE ~\E i \in 1 .. Len(b) : b[i] = Zero
  <2>1. \A i \in 1 .. k : b[i] = << m, i >>
    BY <1>1, <1>5
  <2>2. b[1][1] = m
    BY <1>3, <1>1, <2>1
  <2>3. ~(Len(b) < Size[m])
    BY <1>2, <1>5, <2>2 DEF Decoded
  <2>4. k = Size[m]
    BY <1>1, <2>3
  <2>5. SubSeq(b, 1, Size[m]) = Serialized(m)
    BY <1>1, <2>1, <2>4 DEF Serialized
  <2> QED
    BY <1>2, <1>5, <2>2, <2>3, <2>4, <2>5 DEF Decoded
<1> QED
  BY <1>4, <1>5

(* And of an engine that has not been out of memory.                         *)
LEMMA DecodesSerialized ==
  ASSUME NEW m \in Models, NEW e \in Decoded(Serialized(m)), e # Null
  PROVE  e = m
<1> DEFINE b == Serialized(m)
<1>1. Size[m] \in Nat \ {0}
  BY ModelAssumption
<1>2. b \in Seq(Models \X Nat) /\ Len(b) = Size[m] /\ \A i \in 1 .. Size[m] : b[i] = << m, i >>
  BY <1>1 DEF Serialized
<1>3. b # << >> /\ b[1][1] = m /\ \A i \in 1 .. Len(b) : b[i] # Zero
  BY <1>1, <1>2, NullAssumption DEF Zero
<1>4. SubSeq(b, 1, Size[m]) = Serialized(m)
  BY <1>1, <1>2 DEF Serialized
<1>5. b[1] # Zero
  BY <1>1, <1>2, <1>3
<1> QED
  BY <1>1, <1>2, <1>3, <1>4, <1>5 DEF Decoded

(* A run that ends as it may preserves the invariant.                        *)
LEMMA ExitPreserves ==
  ASSUME IInv, NEW how, Exit(how), ExitTellsMatch'
  PROVE  IInv'
<1> USE DEF Exit, Goto
<1>1. FileInv'
  <2>1. CASE file = Null
    BY <2>1 DEF FileInv
  <2>2. CASE \E m, k : Begun(file, m, k)
    BY <2>2 DEF FileInv, Begun
  <2> QED BY <2>1, <2>2 DEF IInv, FileInv
<1>2. RunInv'
  BY DEF IInv, RunInv, Infer, Steps
<1>3. BufferInv'
  BY DEF BufferInv, NoBuffers, Tensors
<1>4. VerdictInv'
  BY DEF VerdictInv, Infer
<1>5. CopyInv'
  BY DEF CopyInv, Infer
<1> QED BY <1>1, <1>2, <1>3, <1>4, <1>5 DEF IInv

-----------------------------------------------------------------------------
(* The steps before the inferences.                                         *)

LEMMA StartPreserves ==
  ASSUME IInv, Start
  PROVE  IInv'
<1> USE DEF Start, Goto, local
<1>1. PICK c \in Commands : cmd' = c /\ pc' = IF c.engine = "load" THEN "open" ELSE "build"
  OBVIOUS
<1>2. FileInv'
  BY <1>1 DEF IInv, FileInv, Begun
<1>3. RunInv'
  BY <1>1 DEF IInv, RunInv, Infer, Steps
<1>4. BufferInv'
  BY <1>1 DEF IInv, BufferInv
<1>5. VerdictInv'
  BY <1>1 DEF IInv, VerdictInv, Infer, ExitTellsMatch
<1>6. CopyInv'
  BY <1>1 DEF IInv, CopyInv, Infer
<1> QED BY <1>2, <1>3, <1>4, <1>5, <1>6 DEF IInv

(* A run that ends with neither verdict.                                     *)
LEMMA NoVerdict ==
  ASSUME NEW how \in { "error", "aborted", "killed" }, Exit(how)
  PROVE  ExitTellsMatch'
BY DEF Exit, ExitTellsMatch, Ended

LEMMA BuildPreserves ==
  ASSUME IInv, Build
  PROVE  IInv'
<1> USE DEF Build, Goto, local
<1>1. CASE Exit("error")
  BY <1>1, ExitPreserves, NoVerdict
<1>2. CASE ~Exit("error")
  <2>0. /\ pc = "build" /\ plan' = Serialized(cmd.model)
        /\ pc' = IF cmd.engine = "save" THEN "save" ELSE "deserialize"
        /\ UNCHANGED << file, runs, prev, cmd, engine, pos, loop, io, shape, addrs, dev, mem,
                        out, all_ok, unfed, blank, whole >>
    BY <1>2
  <2>1. FileInv'
    BY <2>0 DEF IInv, FileInv, Begun
  <2>2. RunInv'
    <3>1. cmd \in Commands /\ cmd.engine # "load" /\ plan' = Serialized(cmd'.model)
      BY <2>0 DEF IInv, RunInv
    <3> QED BY <2>0, <3>1 DEF IInv, RunInv, Infer, Steps
  <2>3. BufferInv'
    BY <2>0 DEF IInv, BufferInv
  <2>4. VerdictInv'
    BY <2>0 DEF IInv, VerdictInv, Infer, ExitTellsMatch
  <2>5. CopyInv'
    BY <2>0 DEF IInv, CopyInv, Infer
  <2> QED BY <2>1, <2>2, <2>3, <2>4, <2>5 DEF IInv
<1> QED BY <1>1, <1>2

LEMMA OpenForSavePreserves ==
  ASSUME IInv, OpenForSave
  PROVE  IInv'
<1> USE DEF OpenForSave, Goto, local
<1>1. FileInv'
  <2>1. CASE file' = << >> /\ pc' = "write"
    <3>1. cmd \in Commands /\ pos = 0
      BY DEF IInv, RunInv
    <3>2. cmd.model \in Models
      BY <3>1, Batches
    <3>3. Size[cmd.model] \in Nat \ {0}
      BY <3>2, ModelAssumption
    <3>4. << >> = Prefix(cmd.model, 0)
      BY DEF Prefix
    <3>5. Begun(file, cmd.model, 0)'
      BY <2>1, <3>2, <3>3, <3>4 DEF Begun, Prefix
    <3> QED BY <3>1, <3>5 DEF FileInv
  <2>2. CASE file' = file /\ pc' = "deserialize"
    BY <2>2 DEF IInv, FileInv, Begun
  <2> QED BY <2>1, <2>2
<1>2. RunInv'
  BY DEF IInv, RunInv, Infer, Steps
<1>3. BufferInv'
  BY DEF IInv, BufferInv
<1>4. VerdictInv'
  BY DEF IInv, VerdictInv, Infer, ExitTellsMatch
<1>5. CopyInv'
  BY DEF IInv, CopyInv, Infer
<1> QED BY <1>1, <1>2, <1>3, <1>4, <1>5 DEF IInv

LEMMA WritePreserves ==
  ASSUME IInv, Write
  PROVE  IInv'
<1> USE DEF Write
<1> DEFINE m == cmd.model
<1>1. cmd \in Commands /\ plan = Serialized(m) /\ pos \in Nat /\ whole \subseteq Models
  BY DEF IInv, RunInv
<1>2. m \in Models
  BY <1>1, Batches
<1>3. Size[m] \in Nat \ {0}
  BY <1>2, ModelAssumption
<1>4. Len(plan) = Size[m]
  <2>1. plan = Prefix(m, Size[m])
    BY <1>1 DEF Serialized, Prefix
  <2> QED BY <2>1, <1>3, PrefixLen
<1>5. Begun(file, m, pos)
  BY DEF IInv, FileInv
<1>6. Len(file) = pos
  BY <1>1, <1>5, PrefixLen DEF Begun
<1>7. FileInv'
  <2>1. file' = Prefix(m, pos + 1)
    BY <1>1, <1>3, <1>4, <1>5, <1>6 DEF Prefix, Begun, Serialized
  <2>2. pc = pc' /\ cmd = cmd' /\ pos' = pos + 1
    OBVIOUS
  <2>3. Begun(file, m, pos)'
    BY <1>1, <1>2, <1>3, <1>4, <2>1, <2>2 DEF Begun, Prefix
  <2> QED BY <2>2, <2>3 DEF FileInv
<1>8. RunInv'
  BY <1>1, <1>2 DEF IInv, RunInv, Infer
<1>9. BufferInv'
  BY DEF IInv, BufferInv
<1>10. VerdictInv'
  BY DEF IInv, VerdictInv, Infer, ExitTellsMatch
<1>11. CopyInv'
  BY DEF IInv, CopyInv, Infer
<1> QED BY <1>7, <1>8, <1>9, <1>10, <1>11 DEF IInv

LEMMA CloseSavedPreserves ==
  ASSUME IInv, CloseSaved
  PROVE  IInv'
<1> USE DEF CloseSaved, Goto
<1>1. FileInv'
  BY DEF IInv, FileInv, Begun
<1>2. RunInv'
  BY DEF IInv, RunInv, Infer, Steps
<1>3. BufferInv'
  BY DEF IInv, BufferInv
<1>4. VerdictInv'
  BY DEF IInv, VerdictInv, Infer, ExitTellsMatch
<1>5. CopyInv'
  BY DEF IInv, CopyInv, Infer
<1> QED BY <1>1, <1>2, <1>3, <1>4, <1>5 DEF IInv

LEMMA ReadEnginePreserves ==
  ASSUME IInv, ReadEngine
  PROVE  IInv'
<1> USE DEF ReadEngine, Goto, local
<1>1. CASE Exit("aborted")
  BY <1>1, ExitPreserves, NoVerdict
<1>2. CASE ~Exit("aborted")
  <2>1. PICK m, k : Begun(file, m, k)
    BY <1>2 DEF IInv, FileInv
  <2>2. FileInv'
    BY <1>2, <2>1 DEF FileInv, Begun
  <2>3. PICK n \in 0 .. Len(file) :
          plan' = [i \in 1 .. Len(file) |-> IF i <= n THEN file[i] ELSE Zero]
    BY <1>2 DEF Contents
  <2>4. RunInv'
    <3>1. k \in 0 .. Size[m] /\ Size[m] \in Nat /\ Len(file) = k
      BY <2>1, ModelAssumption, PrefixLen DEF Begun
    <3>2. \A i \in 1 .. k : file[i] = << m, i >>
      BY <2>1, <3>1 DEF Begun, Prefix
    <3>3. ReadOf(plan, m, k, n)'
      BY <1>2, <2>1, <2>3, <3>1, <3>2 DEF ReadOf, Begun
    <3> QED BY <1>2, <3>3 DEF IInv, RunInv, Infer, Steps
  <2>5. BufferInv'
    BY <1>2 DEF IInv, BufferInv
  <2>6. VerdictInv'
    BY <1>2 DEF IInv, VerdictInv, Infer, ExitTellsMatch
  <2>7. CopyInv'
    BY <1>2 DEF IInv, CopyInv, Infer
  <2> QED BY <2>2, <2>4, <2>5, <2>6, <2>7 DEF IInv
<1> QED BY <1>1, <1>2

LEMMA DeserializePreserves ==
  ASSUME IInv, Deserialize
  PROVE  IInv'
<1> USE DEF Deserialize, Goto
<1>1. CASE Exit("error")
  BY <1>1, ExitPreserves, NoVerdict
<1>2. CASE ~Exit("error")
  <2>1. PICK e \in Decoded(plan) :
          /\ e # Null /\ engine' = e /\ loop' = 1 /\ io' = 1
          /\ pc' = IF cmd.dynamic THEN "shape" ELSE "bind"
          /\ UNCHANGED << file, runs, prev, cmd, plan, pos, shape, addrs, dev, mem,
                          out, all_ok, unfed, blank, whole >>
    BY <1>2
  <2>2. cmd \in Commands
    BY DEF IInv, RunInv
  <2>3. cmd.model \in Models /\ Len(cmd.batches) \in Nat /\ Len(cmd.batches) >= 1
          /\ (~cmd.dynamic => cmd.batches = << 1 >>)
    BY <2>2, Batches
  <2>4. /\ e \in Models \cup {Mixed}
        /\ cmd.engine = "load" /\ Clean(plan) => e \in whole
        /\ cmd.engine # "load" => e = cmd.model
    <3>1. CASE cmd.engine = "load"
      <4>1. PICK m, k, n : ReadOf(plan, m, k, n)
        BY <3>1 DEF IInv, RunInv
      <4>2. e = Mixed \/ (e = m /\ k = Size[m])
        BY <2>1, <4>1, DecodesRead
      <4>3. Clean(plan) => e = m
        BY <2>1, <4>1, DecodesRead
      <4>4. m \in Models /\ m # Mixed /\ (k = Size[m] => m \in whole)
        BY <4>1, NullAssumption DEF ReadOf
      <4> QED BY <3>1, <4>2, <4>3, <4>4
    <3>2. CASE cmd.engine # "load"
      <4>1. plan = Serialized(cmd.model)
        BY <3>2 DEF IInv, RunInv
      <4> QED BY <2>1, <2>3, <3>2, <4>1, DecodesSerialized
    <3> QED BY <3>1, <3>2
  <2>5. FileInv'
    BY <2>1 DEF IInv, FileInv, Begun
  <2>6. RunInv'
    BY <2>1, <2>2, <2>3, <2>4 DEF IInv, RunInv, Infer, Steps, Clean
  <2>7. BufferInv'
    <3>1. pc' = "bind" => RunRows' = Batch'
      BY <2>1, <2>3 DEF RunRows, Batch
    <3> QED BY <2>1, <3>1 DEF IInv, BufferInv
  <2>8. VerdictInv'
    <3>1. all_ok' = TRUE /\ 1 .. loop' - 1 = {}
      BY <2>1 DEF IInv, RunInv, Infer
    <3>2. ExitTellsMatch'
      BY <2>1 DEF IInv, VerdictInv, ExitTellsMatch
    <3> QED BY <3>1, <3>2 DEF VerdictInv
  <2>9. CopyInv'
    BY <2>1 DEF IInv, CopyInv, Infer
  <2> QED BY <2>5, <2>6, <2>7, <2>8, <2>9 DEF IInv
<1> QED BY <1>1, <1>2

-----------------------------------------------------------------------------
(* The inferences.                                                          *)

(* FileInv and RunInv hold after a step that leaves alone what they speak of.  *)
LEMMA InferPreserves ==
  ASSUME IInv, UNCHANGED settled, pc \in Infer, pc' \in Infer,
         loop' \in 1 .. Len(cmd.batches)
  PROVE  FileInv' /\ RunInv'
<1> USE DEF settled
<1>1. FileInv'
  BY DEF IInv, FileInv, Begun, Infer
<1>2. RunInv'
  BY DEF IInv, RunInv, Infer, Steps
<1> QED BY <1>1, <1>2

(* While it infers.                                                         *)
LEMMA Inferring ==
  ASSUME IInv, pc \in Infer
  PROVE  /\ cmd \in Commands /\ loop \in 1 .. Len(cmd.batches) /\ Len(cmd.batches) \in Nat
         /\ Batch \in Nat \ {0} /\ engine \in Models \cup {Mixed}
         /\ engine # Mixed => \A r \in 1 .. Batch : Answer[engine][r] \in Classes
<1>1. cmd \in Commands /\ loop \in 1 .. Len(cmd.batches)
        /\ engine \in Models \cup {Mixed}
  BY DEF IInv, RunInv, Infer
<1> QED BY <1>1, Batches DEF Batch

(* A step of one iteration leaves alone what the ones before have found.       *)
LEMMA VerdictKept ==
  ASSUME IInv, pc \in Infer, UNCHANGED settled, UNCHANGED << loop, all_ok >>,
         unfed' \in { unfed, unfed \cup {loop} }, blank' \in { blank, blank \cup {loop} }
  PROVE  VerdictInv'
<1>1. loop \in Nat
  BY Inferring
<1>2. ASSUME NEW i \in 1 .. loop - 1
      PROVE  FoundNow(i)' = FoundNow(i)
  <2>1. i # loop
    BY <1>1
  <2>2. (i \in unfed' <=> i \in unfed) /\ (i \in blank' <=> i \in blank)
    BY <2>1
  <2> QED BY <2>2 DEF FoundNow, settled, MatchesAt
<1>3. loop' = loop /\ all_ok' = all_ok /\ prev' = prev
  BY DEF settled
<1>4. all_ok \in BOOLEAN
  BY DEF IInv, VerdictInv
<1>5. all_ok => \A i \in 1 .. loop - 1 : TRUE \in FoundNow(i)'
  BY <1>2 DEF IInv, VerdictInv
<1>6. ~all_ok => \E i \in 1 .. loop - 1 : FALSE \in FoundNow(i)'
  BY <1>2 DEF IInv, VerdictInv
<1>7. ExitTellsMatch'
  BY <1>3 DEF IInv, VerdictInv, ExitTellsMatch
<1>8. 1 .. loop' - 1 = 1 .. loop - 1
  BY <1>3
<1>9. all_ok' \in BOOLEAN
  BY <1>3, <1>4, Zenon
<1>10. ASSUME all_ok', NEW i \in 1 .. loop' - 1
       PROVE  TRUE \in FoundNow(i)'
  <2>1. all_ok
    BY <1>3, <1>10, Zenon
  <2>2. i \in 1 .. loop - 1
    BY <1>8
  <2> QED BY <1>5, <2>1, <2>2
<1>11. ASSUME ~all_ok'
       PROVE  \E i \in 1 .. loop' - 1 : FALSE \in FoundNow(i)'
  <2>1. all_ok' = FALSE
    BY <1>9, <1>11
  <2>2. ~all_ok
    BY <1>3, <2>1
  <2>3. PICK i \in 1 .. loop - 1 : FALSE \in FoundNow(i)'
    BY <1>6, <2>2
  <2> QED BY <1>8, <2>3
<1> QED BY <1>7, <1>9, <1>10, <1>11 DEF VerdictInv

LEMMA SetInputShapePreserves ==
  ASSUME IInv, SetInputShape
  PROVE  IInv'
<1> USE DEF SetInputShape, Goto
<1>1. pc \in Infer /\ pc' \in Infer
  BY DEF Infer
<1>2. loop \in 1 .. Len(cmd.batches) /\ cmd \in Commands /\ Len(cmd.batches) \in Nat
  BY <1>1, Inferring
<1>3. FileInv' /\ RunInv'
  BY <1>1, <1>2, InferPreserves
<1>4. BufferInv'
  <2>1. RunRows' = Batch'
    <3>1. CASE cmd.dynamic
      BY <3>1 DEF RunRows, Batch, settled
    <3>2. CASE ~cmd.dynamic
      <4>1. cmd.batches = << 1 >>
        BY <1>2, <3>2, Batches
      <4>2. Batch = 1
        BY <1>2, <4>1 DEF Batch
      <4> QED BY <3>2, <4>2 DEF RunRows, Batch, settled
    <3> QED BY <3>1, <3>2
  <2> QED BY <2>1 DEF IInv, BufferInv, NoBuffers, Tensors, settled
<1>5. VerdictInv'
  BY <1>1, VerdictKept
<1>6. CopyInv'
  BY DEF IInv, CopyInv, Infer
<1> QED BY <1>3, <1>4, <1>5, <1>6 DEF IInv

LEMMA BindPreserves ==
  ASSUME IInv, Bind
  PROVE  IInv'
<1> USE DEF Bind, Goto, Tensors
<1>1. pc \in Infer /\ pc' \in Infer
  BY DEF Infer
<1>2. /\ loop \in 1 .. Len(cmd.batches) /\ cmd \in Commands
      /\ Len(cmd.batches) \in Nat /\ Batch \in Nat \ {0}
  BY <1>1, Inferring
<1>3. FileInv' /\ RunInv'
  BY <1>1, <1>2, InferPreserves
<1>4. BufferInv'
  <2>0. io \in {1, 2} /\ (Tensors[io] = "input" <=> io = 1)
    BY DEF IInv, BufferInv
  <2>1. PICK a \in Addresses \cup {Null}, copied \in BOOLEAN :
          /\ Malloc(a) /\ (a = Null => ~copied)
          /\ dev' = [dev EXCEPT ![io] = a]
          /\ addrs' = [addrs EXCEPT ![io] = a]
          /\ mem' = IF a = Null THEN mem ELSE [mem EXCEPT ![a] = Filled(copied)]
          /\ unfed' = IF io = 1 /\ ~copied THEN unfed \cup {loop} ELSE unfed
    <3>1. PICK a \in Addresses \cup {Null}, copied \in BOOLEAN :
            /\ Malloc(a) /\ (a = Null => ~copied)
            /\ dev' = [dev EXCEPT ![io] = a]
            /\ addrs' = [addrs EXCEPT ![io] = a]
            /\ mem' = IF a = Null THEN mem ELSE [mem EXCEPT ![a] = Filled(copied)]
            /\ unfed' = IF Tensors[io] = "input" /\ ~copied THEN unfed \cup {loop} ELSE unfed
      BY Zenon
    <3>2. unfed' = IF io = 1 /\ ~copied THEN unfed \cup {loop} ELSE unfed
      BY <2>0, <3>1
    <3> QED BY <3>1, <3>2
  <2>2. /\ Batch' = Batch /\ RunRows' = RunRows
        /\ pc = "bind" /\ io \in {1, 2} /\ io' = io + 1
        /\ pc' = IF io = 2 THEN "execute" ELSE "bind"
    BY DEF IInv, BufferInv, Batch, RunRows, settled
  <2>3. /\ mem = [x \in Addresses |-> mem[x]]
        /\ dev \in [1 .. 2 -> Addresses \cup {Null}] /\ addrs \in [1 .. 2 -> Addresses \cup {Null}]
        /\ RunRows = Batch /\ (io = 2 => Ready(1))
    BY <2>2 DEF IInv, BufferInv
  <2>4. /\ mem' = [x \in Addresses |-> mem'[x]]
        /\ dev' \in [1 .. 2 -> Addresses \cup {Null}] /\ addrs' \in [1 .. 2 -> Addresses \cup {Null}]
    BY <2>1, <2>2, <2>3
  <2>5. a # Null => a \in Addresses /\ mem[a] = Null /\ mem'[a] = Filled(copied)
    BY <2>1, <2>3 DEF Malloc
  <2>6. CASE io = 1
    <3>1. loop \notin unfed
      BY <2>2, <2>6 DEF IInv, CopyInv
    <3>2. Fed' = IF copied THEN Input(Batch) ELSE Rows(Batch, Undef)
      BY <2>1, <2>2, <2>6, <3>1 DEF Fed
    <3>3. Filled(copied) = IF copied THEN Input(Batch) ELSE Rows(Batch, Undef)
      BY <2>6 DEF Filled
    <3>4. Ready(1)'
      BY <2>1, <2>2, <2>3, <2>5, <2>6, <3>2, <3>3 DEF Ready
    <3> QED BY <2>2, <2>3, <2>4, <2>6, <3>4 DEF BufferInv
  <2>7. CASE io = 2
    <3>1. dev'[1] = dev[1] /\ addrs'[1] = addrs[1] /\ dev'[2] = a /\ addrs'[2] = a
      BY <2>1, <2>3, <2>7
    <3>2. dev[1] # Null => mem[dev[1]] # Null
      BY <1>2, <2>3, <2>7, RowsLen DEF Ready, Fed
    <3>3. dev[1] # Null /\ a # Null => dev[1] # a
      BY <2>5, <3>2
    <3>4. dev[1] # Null => mem'[dev[1]] = mem[dev[1]]
      BY <2>1, <2>3, <3>3
    <3>5. Ready(1)'
      <4>1. Fed' = Fed
        BY <2>1, <2>2, <2>7 DEF Fed
      <4> QED BY <2>2, <2>3, <2>7, <3>1, <3>4, <4>1 DEF Ready
    <3>6. Ready(2)'
      BY <2>2, <2>5, <2>7, <3>1 DEF Ready, Filled
    <3> QED BY <2>2, <2>3, <2>4, <2>7, <3>1, <3>3, <3>5, <3>6 DEF BufferInv
  <2> QED BY <2>2, <2>6, <2>7
<1>5. VerdictInv'
  BY <1>1, VerdictKept
<1>6. CopyInv'
  <2>1. io \in {1, 2} /\ io' = io + 1 /\ loop \in Nat
    BY <1>2 DEF IInv, BufferInv
  <2> QED BY <1>2, <2>1 DEF IInv, CopyInv, Infer
<1> QED BY <1>3, <1>4, <1>5, <1>6 DEF IInv

LEMMA ExecutePreserves ==
  ASSUME IInv, Execute
  PROVE  IInv'
<1> USE DEF Execute, Goto
<1>1. CASE Exit("error")
  BY <1>1, ExitPreserves, NoVerdict
<1>2. CASE ~Exit("error")
  <2>1. /\ pc = "execute" /\ pc' = "fetch"
        /\ dev[1] # Null /\ dev[2] # Null
        /\ mem' = [mem EXCEPT ![dev[2]] =
                     [r \in DOMAIN @ |-> IF r <= RunRows THEN Computed(mem[dev[1]][r])
                                         ELSE @[r]]]
        /\ UNCHANGED << settled, loop, io, shape, addrs, dev, out, all_ok, unfed, blank >>
    BY <1>2
  <2>2. pc \in Infer /\ pc' \in Infer
    BY <2>1 DEF Infer
  <2>3. /\ loop \in 1 .. Len(cmd.batches) /\ cmd \in Commands /\ engine \in Models \cup {Mixed}
        /\ Len(cmd.batches) \in Nat /\ Batch \in Nat \ {0}
    BY <2>2, Inferring
  <2>4. FileInv' /\ RunInv'
    BY <2>1, <2>2, <2>3, InferPreserves
  <2>5. BufferInv'
    <3>1. /\ mem = [x \in Addresses |-> mem[x]]
          /\ dev \in [1 .. 2 -> Addresses \cup {Null}]
          /\ RunRows = Batch /\ Ready(1) /\ Ready(2)
      BY <2>1 DEF IInv, BufferInv
    <3>2. mem[dev[1]] = Fed /\ mem[dev[2]] = Rows(Batch, Undef) /\ dev[2] \in Addresses
      BY <2>1, <3>1 DEF Ready
    <3>3. \A r \in 1 .. Batch :
            Computed(Fed[r]) = IF engine = Mixed \/ loop \in unfed THEN Undef ELSE Answer[engine][r]
      BY <2>3, NullAssumption DEF Computed, Input, Fed, Rows
    <3>4. mem'[dev[2]] = [r \in 1 .. Batch |-> IF r <= RunRows THEN Computed(mem[dev[1]][r])
                                               ELSE mem[dev[2]][r]]
      BY <2>1, <3>1, <3>2 DEF Rows
    <3>5. mem'[dev[2]] = Answers
      <4>1. mem'[dev[2]] = [r \in 1 .. Batch |-> Computed(Fed[r])]
        BY <2>3, <3>1, <3>2, <3>4
      <4>2. CASE engine = Mixed \/ loop \in unfed
        BY <3>3, <4>1, <4>2 DEF Answers, Rows
      <4>3. CASE ~(engine = Mixed \/ loop \in unfed)
        BY <3>3, <4>1, <4>3 DEF Answers
      <4> QED BY <4>2, <4>3
    <3>6. Answers' = Answers
      BY <2>1 DEF Answers, Batch, settled
    <3>7. mem' = [x \in Addresses |-> mem'[x]]
      BY <2>1, <3>1
    <3> QED BY <2>1, <3>1, <3>2, <3>5, <3>6, <3>7 DEF IInv, BufferInv
  <2>6. VerdictInv'
    BY <2>1, <2>2, VerdictKept
  <2>7. CopyInv'
    BY <2>1 DEF IInv, CopyInv, Infer
  <2> QED BY <2>4, <2>5, <2>6, <2>7 DEF IInv
<1> QED BY <1>1, <1>2

LEMMA FetchPreserves ==
  ASSUME IInv, Fetch
  PROVE  IInv'
<1> USE DEF Fetch, Goto
<1>1. pc \in Infer /\ pc' \in Infer
  BY DEF Infer
<1>2. loop \in 1 .. Len(cmd.batches) /\ Len(cmd.batches) \in Nat
  BY <1>1, Inferring
<1>3. FileInv' /\ RunInv'
  BY <1>1, <1>2, InferPreserves
<1>4. BufferInv'
  <2>1. Answers' = Answers /\ Batch' = Batch
    BY DEF Answers, Batch, settled
  <2>2. loop \notin blank /\ mem[dev[2]] = Answers
    BY DEF IInv, CopyInv, BufferInv, Infer
  <2>3. out' = Fetched'
    BY <2>1, <2>2 DEF Fetched
  <2> QED BY <2>3 DEF IInv, BufferInv
<1>5. VerdictInv'
  BY <1>1, VerdictKept
<1>6. CopyInv'
  BY <1>2 DEF IInv, CopyInv, Infer
<1> QED BY <1>3, <1>4, <1>5, <1>6 DEF IInv

(* What the comparison says is one of the things it may have found.            *)
LEMMA AgreesFound ==
  ASSUME IInv, pc = "compare", NEW agrees \in Agrees
  PROVE  agrees \in BOOLEAN /\ agrees \in FoundNow(loop)
<1>1. pc \in Infer
  BY DEF Infer
<1>2. /\ Batch \in Nat \ {0} /\ engine \in Models \cup {Mixed}
      /\ engine # Mixed => \A r \in 1 .. Batch : Answer[engine][r] \in Classes
  BY <1>1, Inferring
<1>3. out = Fetched
  BY DEF IInv, BufferInv
<1>4. \A x : Rows(Batch, x) = [r \in 1 .. Batch |-> x] /\ Len(Rows(Batch, x)) = Batch
  BY <1>2, RowsLen DEF Rows
<1>5. PICK f \in [1 .. Len(out) -> Classes] :
        /\ \A r \in 1 .. Len(out) : f[r] \in Argmax(out[r])
        /\ agrees = \A r \in 1 .. Len(out) : f[r] = cmd.golden[r]
  BY DEF Agrees
<1>6. agrees \in BOOLEAN
  BY <1>5
<1>7. CASE loop \in blank
  <2>1. out = Rows(Batch, 0)
    BY <1>3, <1>7 DEF Fetched
  <2>2. \A r \in 1 .. Batch : f[r] = 0
    BY <1>4, <1>5, <2>1, NullAssumption DEF Argmax
  <2>3. agrees = \A r \in 1 .. cmd.batches[loop] : cmd.golden[r] = 0
    BY <1>4, <1>5, <2>1, <2>2 DEF Batch
  <2> QED BY <1>6, <1>7, <2>3 DEF FoundNow
<1>8. CASE loop \notin blank /\ (engine = Mixed \/ loop \in unfed)
  BY <1>6, <1>8 DEF FoundNow
<1>9. CASE loop \notin blank /\ ~(engine = Mixed \/ loop \in unfed)
  <2>1. out = [r \in 1 .. Batch |-> Answer[engine][r]]
    BY <1>3, <1>9 DEF Fetched, Answers
  <2>2. out \in Seq(Classes) /\ Len(out) = Batch
    <3>1. out \in Seq(Classes)
      BY <1>2, <1>9, <2>1
    <3> QED BY <1>2, <2>1, <3>1
  <2>3. \A r \in 1 .. Batch : f[r] = Answer[engine][r]
    BY <1>2, <1>5, <1>9, <2>1, <2>2, NullAssumption DEF Argmax
  <2>4. engine \in Models
    BY <1>2, <1>9
  <2>5. agrees = MatchesAt(cmd, engine, loop)
    BY <1>5, <2>2, <2>3, <2>4 DEF MatchesAt, Batch
  <2> QED BY <1>6, <1>9, <2>5 DEF FoundNow
<1> QED BY <1>7, <1>8, <1>9

LEMMA ComparePreserves ==
  ASSUME IInv, Compare
  PROVE  IInv'
<1> USE DEF Compare, Goto
<1>1. pc = "compare" /\ pc \in Infer
  BY DEF Infer
<1>2. loop \in 1 .. Len(cmd.batches) /\ Len(cmd.batches) \in Nat /\ cmd \in Commands
  BY <1>1, Inferring
<1>3. PICK agrees \in Agrees :
        IF loop < Len(cmd.batches)
        THEN /\ all_ok' = (all_ok /\ agrees) /\ loop' = loop + 1
             /\ pc' = "shape"
             /\ UNCHANGED << settled, io, shape, addrs, dev, mem, out, unfed, blank >>
        ELSE Exit(IF all_ok /\ agrees THEN "passed" ELSE "failed")
  OBVIOUS
<1>4. agrees \in BOOLEAN /\ agrees \in FoundNow(loop)
  BY <1>1, AgreesFound
<1>5. /\ all_ok \in BOOLEAN
      /\ all_ok => \A i \in 1 .. loop - 1 : TRUE \in FoundNow(i)
      /\ ~all_ok => \E i \in 1 .. loop - 1 : FALSE \in FoundNow(i)
  BY <1>1 DEF IInv, VerdictInv
<1>6. 1 .. loop = (1 .. loop - 1) \cup {loop}
  BY <1>2
<1>7. all_ok /\ agrees => \A i \in 1 .. loop : TRUE \in FoundNow(i)
  <2>1. SUFFICES ASSUME all_ok, agrees, NEW i \in 1 .. loop PROVE TRUE \in FoundNow(i)
    OBVIOUS
  <2>2. agrees = TRUE
    BY <1>4, <2>1
  <2>3. CASE i = loop
    BY <1>4, <2>2, <2>3
  <2>4. CASE i \in 1 .. loop - 1
    BY <1>5, <2>1, <2>4
  <2> QED BY <1>6, <2>3, <2>4
<1>8. ~(all_ok /\ agrees) => \E i \in 1 .. loop : FALSE \in FoundNow(i)
  <2>1. CASE ~all_ok
    BY <1>5, <1>6, <2>1
  <2>2. CASE ~agrees
    <3>1. agrees = FALSE
      BY <1>4, <2>2
    <3>2. FALSE \in FoundNow(loop)
      BY <1>4, <3>1
    <3> QED BY <1>6, <3>2
  <2> QED BY <2>1, <2>2
<1>9. CASE loop < Len(cmd.batches)
  <2>1. pc' \in Infer /\ loop' \in 1 .. Len(cmd.batches)
    BY <1>2, <1>3, <1>9 DEF Infer
  <2>2. FileInv' /\ RunInv'
    BY <1>1, <1>3, <1>9, <2>1, InferPreserves
  <2>3. BufferInv'
    BY <1>3, <1>9 DEF IInv, BufferInv
  <2>4. \A i : FoundNow(i)' = FoundNow(i)
    BY <1>3, <1>9 DEF FoundNow, MatchesAt, settled
  <2>5. loop' - 1 = loop
    BY <1>2, <1>3, <1>9
  <2>6. all_ok' = (all_ok /\ agrees) /\ all_ok' \in BOOLEAN
    BY <1>3, <1>4, <1>5, <1>9
  <2>7. ExitTellsMatch'
    BY <1>3, <1>9 DEF IInv, VerdictInv, ExitTellsMatch, settled
  <2>8. all_ok' => \A i \in 1 .. loop' - 1 : TRUE \in FoundNow(i)'
    BY <1>7, <2>4, <2>5, <2>6
  <2>9. ~all_ok' => \E i \in 1 .. loop' - 1 : FALSE \in FoundNow(i)'
    BY <1>8, <2>4, <2>5, <2>6
  <2>10. CopyInv'
    BY <1>1, <1>2, <1>3, <1>9 DEF IInv, CopyInv, Infer
  <2> QED BY <2>2, <2>3, <2>6, <2>7, <2>8, <2>9, <2>10 DEF IInv, VerdictInv
<1>10. CASE ~(loop < Len(cmd.batches))
  <2>1. loop = Len(cmd.batches)
    BY <1>2, <1>10
  <2>2. Exit(IF all_ok /\ agrees THEN "passed" ELSE "failed")
    BY <1>3, <1>10
  <2>3. /\ prev'.exit = IF all_ok /\ agrees THEN "passed" ELSE "failed"
        /\ prev'.cmd = cmd /\ prev'.engine = engine
        /\ prev'.unfed = unfed /\ prev'.blank = blank
    BY <2>2 DEF Exit, Verdict
  <2>4. \A i : Found(prev', i) = FoundNow(i)
    BY <2>3 DEF Found, FoundNow
  <2>5. ExitTellsMatch'
    BY <1>7, <1>8, <2>1, <2>3, <2>4 DEF ExitTellsMatch
  <2> QED BY <2>2, <2>5, ExitPreserves
<1> QED BY <1>9, <1>10

LEMMA KillPreserves ==
  ASSUME IInv, Kill
  PROVE  IInv'
BY ExitPreserves, NoVerdict DEF Kill

-----------------------------------------------------------------------------

LEMMA Initially == Init => IInv
<1> SUFFICES ASSUME Init PROVE IInv
  OBVIOUS
<1> USE DEF Init
<1>1. FileInv
  BY DEF FileInv
<1>2. RunInv
  BY DEF RunInv, Infer, Steps
<1>3. BufferInv
  BY DEF BufferInv, NoBuffers, Tensors
<1>4. VerdictInv
  BY DEF VerdictInv, Infer, ExitTellsMatch, Ended
<1>5. CopyInv
  BY DEF CopyInv, Infer
<1> QED BY <1>1, <1>2, <1>3, <1>4, <1>5 DEF IInv

LEMMA Inductive == IInv /\ [Next]_vars => IInv'
<1> SUFFICES ASSUME IInv, [Next]_vars PROVE IInv'
  OBVIOUS
<1>1. CASE Start
  BY <1>1, StartPreserves
<1>2. CASE Build
  BY <1>2, BuildPreserves
<1>3. CASE OpenForSave
  BY <1>3, OpenForSavePreserves
<1>4. CASE Write
  BY <1>4, WritePreserves
<1>5. CASE CloseSaved
  BY <1>5, CloseSavedPreserves
<1>6. CASE ReadEngine
  BY <1>6, ReadEnginePreserves
<1>7. CASE Deserialize
  BY <1>7, DeserializePreserves
<1>8. CASE SetInputShape
  BY <1>8, SetInputShapePreserves
<1>9. CASE Bind
  BY <1>9, BindPreserves
<1>10. CASE Execute
  BY <1>10, ExecutePreserves
<1>11. CASE Fetch
  BY <1>11, FetchPreserves
<1>12. CASE Compare
  BY <1>12, ComparePreserves
<1>13. CASE Kill
  BY <1>13, KillPreserves
<1>14. CASE UNCHANGED vars
  <2>0. /\ UNCHANGED << file, runs, prev, pc, cmd, plan, engine, pos, loop, io >>
        /\ UNCHANGED << shape, addrs, dev, mem, out, all_ok, unfed, blank, whole >>
    BY <1>14 DEF vars, local
  <2>1. FileInv'
    BY <2>0 DEF IInv, FileInv, Begun
  <2>2. RunInv'
    BY <2>0 DEF IInv, RunInv, ReadOf, Clean
  <2>3. BufferInv'
    BY <2>0 DEF IInv, BufferInv, Ready, RunRows, Batch, Answers, Fed, Fetched
  <2>4. VerdictInv'
    BY <2>0 DEF IInv, VerdictInv, FoundNow, MatchesAt, ExitTellsMatch
  <2>5. CopyInv'
    BY <2>0 DEF IInv, CopyInv
  <2> QED BY <2>1, <2>2, <2>3, <2>4, <2>5 DEF IInv
<1> QED
  BY <1>1, <1>2, <1>3, <1>4, <1>5, <1>6, <1>7, <1>8, <1>9, <1>10, <1>11, <1>12, <1>13, <1>14
    DEF Next, Driver, Finished

LEMMA Invariance == Spec => []IInv
BY Initially, Inductive, PTL DEF Spec

(* The exit status of a driver tells what comparing the batches found: for each *)
(* that was copied to the device and back, whether the engine gives the golden  *)
(* answer to every row; for one that was not copied back, whether the golden    *)
(* answers are all class 0 (tools/trtshim_dyn_run.cpp:78-113,                  *)
(* tools/trtshim_run.cpp:149-187).                                           *)
THEOREM ExitsTell == Spec => []ExitTellsMatch
<1>1. IInv => ExitTellsMatch
  BY DEF IInv, VerdictInv
<1> QED BY <1>1, Invariance, PTL

(* Whenever the context runs, its bindings are live buffers of the rows it was  *)
(* told of, however the addresses of earlier iterations are used again.        *)
THEOREM BuffersAreLive == Spec => []BuffersLive
<1>1. IInv => BuffersLive
  <2> SUFFICES ASSUME IInv, pc = "execute" PROVE BuffersLive
    BY DEF BuffersLive
  <2>1. Batch \in Nat \ {0}
    BY Inferring DEF Infer
  <2>2. /\ dev \in [1 .. 2 -> Addresses \cup {Null}] /\ addrs \in [1 .. 2 -> Addresses \cup {Null}]
        /\ RunRows = Batch /\ Ready(1) /\ Ready(2)
        /\ dev[1] # Null /\ dev[2] # Null => dev[1] # dev[2]
    BY DEF IInv, BufferInv
  <2>3. dev = addrs
    BY <2>2 DEF Ready
  <2>4. \A i \in 1 .. 2 : dev[i] # Null =>
          mem[dev[i]] # Null /\ Len(mem[dev[i]]) = RunRows
    BY <2>1, <2>2, RowsLen DEF Ready, Fed
  <2>5. dev[1] # Null =>
          mem[dev[1]] = IF loop \in unfed THEN Rows(RunRows, Undef) ELSE Input(RunRows)
    BY <2>2 DEF Ready, Fed
  <2> QED BY <2>2, <2>3, <2>4, <2>5 DEF BuffersLive
<1> QED BY <1>1, Invariance, PTL

(* No run, after any number of killed runs and full disks, infers with anything *)
(* but an engine that was built or saved to the end, unless reading the file    *)
(* has itself stopped early.                                                 *)
THEOREM EnginesAreWhole == Spec => []RunsWholeEngine
<1>1. IInv => RunsWholeEngine
  <2> SUFFICES ASSUME IInv, engine # Null, Clean(plan) PROVE RunsWholeEngine
    BY DEF RunsWholeEngine, Clean
  <2>1. pc \in Infer
    BY DEF IInv, RunInv
  <2>2. (cmd.engine = "load" => engine \in whole) /\ (cmd.engine # "load" => engine = cmd.model)
    BY <2>1 DEF IInv, RunInv
  <2> QED BY <2>2 DEF RunsWholeEngine
<1> QED BY <1>1, Invariance, PTL

-----------------------------------------------------------------------------
(***************************************************************************)
(* Type correctness: what IInv does not say of the variables by itself.      *)
(***************************************************************************)

Kinds ==
  /\ runs \in 0 .. MaxRuns
  /\ cmd \in Commands \cup {Null} /\ (cmd = Null <=> pc = "none")
  /\ plan \in Seq((Models \cup {Null}) \X Nat)
  /\ io \in 0 .. 3 /\ shape \in Nat
  /\ \A a \in Addresses : mem[a] = Null \/ mem[a] \in Seq(Cells)
  /\ out \in Seq(Cells)

LEMMA SerializedTyped ==
  ASSUME NEW m \in Models, NEW k \in 0 .. Size[m]
  PROVE  /\ Size[m] \in Nat \ {0}
         /\ Prefix(m, k) \in Seq(Models \X Nat) /\ Len(Prefix(m, k)) = k
         /\ Serialized(m) \in Seq(Models \X Nat) /\ Len(Serialized(m)) = Size[m]
<1>1. Size[m] \in Nat \ {0}
  BY ModelAssumption
<1>2. \A n \in Nat : Prefix(m, n) \in Seq(Models \X Nat) /\ Len(Prefix(m, n)) = n
  BY PrefixLen DEF Prefix
<1>3. Serialized(m) = Prefix(m, Size[m])
  BY DEF Serialized, Prefix
<1> QED
  BY <1>1, <1>2, <1>3

LEMMA CellsTyped ==
  ASSUME NEW n \in Nat
  PROVE  Input(n) \in Seq(Cells) /\ Rows(n, Undef) \in Seq(Cells) /\ Rows(n, 0) \in Seq(Cells)
BY DEF Input, Rows, Cells

LEMMA AnswersTyped ==
  ASSUME IInv, pc \in Infer
  PROVE  Answers \in Seq(Cells)
<1>1. /\ Batch \in Nat \ {0}
      /\ engine # Mixed => \A r \in 1 .. Batch : Answer[engine][r] \in Classes
  BY Inferring
<1>2. Rows(Batch, Undef) \in Seq(Cells)
  BY <1>1, CellsTyped
<1>3. CASE engine = Mixed \/ loop \in unfed
  BY <1>2, <1>3 DEF Answers
<1>4. CASE ~(engine = Mixed \/ loop \in unfed)
  BY <1>1, <1>4 DEF Answers, Cells
<1> QED
  BY <1>3, <1>4

LEMMA ExitKinds ==
  ASSUME Kinds, NEW how, Exit(how)
  PROVE  Kinds'
<1>1. << >> \in Seq((Models \cup {Null}) \X Nat) /\ << >> \in Seq(Cells)
  OBVIOUS
<1> QED
  BY <1>1 DEF Kinds, Exit, Goto

LEMMA StepKinds ==
  ASSUME IInv, IInv', Kinds, [Next]_vars
  PROVE  Kinds'
<1> USE DEF Goto
<1>1. CASE Start
  BY <1>1, NullAssumption DEF Start, local, Kinds
<1>2. CASE Build
  <2>1. CASE Exit("error")
    BY <2>1, ExitKinds
  <2>2. CASE ~Exit("error")
    <3>1. cmd \in Commands
      BY <1>2 DEF Build, IInv, RunInv
    <3>2. cmd.model \in Models
      BY <3>1, Batches
    <3>3. Serialized(cmd.model) \in Seq((Models \cup {Null}) \X Nat)
      <4>1. 0 \in 0 .. Size[cmd.model]
        BY <3>2, ModelAssumption
      <4>2. Serialized(cmd.model) \in Seq(Models \X Nat)
        BY <3>2, <4>1, SerializedTyped
      <4> QED
        BY <4>2
    <3> QED
      BY <1>2, <2>2, <3>3 DEF Build, local, Kinds
  <2> QED
    BY <2>1, <2>2
<1>3. CASE OpenForSave
  BY <1>3 DEF OpenForSave, local, Kinds
<1>4. CASE Write
  BY <1>4 DEF Write, Kinds
<1>5. CASE CloseSaved
  BY <1>5 DEF CloseSaved, Kinds
<1>6. CASE ReadEngine
  <2>1. CASE Exit("aborted")
    BY <2>1, ExitKinds
  <2>2. CASE ~Exit("aborted")
    <3>1. cmd.engine = "load" /\ pc' = "deserialize" /\ cmd' = cmd /\ whole' = whole
      BY <1>6, <2>2 DEF ReadEngine, IInv, RunInv
    <3>2. PICK m, k, n : ReadOf(plan', m, k, n)
      BY <3>1 DEF IInv, RunInv, ReadOf
    <3>3. plan' \in Seq((Models \cup {Null}) \X Nat)
      BY <3>2, ReadTyped
    <3> QED
      BY <1>6, <2>2, <3>3 DEF ReadEngine, local, Kinds
  <2> QED
    BY <2>1, <2>2
<1>7. CASE Deserialize
  <2>1. CASE Exit("error")
    BY <2>1, ExitKinds
  <2>2. CASE ~Exit("error")
    BY <1>7, <2>2 DEF Deserialize, Kinds
  <2> QED
    BY <2>1, <2>2
<1>8. CASE SetInputShape
  <2>1. Batch \in Nat
    BY <1>8, Inferring DEF SetInputShape, Infer
  <2> QED
    BY <1>8, <2>1 DEF SetInputShape, settled, Kinds
<1>9. CASE Bind
  <2>1. Batch \in Nat
    BY <1>9, Inferring DEF Bind, Infer
  <2>2. \A c : Filled(c) \in Seq(Cells)
    BY <2>1, CellsTyped DEF Filled
  <2>3. PICK a \in Addresses \cup {Null}, c \in BOOLEAN :
          mem' = IF a = Null THEN mem ELSE [mem EXCEPT ![a] = Filled(c)]
    BY <1>9 DEF Bind
  <2>4. \A b \in Addresses : mem'[b] = Null \/ mem'[b] \in Seq(Cells)
    <3>1. mem = [b \in Addresses |-> mem[b]]
      BY DEF IInv, BufferInv
    <3> QED
      BY <2>2, <2>3, <3>1 DEF Kinds
  <2>5. io' \in 0 .. 3
    BY <1>9 DEF Bind, IInv, BufferInv
  <2> QED
    BY <1>9, <2>4, <2>5 DEF Bind, settled, Kinds
<1>10. CASE Execute
  <2>1. CASE Exit("error")
    BY <2>1, ExitKinds
  <2>2. CASE ~Exit("error")
    <3>1. /\ pc' = "fetch" /\ UNCHANGED << settled, loop, io, shape, addrs, dev, out, all_ok, unfed, blank >>
          /\ \E v : mem' = [mem EXCEPT ![dev[2]] = v]
      BY <1>10, <2>2 DEF Execute
    <3>2. Answers \in Seq(Cells) /\ Answers' = Answers
      <4>1. pc \in Infer
        BY <1>10 DEF Execute, Infer
      <4> QED
        BY <3>1, <4>1, AnswersTyped DEF Answers, Batch, settled
    <3>3. mem'[dev[2]] \in Seq(Cells)
      BY <3>1, <3>2 DEF IInv, BufferInv
    <3>4. mem = [b \in Addresses |-> mem[b]]
      BY DEF IInv, BufferInv
    <3>5. \A b \in Addresses : mem'[b] = Null \/ mem'[b] \in Seq(Cells)
      BY <3>1, <3>3, <3>4 DEF Kinds
    <3> QED
      BY <1>10, <3>1, <3>5 DEF settled, Kinds, Execute
  <2> QED
    BY <2>1, <2>2
<1>11. CASE Fetch
  <2>1. pc \in Infer /\ mem[dev[2]] = Answers
    BY <1>11 DEF Fetch, Infer, IInv, BufferInv
  <2>2. mem[dev[2]] \in Seq(Cells) /\ Rows(Batch, 0) \in Seq(Cells)
    BY <2>1, AnswersTyped, Inferring, CellsTyped
  <2> QED
    BY <1>11, <2>2 DEF Fetch, settled, Kinds
<1>12. CASE Compare
  <2>1. CASE \E how : Exit(how)
    BY <2>1, ExitKinds
  <2>2. CASE ~\E how : Exit(how)
    BY <1>12, <2>2 DEF Compare, settled, Kinds
  <2> QED
    BY <2>1, <2>2
<1>13. CASE Kill
  BY <1>13, ExitKinds DEF Kill
<1>14. CASE UNCHANGED vars
  BY <1>14 DEF vars, local, Kinds
<1> QED
  BY <1>1, <1>2, <1>3, <1>4, <1>5, <1>6, <1>7, <1>8, <1>9, <1>10, <1>11, <1>12, <1>13, <1>14
    DEF Next, Driver, Finished

(* The variables keep their types, and the loops over batches and tensors stay *)
(* inside their lists, in every run of a driver.                             *)
THEOREM TypeCorrect == Spec => []TypeOK
<1>1. Init => Kinds
  <2>1. << >> \in Seq((Models \cup {Null}) \X Nat) /\ << >> \in Seq(Cells) /\ MaxRuns \in Nat
    BY NullAssumption
  <2> QED
    BY <2>1 DEF Init, Kinds
<1>2. Kinds /\ IInv => TypeOK
  <2> SUFFICES ASSUME Kinds, IInv PROVE TypeOK
    OBVIOUS
  <2>1. file = Null \/ file \in Seq(Models \X Nat)
    <3>1. CASE file = Null
      BY <3>1
    <3>2. CASE \E m, k : Begun(file, m, k)
      <4>1. PICK m, k : Begun(file, m, k)
        BY <3>2
      <4> QED
        BY <4>1, SerializedTyped DEF Begun
    <3> QED
      BY <3>1, <3>2 DEF IInv, FileInv
  <2>2. pos \in 0 .. Len(plan)
    <3>1. CASE pc = "write"
      <4>1. plan = Serialized(cmd.model) /\ cmd.model \in Models /\ pos \in 0 .. Size[cmd.model]
        BY <3>1 DEF IInv, RunInv, FileInv, Begun
      <4> QED
        BY <4>1, SerializedTyped
    <3>2. CASE pc # "write"
      <4>1. pos = 0 /\ Len(plan) \in Nat
        BY <3>2 DEF IInv, RunInv, Kinds
      <4> QED
        BY <4>1
    <3> QED
      BY <3>1, <3>2
  <2>3. engine \in Models \cup {Null, Mixed}
    BY DEF IInv, RunInv
  <2>4. pc \in Infer => engine # Null /\ loop \in 1 .. Len(cmd.batches)
    BY NullAssumption DEF IInv, RunInv
  <2>5. all_ok \in BOOLEAN
    <3>1. CASE pc \in Infer
      BY <3>1 DEF IInv, VerdictInv
    <3>2. CASE pc \notin Infer
      BY <3>2 DEF IInv, RunInv
    <3> QED
      BY <3>1, <3>2
  <2>6. Len(Tensors) = 2
    BY DEF Tensors
  <2>7. unfed \subseteq 1 .. loop /\ blank \subseteq 1 .. loop
    BY DEF IInv, CopyInv
  <2> QED
    BY <2>1, <2>2, <2>3, <2>4, <2>5, <2>6, <2>7 DEF TypeOK, Kinds, Infer, IInv, RunInv, BufferInv
<1> QED
  BY <1>1, <1>2, StepKinds, Invariance, PTL DEF Spec
=============================================================================
