----------------------------- MODULE ProgramFile -----------------------------
(***************************************************************************)
(* The compiled program between MIGraphX and the bytes of an engine:         *)
(* program_to_bytes and program_from_bytes (src/backend.cpp), called by      *)
(* several threads of an application.                                       *)
(*                                                                         *)
(* MIGraphX saves to a file and loads from one, so either function makes a   *)
(* temporary file, has it written, has it read and unlinks it.  The calls    *)
(* share a directory and its disk.  A call may throw at nearly every step;   *)
(* it then leaves its file where it is.  The streams the bytes go through    *)
(* are not asked whether they have failed: with the disk full, or without a  *)
(* file descriptor, less is written than was meant to be, and a read that    *)
(* fails leaves the zeros of the string it was to fill.                     *)
(*                                                                         *)
(* MIGraphX and the C library are external: mkstemp gives a name that no     *)
(* file has; save writes the bytes of its program, and throws or goes on in  *)
(* silence where it cannot; load gives the program whose bytes it finds, all  *)
(* of them, or throws.  A disk block holds a part of one program's bytes and  *)
(* tells whose.                                                             *)
(***************************************************************************)
EXTENDS Integers, Sequences, FiniteSetsExt

CONSTANTS
  Threads,   \* threads that build or deserialize engines
  Programs,  \* compiled programs
  Size,      \* blocks the bytes of each take
  Paths,     \* the names /tmp/trtshim_XXXXXX
  Capacity,  \* blocks on the disk
  MaxCalls,  \* calls of each thread
  Null       \* no file, no call, no program

ASSUME SizeAssumption == Size \in [Programs -> Nat \ {0}]
ASSUME BoundAssumption == Capacity \in Nat /\ MaxCalls \in Nat
ASSUME NullAssumption ==
  /\ Null \notin Programs /\ Null \notin Paths
  /\ Null \notin Seq((Programs \cup {Null}) \X Nat)

VARIABLES
  files,   \* the directory: the content of each name
  pc,      \* where each thread is in its call
  job,     \* its call: [kind, prog, bytes to be written]
  path,    \* the name of its file
  sz,      \* program_to_bytes: the size tellg has returned
  got,     \* the bytes read back, by the function itself or by MIGraphX's load
  engines, \* engines built: [prog, bytes]
  loaded,  \* engines deserialized: << the program built, the program loaded >>
  left,    \* history: names of files whose call has thrown
  dropped, \* history: less has been written or read than was meant to be
  calls    \* calls each thread has made

vars == << files, pc, job, path, sz, got, engines, loaded, left, dropped, calls >>

Bytes(q) == [i \in 1 .. Size[q] |-> << q, i >>]

(* A block of zeros, which is no program's.                                 *)
Zero == << Null, 0 >>

Init ==
  /\ files = [x \in Paths |-> Null]
  /\ pc = [t \in Threads |-> "idle"]
  /\ job = [t \in Threads |-> Null]
  /\ path = [t \in Threads |-> Null]
  /\ sz = [t \in Threads |-> 0]
  /\ got = [t \in Threads |-> << >>]
  /\ engines = {} /\ loaded = {} /\ left = {} /\ dropped = FALSE
  /\ calls = [t \in Threads |-> 0]

(* The statements before which a call has a temporary file.                  *)
Holding == { "write", "open", "read", "load", "unlink" }

Full ==
  MapThenSumSet(LAMBDA x : IF files[x] = Null THEN 0 ELSE Len(files[x]), Paths) >= Capacity

(* The locals of a call are gone with it.                                   *)
Leave(t) ==
  /\ pc' = [pc EXCEPT ![t] = "idle"]
  /\ job' = [job EXCEPT ![t] = Null] /\ path' = [path EXCEPT ![t] = Null]
  /\ sz' = [sz EXCEPT ![t] = 0] /\ got' = [got EXCEPT ![t] = << >>]

-----------------------------------------------------------------------------
(* The calls.                                                               *)

Start(t, kind, q, bytes) ==
  /\ pc[t] = "idle" /\ calls[t] < MaxCalls
  /\ pc' = [pc EXCEPT ![t] = "mkstemp"]
  /\ job' = [job EXCEPT ![t] = [kind |-> kind, prog |-> q, bytes |-> bytes]]
  /\ calls' = [calls EXCEPT ![t] = @ + 1]
  /\ UNCHANGED << files, path, sz, got, engines, loaded, left, dropped >>

(* build has compiled a program: program_to_bytes.                           *)
StartSave(t) == \E q \in Programs : Start(t, "save", q, Bytes(q))

(* load has found the program in an engine: program_from_bytes.              *)
StartLoad(t) == \E e \in engines : Start(t, "load", e.prog, e.bytes)

mkstemp(t) ==
  /\ pc[t] = "mkstemp"
  /\ \E x \in Paths :
       /\ files[x] = Null
       /\ files' = [files EXCEPT ![x] = << >>]
       /\ path' = [path EXCEPT ![t] = x]
  /\ pc' = [pc EXCEPT ![t] = "write"]
  /\ UNCHANGED << job, sz, got, engines, loaded, left, dropped, calls >>

(* MIGraphX's save, or the stream of program_from_bytes, writes a block to   *)
(* the file of that name.                                                   *)
Write(t) ==
  /\ pc[t] = "write" /\ ~Full
  /\ files[path[t]] # Null /\ Len(files[path[t]]) < Len(job[t].bytes)
  /\ files' = [files EXCEPT ![path[t]] = Append(@, job[t].bytes[Len(@) + 1])]
  /\ UNCHANGED << pc, job, path, sz, got, engines, loaded, left, dropped, calls >>

CloseFile_Retries(t) ==   \* mutant: starts again when the disk is full
  /\ pc[t] = "write"
  /\ \/ /\ files[path[t]] \in { << >>, job[t].bytes }
        /\ dropped' = (dropped \/ files[path[t]] # job[t].bytes)
        /\ pc' = [pc EXCEPT ![t] = IF job[t].kind = "save" THEN "open" ELSE "load"]
        /\ files' = files
     \/ /\ files[path[t]] \notin { << >>, job[t].bytes } /\ Full
        /\ files' = [files EXCEPT ![path[t]] = << >>]
        /\ UNCHANGED << pc, dropped >>
  /\ UNCHANGED << job, path, sz, got, engines, loaded, left, calls >>

(* The writer closes the file: everything has been written, or the disk is   *)
(* full, or it could not be opened.                                         *)
CloseFile(t) ==
  /\ pc[t] = "write"
  /\ files[path[t]] \in { << >>, job[t].bytes } \/ Full
  /\ dropped' = (dropped \/ files[path[t]] # job[t].bytes)
  /\ pc' = [pc EXCEPT ![t] = IF job[t].kind = "save" THEN "open" ELSE "load"]
  /\ UNCHANGED << files, job, path, sz, got, engines, loaded, left, calls >>

Open_AtStart(t) ==   \* mutant: not opened at the end (ios::ate)
  /\ pc[t] = "open" /\ files[path[t]] # Null
  /\ sz' = [sz EXCEPT ![t] = 0]
  /\ pc' = [pc EXCEPT ![t] = "read"]
  /\ UNCHANGED << files, job, path, got, engines, loaded, left, dropped, calls >>

(* program_to_bytes: the stream opened at its end, tellg, seekg.             *)
Open(t) ==
  /\ pc[t] = "open" /\ files[path[t]] # Null
  /\ sz' = [sz EXCEPT ![t] = Len(files[path[t]])]
  /\ pc' = [pc EXCEPT ![t] = "read"]
  /\ UNCHANGED << files, job, path, got, engines, loaded, left, dropped, calls >>

Read_Static(t) ==   \* mutant: program_to_bytes has one buffer for all threads
  /\ pc[t] = "read"
  /\ LET read == files[path[t]]
     IN  got' = [u \in Threads |-> IF pc[u] # "idle" /\ job[u].kind = "save" THEN read
                                   ELSE got[u]]
  /\ pc' = [pc EXCEPT ![t] = "unlink"]
  /\ UNCHANGED << files, job, path, sz, engines, loaded, left, dropped, calls >>

(* read, through the open stream, into a string of zeros: all the blocks it   *)
(* asks for, or those before the one where the stream fails, which nobody     *)
(* asks it.                                                                 *)
Read(t) ==
  /\ pc[t] = "read"
  /\ \E k \in 0 .. sz[t] :
       /\ got' = [got EXCEPT ![t] =
                   [i \in 1 .. sz[t] |-> IF i <= k THEN files[path[t]][i] ELSE Zero]]
       /\ dropped' = (dropped \/ k < sz[t])
  /\ pc' = [pc EXCEPT ![t] = "unlink"]
  /\ UNCHANGED << files, job, path, sz, engines, loaded, left, calls >>

(* program_from_bytes: MIGraphX's load takes a whole program.                *)
Load(t) ==
  /\ pc[t] = "load" /\ files[path[t]] # Null
  /\ \E q \in Programs : files[path[t]] = Bytes(q)
  /\ got' = [got EXCEPT ![t] = files[path[t]]]
  /\ pc' = [pc EXCEPT ![t] = "unlink"]
  /\ UNCHANGED << files, job, path, sz, engines, loaded, left, dropped, calls >>

Unlink_SaveOnly(t) ==   \* mutant: program_from_bytes keeps its file
  /\ pc[t] = "unlink"
  /\ files' = [files EXCEPT ![path[t]] = IF job[t].kind = "save" THEN Null ELSE @]
  /\ Leave(t)
  /\ \/ /\ job[t].kind = "save"
        /\ engines' = engines \cup { [prog |-> job[t].prog, bytes |-> got[t]] }
        /\ loaded' = loaded
     \/ /\ job[t].kind = "load"
        /\ \E q \in Programs : got[t] = Bytes(q) /\ loaded' = loaded \cup { << job[t].prog, q >> }
        /\ engines' = engines
  /\ UNCHANGED << left, dropped, calls >>

(* The file is unlinked and the result returned.                            *)
Unlink(t) ==
  /\ pc[t] = "unlink"
  /\ files' = [files EXCEPT ![path[t]] = Null]
  /\ Leave(t)
  /\ \/ /\ job[t].kind = "save"
        /\ engines' = engines \cup { [prog |-> job[t].prog, bytes |-> got[t]] }
        /\ loaded' = loaded
     \/ /\ job[t].kind = "load"
        /\ \E q \in Programs : got[t] = Bytes(q) /\ loaded' = loaded \cup { << job[t].prog, q >> }
        /\ engines' = engines
  /\ UNCHANGED << left, dropped, calls >>

-----------------------------------------------------------------------------
(* Exceptions, which build and load pass on or turn into an error.           *)

MkstempFails_Ignored(t) ==   \* mutant: fd < 0 is not looked at
  /\ pc[t] = "mkstemp"
  /\ pc' = [pc EXCEPT ![t] = "write"]
  /\ UNCHANGED << files, job, path, sz, got, engines, loaded, left, dropped, calls >>

(* mkstemp returns -1.                                                      *)
MkstempFails(t) ==
  /\ pc[t] = "mkstemp"
  /\ Leave(t)
  /\ UNCHANGED << files, engines, loaded, left, dropped, calls >>

(* save or load throws, or the file could not be opened for reading and a     *)
(* string of size -1 is asked for: unlink is not reached.                   *)
Throw(t) ==
  /\ \/ pc[t] = "write" /\ job[t].kind = "save"
     \/ pc[t] \in { "open", "load" }
  /\ Leave(t)
  /\ left' = left \cup { path[t] }
  /\ UNCHANGED << files, engines, loaded, dropped, calls >>

Call(t) ==
  \/ mkstemp(t) \/ MkstempFails(t)
  \/ Write(t) \/ CloseFile(t)
  \/ Open(t) \/ Read(t)
  \/ Load(t)
  \/ Throw(t)
  \/ Unlink(t)

Finished == (\A t \in Threads : pc[t] = "idle" /\ calls[t] = MaxCalls) /\ UNCHANGED vars

Next ==
  \/ \E t \in Threads : StartSave(t) \/ StartLoad(t) \/ Call(t)
  \/ Finished

Spec == Init /\ [][Next]_vars

(* Every thread goes on; none waits for another.                            *)
FairSpec == Spec /\ \A t \in Threads : WF_vars(Call(t))

-----------------------------------------------------------------------------
(* Properties. *)

Content == Seq((Programs \cup {Null}) \X Nat)

Job == [kind : {"save", "load"}, prog : Programs, bytes : Content]

(* The first blocks of u, each in its place unless there are zeros there.     *)
Begins(s, u) == Len(s) <= Len(u) /\ \A i \in 1 .. Len(s) : s[i] \in { u[i], Zero }

(* The variables keep their types; a thread in a call has a job, and one      *)
(* that has made a file has its name.                                       *)
TypeOK ==
  /\ files \in [Paths -> Content \cup {Null}]
  /\ pc \in [Threads -> Holding \cup { "idle", "mkstemp" }]
  /\ job \in [Threads -> Job \cup {Null}]
  /\ path \in [Threads -> Paths \cup {Null}]
  /\ sz \in [Threads -> Nat]
  /\ got \in [Threads -> Content]
  /\ engines \subseteq [prog : Programs, bytes : Content]
  /\ loaded \subseteq Programs \X Programs
  /\ left \subseteq Paths /\ dropped \in BOOLEAN
  /\ calls \in [Threads -> 0 .. MaxCalls]
  /\ \A t \in Threads :
       /\ pc[t] # "idle" => job[t] \in Job
       /\ pc[t] \in Holding => path[t] \in Paths

(* An engine holds bytes of the program it was built from and of no other,    *)
(* from the first on and each in its place, whatever the other threads write, *)
(* read and unlink meanwhile, or zeros where a read has failed; and all of    *)
(* them, unless some stream has dropped any.                                *)
OwnBytes ==
  \A e \in engines :
    /\ Begins(e.bytes, Bytes(e.prog))
    /\ ~dropped => e.bytes = Bytes(e.prog)

(* A program that was saved, packed, unpacked and loaded is the one that was   *)
(* saved, or the load has failed.                                           *)
LoadedIsSaved == \A pair \in loaded : pair[1] = pair[2]

(* What is in the directory belongs to a call in progress, one call per file,  *)
(* or to one that has thrown, which does leave it behind: calls that return   *)
(* do not.                                                                  *)
FilesAccounted ==
  /\ \A x \in Paths :
       files[x] # Null <=> x \in left \/ \E t \in Threads : pc[t] \in Holding /\ path[t] = x
  /\ \A t, u \in Threads :
       pc[t] \in Holding /\ pc[u] \in Holding /\ path[t] = path[u] => t = u

(* A call returns or throws, with the disk full or not.                      *)
CallsReturn == \A t \in Threads : pc[t] # "idle" ~> pc[t] = "idle"
=============================================================================
