------------------------- MODULE ProgramFile_proofs -------------------------
(***************************************************************************)
(* Proofs about ProgramFile, for any threads, programs, names and disk: the   *)
(* calls do not read each other's files.  mkstemp gives a name nobody has, so *)
(* the files of two calls are different ones, and each call finds in its own  *)
(* what it has written there, or zeros.                                     *)
(***************************************************************************)
EXTENDS ProgramFile, TLAPS

(* What is known of a call: its bytes are the first ones of its program's;    *)
(* its file is there, is not one that was left behind, and has the first of   *)
(* its bytes; what it has read back is what the file has, as far as the read  *)
(* went.                                                                    *)
CallInv(t) ==
  /\ Begins(job[t].bytes, Bytes(job[t].prog))
  /\ ~dropped => job[t].bytes = Bytes(job[t].prog)
  /\ pc[t] \in Holding =>
       /\ path[t] \notin left /\ files[path[t]] # Null
       /\ Begins(files[path[t]], job[t].bytes)
  /\ pc[t] \in Holding \ {"write"} /\ ~dropped => files[path[t]] = job[t].bytes
  /\ pc[t] = "read" => sz[t] = Len(files[path[t]])
  /\ pc[t] = "unlink" =>
       Begins(got[t], files[path[t]]) /\ (~dropped => got[t] = files[path[t]])

CallsInv == \A t \in Threads : pc[t] # "idle" => CallInv(t)

IInv == TypeOK /\ FilesAccounted /\ CallsInv /\ OwnBytes /\ LoadedIsSaved

-----------------------------------------------------------------------------
(* Bytes and their beginnings. *)

LEMMA BytesType ==
  ASSUME NEW q \in Programs
  PROVE  /\ Bytes(q) \in Content /\ Len(Bytes(q)) = Size[q]
         /\ Len(Bytes(q)) >= 1 /\ Bytes(q)[1] = << q, 1 >>
<1>1. Size[q] \in Nat \ {0}
  BY SizeAssumption
<1>2. \A i \in 1 .. Size[q] : << q, i >> \in (Programs \cup {Null}) \X Nat
  BY <1>1
<1>3. Bytes(q) \in Content
  BY <1>1, <1>2 DEF Bytes, Content
<1>4. Len(Bytes(q)) = Size[q]
  BY <1>1, <1>3 DEF Bytes, Content
<1>. QED
  BY <1>1, <1>3, <1>4 DEF Bytes

LEMMA BeginsReflexive ==
  ASSUME NEW s \in Content
  PROVE  Begins(s, s)
BY DEF Begins, Content

LEMMA BeginsTransitive ==
  ASSUME NEW s \in Content, NEW u \in Content, NEW v \in Content,
         Begins(s, u), Begins(u, v)
  PROVE  Begins(s, v)
<1>1. Len(s) \in Nat /\ Len(u) \in Nat /\ Len(v) \in Nat
  BY DEF Content
<1>2. Len(s) <= Len(v) /\ \A i \in 1 .. Len(s) : i \in 1 .. Len(u)
  BY <1>1 DEF Begins
<1>3. \A i \in 1 .. Len(s) : s[i] \in { v[i], Zero }
  BY <1>2 DEF Begins
<1>. QED
  BY <1>2, <1>3 DEF Begins

LEMMA BeginsAppend ==
  ASSUME NEW s \in Content, NEW u \in Content, Begins(s, u), Len(s) < Len(u)
  PROVE  /\ Append(s, u[Len(s) + 1]) \in Content
         /\ Begins(Append(s, u[Len(s) + 1]), u)
BY DEF Begins, Content

(* The whole of one program's bytes is the beginning of no other's.          *)
LEMMA BeginsOwn ==
  ASSUME NEW q1 \in Programs, NEW q2 \in Programs, Begins(Bytes(q1), Bytes(q2))
  PROVE  q1 = q2
<1>1. Bytes(q1)[1] \in { Bytes(q2)[1], Zero }
  BY BytesType DEF Begins
<1>2. Bytes(q1)[1] # Zero
  BY BytesType, NullAssumption DEF Zero
<1>. QED
  BY <1>1, <1>2, BytesType

(* A read that goes on to the k-th block, into a string of zeros.             *)
LEMMA ReadBegins ==
  ASSUME NEW s \in Content, NEW k \in 0 .. Len(s)
  PROVE  LET u == [i \in 1 .. Len(s) |-> IF i <= k THEN s[i] ELSE Zero]
         IN  u \in Content /\ Begins(u, s) /\ (k = Len(s) => u = s)
<1>. DEFINE u == [i \in 1 .. Len(s) |-> IF i <= k THEN s[i] ELSE Zero]
<1>1. Len(s) \in Nat /\ \A i \in 1 .. Len(s) : s[i] \in (Programs \cup {Null}) \X Nat
  BY DEF Content
<1>2. Zero \in (Programs \cup {Null}) \X Nat
  BY DEF Zero
<1>3. u \in Content /\ Len(u) = Len(s)
  BY <1>1, <1>2 DEF Content
<1>4. Begins(u, s)
  BY <1>3 DEF Begins
<1>5. k = Len(s) => u = s
  BY <1>1 DEF Content
<1>. QED
  BY <1>3, <1>4, <1>5

-----------------------------------------------------------------------------
(* A step of one thread leaves what is known of another's call as it is, if   *)
(* the other's locals and file stay and its name is not left behind.         *)
LEMMA OthersKeep ==
  ASSUME NEW u \in Threads, CallInv(u),
         UNCHANGED << pc[u], job[u], path[u], sz[u], got[u] >>,
         pc[u] \in Holding => UNCHANGED files[path[u]] /\ path[u] \notin left',
         dropped => dropped'
  PROVE  CallInv(u)'
BY DEF CallInv, Begins, Bytes, Zero, Holding

LEMMA InitIInv == Init => IInv
<1>. SUFFICES ASSUME Init PROVE IInv
  OBVIOUS
<1>1. TypeOK
  <2>1. << >> \in Content
    BY DEF Content
  <2>2. 0 \in 0 .. MaxCalls
    BY BoundAssumption
  <2>. QED
    BY <2>1, <2>2 DEF Init, TypeOK, Holding
<1>2. FilesAccounted
  BY DEF Init, FilesAccounted, Holding
<1>. QED
  BY <1>1, <1>2 DEF Init, IInv, CallsInv, OwnBytes, LoadedIsSaved

-----------------------------------------------------------------------------
(* The steps. *)

LEMMA StartKeeps ==
  ASSUME IInv, NEW t \in Threads, StartSave(t) \/ StartLoad(t)
  PROVE  IInv'
<1>1. PICK kind \in {"save", "load"}, q \in Programs, bytes \in Content :
        /\ Start(t, kind, q, bytes)
        /\ Begins(bytes, Bytes(q)) /\ (~dropped => bytes = Bytes(q))
  <2>1. CASE StartSave(t)
    BY <2>1, BytesType, BeginsReflexive DEF StartSave
  <2>2. CASE StartLoad(t)
    BY <2>2 DEF StartLoad, IInv, OwnBytes, TypeOK
  <2>. QED
    BY <2>1, <2>2
<1>2. TypeOK'
  <2>1. calls[t] + 1 \in 0 .. MaxCalls
    BY <1>1, BoundAssumption DEF Start, IInv, TypeOK
  <2>2. [kind |-> kind, prog |-> q, bytes |-> bytes] \in Job
    BY DEF Job
  <2>3. job' \in [Threads -> Job \cup {Null}] /\ job'[t] \in Job
    BY <1>1, <2>2 DEF Start, IInv, TypeOK
  <2>. QED
    BY <1>1, <2>1, <2>3 DEF Start, IInv, TypeOK, Holding
<1>3. FilesAccounted'
  BY <1>1 DEF Start, IInv, TypeOK, FilesAccounted, Holding
<1>4. CallsInv'
  <2>. SUFFICES ASSUME NEW u \in Threads, pc'[u] # "idle" PROVE CallInv(u)'
    BY DEF CallsInv
  <2>1. CASE u = t
    <3>1. /\ pc'[t] = "mkstemp" /\ job'[t] = [kind |-> kind, prog |-> q, bytes |-> bytes]
          /\ dropped' = dropped
      BY <1>1 DEF Start, IInv, TypeOK
    <3>. QED
      BY <1>1, <2>1, <3>1 DEF CallInv, Holding
  <2>2. CASE u # t
    <3>1. UNCHANGED << pc[u], job[u], path[u], sz[u], got[u], files, left, dropped >>
      BY <1>1, <2>2 DEF Start, IInv, TypeOK
    <3>2. CallInv(u)
      BY <3>1 DEF IInv, CallsInv
    <3>3. pc[u] \in Holding => path[u] \notin left
      BY <3>2 DEF CallInv
    <3>. QED
      BY <3>1, <3>2, <3>3, OthersKeep
  <2>. QED
    BY <2>1, <2>2
<1>. QED
  BY <1>1, <1>2, <1>3, <1>4 DEF Start, IInv, OwnBytes, LoadedIsSaved, Begins, Bytes, Zero

LEMMA MkstempKeeps ==
  ASSUME IInv, NEW t \in Threads, mkstemp(t)
  PROVE  IInv'
<1>1. PICK x \in Paths :
        /\ files[x] = Null
        /\ files' = [files EXCEPT ![x] = << >>]
        /\ path' = [path EXCEPT ![t] = x]
  BY DEF mkstemp
<1>2. /\ pc[t] = "mkstemp" /\ pc' = [pc EXCEPT ![t] = "write"]
      /\ UNCHANGED << job, sz, got, engines, loaded, left, dropped, calls >>
  BY DEF mkstemp
<1>3. << >> \in Content /\ << >> # Null
  <2>1. << >> \in Content
    BY DEF Content
  <2>. QED
    BY <2>1, NullAssumption DEF Content
<1>4. x \notin left /\ \A u \in Threads : pc[u] \in Holding => path[u] # x
  BY <1>1 DEF IInv, FilesAccounted
<1>5. TypeOK'
  BY <1>1, <1>2, <1>3 DEF IInv, TypeOK, Holding
<1>6. FilesAccounted'
  <2>1. \A u \in Threads : u # t => pc'[u] = pc[u] /\ path'[u] = path[u]
    BY <1>1, <1>2 DEF IInv, TypeOK
  <2>2. pc[t] \notin Holding /\ pc'[t] \in Holding /\ path'[t] = x
    BY <1>1, <1>2 DEF IInv, TypeOK, Holding
  <2>3. \A y \in Paths : files'[y] = IF y = x THEN << >> ELSE files[y]
    BY <1>1 DEF IInv, TypeOK
  <2>. QED
    BY <1>2, <1>3, <1>4, <2>1, <2>2, <2>3 DEF IInv, FilesAccounted
<1>7. CallsInv'
  <2>. SUFFICES ASSUME NEW u \in Threads, pc'[u] # "idle" PROVE CallInv(u)'
    BY DEF CallsInv
  <2>1. CASE u = t
    <3>1. CallInv(t)
      BY <1>2 DEF IInv, CallsInv
    <3>2. /\ pc'[t] = "write" /\ path'[t] = x /\ files'[x] = << >>
          /\ job'[t] = job[t] /\ dropped' = dropped /\ left' = left
      BY <1>1, <1>2 DEF IInv, TypeOK
    <3>3. Begins(<< >>, job[t].bytes)
      BY <1>2 DEF IInv, TypeOK, Job, Content, Begins
    <3>. QED
      BY <1>3, <1>4, <2>1, <3>1, <3>2, <3>3 DEF CallInv, Holding
  <2>2. CASE u # t
    <3>1. UNCHANGED << pc[u], job[u], path[u], sz[u], got[u], left, dropped >>
      BY <1>1, <1>2, <2>2 DEF IInv, TypeOK
    <3>2. CallInv(u)
      BY <3>1 DEF IInv, CallsInv
    <3>3. pc[u] \in Holding => path[u] \in Paths /\ path[u] # x
      BY <1>4 DEF IInv, TypeOK
    <3>4. \A y \in Paths : y # x => files'[y] = files[y]
      BY <1>1 DEF IInv, TypeOK
    <3>5. pc[u] \in Holding => UNCHANGED files[path[u]] /\ path[u] \notin left
      BY <3>1, <3>2, <3>3, <3>4 DEF CallInv
    <3>. QED
      BY <3>1, <3>2, <3>5, OthersKeep
  <2>. QED
    BY <2>1, <2>2
<1>. QED
  BY <1>2, <1>5, <1>6, <1>7 DEF IInv, OwnBytes, LoadedIsSaved

LEMMA WriteKeeps ==
  ASSUME IInv, NEW t \in Threads, Write(t)
  PROVE  IInv'
<1>. DEFINE x == path[t]
            s == files[x]
            b == job[t].bytes
            s2 == Append(s, b[Len(s) + 1])
<1>1. /\ pc[t] = "write" /\ s # Null /\ Len(s) < Len(b)
      /\ files' = [files EXCEPT ![x] = s2]
      /\ UNCHANGED << pc, job, path, sz, got, engines, loaded, left, dropped, calls >>
  BY DEF Write
<1>2. CallInv(t)
  BY <1>1 DEF IInv, CallsInv
<1>3. x \in Paths /\ s \in Content /\ b \in Content /\ Begins(s, b)
  BY <1>1, <1>2 DEF IInv, TypeOK, Job, CallInv, Holding
<1>4. s2 \in Content /\ Begins(s2, b)
  BY <1>1, <1>3, BeginsAppend
<1>. HIDE DEF s2
<1>5. s2 # Null
  BY <1>4, NullAssumption DEF Content
<1>6. files' \in [Paths -> Content \cup {Null}] /\ files'[x] = s2
      /\ \A y \in Paths : y # x => files'[y] = files[y]
  BY <1>1, <1>3, <1>4 DEF IInv, TypeOK
<1>7. TypeOK'
  BY <1>1, <1>6 DEF IInv, TypeOK
<1>8. FilesAccounted'
  BY <1>1, <1>3, <1>5, <1>6 DEF IInv, FilesAccounted
<1>9. CallsInv'
  <2>. SUFFICES ASSUME NEW u \in Threads, pc'[u] # "idle" PROVE CallInv(u)'
    BY DEF CallsInv
  <2>1. CASE u = t
    BY <1>1, <1>2, <1>4, <1>5, <1>6, <2>1 DEF CallInv, Holding
  <2>2. CASE u # t
    <3>1. UNCHANGED << pc[u], job[u], path[u], sz[u], got[u], left, dropped >>
      BY <1>1
    <3>2. CallInv(u)
      BY <3>1 DEF IInv, CallsInv
    <3>3. pc[u] \in Holding => path[u] \in Paths /\ path[u] # x
      BY <1>1, <2>2 DEF IInv, TypeOK, FilesAccounted, Holding
    <3>4. pc[u] \in Holding => UNCHANGED files[path[u]] /\ path[u] \notin left
      BY <1>1, <1>6, <3>2, <3>3 DEF CallInv
    <3>. QED
      BY <3>1, <3>2, <3>4, OthersKeep
  <2>. QED
    BY <2>1, <2>2
<1>. QED
  BY <1>1, <1>7, <1>8, <1>9 DEF IInv, OwnBytes, LoadedIsSaved

(* A step that only moves one thread on, with a file or without one.          *)
LEMMA LocalStep ==
  ASSUME IInv, NEW t \in Threads, NEW to,
         pc[t] \in Holding, to \in Holding,
         pc' = [pc EXCEPT ![t] = to],
         sz' \in [Threads -> Nat], got' \in [Threads -> Content],
         \A u \in Threads \ {t} : sz'[u] = sz[u] /\ got'[u] = got[u],
         dropped' \in BOOLEAN, dropped => dropped',
         to # "write" /\ ~dropped' => files[path[t]] = job[t].bytes,
         to = "read" => sz'[t] = Len(files[path[t]]),
         to = "unlink" => /\ Begins(got'[t], files[path[t]])
                          /\ ~dropped' => got'[t] = files[path[t]],
         UNCHANGED << files, job, path, engines, loaded, left, calls >>
  PROVE  IInv'
<1>1. TypeOK'
  BY DEF IInv, TypeOK, Holding
<1>2. FilesAccounted'
  BY DEF IInv, TypeOK, FilesAccounted
<1>3. CallsInv'
  <2>. SUFFICES ASSUME NEW u \in Threads, pc'[u] # "idle" PROVE CallInv(u)'
    BY DEF CallsInv
  <2>1. CASE u = t
    <3>1. pc'[t] = to /\ CallInv(t)
      BY DEF IInv, TypeOK, CallsInv, Holding
    <3>. QED
      BY <2>1, <3>1 DEF CallInv, Begins, Bytes, Zero
  <2>2. CASE u # t
    <3>1. UNCHANGED << pc[u], job[u], path[u], sz[u], got[u], files, left >>
      BY <2>2 DEF IInv, TypeOK
    <3>2. CallInv(u)
      BY <3>1 DEF IInv, CallsInv
    <3>3. pc[u] \in Holding => UNCHANGED files[path[u]] /\ path[u] \notin left'
      BY <3>1, <3>2 DEF CallInv
    <3>. QED
      BY <3>1, <3>2, <3>3, OthersKeep
  <2>. QED
    BY <2>1, <2>2
<1>4. OwnBytes'
  BY DEF IInv, OwnBytes, Begins, Bytes, Zero
<1>. QED
  BY <1>1, <1>2, <1>3, <1>4 DEF IInv, LoadedIsSaved

LEMMA CloseFileKeeps ==
  ASSUME IInv, NEW t \in Threads, CloseFile(t)
  PROVE  IInv'
<1>. DEFINE to == IF job[t].kind = "save" THEN "open" ELSE "load"
<1>1. /\ pc[t] \in Holding /\ to \in Holding
      /\ to # "write" /\ to # "read" /\ to # "unlink"
  BY DEF CloseFile, Holding
<1>2. /\ pc' = [pc EXCEPT ![t] = to]
      /\ UNCHANGED << files, job, path, sz, got, engines, loaded, left, calls >>
  BY DEF CloseFile
<1>3. /\ dropped' \in BOOLEAN /\ (dropped => dropped')
      /\ ~dropped' => files[path[t]] = job[t].bytes
  BY DEF CloseFile, IInv, TypeOK
<1>4. sz \in [Threads -> Nat] /\ got \in [Threads -> Content]
  BY DEF IInv, TypeOK
<1>. HIDE DEF to
<1>. QED
  BY <1>1, <1>2, <1>3, <1>4, LocalStep

(* What a call that has written its file knows of it.                        *)
LEMMA Written ==
  ASSUME IInv, NEW t \in Threads, pc[t] \in Holding \ {"write"}
  PROVE  /\ files[path[t]] \in Content
         /\ ~dropped => files[path[t]] = job[t].bytes
         /\ dropped \in BOOLEAN /\ pc[t] \in Holding
         /\ pc[t] = "read" => sz[t] = Len(files[path[t]])
<1>1. CallInv(t)
  BY DEF IInv, CallsInv, Holding
<1>. QED
  BY <1>1 DEF IInv, TypeOK, CallInv

LEMMA OpenKeeps ==
  ASSUME IInv, NEW t \in Threads, Open(t)
  PROVE  IInv'
<1>1. pc[t] \in Holding \ {"write"} /\ "read" \in Holding
  BY DEF Open, Holding
<1>2. /\ pc' = [pc EXCEPT ![t] = "read"]
      /\ sz' = [sz EXCEPT ![t] = Len(files[path[t]])]
      /\ UNCHANGED << files, job, path, got, engines, loaded, left, dropped, calls >>
  BY DEF Open
<1>3. Len(files[path[t]]) \in Nat
  BY <1>1, Written DEF Content
<1>4. /\ sz' \in [Threads -> Nat] /\ got' \in [Threads -> Content]
      /\ \A u \in Threads \ {t} : sz'[u] = sz[u] /\ got'[u] = got[u]
      /\ sz'[t] = Len(files[path[t]])
  BY <1>2, <1>3 DEF IInv, TypeOK
<1>. QED
  BY <1>1, <1>2, <1>4, Written, LocalStep

(* read: of the file, as far as it goes.                                     *)
LEMMA ReadKeeps ==
  ASSUME IInv, NEW t \in Threads, Read(t)
  PROVE  IInv'
<1>. DEFINE s == files[path[t]]
<1>1. pc[t] \in Holding \ {"write"} /\ "unlink" \in Holding
  BY DEF Read, Holding
<1>2. s \in Content /\ sz[t] = Len(s)
  BY <1>1, Written DEF Read
<1>3. PICK k \in 0 .. Len(s) :
        /\ got' = [got EXCEPT ![t] = [i \in 1 .. Len(s) |-> IF i <= k THEN s[i] ELSE Zero]]
        /\ dropped' = (dropped \/ k < Len(s))
  BY <1>2 DEF Read
<1>4. /\ pc' = [pc EXCEPT ![t] = "unlink"]
      /\ UNCHANGED << files, job, path, sz, engines, loaded, left, calls >>
  BY DEF Read
<1>5. PICK u \in Content :
        got' = [got EXCEPT ![t] = u] /\ Begins(u, s) /\ (k = Len(s) => u = s)
  BY <1>2, <1>3, ReadBegins
<1>6. /\ sz' \in [Threads -> Nat] /\ got' \in [Threads -> Content]
      /\ \A v \in Threads \ {t} : sz'[v] = sz[v] /\ got'[v] = got[v]
      /\ got'[t] = u
  BY <1>4, <1>5 DEF IInv, TypeOK
<1>7. /\ dropped' \in BOOLEAN /\ (dropped => dropped')
      /\ ~dropped' => ~dropped /\ k = Len(s)
  <2>1. Len(s) \in Nat
    BY <1>2 DEF Content
  <2>2. k < Len(s) \/ k = Len(s)
    BY <2>1
  <2>. QED
    BY <1>3, <2>2 DEF IInv, TypeOK
<1>8. ~dropped' => s = job[t].bytes /\ got'[t] = s
  BY <1>1, <1>5, <1>6, <1>7, Written
<1>. QED
  BY <1>1, <1>4, <1>5, <1>6, <1>7, <1>8, LocalStep

(* MIGraphX's load: the whole file.                                          *)
LEMMA LoadKeeps ==
  ASSUME IInv, NEW t \in Threads, Load(t)
  PROVE  IInv'
<1>1. pc[t] \in Holding \ {"write"} /\ "unlink" \in Holding
  BY DEF Load, Holding
<1>2. /\ pc' = [pc EXCEPT ![t] = "unlink"] /\ got' = [got EXCEPT ![t] = files[path[t]]]
      /\ UNCHANGED << files, job, path, sz, engines, loaded, left, dropped, calls >>
  BY DEF Load
<1>3. /\ sz' \in [Threads -> Nat] /\ got' \in [Threads -> Content]
      /\ \A u \in Threads \ {t} : sz'[u] = sz[u] /\ got'[u] = got[u]
      /\ got'[t] = files[path[t]]
  BY <1>1, <1>2, Written DEF IInv, TypeOK
<1>4. Begins(got'[t], files[path[t]])
  BY <1>1, <1>3, Written, BeginsReflexive
<1>. QED
  BY <1>1, <1>2, <1>3, <1>4, Written, LocalStep

(* A call ends: its file is gone, or left behind, or it had none.            *)
LEMMA LeaveKeeps ==
  ASSUME IInv, NEW t \in Threads, Leave(t), pc[t] # "idle",
         \/ pc[t] \in Holding /\ files' = [files EXCEPT ![path[t]] = Null] /\ left' = left
         \/ pc[t] \in Holding /\ files' = files /\ left' = left \cup { path[t] }
         \/ pc[t] \notin Holding /\ files' = files /\ left' = left,
         UNCHANGED << dropped, calls >>,
         engines' \subseteq [prog : Programs, bytes : Content],
         loaded' \subseteq Programs \X Programs
  PROVE  TypeOK' /\ FilesAccounted' /\ CallsInv'
<1>1. /\ pc'[t] = "idle"
      /\ \A u \in Threads \ {t} :
           UNCHANGED << pc[u], job[u], path[u], sz[u], got[u] >>
  BY DEF Leave, IInv, TypeOK
<1>2. \A u \in Threads : pc[u] \in Holding => path[u] \in Paths /\ path[u] \notin left
  BY DEF IInv, TypeOK, CallsInv, CallInv, Holding
<1>3. \A u \in Threads \ {t} :
        pc[u] \in Holding /\ pc[t] \in Holding => path[u] # path[t]
  BY DEF IInv, FilesAccounted
<1>4. TypeOK'
  <2>1. << >> \in Content /\ 0 \in Nat
    BY DEF Content
  <2>2. /\ pc' \in [Threads -> Holding \cup { "idle", "mkstemp" }]
        /\ job' \in [Threads -> Job \cup {Null}] /\ path' \in [Threads -> Paths \cup {Null}]
        /\ sz' \in [Threads -> Nat] /\ got' \in [Threads -> Content]
    BY <2>1 DEF Leave, IInv, TypeOK
  <2>3. files' \in [Paths -> Content \cup {Null}] /\ left' \subseteq Paths
    BY <1>2 DEF IInv, TypeOK
  <2>4. \A u \in Threads : /\ pc'[u] # "idle" => job'[u] \in Job
                           /\ pc'[u] \in Holding => path'[u] \in Paths
    BY <1>1 DEF IInv, TypeOK, Holding
  <2>. QED
    BY <2>2, <2>3, <2>4 DEF IInv, TypeOK
<1>5. FilesAccounted'
  <2>1. \A u \in Threads : pc'[u] \in Holding <=> u # t /\ pc[u] \in Holding
    BY <1>1 DEF Holding
  <2>2. \A x \in Paths :
          files'[x] # Null <=>
            x \in left' \/ \E u \in Threads : pc'[u] \in Holding /\ path'[u] = x
    <3>1. CASE pc[t] \in Holding /\ files' = [files EXCEPT ![path[t]] = Null] /\ left' = left
      <4>1. \A x \in Paths : files'[x] = IF x = path[t] THEN Null ELSE files[x]
        BY <3>1 DEF IInv, TypeOK
      <4>. QED
        BY <1>1, <1>2, <1>3, <2>1, <3>1, <4>1 DEF IInv, FilesAccounted
    <3>2. CASE pc[t] \in Holding /\ files' = files /\ left' = left \cup { path[t] }
      BY <1>1, <1>2, <2>1, <3>2 DEF IInv, FilesAccounted
    <3>3. CASE pc[t] \notin Holding /\ files' = files /\ left' = left
      BY <1>1, <2>1, <3>3 DEF IInv, FilesAccounted
    <3>. QED
      BY <3>1, <3>2, <3>3
  <2>3. \A u, v \in Threads :
          pc'[u] \in Holding /\ pc'[v] \in Holding /\ path'[u] = path'[v] => u = v
    BY <1>1, <2>1 DEF IInv, FilesAccounted
  <2>. QED
    BY <2>2, <2>3 DEF FilesAccounted
<1>6. CallsInv'
  <2>. SUFFICES ASSUME NEW u \in Threads, pc'[u] # "idle" PROVE CallInv(u)'
    BY DEF CallsInv
  <2>1. u # t /\ UNCHANGED << pc[u], job[u], path[u], sz[u], got[u] >>
    BY <1>1
  <2>2. CallInv(u)
    BY <2>1 DEF IInv, CallsInv
  <2>3. \A x \in Paths : x # path[t] => files'[x] = files[x]
    BY DEF IInv, TypeOK
  <2>4. pc[u] \in Holding => UNCHANGED files[path[u]] /\ path[u] \notin left'
    <3>1. CASE pc[t] \in Holding
      BY <1>2, <1>3, <2>1, <2>3, <3>1
    <3>2. CASE pc[t] \notin Holding
      BY <1>2, <2>1, <3>2
    <3>. QED
      BY <3>1, <3>2
  <2>. QED
    BY <2>1, <2>2, <2>4, OthersKeep
<1>. QED
  BY <1>4, <1>5, <1>6

LEMMA ThrowKeeps ==
  ASSUME IInv, NEW t \in Threads, MkstempFails(t) \/ Throw(t)
  PROVE  IInv'
<1>1. /\ Leave(t) /\ pc[t] # "idle"
      /\ UNCHANGED << files, engines, loaded, dropped, calls >>
  BY DEF MkstempFails, Throw
<1>2. \/ pc[t] \in Holding /\ left' = left \cup { path[t] }
      \/ pc[t] \notin Holding /\ left' = left
  BY DEF MkstempFails, Throw, Holding
<1>3. TypeOK' /\ FilesAccounted' /\ CallsInv'
  BY <1>1, <1>2, LeaveKeeps DEF IInv, TypeOK
<1>4. OwnBytes'
  BY <1>1 DEF IInv, OwnBytes, Begins, Bytes, Zero
<1>. QED
  BY <1>1, <1>3, <1>4 DEF IInv, LoadedIsSaved

LEMMA UnlinkKeeps ==
  ASSUME IInv, NEW t \in Threads, Unlink(t)
  PROVE  IInv'
<1>1. /\ Leave(t) /\ pc[t] = "unlink" /\ pc[t] \in Holding
      /\ files' = [files EXCEPT ![path[t]] = Null]
      /\ UNCHANGED << left, dropped, calls >>
  BY DEF Unlink, Holding
<1>. DEFINE q == job[t].prog
<1>2. q \in Programs /\ job[t].bytes \in Content /\ got[t] \in Content
  BY <1>1 DEF IInv, TypeOK, Job
<1>3. Begins(got[t], Bytes(q)) /\ (~dropped => got[t] = Bytes(q))
  <2>1. CallInv(t)
    BY <1>1 DEF IInv, CallsInv
  <2>2. /\ Begins(got[t], files[path[t]]) /\ Begins(files[path[t]], job[t].bytes)
        /\ Begins(job[t].bytes, Bytes(q))
        /\ ~dropped => got[t] = job[t].bytes /\ job[t].bytes = Bytes(q)
    BY <1>1, <2>1 DEF CallInv
  <2>3. files[path[t]] \in Content
    BY <1>1, Written
  <2>4. Begins(got[t], job[t].bytes)
    BY <1>2, <2>2, <2>3, BeginsTransitive
  <2>. QED
    BY <1>2, <2>2, <2>4, BytesType, BeginsTransitive
<1>4. CASE engines' = engines \cup { [prog |-> q, bytes |-> got[t]] } /\ loaded' = loaded
  <2>1. [prog |-> q, bytes |-> got[t]] \in [prog : Programs, bytes : Content]
    BY <1>2
  <2>2. TypeOK' /\ FilesAccounted' /\ CallsInv'
    BY <1>1, <1>4, <2>1, LeaveKeeps DEF IInv, TypeOK
  <2>3. OwnBytes'
    <3>. SUFFICES ASSUME NEW e \in engines'
                  PROVE  Begins(e.bytes, Bytes(e.prog)) /\ (~dropped => e.bytes = Bytes(e.prog))
      BY <1>1 DEF OwnBytes, Begins, Bytes, Zero
    <3>1. CASE e \in engines
      BY <3>1 DEF IInv, OwnBytes
    <3>2. CASE e = [prog |-> q, bytes |-> got[t]]
      BY <1>3, <3>2
    <3>. QED
      BY <1>4, <3>1, <3>2
  <2>. QED
    BY <1>4, <2>2, <2>3 DEF IInv, LoadedIsSaved
<1>5. ASSUME NEW q2 \in Programs, got[t] = Bytes(q2),
             loaded' = loaded \cup { << q, q2 >> }, engines' = engines
      PROVE  IInv'
  <2>1. q2 = q
    BY <1>2, <1>3, <1>5, BeginsOwn
  <2>2. TypeOK' /\ FilesAccounted' /\ CallsInv'
    <3>1. engines \subseteq [prog : Programs, bytes : Content] /\ loaded \subseteq Programs \X Programs
      BY DEF IInv, TypeOK
    <3>2. << q, q2 >> \in Programs \X Programs
      BY <1>2
    <3>3. loaded' \subseteq Programs \X Programs /\ engines' \subseteq [prog : Programs, bytes : Content]
      BY <1>5, <3>1, <3>2
    <3>. HIDE DEF q
    <3>. QED
      BY <1>1, <3>3, LeaveKeeps
  <2>3. OwnBytes'
    BY <1>1, <1>5 DEF IInv, OwnBytes, Begins, Bytes, Zero
  <2>4. LoadedIsSaved'
    BY <1>5, <2>1 DEF IInv, LoadedIsSaved
  <2>. QED
    BY <2>2, <2>3, <2>4 DEF IInv
<1>. QED
  BY <1>4, <1>5 DEF Unlink

LEMMA NextIInv == IInv /\ [Next]_vars => IInv'
<1>. SUFFICES ASSUME IInv, [Next]_vars PROVE IInv'
  OBVIOUS
<1>1. ASSUME NEW t \in Threads, StartSave(t) \/ StartLoad(t) PROVE IInv'
  BY <1>1, StartKeeps
<1>2. ASSUME NEW t \in Threads, Call(t) PROVE IInv'
  BY <1>2, MkstempKeeps, WriteKeeps, CloseFileKeeps, OpenKeeps, ReadKeeps, LoadKeeps, ThrowKeeps,
     UnlinkKeeps DEF Call
<1>3. CASE UNCHANGED vars
  <2>1. CallsInv'
    <3>. SUFFICES ASSUME NEW u \in Threads, pc'[u] # "idle" PROVE CallInv(u)'
      BY DEF CallsInv
    <3>1. UNCHANGED << pc[u], job[u], path[u], sz[u], got[u], files, left, dropped >>
      BY <1>3 DEF vars
    <3>2. CallInv(u)
      BY <3>1 DEF IInv, CallsInv
    <3>. QED
      BY <3>1, <3>2, OthersKeep DEF CallInv
  <2>2. OwnBytes'
    BY <1>3 DEF vars, IInv, OwnBytes, Begins, Bytes, Zero
  <2>3. TypeOK' /\ FilesAccounted' /\ LoadedIsSaved'
    BY <1>3 DEF vars, IInv, TypeOK, FilesAccounted, LoadedIsSaved
  <2>. QED
    BY <2>1, <2>2, <2>3 DEF IInv
<1>. QED
  BY <1>1, <1>2, <1>3 DEF Next, Finished

LEMMA Invariant == Spec => []IInv
BY InitIInv, NextIInv, PTL DEF Spec

(* The variables keep their types, and a call past mkstemp has a file name.   *)
THEOREM TypeCorrect == Spec => []TypeOK
BY Invariant, PTL DEF IInv

(* Every file is that of one call in progress, or of a call that has thrown.  *)
THEOREM NothingLeftBehind == Spec => []FilesAccounted
BY Invariant, PTL DEF IInv

(* No engine is built from bytes of another program, however many threads     *)
(* build at once, and one is whole unless a write or a read has failed.       *)
THEOREM EnginesHoldOwnBytes == Spec => []OwnBytes
BY Invariant, PTL DEF IInv

(* A deserialized program is the one the engine was built from.              *)
THEOREM LoadsWhatWasSaved == Spec => []LoadedIsSaved
BY Invariant, PTL DEF IInv
=============================================================================
