---------------------------- MODULE EngineLoadMC ----------------------------
(* Instances of EngineLoad for TLC: a byte has 4 values, so a uint32_t has   *)
(* 256 and a uint64_t 65536, both larger than any blob below.               *)
EXTENDS EngineLoad

MCMagic == << 0, 1, 2, 3, 3, 2, 1, 1 >>

IORec(d, t, b, nm, dm) == [dir |-> d, datatype |-> t, bytes_per_elem |-> b,
                           name |-> nm, dims |-> dm]

(* No IO at all; a static input; a dynamic input and a scalar output whose   *)
(* name is empty; two tensors of the same name, one of them with a program   *)
(* whose bytes look like a header.                                          *)
NoIOEngine  == [ios |-> << >>, mxr |-> << >>]
OneInput    == [ios |-> << IORec(0, 3, 4, << 1 >>, << 2, 300 >>) >>,
                mxr |-> << 3, 3 >>]
DynamicPair == [ios |-> << IORec(0, 1, 2, << 1, 2 >>, << -1 >>),
                           IORec(1, 2, 4, << >>, << >>) >>,
                mxr |-> << 1 >>]
SameName    == [ios |-> << IORec(0, 1, 1, << 3 >>, << >>),
                           IORec(1, 1, 1, << 3 >>, << -1 >>) >>,
                mxr |-> MCMagic \o << 0, 0, 0, 0 >>]

MCEngines == { NoIOEngine, OneInput, DynamicPair, SameName }

IntactSources == { pack_blob(e) : e \in MCEngines }

(* b with the w bytes from position i on set to v. *)
Overwrite(b, i, w, v) == [j \in DOMAIN b |-> IF j \in i .. i + w - 1 THEN v ELSE b[j]]

(* One byte overwritten with any value, a 4-byte or an 8-byte window with   *)
(* the largest, or trailing bytes.                                          *)
Damaged(b) ==
  { Overwrite(b, i, 1, v) : i \in 1 .. Len(b), v \in {0, 1, 3} }
    \cup { Overwrite(b, i, w, 3) : i \in 1 .. Len(b), w \in {4, 8} }
    \cup { b \o << 1 >>, b \o << 3, 3, 3 >> }

DamagedSources == UNION { Damaged(pack_blob(e)) : e \in {OneInput, DynamicPair} }

MCSources == IntactSources \cup DamagedSources
=============================================================================
