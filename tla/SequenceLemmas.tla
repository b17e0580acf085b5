--------------------------- MODULE SequenceLemmas ---------------------------
(***************************************************************************)
(* Lemmas about the data of the other modules: induction over the natural   *)
(* numbers, prefixes of sequences, and FlattenSeq, which concatenates a     *)
(* sequence of sequences.                                                   *)
(*                                                                         *)
(* The induction theorems of the library take an operator as a parameter.   *)
(* Here induction is stated of a set, and proved from the fact that the     *)
(* natural numbers are well founded.                                        *)
(***************************************************************************)
EXTENDS Integers, Sequences, SequencesExt, SequenceTheorems, WellFoundedInduction,
        TLAPS

(* A set of which 0 is a member, and k + 1 with every k, holds every natural *)
(* number.                                                                  *)
LEMMA SetInduction ==
  ASSUME NEW S, 0 \in S, \A k \in Nat : k \in S => k + 1 \in S
  PROVE  Nat \subseteq S
<1>1. SUFFICES ASSUME Nat \ S # {} PROVE FALSE
  OBVIOUS
<1> DEFINE Less == { p \in Nat \X Nat : p[1] < p[2] }
<1>2. IsWellFoundedOn(Less, Nat)
  BY NatLessThanWellFounded DEF OpToRel
<1>3. PICK x \in Nat \ S : \A y \in Nat \ S : << y, x >> \notin Less
  <2> HIDE DEF Less
  <2> QED
    BY <1>1, <1>2, WFMin
<1>4. x \in Nat /\ x # 0 /\ x - 1 \in Nat /\ (x - 1) + 1 = x
  OBVIOUS
<1>5. x - 1 \notin S
  BY <1>4
<1>6. << x - 1, x >> \in Less
  BY <1>4
<1> QED
  BY <1>3, <1>4, <1>5, <1>6

(* A set that holds the empty sequence, and with a sequence every sequence    *)
(* one element longer, holds every sequence.                                *)
LEMMA SequenceInduction ==
  ASSUME NEW T, NEW S, << >> \in S,
         \A s \in Seq(T), x \in T : s \in S => Append(s, x) \in S
  PROVE  Seq(T) \subseteq S
<1> DEFINE K == { k \in Nat : \A s \in Seq(T) : Len(s) = k => s \in S }
<1>1. 0 \in K
  BY EmptySeq
<1>2. ASSUME NEW k \in Nat, k \in K
      PROVE  k + 1 \in K
  <2>1. SUFFICES ASSUME NEW s \in Seq(T), Len(s) = k + 1
                 PROVE  s \in S
    OBVIOUS
  <2>2. s # << >>
    BY <2>1, EmptySeq
  <2>3. PICK t \in Seq(T), x \in T : s = Append(t, x)
    BY <2>2, SequenceEmptyOrAppend
  <2>4. Len(t) \in Nat /\ Len(s) = Len(t) + 1
    BY <2>3, LenProperties, AppendProperties
  <2>5. t \in S
    BY <1>2, <2>1, <2>4
  <2> QED
    BY <2>3, <2>5
<1>3. Nat \subseteq K
  <2> HIDE DEF K
  <2> QED
    BY <1>1, <1>2, SetInduction
<1> QED
  BY <1>3, LenProperties

-----------------------------------------------------------------------------
(***************************************************************************)
(* Prefixes.                                                                *)
(***************************************************************************)

(* A prefix agrees with the sequence wherever it is defined.                *)
LEMMA PrefixPointwise ==
  ASSUME NEW T, NEW s \in Seq(T), NEW t \in Seq(T)
  PROVE  IsPrefix(s, t) <=> /\ Len(s) <= Len(t)
                            /\ \A i \in 1 .. Len(s) : s[i] = t[i]
<1>1. Len(s) \in Nat /\ Len(t) \in Nat
  BY LenProperties
<1>2. ASSUME Len(s) <= Len(t)
      PROVE  (SubSeq(s, 1, Len(s)) = SubSeq(t, 1, Len(s)))
               <=> \A i \in 1 .. Len(s) : s[i] = t[i]
  <2> DEFINE u == SubSeq(t, 1, Len(s))
  <2>1. \A i \in 1 .. Len(s) : t[i] \in T
    BY <1>1, <1>2, ElementOfSeq
  <2>2. u \in Seq(T) /\ Len(u) = Len(s) /\ \A i \in 1 .. Len(s) : u[i] = t[i]
    BY <1>1, <2>1, SubSeqProperties
  <2>3. SubSeq(s, 1, Len(s)) = s
    BY SubSeqFull
  <2> HIDE DEF u
  <2>4. ASSUME \A i \in 1 .. Len(s) : s[i] = t[i]
        PROVE  s = u
    BY <2>2, <2>4, SeqEqual
  <2> QED
    BY <2>2, <2>3, <2>4 DEF u
<1> QED
  BY <1>2 DEF IsPrefix

LEMMA PrefixEmpty ==
  ASSUME NEW T, NEW s \in Seq(T)
  PROVE  IsPrefix(<< >>, s)
<1>1. Len(<< >>) = 0 /\ Len(s) \in Nat
  BY LenProperties
<1>2. SubSeq(<< >>, 1, 0) = << >> /\ SubSeq(s, 1, 0) = << >>
  BY SubSeqEmpty
<1> QED
  BY <1>1, <1>2 DEF IsPrefix

LEMMA PrefixReflexive ==
  ASSUME NEW T, NEW s \in Seq(T)
  PROVE  IsPrefix(s, s)
  BY PrefixPointwise, LenProperties

LEMMA PrefixTransitive ==
  ASSUME NEW T, NEW s \in Seq(T), NEW t \in Seq(T), NEW u \in Seq(T),
         IsPrefix(s, t), IsPrefix(t, u)
  PROVE  IsPrefix(s, u)
<1>1. Len(s) \in Nat /\ Len(t) \in Nat /\ Len(u) \in Nat
  BY LenProperties
<1>2. Len(s) <= Len(t) /\ \A i \in 1 .. Len(s) : s[i] = t[i]
  BY PrefixPointwise
<1>3. Len(t) <= Len(u) /\ \A i \in 1 .. Len(t) : t[i] = u[i]
  BY PrefixPointwise
<1>4. Len(s) <= Len(u) /\ \A i \in 1 .. Len(s) : s[i] = u[i]
  BY <1>1, <1>2, <1>3
<1> QED
  BY <1>4, PrefixPointwise

LEMMA PrefixOfConcat ==
  ASSUME NEW T, NEW s \in Seq(T), NEW t \in Seq(T)
  PROVE  s \o t \in Seq(T) /\ IsPrefix(s, s \o t)
<1> DEFINE w == s \o t
<1>1. Len(s) \in Nat /\ Len(t) \in Nat
  BY LenProperties
<1>2. /\ w \in Seq(T) /\ Len(w) = Len(s) + Len(t)
      /\ \A i \in 1 .. Len(s) + Len(t) : w[i] = IF i <= Len(s) THEN s[i] ELSE t[i - Len(s)]
  BY ConcatProperties
<1> HIDE DEF w
<1>3. \A i \in 1 .. Len(s) : w[i] = s[i]
  BY <1>1, <1>2
<1>4. w \in Seq(T) /\ IsPrefix(s, w)
  BY <1>1, <1>2, <1>3, PrefixPointwise
<1> QED
  BY <1>4 DEF w

(* What follows a prefix, byte by byte, extends it.                          *)
LEMMA PrefixExtend ==
  ASSUME NEW T, NEW s \in Seq(T), NEW t \in Seq(T), NEW u \in Seq(T)
  PROVE  IsPrefix(s \o t, u) <=> /\ IsPrefix(s, u) /\ Len(s) + Len(t) <= Len(u)
                                 /\ \A i \in 1 .. Len(t) : u[Len(s) + i] = t[i]
<1> DEFINE w == s \o t
<1>1. Len(s) \in Nat /\ Len(t) \in Nat /\ Len(u) \in Nat
  BY LenProperties
<1>2. /\ w \in Seq(T) /\ Len(w) = Len(s) + Len(t)
      /\ \A i \in 1 .. Len(s) + Len(t) : w[i] = IF i <= Len(s) THEN s[i] ELSE t[i - Len(s)]
  BY ConcatProperties
<1>p. IsPrefix(s, w)
  BY PrefixOfConcat
<1> HIDE DEF w
<1>3. ASSUME IsPrefix(w, u)
      PROVE  /\ IsPrefix(s, u) /\ Len(s) + Len(t) <= Len(u)
             /\ \A i \in 1 .. Len(t) : u[Len(s) + i] = t[i]
  <2>0. Len(w) <= Len(u) /\ \A i \in 1 .. Len(w) : w[i] = u[i]
    BY <1>2, <1>3, PrefixPointwise
  <2>1. Len(s) + Len(t) <= Len(u) /\ \A i \in 1 .. Len(s) + Len(t) : w[i] = u[i]
    BY <1>2, <2>0
  <2>2. IsPrefix(s, u)
    BY <1>2, <1>3, <1>p, PrefixTransitive
  <2>3. ASSUME NEW i \in 1 .. Len(t)
        PROVE  u[Len(s) + i] = t[i]
    <3>1. Len(s) + i \in 1 .. Len(s) + Len(t) /\ ~(Len(s) + i <= Len(s))
          /\ (Len(s) + i) - Len(s) = i
      BY <1>1
    <3> QED
      BY <1>2, <2>1, <3>1
  <2> QED
    BY <2>1, <2>2, <2>3
<1>4. ASSUME IsPrefix(s, u), Len(s) + Len(t) <= Len(u),
             \A i \in 1 .. Len(t) : u[Len(s) + i] = t[i]
      PROVE  IsPrefix(w, u)
  <2>1. \A i \in 1 .. Len(s) : s[i] = u[i]
    BY <1>4, PrefixPointwise
  <2>2. ASSUME NEW i \in 1 .. Len(s) + Len(t)
        PROVE  w[i] = u[i]
    <3>1. CASE i <= Len(s)
      BY <1>1, <1>2, <2>1, <3>1
    <3>2. CASE ~(i <= Len(s))
      <4>1. i - Len(s) \in 1 .. Len(t) /\ Len(s) + (i - Len(s)) = i
        BY <1>1, <3>2
      <4> QED
        BY <1>2, <1>4, <3>2, <4>1
    <3> QED
      BY <3>1, <3>2
  <2> QED
    BY <1>2, <1>4, <2>2, PrefixPointwise
<1>5. IsPrefix(w, u) <=> /\ IsPrefix(s, u) /\ Len(s) + Len(t) <= Len(u)
                         /\ \A i \in 1 .. Len(t) : u[Len(s) + i] = t[i]
  BY <1>3, <1>4
<1> QED
  BY <1>5 DEF w

LEMMA PrefixConcat ==
  ASSUME NEW T, NEW b \in Seq(T), NEW s \in Seq(T), NEW t \in Seq(T), IsPrefix(s, t)
  PROVE  IsPrefix(b \o s, b \o t)
<1>1. Len(b) \in Nat /\ Len(s) \in Nat /\ Len(t) \in Nat
  BY LenProperties
<1>2. Len(s) <= Len(t) /\ \A i \in 1 .. Len(s) : s[i] = t[i]
  BY PrefixPointwise
<1>3. b \o t \in Seq(T) /\ IsPrefix(b, b \o t)
  BY PrefixOfConcat
<1>4. IsPrefix(b \o t, b \o t)
  BY <1>3, PrefixReflexive
<1>5. Len(b) + Len(t) <= Len(b \o t) /\ \A i \in 1 .. Len(t) : (b \o t)[Len(b) + i] = t[i]
  BY <1>3, <1>4, PrefixExtend
<1>6. Len(b) + Len(s) <= Len(b \o t) /\ \A i \in 1 .. Len(s) : (b \o t)[Len(b) + i] = s[i]
  BY <1>1, <1>2, <1>5
<1> QED
  BY <1>3, <1>6, PrefixExtend

(* Of two prefixes of one sequence the shorter is a prefix of the longer.    *)
LEMMA PrefixesComparable ==
  ASSUME NEW T, NEW s \in Seq(T), NEW t \in Seq(T), NEW u \in Seq(T),
         IsPrefix(s, u), IsPrefix(t, u), Len(s) <= Len(t)
  PROVE  IsPrefix(s, t)
<1>1. Len(s) \in Nat /\ Len(t) \in Nat /\ Len(u) \in Nat
  BY LenProperties
<1>2. \A i \in 1 .. Len(s) : s[i] = u[i]
  BY PrefixPointwise
<1>3. \A i \in 1 .. Len(t) : t[i] = u[i]
  BY PrefixPointwise
<1> QED
  BY <1>1, <1>2, <1>3, PrefixPointwise

-----------------------------------------------------------------------------
(***************************************************************************)
(* FlattenSeq.                                                              *)
(***************************************************************************)

(* The function FlattenSeq is defined with exists.                          *)
Flattens(fl, s, k) ==
  fl = [i \in 1 .. k |-> IF i = 1 THEN s[i] ELSE fl[i - 1] \o s[i]]

LEMMA FlattensExists ==
  ASSUME NEW s
  PROVE  \A k \in Nat : \E fl : Flattens(fl, s, k)
<1> DEFINE S == { k \in Nat : \E fl : Flattens(fl, s, k) }
<1>1. 0 \in S
  <2>1. Flattens(<< >>, s, 0)
    BY DEF Flattens
  <2> QED
    BY <2>1
<1>2. ASSUME NEW k \in Nat, k \in S
      PROVE  k + 1 \in S
  <2>1. PICK fl : Flattens(fl, s, k)
    BY <1>2
  <2> DEFINE g == [i \in 1 .. k + 1 |->
                     IF i = k + 1 THEN (IF i = 1 THEN s[i] ELSE fl[i - 1] \o s[i])
                     ELSE fl[i]]
  <2>2. \A i \in 1 .. k : i \in 1 .. k + 1 /\ i # k + 1 /\ g[i] = fl[i]
    OBVIOUS
  <2>3. ASSUME NEW i \in 1 .. k + 1
        PROVE  g[i] = IF i = 1 THEN s[i] ELSE g[i - 1] \o s[i]
    <3>1. CASE i = k + 1
      BY <2>2, <3>1
    <3>2. CASE i # k + 1
      <4>1. i \in 1 .. k /\ (i # 1 => i - 1 \in 1 .. k)
        BY <3>2
      <4>2. fl[i] = IF i = 1 THEN s[i] ELSE fl[i - 1] \o s[i]
        BY <2>1, <4>1 DEF Flattens
      <4> HIDE DEF g
      <4> QED
        BY <2>2, <4>1, <4>2
    <3> QED
      BY <3>1, <3>2
  <2>4. Flattens(g, s, k + 1)
    BY <2>3 DEF Flattens
  <2> QED
    BY <2>4
<1>3. Nat \subseteq S
  <2> HIDE DEF S
  <2> QED
    BY <1>1, <1>2, SetInduction
<1> QED
  BY <1>3

LEMMA FlattenIs ==
  ASSUME NEW s, Len(s) \in Nat \ {0}
  PROVE  \E fl : Flattens(fl, s, Len(s)) /\ FlattenSeq(s) = fl[Len(s)]
<1> DEFINE f == CHOOSE fl : Flattens(fl, s, Len(s))
<1>1. Flattens(f, s, Len(s))
  BY FlattensExists
<1>2. FlattenSeq(s) = f[Len(s)]
  BY DEF FlattenSeq, Flattens
<1> QED
  BY <1>1, <1>2

LEMMA FlattenEmpty == FlattenSeq(<< >>) = << >>
  BY DEF FlattenSeq

Agree(s, t, k) == \A i \in 1 .. k : s[i] = t[i]

(* Only the values up to k count.                                           *)
LEMMA FlattensAgree ==
  ASSUME NEW s, NEW t, NEW k \in Nat, NEW l \in Nat, NEW fl, NEW gl,
         Agree(s, t, k), k <= l,
         Flattens(fl, s, k), Flattens(gl, t, l)
  PROVE  Agree(fl, gl, k)
<1>a. \A i \in 1 .. k : s[i] = t[i]
  BY DEF Agree
<1> DEFINE S == { j \in Nat : j \in 1 .. k => fl[j] = gl[j] }
<1>1. 0 \in S
  OBVIOUS
<1>2. ASSUME NEW j \in Nat, j \in S
      PROVE  j + 1 \in S
  <2>1. SUFFICES ASSUME j + 1 \in 1 .. k
                 PROVE  fl[j + 1] = gl[j + 1]
    OBVIOUS
  <2>2. fl[j + 1] = IF j + 1 = 1 THEN s[j + 1] ELSE fl[(j + 1) - 1] \o s[j + 1]
    BY <2>1 DEF Flattens
  <2>3. gl[j + 1] = IF j + 1 = 1 THEN t[j + 1] ELSE gl[(j + 1) - 1] \o t[j + 1]
    <3>1. j + 1 \in 1 .. l
      BY <2>1
    <3> QED
      BY <3>1 DEF Flattens
  <2>4. s[j + 1] = t[j + 1] /\ (j + 1) - 1 = j
    BY <1>a, <2>1
  <2>5. j + 1 # 1 => fl[j] = gl[j]
    BY <1>2, <2>1
  <2> QED
    BY <2>2, <2>3, <2>4, <2>5
<1>3. Nat \subseteq S
  <2> HIDE DEF S
  <2> QED
    BY <1>1, <1>2, SetInduction
<1> QED
  BY <1>3 DEF Agree

LEMMA FlattenType ==
  ASSUME NEW T, NEW s \in Seq(Seq(T))
  PROVE  FlattenSeq(s) \in Seq(T)
<1>1. Len(s) \in Nat
  BY LenProperties
<1>2. CASE Len(s) = 0
  <2>1. s = << >>
    BY <1>2, EmptySeq
  <2> QED
    BY <2>1, FlattenEmpty, EmptySeq
<1>3. CASE Len(s) # 0
  <2>1. PICK fl : Flattens(fl, s, Len(s)) /\ FlattenSeq(s) = fl[Len(s)]
    BY <1>1, <1>3, FlattenIs
  <2> DEFINE S == { j \in Nat : j \in 1 .. Len(s) => fl[j] \in Seq(T) }
  <2>2. 0 \in S
    OBVIOUS
  <2>3. ASSUME NEW j \in Nat, j \in S
        PROVE  j + 1 \in S
    <3>1. SUFFICES ASSUME j + 1 \in 1 .. Len(s)
                   PROVE  fl[j + 1] \in Seq(T)
      OBVIOUS
    <3>2. fl[j + 1] = IF j + 1 = 1 THEN s[j + 1] ELSE fl[(j + 1) - 1] \o s[j + 1]
      BY <2>1, <3>1 DEF Flattens
    <3>3. s[j + 1] \in Seq(T) /\ (j + 1) - 1 = j
      BY <3>1, ElementOfSeq
    <3>4. j + 1 # 1 => fl[j] \in Seq(T)
      BY <1>1, <2>3, <3>1
    <3> QED
      BY <3>2, <3>3, <3>4, ConcatProperties
  <2>4. Nat \subseteq S
    <3> HIDE DEF S
    <3> QED
      BY <2>2, <2>3, SetInduction
  <2>5. Len(s) \in S
    BY <1>1, <2>4
  <2> QED
    BY <1>1, <1>3, <2>1, <2>5
<1> QED
  BY <1>2, <1>3

(* To flatten one more sequence is to append it.                             *)
LEMMA FlattenAppend ==
  ASSUME NEW T, NEW s \in Seq(Seq(T)), NEW x \in Seq(T)
  PROVE  FlattenSeq(Append(s, x)) = FlattenSeq(s) \o x
<1> DEFINE t == Append(s, x)
           k == Len(s)
<1>1. /\ t \in Seq(Seq(T)) /\ k \in Nat /\ Len(t) = k + 1 /\ t[k + 1] = x
      /\ \A i \in 1 .. k : s[i] = t[i]
  BY AppendProperties, LenProperties
<1> HIDE DEF t, k
<1>2. PICK gl : Flattens(gl, t, k + 1) /\ FlattenSeq(t) = gl[k + 1]
  <2>1. Len(t) \in Nat \ {0}
    BY <1>1
  <2>2. \E gl : Flattens(gl, t, Len(t)) /\ FlattenSeq(t) = gl[Len(t)]
    BY <2>1, FlattenIs
  <2> QED
    BY <1>1, <2>2
<1>3. gl[k + 1] = IF k + 1 = 1 THEN t[k + 1] ELSE gl[(k + 1) - 1] \o t[k + 1]
  <2>1. k + 1 \in 1 .. k + 1
    BY <1>1
  <2> QED
    BY <1>2, <2>1 DEF Flattens
<1>4. CASE k = 0
  <2>1. s = << >>
    BY <1>4, EmptySeq DEF k
  <2>2. FlattenSeq(s) \o x = x
    BY <2>1, FlattenEmpty, ConcatEmptySeq
  <2> QED
    BY <1>1, <1>2, <1>3, <1>4, <2>2 DEF t
<1>5. CASE k # 0
  <2>1. PICK fl : Flattens(fl, s, k) /\ FlattenSeq(s) = fl[k]
    BY <1>1, <1>5, FlattenIs DEF k
  <2>2. k <= k + 1 /\ k + 1 \in Nat /\ k \in 1 .. k
    BY <1>1, <1>5
  <2>3. \A j \in 1 .. k : fl[j] = gl[j]
    <3>1. PICK l \in Nat : l = k + 1
      BY <2>2
    <3>2. Flattens(fl, s, k) /\ Flattens(gl, t, l) /\ k <= l /\ k \in Nat
      BY <1>1, <1>2, <2>1, <2>2, <3>1
    <3>3. Agree(s, t, k)
      BY <1>1 DEF Agree
    <3>4. Agree(fl, gl, k)
      BY <3>2, <3>3, FlattensAgree
    <3> QED
      BY <3>4 DEF Agree
  <2>4. fl[k] = gl[k]
    BY <2>2, <2>3
  <2>5. (k + 1) - 1 = k /\ k + 1 # 1
    BY <1>1, <1>5
  <2> QED
    BY <1>1, <1>2, <1>3, <2>1, <2>4, <2>5 DEF t
<1> QED
  BY <1>4, <1>5

(* Flattening keeps prefixes.                                               *)
LEMMA FlattenPrefix ==
  ASSUME NEW T, NEW p \in Seq(Seq(T)), NEW t \in Seq(Seq(T)), IsPrefix(p, t)
  PROVE  IsPrefix(FlattenSeq(p), FlattenSeq(t))
<1> DEFINE S == { s \in Seq(Seq(T)) :
                    IsPrefix(p, s) => IsPrefix(FlattenSeq(p), FlattenSeq(s)) }
<1>1. << >> \in S
  <2>1. << >> \in Seq(Seq(T)) /\ Len(<< >>) = 0
    BY EmptySeq
  <2>2. ASSUME IsPrefix(p, << >>) PROVE p = << >>
    <3>1. Len(p) <= 0
      BY <2>1, <2>2, PrefixPointwise
    <3> QED
      BY <3>1, EmptySeq, LenProperties
  <2>3. IsPrefix(FlattenSeq(<< >>), FlattenSeq(<< >>))
    BY <2>1, FlattenType, PrefixReflexive
  <2> QED
    BY <2>1, <2>2, <2>3
<1>2. ASSUME NEW s \in Seq(Seq(T)), NEW x \in Seq(T), s \in S
      PROVE  Append(s, x) \in S
  <2> DEFINE u == Append(s, x)
  <2>1. /\ u \in Seq(Seq(T)) /\ Len(u) = Len(s) + 1 /\ Len(s) \in Nat /\ Len(p) \in Nat
        /\ \A i \in 1 .. Len(s) : u[i] = s[i]
    BY AppendProperties, LenProperties
  <2>2. FlattenSeq(u) = FlattenSeq(s) \o x
    BY FlattenAppend
  <2> HIDE DEF u
  <2>3. FlattenSeq(s) \in Seq(T) /\ FlattenSeq(p) \in Seq(T) /\ FlattenSeq(u) \in Seq(T)
    BY <2>1, FlattenType
  <2>4. ASSUME IsPrefix(p, u)
        PROVE  IsPrefix(FlattenSeq(p), FlattenSeq(u))
    <3>1. Len(p) <= Len(u) /\ \A i \in 1 .. Len(p) : p[i] = u[i]
      BY <2>1, <2>4, PrefixPointwise
    <3>2. CASE Len(p) = Len(u)
      <4>1. p = u
        BY <2>1, <3>1, <3>2, SeqEqual
      <4> QED
        BY <2>3, <4>1, PrefixReflexive
    <3>3. CASE Len(p) # Len(u)
      <4>1. Len(p) <= Len(s) /\ \A i \in 1 .. Len(p) : p[i] = s[i]
        BY <2>1, <3>1, <3>3
      <4>2. IsPrefix(p, s)
        BY <4>1, PrefixPointwise
      <4>3. IsPrefix(FlattenSeq(p), FlattenSeq(s))
        BY <1>2, <4>2
      <4>4. IsPrefix(FlattenSeq(s), FlattenSeq(u))
        BY <2>2, <2>3, PrefixOfConcat
      <4> QED
        BY <2>3, <4>3, <4>4, PrefixTransitive
    <3> QED
      BY <3>2, <3>3
  <2> QED
    BY <2>1, <2>4 DEF u
<1>3. Seq(Seq(T)) \subseteq S
  <2> HIDE DEF S
  <2> QED
    BY <1>1, <1>2, SequenceInduction
<1> QED
  BY <1>3

(* The concatenation of nonempty pieces is at least as long as their number. *)
LEMMA FlattenLength ==
  ASSUME NEW T, NEW t \in Seq(Seq(T)), \A i \in 1 .. Len(t) : Len(t[i]) >= 1
  PROVE  Len(FlattenSeq(t)) >= Len(t)
<1> DEFINE S == { s \in Seq(Seq(T)) :
                    (\A i \in 1 .. Len(s) : Len(s[i]) >= 1) => Len(FlattenSeq(s)) >= Len(s) }
<1>1. << >> \in S
  BY EmptySeq, FlattenEmpty
<1>2. ASSUME NEW s \in Seq(Seq(T)), NEW x \in Seq(T), s \in S
      PROVE  Append(s, x) \in S
  <2> DEFINE u == Append(s, x)
  <2>1. /\ u \in Seq(Seq(T)) /\ Len(u) = Len(s) + 1 /\ Len(s) \in Nat /\ Len(x) \in Nat
        /\ u[Len(s) + 1] = x
        /\ \A i \in 1 .. Len(s) : u[i] = s[i]
    BY AppendProperties, LenProperties
  <2>2. FlattenSeq(u) = FlattenSeq(s) \o x /\ FlattenSeq(s) \in Seq(T)
    BY FlattenAppend, FlattenType
  <2> HIDE DEF u
  <2>3. Len(FlattenSeq(s)) \in Nat /\ Len(FlattenSeq(u)) = Len(FlattenSeq(s)) + Len(x)
    BY <2>2, ConcatProperties, LenProperties
  <2>4. ASSUME \A i \in 1 .. Len(u) : Len(u[i]) >= 1
        PROVE  Len(FlattenSeq(u)) >= Len(u)
    <3>1. Len(x) >= 1
      BY <2>1, <2>4
    <3>2. \A i \in 1 .. Len(s) : Len(s[i]) >= 1
      BY <2>1, <2>4
    <3>3. Len(FlattenSeq(s)) >= Len(s)
      BY <1>2, <3>2
    <3> QED
      BY <2>1, <2>3, <3>1, <3>3
  <2> QED
    BY <2>1, <2>4 DEF u
<1>3. Seq(Seq(T)) \subseteq S
  <2> HIDE DEF S
  <2> QED
    BY <1>1, <1>2, SequenceInduction
<1> QED
  BY <1>3
=============================================================================
