------------------------- MODULE MessageLayerProofs -------------------------
(***************************************************************************)
(* Proofs about MessageLayer: if the protocol code of the messages inside  *)
(* is correct, then so is that of the messages that hold them, whatever    *)
(* their fields.  First FlattenSeq and what a decoder reads of a sequence  *)
(* of entries, by induction over sequences; then the wire of a message,    *)
(* and the other wires of it; then reading, JSON and the samples.          *)
(***************************************************************************)
EXTENDS MessageLayer, FiniteSetTheorems, SequenceTheorems, TLAPS

-----------------------------------------------------------------------------
(* Induction over the numbers, by the pigeonhole principle: if m were the   *)
(* missing number, the successor would map the numbers up to m that are in  *)
(* S one to one to those of them that are not 0.                            *)
LEMMA NatSetInduction ==
    ASSUME NEW S, 0 \in S, \A k \in Nat : k \in S => k + 1 \in S
    PROVE  \A k \in Nat : k \in S
<1>1. SUFFICES ASSUME NEW m \in Nat, m \notin S
               PROVE  FALSE
  OBVIOUS
<1>. DEFINE F == S \cap (0..m)
            T == F \ {0}
            f == [x \in F |-> x + 1]
<1>2. IsFiniteSet(F) /\ IsFiniteSet(T)
  <2>1. IsFiniteSet(0..m)
    BY FS_Interval
  <2>. QED
    BY <2>1, FS_Subset
<1>3. 0 \in F /\ Cardinality(T) = Cardinality(F) - 1
  <2>1. 0 \in F
    OBVIOUS
  <2>. QED
    BY <1>2, <2>1, FS_RemoveElement
<1>4. Cardinality(F) \in Nat /\ Cardinality(T) \in Nat
  BY <1>2, FS_CardinalityType
<1>5. f \in [F -> T]
  <2>1. SUFFICES ASSUME NEW x \in F
                 PROVE  x + 1 \in T
    OBVIOUS
  <2>2. x # m /\ x \in Nat /\ x <= m
    BY <1>1
  <2>. QED
    BY <2>2
<1>6. \A x, y \in F : x # y => f[x] # f[y]
  OBVIOUS
<1>. HIDE DEF F, T, f
<1>7. PICK x, y \in F : x # y /\ f[x] = f[y]
  BY <1>2, <1>3, <1>4, <1>5, FS_PigeonHole
<1>. QED
  BY <1>6, <1>7

\* Induction over sequences that grow at their end.
LEMMA SeqSetInduction ==
    ASSUME NEW T, NEW P, <<>> \in P,
           \A s \in Seq(T), e \in T : s \in P => Append(s, e) \in P
    PROVE  \A s \in Seq(T) : s \in P
<1>. DEFINE S == {k \in Nat : \A s \in Seq(T) : Len(s) = k => s \in P}
<1>1. 0 \in S
  BY EmptySeq
<1>2. ASSUME NEW k \in Nat, k \in S
      PROVE  k + 1 \in S
  <2>1. SUFFICES ASSUME NEW s \in Seq(T), Len(s) = k + 1
                 PROVE  s \in P
    OBVIOUS
  <2>2. s # <<>>
    BY <2>1
  <2>3. PICK r \in Seq(T), e \in T : s = Append(r, e)
    BY <2>2, SequenceEmptyOrAppend
  <2>4. Len(r) = k
    BY <2>1, <2>3
  <2>. QED
    BY <1>2, <2>3, <2>4
<1>. HIDE DEF S
<1>3. \A k \in Nat : k \in S
  BY <1>1, <1>2, NatSetInduction
<1>. QED
  BY <1>3 DEF S

-----------------------------------------------------------------------------
(* FlattenSeq.  It is a recursive function: that there is one has to be     *)
(* shown before its equation can be used.                                   *)
Flattens(seqs, k, g) ==
  g = [i \in 1..k |-> IF i = 1 THEN seqs[i] ELSE g[i - 1] \o seqs[i]]

\* Sequences can be flattened one by one, up to any of them.
LEMMA FlattenExists ==
    ASSUME NEW seqs
    PROVE  \A k \in Nat : \E g : Flattens(seqs, k, g)
<1>. DEFINE S == {k \in Nat : \E g : Flattens(seqs, k, g)}
<1>1. 0 \in S
  <2>. DEFINE g == [i \in 1..0 |-> 0]
  <2>1. Flattens(seqs, 0, g)
    BY DEF Flattens
  <2>. QED
    BY <2>1
<1>2. ASSUME NEW k \in Nat, k \in S
      PROVE  k + 1 \in S
  <2>1. PICK f : Flattens(seqs, k, f)
    BY <1>2
  <2>. DEFINE g == [i \in 1..(k + 1) |->
                      IF i = k + 1 THEN IF i = 1 THEN seqs[i] ELSE f[k] \o seqs[i]
                      ELSE f[i]]
  <2>2. ASSUME NEW i \in 1..(k + 1)
        PROVE  g[i] = IF i = 1 THEN seqs[i] ELSE g[i - 1] \o seqs[i]
    <3>1. CASE i = k + 1
      <4>1. i # 1 => i - 1 = k /\ k \in 1..(k + 1) /\ k # k + 1
        BY <3>1
      <4>. QED
        BY <3>1, <4>1
    <3>2. CASE i # k + 1
      <4>1. i \in 1..k /\ g[i] = f[i]
        BY <3>2
      <4>2. f[i] = IF i = 1 THEN seqs[i] ELSE f[i - 1] \o seqs[i]
        BY <2>1, <4>1 DEF Flattens
      <4>3. i # 1 => i - 1 \in 1..(k + 1) /\ i - 1 # k + 1
        BY <4>1
      <4>. QED
        BY <4>1, <4>2, <4>3
    <3>. QED
      BY <3>1, <3>2
  <2>3. g = [i \in 1..(k + 1) |-> g[i]]
    OBVIOUS
  <2>. HIDE DEF g
  <2>4. Flattens(seqs, k + 1, g)
    BY <2>2, <2>3 DEF Flattens
  <2>. QED
    BY <2>4
<1>. HIDE DEF S
<1>3. \A k \in Nat : k \in S
  BY <1>1, <1>2, NatSetInduction
<1>. QED
  BY <1>3 DEF S

\* What FlattenSeq gives is the last step of such a flattening.
LEMMA FlattenRec ==
    ASSUME NEW seqs, Len(seqs) \in Nat, Len(seqs) # 0
    PROVE  \E g : /\ FlattenSeq(seqs) = g[Len(seqs)]
                  /\ g[1] = seqs[1]
                  /\ \A i \in 1..Len(seqs) : i # 1 => g[i] = g[i - 1] \o seqs[i]
<1>. DEFINE n == Len(seqs)
            g == CHOOSE g : Flattens(seqs, n, g)
<1>1. Flattens(seqs, n, g)
  BY FlattenExists
<1>2. FlattenSeq(seqs) = g[n]
  BY DEF FlattenSeq, Flattens
<1>. HIDE DEF g
<1>3. 1 \in 1..n
  OBVIOUS
<1>. HIDE DEF n
<1>4. g[1] = seqs[1]
  BY <1>1, <1>3 DEF Flattens
<1>5. ASSUME NEW i \in 1..n, i # 1
      PROVE  g[i] = g[i - 1] \o seqs[i]
  BY <1>1, <1>5 DEF Flattens
<1>. QED
  BY <1>2, <1>4, <1>5 DEF n

\* No sequences flatten to the empty one.
LEMMA FlattenEmpty == FlattenSeq(<<>>) = <<>>
BY DEF FlattenSeq

\* Flattening one more sequence appends it.
LEMMA FlattenAppend ==
    ASSUME NEW S, NEW ss \in Seq(Seq(S)), NEW x \in Seq(S)
    PROVE  /\ FlattenSeq(ss) \in Seq(S)
           /\ FlattenSeq(Append(ss, x)) = FlattenSeq(ss) \o x
<1>. DEFINE n == Len(ss)
            tt == Append(ss, x)
<1>1. /\ n \in Nat /\ tt \in Seq(Seq(S)) /\ Len(tt) = n + 1
      /\ tt[n + 1] = x /\ \A i \in 1..n : tt[i] = ss[i]
  BY AppendProperties
<1>. HIDE DEF n, tt
<1>2. PICK h : /\ FlattenSeq(tt) = h[n + 1]
               /\ h[1] = tt[1]
               /\ \A i \in 1..(n + 1) : i # 1 => h[i] = h[i - 1] \o tt[i]
  <2>1. Len(tt) \in Nat /\ Len(tt) # 0
    BY <1>1
  <2>2. \E h : /\ FlattenSeq(tt) = h[Len(tt)]
               /\ h[1] = tt[1]
               /\ \A i \in 1..Len(tt) : i # 1 => h[i] = h[i - 1] \o tt[i]
    BY <2>1, FlattenRec
  <2>. QED
    BY <1>1, <2>2
<1>3. CASE n = 0
  <2>1. ss = <<>>
    BY <1>3 DEF n
  <2>2. FlattenSeq(ss) = <<>>
    BY <2>1, FlattenEmpty
  <2>3. FlattenSeq(tt) = x
    BY <1>1, <1>2, <1>3
  <2>. QED
    BY <2>2, <2>3, ConcatEmptySeq, EmptySeq DEF tt
<1>4. CASE n # 0
  <2>1. PICK g : /\ FlattenSeq(ss) = g[n]
                 /\ g[1] = ss[1]
                 /\ \A i \in 1..n : i # 1 => g[i] = g[i - 1] \o ss[i]
    BY <1>1, <1>4, FlattenRec DEF n
  <2>. DEFINE P == {i \in Nat : i + 1 <= n => g[i + 1] \in Seq(S) /\ h[i + 1] = g[i + 1]}
  <2>2. 0 \in P
    BY <1>1, <1>2, <1>4, <2>1, ElementOfSeq DEF n
  <2>3. ASSUME NEW i \in Nat, i \in P
        PROVE  i + 1 \in P
    <3>1. SUFFICES ASSUME i + 2 <= n
                   PROVE  g[i + 2] \in Seq(S) /\ h[i + 2] = g[i + 2]
      OBVIOUS
    <3>2. g[i + 1] \in Seq(S) /\ h[i + 1] = g[i + 1]
      BY <2>3, <3>1, <1>1
    <3>3. /\ i + 2 \in 1..n /\ i + 2 \in 1..(n + 1) /\ i + 2 # 1 /\ (i + 2) - 1 = i + 1
      BY <3>1, <1>1
    <3>4. ss[i + 2] \in Seq(S) /\ tt[i + 2] = ss[i + 2]
      BY <1>1, <3>3, ElementOfSeq DEF n
    <3>5. g[i + 2] = g[i + 1] \o ss[i + 2] /\ h[i + 2] = h[i + 1] \o tt[i + 2]
      BY <1>2, <2>1, <3>3
    <3>. QED
      BY <3>2, <3>4, <3>5, ConcatProperties, SMTT(20)
  <2>. HIDE DEF P
  <2>4. \A i \in Nat : i \in P
    BY <2>2, <2>3, NatSetInduction
  <2>5. n - 1 \in Nat /\ (n - 1) + 1 = n
    BY <1>1, <1>4
  <2>6. g[n] \in Seq(S) /\ h[n] = g[n]
    <3>1. n - 1 \in P
      BY <2>4, <2>5
    <3>. QED
      BY <2>5, <3>1, <1>1 DEF P
  <2>7. h[n + 1] = h[n] \o tt[n + 1]
    <3>1. n + 1 \in 1..(n + 1) /\ n + 1 # 1 /\ (n + 1) - 1 = n
      BY <1>1, <1>4
    <3>. QED
      BY <1>2, <3>1
  <2>. QED
    BY <1>1, <1>2, <2>1, <2>6, <2>7 DEF tt
<1>. QED
  BY <1>1, <1>3, <1>4 DEF tt

\* What is flattened is a sequence of the same things.
LEMMA FlattenType ==
    ASSUME NEW S, NEW ss \in Seq(Seq(S))
    PROVE  FlattenSeq(ss) \in Seq(S)
BY FlattenAppend, EmptySeq

\* Flattening distributes over concatenation.
LEMMA FlattenConcat ==
    ASSUME NEW S, NEW ss \in Seq(Seq(S)), NEW tt \in Seq(Seq(S))
    PROVE  FlattenSeq(ss \o tt) = FlattenSeq(ss) \o FlattenSeq(tt)
<1>. DEFINE P == {t \in Seq(Seq(S)) : FlattenSeq(ss \o t) = FlattenSeq(ss) \o FlattenSeq(t)}
<1>1. <<>> \in P
  <2>1. <<>> \in Seq(Seq(S)) /\ ss \o <<>> = ss
    BY ConcatEmptySeq, EmptySeq
  <2>2. FlattenSeq(ss) \o <<>> = FlattenSeq(ss)
    BY FlattenType, ConcatEmptySeq
  <2>. QED
    BY <2>1, <2>2, FlattenEmpty
<1>2. ASSUME NEW t \in Seq(Seq(S)), NEW x \in Seq(S), t \in P
      PROVE  Append(t, x) \in P
  <2>1. ss \o t \in Seq(Seq(S)) /\ Append(t, x) \in Seq(Seq(S))
    BY ConcatProperties, AppendProperties
  <2>2. ss \o Append(t, x) = Append(ss \o t, x)
    <3>1. <<x>> \in Seq(Seq(S))
      OBVIOUS
    <3>2. Append(t, x) = t \o <<x>> /\ Append(ss \o t, x) = (ss \o t) \o <<x>>
      BY <2>1, AppendIsConcat
    <3>. QED
      BY <3>1, <3>2, ConcatAssociative
  <2>3. FlattenSeq(ss \o Append(t, x)) = (FlattenSeq(ss) \o FlattenSeq(t)) \o x
    <3>. DEFINE st == ss \o t
    <3>1. st \in Seq(Seq(S)) /\ FlattenSeq(st) = FlattenSeq(ss) \o FlattenSeq(t)
      BY <1>2, <2>1
    <3>. HIDE DEF st
    <3>2. FlattenSeq(Append(st, x)) = FlattenSeq(st) \o x
      BY <3>1, FlattenAppend
    <3>. QED
      BY <2>2, <3>1, <3>2 DEF st
  <2>4. FlattenSeq(Append(t, x)) = FlattenSeq(t) \o x
    BY FlattenAppend
  <2>5. (FlattenSeq(ss) \o FlattenSeq(t)) \o x = FlattenSeq(ss) \o (FlattenSeq(t) \o x)
    <3>. DEFINE a == FlattenSeq(ss)
                b == FlattenSeq(t)
    <3>1. a \in Seq(S) /\ b \in Seq(S)
      BY FlattenType
    <3>. HIDE DEF a, b
    <3>2. (a \o b) \o x = a \o (b \o x)
      BY <3>1, ConcatAssociative, SMTT(20)
    <3>. QED
      BY <3>2 DEF a, b
  <2>. QED
    BY <2>1, <2>3, <2>4, <2>5
<1>. HIDE DEF P
<1>3. tt \in P
  BY <1>1, <1>2, SeqSetInduction
<1>. QED
  BY <1>3 DEF P

\* One sequence flattens to itself.
LEMMA FlattenSingle ==
    ASSUME NEW S, NEW x \in Seq(S)
    PROVE  FlattenSeq(<<x>>) = x
<1>1. <<>> \in Seq(Seq(S)) /\ <<x>> = Append(<<>>, x)
  BY EmptySeq
<1>2. FlattenSeq(<<x>>) = FlattenSeq(<<>>) \o x
  BY <1>1, FlattenAppend
<1>. QED
  BY <1>2, FlattenEmpty, ConcatEmptySeq

\* Flattening sequences of which at most one is not empty gives that one.
LEMMA FlattenNone ==
    ASSUME NEW S, NEW ss \in Seq(Seq(S)), \A i \in 1..Len(ss) : ss[i] = <<>>
    PROVE  FlattenSeq(ss) = <<>>
<1>. DEFINE P == {t \in Seq(Seq(S)) :
                    (\A i \in 1..Len(t) : t[i] = <<>>) => FlattenSeq(t) = <<>>}
<1>1. <<>> \in P
  BY FlattenEmpty, EmptySeq
<1>2. ASSUME NEW t \in Seq(Seq(S)), NEW x \in Seq(S), t \in P
      PROVE  Append(t, x) \in P
  <2>. DEFINE u == Append(t, x)
  <2>1. /\ u \in Seq(Seq(S)) /\ Len(t) \in Nat /\ Len(u) = Len(t) + 1
        /\ u[Len(t) + 1] = x /\ \A i \in 1..Len(t) : u[i] = t[i]
    BY AppendProperties
  <2>2. FlattenSeq(u) = FlattenSeq(t) \o x
    BY FlattenAppend
  <2>. HIDE DEF u
  <2>3. SUFFICES ASSUME \A i \in 1..Len(u) : u[i] = <<>>
                 PROVE  FlattenSeq(u) = <<>>
    BY <2>1 DEF u
  <2>4. x = <<>> /\ \A i \in 1..Len(t) : t[i] = <<>>
    BY <2>1, <2>3
  <2>5. FlattenSeq(t) = <<>>
    BY <1>2, <2>4
  <2>. QED
    BY <2>2, <2>4, <2>5
<1>. HIDE DEF P
<1>3. ss \in P
  BY <1>1, <1>2, SeqSetInduction
<1>. QED
  BY <1>3 DEF P

\* If all sequences but one are empty, that one is left.
LEMMA FlattenOne ==
    ASSUME NEW S, NEW ss \in Seq(Seq(S)), NEW k \in 1..Len(ss),
           \A i \in 1..Len(ss) : i # k => ss[i] = <<>>
    PROVE  FlattenSeq(ss) = ss[k]
<1>. DEFINE P == {t \in Seq(Seq(S)) :
                    k <= Len(t) /\ (\A i \in 1..Len(t) : i # k => t[i] = <<>>)
                      => FlattenSeq(t) = t[k]}
<1>0. k \in Nat /\ k > 0 /\ Len(ss) \in Nat /\ k <= Len(ss)
  OBVIOUS
<1>1. <<>> \in P
  BY <1>0, EmptySeq
<1>2. ASSUME NEW t \in Seq(Seq(S)), NEW x \in Seq(S), t \in P
      PROVE  Append(t, x) \in P
  <2>. DEFINE u == Append(t, x)
  <2>1. /\ u \in Seq(Seq(S)) /\ Len(t) \in Nat /\ Len(u) = Len(t) + 1
        /\ u[Len(t) + 1] = x /\ \A i \in 1..Len(t) : u[i] = t[i]
    BY AppendProperties
  <2>2. FlattenSeq(u) = FlattenSeq(t) \o x /\ FlattenSeq(t) \in Seq(S)
    BY FlattenAppend
  <2>. HIDE DEF u
  <2>3. SUFFICES ASSUME k <= Len(u), \A i \in 1..Len(u) : i # k => u[i] = <<>>
                 PROVE  FlattenSeq(u) = u[k]
    BY <2>1 DEF u
  <2>4. CASE k = Len(t) + 1
    <3>1. ASSUME NEW i \in 1..Len(t)
          PROVE  t[i] = <<>>
      <4>1. i \in 1..Len(u) /\ i # k /\ u[i] = t[i]
        BY <2>1, <2>4
      <4>. QED
        BY <2>3, <4>1
    <3>2. FlattenSeq(t) = <<>>
      BY <3>1, FlattenNone
    <3>. QED
      BY <2>1, <2>2, <2>4, <3>2, ConcatEmptySeq
  <2>5. CASE k # Len(t) + 1
    <3>1. k <= Len(t) /\ k \in 1..Len(t) /\ u[k] = t[k]
      BY <1>0, <2>1, <2>3, <2>5
    <3>2. x = <<>>
      <4>1. Len(u) \in 1..Len(u) /\ Len(u) # k /\ u[Len(u)] = x
        BY <1>0, <2>1, <2>5
      <4>. QED
        BY <2>3, <4>1
    <3>4. ASSUME NEW i \in 1..Len(t), i # k
          PROVE  t[i] = <<>>
      <4>1. i \in 1..Len(u) /\ u[i] = t[i]
        BY <2>1
      <4>. QED
        BY <2>3, <3>4, <4>1
    <3>3. FlattenSeq(t) = t[k]
      BY <1>2, <3>1, <3>4
    <3>. QED
      BY <2>2, <3>1, <3>2, <3>3, ConcatEmptySeq
  <2>. QED
    BY <2>4, <2>5
<1>. HIDE DEF P
<1>3. ss \in P
  BY <1>1, <1>2, SeqSetInduction
<1>. QED
  BY <1>0, <1>3 DEF P

-----------------------------------------------------------------------------
(* What a decoder reads for a field.                                        *)
ValuesOf(E) == {e.val : e \in E}

Chosen(field, w) ==
  [i \in DOMAIN w |-> IF Matches(field, w[i]) THEN <<w[i].val>> ELSE <<>>]

\* A sequence of one value, or of none.
LEMMA OneOrNone ==
    ASSUME NEW S, NEW b \in BOOLEAN, NEW a \in S
    PROVE  (IF b THEN <<a>> ELSE <<>>) \in Seq(S)
OBVIOUS

\* Of each entry a decoder takes its value, or nothing.
LEMMA ChosenType ==
    ASSUME NEW field, NEW E, NEW w \in Seq(E)
    PROVE  /\ Chosen(field, w) \in Seq(Seq(ValuesOf(E)))
           /\ Len(Chosen(field, w)) = Len(w)
           /\ \A i \in 1..Len(w) :
                Chosen(field, w)[i] = IF Matches(field, w[i]) THEN <<w[i].val>> ELSE <<>>
<1>. DEFINE c == Chosen(field, w)
<1>1. Len(w) \in Nat /\ DOMAIN w = 1..Len(w)
  BY LenProperties
<1>2. /\ c = [i \in 1..Len(w) |-> c[i]]
      /\ \A i \in 1..Len(w) : c[i] = IF Matches(field, w[i]) THEN <<w[i].val>> ELSE <<>>
  BY <1>1 DEF Chosen
<1>. HIDE DEF c
<1>3. ASSUME NEW i \in 1..Len(w)
      PROVE  c[i] \in Seq(ValuesOf(E))
  <2>1. w[i] \in E
    BY ElementOfSeq
  <2>2. w[i].val \in ValuesOf(E)
    BY <2>1 DEF ValuesOf
  <2>3. (IF Matches(field, w[i]) THEN <<w[i].val>> ELSE <<>>) \in Seq(ValuesOf(E))
    BY <2>2, OneOrNone DEF Matches
  <2>. QED
    BY <1>2, <2>3
<1>4. c \in Seq(Seq(ValuesOf(E))) /\ Len(c) = Len(w)
  BY <1>1, <1>2, <1>3
<1>. QED
  BY <1>2, <1>4 DEF c

\* What a decoder reads are values of entries.
LEMMA ValuesOnType ==
    ASSUME NEW field, NEW E, NEW w \in Seq(E)
    PROVE  ValuesOn(field, w) \in Seq(ValuesOf(E))
<1>1. ValuesOn(field, w) = FlattenSeq(Chosen(field, w))
  BY DEF ValuesOn, Chosen
<1>. QED
  BY <1>1, ChosenType, FlattenType

\* Of no entries a decoder reads nothing.
LEMMA ValuesOnNothing ==
    ASSUME NEW field
    PROVE  ValuesOn(field, <<>>) = <<>>
<1>1. Chosen(field, <<>>) = <<>>
  BY DEF Chosen
<1>. QED
  BY <1>1, FlattenEmpty DEF ValuesOn, Chosen

\* Of one entry it reads the value, if the entry matches.
LEMMA ValuesOnOne ==
    ASSUME NEW field, NEW e
    PROVE  ValuesOn(field, <<e>>) = IF Matches(field, e) THEN <<e.val>> ELSE <<>>
<1>. DEFINE v == IF Matches(field, e) THEN <<e.val>> ELSE <<>>
<1>1. v \in Seq({e.val})
  BY OneOrNone DEF Matches
<1>2. Chosen(field, <<e>>) = <<v>>
  BY DEF Chosen
<1>. HIDE DEF v
<1>3. FlattenSeq(<<v>>) = v
  BY <1>1, FlattenSingle
<1>. QED
  BY <1>2, <1>3 DEF ValuesOn, Chosen, v

\* Of two pieces it reads what it reads of each.
LEMMA ValuesOnConcat ==
    ASSUME NEW field, NEW E, NEW w \in Seq(E), NEW x \in Seq(E)
    PROVE  ValuesOn(field, w \o x) = ValuesOn(field, w) \o ValuesOn(field, x)
<1>. DEFINE V == Seq(ValuesOf(E))
            cw == Chosen(field, w)
            cx == Chosen(field, x)
            c == Chosen(field, w \o x)
<1>1. /\ w \o x \in Seq(E) /\ Len(w \o x) = Len(w) + Len(x)
      /\ \A i \in 1..(Len(w) + Len(x)) :
           (w \o x)[i] = IF i <= Len(w) THEN w[i] ELSE x[i - Len(w)]
  BY ConcatProperties
<1>2. /\ cw \in Seq(V) /\ Len(cw) = Len(w)
      /\ cx \in Seq(V) /\ Len(cx) = Len(x)
      /\ c \in Seq(V) /\ Len(c) = Len(w) + Len(x)
  BY <1>1, ChosenType
<1>3. /\ cw \o cx \in Seq(V) /\ Len(cw \o cx) = Len(w) + Len(x)
      /\ \A i \in 1..(Len(w) + Len(x)) :
           (cw \o cx)[i] = IF i <= Len(w) THEN cw[i] ELSE cx[i - Len(w)]
  <2>. HIDE DEF cw, cx, V
  <2>1. /\ cw \o cx \in Seq(V) /\ Len(cw \o cx) = Len(cw) + Len(cx)
        /\ \A i \in 1..(Len(cw) + Len(cx)) :
             (cw \o cx)[i] = IF i <= Len(cw) THEN cw[i] ELSE cx[i - Len(cw)]
    BY <1>2, ConcatProperties
  <2>. QED
    BY ONLY <1>2, <2>1
<1>4. Len(w) \in Nat /\ Len(x) \in Nat
  BY LenProperties
<1>5. ASSUME NEW i \in 1..(Len(w) + Len(x))
      PROVE  c[i] = (cw \o cx)[i]
  <2>1. c[i] = IF Matches(field, (w \o x)[i]) THEN <<(w \o x)[i].val>> ELSE <<>>
    BY <1>1, ChosenType
  <2>2. CASE i <= Len(w)
    <3>1. i \in 1..Len(w)
      BY <1>4, <2>2
    <3>2. cw[i] = IF Matches(field, w[i]) THEN <<w[i].val>> ELSE <<>>
      BY <3>1, ChosenType
    <3>3. (w \o x)[i] = w[i] /\ (cw \o cx)[i] = cw[i]
      BY <1>1, <1>3, <2>2
    <3>. QED
      BY <2>1, <3>2, <3>3
  <2>3. CASE ~(i <= Len(w))
    <3>1. i - Len(w) \in 1..Len(x)
      BY <1>4, <2>3
    <3>2. cx[i - Len(w)] = IF Matches(field, x[i - Len(w)]) THEN <<x[i - Len(w)].val>>
                           ELSE <<>>
      BY <3>1, ChosenType
    <3>3. (w \o x)[i] = x[i - Len(w)] /\ (cw \o cx)[i] = cx[i - Len(w)]
      BY <1>1, <1>3, <2>3
    <3>. QED
      BY <2>1, <3>2, <3>3
  <2>. QED
    BY <2>2, <2>3
<1>. HIDE DEF cw, cx, c, V
<1>6. c = cw \o cx
  BY <1>2, <1>3, <1>5, SeqEqual
<1>7. FlattenSeq(cw \o cx) = FlattenSeq(cw) \o FlattenSeq(cx)
  BY <1>2, FlattenConcat DEF V
<1>8. /\ ValuesOn(field, w \o x) = FlattenSeq(c)
      /\ ValuesOn(field, w) = FlattenSeq(cw) /\ ValuesOn(field, x) = FlattenSeq(cx)
  BY DEF ValuesOn, Chosen, c, cw, cx
<1>. QED
  BY <1>6, <1>7, <1>8

\* Of several pieces a decoder reads what it reads of each.
LEMMA ValuesOnPieces ==
    ASSUME NEW field, NEW E, NEW ss \in Seq(Seq(E))
    PROVE  /\ ValuesOn(field, FlattenSeq(ss))
                = FlattenSeq([i \in 1..Len(ss) |-> ValuesOn(field, ss[i])])
           /\ [i \in 1..Len(ss) |-> ValuesOn(field, ss[i])] \in Seq(Seq(ValuesOf(E)))
<1>. DEFINE read(t) == [i \in 1..Len(t) |-> ValuesOn(field, t[i])]
            V == Seq(ValuesOf(E))
            P == {t \in Seq(Seq(E)) : ValuesOn(field, FlattenSeq(t)) = FlattenSeq(read(t))}
<1>1. ASSUME NEW t \in Seq(Seq(E))
      PROVE  read(t) \in Seq(V) /\ Len(read(t)) = Len(t)
  <2>1. ASSUME NEW i \in 1..Len(t)
        PROVE  ValuesOn(field, t[i]) \in V
    BY ElementOfSeq, ValuesOnType
  <2>2. Len(t) \in Nat
    BY LenProperties
  <2>. HIDE DEF V
  <2>. QED
    BY <2>1, <2>2
<1>2. <<>> \in P
  <2>1. read(<<>>) = <<>> /\ <<>> \in Seq(Seq(E))
    BY EmptySeq
  <2>. QED
    BY <2>1, FlattenEmpty, ValuesOnNothing
<1>3. ASSUME NEW t \in Seq(Seq(E)), NEW x \in Seq(E), t \in P
      PROVE  Append(t, x) \in P
  <2>. DEFINE u == Append(t, x)
              y == ValuesOn(field, x)
  <2>1. /\ u \in Seq(Seq(E)) /\ Len(t) \in Nat /\ Len(u) = Len(t) + 1
        /\ u[Len(t) + 1] = x /\ \A i \in 1..Len(t) : u[i] = t[i]
    BY AppendProperties
  <2>2. FlattenSeq(u) = FlattenSeq(t) \o x /\ FlattenSeq(t) \in Seq(E)
    BY FlattenAppend
  <2>3. ValuesOn(field, FlattenSeq(u)) = ValuesOn(field, FlattenSeq(t)) \o y
    BY <2>2, ValuesOnConcat
  <2>4. read(t) \in Seq(V) /\ y \in V /\ Len(read(t)) = Len(t)
    BY <1>1, ValuesOnType
  <2>5. read(u) \in Seq(V) /\ Len(read(u)) = Len(t) + 1
    BY <1>1, <2>1
  <2>6. /\ Append(read(t), y) \in Seq(V) /\ Len(Append(read(t), y)) = Len(t) + 1
        /\ Append(read(t), y)[Len(t) + 1] = y
        /\ \A i \in 1..Len(t) : Append(read(t), y)[i] = read(t)[i]
    BY <2>4, AppendProperties
  <2>7. ASSUME NEW i \in 1..(Len(t) + 1)
        PROVE  read(u)[i] = Append(read(t), y)[i]
    <3>1. read(u)[i] = ValuesOn(field, u[i])
      BY <2>1
    <3>2. CASE i = Len(t) + 1
      BY <2>1, <2>6, <3>1, <3>2
    <3>3. CASE i # Len(t) + 1
      <4>1. i \in 1..Len(t)
        BY <2>1, <3>3
      <4>. QED
        BY <2>1, <2>6, <3>1, <4>1
    <3>. QED
      BY <3>2, <3>3
  <2>8. read(u) = Append(read(t), y)
    <3>. HIDE DEF read, y, u, V
    <3>. QED
      BY <2>5, <2>6, <2>7, SeqEqual
  <2>9. FlattenSeq(Append(read(t), y)) = FlattenSeq(read(t)) \o y
    <3>. HIDE DEF read, y
    <3>. QED
      BY <2>4, FlattenAppend
  <2>10. ValuesOn(field, FlattenSeq(t)) = FlattenSeq(read(t))
    BY <1>3
  <2>. HIDE DEF read, y, V
  <2>. QED
    BY <2>1, <2>3, <2>8, <2>9, <2>10
<1>. HIDE DEF P
<1>4. ss \in P
  BY <1>2, <1>3, SeqSetInduction
<1>. QED
  BY <1>1, <1>4 DEF P

\* Flattening sequences of one value each gives the sequence of the values.
LEMMA FlattenUnits ==
    ASSUME NEW V, NEW vs \in Seq(V)
    PROVE  FlattenSeq([i \in 1..Len(vs) |-> <<vs[i]>>]) = vs
<1>. DEFINE units(t) == [i \in 1..Len(t) |-> <<t[i]>>]
            P == {t \in Seq(V) : FlattenSeq(units(t)) = t}
<1>1. ASSUME NEW t \in Seq(V)
      PROVE  units(t) \in Seq(Seq(V)) /\ Len(units(t)) = Len(t)
  <2>1. Len(t) \in Nat /\ \A i \in 1..Len(t) : <<t[i]>> \in Seq(V)
    BY LenProperties, ElementOfSeq
  <2>. QED
    BY <2>1
<1>2. <<>> \in P
  <2>1. units(<<>>) = <<>> /\ <<>> \in Seq(V)
    BY EmptySeq
  <2>. QED
    BY <2>1, FlattenEmpty
<1>3. ASSUME NEW t \in Seq(V), NEW x \in V, t \in P
      PROVE  Append(t, x) \in P
  <2>. DEFINE u == Append(t, x)
              a == Append(units(t), <<x>>)
  <2>1. /\ u \in Seq(V) /\ Len(t) \in Nat /\ Len(u) = Len(t) + 1
        /\ u[Len(t) + 1] = x /\ \A i \in 1..Len(t) : u[i] = t[i]
    BY AppendProperties
  <2>2. units(t) \in Seq(Seq(V)) /\ Len(units(t)) = Len(t) /\ <<x>> \in Seq(V)
    BY <1>1
  <2>3. units(u) \in Seq(Seq(V)) /\ Len(units(u)) = Len(t) + 1
    BY <1>1, <2>1
  <2>4. /\ a \in Seq(Seq(V)) /\ Len(a) = Len(t) + 1 /\ a[Len(t) + 1] = <<x>>
        /\ \A i \in 1..Len(t) : a[i] = units(t)[i]
    <3>. HIDE DEF units
    <3>. QED
      BY <2>2, AppendProperties
  <2>5. ASSUME NEW i \in 1..(Len(t) + 1)
        PROVE  units(u)[i] = a[i]
    <3>1. units(u)[i] = <<u[i]>>
      BY <2>1
    <3>2. CASE i = Len(t) + 1
      BY <2>1, <2>4, <3>1, <3>2
    <3>3. CASE i # Len(t) + 1
      <4>1. i \in 1..Len(t)
        BY <2>1, <3>3
      <4>2. a[i] = <<t[i]>>
        BY <2>4, <4>1
      <4>. QED
        BY <2>1, <3>1, <4>1, <4>2
    <3>. QED
      BY <3>2, <3>3
  <2>6. FlattenSeq(a) = FlattenSeq(units(t)) \o <<x>>
    <3>. HIDE DEF units
    <3>. QED
      BY <2>2, FlattenAppend
  <2>7. FlattenSeq(units(t)) = t
    BY <1>3
  <2>8. units(u) = a
    <3>. HIDE DEF units, a, u
    <3>. QED
      BY <2>3, <2>4, <2>5, SeqEqual
  <2>. HIDE DEF units, a
  <2>. QED
    BY <2>1, <2>6, <2>7, <2>8, AppendIsConcat
<1>. HIDE DEF P
<1>4. vs \in P
  BY <1>2, <1>3, SeqSetInduction
<1>. QED
  BY <1>4 DEF P

\* A decoder reads the values that were written under its own field, and
\* nothing of those written under another number.
LEMMA EntriesRead ==
    ASSUME NEW field, NEW g, NEW V, NEW vs \in Seq(V),
           field = g \/ field.no # g.no
    PROVE  ValuesOn(field, Entries(g, vs)) = IF field = g THEN vs ELSE <<>>
<1>. DEFINE c == Chosen(field, Entries(g, vs))
            u == [i \in 1..Len(vs) |-> <<vs[i]>>]
<1>1. Len(vs) \in Nat /\ DOMAIN vs = 1..Len(vs)
  BY LenProperties
<1>2. ValuesOn(field, Entries(g, vs)) = FlattenSeq(c)
  BY DEF ValuesOn, Chosen
<1>3. c = [i \in 1..Len(vs) |->
             IF field.no = g.no /\ WireType(field) = WireType(g) THEN <<vs[i]>> ELSE <<>>]
  BY <1>1 DEF Chosen, Entries, Matches
<1>4. CASE field = g
  <2>1. c = u
    BY <1>3, <1>4
  <2>. QED
    BY <1>2, <1>4, <2>1, FlattenUnits
<1>5. CASE field # g
  <2>1. c = [i \in 1..Len(vs) |-> <<>>]
    BY <1>3, <1>5
  <2>2. <<>> \in Seq({0})
    BY EmptySeq
  <2>. HIDE DEF c
  <2>3. c \in Seq(Seq({0})) /\ \A i \in 1..Len(c) : c[i] = <<>>
    BY <1>1, <2>1, <2>2
  <2>4. FlattenSeq(c) = <<>>
    BY <2>3, FlattenNone
  <2>. QED
    BY <1>2, <1>5, <2>4
<1>. QED
  BY <1>4, <1>5

-----------------------------------------------------------------------------
(* The fields of a message have different numbers.                          *)
IsTable(name) ==
  /\ LastField \in Nat
  /\ \A f \in DOMAIN Messages[name] :
       /\ Messages[name][f].no \in 1..LastField
       /\ Messages[name][f].kind \in {"string", "bool", "int32", "int64", "message"}
       /\ Messages[name][f].many \in BOOLEAN
       /\ \A g \in DOMAIN Messages[name] :
            Messages[name][f].no = Messages[name][g].no => f = g

\* The entries an encoder writes.
EntriesOf(name, written) ==
  UNION {{[no |-> Messages[name][f].no, wt |-> WireType(Messages[name][f]),
           val |-> written[f][i]] : i \in 1..Len(written[f])} : f \in DOMAIN Messages[name]}

\* The entries of a field are among those of its message.
LEMMA EntriesType ==
    ASSUME NEW name, NEW written, NEW V, NEW f \in DOMAIN Messages[name],
           written[f] \in Seq(V)
    PROVE  Entries(Messages[name][f], written[f]) \in Seq(EntriesOf(name, written))
<1>. DEFINE vs == written[f]
            E == EntriesOf(name, written)
            e(i) == [no |-> Messages[name][f].no, wt |-> WireType(Messages[name][f]),
                     val |-> vs[i]]
<1>1. Len(vs) \in Nat /\ DOMAIN vs = 1..Len(vs)
  BY LenProperties
<1>2. ASSUME NEW i \in 1..Len(vs)
      PROVE  e(i) \in E
  BY DEF EntriesOf
<1>3. Entries(Messages[name][f], vs) = [i \in 1..Len(vs) |-> e(i)]
  BY <1>1 DEF Entries
<1>. HIDE DEF E, e, vs
<1>4. [i \in 1..Len(vs) |-> e(i)] \in Seq(E)
  BY <1>1, <1>2
<1>. QED
  BY <1>3, <1>4 DEF E, vs

\* What is read of a field is what was written for it.
LEMMA WireRead ==
    ASSUME NEW name, IsTable(name), NEW V, NEW written,
           \A f \in DOMAIN Messages[name] : written[f] \in Seq(V)
    PROVE  /\ Wire(name, written) \in Seq(EntriesOf(name, written))
           /\ \A f \in DOMAIN Messages[name] :
                ValuesOn(Messages[name][f], Wire(name, written)) = written[f]
<1>. DEFINE F == DOMAIN Messages[name]
            E == EntriesOf(name, written)
            piece(n) == IF Numbered(name, n) = {} THEN <<>>
                        ELSE LET f == CHOOSE f \in Numbered(name, n) : TRUE
                             IN  Entries(Messages[name][f], written[f])
            ss == [n \in 1..LastField |-> piece(n)]
<1>1. Wire(name, written) = FlattenSeq(ss)
  BY DEF Wire
<1>2. ASSUME NEW n \in 1..LastField
      PROVE  \/ Numbered(name, n) = {} /\ piece(n) = <<>>
             \/ \E f \in F : /\ Messages[name][f].no = n
                             /\ piece(n) = Entries(Messages[name][f], written[f])
  <2>1. CASE Numbered(name, n) = {}
    BY <2>1
  <2>2. CASE Numbered(name, n) # {}
    <3>. DEFINE f == CHOOSE f \in Numbered(name, n) : TRUE
    <3>1. f \in Numbered(name, n)
      BY <2>2
    <3>2. piece(n) = Entries(Messages[name][f], written[f])
      BY <2>2
    <3>3. f \in F /\ Messages[name][f].no = n
      BY <3>1 DEF Numbered
    <3>. HIDE DEF f, piece
    <3>. QED
      BY <3>2, <3>3
  <2>. QED
    BY <2>1, <2>2
<1>3. \A n \in 1..LastField : ss[n] = piece(n)
  OBVIOUS
<1>4. LastField \in Nat
  BY DEF IsTable
<1>5. ss = [n \in 1..LastField |-> ss[n]]
  OBVIOUS
<1>. HIDE DEF piece, ss
<1>6. \A n \in 1..LastField : ss[n] \in Seq(E)
  <2>1. TAKE n \in 1..LastField
  <2>2. CASE piece(n) = <<>>
    BY <1>3, <2>2, EmptySeq
  <2>3. CASE \E f \in F : piece(n) = Entries(Messages[name][f], written[f])
    BY <1>3, <2>3, EntriesType
  <2>. QED
    BY <1>2, <2>2, <2>3
<1>7. ss \in Seq(Seq(E)) /\ Len(ss) = LastField
  <2>. HIDE DEF E
  <2>. QED
    BY <1>4, <1>5, <1>6
<1>8. ASSUME NEW f \in F
      PROVE  ValuesOn(Messages[name][f], FlattenSeq(ss)) = written[f]
  <2>. DEFINE field == Messages[name][f]
              k == field.no
              r == [n \in 1..Len(ss) |-> ValuesOn(field, ss[n])]
  <2>1. /\ ValuesOn(field, FlattenSeq(ss)) = FlattenSeq(r)
        /\ r \in Seq(Seq(ValuesOf(E)))
    <3>. HIDE DEF E
    <3>. QED
      BY <1>7, ValuesOnPieces
  <2>2. k \in 1..LastField
    BY DEF IsTable
  <2>3. ASSUME NEW n \in 1..LastField
        PROVE  r[n] = IF n = k THEN written[f] ELSE <<>>
    <3>1. r[n] = ValuesOn(field, ss[n])
      BY <1>7
    <3>2. CASE Numbered(name, n) = {} /\ ss[n] = <<>>
      <4>1. n # k
        BY <3>2 DEF Numbered
      <4>. QED
        BY <3>1, <3>2, <4>1, ValuesOnNothing
    <3>3. CASE \E g \in F : /\ Messages[name][g].no = n
                           /\ ss[n] = Entries(Messages[name][g], written[g])
      <4>1. PICK g \in F : /\ Messages[name][g].no = n
                           /\ ss[n] = Entries(Messages[name][g], written[g])
        BY <3>3
      <4>2. CASE n = k
        <5>1. g = f
          BY <4>1, <4>2 DEF IsTable
        <5>2. ValuesOn(field, Entries(field, written[f])) = written[f]
          BY EntriesRead
        <5>. QED
          BY <3>1, <4>1, <4>2, <5>1, <5>2
      <4>3. CASE n # k
        <5>1. field # Messages[name][g] /\ field.no # Messages[name][g].no
          BY <4>1, <4>3
        <5>2. written[g] \in Seq(V)
          OBVIOUS
        <5>. HIDE DEF field
        <5>3. ValuesOn(field, Entries(Messages[name][g], written[g])) = <<>>
          BY <5>1, <5>2, EntriesRead
        <5>. QED
          BY <3>1, <4>1, <4>3, <5>3
      <4>. QED
        BY <4>2, <4>3
    <3>. QED
      BY <1>2, <1>3, <3>2, <3>3
  <2>4. Len(r) = LastField
    BY <1>4, <1>7
  <2>. HIDE DEF r, k
  <2>5. FlattenSeq(r) = r[k]
    BY <2>1, <2>2, <2>3, <2>4, FlattenOne
  <2>. QED
    BY <2>1, <2>2, <2>3, <2>5
<1>9. FlattenSeq(ss) \in Seq(E)
  <2>. HIDE DEF E
  <2>. QED
    BY <1>7, FlattenType
<1>. QED
  BY <1>1, <1>8, <1>9

-----------------------------------------------------------------------------
(* What other writers send.                                                 *)
\* Sequences that agree in a range have the same part there.
LEMMA SubSeqAgree ==
    ASSUME NEW E, NEW w \in Seq(E), NEW u \in Seq(E), NEW m \in Int, NEW n \in Int,
           1 <= m, n <= Len(w), n <= Len(u), \A j \in m..n : w[j] = u[j]
    PROVE  SubSeq(w, m, n) = SubSeq(u, m, n) /\ SubSeq(w, m, n) \in Seq(E)
<1>1. \A j \in m..n : w[j] \in E /\ u[j] \in E
  BY ElementOfSeq
<1>2. /\ SubSeq(w, m, n) \in Seq(E) /\ SubSeq(u, m, n) \in Seq(E)
      /\ Len(SubSeq(w, m, n)) = IF m <= n THEN n - m + 1 ELSE 0
      /\ Len(SubSeq(u, m, n)) = IF m <= n THEN n - m + 1 ELSE 0
      /\ \A i \in 1..(n - m + 1) : /\ SubSeq(w, m, n)[i] = w[m + i - 1]
                                 /\ SubSeq(u, m, n)[i] = u[m + i - 1]
  BY <1>1, SubSeqProperties
<1>3. ASSUME NEW i \in 1..Len(SubSeq(w, m, n))
      PROVE  SubSeq(w, m, n)[i] = SubSeq(u, m, n)[i]
  <2>1. m <= n /\ i \in 1..(n - m + 1)
    BY <1>2
  <2>2. m + i - 1 \in m..n
    BY <2>1
  <2>. QED
    BY <1>2, <2>1, <2>2
<1>. QED
  BY <1>2, <1>3, SeqEqual

\* A sequence around one of its members.
LEMMA SplitAt ==
    ASSUME NEW E, NEW w \in Seq(E), NEW i \in 1..Len(w)
    PROVE  /\ w = SubSeq(w, 1, i - 1) \o (<<w[i]>> \o SubSeq(w, i + 1, Len(w)))
           /\ SubSeq(w, 1, i - 1) \in Seq(E) /\ SubSeq(w, i + 1, Len(w)) \in Seq(E)
           /\ <<w[i]>> \in Seq(E)
<1>. DEFINE n == Len(w)
<1>1. n \in Nat /\ i \in Nat /\ 1 <= i /\ i <= n
  BY LenProperties
<1>2. SubSeq(w, 1, n) = w
  BY SubSeqFull
<1>3. SubSeq(w, 1, i - 1) \o SubSeq(w, (i - 1) + 1, n) = SubSeq(w, 1, n)
  <2>1. 1 \in 1..(n + 1) /\ i - 1 \in (1 - 1)..n /\ n \in (i - 1)..n
    BY <1>1
  <2>. QED
    BY <2>1, ConcatAdjacentSubSeq
<1>4. SubSeq(w, i, n) = <<w[i]>> \o SubSeq(w, i + 1, n)
  <2>1. n \in i..n
    BY <1>1
  <2>. QED
    BY <2>1, SubSeqRecursiveFirst
<1>5. (i - 1) + 1 = i
  BY <1>1
<1>6. SubSeq(w, 1, i - 1) \in Seq(E) /\ SubSeq(w, i + 1, n) \in Seq(E)
  BY <1>1, SubSeqAgree
<1>7. <<w[i]>> \in Seq(E)
  BY ElementOfSeq
<1>. QED
  BY <1>2, <1>3, <1>4, <1>5, <1>6, <1>7

\* An entry that does not match can be added anywhere.
LEMMA InsertRead ==
    ASSUME NEW field, NEW E, NEW w \in Seq(E), NEW e \in E, ~Matches(field, e),
           NEW i \in {1, Len(w) + 1}
    PROVE  ValuesOn(field, InsertAt(w, i, e)) = ValuesOn(field, w)
<1>1. Len(w) \in Nat /\ <<e>> \in Seq(E)
  BY LenProperties
<1>2. ValuesOn(field, <<e>>) = <<>> /\ ValuesOn(field, w) \in Seq(ValuesOf(E))
  BY ValuesOnOne, ValuesOnType
<1>3. SubSeq(w, 1, Len(w)) = w
  BY SubSeqFull
<1>4. SubSeq(w, 1, 0) = <<>> /\ SubSeq(w, Len(w) + 1, Len(w)) = <<>>
  BY <1>1, SubSeqEmpty
<1>5. CASE i = 1
  <2>1. InsertAt(w, i, e) = (<<>> \o <<e>>) \o w
    BY <1>3, <1>4, <1>5 DEF InsertAt
  <2>2. (<<>> \o <<e>>) \o w = <<e>> \o w
    BY <1>1, ConcatEmptySeq
  <2>3. ValuesOn(field, <<e>> \o w) = ValuesOn(field, <<e>>) \o ValuesOn(field, w)
    BY <1>1, ValuesOnConcat
  <2>. QED
    BY <1>2, <2>1, <2>2, <2>3, ConcatEmptySeq
<1>6. CASE i = Len(w) + 1
  <2>0. i - 1 = Len(w)
    BY <1>1, <1>6
  <2>1. InsertAt(w, i, e) = (w \o <<e>>) \o <<>>
    BY <1>3, <1>4, <1>6, <2>0 DEF InsertAt
  <2>2. w \o <<e>> \in Seq(E)
    BY <1>1, ConcatProperties
  <2>3. (w \o <<e>>) \o <<>> = w \o <<e>>
    BY <2>2, ConcatEmptySeq
  <2>4. ValuesOn(field, w \o <<e>>) = ValuesOn(field, w) \o ValuesOn(field, <<e>>)
    BY <1>1, ValuesOnConcat
  <2>. QED
    BY <1>2, <2>1, <2>3, <2>4, ConcatEmptySeq
<1>. QED
  BY <1>5, <1>6

\* Two neighbours with different numbers can change places.
LEMMA SwapRead ==
    ASSUME NEW field, NEW E, NEW w \in Seq(E), NEW i \in 1..(Len(w) - 1),
           w[i].no # w[i + 1].no
    PROVE  ValuesOn(field, Swapped(w, i)) = ValuesOn(field, w)
<1>. DEFINE n == Len(w)
            u == Swapped(w, i)
            a == SubSeq(w, 1, i - 1)
            c == SubSeq(w, i + 2, n)
            p == <<w[i]>>
            q == <<w[i + 1]>>
            v(x) == ValuesOn(field, x)
<1>1. n \in Nat /\ i \in Nat /\ i \in 1..n /\ i + 1 \in 1..n /\ DOMAIN w = 1..n
  BY LenProperties
<1>2. /\ u \in Seq(E) /\ Len(u) = n /\ u[i] = w[i + 1] /\ u[i + 1] = w[i]
      /\ \A j \in 1..n : j # i /\ j # i + 1 => u[j] = w[j]
  <2>1. w[i] \in E /\ w[i + 1] \in E
    BY <1>1, ElementOfSeq
  <2>. DEFINE x == [w EXCEPT ![i] = w[i + 1]]
  <2>2. /\ x \in Seq(E) /\ Len(x) = n
        /\ \A j \in 1..n : x[j] = IF j = i THEN w[i + 1] ELSE w[j]
    BY <1>1, <2>1, ExceptSeq
  <2>3. u = [x EXCEPT ![i + 1] = w[i]]
    BY DEF Swapped
  <2>. HIDE DEF x, u
  <2>4. /\ u \in Seq(E) /\ Len(u) = n
        /\ \A j \in 1..n : u[j] = IF j = i + 1 THEN w[i] ELSE x[j]
    BY <1>1, <2>1, <2>2, <2>3, ExceptSeq
  <2>5. i # i + 1
    BY <1>1
  <2>. QED
    BY <1>1, <2>2, <2>4, <2>5
<1>. HIDE DEF n, u
<1>3. ASSUME NEW x \in Seq(E), Len(x) = n
      PROVE  /\ x = SubSeq(x, 1, i - 1) \o (<<x[i]>> \o (<<x[i + 1]>> \o SubSeq(x, i + 2, n)))
             /\ SubSeq(x, 1, i - 1) \in Seq(E) /\ <<x[i]>> \in Seq(E)
             /\ <<x[i + 1]>> \in Seq(E) /\ SubSeq(x, i + 2, n) \in Seq(E)
  <2>1. /\ x = SubSeq(x, 1, i - 1) \o (<<x[i]>> \o SubSeq(x, i + 1, n))
        /\ SubSeq(x, 1, i - 1) \in Seq(E) /\ <<x[i]>> \in Seq(E)
    BY <1>1, <1>3, SplitAt
  <2>2. SubSeq(x, i + 1, n) = <<x[i + 1]>> \o SubSeq(x, (i + 1) + 1, n)
    <3>1. i + 1 \in 1..Len(x) /\ n \in (i + 1)..Len(x)
      BY <1>1, <1>3
    <3>. QED
      BY <3>1, SubSeqRecursiveFirst
  <2>3. (i + 1) + 1 = i + 2
    BY <1>1
  <2>4. SubSeq(x, (i + 1) + 1, n) \in Seq(E) /\ <<x[i + 1]>> \in Seq(E)
    BY <1>1, <1>3, SplitAt
  <2>. QED
    BY <2>1, <2>2, <2>3, <2>4
<1>4. SubSeq(u, 1, i - 1) = a /\ SubSeq(u, i + 2, n) = c
  <2>1. \A j \in 1..(i - 1) : w[j] = u[j]
    BY <1>1, <1>2
  <2>2. \A j \in (i + 2)..n : w[j] = u[j]
    BY <1>1, <1>2
  <2>3. SubSeq(w, 1, i - 1) = SubSeq(u, 1, i - 1)
    BY <1>1, <1>2, <2>1, SubSeqAgree DEF n
  <2>4. SubSeq(w, i + 2, n) = SubSeq(u, i + 2, n)
    BY <1>1, <1>2, <2>2, SubSeqAgree DEF n
  <2>. QED
    BY <2>3, <2>4
<1>5. /\ w = a \o (p \o (q \o c))
      /\ a \in Seq(E) /\ p \in Seq(E) /\ q \in Seq(E) /\ c \in Seq(E)
  BY <1>3 DEF n
<1>6. u = a \o (q \o (p \o c))
  BY <1>2, <1>3, <1>4
<1>7. v(p) = <<>> \/ v(q) = <<>>
  BY ValuesOnOne DEF Matches
<1>. DEFINE qc == q \o c
            pc == p \o c
            pqc == p \o qc
            qpc == q \o pc
<1>8. qc \in Seq(E) /\ pc \in Seq(E)
  BY <1>5, ConcatProperties
<1>9. w = a \o pqc /\ u = a \o qpc
  BY <1>5, <1>6
<1>. HIDE DEF a, c, p, q
<1>10. v(qc) = v(q) \o v(c) /\ v(pc) = v(p) \o v(c)
  <2>1. v(qc) = v(q) \o v(c)
    BY <1>5, ValuesOnConcat, ZenonT(40)
  <2>2. v(pc) = v(p) \o v(c)
    BY <1>5, ValuesOnConcat, ZenonT(40)
  <2>. QED
    BY <2>1, <2>2
<1>. HIDE DEF qc, pc
<1>11. pqc \in Seq(E) /\ qpc \in Seq(E)
  BY <1>5, <1>8, ConcatProperties
<1>12. v(pqc) = v(p) \o v(qc) /\ v(qpc) = v(q) \o v(pc)
  <2>1. v(pqc) = v(p) \o v(qc)
    BY <1>5, <1>8, ValuesOnConcat, ZenonT(40)
  <2>2. v(qpc) = v(q) \o v(pc)
    BY <1>5, <1>8, ValuesOnConcat, ZenonT(40)
  <2>. QED
    BY <2>1, <2>2
<1>. HIDE DEF pqc, qpc
<1>13. v(w) = v(a) \o v(pqc) /\ v(u) = v(a) \o v(qpc)
  <2>1. v(a \o pqc) = v(a) \o v(pqc)
    BY <1>5, <1>11, ValuesOnConcat, ZenonT(40)
  <2>2. v(a \o qpc) = v(a) \o v(qpc)
    BY <1>5, <1>11, ValuesOnConcat, ZenonT(40)
  <2>. QED
    BY <1>9, <2>1, <2>2
<1>14. /\ v(c) \in Seq(ValuesOf(E)) /\ v(qc) \in Seq(ValuesOf(E))
       /\ v(pc) \in Seq(ValuesOf(E))
  BY <1>5, <1>8, ValuesOnType
<1>15. v(pqc) = v(qpc)
  <2>. HIDE DEF v
  <2>1. /\ <<>> \o v(c) = v(c) /\ <<>> \o v(qc) = v(qc) /\ <<>> \o v(pc) = v(pc)
    BY <1>14, ConcatEmptySeq
  <2>. QED
    BY <1>7, <1>10, <1>12, <2>1
<1>. QED
  BY <1>13, <1>15 DEF u

\* Changing one value changes what is read of its field at one place.
LEMMA ReplaceRead ==
    ASSUME NEW field, NEW E, NEW w \in Seq(E), NEW i \in 1..Len(w), NEW e \in E,
           e.no = w[i].no, e.wt = w[i].wt
    PROVE  /\ ~Matches(field, w[i]) => ValuesOn(field, ReplaceAt(w, i, e)) = ValuesOn(field, w)
           /\ Matches(field, w[i]) =>
                \E k \in 1..Len(ValuesOn(field, w)) :
                  /\ ValuesOn(field, w)[k] = w[i].val
                  /\ ValuesOn(field, ReplaceAt(w, i, e)) = ReplaceAt(ValuesOn(field, w), k, e.val)
<1>. DEFINE n == Len(w)
            u == ReplaceAt(w, i, e)
            a == SubSeq(w, 1, i - 1)
            c == SubSeq(w, i + 1, n)
            p == <<w[i]>>
            q == <<e>>
            v(x) == ValuesOn(field, x)
            V == ValuesOf(E)
            pc == p \o c
            qc == q \o c
<1>1. n \in Nat /\ i \in Nat /\ i \in 1..n /\ i <= n
  BY LenProperties
<1>2. /\ u \in Seq(E) /\ Len(u) = n /\ u[i] = e
      /\ \A j \in 1..n : j # i => u[j] = w[j]
  BY <1>1, ExceptSeq DEF ReplaceAt
<1>3. SubSeq(u, 1, i - 1) = a /\ SubSeq(u, i + 1, n) = c
  <2>. HIDE DEF u
  <2>1. \A j \in 1..(i - 1) : w[j] = u[j]
    BY <1>1, <1>2
  <2>2. \A j \in (i + 1)..n : w[j] = u[j]
    BY <1>1, <1>2
  <2>3. SubSeq(w, 1, i - 1) = SubSeq(u, 1, i - 1)
    BY <1>1, <1>2, <2>1, SubSeqAgree
  <2>4. SubSeq(w, i + 1, n) = SubSeq(u, i + 1, n)
    BY <1>1, <1>2, <2>2, SubSeqAgree
  <2>. QED
    BY <2>3, <2>4
<1>4. w = a \o pc /\ a \in Seq(E) /\ p \in Seq(E) /\ c \in Seq(E)
  BY <1>1, SplitAt
<1>5. u = a \o qc /\ q \in Seq(E)
  <2>. HIDE DEF u
  <2>1. u = SubSeq(u, 1, i - 1) \o (<<u[i]>> \o SubSeq(u, i + 1, n)) /\ <<u[i]>> \in Seq(E)
    BY <1>1, <1>2, SplitAt, ZenonT(40)
  <2>2. u = a \o (<<e>> \o c) /\ <<e>> \in Seq(E)
    <3>. HIDE DEF a, c
    <3>. QED
      BY <1>2, <1>3, <2>1
  <2>. QED
    BY <2>2
<1>6. Matches(field, e) <=> Matches(field, w[i])
  BY DEF Matches
<1>7. /\ v(p) = IF Matches(field, w[i]) THEN <<w[i].val>> ELSE <<>>
      /\ v(q) = IF Matches(field, w[i]) THEN <<e.val>> ELSE <<>>
  BY <1>6, ValuesOnOne
<1>. HIDE DEF u, a, c, p, q
<1>8. pc \in Seq(E) /\ qc \in Seq(E)
  BY <1>4, <1>5, ConcatProperties
<1>9. v(pc) = v(p) \o v(c) /\ v(qc) = v(q) \o v(c)
  <2>1. v(pc) = v(p) \o v(c)
    BY <1>4, ValuesOnConcat, ZenonT(40)
  <2>2. v(qc) = v(q) \o v(c)
    BY <1>4, <1>5, ValuesOnConcat, ZenonT(40)
  <2>. QED
    BY <2>1, <2>2
<1>. HIDE DEF pc, qc
<1>10. v(w) = v(a) \o v(pc) /\ v(u) = v(a) \o v(qc)
  <2>1. v(a \o pc) = v(a) \o v(pc)
    BY <1>4, <1>8, ValuesOnConcat
  <2>2. v(a \o qc) = v(a) \o v(qc)
    BY <1>4, <1>8, ValuesOnConcat
  <2>. QED
    BY <1>4, <1>5, <2>1, <2>2
<1>11. /\ v(a) \in Seq(V) /\ v(c) \in Seq(V) /\ v(pc) \in Seq(V) /\ v(qc) \in Seq(V)
       /\ v(w) \in Seq(V) /\ v(u) \in Seq(V)
  BY <1>2, <1>4, <1>8, ValuesOnType
<1>12. w[i].val \in V /\ e.val \in V
  BY ElementOfSeq DEF ValuesOf
<1>. HIDE DEF v, V
<1>13. CASE ~Matches(field, w[i])
  <2>1. v(u) = v(w)
    BY <1>7, <1>9, <1>10, <1>13
  <2>. QED
    BY <1>13, <2>1 DEF u, v
<1>14. CASE Matches(field, w[i])
  <2>. DEFINE k == Len(v(a)) + 1
              m == Len(v(c))
  <2>1. Len(v(a)) \in Nat /\ m \in Nat
    BY <1>11, LenProperties
  <2>2. /\ v(pc) = <<w[i].val>> \o v(c) /\ v(qc) = <<e.val>> \o v(c)
        /\ <<w[i].val>> \in Seq(V) /\ <<e.val>> \in Seq(V)
    BY <1>7, <1>9, <1>12, <1>14
  <2>3. /\ Len(v(pc)) = 1 + m /\ Len(v(qc)) = 1 + m
        /\ \A j \in 1..(1 + m) :
             /\ v(pc)[j] = IF j = 1 THEN w[i].val ELSE v(c)[j - 1]
             /\ v(qc)[j] = IF j = 1 THEN e.val ELSE v(c)[j - 1]
    BY <1>11, <2>1, <2>2, ConcatProperties
  <2>4. /\ Len(v(w)) = Len(v(a)) + (1 + m) /\ Len(v(u)) = Len(v(a)) + (1 + m)
        /\ \A j \in 1..(Len(v(a)) + (1 + m)) :
             /\ v(w)[j] = IF j <= Len(v(a)) THEN v(a)[j] ELSE v(pc)[j - Len(v(a))]
             /\ v(u)[j] = IF j <= Len(v(a)) THEN v(a)[j] ELSE v(qc)[j - Len(v(a))]
    <3>1. \A x, y \in Seq(V) : /\ Len(x \o y) = Len(x) + Len(y)
                              /\ \A j \in 1..(Len(x) + Len(y)) : (x \o y)[j] =
                                   IF j <= Len(x) THEN x[j] ELSE y[j - Len(x)]
      BY ConcatProperties
    <3>2. /\ Len(v(w)) = Len(v(a)) + Len(v(pc))
          /\ \A j \in 1..(Len(v(a)) + Len(v(pc))) : v(w)[j] =
               IF j <= Len(v(a)) THEN v(a)[j] ELSE v(pc)[j - Len(v(a))]
      BY <1>10, <1>11, <3>1
    <3>3. /\ Len(v(u)) = Len(v(a)) + Len(v(qc))
          /\ \A j \in 1..(Len(v(a)) + Len(v(qc))) : v(u)[j] =
               IF j <= Len(v(a)) THEN v(a)[j] ELSE v(qc)[j - Len(v(a))]
      BY <1>10, <1>11, <3>1
    <3>. HIDE DEF m
    <3>. QED
      BY ONLY <2>3, <3>2, <3>3
  <2>5. k \in 1..Len(v(w)) /\ v(w)[k] = w[i].val /\ v(u)[k] = e.val
    <3>1. k \in 1..(Len(v(a)) + (1 + m)) /\ ~(k <= Len(v(a))) /\ k - Len(v(a)) = 1
          /\ 1 \in 1..(1 + m)
      BY <2>1
    <3>. HIDE DEF k, m
    <3>. QED
      BY <2>3, <2>4, <3>1
  <2>6. ASSUME NEW j \in 1..Len(v(w)), j # k
        PROVE  v(u)[j] = v(w)[j]
    <3>1. CASE j <= Len(v(a))
      BY <2>4, <3>1
    <3>2. CASE ~(j <= Len(v(a)))
      <4>1. j - Len(v(a)) \in 1..(1 + m) /\ j - Len(v(a)) # 1
        BY <2>1, <2>4, <2>6, <3>2
      <4>. HIDE DEF k, m
      <4>. QED
        BY <2>3, <2>4, <3>2, <4>1
    <3>. QED
      BY <3>1, <3>2
  <2>. DEFINE x == ReplaceAt(v(w), k, e.val)
  <2>7. /\ x \in Seq(V) /\ Len(x) = Len(v(w))
        /\ \A j \in 1..Len(v(w)) : x[j] = IF j = k THEN e.val ELSE v(w)[j]
    <3>. HIDE DEF k
    <3>. QED
      BY <1>11, <1>12, <2>5, ExceptSeq DEF ReplaceAt
  <2>8. v(u) = x
    <3>. HIDE DEF x, k, m
    <3>1. \A j \in 1..Len(v(u)) : v(u)[j] = x[j]
      BY <2>4, <2>5, <2>6, <2>7
    <3>2. Len(v(u)) = Len(x)
      BY <2>4, <2>7
    <3>. QED
      BY <1>11, <2>7, <3>1, <3>2, SeqEqual
  <2>. HIDE DEF k
  <2>9. \E j \in 1..Len(v(w)) : v(w)[j] = w[i].val /\ v(u) = ReplaceAt(v(w), j, e.val)
    BY <2>5, <2>8
  <2>. QED
    BY <1>14, <2>9 DEF u, v
<1>. QED
  BY <1>13, <1>14

-----------------------------------------------------------------------------
\* What is read of a field of another writer's message: the same values,
\* or for a nested message one that another writer may send for it.
Alike(field, vs, us) ==
  /\ DOMAIN us = DOMAIN vs
  /\ \A i \in DOMAIN vs :
       \/ us[i] = vs[i]
       \/ field.kind = "message" /\ us[i] \in InnerOtherWires(field.of, vs[i])

\* Of what another writer sends, a decoder reads of a field what was
\* written for it, or a value in it written differently.
LEMMA OthersRead ==
    ASSUME NEW name, IsTable(name), NEW V, NEW written,
           \A f \in DOMAIN Messages[name] : written[f] \in Seq(V),
           NEW w \in {Wire(name, written)} \cup OtherWires(name, Wire(name, written)),
           NEW f \in DOMAIN Messages[name]
    PROVE  /\ \E U : ValuesOn(Messages[name][f], w) \in Seq(U)
           /\ Alike(Messages[name][f], written[f], ValuesOn(Messages[name][f], w))
<1>. DEFINE w0 == Wire(name, written)
            E0 == EntriesOf(name, written)
            field == Messages[name][f]
            vs == written[f]
            us == ValuesOn(field, w)
            Goal == (\E U : us \in Seq(U)) /\ Alike(field, vs, us)
<1>1. w0 \in Seq(E0) /\ ValuesOn(field, w0) = vs
  BY WireRead
<1>. HIDE DEF w0, E0
<1>2. vs \in Seq(V) /\ Len(vs) \in Nat /\ DOMAIN vs = 1..Len(vs)
  BY LenProperties
<1>3. Len(w0) \in Nat /\ DOMAIN w0 = 1..Len(w0)
  BY <1>1, LenProperties
<1>4. ASSUME us = vs
      PROVE  Goal
  BY <1>2, <1>4 DEF Alike
<1>5. ASSUME w = w0
      PROVE  Goal
  BY <1>1, <1>4, <1>5
<1>6. ASSUME NEW i \in 1..(Len(w0) - 1), w0[i].no # w0[i + 1].no, w = Swapped(w0, i)
      PROVE  Goal
  BY <1>1, <1>4, <1>6, SwapRead
<1>7. ASSUME NEW i \in {1, Len(w0) + 1}, NEW e \in NewEntries(name), w = InsertAt(w0, i, e)
      PROVE  Goal
  <2>1. ~Matches(field, e)
    <3>1. ASSUME NEW wt, e = [no |-> LastField + 1, wt |-> wt, val |-> Undefined]
          PROVE  ~Matches(field, e)
      BY <3>1 DEF Matches, IsTable
    <3>2. ASSUME NEW g \in DOMAIN Messages[name],
                 e = [no |-> Messages[name][g].no, wt |-> 2 - WireType(Messages[name][g]),
                      val |-> Undefined]
          PROVE  ~Matches(field, e)
      <4>1. e.no = Messages[name][g].no /\ e.wt = 2 - WireType(Messages[name][g])
        BY <3>2
      <4>2. CASE f = g
        BY <4>1, <4>2 DEF Matches, WireType
      <4>3. CASE f # g
        BY <4>1, <4>3 DEF Matches, IsTable
      <4>. QED
        BY <4>2, <4>3
    <3>. QED
      BY <3>1, <3>2 DEF NewEntries
  <2>2. w0 \in Seq(E0 \cup {e})
    BY <1>1, SeqMonotonic
  <2>3. ValuesOn(field, InsertAt(w0, i, e)) = ValuesOn(field, w0)
    BY <2>1, <2>2, InsertRead
  <2>. QED
    BY <1>1, <1>4, <1>7, <2>3
<1>8. ASSUME NEW i \in DOMAIN w0, NEW v \in NestedWires(name, w0[i]),
             w = ReplaceAt(w0, i, WithValue(w0[i], v))
      PROVE  Goal
  <2>. DEFINE e == WithValue(w0[i], v)
              E == E0 \cup {e}
              u == ReplaceAt(w0, i, e)
  <2>1. w0[i] \in E0
    BY <1>1, <1>3, ElementOfSeq
  <2>2. \E no, wt, val : w0[i] = [no |-> no, wt |-> wt, val |-> val]
    BY <2>1 DEF E0, EntriesOf
  <2>3. e.no = w0[i].no /\ e.wt = w0[i].wt /\ e.val = v
    BY <2>2 DEF WithValue
  <2>. HIDE DEF e
  <2>4. w = u
    BY <1>8 DEF e
  <2>5. w0 \in Seq(E) /\ e \in E /\ i \in 1..Len(w0)
    BY <1>1, <1>3, SeqMonotonic
  <2>. HIDE DEF E, us, vs, field
  <2>6. /\ ~Matches(field, w0[i]) => ValuesOn(field, u) = ValuesOn(field, w0)
        /\ Matches(field, w0[i]) =>
             \E k \in 1..Len(ValuesOn(field, w0)) :
               /\ ValuesOn(field, w0)[k] = w0[i].val
               /\ ValuesOn(field, u) = ReplaceAt(ValuesOn(field, w0), k, e.val)
    BY <2>3, <2>5, ReplaceRead
  <2>. HIDE DEF u
  <2>7. ValuesOn(field, u) = us /\ ValuesOn(field, w0) = vs
    BY <1>1, <2>4 DEF us, vs, field
  <2>8. CASE ~Matches(field, w0[i])
    BY <1>4, <2>6, <2>7, <2>8
  <2>9. CASE Matches(field, w0[i])
    <3>1. PICK g \in DOMAIN Messages[name] :
            /\ Messages[name][g].no = w0[i].no /\ Messages[name][g].kind = "message"
            /\ v \in InnerOtherWires(Messages[name][g].of, w0[i].val)
      BY DEF NestedWires, Numbered
    <3>2. f = g
      BY <2>9, <3>1 DEF Matches, IsTable, field
    <3>3. PICK k \in 1..Len(vs) : vs[k] = w0[i].val /\ us = ReplaceAt(vs, k, e.val)
      BY <2>6, <2>7, <2>9
    <3>4. field.kind = "message" /\ v \in InnerOtherWires(field.of, vs[k])
      BY <3>1, <3>2, <3>3 DEF field
    <3>5. vs \in Seq(V \cup {v})
      BY <1>2, SeqMonotonic
    <3>6. us \in Seq(V \cup {v})
      BY <2>3, <3>3, <3>5, ExceptSeq DEF ReplaceAt
    <3>7. DOMAIN us = DOMAIN vs /\ \A j \in DOMAIN vs : us[j] = IF j = k THEN v ELSE vs[j]
      BY <1>2, <2>3, <3>3 DEF ReplaceAt
    <3>8. Alike(field, vs, us)
      BY <3>4, <3>7 DEF Alike
    <3>. QED
      BY <3>6, <3>8
  <2>. QED
    BY <2>8, <2>9
<1>9. w = w0 \/ w \in OtherWires(name, w0)
  BY DEF w0
<1>10. ASSUME w \in OtherWires(name, w0)
       PROVE  \/ \E i \in 1..(Len(w0) - 1) : w0[i].no # w0[i + 1].no /\ w = Swapped(w0, i)
              \/ \E i \in {1, Len(w0) + 1}, e \in NewEntries(name) : w = InsertAt(w0, i, e)
              \/ \E i \in DOMAIN w0 : \E v \in NestedWires(name, w0[i]) :
                   w = ReplaceAt(w0, i, WithValue(w0[i], v))
  BY ONLY <1>10 DEF OtherWires, Replaced
<1>11. Goal
  <2>. HIDE DEF Goal
  <2>1. CASE w = w0
    BY <1>5, <2>1
  <2>2. CASE \E i \in 1..(Len(w0) - 1) : w0[i].no # w0[i + 1].no /\ w = Swapped(w0, i)
    BY ONLY <1>6, <2>2
  <2>3. CASE \E i \in {1, Len(w0) + 1}, e \in NewEntries(name) : w = InsertAt(w0, i, e)
    BY ONLY <1>7, <2>3
  <2>4. CASE \E i \in DOMAIN w0 : \E v \in NestedWires(name, w0[i]) :
               w = ReplaceAt(w0, i, WithValue(w0[i], v))
    BY ONLY <1>8, <2>4
  <2>. QED
    BY ONLY <1>9, <1>10, <2>1, <2>2, <2>3, <2>4, Zenon
<1>. QED
  BY <1>11

-----------------------------------------------------------------------------
\* What a decoder makes of a message on the wire, this encoder's form of it
\* or another writer's.
InnerReads(names) ==
  \A name \in names : \A m : InnerIsMessage(name, m) =>
    \A w \in {InnerEncode(name, m)} \cup InnerOtherWires(name, InnerEncode(name, m)) :
      /\ (\A n \in InnerNumbers(name, m, "int64") : Number(n) = n) => InnerDecode(name, w) = m
      /\ InnerReadable(name, w) <=> \A n \in InnerNumbers(name, m, "int64") : longToNumber(n)

Reads(names) ==
  \A name \in names : \A m : IsMessage(name, m) =>
    \A w \in {Encode(name, m)} \cup OtherWires(name, Encode(name, m)) :
      /\ (\A n \in NumbersIn(name, m, "int64") : Number(n) = n) => Decode(name, w) = m
      /\ Readable(name, w) <=> \A n \in NumbersIn(name, m, "int64") : longToNumber(n)

HoldsOnly(name, names) ==
  \A f \in DOMAIN Messages[name] :
    Messages[name][f].kind = "message" => Messages[name][f].of \in names

\* A value on the wire that stands for a value of a field.
Stands(field, v, u) ==
  \/ u = Packed(field, v)
  \/ field.kind = "message" /\ u \in InnerOtherWires(field.of, Packed(field, v))

ReadableValue(field, u) ==
  /\ field.kind = "int64" => longToNumber(u)
  /\ field.kind = "message" => InnerReadable(field.of, u)

\* A value that stands for one of a field is read as that.
LEMMA ValueRead ==
    ASSUME NEW names, InnerReads(names), NEW field, field.kind = "message" => field.of \in names,
           NEW v, IsValue(field, v), NEW u, Stands(field, v, u)
    PROVE  /\ (\A n \in NumbersAt(field, v, "int64") : Number(n) = n) => Unpacked(field, u) = v
           /\ ReadableValue(field, u) <=> \A n \in NumbersAt(field, v, "int64") : longToNumber(n)
<1>1. CASE field.kind = "message"
  <2>1. field.of \in names /\ InnerIsMessage(field.of, v)
    BY <1>1 DEF IsValue
  <2>2. u \in {InnerEncode(field.of, v)} \cup InnerOtherWires(field.of, InnerEncode(field.of, v))
    BY <1>1 DEF Stands, Packed
  <2>3. NumbersAt(field, v, "int64") = InnerNumbers(field.of, v, "int64")
    BY <1>1 DEF NumbersAt
  <2>4. Unpacked(field, u) = InnerDecode(field.of, u)
    BY <1>1 DEF Unpacked
  <2>5. ReadableValue(field, u) <=> InnerReadable(field.of, u)
    BY <1>1 DEF ReadableValue
  <2>. QED
    BY <2>1, <2>2, <2>3, <2>4, <2>5 DEF InnerReads
<1>2. CASE field.kind # "message"
  <2>1. u = v
    BY <1>2 DEF Stands, Packed
  <2>2. CASE field.kind = "int64"
    BY <2>1, <2>2 DEF NumbersAt, Unpacked, ReadableValue
  <2>3. CASE field.kind # "int64"
    BY <1>2, <2>1, <2>3 DEF NumbersAt, Unpacked, ReadableValue
  <2>. QED
    BY <2>2, <2>3
<1>. QED
  BY <1>1, <1>2

\* What is written for the value x of a field: a sequence, with the values x
\* holds.
IsWritten(field, x, vs) ==
  /\ vs \in Seq({vs[i] : i \in DOMAIN vs})
  /\ field.many => /\ x \in Seq(ToSet(x)) /\ DOMAIN vs = DOMAIN x
                   /\ \A i \in DOMAIN vs : vs[i] = Packed(field, x[i])
  /\ ~field.many /\ x = Default(field) => vs = <<>>
  /\ ~field.many /\ x # Default(field) => vs = <<Packed(field, x)>>

\* What is written for a field is what it holds.
LEMMA WrittenHeld ==
    ASSUME NEW name, NEW m, IsMessage(name, m), NEW f \in DOMAIN Messages[name],
           Messages[name][f].many \in BOOLEAN
    PROVE  IsWritten(Messages[name][f], m[f], Written(name, m)[f])
<1>. DEFINE field == Messages[name][f]
            vs == Written(name, m)[f]
            S == {vs[i] : i \in DOMAIN vs}
<1>1. vs = IF field.many THEN [i \in DOMAIN m[f] |-> Packed(field, m[f][i])]
           ELSE IF m[f] = Default(field) THEN <<>> ELSE <<Packed(field, m[f])>>
  BY DEF Written
<1>2. f \in DOMAIN m
  BY DEF IsMessage
<1>3. field.many => m[f] \in Seq(ToSet(m[f]))
  BY <1>2 DEF IsMessage
<1>4. field.many \in BOOLEAN
  OBVIOUS
<1>. HIDE DEF field, vs
<1>5. CASE field.many
  <2>1. DOMAIN m[f] = 1..Len(m[f]) /\ Len(m[f]) \in Nat
    BY <1>3, <1>5, LenProperties
  <2>2. vs = [i \in 1..Len(m[f]) |-> Packed(field, m[f][i])]
    BY <1>1, <1>5, <2>1
  <2>3. DOMAIN vs = 1..Len(m[f]) /\ \A i \in 1..Len(m[f]) : vs[i] = Packed(field, m[f][i])
    BY <2>2
  <2>4. vs = [i \in 1..Len(m[f]) |-> vs[i]]
    BY <2>2, <2>3
  <2>5. \A i \in 1..Len(m[f]) : vs[i] \in S
    BY <2>3
  <2>. HIDE DEF S
  <2>6. vs \in Seq(S)
    BY <2>1, <2>4, <2>5
  <2>. QED
    BY <1>3, <1>5, <2>1, <2>3, <2>6 DEF vs, field, S, IsWritten
<1>6. CASE ~field.many /\ m[f] = Default(field)
  <2>1. vs = <<>>
    BY <1>1, <1>6
  <2>2. vs \in Seq(S)
    BY <2>1, EmptySeq
  <2>. QED
    BY <1>6, <2>1, <2>2 DEF vs, field, S, IsWritten
<1>7. CASE ~field.many /\ m[f] # Default(field)
  <2>1. vs = <<Packed(field, m[f])>>
    BY <1>1, <1>7
  <2>2. vs[1] \in S /\ vs = <<vs[1]>>
    BY <2>1
  <2>. HIDE DEF S
  <2>3. vs \in Seq(S)
    BY <2>2
  <2>. QED
    BY <1>7, <2>1, <2>3 DEF vs, field, S, IsWritten
<1>. QED
  BY <1>4, <1>5, <1>6, <1>7

-----------------------------------------------------------------------------
\* What is read for the value x of a field stands for x, value by value.
IsRead(field, x, us) ==
  /\ \E U : us \in Seq(U)
  /\ field.many => /\ x \in Seq(ToSet(x)) /\ DOMAIN us = DOMAIN x
                   /\ \A i \in DOMAIN us : Stands(field, x[i], us[i])
  /\ ~field.many /\ x = Default(field) => us = <<>>
  /\ ~field.many /\ x # Default(field) =>
       Len(us) = 1 /\ DOMAIN us = {1} /\ Stands(field, x, us[1])

\* What is read of a field stands for what it holds.
LEMMA FieldRead ==
    ASSUME NEW name, IsTable(name), NEW m, IsMessage(name, m),
           NEW w \in {Encode(name, m)} \cup OtherWires(name, Encode(name, m)),
           NEW f \in DOMAIN Messages[name]
    PROVE  IsRead(Messages[name][f], m[f], ValuesOn(Messages[name][f], w))
<1>. DEFINE field == Messages[name][f]
            us == ValuesOn(field, w)
            written == Written(name, m)
            values(g) == {written[g][i] : i \in DOMAIN written[g]}
            V == UNION {values(g) : g \in DOMAIN Messages[name]}
            vs == written[f]
<1>1. \A g \in DOMAIN Messages[name] : written[g] \in Seq(V)
  <2>1. TAKE g \in DOMAIN Messages[name]
  <2>2. written[g] \in Seq(values(g))
    BY WrittenHeld DEF IsTable, IsWritten
  <2>3. values(g) \subseteq V
    OBVIOUS
  <2>. HIDE DEF values, V, written
  <2>. QED
    BY <2>2, <2>3, SeqMonotonic
<1>2. /\ \E U : us \in Seq(U)
      /\ Alike(field, vs, us)
  <2>1. w \in {Wire(name, written)} \cup OtherWires(name, Wire(name, written))
    BY DEF Encode
  <2>. HIDE DEF written, V
  <2>. QED
    BY <1>1, <2>1, OthersRead
<1>3. IsWritten(field, m[f], vs)
  BY WrittenHeld DEF IsTable
<1>. HIDE DEF field, us, vs
<1>4. PICK U : us \in Seq(U)
  BY <1>2
<1>5. Len(us) \in Nat /\ DOMAIN us = 1..Len(us)
  BY <1>4, LenProperties
<1>6. field.many => /\ DOMAIN us = DOMAIN m[f]
                    /\ \A i \in DOMAIN us : Stands(field, m[f][i], us[i])
  BY <1>2, <1>3 DEF Alike, Stands, IsWritten
<1>7. ASSUME ~field.many, m[f] = Default(field)
      PROVE  us = <<>>
  <2>1. DOMAIN us = {}
    BY <1>2, <1>3, <1>7 DEF Alike, IsWritten
  <2>2. Len(us) = 0
    BY <1>5, <2>1
  <2>. QED
    BY <1>4, <2>2, EmptySeq
<1>8. ASSUME ~field.many, m[f] # Default(field)
      PROVE  Len(us) = 1 /\ DOMAIN us = {1} /\ Stands(field, m[f], us[1])
  <2>1. vs = <<Packed(field, m[f])>>
    BY <1>3, <1>8 DEF IsWritten
  <2>2. DOMAIN vs = {1} /\ vs[1] = Packed(field, m[f])
    BY <2>1
  <2>3. DOMAIN us = {1} /\ Stands(field, m[f], us[1])
    BY <1>2, <2>2 DEF Alike, Stands
  <2>4. Len(us) = 1
    <3>0. 1 \in DOMAIN us
      BY <2>3
    <3>1. 1 \in 1..Len(us) /\ Len(us) \in 1..Len(us)
      BY <1>5, <3>0
    <3>. QED
      BY <1>5, <2>3, <3>1
  <2>. QED
    BY <2>3, <2>4
<1>. QED
  BY <1>3, <1>4, <1>6, <1>7, <1>8 DEF field, us, IsRead, IsWritten

\* The values a field holds, and those read for them.
LEMMA HeldRead ==
    ASSUME NEW name, IsTable(name), NEW m, IsMessage(name, m),
           NEW w \in {Encode(name, m)} \cup OtherWires(name, Encode(name, m)),
           NEW f \in DOMAIN Messages[name]
    PROVE  LET field == Messages[name][f]
               us == ValuesOn(field, w)
           IN  /\ \A u \in ToSet(us) : \E v \in Held(field, m[f]) : Stands(field, v, u)
               /\ \A v \in Held(field, m[f]) : \E u \in ToSet(us) : Stands(field, v, u)
               /\ \A v \in Held(field, m[f]) : IsValue(field, v)
<1>. DEFINE field == Messages[name][f]
            us == ValuesOn(field, w)
<1>1. IsRead(field, m[f], us)
  BY FieldRead
<1>2. \A v \in Held(field, m[f]) : IsValue(field, v)
  BY DEF IsMessage
<1>3. field.many \in BOOLEAN
  BY DEF IsTable
<1>. HIDE DEF field, us
<1>4. /\ \A u \in ToSet(us) : \E v \in Held(field, m[f]) : Stands(field, v, u)
      /\ \A v \in Held(field, m[f]) : \E u \in ToSet(us) : Stands(field, v, u)
  <2>1. CASE field.many
    BY <1>1, <2>1 DEF Held, ToSet, IsRead
  <2>2. CASE ~field.many /\ m[f] = Default(field)
    BY <1>1, <2>2 DEF Held, ToSet, IsRead
  <2>3. CASE ~field.many /\ m[f] # Default(field)
    BY <1>1, <2>3 DEF Held, ToSet, IsRead
  <2>. QED
    BY <1>3, <2>1, <2>2, <2>3
<1>. QED
  BY <1>2, <1>4 DEF field, us

\* A number is in a message if it is in a value that a field of it holds.
LEMMA InNumbers ==
    ASSUME NEW name, NEW m, NEW kind
    PROVE  \A n : n \in NumbersIn(name, m, kind) <=>
             \E f \in DOMAIN Messages[name] : \E v \in Held(Messages[name][f], m[f]) :
               n \in NumbersAt(Messages[name][f], v, kind)
BY DEF NumbersIn

\* The encoder and the decoder of one depth, given those of the one inside.
THEOREM ReadsDepth ==
    ASSUME NEW inner, InnerReads(inner), NEW names,
           \A name \in names : IsTable(name) /\ HoldsOnly(name, inner)
    PROVE  Reads(names)
<1>1. SUFFICES ASSUME NEW name \in names, NEW m, IsMessage(name, m),
                      NEW w \in {Encode(name, m)} \cup OtherWires(name, Encode(name, m))
               PROVE  /\ (\A n \in NumbersIn(name, m, "int64") : Number(n) = n)
                           => Decode(name, w) = m
                      /\ Readable(name, w)
                           <=> \A n \in NumbersIn(name, m, "int64") : longToNumber(n)
  BY DEF Reads
<1>. DEFINE F == DOMAIN Messages[name]
            field(f) == Messages[name][f]
            us(f) == ValuesOn(field(f), w)
<1>2. IsTable(name) /\ \A f \in F : field(f).kind = "message" => field(f).of \in inner
  BY DEF HoldsOnly
<1>3. ASSUME NEW f \in F
      PROVE  /\ \A u \in ToSet(us(f)) : \E v \in Held(field(f), m[f]) : Stands(field(f), v, u)
             /\ \A v \in Held(field(f), m[f]) : \E u \in ToSet(us(f)) : Stands(field(f), v, u)
             /\ \A v \in Held(field(f), m[f]) : IsValue(field(f), v)
  BY <1>1, <1>2, HeldRead
<1>4. ASSUME NEW f \in F, NEW v \in Held(field(f), m[f]), NEW u, Stands(field(f), v, u)
      PROVE  /\ (\A n \in NumbersAt(field(f), v, "int64") : Number(n) = n)
                  => Unpacked(field(f), u) = v
             /\ ReadableValue(field(f), u)
                  <=> \A n \in NumbersAt(field(f), v, "int64") : longToNumber(n)
  <2>. HIDE DEF field
  <2>. QED
    BY <1>2, <1>3, <1>4, ValueRead
<1>5. ASSUME \A n \in NumbersIn(name, m, "int64") : Number(n) = n
      PROVE  Decode(name, w) = m
  <2>1. ASSUME NEW f \in F
        PROVE  Decode(name, w)[f] = m[f]
    <3>1. Decode(name, w)[f] = IF field(f).many THEN [i \in DOMAIN us(f) |-> Unpacked(field(f), us(f)[i])]
                               ELSE IF us(f) = <<>> THEN Default(field(f))
                               ELSE Unpacked(field(f), us(f)[Len(us(f))])
      BY DEF Decode
    <3>2. IsRead(field(f), m[f], us(f))
      BY <1>1, <1>2, FieldRead
    <3>3. \A v \in Held(field(f), m[f]) : \A u :
            Stands(field(f), v, u) => Unpacked(field(f), u) = v
      BY <1>4, <1>5, InNumbers
    <3>4. field(f).many \in BOOLEAN
      BY <1>2 DEF IsTable
    <3>. HIDE DEF field, us
    <3>5. CASE field(f).many
      <4>1. \A i \in DOMAIN us(f) : m[f][i] \in Held(field(f), m[f])
        BY <3>2, <3>5 DEF IsRead, Held, ToSet
      <4>2. \A i \in DOMAIN us(f) : Unpacked(field(f), us(f)[i]) = m[f][i]
        BY <3>2, <3>3, <3>5, <4>1 DEF IsRead
      <4>3. m[f] = [i \in DOMAIN m[f] |-> m[f][i]]
        BY <3>2, <3>5, LenProperties DEF IsRead
      <4>. QED
        BY <3>1, <3>2, <3>5, <4>2, <4>3 DEF IsRead
    <3>6. CASE ~field(f).many /\ m[f] = Default(field(f))
      BY <3>1, <3>2, <3>6 DEF IsRead
    <3>7. CASE ~field(f).many /\ m[f] # Default(field(f))
      <4>1. us(f) # <<>>
        BY <3>2, <3>7, EmptySeq DEF IsRead
      <4>2. m[f] \in Held(field(f), m[f])
        BY <3>7 DEF Held
      <4>. QED
        BY <3>1, <3>2, <3>3, <3>7, <4>1, <4>2 DEF IsRead
    <3>. QED
      BY <3>4, <3>5, <3>6, <3>7
  <2>2. DOMAIN Decode(name, w) = F
    BY DEF Decode
  <2>3. Decode(name, w) = [f \in F |-> Decode(name, w)[f]]
    BY DEF Decode
  <2>4. m = [f \in F |-> m[f]]
    BY <1>1 DEF IsMessage
  <2>. HIDE DEF F
  <2>. QED
    BY <2>1, <2>3, <2>4
<1>6. Readable(name, w) <=> \A f \in F : \A u \in ToSet(us(f)) : ReadableValue(field(f), u)
  BY DEF Readable, ReadableValue
<1>7. (\A f \in F : \A u \in ToSet(us(f)) : ReadableValue(field(f), u))
        <=> \A f \in F : \A v \in Held(field(f), m[f]) :
              \A n \in NumbersAt(field(f), v, "int64") : longToNumber(n)
  <2>. HIDE DEF field, us, F
  <2>. QED
    BY <1>3, <1>4
<1>8. (\A n \in NumbersIn(name, m, "int64") : longToNumber(n))
        <=> \A f \in F : \A v \in Held(field(f), m[f]) :
              \A n \in NumbersAt(field(f), v, "int64") : longToNumber(n)
  BY InNumbers
<1>. QED
  BY <1>5, <1>6, <1>7, <1>8

-----------------------------------------------------------------------------
\* JavaScript's numbers are exact as far as longToNumber allows.
LEMMA NumberExact ==
    ASSUME MaxSafe \in Nat, NEW n \in Int
    PROVE  /\ longToNumber(n) <=> -MaxSafe <= n /\ n <= MaxSafe
           /\ longToNumber(n) => Number(n) = n
<1>. DEFINE a == IF n < 0 THEN -n ELSE n
            d == IF a <= MaxSafe + 1 \/ a % 2 = 0 THEN a
                 ELSE IF (a - 1) % 4 = 0 THEN a - 1 ELSE a + 1
<1>1. a \in Nat
  OBVIOUS
<1>2. Number(n) = IF n < 0 THEN -d ELSE d
  BY DEF Number
<1>3. /\ d \in Int
      /\ a <= MaxSafe + 1 => d = a
      /\ a > MaxSafe + 1 => d > MaxSafe
  <2>. HIDE DEF a
  <2>1. CASE a <= MaxSafe + 1
    BY <1>1, <2>1
  <2>2. CASE a > MaxSafe + 1
    <3>1. d \in {a, a - 1, a + 1}
      OBVIOUS
    <3>. HIDE DEF d
    <3>. QED
      BY <1>1, <2>2, <3>1
  <2>. QED
    BY <1>1, <2>1, <2>2
<1>. HIDE DEF d
<1>4. CASE a <= MaxSafe + 1
  BY <1>2, <1>3, <1>4 DEF longToNumber
<1>5. CASE a > MaxSafe + 1
  BY <1>2, <1>3, <1>5 DEF longToNumber
<1>. QED
  BY <1>1, <1>4, <1>5

-----------------------------------------------------------------------------
\* The numbers in a message are integers.
InnerCounts(names) ==
  \A name \in names : \A m : InnerIsMessage(name, m) =>
    \A kind \in {"int32", "int64"} : InnerNumbers(name, m, kind) \subseteq Int

Counts(names) ==
  \A name \in names : \A m : IsMessage(name, m) =>
    \A kind \in {"int32", "int64"} : NumbersIn(name, m, kind) \subseteq Int

\* The numbers in a message of one depth are integers.
THEOREM CountsDepth ==
    ASSUME NEW inner, InnerCounts(inner), NEW names,
           \A name \in names : IsTable(name) /\ HoldsOnly(name, inner)
    PROVE  Counts(names)
<1>1. SUFFICES ASSUME NEW name \in names, NEW m, IsMessage(name, m),
                      NEW kind \in {"int32", "int64"}, NEW n \in NumbersIn(name, m, kind)
               PROVE  n \in Int
  BY DEF Counts
<1>2. PICK f \in DOMAIN Messages[name] : \E v \in Held(Messages[name][f], m[f]) :
             n \in NumbersAt(Messages[name][f], v, kind)
  BY InNumbers
<1>. DEFINE field == Messages[name][f]
<1>3. PICK v \in Held(field, m[f]) : n \in NumbersAt(field, v, kind)
  BY <1>2
<1>4. IsValue(field, v)
  BY <1>1 DEF IsMessage
<1>5. field.kind = "message" => field.of \in inner
  BY DEF HoldsOnly
<1>. HIDE DEF field
<1>6. CASE field.kind = kind
  BY <1>3, <1>4, <1>6 DEF IsValue, NumbersAt
<1>7. CASE field.kind # kind /\ field.kind = "message"
  BY <1>3, <1>4, <1>5, <1>7 DEF IsValue, NumbersAt, InnerCounts
<1>8. CASE field.kind # kind /\ field.kind # "message"
  BY <1>3, <1>8 DEF NumbersAt
<1>. QED
  BY <1>6, <1>7, <1>8

-----------------------------------------------------------------------------
\* The JSON form of a message, with either case of its keys, read back by
\* fromJSON, or by fromPartial which knows one case only.
StylesOf(style) == {<<"camel", "snake">>, <<style>>}

InnerRestores(names) ==
  \A name \in names : \A m : InnerIsMessage(name, m) =>
    \A style \in {"camel", "snake"} : \A styles \in StylesOf(style) :
      InnerFromObject(name, InnerToObject(name, m, style), styles) = m

Restores(names) ==
  \A name \in names : \A m : IsMessage(name, m) =>
    \A style \in {"camel", "snake"} : \A styles \in StylesOf(style) :
      FromObject(name, ToObject(name, m, style), styles) = m

\* The keys a reader looks for are those of the style that was written.
LEMMA TheOnlyStyle ==
    ASSUME NEW style \in {"camel", "snake"}, NEW styles \in StylesOf(style)
    PROVE  \E k \in DOMAIN styles : /\ styles[k] = style
                                    /\ \A i \in DOMAIN styles : styles[i] = style => i = k
                                    /\ Min({k}) = k
<1>1. \A k \in {1, 2} : Min({k}) = k
  BY DEF Min
<1>2. CASE styles = <<style>>
  BY <1>1, <1>2
<1>3. CASE styles = <<"camel", "snake">> /\ style = "camel"
  <2>1. 1 \in DOMAIN styles /\ styles[1] = style
    BY <1>3
  <2>2. \A i \in DOMAIN styles : styles[i] = style => i = 1
    BY <1>3
  <2>. QED
    BY <1>1, <2>1, <2>2
<1>4. CASE styles = <<"camel", "snake">> /\ style = "snake"
  <2>1. 2 \in DOMAIN styles /\ styles[2] = style
    BY <1>4
  <2>2. \A i \in DOMAIN styles : styles[i] = style => i = 2
    BY <1>4
  <2>. QED
    BY <1>1, <2>1, <2>2
<1>. QED
  BY <1>2, <1>3, <1>4 DEF StylesOf

\* The JSON forms of one depth, given those of the one inside.
THEOREM RestoresDepth ==
    ASSUME NEW inner, InnerRestores(inner), NEW names,
           \A name \in names : IsTable(name) /\ HoldsOnly(name, inner)
    PROVE  Restores(names)
<1>1. SUFFICES ASSUME NEW name \in names, NEW m, IsMessage(name, m),
                      NEW style \in {"camel", "snake"}, NEW styles \in StylesOf(style)
               PROVE  FromObject(name, ToObject(name, m, style), styles) = m
  BY DEF Restores
<1>. DEFINE F == DOMAIN Messages[name]
            o == ToObject(name, m, style)
            r == FromObject(name, o, styles)
            field(f) == Messages[name][f]
            present(f) == {i \in DOMAIN styles : <<f, styles[i]>> \in DOMAIN o}
            read(f) == o[<<f, styles[Min(present(f))]>>]
<1>2. DOMAIN m = F /\ m = [f \in F |-> m[f]]
  BY <1>1 DEF IsMessage
<1>3. ASSUME NEW f \in F
      PROVE  r[f] = m[f]
  <2>1. r[f] = IF present(f) = {} THEN Default(field(f))
               ELSE IF field(f).many
                    THEN [i \in DOMAIN read(f) |-> FromValue(field(f), read(f)[i], styles)]
               ELSE FromValue(field(f), read(f), styles)
    BY DEF FromObject
  <2>2. DOMAIN o = {g \in F : m[g] # Default(Messages[name][g])} \X {style}
    BY <1>2 DEF ToObject
  <2>3. m[f] # Default(field(f)) =>
          o[<<f, style>>] = IF field(f).many
                              THEN [i \in DOMAIN m[f] |-> ToValue(field(f), m[f][i], style)]
                            ELSE ToValue(field(f), m[f], style)
    <3>1. SUFFICES ASSUME m[f] # Default(field(f))
                   PROVE  o[<<f, style>>] =
                            IF field(f).many
                              THEN [i \in DOMAIN m[f] |-> ToValue(field(f), m[f][i], style)]
                            ELSE ToValue(field(f), m[f], style)
      OBVIOUS
    <3>2. <<f, style>> \in {g \in DOMAIN m : m[g] # Default(Messages[name][g])} \X {style}
      BY <1>2, <3>1
    <3>. QED
      BY <3>2 DEF ToObject
  <2>4. ASSUME NEW v, v \in Held(field(f), m[f])
        PROVE  FromValue(field(f), ToValue(field(f), v, style), styles) = v
    <3>1. IsValue(field(f), v)
      BY <1>1, <1>2, <2>4 DEF IsMessage
    <3>2. field(f).kind = "message" => field(f).of \in inner
      BY DEF HoldsOnly
    <3>. HIDE DEF field
    <3>. QED
      BY <1>1, <3>1, <3>2 DEF FromValue, ToValue, IsValue, InnerRestores
  <2>5. field(f).many \in BOOLEAN
    BY DEF IsTable
  <2>6. field(f).many => m[f] \in Seq(ToSet(m[f]))
    BY <1>1, <1>2 DEF IsMessage
  <2>. HIDE DEF r, o
  <2>7. CASE m[f] = Default(field(f))
    <3>1. present(f) = {}
      BY <2>2, <2>7
    <3>. QED
      BY <2>1, <2>7, <3>1
  <2>8. CASE m[f] # Default(field(f))
    <3>1. PICK k \in DOMAIN styles : /\ styles[k] = style
                                     /\ \A i \in DOMAIN styles : styles[i] = style => i = k
                                     /\ Min({k}) = k
      BY TheOnlyStyle
    <3>2. present(f) = {k}
      BY <2>2, <2>8, <3>1
    <3>3. present(f) # {} /\ read(f) = o[<<f, style>>]
      BY <3>1, <3>2
    <3>. HIDE DEF field, read, present
    <3>4. CASE field(f).many
      <4>1. read(f) = [i \in DOMAIN m[f] |-> ToValue(field(f), m[f][i], style)]
        BY <2>3, <2>8, <3>3, <3>4
      <4>2. \A i \in DOMAIN m[f] : m[f][i] \in Held(field(f), m[f])
        BY <3>4 DEF Held, ToSet
      <4>3. \A i \in DOMAIN m[f] : FromValue(field(f), read(f)[i], styles) = m[f][i]
        BY <2>4, <4>1, <4>2
      <4>4. r[f] = [i \in DOMAIN m[f] |-> FromValue(field(f), read(f)[i], styles)]
        BY <2>1, <3>3, <3>4, <4>1
      <4>5. m[f] = [i \in DOMAIN m[f] |-> m[f][i]]
        BY <2>6, <3>4, LenProperties
      <4>. QED
        BY <4>3, <4>4, <4>5
    <3>5. CASE ~field(f).many
      <4>1. m[f] \in Held(field(f), m[f])
        BY <2>8, <3>5 DEF Held
      <4>. QED
        BY <2>1, <2>3, <2>4, <2>8, <3>3, <3>5, <4>1
    <3>. QED
      BY <2>5, <3>4, <3>5
  <2>. QED
    BY <2>7, <2>8
<1>4. r = [f \in F |-> r[f]]
  BY DEF FromObject
<1>. HIDE DEF F, r
<1>5. r = m
  BY <1>2, <1>3, <1>4
<1>. QED
  BY <1>5 DEF r

-----------------------------------------------------------------------------
\* The messages a call is made with are messages, with the given numbers.
InnerMakes(names) ==
  \A name \in names :
    /\ InnerIsMessage(name, InnerFull(name))
    /\ InnerNumbers(name, InnerFull(name), "int64") \subseteq {1}
    /\ \A int32s, int64s \in SUBSET Int : \A m \in InnerSamples(name, int32s, int64s) :
         /\ InnerIsMessage(name, m)
         /\ InnerNumbers(name, m, "int64") \subseteq int64s \cup {1}

Makes(names) ==
  \A name \in names :
    /\ IsMessage(name, Full(name))
    /\ NumbersIn(name, Full(name), "int64") \subseteq {1}
    /\ \A int32s, int64s \in SUBSET Int : \A m \in Samples(name, int32s, int64s) :
         /\ IsMessage(name, m)
         /\ NumbersIn(name, m, "int64") \subseteq int64s \cup {1}

\* A value of a field that fits it, with 64-bit numbers from a set.
Fits(field, v, S) == IsValue(field, v) /\ NumbersAt(field, v, "int64") \subseteq S

FitsField(field, x, S) ==
  /\ field.many => x \in Seq(ToSet(x))
  /\ \A v \in Held(field, x) : Fits(field, v, S)

FitsMessage(name, m, S) ==
  /\ DOMAIN m = DOMAIN Messages[name]
  /\ m = [f \in DOMAIN m |-> m[f]]
  /\ \A f \in DOMAIN Messages[name] : FitsField(Messages[name][f], m[f], S)

\* Fields that fit make a message.
LEMMA FittingMessage ==
    ASSUME NEW name, NEW m, NEW S
    PROVE  FitsMessage(name, m, S) =>
             IsMessage(name, m) /\ NumbersIn(name, m, "int64") \subseteq S
<1>1. ASSUME FitsMessage(name, m, S)
      PROVE  IsMessage(name, m)
  BY <1>1 DEF FitsMessage, FitsField, Fits, IsMessage
<1>2. ASSUME FitsMessage(name, m, S)
      PROVE  NumbersIn(name, m, "int64") \subseteq S
  BY <1>2, InNumbers DEF FitsMessage, FitsField, Fits
<1>. QED
  BY <1>1, <1>2

\* An array of one value or of two.
LEMMA ListOf ==
    ASSUME NEW v
    PROVE  /\ <<v>> \in Seq(ToSet(<<v>>)) /\ ToSet(<<v>>) = {v}
           /\ <<v, v>> \in Seq(ToSet(<<v, v>>)) /\ ToSet(<<v, v>>) = {v}
<1>1. ToSet(<<v>>) = {v} /\ ToSet(<<v, v>>) = {v}
  BY DEF ToSet
<1>2. <<v>> \in Seq({v}) /\ <<v, v>> \in Seq({v})
  OBVIOUS
<1>. QED
  BY <1>1, <1>2

\* Such an array fits if the value does.
LEMMA ListFits ==
    ASSUME NEW field, field.many, NEW S, NEW v, Fits(field, v, S)
    PROVE  FitsField(field, <<v>>, S) /\ FitsField(field, <<v, v>>, S)
<1>1. ASSUME NEW x, x \in Seq(ToSet(x)), ToSet(x) = {v}
      PROVE  FitsField(field, x, S)
  BY <1>1 DEF FitsField, Held
<1>2. /\ <<v>> \in Seq(ToSet(<<v>>)) /\ ToSet(<<v>>) = {v}
      /\ <<v, v>> \in Seq(ToSet(<<v, v>>)) /\ ToSet(<<v, v>>) = {v}
  BY ListOf
<1>3. FitsField(field, <<v>>, S)
  BY ONLY <1>1, <1>2, Zenon
<1>4. FitsField(field, <<v, v>>, S)
  BY ONLY <1>1, <1>2, Zenon
<1>. QED
  BY <1>3, <1>4

\* The default value of a field fits.
LEMMA DefaultFits ==
    ASSUME NEW field, field.many \in BOOLEAN, NEW S
    PROVE  FitsField(field, Default(field), S)
<1>1. CASE field.many
  <2>1. Default(field) = <<>>
    BY <1>1 DEF Default
  <2>2. ToSet(<<>>) = {}
    BY DEF ToSet
  <2>. QED
    BY <1>1, <2>1, <2>2, EmptySeq DEF FitsField, Held
<1>2. CASE ~field.many
  BY <1>2 DEF FitsField, Held
<1>. QED
  BY <1>1, <1>2

\* What a call of one depth may carry are messages of it.
THEOREM MakesDepth ==
    ASSUME NEW inner, InnerMakes(inner), Strings \subseteq STRING, NoText \in Strings, Strings # {NoText}, NEW names,
           \A name \in names : IsTable(name) /\ HoldsOnly(name, inner)
    PROVE  Makes(names)
<1>1. SUFFICES ASSUME NEW name \in names
               PROVE  /\ FitsMessage(name, Full(name), {1})
                      /\ \A int32s, int64s \in SUBSET Int :
                           \A m \in Samples(name, int32s, int64s) :
                             FitsMessage(name, m, int64s \cup {1})
  BY FittingMessage DEF Makes
<1>. DEFINE F == DOMAIN Messages[name]
            field(f) == Messages[name][f]
<1>2. ASSUME NEW f \in F
      PROVE  /\ field(f).many \in BOOLEAN
             /\ field(f).kind \in {"string", "bool", "int32", "int64", "message"}
             /\ field(f).kind = "message" => field(f).of \in inner
  BY DEF IsTable, HoldsOnly
<1>3. ASSUME NEW f \in F
      PROVE  Fits(field(f), FullValue(field(f)), {1})
  <2>. HIDE DEF field
  <2>1. CASE field(f).kind = "string"
    BY <2>1 DEF Fits, FullValue, IsValue, NumbersAt
  <2>2. CASE field(f).kind = "bool"
    BY <2>2 DEF Fits, FullValue, IsValue, NumbersAt
  <2>3. CASE field(f).kind = "message"
    BY <1>2, <2>3 DEF Fits, FullValue, IsValue, NumbersAt, InnerMakes
  <2>. DEFINE v == FullValue(field(f))
  <2>4. CASE field(f).kind = "int32"
    <3>1. v \in Int /\ NumbersAt(field(f), v, "int64") = {}
      <4>1. v = 1
        BY <2>4, Zenon DEF FullValue
      <4>. HIDE DEF v
      <4>. QED
        BY <2>4, <4>1 DEF NumbersAt
    <3>. HIDE DEF v
    <3>2. Fits(field(f), v, {1})
      BY <2>4, <3>1 DEF Fits, IsValue
    <3>. QED
      BY <3>2 DEF v
  <2>5. CASE field(f).kind = "int64"
    <3>1. v \in Int /\ v \in {1} /\ NumbersAt(field(f), v, "int64") = {v}
      <4>1. v = 1
        BY <2>5, Zenon DEF FullValue
      <4>. HIDE DEF v
      <4>. QED
        BY <2>5, <4>1 DEF NumbersAt
    <3>. HIDE DEF v
    <3>2. Fits(field(f), v, {1})
      BY <2>5, <3>1 DEF Fits, IsValue
    <3>. QED
      BY <3>2 DEF v
  <2>. QED
    BY <1>2, <2>1, <2>2, <2>3, <2>4, <2>5
<1>4. ASSUME NEW f \in F
      PROVE  Full(name)[f] = IF field(f).many THEN <<FullValue(field(f)), FullValue(field(f))>>
                             ELSE FullValue(field(f))
  BY DEF Full
<1>5. DOMAIN Full(name) = F /\ Full(name) = [f \in F |-> Full(name)[f]]
  BY DEF Full
<1>6. ASSUME NEW f \in F
      PROVE  FitsField(field(f), Full(name)[f], {1})
  <2>. HIDE DEF field
  <2>1. CASE field(f).many
    BY <1>3, <1>4, <2>1, ListFits
  <2>2. CASE ~field(f).many
    BY <1>3, <1>4, <2>2 DEF FitsField, Held
  <2>. QED
    BY <1>2, <2>1, <2>2
<1>7. FitsMessage(name, Full(name), {1})
  <2>. HIDE DEF F
  <2>. QED
    BY <1>5, <1>6 DEF FitsMessage, F
<1>8. ASSUME NEW int32s \in SUBSET Int, NEW int64s \in SUBSET Int,
             NEW m \in Samples(name, int32s, int64s)
      PROVE  FitsMessage(name, m, int64s \cup {1})
  <2>. DEFINE S == int64s \cup {1}
  <2>1. FitsMessage(name, Full(name), S)
    BY <1>7 DEF FitsMessage, FitsField, Fits
  <2>2. FitsMessage(name, Blank(name), S)
    <3>1. /\ DOMAIN Blank(name) = F /\ Blank(name) = [f \in F |-> Blank(name)[f]]
          /\ \A f \in F : Blank(name)[f] = Default(field(f))
      BY DEF Blank
    <3>. HIDE DEF F
    <3>2. \A f \in F : FitsField(field(f), Blank(name)[f], S)
      <4>. HIDE DEF field, S
      <4>1. ASSUME NEW f \in F
            PROVE  FitsField(field(f), Blank(name)[f], S)
        BY <1>2, <3>1, DefaultFits
      <4>. QED
        BY <4>1
    <3>. QED
      BY <3>1, <3>2 DEF FitsMessage, F
  <2>3. ASSUME NEW f \in F, NEW v \in SampleValues(field(f), int32s, int64s)
        PROVE  Fits(field(f), v, S)
    <3>. HIDE DEF field
    <3>1. CASE field(f).kind = "string"
      BY <2>3, <3>1 DEF Fits, SampleValues, IsValue, NumbersAt
    <3>2. CASE field(f).kind = "bool"
      BY <2>3, <3>2 DEF Fits, SampleValues, IsValue, NumbersAt
    <3>3. CASE field(f).kind = "message"
      <4>1. v \in InnerSamples(field(f).of, int32s, int64s) /\ field(f).of \in inner
        BY <1>2, <2>3, <3>3 DEF SampleValues
      <4>2. InnerIsMessage(field(f).of, v) /\ InnerNumbers(field(f).of, v, "int64") \subseteq S
        BY <4>1 DEF InnerMakes
      <4>. QED
        BY <3>3, <4>2 DEF Fits, IsValue, NumbersAt
    <3>4. CASE field(f).kind = "int32"
      <4>1. v \in int32s
        BY <2>3, <3>4 DEF SampleValues
      <4>2. v \in Int /\ NumbersAt(field(f), v, "int64") = {}
        BY <3>4, <4>1 DEF NumbersAt
      <4>. QED
        BY <3>4, <4>2 DEF Fits, IsValue
    <3>5. CASE field(f).kind = "int64"
      <4>1. v \in int64s
        BY <2>3, <3>5 DEF SampleValues
      <4>2. v \in Int /\ NumbersAt(field(f), v, "int64") = {v}
        BY <3>5, <4>1 DEF NumbersAt
      <4>. QED
        BY <3>5, <4>1, <4>2 DEF Fits, IsValue
    <3>. QED
      BY <1>2, <3>1, <3>2, <3>3, <3>4, <3>5
  <2>4. ASSUME NEW f \in F, NEW x \in FieldSamples(field(f), int32s, int64s)
        PROVE  FitsField(field(f), x, S)
    <3>. HIDE DEF field
    <3>1. CASE x = Default(field(f))
      <4>. HIDE DEF S
      <4>1. field(f).many \in BOOLEAN
        BY <1>2
      <4>. QED
        BY <3>1, <4>1, DefaultFits
    <3>2. CASE field(f).many /\ \E v \in SampleValues(field(f), int32s, int64s) : x = <<v>>
      BY <2>3, <3>2, ListFits
    <3>3. CASE ~field(f).many /\ x \in SampleValues(field(f), int32s, int64s)
      BY <2>3, <3>3 DEF FitsField, Held
    <3>. QED
      BY <1>2, <2>4, <3>1, <3>2, <3>3 DEF FieldSamples
  <2>5. ASSUME NEW b, FitsMessage(name, b, S), NEW f \in F,
               NEW x \in FieldSamples(field(f), int32s, int64s), m = [b EXCEPT ![f] = x]
        PROVE  FitsMessage(name, m, S)
    <3>1. DOMAIN b = F /\ \A g \in F : FitsField(field(g), b[g], S)
      BY <2>5 DEF FitsMessage
    <3>. HIDE DEF F
    <3>2. /\ DOMAIN m = F /\ m = [g \in F |-> m[g]]
          /\ \A g \in F : m[g] = IF g = f THEN x ELSE b[g]
      BY <2>5, <3>1
    <3>3. \A g \in F : FitsField(field(g), m[g], S)
      BY <2>4, <3>1, <3>2
    <3>. QED
      BY <3>2, <3>3 DEF FitsMessage, F
  <2>6. \/ m \in {Blank(name), Full(name)}
        \/ \E b \in {Blank(name), Full(name)}, f \in F :
             \E x \in FieldSamples(field(f), int32s, int64s) : m = [b EXCEPT ![f] = x]
    <3>1. \/ m \in {Blank(name), Full(name)}
          \/ \E b \in {Blank(name), Full(name)}, f \in F :
               m \in Changed(name, b, f, int32s, int64s)
      BY DEF Samples
    <3>. QED
      BY <3>1, Zenon DEF Changed
  <2>. HIDE DEF S, F, field
  <2>7. FitsMessage(name, m, S)
    BY <2>1, <2>2, <2>5, <2>6
  <2>. QED
    BY <2>7 DEF S
<1>. QED
  BY <1>7, <1>8

-----------------------------------------------------------------------------
\* All of it together.
InnerCorrect(names) ==
  InnerReads(names) /\ InnerCounts(names) /\ InnerRestores(names) /\ InnerMakes(names)

Correct(names) == Reads(names) /\ Counts(names) /\ Restores(names) /\ Makes(names)

(***************************************************************************)
(* The protocol code of one depth of nesting does what it should, if that  *)
(* of the messages nested in it does (demo.ts).                            *)
(***************************************************************************)
THEOREM CorrectDepth ==
    ASSUME Strings \subseteq STRING, NoText \in Strings, Strings # {NoText},
           NEW inner, InnerCorrect(inner), NEW names,
           \A name \in names : IsTable(name) /\ HoldsOnly(name, inner)
    PROVE  Correct(names)
BY ReadsDepth, CountsDepth, RestoresDepth, MakesDepth DEF Correct, InnerCorrect
=============================================================================
