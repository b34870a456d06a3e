------------------------- MODULE AccumulatorProofs -------------------------
(***************************************************************************)
(* What an accumulating register computes for buffers of every length:     *)
(* lemmas by induction on the length, which is done here by looking at the *)
(* shortest counterexample.                                                *)
(***************************************************************************)
EXTENDS Accumulator, WellFoundedInduction, SequenceTheorems, TLAPS

\* Every nonempty set of naturals has a least element.
LEMMA NatMinimum ==
    ASSUME NEW T \in SUBSET Nat, T # {}
    PROVE  \E m \in T : \A k \in T : m <= k
<1>1. PICK m \in T : \A k \in T : ~ (<<k, m>> \in OpToRel(<, Nat))
  BY WFMin, NatLessThanWellFounded
<1>2. \A k \in T : m \in Nat /\ k \in Nat /\ ~ (k < m)
  BY <1>1 DEF OpToRel
<1>3. \A k \in T : m <= k
  BY <1>2
<1>4. QED
  BY <1>3

\* The registers after 0, 1, ... bytes of a buffer.
IsRun(h, word, bytes) ==
    h = [n \in 0 .. Len(bytes) |->
            IF n = 0 THEN word ELSE Step(h[n - 1], bytes[n])]

\* A run can be continued by one byte.
LEMMA RunExtends ==
    ASSUME NEW S, NEW word, NEW bytes \in Seq(S), NEW b \in S,
           NEW h, IsRun(h, word, bytes)
    PROVE  LET n == Len(bytes)
           IN  IsRun([k \in 0 .. n + 1 |-> IF k = n + 1 THEN Step(h[n], b) ELSE h[k]],
                     word, Append(bytes, b))
<1> DEFINE n == Len(bytes)
           more == Append(bytes, b)
           g == [k \in 0 .. n + 1 |-> IF k = n + 1 THEN Step(h[n], b) ELSE h[k]]
<1>1. n \in Nat /\ Len(more) = n + 1 /\ more[n + 1] = b
  BY AppendProperties
<1>2. \A k \in 1 .. n : more[k] = bytes[k]
  BY AppendProperties
<1>3. \A k \in 0 .. n : h[k] = IF k = 0 THEN word ELSE Step(h[k - 1], bytes[k])
  BY DEF IsRun
<1>4. ASSUME NEW k \in 0 .. n + 1
      PROVE  g[k] = IF k = 0 THEN word ELSE Step(g[k - 1], more[k])
  <2>1. CASE k = n + 1
    BY <1>1, <2>1
  <2>2. CASE k = 0
    BY <1>1, <1>3, <2>2
  <2>3. CASE k \in 1 .. n
    <3>1. g[k] = h[k] /\ g[k - 1] = h[k - 1] /\ more[k] = bytes[k]
      BY <1>1, <1>2, <2>3
    <3>2. h[k] = Step(h[k - 1], bytes[k])
      BY <1>3, <2>3
    <3>3. QED
      BY <2>3, <3>1, <3>2
  <2>4. QED
    BY <1>1, <2>1, <2>2, <2>3
<1>5. g = [k \in 0 .. Len(more) |-> IF k = 0 THEN word ELSE Step(g[k - 1], more[k])]
  BY <1>1, <1>4
<1>6. QED
  BY <1>5 DEF IsRun

\* A buffer is empty, or another one and a last byte.
LEMMA LastByte ==
    ASSUME NEW S, NEW bytes \in Seq(S), Len(bytes) # 0
    PROVE  \E front \in Seq(S), b \in S :
              bytes = Append(front, b) /\ Len(front) = Len(bytes) - 1
<1> DEFINE n == Len(bytes)
           front == [k \in 1 .. n - 1 |-> bytes[k]]
<1>1. n \in Nat \ {0} /\ bytes[n] \in S
  BY ElementOfSeq
<1>2. front \in Seq(S) /\ Len(front) = n - 1
  BY <1>1, ElementOfSeq
<1>3. bytes = Append(front, bytes[n])
  <2> DEFINE again == Append(front, bytes[n])
  <2>1. again \in Seq(S) /\ Len(again) = n /\ again[n] = bytes[n]
    BY <1>1, <1>2, AppendProperties
  <2>2. \A k \in 1 .. n - 1 : again[k] = bytes[k]
    BY <1>1, <1>2, AppendProperties
  <2>3. \A k \in 1 .. n : again[k] = bytes[k]
    BY <1>1, <2>1, <2>2
  <2> HIDE DEF again
  <2>4. again = bytes
    BY <2>1, <2>3, SeqEqual
  <2>5. QED
    BY <2>4 DEF again
<1>4. QED
  BY <1>1, <1>2, <1>3

\* Induction on buffers: a set of them that is not empty has an empty one in
\* it, or one that it leaves when its last byte is taken away.
LEMMA ShortestBuffer ==
    ASSUME NEW S, NEW Bad \in SUBSET Seq(S), Bad # {}
    PROVE  \/ << >> \in Bad
           \/ \E front \in Seq(S), b \in S : Append(front, b) \in Bad /\ front \notin Bad
<1> DEFINE T == {Len(s) : s \in Bad}
<1>1. T \in SUBSET Nat /\ T # {}
  BY LenProperties
<1>2. PICK m \in T : \A k \in T : m <= k
  BY <1>1, NatMinimum
<1>3. PICK s \in Bad : Len(s) = m
  BY <1>2
<1>4. m \in Nat /\ s \in Seq(S)
  BY <1>1, <1>3
<1>5. CASE Len(s) = 0
  BY <1>3, <1>4, <1>5, EmptySeq
<1>6. CASE Len(s) # 0
  <2>1. PICK front \in Seq(S), b \in S : s = Append(front, b) /\ Len(front) = Len(s) - 1
    BY <1>4, <1>6, LastByte
  <2>2. front \notin Bad
    <3>1. ~ (m <= Len(front))
      BY <1>3, <1>4, <2>1, LenProperties
    <3>2. QED
      BY <1>2, <3>1, Zenon
  <2>3. QED
    BY <1>3, <2>1, <2>2, Zenon
<1>7. QED
  BY <1>5, <1>6

\* Every buffer has a run.
LEMMA RunExists ==
    ASSUME NEW S, NEW word, NEW bytes \in Seq(S)
    PROVE  \E h : IsRun(h, word, bytes)
<1> DEFINE HasRun(s) == \E h : IsRun(h, word, s)
           Bad == {s \in Seq(S) : ~HasRun(s)}
<1>1. SUFFICES ASSUME Bad # {} PROVE FALSE
  OBVIOUS
<1>2. HasRun(<< >>)
  <2>1. IsRun([k \in 0 .. 0 |-> word], word, << >>)
    BY DEF IsRun
  <2>2. QED
    BY <2>1
<1>3. ASSUME NEW front \in Seq(S), NEW b \in S, HasRun(front)
      PROVE  HasRun(Append(front, b))
  BY <1>3, RunExtends
<1> HIDE DEF HasRun
<1>4. << >> \notin Bad
  BY <1>2
<1>5. ASSUME NEW front \in Seq(S), NEW b \in S, front \notin Bad
      PROVE  Append(front, b) \notin Bad
  BY <1>3, <1>5
<1>6. Bad \in SUBSET Seq(S)
  OBVIOUS
<1> HIDE DEF Bad
<1>7. \/ << >> \in Bad
      \/ \E front \in Seq(S), b \in S : Append(front, b) \in Bad /\ front \notin Bad
  BY <1>1, <1>6, ShortestBuffer, Zenon
<1>8. QED
  BY <1>4, <1>5, <1>7, Zenon

-----------------------------------------------------------------------------
\* The loop, as a run: the CHOOSE behind a recursive function finds one.
LEMMA ProcessedIsRun ==
    ASSUME NEW S, NEW word, NEW bytes \in Seq(S)
    PROVE  \E h : IsRun(h, word, bytes) /\ Processed(word, bytes) = h[Len(bytes)]
<1> DEFINE after == CHOOSE h : IsRun(h, word, bytes)
<1>1. IsRun(after, word, bytes)
  BY RunExists
<1>2. Processed(word, bytes) = after[Len(bytes)]
  BY DEF Processed, IsRun
<1>3. QED
  BY <1>1, <1>2

\* Two runs over buffers of one length that agree where the buffers do.
LEMMA RunValue ==
    ASSUME NEW word, NEW bytes, NEW h, IsRun(h, word, bytes), NEW n \in 0 .. Len(bytes)
    PROVE  h[n] = IF n = 0 THEN word ELSE Step(h[n - 1], bytes[n])
BY DEF IsRun

LEMMA RunUnique ==
    ASSUME NEW S, NEW word, NEW bytes \in Seq(S),
           NEW g, IsRun(g, word, bytes), NEW h, IsRun(h, word, bytes)
    PROVE  g[Len(bytes)] = h[Len(bytes)]
<1> DEFINE T == {n \in 0 .. Len(bytes) : g[n] # h[n]}
<1>1. Len(bytes) \in Nat
  BY LenProperties
<1>2. SUFFICES ASSUME T # {} PROVE FALSE
  BY <1>1
<1>3. PICK m \in T : \A k \in T : m <= k
  <2>1. T \in SUBSET Nat
    BY <1>1
  <2>2. QED
    BY <1>2, <2>1, NatMinimum
<1>4. \A n \in 0 .. Len(bytes) :
        /\ g[n] = IF n = 0 THEN word ELSE Step(g[n - 1], bytes[n])
        /\ h[n] = IF n = 0 THEN word ELSE Step(h[n - 1], bytes[n])
  BY RunValue
<1>5. m # 0 /\ m \in 0 .. Len(bytes)
  BY <1>1, <1>3, <1>4
<1>6. g[m - 1] = h[m - 1]
  BY <1>1, <1>3, <1>5
<1>7. g[m] = h[m]
  BY <1>4, <1>5, <1>6
<1>8. QED
  BY <1>3, <1>7

\* The loop over an empty buffer does nothing.
LEMMA ProcessedEmpty == ASSUME NEW word PROVE Processed(word, << >>) = word
<1>1. PICK h : IsRun(h, word, << >>) /\ Processed(word, << >>) = h[Len(<< >>)]
  BY ProcessedIsRun, EmptySeq
<1>2. h[0] = word
  BY <1>1 DEF IsRun
<1>3. QED
  BY <1>1, <1>2

\* The loop over a buffer and one more byte takes one more step.
LEMMA ProcessedAppend ==
    ASSUME NEW S, NEW word, NEW bytes \in Seq(S), NEW b \in S
    PROVE  Processed(word, Append(bytes, b)) = Step(Processed(word, bytes), b)
<1> DEFINE n == Len(bytes)
           more == Append(bytes, b)
<1>1. n \in Nat /\ more \in Seq(S) /\ Len(more) = n + 1
  BY AppendProperties, LenProperties
<1>2. PICK h : IsRun(h, word, bytes) /\ Processed(word, bytes) = h[n]
  BY ProcessedIsRun
<1> DEFINE g == [k \in 0 .. n + 1 |-> IF k = n + 1 THEN Step(h[n], b) ELSE h[k]]
<1>3. IsRun(g, word, more)
  BY <1>2, RunExtends
<1>4. g[n + 1] = Step(h[n], b)
  BY <1>1
<1> HIDE DEF g
<1>5. PICK f : IsRun(f, word, more) /\ Processed(word, more) = f[n + 1]
  BY <1>1, ProcessedIsRun
<1>6. f[n + 1] = g[n + 1]
  BY <1>1, <1>3, <1>5, RunUnique
<1>7. QED
  BY <1>2, <1>4, <1>5, <1>6

-----------------------------------------------------------------------------
\* The register keeps any set that each step keeps.
LEMMA ProcessedClosed ==
    ASSUME NEW S, NEW W, \A w \in W, b \in S : Step(w, b) \in W,
           NEW word \in W, NEW bytes \in Seq(S)
    PROVE  Processed(word, bytes) \in W
<1> DEFINE Bad == {s \in Seq(S) : Processed(word, s) \notin W}
<1>1. SUFFICES ASSUME Bad # {} PROVE FALSE
  OBVIOUS
<1>2. << >> \notin Bad
  BY ProcessedEmpty
<1>3. ASSUME NEW front \in Seq(S), NEW b \in S, front \notin Bad
      PROVE  Append(front, b) \notin Bad
  BY <1>3, ProcessedAppend
<1>4. QED
  BY <1>1, <1>2, <1>3, ShortestBuffer

\* A buffer in two pieces is processed like the whole.
LEMMA ProcessedConcat ==
    ASSUME NEW S, NEW word, NEW first \in Seq(S), NEW second \in Seq(S)
    PROVE  Processed(word, first \o second) = Processed(Processed(word, first), second)
<1> DEFINE mid == Processed(word, first)
           Bad == {s \in Seq(S) : Processed(word, first \o s) # Processed(mid, s)}
<1>1. SUFFICES ASSUME Bad # {} PROVE FALSE
  OBVIOUS
<1>2. << >> \notin Bad
  BY ProcessedEmpty, ConcatEmptySeq
<1>3. ASSUME NEW front \in Seq(S), NEW b \in S, front \notin Bad
      PROVE  Append(front, b) \notin Bad
  <2>1. first \o Append(front, b) = Append(first \o front, b)
    <3>1. <<b>> \in Seq(S) /\ first \o front \in Seq(S)
      BY ConcatProperties
    <3>2. Append(front, b) = front \o <<b>>
      BY AppendIsConcat
    <3>3. Append(first \o front, b) = (first \o front) \o <<b>>
      BY <3>1, AppendIsConcat
    <3>4. first \o (front \o <<b>>) = (first \o front) \o <<b>>
      BY <3>1, ConcatAssociative
    <3>5. QED
      BY <3>2, <3>3, <3>4
  <2>2. first \o front \in Seq(S)
    BY ConcatProperties
  <2>3. Processed(word, Append(first \o front, b)) = Step(Processed(word, first \o front), b)
    <3>1. \A s \in Seq(S) : Processed(word, Append(s, b)) = Step(Processed(word, s), b)
      BY ProcessedAppend
    <3>2. QED
      BY <2>2, <3>1
  <2>4. Processed(mid, Append(front, b)) = Step(Processed(mid, front), b)
    BY ProcessedAppend
  <2>5. QED
    BY <1>3, <2>1, <2>3, <2>4
<1>4. QED
  BY <1>1, <1>2, <1>3, ShortestBuffer

\* If one step never makes two registers equal, no buffer does.
LEMMA ProcessedInjective ==
    ASSUME NEW S, NEW W, \A w \in W, b \in S : Step(w, b) \in W,
           \A v, w \in W, b \in S : Step(v, b) = Step(w, b) => v = w,
           NEW v \in W, NEW w \in W, v # w, NEW bytes \in Seq(S)
    PROVE  Processed(v, bytes) # Processed(w, bytes)
<1> DEFINE Bad == {s \in Seq(S) : Processed(v, s) = Processed(w, s)}
<1>1. SUFFICES ASSUME Bad # {} PROVE FALSE
  OBVIOUS
<1>2. << >> \notin Bad
  BY ProcessedEmpty
<1>3. ASSUME NEW front \in Seq(S), NEW b \in S, front \notin Bad
      PROVE  Append(front, b) \notin Bad
  <2>1. Processed(v, front) \in W /\ Processed(w, front) \in W
    BY ProcessedClosed
  <2>2. Processed(v, Append(front, b)) = Step(Processed(v, front), b)
    BY ProcessedAppend
  <2>3. Processed(w, Append(front, b)) = Step(Processed(w, front), b)
    BY ProcessedAppend
  <2>4. QED
    BY <1>3, <2>1, <2>2, <2>3
<1>4. QED
  BY <1>1, <1>2, <1>3, ShortestBuffer

\* Changing a byte of a buffer that is then continued.
LEMMA ChangeThenAppend ==
    ASSUME NEW S, NEW s \in Seq(S), NEW e \in S, NEW c \in S, NEW k \in 1 .. Len(s)
    PROVE  [Append(s, e) EXCEPT ![k] = c] = Append([s EXCEPT ![k] = c], e)
<1> DEFINE n == Len(s)
           other == [s EXCEPT ![k] = c]
           whole == Append(s, e)
           one == [whole EXCEPT ![k] = c]
           two == Append(other, e)
<1>1. n \in Nat
  BY LenProperties
<1>2. other \in Seq(S) /\ Len(other) = n /\ \A i \in 1 .. n : other[i] = IF i = k THEN c ELSE s[i]
  BY ExceptSeq
<1>3. /\ whole \in Seq(S) /\ Len(whole) = n + 1
      /\ \A i \in 1 .. n : whole[i] = s[i]
      /\ whole[n + 1] = e
  BY AppendProperties
<1> HIDE DEF other, whole
<1>4. /\ one \in Seq(S) /\ Len(one) = n + 1
      /\ \A i \in 1 .. n + 1 : one[i] = IF i = k THEN c ELSE whole[i]
  BY <1>1, <1>3, ExceptSeq
<1>5. /\ two \in Seq(S) /\ Len(two) = n + 1
      /\ \A i \in 1 .. n : two[i] = other[i]
      /\ two[n + 1] = e
  BY <1>2, AppendProperties
<1> HIDE DEF one, two
<1>6. \A i \in 1 .. n + 1 : one[i] = two[i]
  BY <1>1, <1>2, <1>3, <1>4, <1>5
<1>7. one = two
  BY <1>4, <1>5, <1>6, SeqEqual
<1>8. QED
  BY <1>7 DEF one, two, whole, other

LEMMA AppendThenChange ==
    ASSUME NEW S, NEW s \in Seq(S), NEW e \in S, NEW c \in S
    PROVE  [Append(s, e) EXCEPT ![Len(s) + 1] = c] = Append(s, c)
<1> DEFINE n == Len(s)
           whole == Append(s, e)
           one == [whole EXCEPT ![n + 1] = c]
           two == Append(s, c)
<1>1. n \in Nat
  BY LenProperties
<1>2. whole \in Seq(S) /\ Len(whole) = n + 1 /\ \A i \in 1 .. n : whole[i] = s[i]
  BY AppendProperties
<1>3. two \in Seq(S) /\ Len(two) = n + 1 /\ two[n + 1] = c /\ \A i \in 1 .. n : two[i] = s[i]
  BY AppendProperties
<1> HIDE DEF whole, two
<1>4. /\ one \in Seq(S) /\ Len(one) = n + 1
      /\ \A i \in 1 .. n + 1 : one[i] = IF i = n + 1 THEN c ELSE whole[i]
  BY <1>1, <1>2, ExceptSeq
<1> HIDE DEF one
<1>5. \A i \in 1 .. n + 1 : one[i] = two[i]
  BY <1>1, <1>2, <1>3, <1>4
<1>6. one = two
  BY <1>3, <1>4, <1>5, SeqEqual
<1>7. QED
  BY <1>6 DEF one, two, whole

\* If one step never makes two registers equal, and two different bytes never
\* take a register to the same one, a single changed byte changes the result.
LEMMA ChangedByte ==
    ASSUME NEW S, NEW W, \A w \in W, b \in S : Step(w, b) \in W,
           \A v, w \in W, b \in S : Step(v, b) = Step(w, b) => v = w,
           \A w \in W, a, b \in S : Step(w, a) = Step(w, b) => a = b,
           NEW word \in W, NEW bytes \in Seq(S),
           NEW n \in DOMAIN bytes, NEW b \in S, b # bytes[n]
    PROVE  Processed(word, [bytes EXCEPT ![n] = b]) # Processed(word, bytes)
<1> DEFINE Hidden(s) == \E k \in DOMAIN s, c \in S :
                /\ c # s[k]
                /\ Processed(word, [s EXCEPT ![k] = c]) = Processed(word, s)
           Bad == {s \in Seq(S) : Hidden(s)}
<1>1. SUFFICES ASSUME Bad # {} PROVE FALSE
  OBVIOUS
<1>2. << >> \notin Bad
  OBVIOUS
<1>3. ASSUME NEW front \in Seq(S), NEW last \in S, front \notin Bad
      PROVE  Append(front, last) \notin Bad
  <2> DEFINE m == Len(front)
  <2>1. /\ m \in Nat /\ DOMAIN Append(front, last) = 1 .. m + 1 /\ DOMAIN front = 1 .. m
        /\ Append(front, last)[m + 1] = last
        /\ \A i \in 1 .. m : Append(front, last)[i] = front[i]
    BY AppendProperties, LenProperties
  <2>2. \A s \in Seq(S), e \in S : Processed(word, Append(s, e)) = Step(Processed(word, s), e)
    BY ProcessedAppend
  <2>3. \A s \in Seq(S) : Processed(word, s) \in W
    BY ProcessedClosed
  <2>4. ASSUME NEW c \in S, c # last
        PROVE  Processed(word, [Append(front, last) EXCEPT ![m + 1] = c])
                 # Processed(word, Append(front, last))
    <3> DEFINE changed == [Append(front, last) EXCEPT ![m + 1] = c]
    <3>1. changed = Append(front, c)
      BY AppendThenChange
    <3> HIDE DEF changed
    <3>2. Step(Processed(word, front), c) # Step(Processed(word, front), last)
      BY <2>3, <2>4
    <3>3. Processed(word, changed) # Processed(word, Append(front, last))
      BY <2>2, <3>1, <3>2
    <3>4. QED
      BY <3>3 DEF changed
  <2>5. ASSUME NEW k \in 1 .. m, NEW c \in S, c # front[k]
        PROVE  Processed(word, [Append(front, last) EXCEPT ![k] = c])
                 # Processed(word, Append(front, last))
    <3> DEFINE other == [front EXCEPT ![k] = c]
               changed == [Append(front, last) EXCEPT ![k] = c]
    <3>1. other \in Seq(S) /\ changed = Append(other, last)
      BY ExceptSeq, ChangeThenAppend
    <3>2. Processed(word, other) # Processed(word, front)
      BY <1>3, <2>1, <2>5
    <3> HIDE DEF other, changed
    <3>3. Step(Processed(word, other), last) # Step(Processed(word, front), last)
      BY <2>3, <3>1, <3>2
    <3>4. Processed(word, changed) # Processed(word, Append(front, last))
      BY <2>2, <3>1, <3>3
    <3>5. QED
      BY <3>4 DEF changed
  <2>6. ASSUME NEW k \in 1 .. m + 1, NEW c \in S, c # Append(front, last)[k]
        PROVE  Processed(word, [Append(front, last) EXCEPT ![k] = c])
                 # Processed(word, Append(front, last))
    <3> DEFINE Differs(i) == Processed(word, [Append(front, last) EXCEPT ![i] = c])
                                # Processed(word, Append(front, last))
    <3>1. c # last => Differs(m + 1)
      BY <2>4
    <3>2. \A i \in 1 .. m : c # front[i] => Differs(i)
      BY <2>5
    <3> HIDE DEF Differs
    <3>3. CASE k = m + 1
      <4>1. Append(front, last)[k] = last
        BY <2>1, <3>3
      <4>2. Differs(m + 1)
        BY <2>6, <3>1, <4>1
      <4>3. QED
        BY <3>3, <4>2 DEF Differs
    <3>4. CASE k \in 1 .. m
      <4>1. Append(front, last)[k] = front[k]
        BY <2>1, <3>4
      <4>2. Differs(k)
        BY <2>6, <3>2, <3>4, <4>1
      <4>3. QED
        BY <4>2 DEF Differs
    <3>5. k = m + 1 \/ k \in 1 .. m
      <4>1. m \in Nat
        BY <2>1
      <4> HIDE DEF m
      <4>2. QED
        BY <4>1
    <3>6. QED
      BY <3>3, <3>4, <3>5
  <2>7. QED
    BY <2>1, <2>6
<1> HIDE DEF Hidden
<1>4. QED
  BY <1>1, <1>2, <1>3, ShortestBuffer
=============================================================================
