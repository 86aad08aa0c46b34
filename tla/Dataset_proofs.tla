---------------------------- MODULE Dataset_proofs ----------------------------
(***************************************************************************)
(* Proofs about DatasetIndex and DatasetCache, for every number of ranks,  *)
(* every corpus and every blend, and however often writing fails and the   *)
(* job dies: the epochs are enough for the samples asked for, the          *)
(* assertions about the last epoch hold, build_sample_idx never reads past *)
(* doc_idx, and what a rank trains on is a complete index that tiles the   *)
(* stream of documents, or a complete blend of samples that exist; through *)
(* that index it reads every sample once, each the tokens of its place.    *)
(***************************************************************************)
EXTENDS DatasetCache, FiniteSetTheorems, SequenceTheorems, TLAPS

-----------------------------------------------------------------------------
\* Facts about numbers.

\* A product grows with its factor by at least the other one.
LEMMA NextMultiple ==
  ASSUME NEW a \in Int, NEW b \in Int, NEW s \in Nat, a < b
  PROVE  a * s + s <= b * s
<1>1. PICK d \in Nat : b = a + 1 + d
  <2>1. b - a - 1 \in Nat /\ b = a + 1 + (b - a - 1)
    OBVIOUS
  <2> QED BY <2>1
<1>2. b * s = a * s + s + d * s
  BY <1>1
<1>3. d * s \in Nat
  OBVIOUS
<1> QED BY <1>2, <1>3

\* Division with remainder.
LEMMA Quotient ==
  ASSUME NEW j \in Int, NEW s \in Nat \ {0}
  PROVE  /\ j \div s \in Int
         /\ j % s \in 0 .. s - 1
         /\ j = (j \div s) * s + (j % s)
  OBVIOUS

\* The quotient of a natural number is one.
LEMMA QuotientOfNat ==
  ASSUME NEW x \in Nat, NEW s \in Nat \ {0}
  PROVE  x \div s \in Nat
<1> DEFINE q == x \div s
           r == x % s
<1>1. q \in Int /\ r \in 0 .. s - 1 /\ x = q * s + r
  BY Quotient
<1> HIDE DEF q, r
<1>2. CASE q < 0
  <2>1. q * s + s <= 0 * s
    BY <1>1, <1>2, NextMultiple
  <2>2. q * s \in Int
    BY <1>1
  <2> QED BY <1>1, <2>1, <2>2
<1>3. q \in Nat
  BY <1>1, <1>2
<1> QED BY <1>3 DEF q

\* A set of numbers that is not empty has a least element.
LEMMA LeastElement ==
  ASSUME NEW C \in SUBSET Nat, C # {}
  PROVE  \E m \in C : \A k \in C : m <= k
<1> DEFINE Less == StrictSubsetOrdering(Nat)
           F == FiniteSubsetsOf(Nat)
           T == {1 .. n : n \in C}
<1>1. IsWellFoundedOn(Less, F)
  BY FS_StrictSubsetOrderingWellFounded
<1>2. T \subseteq F
  <2>1. ASSUME NEW n \in C PROVE 1 .. n \in F
    <3>1. IsFiniteSet(1 .. n)
      BY FS_Interval
    <3> QED BY <3>1 DEF FiniteSubsetsOf
  <2> QED BY <2>1
<1>3. T # {}
  OBVIOUS
<1>4. PICK x \in T : \A y \in T : ~ (<<y, x>> \in Less)
  <2> HIDE DEF Less, F, T
  <2> QED BY <1>1, <1>2, <1>3, WFMin
<1>5. PICK m \in C : x = 1 .. m
  OBVIOUS
<1>6. ASSUME NEW k \in C, k < m
      PROVE  FALSE
  <2>1. 1 .. k \in T
    OBVIOUS
  <2>2. ~ (<<1 .. k, 1 .. m>> \in Less)
    BY <1>4, <1>5, <2>1
  <2>3. 1 .. k \subseteq 1 .. m /\ m \in 1 .. m /\ m \notin 1 .. k
    BY <1>6
  <2>4. 1 .. k \in SUBSET Nat /\ 1 .. m \in SUBSET Nat
    OBVIOUS
  <2>5. <<1 .. k, 1 .. m>> \in Less
    BY <2>3, <2>4 DEF StrictSubsetOrdering
  <2> QED BY <2>2, <2>5
<1> QED BY <1>6

\* A set that has 0 and with every number the next one has them all.
LEMMA SetInduction ==
  ASSUME NEW T \in SUBSET Nat, 0 \in T, \A n \in T : n + 1 \in T
  PROVE  T = Nat
<1> DEFINE C == Nat \ T
<1>1. SUFFICES ASSUME C # {} PROVE FALSE
  OBVIOUS
<1>2. PICK x \in C : \A k \in C : x <= k
  BY <1>1, LeastElement
<1>3. x - 1 \in Nat /\ x - 1 \in T
  BY <1>2
<1> QED BY <1>2, <1>3

-----------------------------------------------------------------------------
\* Finitely many numbers have a first largest one.
LEMMA FirstLargest ==
  ASSUME NEW n \in Nat \ {0}, NEW f \in [1 .. n -> Int]
  PROVE  \E k \in 1 .. n : \A i \in 1 .. n : f[i] <= f[k] /\ (i < k => f[i] < f[k])
<1> DEFINE Largest(k, m) == \A i \in 1 .. m : f[i] <= f[k] /\ (i < k => f[i] < f[k])
           T == {m \in Nat : m \in 1 .. n => \E k \in 1 .. m : Largest(k, m)}
<1>1. 0 \in T
  OBVIOUS
<1>2. ASSUME NEW m \in T PROVE m + 1 \in T
  <2>1. SUFFICES ASSUME m + 1 \in 1 .. n
                 PROVE  \E k \in 1 .. m + 1 : Largest(k, m + 1)
    OBVIOUS
  <2>2. CASE m = 0
    <3>1. Largest(1, m + 1)
      BY <2>1, <2>2
    <3> QED BY <2>2, <3>1
  <2>3. CASE m # 0
    <3>1. m \in 1 .. n
      BY <2>1, <2>3
    <3>2. PICK k \in 1 .. m : Largest(k, m)
      BY <3>1
    <3>3. CASE f[k] < f[m + 1]
      <4>1. \A i \in 1 .. m : f[i] < f[m + 1]
        BY <2>1, <3>1, <3>2, <3>3
      <4>2. Largest(m + 1, m + 1)
        BY SMTT(60), <2>1, <4>1
      <4> QED BY <4>2
    <3>4. CASE f[m + 1] <= f[k]
      <4>1. Largest(k, m + 1)
        BY <2>1, <3>1, <3>2, <3>4
      <4> QED BY <4>1
    <3> QED BY <2>1, <3>1, <3>3, <3>4
  <2> QED BY <2>2, <2>3
<1>3. T = Nat
  <2> HIDE DEF T
  <2>1. T \in SUBSET Nat
    BY DEF T
  <2> QED BY <1>1, <1>2, <2>1, SetInduction
<1>4. n \in T /\ n \in 1 .. n
  <2> HIDE DEF T
  <2> QED BY <1>3
<1> QED BY <1>4

-----------------------------------------------------------------------------
\* Epochs.

\* What a corpus has to be for the arithmetic.
IsCorpus(c) ==
  /\ c.seq_length \in Nat \ {0} /\ c.num_samples \in Nat
  /\ TokensPerEpoch(c) \in Nat \ {0}

\* The epochs have more tokens than the samples need, and one epoch less
\* does not: _num_epochs ends at the first number that is enough.
LEMMA EpochsEnough ==
  ASSUME NEW c, IsCorpus(c)
  PROVE  /\ NumEpochs(c) \in Nat \ {0}
         /\ NumTokens(c) \in Nat \ {0}
         /\ c.seq_length * c.num_samples < NumTokens(c)
         /\ (NumEpochs(c) - 1) * TokensPerEpoch(c) <= c.seq_length * c.num_samples
         /\ NumTokens(c) = (NumEpochs(c) - 1) * TokensPerEpoch(c) + TokensPerEpoch(c)
<1> DEFINE S == c.seq_length
           N == c.num_samples
           T == TokensPerEpoch(c)
           q == (S * N) \div T
<1>1. S \in Nat \ {0} /\ N \in Nat /\ T \in Nat \ {0}
  BY DEF IsCorpus
<1> HIDE DEF S, N, T
<1>2. S * N \in Nat
  BY <1>1
<1>3. q \in Nat /\ (S * N) % T \in 0 .. T - 1 /\ S * N = q * T + ((S * N) % T)
  <2> DEFINE x == S * N
  <2>1. x \in Nat /\ x \in Int
    BY <1>2
  <2> HIDE DEF x
  <2>2. x \div T \in Nat /\ x % T \in 0 .. T - 1 /\ x = (x \div T) * T + (x % T)
    BY <1>1, <2>1, Quotient, QuotientOfNat
  <2> QED BY <2>2 DEF x
<1>4. NumEpochs(c) = q + 1
  BY DEF NumEpochs, S, N, T
<1>5. NumTokens(c) = NumEpochs(c) * T
  BY DEF NumTokens, T
<1> HIDE DEF q
<1>6. q * T \in Nat /\ (q + 1) * T = q * T + T /\ (q + 1) - 1 = q
  BY <1>1, <1>3
<1>7. /\ NumEpochs(c) \in Nat \ {0} /\ NumEpochs(c) - 1 = q /\ NumTokens(c) = q * T + T
  BY <1>3, <1>4, <1>5, <1>6
<1>8. S * N < q * T + T /\ q * T <= S * N /\ q * T + T \in Nat \ {0}
  BY <1>1, <1>2, <1>3, <1>6
<1> QED BY <1>7, <1>8 DEF S, N, T

\* A quotient is at least n if and only if n divisors fit.
LEMMA QuotientAtLeast ==
  ASSUME NEW x \in Int, NEW s \in Nat \ {0}, NEW n \in Int
  PROVE  n <= x \div s <=> n * s <= x
<1> DEFINE q == x \div s
           r == x % s
<1>1. q \in Int /\ r \in 0 .. s - 1 /\ x = q * s + r
  BY Quotient
<1> HIDE DEF q, r
<1>2. q * s \in Int /\ n * s \in Int
  BY <1>1
<1>3. ASSUME n <= q PROVE n * s <= x
  <2>1. CASE n = q
    BY <1>1, <1>2, <2>1
  <2>2. CASE n < q
    <3>1. n * s + s <= q * s
      BY <1>1, <2>2, NextMultiple
    <3> QED BY <1>1, <1>2, <3>1
  <2> QED BY <1>1, <1>3, <2>1, <2>2
<1>4. ASSUME q < n PROVE x < n * s
  <2>1. q * s + s <= n * s
    BY <1>1, <1>4, NextMultiple
  <2> QED BY <1>1, <1>2, <2>1
<1>5. n <= q <=> n * s <= x
  BY <1>1, <1>2, <1>3, <1>4
<1> QED BY <1>5 DEF q

\* A dataset has at least the samples it was asked for.
LEMMA SamplesEnough ==
  ASSUME NEW c, IsCorpus(c)
  PROVE  NumSamples(c) \in Nat /\ c.num_samples <= NumSamples(c)
<1> DEFINE S == c.seq_length
           N == c.num_samples
           x == NumTokens(c) - 1
<1>1. S \in Nat \ {0} /\ N \in Nat
  BY DEF IsCorpus
<1>2. NumTokens(c) \in Nat \ {0} /\ S * N < NumTokens(c)
  BY EpochsEnough
<1>3. x \in Nat /\ N * S <= x
  BY <1>1, <1>2
<1>4. NumSamples(c) = x \div S
  BY DEF NumSamples
<1> HIDE DEF S, N, x
<1>5. x \div S \in Nat /\ N <= x \div S
  BY <1>1, <1>3, QuotientOfNat, QuotientAtLeast
<1>6. NumSamples(c) \in Nat /\ N <= NumSamples(c)
  BY <1>4, <1>5
<1> QED BY <1>6 DEF N

\* The assertions of _build_index_mappings about the last of several epochs
\* hold: it is asked for at least one sample, and at most one more than a
\* single epoch has.
THEOREM LastEpochAsserts ==
  ASSUME NEW c, IsCorpus(c), NumEpochs(c) > 1
  PROVE  0 <= LastEpochNumSamples(c) /\ LastEpochNumSamples(c) <= NumSamplesPerEpoch(c) + 1
<1> DEFINE S == c.seq_length
           N == c.num_samples
           T == TokensPerEpoch(c)
           U == (NumEpochs(c) - 1) * T
           a == (U - 1) \div S
           p == (T - 1) \div S
<1>1. S \in Nat \ {0} /\ N \in Nat /\ T \in Nat \ {0} /\ S * N = N * S /\ N * S \in Int
  BY DEF IsCorpus
<1>2. U \in Int /\ U <= N * S /\ N * S < U + T
  <2>1. NumEpochs(c) - 1 \in Int
    BY EpochsEnough
  <2>2. U <= S * N /\ S * N < NumTokens(c) /\ NumTokens(c) = U + T
    BY EpochsEnough
  <2> QED BY <1>1, <2>1, <2>2
<1>3. LastEpochNumSamples(c) = N - a /\ NumSamplesPerEpoch(c) = p
  BY DEF LastEpochNumSamples, SamplesFromEpochsMinusOne, NumSamplesPerEpoch
<1> HIDE DEF S, N, T, U
<1>4. a \in Int /\ (U - 1) % S \in 0 .. S - 1 /\ U - 1 = a * S + ((U - 1) % S)
  <2>1. U - 1 \in Int
    BY <1>2
  <2> QED BY <1>1, <2>1, Quotient
<1>5. p \in Int /\ (T - 1) % S \in 0 .. S - 1 /\ T - 1 = p * S + ((T - 1) % S)
  <2>1. T - 1 \in Int
    BY <1>1
  <2> QED BY <1>1, <2>1, Quotient
<1> HIDE DEF a, p
<1>6. a <= N
  <2>1. CASE N < a
    <3>1. N * S + S <= a * S
      BY <1>1, <1>4, <2>1, NextMultiple
    <3>2. a * S \in Int
      BY <1>1, <1>4
    <3> QED BY <1>1, <1>2, <1>4, <3>1, <3>2
  <2> QED BY <1>1, <1>4, <2>1
<1>7. N <= a + p + 1
  <2> DEFINE k == a + p + 1
  <2>1. k \in Int /\ k * S = a * S + p * S + S /\ a * S \in Int /\ p * S \in Int
    BY <1>1, <1>4, <1>5
  <2>2. N * S < k * S + S
    BY <1>1, <1>2, <1>4, <1>5, <2>1
  <2> HIDE DEF k
  <2>3. ASSUME k < N
        PROVE  FALSE
    <3>1. k * S + S <= N * S
      BY <1>1, <2>1, <2>3, NextMultiple
    <3>2. k * S \in Int
      BY <1>1, <2>1
    <3> QED BY <1>1, <2>2, <3>1, <3>2
  <2>4. N \in Int /\ k \in Int
    BY <1>1, <2>1
  <2>5. N <= k
    BY ONLY <2>3, <2>4
  <2> QED BY <2>5 DEF k
<1> QED BY <1>1, <1>3, <1>4, <1>5, <1>6, <1>7

-----------------------------------------------------------------------------
\* Building the sample index.

\* What a corpus has to be for its index to be built.
IsIndexed(c) ==
  /\ IsCorpus(c)
  /\ IsFiniteSet(Documents(c)) /\ \A d \in Documents(c) : c.sizes[d] \in Nat
  /\ IsDocIdx(c) /\ IsStart(c)

\* Entry i of the index is the place where sample i begins: the token of a
\* document, but that the first document may be empty.
StartsAt(c, e, i) ==
  /\ e.doc \in DOMAIN c.doc_idx
  /\ e.offset \in 0 .. c.sizes[c.doc_idx[e.doc]]
  /\ e.offset = c.sizes[c.doc_idx[e.doc]] => i = 0
  /\ c.start[e.doc] + e.offset = i * c.seq_length

SamplesTile(c, sample_idx) ==
  \A i \in 1 .. Len(sample_idx) : StartsAt(c, sample_idx[i], i - 1)

\* The loops keep count: what is read and what remains of the sample end
\* where the sample ends.
Build == [sample_idx : Seq([doc : Nat, offset : Nat]), doc_idx_index : Nat,
          doc_offset : Nat, remaining_seq_length : Nat]

BuildInv(c, b) ==
  /\ b \in Build
  /\ b.sample_idx # <<>> /\ b.remaining_seq_length # 0
  /\ Len(b.sample_idx) <= NumSamples(c) + 1
  /\ SamplesTile(c, b.sample_idx)
  /\ b.doc_idx_index \in 0 .. Entries(c)
  /\ b.doc_idx_index = Entries(c) => b.doc_offset = 0
  /\ b.doc_idx_index < Entries(c) =>
       b.doc_offset <= c.sizes[c.doc_idx[b.doc_idx_index]]
  /\ c.start[b.doc_idx_index] + b.doc_offset + b.remaining_seq_length
       = Len(b.sample_idx) * c.seq_length + 1

\* What IsIndexed says of the entries of doc_idx.
LEMMA EntriesFacts ==
  ASSUME NEW c, IsIndexed(c)
  PROVE  /\ Entries(c) \in Nat
         /\ DOMAIN c.doc_idx = 0 .. Entries(c) - 1
         /\ \A i \in 0 .. Entries(c) - 1 :
              /\ c.sizes[c.doc_idx[i]] \in Nat
              /\ c.start[i + 1] = c.start[i] + c.sizes[c.doc_idx[i]]
         /\ \A i \in 0 .. Entries(c) : c.start[i] \in Nat
         /\ c.start[0] = 0 /\ c.start[Entries(c)] = NumTokens(c)
<1>1. Cardinality(Documents(c)) \in Nat
  BY FS_CardinalityType DEF IsIndexed
<1>2. NumEpochs(c) \in Nat
  BY EpochsEnough DEF IsIndexed
<1>3. Entries(c) \in Nat
  BY <1>1, <1>2 DEF Entries
<1>4. c.doc_idx \in [0 .. Entries(c) - 1 -> Documents(c)]
  BY DEF IsIndexed, IsDocIdx
<1>5. ASSUME NEW i \in 0 .. Entries(c) - 1
      PROVE  c.start[i + 1] = c.start[i] + c.sizes[c.doc_idx[i]]
  <2>1. i + 1 \in 1 .. Entries(c) /\ (i + 1) - 1 = i
    BY <1>3
  <2>2. \A k \in 1 .. Entries(c) : c.start[k] = c.start[k - 1] + c.sizes[c.doc_idx[k - 1]]
    BY DEF IsIndexed, IsStart, SumsUp
  <2> QED BY <2>1, <2>2
<1>6. ASSUME NEW i \in 0 .. Entries(c) - 1
      PROVE  c.sizes[c.doc_idx[i]] \in Nat
  BY <1>4 DEF IsIndexed
<1>7. /\ c.start \in [0 .. Entries(c) -> Nat]
      /\ c.start[0] = 0 /\ c.start[Entries(c)] = NumTokens(c)
  BY DEF IsIndexed, IsStart, SumsUp
<1> QED BY <1>3, <1>4, <1>5, <1>6, <1>7

\* While samples are missing the builder is at an entry of doc_idx: what it
\* reads without a bound check exists.
LEMMA BuilderInBounds ==
  ASSUME NEW c, IsIndexed(c), NEW b, BuildInv(c, b), MoreSamples(c, b)
  PROVE  b.doc_idx_index \in 0 .. Entries(c) - 1
<1> DEFINE n == Len(b.sample_idx)
           S == c.seq_length
<1>1. S \in Nat \ {0} /\ n \in Nat /\ n * S \in Int
  BY DEF IsIndexed, IsCorpus, BuildInv, Build
<1>2. Entries(c) \in Nat /\ c.start[Entries(c)] = NumTokens(c)
  BY EntriesFacts
<1>3. NumTokens(c) \in Nat \ {0} /\ NumSamples(c) \in Nat
  BY EpochsEnough, SamplesEnough DEF IsIndexed
<1>4. n * S <= NumTokens(c) - 1
  <2>1. n <= (NumTokens(c) - 1) \div S
    BY DEF MoreSamples, NumSamples
  <2>2. NumTokens(c) - 1 \in Int /\ n \in Int
    BY <1>1, <1>3
  <2> HIDE DEF n, S
  <2> QED BY <1>1, <2>1, <2>2, QuotientAtLeast
<1>5. ASSUME b.doc_idx_index = Entries(c)
      PROVE  FALSE
  <2>1. NumTokens(c) + b.remaining_seq_length = n * S + 1 /\ b.remaining_seq_length \in Nat \ {0}
    <3>1. /\ b.doc_offset = 0 /\ b.remaining_seq_length \in Nat \ {0}
          /\ c.start[b.doc_idx_index] + b.doc_offset + b.remaining_seq_length = n * S + 1
      BY <1>5 DEF BuildInv, Build
    <3> HIDE DEF n, S
    <3> QED BY <1>1, <1>2, <1>3, <1>5, <3>1
  <2> HIDE DEF n, S
  <2> QED BY <1>1, <1>3, <1>4, <2>1
<1>6. b.doc_idx_index \in 0 .. Entries(c)
  BY DEF BuildInv
<1> QED BY <1>2, <1>5, <1>6

\* What going on to the next document leaves of the build.
LEMMA NextFields ==
  ASSUME NEW c, NEW b \in Build
  PROVE  LET e == NextDocument(c, b)
         IN /\ e.sample_idx = b.sample_idx /\ e.doc_idx_index = b.doc_idx_index + 1
            /\ e.doc_offset = 0 /\ e.remaining_seq_length = Remaining(c, b)
            /\ Remaining(c, b) \in Nat => e \in Build
<1>1. PICK r : r = Remaining(c, b)
  OBVIOUS
<1>2. PICK i \in Nat : i = b.doc_idx_index + 1
  <2>1. b.doc_idx_index + 1 \in Nat
    BY DEF Build
  <2> QED BY <2>1
<1>3. PICK e : e = [b EXCEPT !.doc_idx_index = i, !.doc_offset = 0, !.remaining_seq_length = r]
  OBVIOUS
<1>4. e = NextDocument(c, b)
  BY <1>1, <1>2, <1>3 DEF NextDocument
<1>5. /\ e.sample_idx = b.sample_idx /\ e.doc_idx_index = i
      /\ e.doc_offset = 0 /\ e.remaining_seq_length = r
      /\ r \in Nat => e \in Build
  BY <1>3 DEF Build
<1> QED BY <1>1, <1>2, <1>4, <1>5

EndOffset(c, b) == b.doc_offset + (Remaining(c, b) + DocLength(c, b) - 1)
EndEntry(c, b) == [doc |-> b.doc_idx_index, offset |-> EndOffset(c, b)]

\* What the end of a sample leaves of it.
LEMMA EndFields ==
  ASSUME NEW c, NEW b \in Build
  PROVE  LET e == EndSample(c, b)
         IN /\ e.sample_idx = Append(b.sample_idx, EndEntry(c, b))
            /\ e.doc_idx_index = b.doc_idx_index
            /\ e.doc_offset = EndOffset(c, b)
            /\ e.remaining_seq_length = c.seq_length + 1
            /\ e.sample_idx \in Seq([doc : Nat, offset : Nat]) /\ EndOffset(c, b) \in Nat
                 /\ c.seq_length \in Nat => e \in Build
<1>1. PICK s : s = Append(b.sample_idx, EndEntry(c, b))
  OBVIOUS
<1>2. PICK o : o = EndOffset(c, b)
  OBVIOUS
<1>3. PICK r : r = c.seq_length + 1
  OBVIOUS
<1>4. PICK e : e = [b EXCEPT !.sample_idx = s, !.doc_offset = o, !.remaining_seq_length = r]
  OBVIOUS
<1>5. e = EndSample(c, b)
  BY <1>1, <1>2, <1>3, <1>4 DEF EndSample, EndEntry, EndOffset
<1>6. /\ e.sample_idx = s /\ e.doc_idx_index = b.doc_idx_index
      /\ e.doc_offset = o /\ e.remaining_seq_length = r
      /\ s \in Seq([doc : Nat, offset : Nat]) /\ o \in Nat /\ r \in Nat => e \in Build
  BY <1>4 DEF Build
<1>7. c.seq_length \in Nat => r \in Nat
  BY <1>3
<1> QED BY <1>1, <1>2, <1>3, <1>5, <1>6, <1>7

\* The build starts with its invariant.
LEMMA SamplesStart ==
  ASSUME NEW c, IsIndexed(c)
  PROVE  BuildInv(c, StartSamples(c))
<1> DEFINE b == StartSamples(c)
           S == c.seq_length
<1>1. S \in Nat \ {0} /\ NumSamples(c) \in Nat
  BY SamplesEnough DEF IsIndexed, IsCorpus
<1>2. /\ Entries(c) \in Nat /\ DOMAIN c.doc_idx = 0 .. Entries(c) - 1
      /\ c.start[0] = 0 /\ c.start[Entries(c)] = NumTokens(c)
      /\ \A i \in 0 .. Entries(c) - 1 : c.sizes[c.doc_idx[i]] \in Nat
  BY EntriesFacts
<1>3. NumTokens(c) \in Nat \ {0}
  BY EpochsEnough DEF IsIndexed
<1>4. 0 \in 0 .. Entries(c) - 1
  BY <1>2, <1>3
<1>5. /\ b.sample_idx = <<[doc |-> 0, offset |-> 0]>> /\ b.doc_idx_index = 0
      /\ b.doc_offset = 0 /\ b.remaining_seq_length = S + 1
      /\ b \in Build
  BY <1>1 DEF StartSamples, Build
<1> HIDE DEF b, S
<1>6. b.sample_idx # <<>> /\ Len(b.sample_idx) = 1
  BY <1>5
<1>7. SamplesTile(c, b.sample_idx)
  <2>1. b.sample_idx[1].doc = 0 /\ b.sample_idx[1].offset = 0
    BY <1>5
  <2>2. 0 * c.seq_length = 0
    BY <1>1 DEF S
  <2>3. ASSUME NEW e, e.doc = 0, e.offset = 0
        PROVE  StartsAt(c, e, 0)
    <3>1. c.sizes[c.doc_idx[0]] \in Nat /\ 0 \in DOMAIN c.doc_idx /\ c.start[0] = 0
      BY <1>2, <1>4
    <3>2. e.doc \in DOMAIN c.doc_idx /\ e.offset \in 0 .. c.sizes[c.doc_idx[e.doc]]
      BY <2>3, <3>1
    <3>3. c.start[e.doc] + e.offset = 0 * c.seq_length
      BY <2>2, <2>3, <3>1
    <3> QED BY <3>2, <3>3 DEF StartsAt
  <2>4. StartsAt(c, b.sample_idx[1], 0)
    BY <2>1, <2>3
  <2> QED BY <1>6, <2>4 DEF SamplesTile
<1>8. c.start[b.doc_idx_index] + b.doc_offset + b.remaining_seq_length
       = Len(b.sample_idx) * S + 1
  <2>1. Len(b.sample_idx) * S = S
    BY <1>1, <1>6
  <2> QED BY <1>1, <1>2, <1>5, <2>1
<1>9. /\ b.doc_idx_index \in 0 .. Entries(c) /\ b.remaining_seq_length # 0
      /\ Len(b.sample_idx) <= NumSamples(c) + 1
      /\ b.doc_idx_index < Entries(c) => b.doc_offset <= c.sizes[c.doc_idx[b.doc_idx_index]]
  BY <1>1, <1>2, <1>4, <1>5, <1>6
<1> QED BY <1>5, <1>6, <1>7, <1>8, <1>9 DEF BuildInv, S, b

\* It keeps it when a sample goes on in the next document.
LEMMA SamplesGoOn ==
  ASSUME NEW c, IsIndexed(c), NEW b, BuildInv(c, b), MoreSamples(c, b),
         ~ (Remaining(c, b) <= 0)
  PROVE  BuildInv(c, NextDocument(c, b))
<1> DEFINE n == Len(b.sample_idx)
           S == c.seq_length
           d == b.doc_idx_index
           size == c.sizes[c.doc_idx[d]]
           e == NextDocument(c, b)
<1>1. d \in 0 .. Entries(c) - 1 /\ Entries(c) \in Nat
  BY BuilderInBounds, EntriesFacts
<1>2. size \in Nat /\ c.start[d] \in Nat /\ c.start[d + 1] = c.start[d] + size
  BY SMTT(60), <1>1, EntriesFacts
<1>3. /\ b.doc_offset \in Nat /\ b.remaining_seq_length \in Nat \ {0}
      /\ c.start[d] + b.doc_offset + b.remaining_seq_length = n * S + 1
      /\ S \in Nat /\ n \in Nat /\ n * S \in Int
      /\ b.doc_offset <= size
  BY SMTT(60), <1>1 DEF BuildInv, Build, IsIndexed, IsCorpus
<1>4. Remaining(c, b) = b.remaining_seq_length - (size - b.doc_offset)
  BY DEF Remaining, DocLength
<1>5. /\ e.sample_idx = b.sample_idx /\ e.doc_idx_index = d + 1
      /\ e.doc_offset = 0 /\ e.remaining_seq_length = Remaining(c, b)
      /\ Remaining(c, b) \in Nat => e \in Build
  <2>1. b \in Build
    BY DEF BuildInv
  <2> QED BY <2>1, NextFields
<1>6. /\ b.sample_idx # <<>>
      /\ n <= NumSamples(c) + 1 /\ SamplesTile(c, b.sample_idx)
  BY DEF BuildInv
<1>7. \A i \in 0 .. Entries(c) - 1 : c.sizes[c.doc_idx[i]] \in Nat
  BY EntriesFacts
<1> HIDE DEF n, S, d, size, e
<1>8. e.remaining_seq_length \in Nat \ {0}
  BY <1>2, <1>3, <1>4, <1>5
<1>9. c.start[e.doc_idx_index] + e.doc_offset + e.remaining_seq_length = n * S + 1
  BY <1>2, <1>3, <1>4, <1>5
<1>10. e.doc_idx_index \in 0 .. Entries(c)
  BY <1>1, <1>5
<1>11. e.doc_idx_index < Entries(c) => e.doc_offset <= c.sizes[c.doc_idx[e.doc_idx_index]]
  BY <1>5, <1>7, <1>10, <1>1
<1> QED BY <1>5, <1>6, <1>8, <1>9, <1>10, <1>11 DEF BuildInv, n, S, e

\* It keeps it when a sample ends in this one.
LEMMA SamplesEnd ==
  ASSUME NEW c, IsIndexed(c), NEW b, BuildInv(c, b), MoreSamples(c, b),
         Remaining(c, b) <= 0
  PROVE  BuildInv(c, EndSample(c, b))
<1> DEFINE n == Len(b.sample_idx)
           S == c.seq_length
           d == b.doc_idx_index
           size == c.sizes[c.doc_idx[d]]
           offset == EndOffset(c, b)
           entry == EndEntry(c, b)
           e == EndSample(c, b)
<1>1. d \in 0 .. Entries(c) - 1 /\ Entries(c) \in Nat /\ DOMAIN c.doc_idx = 0 .. Entries(c) - 1
  BY BuilderInBounds, EntriesFacts
<1>2. size \in Nat /\ c.start[d] \in Nat
  BY <1>1, EntriesFacts
<1>3. /\ b.doc_offset \in Nat /\ b.remaining_seq_length \in Nat \ {0}
      /\ c.start[d] + b.doc_offset + b.remaining_seq_length = n * S + 1
      /\ S \in Nat \ {0} /\ n \in Nat /\ n * S \in Int
      /\ b.doc_offset <= size
  BY SMTT(60), <1>1 DEF BuildInv, Build, IsIndexed, IsCorpus
<1>4. /\ Remaining(c, b) = b.remaining_seq_length - DocLength(c, b)
      /\ DocLength(c, b) = size - b.doc_offset
  BY DEF Remaining, DocLength
<1>5. /\ e.sample_idx = Append(b.sample_idx, entry) /\ e.doc_idx_index = d
      /\ e.doc_offset = offset /\ e.remaining_seq_length = S + 1
  <2>1. b \in Build
    BY DEF BuildInv
  <2> QED BY <2>1, EndFields
<1>6. /\ b.sample_idx \in Seq([doc : Nat, offset : Nat])
      /\ SamplesTile(c, b.sample_idx)
  BY DEF BuildInv, Build
<1>7. n <= NumSamples(c) /\ NumSamples(c) \in Nat
  BY SamplesEnough DEF MoreSamples, IsIndexed
<1>8. /\ offset = b.doc_offset + b.remaining_seq_length - 1
      /\ offset \in 0 .. size /\ offset # size
  <2>1. offset = b.doc_offset + (Remaining(c, b) + DocLength(c, b) - 1)
    BY DEF EndOffset
  <2> HIDE DEF n, S, d, size, offset
  <2> QED BY <1>2, <1>3, <1>4, <2>1
<1> HIDE DEF offset
<1>9. entry \in [doc : Nat, offset : Nat] /\ StartsAt(c, entry, n)
  <2>2. entry = [doc |-> d, offset |-> offset]
    BY DEF EndEntry, offset
  <2> HIDE DEF entry
  <2>1. c.start[d] + offset = n * S
    <3> DEFINE x == n * S
               y == c.start[d]
    <3>1. x \in Int /\ y \in Nat /\ y + b.doc_offset + b.remaining_seq_length = x + 1
      BY <1>2, <1>3
    <3> HIDE DEF n, S, d, size, x, y
    <3>2. offset = b.doc_offset + b.remaining_seq_length - 1
      BY <1>8
    <3>3. b.doc_offset \in Nat /\ b.remaining_seq_length \in Nat
      BY <1>3
    <3>4. y + offset = x
      BY ONLY <3>1, <3>2, <3>3
    <3> QED BY <3>4 DEF x, y
  <2> QED BY <1>1, <1>2, <1>8, <2>1, <2>2 DEF StartsAt
<1> HIDE DEF entry, e
<1>10. /\ e.sample_idx \in Seq([doc : Nat, offset : Nat]) /\ e.sample_idx # <<>>
       /\ Len(e.sample_idx) = n + 1 /\ e.sample_idx[n + 1] = entry
       /\ \A i \in 1 .. n : e.sample_idx[i] = b.sample_idx[i]
  <2> DEFINE E == [doc : Nat, offset : Nat]
             s == b.sample_idx
  <2>1. s \in Seq(E) /\ entry \in E /\ e.sample_idx = Append(s, entry)
    BY <1>5, <1>6, <1>9
  <2> HIDE DEF E, s
  <2>2. /\ e.sample_idx \in Seq(E) /\ Len(e.sample_idx) = Len(s) + 1
        /\ e.sample_idx[Len(s) + 1] = entry
        /\ \A i \in 1 .. Len(s) : e.sample_idx[i] = s[i]
    BY <2>1
  <2>3. e.sample_idx # <<>>
    BY <2>1, <2>2
  <2> QED BY <2>2, <2>3 DEF E, s
<1>11. SamplesTile(c, e.sample_idx)
  <2>1. SUFFICES ASSUME NEW i \in 1 .. n + 1
                 PROVE  StartsAt(c, e.sample_idx[i], i - 1)
    BY <1>10 DEF SamplesTile
  <2>2. CASE i = n + 1
    BY SMTT(60), <1>3, <1>9, <1>10, <2>2
  <2>3. CASE i \in 1 .. n
    BY <1>6, <1>10, <2>3 DEF SamplesTile
  <2> QED BY <1>3, <2>2, <2>3
<1>12. c.start[e.doc_idx_index] + e.doc_offset + e.remaining_seq_length
        = Len(e.sample_idx) * S + 1
  <2>1. (n + 1) * S = n * S + S
    BY <1>3
  <2>2. c.start[d] + offset + (S + 1) = (n * S + S) + 1
    <3> HIDE DEF n, S, d, size
    <3> QED BY <1>2, <1>3, <1>8
  <2> HIDE DEF n, S, d, size
  <2> QED BY <1>5, <1>10, <2>1, <2>2
<1>13. Len(e.sample_idx) <= NumSamples(c) + 1
  BY SMTT(60), <1>3, <1>7, <1>10
<1>14. /\ e.doc_idx_index \in 0 .. Entries(c) /\ ~ (e.doc_idx_index = Entries(c))
       /\ e.remaining_seq_length # 0
       /\ e.doc_offset <= c.sizes[c.doc_idx[e.doc_idx_index]]
  <2>1. e.doc_offset <= size
    BY <1>2, <1>5, <1>8
  <2>2. e.remaining_seq_length # 0
    BY <1>3, <1>5
  <2> HIDE DEF S, n
  <2> QED BY <1>1, <1>5, <2>1, <2>2
<1>15. e \in Build
  <2>1. b \in Build /\ offset \in Nat /\ S \in Nat
    BY <1>2, <1>3, <1>8 DEF BuildInv
  <2> QED BY <1>10, <2>1, EndFields DEF e, offset
<1> HIDE DEF S, n, d
<1> QED BY <1>10, <1>11, <1>12, <1>13, <1>14, <1>15 DEF BuildInv, S, e

-----------------------------------------------------------------------------
\* Blends.

IsBlend(j) ==
  /\ j.weights \in Seq(Nat \ {0}) \ {<<>>} /\ j.num_samples \in Nat \ {0}
  /\ AreSums(j)

\* Sums of terms that are in a proportion are in this proportion.
LEMMA SumsInProportion ==
  ASSUME NEW n \in Nat \ {0}, NEW a \in Nat, NEW b \in Nat, NEW c \in {0, 1},
         NEW p, NEW s, NEW q, NEW t, SumsUp(p, n, s), SumsUp(q, n, t),
         \A k \in 1 .. n : s[k] \in Nat /\ t[k] \in Nat /\ a * s[k] + c <= b * t[k]
  PROVE  a * p[n] + c <= b * q[n]
<1> DEFINE T == {i \in Nat : i + 1 \in 1 .. n => a * p[i + 1] + c <= b * q[i + 1]}
<1>1. p \in [0 .. n -> Nat] /\ q \in [0 .. n -> Nat] /\ p[0] = 0 /\ q[0] = 0
  BY DEF SumsUp
<1>2. ASSUME NEW i \in 0 .. n - 1
      PROVE  /\ p[i + 1] = p[i] + s[i + 1] /\ q[i + 1] = q[i] + t[i + 1]
             /\ s[i + 1] \in Nat /\ t[i + 1] \in Nat
             /\ p[i] \in Nat /\ q[i] \in Nat
             /\ a * s[i + 1] + c <= b * t[i + 1]
             /\ a * p[i + 1] = a * p[i] + a * s[i + 1] /\ b * q[i + 1] = b * q[i] + b * t[i + 1]
  <2>1. i + 1 \in 1 .. n /\ (i + 1) - 1 = i
    OBVIOUS
  <2>2. p[i + 1] = p[i] + s[i + 1] /\ q[i + 1] = q[i] + t[i + 1]
    BY <2>1 DEF SumsUp
  <2>3. s[i + 1] \in Nat /\ t[i + 1] \in Nat /\ a * s[i + 1] + c <= b * t[i + 1]
    BY <2>1
  <2>4. p[i] \in Nat /\ q[i] \in Nat
    BY <1>1
  <2>5. ASSUME NEW u \in Nat, NEW v \in Nat, NEW d \in Nat
        PROVE  d * (u + v) = d * u + d * v
    OBVIOUS
  <2> QED BY <2>2, <2>3, <2>4, <2>5
<1>3. 0 \in T
  <2>1. a * p[1] + c <= b * q[1]
    <3>1. 0 \in 0 .. n - 1 /\ a * p[0] = 0 /\ b * q[0] = 0 /\ 0 + 1 = 1
      BY <1>1
    <3>2. /\ a * s[1] + c <= b * t[1] /\ s[1] \in Nat /\ t[1] \in Nat
          /\ a * p[1] = a * p[0] + a * s[1] /\ b * q[1] = b * q[0] + b * t[1]
      BY <1>2, <3>1
    <3>3. a * s[1] \in Int /\ b * t[1] \in Int
      BY <3>2
    <3> QED BY <3>1, <3>2, <3>3
  <2> QED BY <2>1
<1>4. ASSUME NEW i \in T PROVE i + 1 \in T
  <2>1. SUFFICES ASSUME (i + 1) + 1 \in 1 .. n
                 PROVE  a * p[(i + 1) + 1] + c <= b * q[(i + 1) + 1]
    OBVIOUS
  <2>2. i + 1 \in 1 .. n /\ i + 1 \in 0 .. n - 1
    BY <2>1
  <2>3. a * p[i + 1] + c <= b * q[i + 1]
    BY <2>2
  <2> DEFINE x == a * p[i + 1]
             y == b * q[i + 1]
             u == a * s[(i + 1) + 1]
             v == b * t[(i + 1) + 1]
  <2>4. /\ a * p[(i + 1) + 1] = x + u /\ b * q[(i + 1) + 1] = y + v /\ u + c <= v
        /\ s[(i + 1) + 1] \in Nat /\ t[(i + 1) + 1] \in Nat
        /\ p[i + 1] \in Nat /\ q[i + 1] \in Nat
    BY <1>2, <2>2
  <2>5. x \in Int /\ y \in Int /\ u \in Int /\ v \in Int
    BY <2>4
  <2> HIDE DEF x, y, u, v
  <2>6. x + c <= y
    BY <2>3 DEF x, y
  <2> QED BY <2>4, <2>5, <2>6
<1>5. T = Nat
  <2> HIDE DEF T
  <2>1. T \in SUBSET Nat
    BY DEF T
  <2> QED BY <1>3, <1>4, <2>1, SetInduction
<1>6. n - 1 \in T /\ (n - 1) + 1 = n
  <2> HIDE DEF T
  <2> QED BY <1>5
<1> QED BY <1>6

\* What IsBlend says of the weights.
LEMMA BlendFacts ==
  ASSUME NEW j, IsBlend(j)
  PROVE  /\ Len(j.weights) \in Nat \ {0} /\ Weights(j) = 1 .. Len(j.weights)
         /\ \A k \in Weights(j) : j.weights[k] \in Nat \ {0}
         /\ WeightSum(j) \in Nat \ {0} /\ BlendSize(j) \in Nat
         /\ SumsUp(j.weight_sum, Len(j.weights), j.weights)
         /\ SumsUp(j.size_sum, Len(j.weights), [k \in Weights(j) |-> DatasetNumSamples(j, k)])
<1> DEFINE n == Len(j.weights)
<1>1. j.weights \in Seq(Nat \ {0}) /\ j.weights # <<>>
  BY DEF IsBlend
<1>2. n \in Nat \ {0} /\ Weights(j) = 1 .. n /\ \A k \in 1 .. n : j.weights[k] \in Nat \ {0}
  BY <1>1 DEF Weights
<1>3. /\ SumsUp(j.weight_sum, n, j.weights)
      /\ SumsUp(j.size_sum, n, [k \in Weights(j) |-> DatasetNumSamples(j, k)])
  BY DEF IsBlend, AreSums
<1>4. j.weight_sum \in [0 .. n -> Nat] /\ j.size_sum \in [0 .. n -> Nat]
  BY <1>3 DEF SumsUp
<1>5. j.weight_sum[n] \in Nat /\ j.size_sum[n] \in Nat
  BY <1>2, <1>4
<1>6. 1 <= j.weight_sum[n]
  <2> DEFINE zero == [k \in 0 .. n |-> 0]
  <2>1. SumsUp(zero, n, zero)
    BY <1>2 DEF SumsUp
  <2>2. \A k \in 1 .. n : /\ zero[k] \in Nat /\ j.weights[k] \in Nat
                          /\ 1 * zero[k] + 1 <= 1 * j.weights[k]
    BY <1>2
  <2>3. zero[n] = 0
    BY <1>2
  <2> HIDE DEF zero, n
  <2>4. 1 * zero[n] + 1 <= 1 * j.weight_sum[n]
    BY <1>2, <1>3, <2>1, <2>2, SumsInProportion
  <2> QED BY <1>5, <2>3, <2>4
<1> QED BY <1>2, <1>3, <1>5, <1>6 DEF WeightSum, BlendSize

\* A corpus is asked for 0.5% more than its share.
LEMMA ShareRoundedUp ==
  ASSUME NEW j, IsBlend(j), NEW k \in Weights(j)
  PROVE  /\ DatasetNumSamples(j, k) \in Nat
         /\ j.num_samples * j.weights[k] * 1005 <= DatasetNumSamples(j, k) * (1000 * WeightSum(j))
<1> DEFINE share == j.num_samples * j.weights[k] * 1005
           S == 1000 * WeightSum(j)
           x == share + S - 1
           d == DatasetNumSamples(j, k)
<1>1. j.num_samples \in Nat /\ j.weights[k] \in Nat /\ WeightSum(j) \in Nat \ {0}
  BY BlendFacts DEF IsBlend
<1>2. share \in Nat /\ S \in Nat \ {0}
  BY <1>1
<1>3. d = x \div S
  BY DEF DatasetNumSamples
<1> HIDE DEF share, S, d
<1>4. x \in Nat
  BY <1>2
<1> HIDE DEF x
<1>5. d \in Nat /\ x % S \in 0 .. S - 1 /\ x = d * S + (x % S)
  <2>1. x \in Int
    BY <1>4
  <2>2. x \div S \in Nat
    BY <1>2, <1>4, QuotientOfNat
  <2>3. x % S \in 0 .. S - 1 /\ x = (x \div S) * S + (x % S)
    BY <1>2, <2>1, Quotient
  <2> QED BY <1>3, <2>2, <2>3
<1>6. d * S \in Int
  BY <1>2, <1>5
<1>7. share <= d * S
  BY <1>2, <1>5, <1>6 DEF x
<1> QED BY <1>5, <1>7 DEF share, S, d

\* A blend has at least the samples asked for.
LEMMA BlendLargeEnough ==
  ASSUME NEW j, IsBlend(j)
  PROVE  j.num_samples <= BlendSize(j)
<1> DEFINE n == Len(j.weights)
           N == j.num_samples
           W == WeightSum(j)
           D == [k \in Weights(j) |-> DatasetNumSamples(j, k)]
<1>1. /\ n \in Nat \ {0} /\ N \in Nat \ {0} /\ W \in Nat \ {0} /\ BlendSize(j) \in Nat
      /\ SumsUp(j.weight_sum, n, j.weights) /\ SumsUp(j.size_sum, n, D)
      /\ Weights(j) = 1 .. n /\ \A k \in 1 .. n : j.weights[k] \in Nat
  BY BlendFacts DEF IsBlend
<1>2. ASSUME NEW k \in 1 .. n
      PROVE  j.weights[k] \in Nat /\ D[k] \in Nat /\ N * j.weights[k] + 0 <= W * D[k]
  <2> DEFINE w == j.weights[k]
             d == DatasetNumSamples(j, k)
             a == N * w
             b == W * d
  <2>1. d \in Nat /\ a * 1005 <= d * (1000 * W) /\ D[k] = d /\ w \in Nat
    BY <1>1, ShareRoundedUp
  <2> HIDE DEF N, W, w, d
  <2>2. a \in Nat /\ b \in Nat /\ d * (1000 * W) = 1000 * b
    BY SMTT(60), <1>1, <2>1
  <2> HIDE DEF a, b
  <2>3. a <= b
    BY <2>1, <2>2
  <2> QED BY <2>1, <2>2, <2>3 DEF a, b, w
<1>3. N * j.weight_sum[n] + 0 <= W * j.size_sum[n]
  <2> HIDE DEF n, N, W, D
  <2> QED BY <1>1, <1>2, SumsInProportion
<1>4. j.weight_sum[n] = W /\ j.size_sum[n] = BlendSize(j)
  BY DEF WeightSum, BlendSize
<1> HIDE DEF N, W, n, D
<1>5. ASSUME BlendSize(j) < N
      PROVE  FALSE
  <2> DEFINE s == BlendSize(j)
  <2>1. s \in Nat /\ s < N
    BY <1>1, <1>5
  <2>2. N * W + 0 <= W * s
    BY <1>3, <1>4
  <2> HIDE DEF s
  <2>3. s * W + W <= N * W
    BY <1>1, <2>1, NextMultiple
  <2>4. s * W = W * s /\ s * W \in Int /\ N * W \in Int
    BY <1>1, <2>1
  <2> QED BY <1>1, <2>2, <2>3, <2>4
<1>6. N <= BlendSize(j)
  BY <1>1, <1>5
<1> QED BY <1>6 DEF N

\* What has been drawn is what is in the index, and nothing was drawn that
\* was ahead of its share.
BlendInv(j, b) ==
  /\ b.drawn \in [Weights(j) -> Nat]
  /\ b.index \in Seq([dataset : Weights(j), sample : Nat])
  /\ \E p : SumsUp(p, Len(j.weights), b.drawn) /\ p[Len(j.weights)] = Len(b.index)
  /\ \A t \in 1 .. Len(b.index) :
       WeightSum(j) * b.index[t].sample
         <= j.weights[b.index[t].dataset] * (IF t = 1 THEN 1 ELSE t - 1)

\* An empty blend has the invariant.
LEMMA BlendStarts ==
  ASSUME NEW j, IsBlend(j)
  PROVE  BlendInv(j, StartBlend(j))
<1> DEFINE n == Len(j.weights)
           b == StartBlend(j)
           zero == [k \in 0 .. n |-> 0]
<1>1. n \in Nat \ {0} /\ Weights(j) = 1 .. n
  BY BlendFacts
<1>2. b.drawn = [k \in 1 .. n |-> 0] /\ b.index = <<>>
  BY <1>1 DEF StartBlend
<1> HIDE DEF b
<1>3. SumsUp(zero, n, b.drawn) /\ zero[n] = 0 /\ Len(b.index) = 0
  BY <1>1, <1>2 DEF SumsUp
<1>4. \E p : SumsUp(p, n, b.drawn) /\ p[n] = Len(b.index)
  <2> HIDE DEF zero
  <2> QED BY <1>3
<1>5. b.drawn \in [Weights(j) -> Nat] /\ b.index \in Seq([dataset : Weights(j), sample : Nat])
  BY <1>1, <1>2
<1> QED BY <1>3, <1>4, <1>5 DEF BlendInv, b

\* Since all that was drawn is shared out, some corpus is not ahead.
LEMMA SomeBehind ==
  ASSUME NEW j, IsBlend(j), NEW b, BlendInv(j, b)
  PROVE  \E k \in Weights(j) : Error(j, b, k) >= 0
<1> DEFINE n == Len(j.weights)
           W == WeightSum(j)
           L == Len(b.index)
           X == IF b.index = <<>> THEN 1 ELSE L
<1>1. /\ n \in Nat \ {0} /\ W \in Nat \ {0} /\ Weights(j) = 1 .. n
      /\ SumsUp(j.weight_sum, n, j.weights) /\ j.weight_sum[n] = W
      /\ \A k \in 1 .. n : j.weights[k] \in Nat
  BY BlendFacts DEF WeightSum
<1>2. /\ b.drawn \in [1 .. n -> Nat] /\ L \in Nat /\ X \in Nat /\ L <= X
  BY <1>1 DEF BlendInv
<1>3. PICK p : SumsUp(p, n, b.drawn) /\ p[n] = L
  BY DEF BlendInv
<1>4. SUFFICES ASSUME \A k \in 1 .. n : ~ (Error(j, b, k) >= 0)
               PROVE  FALSE
  BY <1>1
<1>5. ASSUME NEW k \in 1 .. n
      PROVE  j.weights[k] \in Nat /\ b.drawn[k] \in Nat /\ X * j.weights[k] + 1 <= W * b.drawn[k]
  <2>1. Error(j, b, k) = j.weights[k] * X - W * b.drawn[k]
    BY DEF Error
  <2>2. ~ (j.weights[k] * X - W * b.drawn[k] >= 0)
    BY <1>4, <2>1
  <2>3. j.weights[k] \in Nat /\ b.drawn[k] \in Nat
    BY <1>1, <1>2
  <2> DEFINE w == j.weights[k]
             d == b.drawn[k]
  <2>4. X \in Nat /\ W \in Nat /\ w \in Nat /\ d \in Nat /\ ~ (w * X - W * d >= 0)
    BY <1>1, <1>2, <2>2, <2>3
  <2> HIDE DEF W, X, w, d
  <2>5. w * X = X * w /\ X * w \in Int /\ W * d \in Int
    BY <2>4
  <2>6. X * w + 1 <= W * d
    BY <2>4, <2>5
  <2> QED BY <2>3, <2>6 DEF w, d
<1> HIDE DEF n, W, X, L
<1>6. X * W + 1 <= W * L
  <2>1. X * j.weight_sum[n] + 1 <= W * p[n]
    BY <1>1, <1>2, <1>3, <1>5, SumsInProportion
  <2> QED BY <1>1, <1>3, <2>1
<1>7. L * W <= X * W
  <2>1. CASE L = X
    BY <1>1, <1>2, <2>1
  <2>2. CASE L < X
    <3>1. L * W + W <= X * W
      BY <1>1, <1>2, <2>2, NextMultiple
    <3>2. L * W \in Int /\ X * W \in Int
      BY <1>1, <1>2
    <3> QED BY <1>1, <3>1, <3>2
  <2> QED BY <1>2, <2>1, <2>2
<1>8. L * W = W * L /\ L * W \in Int /\ X * W \in Int
  BY <1>1, <1>2
<1> QED BY <1>6, <1>7, <1>8

\* The corpus that is drawn from has the largest error.
LEMMA LargestDrawn ==
  ASSUME NEW j, IsBlend(j), NEW b, BlendInv(j, b)
  PROVE  MaxErrorIndex(j, b) \in Weights(j) /\ Error(j, b, MaxErrorIndex(j, b)) >= 0
<1> DEFINE n == Len(j.weights)
           f == [k \in 1 .. n |-> Error(j, b, k)]
           First(k) == \A i \in Weights(j) : /\ Error(j, b, i) <= Error(j, b, k)
                                             /\ i < k => Error(j, b, i) < Error(j, b, k)
<1>1. /\ n \in Nat \ {0} /\ Weights(j) = 1 .. n /\ WeightSum(j) \in Nat
      /\ \A k \in 1 .. n : j.weights[k] \in Nat
  BY BlendFacts
<1>2. b.drawn \in [1 .. n -> Nat] /\ Len(b.index) \in Nat
  BY <1>1 DEF BlendInv
<1>3. ASSUME NEW k \in 1 .. n
      PROVE  Error(j, b, k) \in Int
  <2> DEFINE X == IF b.index = <<>> THEN 1 ELSE Len(b.index)
  <2>1. X \in Int /\ j.weights[k] \in Int /\ b.drawn[k] \in Int /\ WeightSum(j) \in Int
    BY <1>1, <1>2
  <2>2. Error(j, b, k) = j.weights[k] * X - WeightSum(j) * b.drawn[k]
    BY DEF Error
  <2>3. ASSUME NEW u \in Int, NEW v \in Int, NEW x \in Int, NEW y \in Int
        PROVE  u * v - x * y \in Int
    OBVIOUS
  <2> HIDE DEF X
  <2> QED BY SMTT(60), <2>1, <2>2, <2>3
<1>4. f \in [1 .. n -> Int]
  BY <1>3
<1>5. \E k \in 1 .. n : \A i \in 1 .. n : f[i] <= f[k] /\ (i < k => f[i] < f[k])
  <2> HIDE DEF f, n
  <2> QED BY <1>1, <1>4, FirstLargest
<1>6. \E k \in Weights(j) : First(k)
  BY <1>1, <1>5
<1>7. MaxErrorIndex(j, b) \in Weights(j) /\ First(MaxErrorIndex(j, b))
  <2>1. MaxErrorIndex(j, b) = CHOOSE k \in Weights(j) : First(k)
    BY DEF MaxErrorIndex
  <2> HIDE DEF First
  <2> QED BY <1>6, <2>1
<1>8. PICK k \in Weights(j) : Error(j, b, k) >= 0
  BY SomeBehind
<1>9. Error(j, b, k) <= Error(j, b, MaxErrorIndex(j, b))
  BY <1>7
<1>10. Error(j, b, k) \in Int /\ Error(j, b, MaxErrorIndex(j, b)) \in Int
  BY <1>1, <1>3, <1>7
<1> QED BY <1>7, <1>8, <1>9, <1>10

\* A draw from the corpus that is furthest behind keeps it.
LEMMA BlendGrows ==
  ASSUME NEW j, IsBlend(j), NEW b, BlendInv(j, b)
  PROVE  BlendInv(j, Draw(j, b))
<1> DEFINE n == Len(j.weights)
           W == WeightSum(j)
           k == MaxErrorIndex(j, b)
           entry == [dataset |-> k, sample |-> b.drawn[k]]
           e == Draw(j, b)
           E == [dataset : Weights(j), sample : Nat]
           L == Len(b.index)
           Bound(x, t) == W * x.sample <= j.weights[x.dataset] * (IF t = 1 THEN 1 ELSE t - 1)
<1>1. /\ n \in Nat \ {0} /\ Weights(j) = 1 .. n /\ W \in Nat
      /\ \A i \in 1 .. n : j.weights[i] \in Nat
  BY BlendFacts
<1>2. k \in 1 .. n /\ Error(j, b, k) >= 0
  BY <1>1, LargestDrawn
<1>3. /\ b.drawn \in [1 .. n -> Nat] /\ b.index \in Seq(E)
      /\ \A t \in 1 .. L : Bound(b.index[t], t)
  BY <1>1 DEF BlendInv
<1>4. PICK p : SumsUp(p, n, b.drawn) /\ p[n] = L
  BY DEF BlendInv
<1>5. e.drawn = [b.drawn EXCEPT ![k] = @ + 1] /\ e.index = Append(b.index, entry)
  BY DEF Draw
<1>6. entry \in E /\ Bound(entry, L + 1)
  <2>1. entry.dataset = k /\ entry.sample = b.drawn[k] /\ entry \in E
    BY <1>1, <1>2, <1>3
  <2>2. L \in Nat /\ (b.index = <<>> <=> L = 0)
    BY <1>3
  <2> DEFINE X == IF b.index = <<>> THEN 1 ELSE L
  <2>3. X = (IF L + 1 = 1 THEN 1 ELSE (L + 1) - 1) /\ X \in Int
    BY <2>2
  <2>4. j.weights[k] * X - W * b.drawn[k] >= 0
    BY <1>2 DEF Error
  <2> DEFINE u == j.weights[k] * X
             v == W * b.drawn[k]
  <2>5. u \in Int /\ v \in Int
    <3>1. ASSUME NEW x \in Int, NEW y \in Int PROVE x * y \in Int
      OBVIOUS
    <3>2. j.weights[k] \in Int /\ X \in Int /\ W \in Int /\ b.drawn[k] \in Int
      BY <1>1, <1>2, <1>3, <2>3
    <3> HIDE DEF X, W, k
    <3> QED BY <3>1, <3>2
  <2>6. v <= u
    <3>1. u - v >= 0
      BY <2>4
    <3> HIDE DEF u, v
    <3> QED BY <2>5, <3>1
  <2>7. W * entry.sample <= j.weights[entry.dataset] * X
    BY <2>1, <2>6
  <2> HIDE DEF entry, X, W, k
  <2> QED BY <2>1, <2>3, <2>7
<1> HIDE DEF entry, k, e, E, W, Bound
<1>7. /\ e.drawn \in [1 .. n -> Nat]
      /\ \A i \in 1 .. n : e.drawn[i] = IF i = k THEN b.drawn[i] + 1 ELSE b.drawn[i]
  <2> DEFINE d == b.drawn
  <2>1. d \in [1 .. n -> Nat] /\ e.drawn = [d EXCEPT ![k] = @ + 1]
    BY <1>3, <1>5
  <2> HIDE DEF d, n
  <2>2. /\ e.drawn \in [1 .. n -> Nat]
        /\ \A i \in 1 .. n : e.drawn[i] = IF i = k THEN d[i] + 1 ELSE d[i]
    BY <1>2, <2>1
  <2> QED BY <2>2 DEF d
<1>8. /\ e.index \in Seq(E) /\ Len(e.index) = L + 1 /\ e.index[L + 1] = entry
      /\ \A t \in 1 .. L : e.index[t] = b.index[t]
  <2> DEFINE s == b.index
  <2>1. s \in Seq(E) /\ e.index = Append(s, entry) /\ entry \in E
    BY <1>3, <1>5, <1>6
  <2> HIDE DEF s
  <2>2. /\ e.index \in Seq(E) /\ Len(e.index) = Len(s) + 1 /\ e.index[Len(s) + 1] = entry
        /\ \A t \in 1 .. Len(s) : e.index[t] = s[t]
    BY <2>1
  <2> QED BY <2>2 DEF s
<1>9. \E q : SumsUp(q, n, e.drawn) /\ q[n] = Len(e.index)
  <2> DEFINE q == [i \in 0 .. n |-> IF k <= i THEN p[i] + 1 ELSE p[i]]
             d == e.drawn
             c == b.drawn
  <2>1. /\ p \in [0 .. n -> Nat] /\ p[0] = 0
        /\ \A i \in 1 .. n : p[i] = p[i - 1] + c[i]
    BY <1>4 DEF SumsUp
  <2>2. /\ c \in [1 .. n -> Nat]
        /\ \A i \in 1 .. n : d[i] = IF i = k THEN c[i] + 1 ELSE c[i]
    BY <1>3, <1>7
  <2> HIDE DEF c, d, n
  <2>3. q \in [0 .. n -> Nat] /\ q[0] = 0
    BY <1>1, <1>2, <2>1
  <2>4. ASSUME NEW i \in 1 .. n
        PROVE  q[i] = q[i - 1] + d[i]
    <3>1. /\ q[i] = IF k <= i THEN p[i] + 1 ELSE p[i]
          /\ q[i - 1] = IF k <= i - 1 THEN p[i - 1] + 1 ELSE p[i - 1]
      BY <1>1
    <3>2. /\ p[i] = p[i - 1] + c[i] /\ p[i - 1] \in Nat /\ c[i] \in Nat
          /\ d[i] = IF i = k THEN c[i] + 1 ELSE c[i]
      BY <1>1, <2>1, <2>2
    <3>3. k \in Int /\ i \in Int
      BY <1>1, <1>2
    <3> HIDE DEF q
    <3>4. CASE k = i
      BY <3>1, <3>2, <3>3, <3>4
    <3>5. CASE k < i
      BY <3>1, <3>2, <3>3, <3>5
    <3>6. CASE i < k
      BY <3>1, <3>2, <3>3, <3>6
    <3> QED BY <3>3, <3>4, <3>5, <3>6
  <2>5. q[n] = L + 1
    BY <1>1, <1>2, <1>4
  <2> HIDE DEF q
  <2>6. SumsUp(q, n, d) /\ q[n] = Len(e.index)
    BY <1>8, <2>3, <2>4, <2>5 DEF SumsUp
  <2> QED BY <2>6 DEF d
<1>10. ASSUME NEW t \in 1 .. Len(e.index)
       PROVE  Bound(e.index[t], t)
  <2>1. CASE t = L + 1
    BY <1>6, <1>8, <2>1
  <2>2. CASE t \in 1 .. L
    BY <1>3, <1>8, <2>2
  <2>3. L \in Nat
    BY <1>3
  <2> QED BY <1>8, <2>1, <2>2, <2>3
<1> QED BY <1>1, <1>7, <1>8, <1>9, <1>10 DEF BlendInv, e, E, W, Bound

\* Among the first samples of a blend, as many as were asked for, there is
\* none its corpus was not asked for.
LEMMA DrawnExists ==
  ASSUME NEW j, IsBlend(j), NEW b, BlendInv(j, b),
         NEW i \in 0 .. j.num_samples - 1, i < Len(b.index)
  PROVE  /\ b.index[i + 1].dataset \in Weights(j)
         /\ b.index[i + 1].sample < DatasetNumSamples(j, b.index[i + 1].dataset)
<1> DEFINE N == j.num_samples
           W == WeightSum(j)
           k == b.index[i + 1].dataset
           s == b.index[i + 1].sample
           w == j.weights[k]
           d == DatasetNumSamples(j, k)
           x == IF i + 1 = 1 THEN 1 ELSE (i + 1) - 1
<1>0. /\ b.index \in Seq([dataset : Weights(j), sample : Nat])
      /\ \A t \in 1 .. Len(b.index) :
           W * b.index[t].sample
             <= j.weights[b.index[t].dataset] * (IF t = 1 THEN 1 ELSE t - 1)
  BY DEF BlendInv
<1>1. i + 1 \in 1 .. Len(b.index)
  <2> DEFINE E == [dataset : Weights(j), sample : Nat]
             index == b.index
  <2>0. index \in Seq(E)
    BY <1>0
  <2> HIDE DEF E, index
  <2>1. Len(index) \in Nat /\ index = b.index
    BY <2>0 DEF index
  <2>2. i \in Nat
    BY DEF IsBlend
  <2> QED BY <2>1, <2>2
<1>2. k \in Weights(j) /\ s \in Nat
  <2> DEFINE E == [dataset : Weights(j), sample : Nat]
             index == b.index
  <2>1. index \in Seq(E) /\ i + 1 \in 1 .. Len(index)
    BY <1>0, <1>1
  <2> HIDE DEF E, index
  <2>2. index[i + 1] \in E
    BY <2>1
  <2> QED BY <2>2 DEF E, index
<1>3. W * s <= w * x
  <2> DEFINE Bound(t) ==
        W * b.index[t].sample <= j.weights[b.index[t].dataset] * (IF t = 1 THEN 1 ELSE t - 1)
  <2>1. \A t \in 1 .. Len(b.index) : Bound(t)
    BY <1>0
  <2> HIDE DEF Bound
  <2>2. Bound(i + 1)
    BY <1>1, <2>1
  <2> QED BY <2>2 DEF Bound
<1>4. N \in Nat \ {0} /\ W \in Nat \ {0} /\ w \in Nat \ {0} /\ x \in Nat /\ x <= N
  <2>1. N \in Nat \ {0}
    BY DEF IsBlend
  <2>2. W \in Nat \ {0} /\ \A c \in Weights(j) : j.weights[c] \in Nat \ {0}
    BY BlendFacts
  <2>3. w \in Nat \ {0}
    BY <1>2, <2>2
  <2>4. x \in Nat /\ x <= N
    BY <2>1
  <2> QED BY <2>1, <2>2, <2>3, <2>4
<1>5. d \in Nat /\ N * w * 1005 <= d * (1000 * W)
  BY <1>2, ShareRoundedUp
<1> HIDE DEF N, W, k, s, w, d, x
<1>6. W * s <= N * w
  <2>1. x * w <= N * w
    <3>1. CASE x = N
      BY <1>4, <3>1
    <3>2. CASE x < N
      <4>1. x * w + w <= N * w
        BY <1>4, <3>2, NextMultiple
      <4>2. x * w \in Int /\ N * w \in Int
        BY <1>4
      <4> QED BY <1>4, <4>1, <4>2
    <3> QED BY <1>4, <3>1, <3>2
  <2>2. w * x = x * w /\ x * w \in Int /\ N * w \in Int /\ W * s \in Int
    BY <1>2, <1>4
  <2> QED BY <1>3, <2>1, <2>2
<1>7. N * w \in Nat \ {0} /\ d * (1000 * W) = 1000 * (d * W) /\ d * W \in Int
  BY <1>4, <1>5
<1>8. ASSUME d <= s
      PROVE  FALSE
  <2>1. d * W <= s * W
    <3>1. CASE d = s
      BY <1>2, <1>4, <3>1
    <3>2. CASE d < s
      <4>1. d * W + W <= s * W
        BY <1>2, <1>4, <1>5, <3>2, NextMultiple
      <4>2. s * W \in Int
        BY <1>2, <1>4
      <4> QED BY <1>4, <1>7, <4>1, <4>2
    <3> QED BY <1>2, <1>5, <1>8, <3>1, <3>2
  <2>2. s * W = W * s /\ s * W \in Int
    BY <1>2, <1>4
  <2>3. d * W <= N * w
    BY <1>6, <1>7, <2>1, <2>2
  <2> QED BY <1>5, <1>7, <2>3
<1>9. s < d
  BY <1>2, <1>5, <1>8
<1> QED BY <1>2, <1>9 DEF k, s, d

-----------------------------------------------------------------------------
\* The invariant.

Labels == {"look", "open", "write", "samples", "blend", "all_reduce", "load", "check",
           "train", "exit", "error"}

\* An index that was built to the end.
GoodSamples(c, sample_idx) ==
  SamplesTile(c, sample_idx) /\ Len(sample_idx) = NumSamples(c) + 1
GoodBlend(j, index) ==
  \E b : BlendInv(j, b) /\ b.index = index /\ BlendSize(j) <= Len(index)

Typing ==
  /\ args \in Jobs
  /\ pc \in [Ranks -> Labels]
  /\ at \in [Ranks -> Datasets]
  /\ file \in Nat
  /\ DOMAIN disk = Datasets /\ \A k \in Datasets : DOMAIN disk[k] = AllFiles
  /\ DOMAIN loaded = Ranks /\ \A r \in Ranks : DOMAIN loaded[r] = Datasets
  /\ DOMAIN blend = Ranks

\* Where ranks are: only rank 0 writes, and only what is complete.
PlaceInv ==
  /\ \A r \in Ranks :
       /\ pc[r] \in {"open", "write", "samples"} => r = 0
       /\ pc[r] \in {"blend", "check"} => at[r] > K
       /\ pc[r] = "blend" /\ args.data_cache_path => r = 0
  /\ pc[0] \in {"open", "write"} => file \in 1 .. (IF at[0] <= K THEN 4 ELSE 2)
  /\ pc[0] = "blend" /\ args.data_cache_path => file = 1
  /\ pc[0] = "samples" => at[0] <= K /\ file = 3

BuiltInv ==
  /\ \A r \in Ranks : BlendInv(args, blend[r])
  /\ pc[0] = "samples" => BuildInv(Corpus(at[0]), build)
  /\ pc[0] \in {"open", "write"} /\ at[0] <= K /\ file = 3 =>
       BuildInv(Corpus(at[0]), build) /\ ~ MoreSamples(Corpus(at[0]), build)
  /\ pc[0] \in {"open", "write"} /\ at[0] > K => BlendSize(args) <= Len(blend[0].index)

\* What is whole on the disk is good, and so is what was loaded.
DiskInv ==
  \A k \in Datasets :
    /\ disk[k]["index"].state = "whole" => GoodBlend(args, disk[k]["index"].content)
    /\ k <= K /\ disk[k]["sample"].state = "whole" =>
         GoodSamples(Corpus(k), disk[k]["sample"].content)

LoadedInv ==
  \A r \in Ranks :
    /\ pc[r] \in {"check", "train"} /\ Blended => GoodBlend(args, loaded[r][K + 1])
    /\ \A k \in 1 .. K : k < at[r] \/ At(r, "train") =>
         GoodSamples(Corpus(k), loaded[r][k].sample_idx)

IInv == Typing /\ PlaceInv /\ BuiltInv /\ DiskInv /\ LoadedInv

-----------------------------------------------------------------------------
\* Jobs, files and the disk.

\* What the assumptions on the jobs say of one of them.
LEMMA JobFacts ==
  ASSUME args \in Jobs
  PROVE  /\ IsBlend(args) /\ K \in Nat \ {0} /\ Weights(args) = 1 .. K
         /\ \A k \in 1 .. K :
              /\ IsIndexed(Corpus(k))
              /\ Blended => Corpus(k).num_samples = DatasetNumSamples(args, k)
<1>1. IsJob(args)
  BY JobsAssumption
<1>2. IsBlend(args)
  BY <1>1 DEF IsJob, IsBlend
<1>3. K \in Nat \ {0} /\ Weights(args) = 1 .. K
  <2>1. Len(args.weights) \in Nat \ {0} /\ Weights(args) = 1 .. Len(args.weights)
    BY <1>2, BlendFacts
  <2>2. Len(args.weights) = Len(args.corpora)
    BY <1>1 DEF IsJob
  <2> QED
    BY <2>1, <2>2 DEF K
<1>4. ASSUME NEW k \in 1 .. K
      PROVE  /\ IsIndexed(Corpus(k))
             /\ Blended => Corpus(k).num_samples = DatasetNumSamples(args, k)
  <2>1. k \in Weights(args)
    BY <1>3
  <2> DEFINE c == args.corpora[k]
  <2>2. /\ c.seq_length \in Nat \ {0, 1} /\ TokensPerEpoch(c) \in Nat \ {0, 1}
        /\ IsFiniteSet(Documents(c)) /\ \A d \in Documents(c) : c.sizes[d] \in Nat
        /\ c.num_samples = IF Len(args.corpora) = 1 THEN args.num_samples
                           ELSE DatasetNumSamples(args, k)
        /\ IsDocIdx(c) /\ IsStart(c)
    BY <1>1, <2>1 DEF IsJob
  <2>3. c.num_samples \in Nat
    BY <1>2, <2>1, <2>2, ShareRoundedUp DEF IsBlend
  <2>4. c = Corpus(k)
    BY DEF Corpus
  <2> HIDE DEF c
  <2>5. IsIndexed(c)
    BY <2>2, <2>3 DEF IsIndexed, IsCorpus
  <2>6. Blended => c.num_samples = DatasetNumSamples(args, k)
    <3>1. Blended => Len(args.corpora) # 1
      <4>1. K \in Nat /\ (Blended => K > 1)
        BY <1>3 DEF Blended
      <4>2. Blended => K # 1
        BY <4>1
      <4> QED
        BY <4>2 DEF K
    <3> QED
      BY <2>2, <3>1
  <2> QED
    BY <2>4, <2>5, <2>6
<1> QED
  BY <1>2, <1>3, <1>4

\* The files of an index and their places.
LEMMA FilesFacts ==
  ASSUME NEW k
  PROVE  /\ k <= K => /\ DOMAIN Files(k) = 1 .. 4 /\ Len(Files(k)) = 4
                      /\ Files(k)[1] = "desc" /\ Files(k)[2] = "doc"
                      /\ Files(k)[3] = "sample" /\ Files(k)[4] = "shuffle"
         /\ ~ (k <= K) => /\ DOMAIN Files(k) = 1 .. 2 /\ Len(Files(k)) = 2
                          /\ Files(k)[1] = "index" /\ Files(k)[2] = "sample_index"
BY DEF Files

\* Writing one file leaves the others alone.
LEMMA DiskWrite ==
  ASSUME Typing, NEW k \in Datasets, NEW f \in AllFiles, NEW what,
         disk' = [disk EXCEPT ![k][f] = what]
  PROVE  /\ DOMAIN disk' = Datasets /\ \A l \in Datasets : DOMAIN disk'[l] = AllFiles
         /\ disk'[k][f] = what
         /\ \A l \in Datasets, g \in AllFiles :
              l # k \/ g # f => disk'[l][g] = disk[l][g]
<1>1. DOMAIN disk = Datasets /\ \A l \in Datasets : DOMAIN disk[l] = AllFiles
  BY DEF Typing
<1>2. /\ DOMAIN disk' = Datasets
      /\ disk'[k] = [disk[k] EXCEPT ![f] = what]
      /\ \A l \in Datasets : l # k => disk'[l] = disk[l]
  BY <1>1
<1> QED
  BY <1>1, <1>2

\* Datasets are numbers.
LEMMA PlaceFacts ==
  ASSUME Typing
  PROVE  /\ 0 \in Ranks
         /\ \A r \in Ranks : at[r] \in Datasets /\ at[r] \in 1 .. K + 1 /\ at[r] \in Nat
         /\ \A k \in Datasets : k <= K <=> k \in 1 .. K
BY JobFacts, RanksAssumption DEF Typing, Ranks, Datasets

-----------------------------------------------------------------------------
\* The invariant holds at first and after every step.

\* The first launch has the invariant.
LEMMA InitInv ==
  ASSUME Init
  PROVE  IInv
<1>1. args \in Jobs /\ K \in Nat \ {0} /\ 0 \in Ranks
  BY JobFacts, RanksAssumption DEF Init, Ranks
<1>2. Typing
  BY <1>1 DEF Init, Typing, Datasets, Labels
<1>3. PlaceInv
  BY <1>1 DEF Init, PlaceInv
<1>4. BuiltInv
  BY <1>1, <1>2, JobFacts, BlendStarts DEF Init, BuiltInv
<1>5. DiskInv
  BY DEF Init, DiskInv, Absent, AllFiles
<1>6. LoadedInv
  BY <1>1 DEF Init, LoadedInv, At
<1> QED
  BY <1>2, <1>3, <1>4, <1>5, <1>6 DEF IInv

\* Looking for the files keeps the invariant.
LEMMA LookInv ==
  ASSUME IInv, NEW r \in Ranks, Look(r)
  PROVE  IInv'
<1>1. /\ Typing /\ PlaceInv /\ BuiltInv /\ DiskInv /\ LoadedInv
      /\ At(r, "look") /\ args' = args /\ at' = at /\ build' = build /\ disk' = disk
      /\ loaded' = loaded /\ blend' = [blend EXCEPT ![r] = StartBlend(args)]
  BY DEF IInv, Look
<1>2. args \in Jobs /\ IsBlend(args) /\ K \in Nat \ {0} /\ at[r] \in Nat /\ 0 \in Ranks
  BY <1>1, JobFacts, PlaceFacts DEF Typing
<1> DEFINE Reaches(l) ==
             /\ pc' = [pc EXCEPT ![r] = l]
             /\ l = "blend" => at[r] > K /\ (args.data_cache_path => r = 0 /\ file' = 1)
             /\ l = "open" => r = 0 /\ file' = 1 /\ ~ (at[r] > K)
             /\ file' \in {1, file} /\ (r # 0 => file' = file)
<1>3. \E l \in {"blend", "all_reduce", "open"} : Reaches(l)
  <2>1. CASE at[r] > K /\ ~args.data_cache_path
    <3>1. Reaches("blend")
      BY <2>1 DEF Look, Goto
    <3> QED
      BY <3>1
  <2>2. CASE ~ (at[r] > K /\ ~args.data_cache_path) /\ r # 0
    <3>1. Reaches("all_reduce")
      BY <2>2 DEF Look, Goto
    <3> QED
      BY <3>1
  <2>3. CASE ~ (at[r] > K /\ ~args.data_cache_path) /\ r = 0
    <3> DEFINE l == IF Cached(at[r]) THEN "all_reduce" ELSE IF at[r] > K THEN "blend" ELSE "open"
    <3>1. pc' = [pc EXCEPT ![r] = l] /\ file' = 1
      BY <2>3 DEF Look, Goto
    <3>2. l \in {"blend", "all_reduce", "open"} /\ Reaches(l)
      BY <2>3, <3>1
    <3> QED
      BY <3>2
  <2> QED
    BY <2>1, <2>2, <2>3
<1> PICK l \in {"blend", "all_reduce", "open"} : Reaches(l)
  BY <1>3
<1>4. \A q \in Ranks : pc'[q] = IF q = r THEN l ELSE pc[q]
  BY <1>1 DEF Typing
<1>5. \A q \in Ranks : blend'[q] = IF q = r THEN StartBlend(args) ELSE blend[q]
  BY <1>1 DEF Typing
<1>6. Typing'
  BY <1>1 DEF Typing, Datasets, K, Labels
<1>7. PlaceInv'
  BY <1>1, <1>2, <1>4 DEF PlaceInv, K, At
<1>8. BuiltInv'
  <2>1. \A q \in Ranks : BlendInv(args', blend'[q])
    BY <1>1, <1>2, <1>5, BlendStarts DEF BuiltInv
  <2>2. ~ (at[r] > K) => at[r] <= K
    BY <1>2
  <2> QED
    BY <1>1, <1>2, <1>4, <1>5, <2>1, <2>2 DEF BuiltInv, K, Corpus, At
<1>9. DiskInv'
  BY <1>1 DEF DiskInv, K, Corpus, Datasets
<1>10. LoadedInv'
  BY <1>1, <1>4 DEF LoadedInv, K, Corpus, Blended, At
<1> QED
  BY <1>6, <1>7, <1>8, <1>9, <1>10 DEF IInv

\* Truncating a file keeps it.
LEMMA OpenInv ==
  ASSUME IInv, Open
  PROVE  IInv'
<1> DEFINE k == at[0]
           f == Files(at[0])[file]
<1>1. /\ Typing /\ PlaceInv /\ BuiltInv /\ DiskInv /\ LoadedInv
      /\ At(0, "open") /\ args' = args /\ at' = at /\ file' = file /\ build' = build
      /\ blend' = blend /\ loaded' = loaded
      /\ pc' = [pc EXCEPT ![0] = "write"] /\ disk' = [disk EXCEPT ![k][f] = Partial]
  BY DEF IInv, Open, Goto
<1>2. 0 \in Ranks /\ k \in Datasets /\ f \in AllFiles
  BY <1>1, FilesFacts, PlaceFacts DEF PlaceInv, AllFiles, At
<1> HIDE DEF k, f
<1>3. \A q \in Ranks : pc'[q] = IF q = 0 THEN "write" ELSE pc[q]
  BY <1>1 DEF Typing
<1>4. /\ DOMAIN disk' = Datasets /\ \A l \in Datasets : DOMAIN disk'[l] = AllFiles
      /\ disk'[k][f] = Partial
      /\ \A l \in Datasets, g \in AllFiles : l # k \/ g # f => disk'[l][g] = disk[l][g]
  BY <1>1, <1>2, DiskWrite, ZenonT(40)
<1>5. Typing'
  BY <1>1, <1>4 DEF Typing, Datasets, K, Labels
<1>6. PlaceInv'
  BY <1>1, <1>2, <1>3 DEF PlaceInv, K, At
<1>7. BuiltInv'
  BY <1>1, <1>2, <1>3 DEF BuiltInv, K, Corpus, At
<1>8. DiskInv'
  <2>1. Partial.state # "whole"
    BY DEF Partial
  <2>2. ASSUME NEW l \in Datasets, NEW g \in {"index", "sample"}, disk'[l][g].state = "whole"
        PROVE  disk'[l][g] = disk[l][g]
    BY <1>4, <2>1, <2>2 DEF AllFiles
  <2> QED
    BY <1>1, <2>2 DEF DiskInv, K, Corpus, Datasets
<1>9. LoadedInv'
  BY <1>1, <1>3 DEF LoadedInv, K, Corpus, Blended, At
<1> QED
  BY <1>5, <1>6, <1>7, <1>8, <1>9 DEF IInv

\* A failing write keeps it.
LEMMA DiskErrorInv ==
  ASSUME IInv, DiskError
  PROVE  IInv'
<1>1. /\ Typing /\ PlaceInv /\ BuiltInv /\ DiskInv /\ LoadedInv
      /\ args' = args /\ at' = at /\ file' = file /\ build' = build
      /\ blend' = blend /\ loaded' = loaded /\ disk' = disk
      /\ pc' = [pc EXCEPT ![0] = "all_reduce"]
  BY DEF IInv, DiskError, Goto
<1>2. \A q \in Ranks : pc'[q] = IF q = 0 THEN "all_reduce" ELSE pc[q]
  BY <1>1 DEF Typing
<1>3. Typing' /\ 0 \in Ranks
  BY <1>1, PlaceFacts DEF Typing, Datasets, K, Labels
<1>4. PlaceInv'
  BY <1>1, <1>2, <1>3 DEF PlaceInv, K
<1>5. BuiltInv'
  BY <1>1, <1>2, <1>3 DEF BuiltInv, K, Corpus
<1>6. DiskInv'
  BY <1>1 DEF DiskInv, K, Corpus, Datasets
<1>7. LoadedInv'
  BY <1>1, <1>2 DEF LoadedInv, K, Corpus, Blended, At
<1> QED
  BY <1>3, <1>4, <1>5, <1>6, <1>7 DEF IInv

\* The all_reduce keeps it.
LEMMA AllReduceInv ==
  ASSUME IInv, AllReduce
  PROVE  IInv'
<1>1. /\ Typing /\ PlaceInv /\ BuiltInv /\ DiskInv /\ LoadedInv
      /\ args' = args /\ at' = at /\ file' = file /\ build' = build
      /\ blend' = blend /\ loaded' = loaded /\ disk' = disk
      /\ pc' = [q \in Ranks |-> IF success THEN "load" ELSE "exit"]
  BY DEF IInv, AllReduce
<1>2. \A q \in Ranks : pc'[q] \in {"load", "exit"}
  BY <1>1
<1>3. Typing' /\ 0 \in Ranks
  BY <1>1, PlaceFacts DEF Typing, Datasets, K, Labels
<1>4. PlaceInv'
  BY <1>1, <1>2, <1>3 DEF PlaceInv, K
<1>5. BuiltInv'
  BY <1>1, <1>2, <1>3 DEF BuiltInv, K, Corpus
<1>6. DiskInv'
  BY <1>1 DEF DiskInv, K, Corpus, Datasets
<1>7. LoadedInv'
  BY <1>1, <1>2 DEF LoadedInv, K, Corpus, Blended, At
<1> QED
  BY <1>3, <1>4, <1>5, <1>6, <1>7 DEF IInv

\* A build that has ended has all samples.
LEMMA BuiltToTheEnd ==
  ASSUME NEW c, IsIndexed(c), NEW b, BuildInv(c, b), ~ MoreSamples(c, b)
  PROVE  GoodSamples(c, b.sample_idx)
<1>1. NumSamples(c) \in Nat
  BY SamplesEnough DEF IsIndexed
<1>2. Len(b.sample_idx) \in Nat
  <2>1. b.sample_idx \in Seq([doc : Nat, offset : Nat])
    BY DEF BuildInv, Build
  <2> DEFINE E == [doc : Nat, offset : Nat]
             s == b.sample_idx
  <2>2. s \in Seq(E)
    BY <2>1
  <2> HIDE DEF E, s
  <2>3. Len(s) \in Nat
    BY <2>2
  <2> QED
    BY <2>3 DEF s
<1> QED
  BY <1>1, <1>2 DEF BuildInv, MoreSamples, GoodSamples

\* A complete write keeps it.
LEMMA CloseInv ==
  ASSUME IInv, Close
  PROVE  IInv'
<1> DEFINE k == at[0]
           f == Files(at[0])[file]
<1>1. /\ Typing /\ PlaceInv /\ BuiltInv /\ DiskInv /\ LoadedInv
      /\ At(0, "write") /\ args' = args /\ at' = at /\ file' = file + 1
      /\ blend' = blend /\ loaded' = loaded
      /\ disk' = [disk EXCEPT ![k][f] = Holds(Contents)]
  BY DEF IInv, Close
<1>2. /\ 0 \in Ranks /\ k \in Datasets /\ k \in Nat /\ K \in Nat
      /\ file \in 1 .. (IF k <= K THEN 4 ELSE 2)
  BY <1>1, JobFacts, PlaceFacts DEF PlaceInv, At, Typing
<1>3. /\ f \in AllFiles
      /\ f = "doc" <=> k <= K /\ file = 2
      /\ f = "sample" <=> k <= K /\ file = 3
      /\ f = "index" => ~ (k <= K)
      /\ Len(Files(k)) = IF k <= K THEN 4 ELSE 2
  <2>1. CASE k <= K
    <3>1. file \in {1, 2, 3, 4}
      BY <1>2, <2>1
    <3> QED
      BY <2>1, <3>1, FilesFacts DEF AllFiles
  <2>2. CASE ~ (k <= K)
    <3>1. file \in {1, 2}
      BY <1>2, <2>2
    <3> QED
      BY <2>2, <3>1, FilesFacts DEF AllFiles
  <2> QED
    BY <2>1, <2>2
<1>4. /\ f = "sample" => Contents = build.sample_idx
      /\ f = "index" => Contents = blend[0].index
  BY DEF Contents
<1> DEFINE Reaches(l) ==
             /\ pc' = [pc EXCEPT ![0] = l]
             /\ IF l = "samples" THEN k <= K /\ file = 2 /\ build' = StartSamples(Corpus(k))
                                 ELSE build' = build
             /\ l = "open" => file # Len(Files(k)) /\ ~ (k <= K /\ file = 2)
<1>5. \E l \in {"samples", "all_reduce", "open"} : Reaches(l)
  <2>1. CASE f = "doc"
    <3>1. Reaches("samples")
      BY <1>3, <2>1 DEF Close, Goto
    <3> QED
      BY <3>1
  <2>2. CASE f # "doc"
    <3> DEFINE l == IF file = Len(Files(at[0])) THEN "all_reduce" ELSE "open"
    <3>1. l \in {"samples", "all_reduce", "open"} /\ Reaches(l)
      BY <1>3, <2>2 DEF Close, Goto
    <3> QED
      BY <3>1
  <2> QED
    BY <2>1, <2>2
<1>l. PICK l \in {"samples", "all_reduce", "open"} : Reaches(l)
  BY <1>5
<1>6. \A q \in Ranks : pc'[q] = IF q = 0 THEN l ELSE pc[q]
  BY <1>1, <1>l DEF Typing
<1> HIDE DEF f
<1>7. /\ DOMAIN disk' = Datasets /\ \A d \in Datasets : DOMAIN disk'[d] = AllFiles
      /\ disk'[k][f] = Holds(Contents)
      /\ \A d \in Datasets, g \in AllFiles : d # k \/ g # f => disk'[d][g] = disk[d][g]
  <2> DEFINE what == Holds(Contents)
  <2>1. Typing /\ k \in Datasets /\ f \in AllFiles /\ disk' = [disk EXCEPT ![k][f] = what]
    BY <1>1, <1>2, <1>3
  <2> HIDE DEF k, what
  <2>2. /\ DOMAIN disk' = Datasets /\ \A d \in Datasets : DOMAIN disk'[d] = AllFiles
        /\ disk'[k][f] = what
        /\ \A d \in Datasets, g \in AllFiles : d # k \/ g # f => disk'[d][g] = disk[d][g]
    BY <2>1, DiskWrite, ZenonT(40)
  <2> QED
    BY <2>2 DEF what
<1>8. Typing'
  <2>1. pc' \in [Ranks -> Labels]
    <3>1. pc \in [Ranks -> Labels] /\ l \in Labels /\ pc' = [pc EXCEPT ![0] = l]
      BY <1>1, <1>l DEF Typing, Labels
    <3> QED
      BY <3>1
  <2>2. file' \in Nat
    BY <1>1 DEF Typing
  <2> QED
    BY <1>1, <1>7, <2>1, <2>2 DEF Typing, Datasets, K
<1>9. PlaceInv'
  <2>1. l = "open" => file + 1 \in 1 .. (IF k <= K THEN 4 ELSE 2)
    BY <1>2, <1>3, <1>l
  <2> QED
    BY <1>1, <1>2, <1>6, <1>l, <2>1 DEF PlaceInv, K, At
<1>10. BuiltInv'
  <2>1. l = "samples" => BuildInv(Corpus(k), build')
    <3> SUFFICES ASSUME l = "samples"
                 PROVE  BuildInv(Corpus(k), build')
      OBVIOUS
    <3>1. build' = StartSamples(Corpus(k)) /\ k \in 1 .. K
      BY <1>1, <1>2, <1>l, PlaceFacts
    <3> QED
      BY <1>1, <3>1, JobFacts, SamplesStart DEF Typing
  <2>2. l = "open" /\ k <= K => file' # 3
    BY <1>1, <1>2, <1>l
  <2>3. k > K => BlendSize(args) <= Len(blend[0].index)
    BY <1>1 DEF BuiltInv, At
  <2> QED
    BY <1>1, <1>2, <1>6, <1>l, <2>1, <2>2, <2>3 DEF BuiltInv, K, Corpus, At
<1>11. DiskInv'
  <2>1. f = "sample" => GoodSamples(Corpus(k), Contents)
    <3> SUFFICES ASSUME f = "sample"
                 PROVE  GoodSamples(Corpus(k), Contents)
      OBVIOUS
    <3>1. k \in 1 .. K /\ BuildInv(Corpus(k), build) /\ ~ MoreSamples(Corpus(k), build)
      BY <1>1, <1>2, <1>3, PlaceFacts DEF BuiltInv, At
    <3> QED
      BY <1>1, <1>4, <3>1, JobFacts, BuiltToTheEnd DEF Typing
  <2>2. f = "index" => GoodBlend(args, Contents)
    <3> SUFFICES ASSUME f = "index"
                 PROVE  GoodBlend(args, Contents)
      OBVIOUS
    <3>1. k > K
      BY <1>2, <1>3
    <3>2. BlendInv(args, blend[0]) /\ BlendSize(args) <= Len(blend[0].index)
      BY <1>1, <1>2, <3>1 DEF BuiltInv, At
    <3> QED
      BY <1>4, <3>2 DEF GoodBlend
  <2>3. Holds(Contents).content = Contents
    BY DEF Holds
  <2>4. "index" \in AllFiles /\ "sample" \in AllFiles
    BY DEF AllFiles
  <2> QED
    BY <1>1, <1>7, <2>1, <2>2, <2>3, <2>4 DEF DiskInv, K, Corpus, Datasets
<1>12. LoadedInv'
  BY <1>1, <1>6, <1>l DEF LoadedInv, K, Corpus, Blended, At
<1> QED
  BY <1>8, <1>9, <1>10, <1>11, <1>12 DEF IInv

\* A step of the builder keeps it.
LEMMA BuildSamplesInv ==
  ASSUME IInv, BuildSamples
  PROVE  IInv'
<1> DEFINE k == at[0]
           c == Corpus(k)
<1>1. /\ Typing /\ PlaceInv /\ BuiltInv /\ DiskInv /\ LoadedInv
      /\ At(0, "samples") /\ args' = args /\ at' = at /\ file' = file
      /\ blend' = blend /\ loaded' = loaded /\ disk' = disk
  BY DEF IInv, BuildSamples
<1>2. 0 \in Ranks /\ k \in 1 .. K /\ k \in Nat /\ K \in Nat /\ k <= K /\ file = 3
  BY <1>1, PlaceFacts, JobFacts DEF PlaceInv, At, Typing
<1>3. IsIndexed(c) /\ BuildInv(c, build)
  BY <1>1, <1>2, JobFacts DEF BuiltInv, At, Typing
<1> DEFINE l == IF MoreSamples(c, build) THEN "samples" ELSE "open"
<1>4. pc' = [pc EXCEPT ![0] = l]
  BY <1>1 DEF BuildSamples, Goto, At, Typing
<1>5. \A q \in Ranks : pc'[q] = IF q = 0 THEN l ELSE pc[q]
  BY <1>1, <1>4 DEF Typing
<1>6. BuildInv(c, build') /\ (l = "open" => ~ MoreSamples(c, build'))
  <2>1. CASE ~ MoreSamples(c, build)
    BY <1>3, <2>1 DEF BuildSamples
  <2>2. CASE MoreSamples(c, build) /\ Remaining(c, build) <= 0
    <3>1. build' = EndSample(c, build)
      BY <2>2 DEF BuildSamples
    <3> QED
      BY <1>3, <2>2, <3>1, SamplesEnd
  <2>3. CASE MoreSamples(c, build) /\ ~ (Remaining(c, build) <= 0)
    <3>1. build' = NextDocument(c, build)
      BY <2>3 DEF BuildSamples
    <3> QED
      BY <1>3, <2>3, <3>1, SamplesGoOn
  <2> QED
    BY <2>1, <2>2, <2>3
<1> HIDE DEF l
<1>7. l \in {"samples", "open"}
  BY DEF l
<1>8. Typing'
  BY <1>1, <1>4, <1>7 DEF Typing, Datasets, K, Labels
<1>9. PlaceInv'
  BY <1>1, <1>2, <1>5, <1>7 DEF PlaceInv, K, At
<1>10. BuiltInv'
  BY <1>1, <1>2, <1>5, <1>6, <1>7 DEF BuiltInv, K, Corpus, At
<1>11. DiskInv'
  BY <1>1 DEF DiskInv, K, Corpus, Datasets
<1>12. LoadedInv'
  BY <1>1, <1>5, <1>7 DEF LoadedInv, K, Corpus, Blended, At
<1> QED
  BY <1>8, <1>9, <1>10, <1>11, <1>12 DEF IInv

\* The length of a blend is a number.
LEMMA BlendLength ==
  ASSUME NEW j, NEW b, BlendInv(j, b)
  PROVE  Len(b.index) \in Nat
<1> DEFINE E == [dataset : Weights(j), sample : Nat]
           s == b.index
<1>1. s \in Seq(E)
  BY DEF BlendInv
<1> HIDE DEF E, s
<1>2. Len(s) \in Nat
  BY <1>1
<1> QED
  BY <1>2 DEF s

\* Loading one corpus leaves the others alone.
LEMMA LoadedWrite ==
  ASSUME Typing, NEW r \in Ranks, NEW k \in Datasets, NEW what,
         loaded' = [loaded EXCEPT ![r][k] = what]
  PROVE  /\ DOMAIN loaded' = Ranks /\ \A q \in Ranks : DOMAIN loaded'[q] = Datasets
         /\ loaded'[r][k] = what
         /\ \A q \in Ranks, l \in Datasets :
              q # r \/ l # k => loaded'[q][l] = loaded[q][l]
<1>1. DOMAIN loaded = Ranks /\ \A q \in Ranks : DOMAIN loaded[q] = Datasets
  BY DEF Typing
<1>2. /\ DOMAIN loaded' = Ranks
      /\ loaded'[r] = [loaded[r] EXCEPT ![k] = what]
      /\ \A q \in Ranks : q # r => loaded'[q] = loaded[q]
  BY <1>1
<1> QED
  BY <1>1, <1>2

\* Drawing a sample of the blend keeps the invariant.
LEMMA BuildBlendInv ==
  ASSUME IInv, NEW r \in Ranks, BuildBlend(r)
  PROVE  IInv'
<1>1. /\ Typing /\ PlaceInv /\ BuiltInv /\ DiskInv /\ LoadedInv
      /\ At(r, "blend") /\ args' = args /\ at' = at /\ file' = file /\ build' = build
      /\ disk' = disk
  BY DEF IInv, BuildBlend
<1>2. /\ 0 \in Ranks /\ K \in Nat /\ K + 1 \in Datasets /\ IsBlend(args)
      /\ at[r] \in Nat /\ at[r] > K /\ ~ (at[r] <= K)
  BY <1>1, JobFacts, PlaceFacts DEF PlaceInv, At, Typing, Datasets
<1>3. BlendInv(args, blend[r]) /\ Len(blend[r].index) \in Nat /\ BlendSize(args) \in Nat
  BY <1>1, <1>2, BlendLength, BlendFacts DEF BuiltInv
<1>4. DiskInv'
  BY <1>1 DEF DiskInv, K, Corpus, Datasets
<1>5. CASE Len(blend[r].index) < BlendSize(args)
  <2>1. blend' = [blend EXCEPT ![r] = Draw(args, blend[r])] /\ pc' = pc /\ loaded' = loaded
    BY <1>5 DEF BuildBlend
  <2>2. \A q \in Ranks : blend'[q] = IF q = r THEN Draw(args, blend[r]) ELSE blend[q]
    BY <1>1, <2>1 DEF Typing
  <2>3. Typing' /\ PlaceInv' /\ LoadedInv'
    BY <1>1, <2>1 DEF Typing, PlaceInv, LoadedInv, Datasets, K, Corpus, Blended, At
  <2>4. \A q \in Ranks : BlendInv(args', blend'[q])
    BY <1>1, <1>2, <1>3, <2>2, BlendGrows DEF BuiltInv
  <2>5. r = 0 => pc[0] = "blend"
    BY <1>1 DEF At
  <2>6. BuiltInv'
    BY <1>1, <1>2, <2>1, <2>2, <2>4, <2>5 DEF BuiltInv, K, Corpus
  <2> QED
    BY <1>4, <2>3, <2>6 DEF IInv
<1>6. CASE ~ (Len(blend[r].index) < BlendSize(args)) /\ args.data_cache_path
  <2>1. pc' = [pc EXCEPT ![r] = "open"] /\ blend' = blend /\ loaded' = loaded
    BY <1>6 DEF BuildBlend, Goto
  <2>2. r = 0 /\ file = 1 /\ BlendSize(args) <= Len(blend[0].index)
    BY <1>1, <1>3, <1>6 DEF PlaceInv, At
  <2>3. \A q \in Ranks : pc'[q] = IF q = 0 THEN "open" ELSE pc[q]
    BY <1>1, <2>1, <2>2 DEF Typing
  <2>4. Typing'
    BY <1>1, <2>1 DEF Typing, Datasets, K, Labels
  <2>5. PlaceInv'
    BY <1>1, <1>2, <2>2, <2>3 DEF PlaceInv, K
  <2>6. BuiltInv'
    BY <1>1, <1>2, <2>1, <2>2, <2>3 DEF BuiltInv, K, Corpus
  <2>7. LoadedInv'
    BY <1>1, <2>1, <2>3 DEF LoadedInv, K, Corpus, Blended, At
  <2> QED
    BY <1>4, <2>4, <2>5, <2>6, <2>7 DEF IInv
<1>7. CASE ~ (Len(blend[r].index) < BlendSize(args)) /\ ~ args.data_cache_path
  <2>1. /\ pc' = [pc EXCEPT ![r] = "check"] /\ blend' = blend
        /\ loaded' = [loaded EXCEPT ![r][K + 1] = blend[r].index]
    BY <1>7 DEF BuildBlend, Goto
  <2>2. \A q \in Ranks : pc'[q] = IF q = r THEN "check" ELSE pc[q]
    BY <1>1, <2>1 DEF Typing
  <2>3. /\ DOMAIN loaded' = Ranks /\ \A q \in Ranks : DOMAIN loaded'[q] = Datasets
        /\ loaded'[r][K + 1] = blend[r].index
        /\ \A q \in Ranks, l \in Datasets :
             q # r \/ l # K + 1 => loaded'[q][l] = loaded[q][l]
    <3> DEFINE k == K + 1
               what == blend[r].index
    <3>1. Typing /\ k \in Datasets /\ loaded' = [loaded EXCEPT ![r][k] = what]
      BY <1>1, <1>2, <2>1
    <3> HIDE DEF k, what
    <3>2. /\ DOMAIN loaded' = Ranks /\ \A q \in Ranks : DOMAIN loaded'[q] = Datasets
          /\ loaded'[r][k] = what
          /\ \A q \in Ranks, l \in Datasets :
               q # r \/ l # k => loaded'[q][l] = loaded[q][l]
      BY <3>1, LoadedWrite, ZenonT(40)
    <3> QED
      BY <3>2 DEF k, what
  <2>4. Typing'
    BY <1>1, <2>1, <2>3 DEF Typing, Datasets, K, Labels
  <2>5. PlaceInv'
    BY <1>1, <1>2, <2>2 DEF PlaceInv, K
  <2>6. BuiltInv'
    BY <1>1, <1>2, <2>1, <2>2 DEF BuiltInv, K, Corpus
  <2>7. GoodBlend(args, loaded'[r][K + 1])
    BY <1>3, <1>7, <2>3 DEF GoodBlend
  <2>8. \A k \in 1 .. K : k \in Datasets /\ k # K + 1
    BY <1>2 DEF Datasets
  <2>9. \A k \in 1 .. K, q \in Ranks : loaded'[q][k] = loaded[q][k]
    BY <2>3, <2>8
  <2>10. \A q \in Ranks : q # r => loaded'[q][K + 1] = loaded[q][K + 1]
    BY <1>2, <2>3
  <2>11. LoadedInv'
    BY <1>1, <2>2, <2>7, <2>9, <2>10 DEF LoadedInv, K, Corpus, Blended, At
  <2> QED
    BY <1>4, <2>4, <2>5, <2>6, <2>11 DEF IInv
<1> QED
  BY <1>5, <1>6, <1>7

\* The size check keeps it.
LEMMA CheckSizeInv ==
  ASSUME IInv, NEW r \in Ranks, CheckSize(r)
  PROVE  IInv'
<1>1. /\ Typing /\ PlaceInv /\ BuiltInv /\ DiskInv /\ LoadedInv
      /\ At(r, "check") /\ args' = args /\ at' = at /\ file' = file /\ build' = build
      /\ blend' = blend /\ loaded' = loaded /\ disk' = disk
  BY DEF IInv, CheckSize
<1>2. PICK l \in {"train", "error"} : pc' = [pc EXCEPT ![r] = l]
  BY DEF CheckSize, Goto
<1>3. \A q \in Ranks : pc'[q] = IF q = r THEN l ELSE pc[q]
  BY <1>1, <1>2 DEF Typing
<1>4. 0 \in Ranks /\ K \in Nat /\ at[r] \in Nat /\ at[r] > K
  BY <1>1, JobFacts, PlaceFacts DEF PlaceInv, At, Typing
<1>5. Typing'
  BY <1>1, <1>2 DEF Typing, Datasets, K, Labels
<1>6. PlaceInv'
  BY <1>1, <1>3, <1>4 DEF PlaceInv, K
<1>7. BuiltInv'
  BY <1>1, <1>3, <1>4 DEF BuiltInv, K, Corpus
<1>8. DiskInv'
  BY <1>1 DEF DiskInv, K, Corpus, Datasets
<1>9. LoadedInv'
  <2>1. \A k \in 1 .. K : k < at[r]
    BY <1>4
  <2> QED
    BY <1>1, <1>3, <2>1 DEF LoadedInv, K, Corpus, Blended, At
<1> QED
  BY <1>5, <1>6, <1>7, <1>8, <1>9 DEF IInv

\* A relaunch keeps it: what is on disk is all of it or cannot be loaded.
LEMMA RelaunchInv ==
  ASSUME IInv, Relaunch
  PROVE  IInv'
<1>1. /\ Typing /\ DiskInv
      /\ args' = args /\ file' = file /\ build' = build /\ disk' = disk
      /\ pc' = [r \in Ranks |-> "look"] /\ at' = [r \in Ranks |-> 1]
      /\ loaded' = [r \in Ranks |-> [k \in Datasets |-> <<>>]]
      /\ blend' = [r \in Ranks |-> StartBlend(args)]
  BY DEF IInv, Relaunch
<1>2. 0 \in Ranks /\ K \in Nat \ {0} /\ 1 \in Datasets /\ IsBlend(args)
  BY <1>1, JobFacts, PlaceFacts DEF Typing, Datasets
<1>3. Typing'
  BY <1>1, <1>2 DEF Typing, Datasets, K, Labels
<1>4. PlaceInv'
  BY <1>1, <1>2 DEF PlaceInv
<1>5. BuiltInv'
  BY <1>1, <1>2, BlendStarts DEF BuiltInv
<1>6. DiskInv'
  BY <1>1 DEF DiskInv, K, Corpus, Datasets
<1>7. LoadedInv'
  BY <1>1, <1>2 DEF LoadedInv, At
<1> QED
  BY <1>3, <1>4, <1>5, <1>6, <1>7 DEF IInv

\* Loading the files keeps it.
LEMMA LoadInv ==
  ASSUME IInv, NEW r \in Ranks, Load(r)
  PROVE  IInv'
<1> DEFINE k == at[r]
           content(f) == disk[k][f].content
           bad == \E i \in DOMAIN Files(k) :
                    Files(k)[i] # "desc" /\ disk[k][Files(k)[i]].state # "whole"
           index == IF k > K THEN content("index")
                    ELSE [doc_idx |-> content("doc"), sample_idx |-> content("sample"),
                          shuffle_idx |-> content("shuffle")]
<1>1. /\ Typing /\ PlaceInv /\ BuiltInv /\ DiskInv /\ LoadedInv
      /\ At(r, "load") /\ args' = args /\ file' = file /\ build' = build
      /\ blend' = blend /\ disk' = disk
  BY DEF IInv, Load
<1>2. /\ 0 \in Ranks /\ K \in Nat \ {0} /\ k \in Datasets /\ k \in 1 .. K + 1
      /\ \A d \in 1 .. K : d \in Datasets
  BY <1>1, JobFacts, PlaceFacts DEF Typing, Datasets
<1>3. DiskInv'
  BY <1>1 DEF DiskInv, K, Corpus, Datasets
<1>4. CASE bad
  <2>1. pc' = [pc EXCEPT ![r] = "error"] /\ at' = at /\ loaded' = loaded
    BY <1>4 DEF Load, Goto
  <2>2. \A q \in Ranks : pc'[q] = IF q = r THEN "error" ELSE pc[q]
    BY <1>1, <2>1 DEF Typing
  <2>3. Typing'
    BY <1>1, <2>1 DEF Typing, Datasets, K, Labels
  <2>4. PlaceInv'
    BY <1>1, <1>2, <2>1, <2>2 DEF PlaceInv, K
  <2>5. BuiltInv'
    BY <1>1, <1>2, <2>1, <2>2 DEF BuiltInv, K, Corpus
  <2>6. LoadedInv'
    BY <1>1, <2>1, <2>2 DEF LoadedInv, K, Corpus, Blended, At
  <2> QED
    BY <1>3, <2>3, <2>4, <2>5, <2>6 DEF IInv
<1>5. CASE ~ bad
  <2> DEFINE l == IF Follows(k) THEN "look" ELSE IF Blended THEN "check" ELSE "train"
             m == IF Follows(k) THEN k + 1 ELSE k
  <2>1. /\ loaded' = [loaded EXCEPT ![r][k] = index]
        /\ at' = [at EXCEPT ![r] = m] /\ pc' = [pc EXCEPT ![r] = l]
    BY <1>5 DEF Load, Goto
  <2>2. /\ k > K => GoodBlend(args, index)
        /\ k <= K => GoodSamples(Corpus(k), index.sample_idx)
    <3>1. CASE k > K
      <4>1. ~ (k <= K)
        BY <1>2, <3>1
      <4>2. 1 \in DOMAIN Files(k) /\ Files(k)[1] = "index"
        BY <4>1, FilesFacts
      <4>3. disk[k]["index"].state = "whole"
        BY <1>5, <4>2
      <4> QED
        BY <1>1, <1>2, <3>1, <4>1, <4>3 DEF DiskInv
    <3>2. CASE k <= K
      <4>1. ~ (k > K)
        BY <1>2, <3>2
      <4>2. 3 \in DOMAIN Files(k) /\ Files(k)[3] = "sample"
        BY <3>2, FilesFacts
      <4>3. disk[k]["sample"].state = "whole"
        BY <1>5, <4>2
      <4>4. index.sample_idx = disk[k]["sample"].content
        BY <4>1
      <4> QED
        BY <1>1, <1>2, <3>2, <4>1, <4>3, <4>4 DEF DiskInv
    <3> QED
      BY <1>2, <3>1, <3>2
  <2>3. /\ DOMAIN loaded' = Ranks /\ \A q \in Ranks : DOMAIN loaded'[q] = Datasets
        /\ loaded'[r][k] = index
        /\ \A q \in Ranks, d \in Datasets :
             q # r \/ d # k => loaded'[q][d] = loaded[q][d]
    <3>1. Typing /\ k \in Datasets /\ loaded' = [loaded EXCEPT ![r][k] = index]
      BY <1>1, <1>2, <2>1
    <3> HIDE DEF k, index
    <3> QED
      BY <3>1, LoadedWrite, ZenonT(40)
  <2>4. /\ m \in Datasets /\ m \in Nat
        /\ l = "look" => m = k + 1 /\ k <= K
        /\ l = "check" => Blended /\ m = k /\ k > K
        /\ l = "train" => ~ Blended /\ m = k /\ k >= K
        /\ l \in {"look", "check", "train"}
    BY <1>2 DEF Follows, Datasets
  <2> HIDE DEF k, index, bad, l, m
  <2>5. \A q \in Ranks : /\ pc'[q] = IF q = r THEN l ELSE pc[q]
                         /\ at'[q] = IF q = r THEN m ELSE at[q]
    BY <1>1, <2>1 DEF Typing
  <2>6. Typing'
    <3>1. pc' \in [Ranks -> Labels]
      <4>1. pc \in [Ranks -> Labels] /\ l \in Labels
        BY <1>1, <2>4 DEF Typing, Labels
      <4> QED
        BY <2>1, <4>1
    <3>2. at' \in [Ranks -> Datasets]
      BY <1>1, <2>1, <2>4 DEF Typing
    <3> QED
      BY <1>1, <2>3, <3>1, <3>2 DEF Typing, Datasets, K
  <2>7. PlaceInv'
    BY <1>1, <1>2, <2>4, <2>5 DEF PlaceInv, K
  <2>8. BuiltInv'
    BY <1>1, <1>2, <2>4, <2>5 DEF BuiltInv, K, Corpus
  <2>9. LoadedInv'
    <3>1. ASSUME NEW q \in Ranks, pc'[q] \in {"check", "train"}, Blended
          PROVE  GoodBlend(args, loaded'[q][K + 1])
      <4>1. CASE q # r
        <5>1. pc[q] = pc'[q] /\ loaded'[q][K + 1] = loaded[q][K + 1]
          BY <1>2, <2>3, <2>5, <4>1 DEF Datasets
        <5> QED
          BY <1>1, <3>1, <5>1 DEF LoadedInv
      <4>2. CASE q = r
        <5>1. k = K + 1 /\ k > K
          BY <1>2, <2>4, <2>5, <3>1, <4>2
        <5> QED
          BY <2>2, <2>3, <4>2, <5>1
      <4> QED
        BY <4>1, <4>2
    <3>2. ASSUME NEW q \in Ranks, NEW d \in 1 .. K, d < at'[q] \/ pc'[q] = "train"
          PROVE  GoodSamples(Corpus(d), loaded'[q][d].sample_idx)
      <4>1. CASE q # r
        <5>1. pc[q] = pc'[q] /\ at[q] = at'[q] /\ loaded'[q][d] = loaded[q][d]
          BY <1>2, <2>3, <2>5, <4>1
        <5> QED
          BY <1>1, <3>2, <5>1 DEF LoadedInv, At
      <4>2. CASE q = r /\ d = k
        <5>1. k <= K
          BY <1>2, <4>2
        <5> QED
          BY <2>2, <2>3, <4>2, <5>1
      <4>3. CASE q = r /\ d # k
        <5>1. d < k
          BY <1>2, <2>4, <2>5, <3>2, <4>3
        <5>2. loaded'[q][d] = loaded[q][d] /\ d < at[q]
          BY <1>2, <2>3, <4>3, <5>1 DEF k
        <5> QED
          BY <1>1, <5>2 DEF LoadedInv
      <4> QED
        BY <4>1, <4>2, <4>3
    <3> QED
      BY <1>1, <3>1, <3>2 DEF LoadedInv, K, Corpus, Blended, At
  <2> QED
    BY <1>3, <2>6, <2>7, <2>8, <2>9 DEF IInv
<1> QED
  BY <1>4, <1>5

\* Every step keeps the invariant.
LEMMA NextInv ==
  ASSUME IInv, [Next]_vars
  PROVE  IInv'
<1>1. CASE UNCHANGED vars
  BY <1>1 DEF vars, IInv, Typing, PlaceInv, BuiltInv, DiskInv, LoadedInv, Datasets, K, Corpus,
              Blended, At
<1>2. CASE Step
  BY <1>2, OpenInv, CloseInv, BuildSamplesInv, AllReduceInv, LookInv, BuildBlendInv, LoadInv,
     CheckSizeInv DEF Step
<1>3. CASE DiskError
  BY <1>3, DiskErrorInv
<1>4. CASE Relaunch
  BY <1>4, RelaunchInv
<1> QED
  BY <1>1, <1>2, <1>3, <1>4 DEF Next, Done

\* In every state of every job the invariant holds.
THEOREM CacheInvariant == Spec => []IInv
<1>1. Init => IInv
  BY InitInv
<1>2. IInv /\ [Next]_vars => IInv'
  BY NextInv
<1> QED
  BY <1>1, <1>2, PTL DEF Spec

-----------------------------------------------------------------------------
\* The results.

\* Every sample a job trains on exists (blendable_dataset.py): whatever the
\* weights, the first num_samples samples of a blend are samples of their
\* corpora, also when another launch has built and written it.
THEOREM EveryBlendedSampleExists == Spec => []BlendedSamplesExist
<1>1. IInv => BlendedSamplesExist
  <2> SUFFICES ASSUME IInv, NEW r \in Ranks, At(r, "train"), Blended
               PROVE  /\ args.num_samples <= Len(loaded[r][K + 1])
                      /\ \A i \in 0 .. args.num_samples - 1 : SampleExists(loaded[r][K + 1], i)
    BY DEF BlendedSamplesExist
  <2> DEFINE index == loaded[r][K + 1]
             n == args.num_samples
  <2>1. args \in Jobs /\ IsBlend(args) /\ Weights(args) = 1 .. K
    BY JobFacts DEF IInv, Typing
  <2>2. GoodBlend(args, index)
    BY DEF IInv, LoadedInv, At
  <2>3. PICK b : BlendInv(args, b) /\ b.index = index /\ BlendSize(args) <= Len(index)
    BY <2>2 DEF GoodBlend
  <2>4. Len(index) \in Nat /\ BlendSize(args) \in Nat /\ n \in Nat /\ n <= BlendSize(args)
    BY <2>1, <2>3, BlendLength, BlendFacts, BlendLargeEnough DEF IsBlend
  <2>5. n <= Len(index)
    BY <2>3, <2>4
  <2>6. ASSUME NEW i \in 0 .. n - 1
        PROVE  SampleExists(index, i)
    <3> DEFINE e == index[i + 1]
               c == Corpus(e.dataset)
    <3>1. e.dataset \in 1 .. K /\ e.sample < DatasetNumSamples(args, e.dataset)
      <4>1. i \in 0 .. args.num_samples - 1 /\ i < Len(b.index)
        BY <2>3, <2>4
      <4>2. /\ b.index[i + 1].dataset \in Weights(args)
            /\ b.index[i + 1].sample < DatasetNumSamples(args, b.index[i + 1].dataset)
        BY <2>1, <2>3, <4>1, DrawnExists
      <4> QED
        BY <2>1, <2>3, <4>2
    <3>2. IsIndexed(c) /\ c.num_samples = DatasetNumSamples(args, e.dataset)
      BY SMTT(60), <2>1, <3>1, JobFacts
    <3>3. c.num_samples \in Nat /\ NumSamples(c) \in Nat /\ c.num_samples <= NumSamples(c)
      BY <3>2, SamplesEnough DEF IsIndexed, IsCorpus
    <3>4. e.sample \in Nat
      <4> DEFINE E == [dataset : Weights(args), sample : Nat]
      <4>1. index \in Seq(E) /\ i + 1 \in 1 .. Len(index)
        BY <2>3, <2>4 DEF BlendInv
      <4>2. \A x \in E : x.sample \in Nat
        OBVIOUS
      <4> HIDE DEF E, index
      <4>3. index[i + 1] \in E
        BY <4>1
      <4> QED
        BY <4>2, <4>3
    <3> HIDE DEF e, c
    <3>5. e.sample < NumSamples(c)
      BY <3>1, <3>2, <3>3, <3>4
    <3> QED
      BY <3>5 DEF SampleExists, e, c
  <2> QED
    BY <2>5, <2>6
<1> QED
  BY <1>1, CacheInvariant, PTL

\* The sample index a rank trains with is complete and tiles the stream of
\* documents: entry i is the place of token i * seq_length, though several
\* launches may have died in building and writing it (gpt_dataset.py).
SampleIndexTiles ==
  \A r \in Ranks : At(r, "train") =>
    \A k \in 1 .. K :
      /\ SamplesTile(Corpus(k), loaded[r][k].sample_idx)
      /\ Len(loaded[r][k].sample_idx) = NumSamples(Corpus(k)) + 1

\* The sample index a rank trains on is never a part of one: it tiles the
\* corpus.
THEOREM TrainedOnTiles == Spec => []SampleIndexTiles
<1>1. IInv => SampleIndexTiles
  BY DEF IInv, LoadedInv, GoodSamples, SampleIndexTiles
<1> QED
  BY <1>1, CacheInvariant, PTL

\* The loops of build_sample_idx (helpers.cpp), which have no bound checks,
\* only read doc_idx where it has an entry.
BuilderReadsDocIdx ==
  At(0, "samples") /\ MoreSamples(Corpus(at[0]), build) =>
    build.doc_idx_index \in DOMAIN Corpus(at[0]).doc_idx

\* The builder never reads doc_idx past its end.
THEOREM BuilderStaysInBounds == Spec => []BuilderReadsDocIdx
<1>1. IInv => BuilderReadsDocIdx
  <2> SUFFICES ASSUME IInv, At(0, "samples"), MoreSamples(Corpus(at[0]), build)
               PROVE  build.doc_idx_index \in DOMAIN Corpus(at[0]).doc_idx
    BY DEF BuilderReadsDocIdx
  <2> DEFINE c == Corpus(at[0])
  <2>1. at[0] \in 1 .. K /\ BuildInv(c, build)
    BY PlaceFacts DEF IInv, PlaceInv, BuiltInv, At
  <2>2. IsIndexed(c)
    BY <2>1, JobFacts DEF IInv, Typing
  <2> QED
    BY <2>1, <2>2, BuilderInBounds, EntriesFacts
<1> QED
  BY <1>1, CacheInvariant, PTL

-----------------------------------------------------------------------------
\* Sums of numbers grow.
LEMMA SumsGrow ==
  ASSUME NEW n \in Nat, NEW sum, NEW term, SumsUp(sum, n, term),
         \A k \in 1 .. n : term[k] \in Nat,
         NEW a \in 0 .. n, NEW b \in 0 .. n, a <= b
  PROVE  sum[a] <= sum[b]
<1> DEFINE D == {j \in Nat : a + j <= n => sum[a] <= sum[a + j]}
<1>1. 0 \in D
  BY DEF SumsUp
<1>2. ASSUME NEW j \in D PROVE j + 1 \in D
  <2>1. SUFFICES ASSUME a + (j + 1) <= n PROVE sum[a] <= sum[a + (j + 1)]
    OBVIOUS
  <2>2. a + j <= n /\ a + (j + 1) \in 1 .. n /\ (a + (j + 1)) - 1 = a + j
    BY <2>1
  <2>3. sum[a] <= sum[a + j]
    BY <2>2
  <2>4. sum[a + (j + 1)] = sum[a + j] + term[a + (j + 1)] /\ term[a + (j + 1)] \in Nat
    BY <2>2 DEF SumsUp
  <2>5. sum[a] \in Nat /\ sum[a + j] \in Nat
    BY <2>2 DEF SumsUp
  <2> QED BY <2>3, <2>4, <2>5
<1>3. D \in SUBSET Nat
  OBVIOUS
<1> HIDE DEF D
<1>4. D = Nat
  BY <1>1, <1>2, <1>3, SetInduction
<1>5. b - a \in D /\ a + (b - a) = b
  BY <1>4
<1> QED BY <1>5 DEF D

\* Every place up to a sum is in one of its terms.
LEMMA InTerm ==
  ASSUME NEW n \in Nat, NEW sum, NEW term, SumsUp(sum, n, term),
         \A k \in 1 .. n : term[k] \in Nat, NEW p \in 1 .. sum[n]
  PROVE  \E k \in 1 .. n : \E o \in 1 .. term[k] : p = sum[k - 1] + o
<1> DEFINE C == {k \in Nat : k <= n /\ p <= sum[k]}
<1>1. /\ \A k \in 0 .. n : sum[k] \in Nat
      /\ sum[0] = 0 /\ \A k \in 1 .. n : sum[k] = sum[k - 1] + term[k]
  BY DEF SumsUp
<1>2. n \in C
  OBVIOUS
<1>3. PICK k \in C : \A j \in C : k <= j
  <2>1. C \in SUBSET Nat /\ C # {}
    BY <1>2
  <2> HIDE DEF C
  <2> QED BY <2>1, LeastElement
<1>4. k \in 1 .. n /\ p <= sum[k]
  <2>1. k # 0
    BY <1>1
  <2> QED BY <2>1
<1>5. k - 1 \in 0 .. n /\ k - 1 \notin C
  BY <1>3, <1>4
<1>6. sum[k - 1] < p
  BY <1>1, <1>5
<1> DEFINE o == p - sum[k - 1]
<1>7. sum[k] \in Nat /\ sum[k - 1] \in Nat /\ sum[k] = sum[k - 1] + term[k]
  BY <1>1, <1>4, <1>5
<1>8. sum[k] - sum[k - 1] \in Int /\ o \in 1 .. sum[k] - sum[k - 1] /\ p = sum[k - 1] + o
  BY <1>4, <1>6, <1>7
<1>9. term[k] = sum[k] - sum[k - 1]
  <2>1. term[k] \in Nat
    BY <1>4
  <2> QED BY <1>7, <2>1
<1> QED BY <1>4, <1>8, <1>9

\* Sequences laid end to end: sum[k] is the length of the first k of n.
Laid(seqs, n, sum) == SumsUp(sum, n, [k \in 1 .. n |-> Len(seqs[k])])

\* s is the first m of the sequences.
Joins(s, seqs, m, sum) ==
  /\ Len(s) = sum[m]
  /\ \A k \in 1 .. m : \A o \in 1 .. Len(seqs[k]) : s[sum[k - 1] + o] = seqs[k][o]

\* The equation of FlattenSeq.
Concatenates(f, seqs, n) ==
  f = [i \in 1 .. n |-> IF i = 1 THEN seqs[i] ELSE f[i - 1] \o seqs[i]]

\* It has a solution.
LEMMA Concatenation ==
  ASSUME NEW E, NEW n \in Nat \ {0}, NEW seqs \in [1 .. n -> Seq(E)]
  PROVE  \E f : Concatenates(f, seqs, n)
<1> DEFINE Obeys(f, m) ==
             \A i \in 1 .. m : f[i] = IF i = 1 THEN seqs[i] ELSE f[i - 1] \o seqs[i]
           Has(m) == \E f \in [1 .. m -> Seq(E)] : Obeys(f, m)
           T == {m \in Nat : m \in 1 .. n => Has(m)}
<1>1. 0 \in T
  OBVIOUS
<1>2. ASSUME NEW m \in T PROVE m + 1 \in T
  <2>1. SUFFICES ASSUME m + 1 \in 1 .. n PROVE Has(m + 1)
    OBVIOUS
  <2>2. CASE m = 0
    <3> DEFINE g == [i \in 1 .. 1 |-> seqs[1]]
    <3>1. seqs[1] \in Seq(E)
      OBVIOUS
    <3>2. g \in [1 .. 1 -> Seq(E)] /\ g[1] = seqs[1]
      BY <3>1
    <3> HIDE DEF g
    <3>3. Obeys(g, 1)
      BY <3>2
    <3> QED BY <2>2, <3>2, <3>3
  <2>3. CASE m # 0
    <3>1. m \in 1 .. n /\ m \in Nat
      BY <2>1, <2>3
    <3>2. PICK f \in [1 .. m -> Seq(E)] : Obeys(f, m)
      BY <3>1
    <3> DEFINE next == f[m] \o seqs[m + 1]
               g == [i \in 1 .. m + 1 |-> IF i = m + 1 THEN next ELSE f[i]]
    <3>3. next \in Seq(E)
      <4>1. f[m] \in Seq(E) /\ seqs[m + 1] \in Seq(E)
        BY <2>1, <2>3, <3>1
      <4> QED BY <4>1
    <3> HIDE DEF next
    <3>4. g \in [1 .. m + 1 -> Seq(E)]
      <4>1. ASSUME NEW i \in 1 .. m + 1 PROVE (IF i = m + 1 THEN next ELSE f[i]) \in Seq(E)
        BY <3>1, <3>3
      <4> QED BY <4>1
    <3>5. g[m + 1] = next /\ \A i \in 1 .. m : g[i] = f[i]
      BY <3>1
    <3> HIDE DEF g
    <3>6. ASSUME NEW i \in 1 .. m + 1
          PROVE  g[i] = IF i = 1 THEN seqs[i] ELSE g[i - 1] \o seqs[i]
      <4>1. CASE i = m + 1
        <5>1. i # 1 /\ i - 1 = m /\ m \in 1 .. m
          BY <2>3, <3>1, <4>1
        <5> QED BY <3>5, <4>1, <5>1 DEF next
      <4>2. CASE i # m + 1
        <5>1. i \in 1 .. m /\ (i # 1 => i - 1 \in 1 .. m)
          BY <3>1, <4>2
        <5>2. g[i] = f[i] /\ (i # 1 => g[i - 1] = f[i - 1])
          BY <3>5, <5>1
        <5>3. f[i] = IF i = 1 THEN seqs[i] ELSE f[i - 1] \o seqs[i]
          BY <3>2, <5>1
        <5> QED BY <5>2, <5>3
      <4> QED BY <4>1, <4>2
    <3>7. Obeys(g, m + 1)
      BY <3>6
    <3> HIDE DEF Obeys
    <3> QED BY <3>4, <3>7
  <2> QED BY <2>2, <2>3
<1>3. T \in SUBSET Nat
  OBVIOUS
<1> HIDE DEF T
<1>4. T = Nat
  BY <1>1, <1>2, <1>3, SetInduction
<1>5. Has(n)
  <2>1. n \in T /\ n \in 1 .. n
    BY <1>4
  <2> HIDE DEF Has
  <2> QED BY <2>1 DEF T
<1>6. PICK f \in [1 .. n -> Seq(E)] : Obeys(f, n)
  BY <1>5
<1>7. f = [i \in 1 .. n |-> IF i = 1 THEN seqs[i] ELSE f[i - 1] \o seqs[i]]
  BY <1>6
<1> QED BY <1>7 DEF Concatenates

\* One more sequence is laid behind.
LEMMA JoinOne ==
  ASSUME NEW E, NEW s \in Seq(E), NEW t \in Seq(E)
  PROVE  /\ s \o t \in Seq(E) /\ Len(s \o t) = Len(s) + Len(t)
         /\ \A p \in 1 .. Len(s) : (s \o t)[p] = s[p]
         /\ \A o \in 1 .. Len(t) : (s \o t)[Len(s) + o] = t[o]
OBVIOUS

\* Joining one more of them.
LEMMA JoinsMore ==
  ASSUME NEW E, NEW n \in Nat, NEW seqs \in [1 .. n -> Seq(E)], NEW sum, Laid(seqs, n, sum),
         NEW m \in Nat, m + 1 \in 1 .. n, NEW s \in Seq(E), Joins(s, seqs, m, sum)
  PROVE  Joins(s \o seqs[m + 1], seqs, m + 1, sum)
<1> DEFINE t == seqs[m + 1]
           u == s \o t
<1>1. t \in Seq(E)
  OBVIOUS
<1>2. /\ Len(u) = Len(s) + Len(t)
      /\ \A p \in 1 .. Len(s) : u[p] = s[p]
      /\ \A o \in 1 .. Len(t) : u[Len(s) + o] = t[o]
  BY <1>1, JoinOne
<1>3. /\ \A k \in 0 .. n : sum[k] \in Nat
      /\ \A k \in 1 .. n : sum[k] = sum[k - 1] + Len(seqs[k])
  BY DEF Laid, SumsUp
<1>4. sum[m + 1] = sum[m] + Len(t) /\ Len(s) = sum[m] /\ (m + 1) - 1 = m
  BY <1>3 DEF Joins
<1> HIDE DEF u, t
<1>5. Len(u) = sum[m + 1]
  BY <1>2, <1>4
<1>6. ASSUME NEW k \in 1 .. m + 1, NEW o \in 1 .. Len(seqs[k])
      PROVE  u[sum[k - 1] + o] = seqs[k][o]
  <2>1. CASE k = m + 1
    BY <1>2, <1>4, <2>1 DEF t
  <2>2. CASE k # m + 1
    <3>1. k \in 1 .. m /\ k \in 1 .. n
      BY <2>2
    <3>2. s[sum[k - 1] + o] = seqs[k][o]
      BY <3>1 DEF Joins
    <3>3. sum[k - 1] + o \in 1 .. Len(s)
      <4>1. sum[k] <= sum[m]
        <5> DEFINE term == [j \in 1 .. n |-> Len(seqs[j])]
        <5>1. SumsUp(sum, n, term)
          BY DEF Laid
        <5>2. ASSUME NEW j \in 1 .. n PROVE term[j] \in Nat
          <6>1. seqs[j] \in Seq(E)
            OBVIOUS
          <6> QED BY <6>1
        <5>3. k \in 0 .. n /\ m \in 0 .. n /\ k <= m
          BY <3>1
        <5> HIDE DEF term
        <5> QED BY <5>1, <5>2, <5>3, SumsGrow
      <4>2. sum[k] = sum[k - 1] + Len(seqs[k]) /\ sum[k - 1] \in Nat /\ sum[k] \in Nat
            /\ sum[m] \in Nat
        BY <1>3, <3>1
      <4>3. Len(seqs[k]) \in Nat
        <5>1. seqs[k] \in Seq(E)
          BY <3>1
        <5> QED BY <5>1
      <4> DEFINE a == sum[k - 1]
                 b == sum[k]
                 l == Len(seqs[k])
                 c == sum[m]
      <4>4. b <= c /\ b = a + l /\ a \in Nat /\ b \in Nat /\ c \in Nat /\ l \in Nat
        BY <4>1, <4>2, <4>3
      <4>5. o \in 1 .. l /\ Len(s) = c
        BY <1>4
      <4> HIDE DEF a, b, c, l
      <4>6. a + o \in 1 .. c
        BY ONLY <4>4, <4>5
      <4> QED BY <4>5, <4>6 DEF a
    <3>4. u[sum[k - 1] + o] = s[sum[k - 1] + o]
      BY <1>2, <3>3
    <3> QED BY <3>2, <3>4
  <2> QED BY <2>1, <2>2
<1> QED BY <1>5, <1>6 DEF Joins, u, t

\* FlattenSeq lays them end to end.
LEMMA Flattened ==
  ASSUME NEW E, NEW n \in Nat \ {0}, NEW seqs \in [1 .. n -> Seq(E)], NEW sum,
         Laid(seqs, n, sum)
  PROVE  FlattenSeq(seqs) \in Seq(E) /\ Joins(FlattenSeq(seqs), seqs, n, sum)
<1>1. Len(seqs) = n
  OBVIOUS
<1> DEFINE flatten == CHOOSE f : f = [i \in 1 .. Len(seqs) |->
                                        IF i = 1 THEN seqs[i] ELSE f[i - 1] \o seqs[i]]
<1>2. FlattenSeq(seqs) = flatten[n]
  <2>1. ~ (Len(seqs) = 0)
    BY <1>1
  <2>2. FlattenSeq(seqs) = flatten[Len(seqs)]
    BY <2>1, Zenon DEF FlattenSeq
  <2> HIDE DEF flatten
  <2> QED BY <1>1, <2>2
<1>3. Concatenates(flatten, seqs, n)
  <2> DEFINE eq(f) == f = [i \in 1 .. Len(seqs) |->
                              IF i = 1 THEN seqs[i] ELSE f[i - 1] \o seqs[i]]
  <2>1. PICK f : Concatenates(f, seqs, n)
    BY Concatenation
  <2>2. eq(f)
    BY <1>1, <2>1 DEF Concatenates
  <2> HIDE DEF eq
  <2>3. eq(CHOOSE h : eq(h))
    BY <2>2
  <2>4. eq(flatten)
    BY <2>3 DEF eq
  <2> HIDE DEF flatten
  <2> QED BY <1>1, <2>4 DEF eq, Concatenates
<1> HIDE DEF flatten
<1>4. /\ flatten[1] = seqs[1]
      /\ \A i \in 2 .. n : flatten[i] = flatten[i - 1] \o seqs[i]
  <2>1. \A i \in 1 .. n : flatten[i] = IF i = 1 THEN seqs[i] ELSE flatten[i - 1] \o seqs[i]
    BY <1>3 DEF Concatenates
  <2>2. flatten[1] = seqs[1]
    <3>1. 1 \in 1 .. n
      OBVIOUS
    <3> QED BY <2>1, <3>1
  <2>3. ASSUME NEW i \in 2 .. n PROVE flatten[i] = flatten[i - 1] \o seqs[i]
    <3>1. i \in 1 .. n /\ ~ (i = 1)
      OBVIOUS
    <3>2. flatten[i] = IF i = 1 THEN seqs[i] ELSE flatten[i - 1] \o seqs[i]
      BY <2>1, <3>1
    <3> QED BY <3>1, <3>2
  <2> QED BY <2>2, <2>3
<1> DEFINE Good(s, m) == s \in Seq(E) /\ Joins(s, seqs, m, sum)
           T == {m \in Nat : m \in 1 .. n => Good(flatten[m], m)}
<1>5. 0 \in T
  OBVIOUS
<1>6. ASSUME NEW m \in T PROVE m + 1 \in T
  <2>1. SUFFICES ASSUME m + 1 \in 1 .. n PROVE Good(flatten[m + 1], m + 1)
    OBVIOUS
  <2>2. CASE m = 0
    <3>1. seqs[1] \in Seq(E) /\ flatten[m + 1] = seqs[1]
      BY <1>4, <2>2
    <3>2. sum[0] = 0 /\ sum[1] = sum[1 - 1] + Len(seqs[1]) /\ Len(seqs[1]) \in Nat
      <4>1. 1 \in 1 .. n
        OBVIOUS
      <4>2. Len(seqs[1]) \in Nat
        BY <3>1
      <4> QED BY <4>1, <4>2 DEF Laid, SumsUp
    <3>3. Joins(seqs[1], seqs, 1, sum)
      <4>1. Len(seqs[1]) = sum[1]
        BY <3>2
      <4>2. ASSUME NEW k \in 1 .. 1, NEW o \in 1 .. Len(seqs[k])
            PROVE  seqs[1][sum[k - 1] + o] = seqs[k][o]
        <5>1. k = 1 /\ sum[k - 1] + o = o
          BY <3>2
        <5> QED BY <5>1
      <4> QED BY <4>1, <4>2 DEF Joins
    <3> QED BY <2>2, <3>1, <3>3
  <2>3. CASE m # 0
    <3>1. m \in Nat /\ m \in 1 .. n /\ m + 1 \in 2 .. n /\ (m + 1) - 1 = m
      BY <2>1, <2>3
    <3>2. Good(flatten[m], m)
      BY <3>1
    <3>3. flatten[m + 1] = flatten[m] \o seqs[m + 1] /\ seqs[m + 1] \in Seq(E)
      BY <1>4, <2>1, <3>1
    <3>4. Joins(flatten[m] \o seqs[m + 1], seqs, m + 1, sum)
      BY <2>1, <3>1, <3>2, JoinsMore
    <3>5. flatten[m] \o seqs[m + 1] \in Seq(E)
      BY <3>2, <3>3, JoinOne
    <3> QED BY <3>3, <3>4, <3>5
  <2> QED BY <2>2, <2>3
<1>7. T \in SUBSET Nat
  OBVIOUS
<1> HIDE DEF T
<1>8. T = Nat
  BY <1>5, <1>6, <1>7, SetInduction
<1>9. Good(flatten[n], n)
  <2>1. n \in T /\ n \in 1 .. n
    BY <1>8
  <2> HIDE DEF Good
  <2> QED BY <2>1 DEF T
<1> QED BY <1>2, <1>9

-----------------------------------------------------------------------------
\* What a rank reads.

\* A token is a document and a place in it.
Tokens(c) == Documents(c) \X Int

\* A chunk has the tokens of the document it is of.
LEMMA ChunkFacts ==
  ASSUME NEW c, NEW doc \in Documents(c), NEW from \in Nat, NEW to \in Int, from <= to + 1
  PROVE  /\ Chunk(c, doc, from, to) \in Seq(Tokens(c))
         /\ Len(Chunk(c, doc, from, to)) = to - from + 1
         /\ \A o \in 1 .. to - from + 1 : Chunk(c, doc, from, to)[o] = <<doc, from + o - 1>>
<1> DEFINE l == to - from + 1
           s == [o \in 1 .. l |-> <<doc, from + o - 1>>]
<1>1. l \in Nat
  OBVIOUS
<1>2. \A o \in 1 .. l : <<doc, from + o - 1>> \in Tokens(c)
  BY DEF Tokens
<1>3. s \in Seq(Tokens(c)) /\ Len(s) = l
  <2> HIDE DEF l
  <2> QED BY <1>1, <1>2
<1>4. Chunk(c, doc, from, to) = s
  BY DEF Chunk
<1> QED BY <1>3, <1>4

\* The stream: token o of entry e comes after those of the entries before.
LEMMA StreamFacts ==
  ASSUME NEW c, IsIndexed(c)
  PROVE  /\ Stream(c) \in Seq(Tokens(c)) /\ Len(Stream(c)) = NumTokens(c)
         /\ \A e \in 0 .. Entries(c) - 1 : \A o \in 0 .. c.sizes[c.doc_idx[e]] - 1 :
              Stream(c)[c.start[e] + o + 1] = <<c.doc_idx[e], o>>
<1> DEFINE n == Entries(c)
           size(e) == c.sizes[c.doc_idx[e]]
           seqs == [k \in 1 .. n |-> Chunk(c, c.doc_idx[k - 1], 0, size(k - 1) - 1)]
<1>1. /\ n \in Nat /\ c.start[0] = 0 /\ c.start[n] = NumTokens(c)
      /\ \A i \in 0 .. n - 1 : size(i) \in Nat /\ c.start[i + 1] = c.start[i] + size(i)
  BY EntriesFacts
<1>2. NumTokens(c) \in Nat \ {0}
  BY EpochsEnough DEF IsIndexed
<1>3. n \in Nat \ {0}
  BY <1>1, <1>2
<1>4. \A e \in 0 .. n - 1 : c.doc_idx[e] \in Documents(c)
  BY DEF IsIndexed, IsDocIdx
<1>5. ASSUME NEW k \in 1 .. n
      PROVE  /\ seqs[k] \in Seq(Tokens(c)) /\ Len(seqs[k]) = size(k - 1)
             /\ \A o \in 1 .. size(k - 1) : seqs[k][o] = <<c.doc_idx[k - 1], o - 1>>
  <2>1. k - 1 \in 0 .. n - 1
    BY <1>3
  <2>2. size(k - 1) \in Nat /\ c.doc_idx[k - 1] \in Documents(c)
    BY <1>1, <1>4, <2>1
  <2>3. PICK from \in Nat, to \in Int, doc \in Documents(c) :
          from = 0 /\ to = size(k - 1) - 1 /\ doc = c.doc_idx[k - 1]
    BY <2>2
  <2>6. seqs[k] = Chunk(c, doc, from, to)
    BY <2>3
  <2>7. from <= to + 1 /\ to - from + 1 = size(k - 1)
    BY <2>2, <2>3
  <2> HIDE DEF seqs, size
  <2>8. /\ Chunk(c, doc, from, to) \in Seq(Tokens(c))
        /\ Len(Chunk(c, doc, from, to)) = to - from + 1
        /\ \A o \in 1 .. to - from + 1 : Chunk(c, doc, from, to)[o] = <<doc, from + o - 1>>
    BY ONLY <2>7, ChunkFacts
  <2>4. /\ seqs[k] \in Seq(Tokens(c)) /\ Len(seqs[k]) = size(k - 1)
        /\ \A o \in 1 .. size(k - 1) : seqs[k][o] = <<c.doc_idx[k - 1], 0 + o - 1>>
    BY <2>3, <2>6, <2>7, <2>8
  <2>5. \A o \in 1 .. size(k - 1) : 0 + o - 1 = o - 1
    BY <2>2
  <2> QED BY <2>2, <2>4, <2>5
<1>6. seqs \in [1 .. n -> Seq(Tokens(c))]
  BY <1>5
<1>7. Laid(seqs, n, c.start)
  <2> DEFINE lens == [k \in 1 .. n |-> Len(seqs[k])]
             terms == [k \in 1 .. n |-> size(k - 1)]
  <2>1. lens = terms
    BY <1>5
  <2>2. SumsUp(c.start, n, terms)
    BY DEF IsIndexed, IsStart
  <2> QED BY <2>1, <2>2 DEF Laid
<1>8. Stream(c) = FlattenSeq(seqs)
  BY DEF Stream
<1> HIDE DEF seqs, n
<1>9. Stream(c) \in Seq(Tokens(c)) /\ Joins(Stream(c), seqs, n, c.start)
  BY <1>3, <1>6, <1>7, <1>8, Flattened
<1>10. ASSUME NEW e \in 0 .. n - 1, NEW o \in 0 .. size(e) - 1
       PROVE  Stream(c)[c.start[e] + o + 1] = <<c.doc_idx[e], o>>
  <2>1. /\ e + 1 \in 1 .. n /\ (e + 1) - 1 = e /\ (o + 1) - 1 = o
        /\ o + 1 \in 1 .. size(e)
    BY <1>1, <1>3
  <2>2. Len(seqs[e + 1]) = size(e) /\ seqs[e + 1][o + 1] = <<c.doc_idx[e], o>>
    BY <1>5, <2>1
  <2>3. Stream(c)[c.start[e] + (o + 1)] = seqs[e + 1][o + 1]
    BY <1>9, <2>1, <2>2 DEF Joins
  <2>4. c.start[e] + (o + 1) = c.start[e] + o + 1
    <3>1. c.start[e] \in Nat
      BY EntriesFacts DEF n
    <3> QED BY <3>1
  <2> QED BY <2>2, <2>3, <2>4
<1>11. Len(Stream(c)) = NumTokens(c)
  BY <1>1, <1>9 DEF Joins
<1> QED BY <1>9, <1>10, <1>11 DEF n

\* The places in entry e where a sample from f to l begins and ends.
From(f, e) == IF e = f.doc THEN f.offset ELSE 0
To(c, l, e) == IF e = l.doc THEN l.offset ELSE c.sizes[c.doc_idx[e]] - 1

\* The pieces of a sample, from where it begins to where the next begins.
Pieces(c, index, f, l) ==
  [k \in 1 .. l.doc - f.doc + 1 |->
     Chunk(c, index.doc_idx[f.doc + k - 1], IF f.doc + k - 1 = f.doc THEN f.offset ELSE 0,
           LastToken(c, index, f.doc + k - 1, l))]

\* The places of a sample are in the order of the stream.
LEMMA PlacesInOrder ==
  ASSUME NEW c, IsIndexed(c), NEW i \in Nat, NEW f, NEW l,
         StartsAt(c, f, i), StartsAt(c, l, i + 1)
  PROVE  /\ f.doc \in 0 .. Entries(c) - 1 /\ l.doc \in 0 .. Entries(c) - 1 /\ f.doc <= l.doc
         /\ f.offset \in 0 .. c.sizes[c.doc_idx[f.doc]]
         /\ l.offset \in 0 .. c.sizes[c.doc_idx[l.doc]] - 1
         /\ c.start[f.doc] + f.offset = i * c.seq_length
         /\ c.start[l.doc] + l.offset = i * c.seq_length + c.seq_length
<1> DEFINE n == Entries(c)
           S == c.seq_length
           x == i * S
           a == f.doc
           b == l.doc
           size(e) == c.sizes[c.doc_idx[e]]
<1>1. /\ n \in Nat /\ DOMAIN c.doc_idx = 0 .. n - 1
      /\ \A e \in 0 .. n - 1 : size(e) \in Nat /\ c.start[e + 1] = c.start[e] + size(e)
      /\ \A e \in 0 .. n : c.start[e] \in Nat
  BY EntriesFacts
<1>2. S \in Nat \ {0} /\ x \in Int /\ (i + 1) * S = x + S
  <2>1. S \in Nat \ {0}
    BY DEF IsIndexed, IsCorpus
  <2> QED BY <2>1
<1>3. /\ a \in 0 .. n - 1 /\ b \in 0 .. n - 1
      /\ f.offset \in 0 .. size(a) /\ l.offset \in 0 .. size(b)
      /\ c.start[a] + f.offset = x /\ c.start[b] + l.offset = x + S
  BY <1>1, <1>2 DEF StartsAt
<1>4. l.offset # size(b)
  <2>1. i + 1 # 0
    OBVIOUS
  <2> QED BY <2>1 DEF StartsAt
<1> HIDE DEF n, S, x, a, b, size
<1>5. l.offset \in 0 .. size(b) - 1
  BY SMTT(60), <1>1, <1>3, <1>4
<1>6. a <= b
  <2>1. SUFFICES ASSUME b < a PROVE FALSE
    BY <1>1, <1>3
  <2>2. c.start[b + 1] <= c.start[a]
    <3> DEFINE terms == [k \in 1 .. n |-> size(k - 1)]
    <3>1. SumsUp(c.start, n, terms)
      BY DEF IsIndexed, IsStart, n, size
    <3>2. ASSUME NEW k \in 1 .. n PROVE terms[k] \in Nat
      <4>1. k - 1 \in 0 .. n - 1
        BY <1>1
      <4> QED BY <1>1, <4>1
    <3>3. b + 1 \in 0 .. n /\ a \in 0 .. n /\ b + 1 <= a
      BY <1>1, <1>3, <2>1
    <3> HIDE DEF terms
    <3> QED BY <1>1, <3>1, <3>2, <3>3, SumsGrow
  <2>3. /\ c.start[b + 1] = c.start[b] + size(b) /\ size(b) \in Nat /\ size(a) \in Nat
        /\ c.start[a] \in Nat /\ c.start[b] \in Nat
    <3>1. a \in 0 .. n /\ b \in 0 .. n
      BY <1>1, <1>3
    <3> QED BY <1>1, <1>3, <3>1
  <2> QED BY <1>2, <1>3, <2>2, <2>3
<1> QED BY <1>3, <1>5, <1>6 DEF n, S, x, a, b, size

\* Sample i is from f to l.
Spans(c, index, f, l, i) ==
  index.doc_idx = c.doc_idx /\ i \in Nat /\ StartsAt(c, f, i) /\ StartsAt(c, l, i + 1)

\* Piece k is a part of the stream, in the entry it is of.
PieceLength(c, f, l, e) == To(c, l, e) - From(f, e) + 1
IsPiece(c, f, l, k, piece) ==
  LET e == f.doc + k - 1
  IN /\ e \in 0 .. Entries(c) - 1 /\ piece \in Seq(Tokens(c))
     /\ PieceLength(c, f, l, e) \in Nat /\ Len(piece) = PieceLength(c, f, l, e)
     /\ \A o \in 1 .. Len(piece) : piece[o] = Stream(c)[c.start[e] + From(f, e) + o]

\* What a piece is of.
LEMMA PieceFacts ==
  ASSUME NEW c, IsIndexed(c), NEW index, NEW i, NEW f, NEW l, Spans(c, index, f, l, i),
         NEW k \in 1 .. l.doc - f.doc + 1
  PROVE  IsPiece(c, f, l, k, Pieces(c, index, f, l)[k])
<1> DEFINE size(x) == c.sizes[c.doc_idx[x]]
           fd == f.doc
           ld == l.doc
           fo == f.offset
           lo == l.offset
           e == fd + k - 1
           from == From(f, e)
           to == To(c, l, e)
           piece == Pieces(c, index, f, l)[k]
<1>1. /\ fd \in 0 .. Entries(c) - 1 /\ ld \in 0 .. Entries(c) - 1 /\ fd <= ld
      /\ fo \in 0 .. size(fd) /\ lo \in 0 .. size(ld) - 1
      /\ c.start[fd] + fo = i * c.seq_length
      /\ c.start[ld] + lo = i * c.seq_length + c.seq_length
  BY PlacesInOrder DEF Spans
<1>2. /\ Entries(c) \in Nat
      /\ \A x \in 0 .. Entries(c) - 1 : size(x) \in Nat /\ c.start[x] \in Nat
  BY EntriesFacts
<1>3. piece = Chunk(c, c.doc_idx[e], from, to)
  BY DEF Pieces, LastToken, From, To, Spans
<1>13. from = (IF e = fd THEN fo ELSE 0) /\ to = IF e = ld THEN lo ELSE size(e) - 1
  BY DEF From, To
<1>4. k \in Nat /\ k \in 1 .. ld - fd + 1
  BY <1>1
<1>5. e \in 0 .. Entries(c) - 1 /\ e <= ld
  <2> HIDE DEF fd, ld, fo, lo
  <2> QED BY <1>1, <1>2, <1>4
<1>6. c.doc_idx[e] \in Documents(c)
  BY <1>5 DEF IsIndexed, IsDocIdx
<1>7. i * c.seq_length \in Int /\ c.seq_length \in Nat \ {0}
  <2>1. c.seq_length \in Nat \ {0}
    BY DEF IsIndexed, IsCorpus
  <2> QED BY <2>1 DEF Spans
<1> HIDE DEF fd, ld, fo, lo, size, e, from, to, piece
<1>8. size(e) \in Nat /\ c.start[e] \in Nat
  BY <1>2, <1>5
<1>9. /\ from \in Nat /\ to \in Int /\ from <= to + 1 /\ to <= size(e) - 1
  <2>1. from \in 0 .. size(e)
    BY <1>1, <1>8, <1>13
  <2>2. to \in -1 .. size(e) - 1
    BY <1>1, <1>8, <1>13
  <2>3. CASE e = fd /\ e = ld
    <3>1. c.start[e] + fo = i * c.seq_length /\ c.start[e] + lo = i * c.seq_length + c.seq_length
      BY <1>1, <2>3
    <3>2. fo \in Nat /\ lo \in Nat
      BY <1>1
    <3>3. fo <= lo
      <4> DEFINE x == i * c.seq_length
                 S == c.seq_length
                 y == c.start[e]
      <4>1. x \in Int /\ S \in Nat /\ y \in Nat /\ y + fo = x /\ y + lo = x + S
        BY <1>7, <1>8, <3>1
      <4> HIDE DEF x, S, y
      <4> QED BY <3>2, <4>1
    <3> QED BY <2>2, <2>3, <3>2, <3>3, <1>8, <1>13
  <2>4. CASE e = fd /\ e # ld
    BY <2>1, <2>2, <2>4, <1>8, <1>13
  <2>5. CASE e # fd
    BY <2>1, <2>2, <2>5, <1>8, <1>13
  <2> QED BY <2>3, <2>4, <2>5
<1>10. /\ piece \in Seq(Tokens(c)) /\ Len(piece) = to - from + 1
       /\ \A o \in 1 .. to - from + 1 : piece[o] = <<c.doc_idx[e], from + o - 1>>
  BY <1>3, <1>6, <1>9, ChunkFacts
<1>11. ASSUME NEW o \in 1 .. to - from + 1
       PROVE  piece[o] = Stream(c)[c.start[e] + from + o]
  <2> DEFINE p == from + o - 1
  <2>1. p \in 0 .. size(e) - 1 /\ c.start[e] + p + 1 = c.start[e] + from + o
    BY <1>8, <1>9
  <2>2. piece[o] = <<c.doc_idx[e], p>>
    BY <1>10
  <2> HIDE DEF p
  <2>3. Stream(c)[c.start[e] + p + 1] = <<c.doc_idx[e], p>>
    BY <1>5, <2>1, StreamFacts DEF size
  <2> QED BY <2>1, <2>2, <2>3
<1>12. to - from + 1 \in Nat
  BY <1>9
<1> QED BY <1>5, <1>10, <1>11, <1>12 DEF e, from, to, piece, fd, IsPiece, PieceLength

\* The sums of the lengths of the pieces.
PieceSums(c, f, l, i) ==
  [k \in 0 .. l.doc - f.doc + 1 |->
     IF k = 0 THEN 0
     ELSE IF k = l.doc - f.doc + 1 THEN c.seq_length + 1
     ELSE c.start[f.doc + k] - i * c.seq_length]

\* They are laid end to end, from token i * seq_length of the stream on.
AreLaid(c, i, m, seqs, sum) ==
  /\ m \in Nat \ {0} /\ seqs \in [1 .. m -> Seq(Tokens(c))]
  /\ Laid(seqs, m, sum) /\ sum[m] = c.seq_length + 1
  /\ \A k \in 1 .. m : \A o \in 1 .. Len(seqs[k]) :
       seqs[k][o] = Stream(c)[i * c.seq_length + (sum[k - 1] + o)]

\* The pieces are.
LEMMA PiecesLaid ==
  ASSUME NEW c, IsIndexed(c), NEW index, NEW i, NEW f, NEW l, Spans(c, index, f, l, i)
  PROVE  AreLaid(c, i, l.doc - f.doc + 1, Pieces(c, index, f, l), PieceSums(c, f, l, i))
<1> DEFINE size(x) == c.sizes[c.doc_idx[x]]
           fd == f.doc
           ld == l.doc
           fo == f.offset
           lo == l.offset
           S == c.seq_length
           x == i * S
           m == ld - fd + 1
           seqs == Pieces(c, index, f, l)
           sum == PieceSums(c, f, l, i)
           from(e) == From(f, e)
           to(e) == To(c, l, e)
<1>1. /\ fd \in 0 .. Entries(c) - 1 /\ ld \in 0 .. Entries(c) - 1 /\ fd <= ld
      /\ fo \in 0 .. size(fd) /\ lo \in 0 .. size(ld) - 1
      /\ c.start[fd] + fo = x /\ c.start[ld] + lo = x + S
  BY PlacesInOrder DEF Spans
<1>2. /\ Entries(c) \in Nat
      /\ \A e \in 0 .. Entries(c) - 1 : size(e) \in Nat /\ c.start[e + 1] = c.start[e] + size(e)
      /\ \A e \in 0 .. Entries(c) : c.start[e] \in Nat
  BY EntriesFacts
<1>3. S \in Nat \ {0} /\ x \in Int
  <2>1. S \in Nat \ {0}
    BY DEF IsIndexed, IsCorpus
  <2> QED BY <2>1 DEF Spans
<1>12. \A e \in Int : /\ from(e) = IF e = fd THEN fo ELSE 0
                      /\ to(e) = IF e = ld THEN lo ELSE size(e) - 1
  BY DEF From, To
<1>4. /\ DOMAIN seqs = 1 .. m /\ seqs = [k \in 1 .. m |-> seqs[k]]
      /\ sum = [k \in 0 .. m |-> IF k = 0 THEN 0 ELSE IF k = m THEN S + 1
                                  ELSE c.start[fd + k] - x]
  BY DEF Pieces, PieceSums
<1>5. ASSUME NEW k \in 1 .. m
      PROVE  /\ fd + k - 1 \in 0 .. Entries(c) - 1 /\ seqs[k] \in Seq(Tokens(c))
             /\ Len(seqs[k]) = to(fd + k - 1) - from(fd + k - 1) + 1
             /\ Len(seqs[k]) \in Nat
             /\ \A o \in 1 .. Len(seqs[k]) :
                  seqs[k][o] = Stream(c)[c.start[fd + k - 1] + from(fd + k - 1) + o]
  <2>1. IsPiece(c, f, l, k, seqs[k])
    BY PieceFacts
  <2> HIDE DEF seqs
  <2> QED BY <2>1 DEF IsPiece, PieceLength
<1> HIDE DEF seqs, size, fd, ld, fo, lo, S, x, sum, from, to
<1>6. m \in Nat \ {0}
  BY <1>1, <1>2
<1> HIDE DEF m
<1>7. seqs \in [1 .. m -> Seq(Tokens(c))]
  BY <1>4, <1>5
<1>8. /\ sum[0] = 0 /\ sum[m] = S + 1 /\ DOMAIN sum = 0 .. m
      /\ \A k \in 1 .. m - 1 : sum[k] = c.start[fd + k] - x
  <2>1. \A k \in 0 .. m : sum[k] = IF k = 0 THEN 0 ELSE IF k = m THEN S + 1
                                   ELSE c.start[fd + k] - x
    BY <1>4
  <2>2. 0 \in 0 .. m /\ m \in 0 .. m /\ m # 0
    BY <1>6
  <2>3. ASSUME NEW k \in 1 .. m - 1 PROVE k \in 0 .. m /\ k # 0 /\ k # m
    BY <1>6
  <2>4. DOMAIN sum = 0 .. m
    BY <1>4
  <2> QED BY <2>1, <2>2, <2>3, <2>4
<1>9. ASSUME NEW k \in 1 .. m
      PROVE  /\ sum[k - 1] \in Int
             /\ x + sum[k - 1] = c.start[fd + k - 1] + from(fd + k - 1)
             /\ sum[k] = sum[k - 1] + Len(seqs[k])
  <2> DEFINE e == fd + k - 1
             y == c.start[e]
  <2>1. e \in 0 .. Entries(c) - 1 /\ Len(seqs[k]) = to(e) - from(e) + 1
    BY <1>5
  <2>2. y \in Nat /\ size(e) \in Nat /\ c.start[e + 1] = y + size(e)
    <3>1. e \in 0 .. Entries(c)
      BY <1>2, <2>1
    <3> QED BY <1>2, <2>1, <3>1
  <2>3. /\ k \in Int /\ fd \in Int /\ ld \in Int /\ e \in Int /\ fo \in Int /\ lo \in Int
        /\ (k = 1 <=> e = fd) /\ (k = m <=> e = ld) /\ e + 1 = fd + k
    BY <1>1, <1>6 DEF m
  <2> DEFINE Starts == sum[k - 1] \in Int /\ x + sum[k - 1] = y + from(e)
  <2>4. ASSUME k = 1 PROVE Starts
    <3>1. sum[k - 1] = 0 /\ from(e) = fo /\ y + fo = x
      BY <1>1, <1>8, <1>12, <2>3, <2>4
    <3> HIDE DEF e, y, from
    <3> QED BY <1>3, <2>2, <2>3, <3>1
  <2>5. ASSUME k # 1 PROVE Starts
    <3>1. k - 1 \in 1 .. m - 1 /\ fd + (k - 1) = e
      BY <1>6, <2>3, <2>5
    <3>2. sum[k - 1] = y - x /\ from(e) = 0
      BY <1>8, <1>12, <2>3, <2>5, <3>1
    <3> HIDE DEF e, y, from
    <3> QED BY <1>3, <2>2, <2>3, <3>2
  <2>6. sum[k - 1] \in Int /\ x + sum[k - 1] = y + from(e)
    BY <2>4, <2>5
  <2>7. sum[k] = sum[k - 1] + (to(e) - from(e) + 1)
    <3>0. from(e) \in Int
      BY <1>12, <2>3
    <3>1. CASE k = m
      <4>1. sum[k] = S + 1 /\ to(e) = lo /\ y + lo = x + S
        BY <1>1, <1>8, <1>12, <2>3, <3>1
      <4> HIDE DEF e, y, from, to
      <4> QED BY <1>3, <2>2, <2>3, <2>6, <3>0, <4>1
    <3>2. CASE k # m
      <4>1. k \in 1 .. m - 1
        BY <1>6, <3>2
      <4>2. sum[k] = c.start[e + 1] - x /\ to(e) = size(e) - 1
        BY <1>8, <1>12, <2>3, <3>2, <4>1
      <4> HIDE DEF e, y, from, to
      <4> QED BY <1>3, <2>2, <2>3, <2>6, <3>0, <4>2
    <3> QED BY <3>1, <3>2
  <2> QED BY <2>1, <2>6, <2>7
<1>10. Laid(seqs, m, sum)
  <2> DEFINE lens == [k \in 1 .. m |-> Len(seqs[k])]
             B == {k \in Nat : k <= m => sum[k] \in Nat}
  <2>1. 0 \in B
    BY <1>8
  <2>2. ASSUME NEW k \in B PROVE k + 1 \in B
    <3>1. SUFFICES ASSUME k + 1 <= m PROVE sum[k + 1] \in Nat
      OBVIOUS
    <3>2. k + 1 \in 1 .. m /\ (k + 1) - 1 = k /\ sum[k] \in Nat
      BY <1>6, <3>1
    <3>3. sum[k + 1] = sum[k] + Len(seqs[k + 1]) /\ Len(seqs[k + 1]) \in Nat
      BY <1>5, <1>9, <3>2
    <3> QED BY <3>2, <3>3
  <2>3. B \in SUBSET Nat
    OBVIOUS
  <2> HIDE DEF B
  <2>4. B = Nat
    BY <2>1, <2>2, <2>3, SetInduction
  <2>5. ASSUME NEW k \in 0 .. m PROVE sum[k] \in Nat
    <3>1. k \in B /\ k <= m
      BY <1>6, <2>4
    <3> QED BY <3>1 DEF B
  <2>6. sum \in [0 .. m -> Nat]
    BY <1>4, <2>5
  <2>7. \A k \in 1 .. m : sum[k] = sum[k - 1] + lens[k]
    BY <1>9
  <2> QED BY <1>8, <2>6, <2>7 DEF Laid, SumsUp
<1>11. ASSUME NEW k \in 1 .. m, NEW o \in 1 .. Len(seqs[k])
       PROVE  seqs[k][o] = Stream(c)[x + (sum[k - 1] + o)]
  <2>1. seqs[k][o] = Stream(c)[c.start[fd + k - 1] + from(fd + k - 1) + o]
    BY <1>5
  <2>2. x + (sum[k - 1] + o) = (x + sum[k - 1]) + o
    <3>1. sum[k - 1] \in Int
      BY <1>9
    <3> QED BY <1>3, <3>1
  <2> QED BY <1>9, <2>1, <2>2
<1> QED BY <1>6, <1>7, <1>8, <1>10, <1>11 DEF m, seqs, sum, fd, ld, S, x, AreLaid

\* A sample is its part of the stream, and one token of the next.
LEMMA SampleOfStream ==
  ASSUME NEW c, IsIndexed(c), NEW index, index.doc_idx = c.doc_idx,
         GoodSamples(c, index.sample_idx),
         NEW n \in Nat, index.shuffle_idx[n] \in Samples(c)
  PROVE  GetItem(c, index, n) =
           SubSeq(Stream(c), index.shuffle_idx[n] * c.seq_length + 1,
                             (index.shuffle_idx[n] + 1) * c.seq_length + 1)
<1> DEFINE i == index.shuffle_idx[n]
           S == c.seq_length
           f == index.sample_idx[i + 1]
           l == index.sample_idx[i + 2]
           m == l.doc - f.doc + 1
           seqs == Pieces(c, index, f, l)
           sum == PieceSums(c, f, l, i)
           stream == Stream(c)
           item == FlattenSeq(seqs)
<1>1. NumSamples(c) \in Nat /\ S \in Nat \ {0} /\ NumTokens(c) \in Nat \ {0}
  BY SamplesEnough, EpochsEnough DEF IsIndexed, IsCorpus
<1>2. i \in Nat /\ i + 1 <= NumSamples(c)
  BY <1>1 DEF Samples
<1>3. StartsAt(c, f, i) /\ StartsAt(c, l, i + 1)
  <2>1. /\ i + 1 \in 1 .. NumSamples(c) + 1 /\ i + 2 \in 1 .. NumSamples(c) + 1
        /\ (i + 1) - 1 = i /\ (i + 2) - 1 = i + 1
    BY <1>1, <1>2
  <2>2. \A k \in 1 .. NumSamples(c) + 1 : StartsAt(c, index.sample_idx[k], k - 1)
    BY DEF GoodSamples, SamplesTile
  <2> HIDE DEF i
  <2> QED BY <2>1, <2>2
<1>4. GetItem(c, index, n) = item
  BY DEF GetItem, Pieces
<1>5. /\ i * S \in Nat /\ (i + 1) * S = i * S + S
      /\ i * S + S <= NumTokens(c) - 1
  <2>1. i * S \in Nat /\ (i + 1) * S = i * S + S
    <3> HIDE DEF i, S
    <3> QED BY <1>1, <1>2
  <2>2. i + 1 <= (NumTokens(c) - 1) \div S <=> (i + 1) * S <= NumTokens(c) - 1
    <3>1. PICK q \in Int : q = i + 1
      BY <1>2
    <3>2. PICK t \in Int : t = NumTokens(c) - 1
      BY <1>1
    <3> HIDE DEF i
    <3>3. q <= t \div S <=> q * S <= t
      BY <1>1, QuotientAtLeast
    <3> QED BY <3>1, <3>2, <3>3
  <2> HIDE DEF i, S
  <2> QED BY <1>2, <2>1, <2>2 DEF NumSamples, S
<1> HIDE DEF i, f, l
<1>6. /\ m \in Nat \ {0} /\ seqs \in [1 .. m -> Seq(Tokens(c))]
      /\ Laid(seqs, m, sum) /\ sum[m] = S + 1
      /\ \A k \in 1 .. m : \A o \in 1 .. Len(seqs[k]) :
           seqs[k][o] = stream[i * S + (sum[k - 1] + o)]
  <2>1. Spans(c, index, f, l, i)
    BY <1>2, <1>3 DEF Spans
  <2>2. AreLaid(c, i, m, seqs, sum)
    BY <2>1, PiecesLaid
  <2> HIDE DEF m, seqs, sum
  <2> QED BY <2>2 DEF AreLaid
<1> HIDE DEF m, seqs, sum, item, S, stream
<1>7. item \in Seq(Tokens(c)) /\ Joins(item, seqs, m, sum)
  BY <1>6, Flattened DEF item
<1>8. item \in Seq(Tokens(c)) /\ Len(item) = S + 1
  BY <1>6, <1>7 DEF Joins
<1>9. ASSUME NEW p \in 1 .. S + 1 PROVE item[p] = stream[i * S + p]
  <2> DEFINE lens == [k \in 1 .. m |-> Len(seqs[k])]
  <2>1. SumsUp(sum, m, lens) /\ p \in 1 .. sum[m]
    BY <1>6 DEF Laid
  <2>2. ASSUME NEW k \in 1 .. m PROVE lens[k] \in Nat
    <3>1. seqs[k] \in Seq(Tokens(c))
      BY <1>6
    <3> QED BY <3>1
  <2>3. \A k \in 1 .. m : lens[k] = Len(seqs[k])
    OBVIOUS
  <2> HIDE DEF lens
  <2>4. PICK k \in 1 .. m : \E o \in 1 .. lens[k] : p = sum[k - 1] + o
    <3>1. m \in Nat
      BY <1>6
    <3> QED BY ONLY <2>1, <2>2, <3>1, InTerm
  <2>5. PICK o \in 1 .. Len(seqs[k]) : p = sum[k - 1] + o
    BY <2>3, <2>4
  <2>6. item[p] = seqs[k][o]
    BY <1>7, <2>5 DEF Joins
  <2> QED BY <1>6, <2>5, <2>6
<1>10. stream \in Seq(Tokens(c)) /\ Len(stream) = NumTokens(c)
  BY StreamFacts DEF stream
<1> DEFINE a == i * S + 1
           b == i * S + S + 1
           part == SubSeq(stream, a, b)
<1>11. part \in Seq(Tokens(c)) /\ Len(part) = S + 1
       /\ \A p \in 1 .. S + 1 : part[p] = stream[i * S + p]
  <2>1. PICK y \in Nat : y = i * S
    BY <1>5
  <2>2. a = y + 1 /\ b = y + S + 1 /\ b <= Len(stream) /\ S \in Nat
    BY <1>1, <1>5, <1>10, <2>1
  <2>3. b - a + 1 = S + 1 /\ \A p \in 1 .. S + 1 : a + p - 1 = y + p
    BY <2>2
  <2>4. a \in 1 .. Len(stream) + 1 /\ b \in a - 1 .. Len(stream)
    BY <1>10, <2>2
  <2> HIDE DEF a, b
  <2>5. /\ part \in Seq(Tokens(c)) /\ Len(part) = b - a + 1
        /\ \A p \in 1 .. b - a + 1 : part[p] = stream[a + p - 1]
    BY <1>10, <2>4, SubSeqProperties
  <2> HIDE DEF part
  <2> QED BY <2>1, <2>3, <2>5
<1> HIDE DEF part
<1>12. item = part
  BY <1>1, <1>8, <1>9, <1>11
<1>13. part = SubSeq(stream, i * S + 1, (i + 1) * S + 1)
  BY <1>5 DEF part
<1> QED BY <1>4, <1>12, <1>13 DEF i, S, stream

-----------------------------------------------------------------------------
\* What is loaded of the orders that are given.

OrdersOnDisk ==
  \A k \in 1 .. K :
    /\ disk[k]["doc"].state = "whole" => disk[k]["doc"].content = Corpus(k).doc_idx
    /\ disk[k]["shuffle"].state = "whole" => disk[k]["shuffle"].content = Corpus(k).shuffle_idx

OrdersLoaded ==
  \A r \in Ranks, k \in 1 .. K :
    k < at[r] \/ pc[r] = "train" =>
      /\ loaded[r][k].doc_idx = Corpus(k).doc_idx
      /\ loaded[r][k].shuffle_idx = Corpus(k).shuffle_idx

\* Opening and writing a file.
LEMMA OrdersWritten ==
  ASSUME IInv, OrdersOnDisk, [Next]_vars
  PROVE  OrdersOnDisk'
<1>1. Typing /\ PlaceInv /\ args' \in Jobs /\ K \in Nat \ {0} /\ 0 \in Ranks
  BY NextInv, JobFacts, PlaceFacts DEF IInv, Typing
<1>2. args' = args
  BY DEF Next, Step, Open, Close, BuildSamples, AllReduce, Look, BuildBlend, Load, CheckSize,
         DiskError, Relaunch, Done, vars
<1>3. CASE disk' = disk
  BY <1>2, <1>3 DEF OrdersOnDisk, K, Corpus
<1>4. ASSUME NEW what, Open \/ Close,
             disk' = [disk EXCEPT ![at[0]][Files(at[0])[file]] = what],
             what.state = "whole" => what.content = Contents
      PROVE  OrdersOnDisk'
  <2> DEFINE k == at[0]
             f == Files(at[0])[file]
  <2>1. k \in Datasets /\ k \in Nat /\ file \in 1 .. (IF k <= K THEN 4 ELSE 2)
    BY <1>1, <1>4, PlaceFacts DEF Open, Close, At, PlaceInv
  <2>2. /\ f \in AllFiles
        /\ f = "doc" => k <= K /\ Contents = Corpus(k).doc_idx
        /\ f = "shuffle" => k <= K /\ Contents = Corpus(k).shuffle_idx
    <3>1. CASE k <= K
      <4>1. file \in {1, 2, 3, 4}
        BY <2>1, <3>1
      <4>2. f \in AllFiles
        BY <3>1, <4>1, FilesFacts DEF AllFiles
      <4> QED BY <3>1, <4>2 DEF Contents
    <3>2. CASE ~ (k <= K)
      <4>1. file \in {1, 2}
        BY <2>1, <3>2
      <4> QED BY <3>2, <4>1, FilesFacts DEF AllFiles
    <3> QED BY <3>1, <3>2
  <2> HIDE DEF k, f
  <2>3. /\ DOMAIN disk' = Datasets /\ \A l \in Datasets : DOMAIN disk'[l] = AllFiles
        /\ disk'[k][f] = what
        /\ \A l \in Datasets, g \in AllFiles : l # k \/ g # f => disk'[l][g] = disk[l][g]
    <3>1. Typing /\ k \in Datasets /\ f \in AllFiles /\ disk' = [disk EXCEPT ![k][f] = what]
      BY <1>1, <1>4, <2>1, <2>2 DEF k, f
    <3> QED BY <3>1, DiskWrite, ZenonT(40)
  <2>4. "doc" \in AllFiles /\ "shuffle" \in AllFiles /\ \A l \in 1 .. K : l \in Datasets
    BY <1>1 DEF AllFiles, Datasets
  <2>5. ASSUME NEW l \in 1 .. K
        PROVE  /\ disk'[l]["doc"].state = "whole" => disk'[l]["doc"].content = Corpus(l).doc_idx
               /\ disk'[l]["shuffle"].state = "whole" =>
                    disk'[l]["shuffle"].content = Corpus(l).shuffle_idx
    BY <1>4, <2>2, <2>3, <2>4 DEF OrdersOnDisk
  <2> QED BY <1>2, <2>5 DEF OrdersOnDisk, K, Corpus
<1>5. CASE Open
  <2>1. Partial.state # "whole"
    BY DEF Partial
  <2> QED BY <1>4, <1>5, <2>1 DEF Open
<1>6. CASE Close
  <2>1. Holds(Contents).content = Contents
    BY DEF Holds
  <2> QED BY <1>4, <1>6, <2>1 DEF Close
<1>7. Open \/ Close \/ disk' = disk
  BY DEF Next, Step, BuildSamples, AllReduce, Look, BuildBlend, Load, CheckSize, DiskError,
         Relaunch, Done, vars
<1> QED BY <1>3, <1>5, <1>6, <1>7

\* Loading the files.
LEMMA OrdersRead ==
  ASSUME IInv, OrdersOnDisk, OrdersLoaded, [Next]_vars
  PROVE  OrdersLoaded'
<1>1. /\ Typing /\ PlaceInv /\ K \in Nat \ {0} /\ 0 \in Ranks
      /\ \A r \in Ranks : at[r] \in Datasets /\ at[r] \in 1 .. K + 1 /\ at[r] \in Nat
      /\ \A k \in 1 .. K : k \in Datasets
  BY JobFacts, PlaceFacts DEF IInv, Typing, Datasets
<1>2. args' = args
  BY DEF Next, Step, Open, Close, BuildSamples, AllReduce, Look, BuildBlend, Load, CheckSize,
         DiskError, Relaunch, Done, vars
<1> DEFINE Has(r, k) == /\ loaded[r][k].doc_idx = Corpus(k).doc_idx
                        /\ loaded[r][k].shuffle_idx = Corpus(k).shuffle_idx
           HasNext(r, k) == /\ loaded'[r][k].doc_idx = Corpus(k).doc_idx
                            /\ loaded'[r][k].shuffle_idx = Corpus(k).shuffle_idx
<1>3. SUFFICES ASSUME NEW r \in Ranks, NEW k \in 1 .. K, k < at'[r] \/ pc'[r] = "train"
               PROVE  HasNext(r, k)
  BY <1>2 DEF OrdersLoaded, K, Corpus
<1>4. k < at[r] \/ pc[r] = "train" => Has(r, k)
  BY DEF OrdersLoaded
<1>5. ASSUME loaded'[r][k] = loaded[r][k], k < at[r] \/ pc[r] = "train"
      PROVE  HasNext(r, k)
  BY <1>4, <1>5
<1>6. CASE UNCHANGED <<loaded, at, pc>>
  BY <1>3, <1>5, <1>6
<1>7. CASE Open \/ Close \/ BuildSamples \/ DiskError \/ \E q \in Ranks : Look(q)
  <2>1. PICK q \in Ranks, l \in Labels :
           l # "train" /\ loaded' = loaded /\ at' = at /\ (pc' = [pc EXCEPT ![q] = l] \/ pc' = pc)
    BY <1>1, <1>7 DEF Open, Close, BuildSamples, DiskError, Look, Goto, Labels
  <2>2. pc'[r] = "train" => pc[r] = "train"
    BY <1>1, <2>1 DEF Typing
  <2> QED BY <1>3, <1>5, <2>1, <2>2
<1>8. CASE AllReduce
  <2>1. loaded' = loaded /\ at' = at /\ pc'[r] # "train"
    BY <1>8 DEF AllReduce
  <2> QED BY <1>3, <1>5, <2>1
<1>9. ASSUME NEW q \in Ranks, BuildBlend(q)
      PROVE  HasNext(r, k)
  <2>1. at' = at /\ K + 1 \in Datasets /\ k # K + 1
    BY <1>1, <1>9 DEF BuildBlend, Datasets
  <2>2. pc'[r] = "train" => pc[r] = "train"
    <3>1. PICK l \in Labels : l # "train" /\ (pc' = [pc EXCEPT ![q] = l] \/ pc' = pc)
      BY <1>9 DEF BuildBlend, Goto, Labels
    <3> QED BY <1>1, <3>1 DEF Typing
  <2>3. loaded'[r][k] = loaded[r][k]
    <3>1. CASE loaded' = loaded
      BY <3>1
    <3>2. ASSUME NEW what, loaded' = [loaded EXCEPT ![q][K + 1] = what]
          PROVE  loaded'[r][k] = loaded[r][k]
      BY <1>1, <2>1, <3>2, LoadedWrite
    <3> QED BY <1>9, <3>1, <3>2 DEF BuildBlend
  <2> QED BY <1>3, <1>5, <2>1, <2>2, <2>3
<1>10. ASSUME NEW q \in Ranks, CheckSize(q)
       PROVE  HasNext(r, k)
  <2>1. at' = at /\ loaded' = loaded /\ at[q] > K
    BY <1>1, <1>10 DEF CheckSize, At, PlaceInv
  <2>2. r # q => pc'[r] = pc[r]
    BY <1>10, <1>1 DEF CheckSize, Goto, Typing
  <2>3. k < at[r] \/ pc[r] = "train"
    BY <1>1, <1>3, <2>1, <2>2
  <2> QED BY <1>5, <2>1, <2>3
<1>11. CASE Relaunch
  <2>1. at'[r] = 1 /\ pc'[r] = "look"
    BY <1>11 DEF Relaunch
  <2> QED BY <1>3, <2>1
<1>12. ASSUME NEW q \in Ranks, Load(q)
       PROVE  HasNext(r, k)
  <2> DEFINE d == at[q]
             bad == \E i \in DOMAIN Files(d) :
                      Files(d)[i] # "desc" /\ disk[d][Files(d)[i]].state # "whole"
             index == IF d > K THEN disk[d]["index"].content
                      ELSE [doc_idx |-> disk[d]["doc"].content,
                            sample_idx |-> disk[d]["sample"].content,
                            shuffle_idx |-> disk[d]["shuffle"].content]
  <2>1. CASE bad
    <3>1. pc' = [pc EXCEPT ![q] = "error"] /\ at' = at /\ loaded' = loaded
      BY <1>12, <2>1 DEF Load, Goto
    <3>2. pc'[r] = "train" => pc[r] = "train"
      BY <1>1, <3>1 DEF Typing
    <3> QED BY <1>3, <1>5, <3>1, <3>2
  <2>2. CASE ~ bad
    <3> DEFINE l == IF Follows(d) THEN "look" ELSE IF Blended THEN "check" ELSE "train"
               m == IF Follows(d) THEN d + 1 ELSE d
    <3>1. /\ loaded' = [loaded EXCEPT ![q][d] = index]
          /\ at' = [at EXCEPT ![q] = m] /\ pc' = [pc EXCEPT ![q] = l]
      BY <1>12, <2>2 DEF Load, Goto
    <3>2. /\ d \in Datasets /\ d \in Nat /\ m \in Nat
          /\ l = "train" => d >= K
          /\ m <= d + 1
      BY <1>1 DEF Follows, Blended
    <3>3. d <= K => /\ index.doc_idx = disk[d]["doc"].content /\ disk[d]["doc"].state = "whole"
                    /\ index.shuffle_idx = disk[d]["shuffle"].content
                    /\ disk[d]["shuffle"].state = "whole"
      <4> SUFFICES ASSUME d <= K
                   PROVE  /\ index.doc_idx = disk[d]["doc"].content
                          /\ disk[d]["doc"].state = "whole"
                          /\ index.shuffle_idx = disk[d]["shuffle"].content
                          /\ disk[d]["shuffle"].state = "whole"
        OBVIOUS
      <4>1. ~ (d > K)
        BY <1>1, <3>2
      <4>2. /\ 2 \in DOMAIN Files(d) /\ Files(d)[2] = "doc"
            /\ 4 \in DOMAIN Files(d) /\ Files(d)[4] = "shuffle"
        BY FilesFacts
      <4>3. disk[d]["doc"].state = "whole" /\ disk[d]["shuffle"].state = "whole"
        BY <2>2, <4>2
      <4> QED BY <4>1, <4>3
    <3> HIDE DEF d, bad, index, l, m
    <3>4. /\ DOMAIN loaded' = Ranks /\ \A p \in Ranks : DOMAIN loaded'[p] = Datasets
          /\ loaded'[q][d] = index
          /\ \A p \in Ranks, e \in Datasets : p # q \/ e # d => loaded'[p][e] = loaded[p][e]
      <4>1. DOMAIN loaded = Ranks /\ \A p \in Ranks : DOMAIN loaded[p] = Datasets
        BY <1>1 DEF Typing
      <4>2. /\ DOMAIN loaded' = Ranks
            /\ loaded'[q] = [loaded[q] EXCEPT ![d] = index]
            /\ \A p \in Ranks : p # q => loaded'[p] = loaded[p]
        BY <3>1, <4>1
      <4> QED BY <3>2, <4>1, <4>2
    <3>5. /\ at'[r] = IF r = q THEN m ELSE at[r]
          /\ pc'[r] = IF r = q THEN l ELSE pc[r]
      BY <1>1, <3>1 DEF Typing
    <3>6. CASE r # q
      BY <1>1, <1>3, <1>5, <3>4, <3>5, <3>6
    <3>7. CASE r = q /\ k = d
      <4>1. d <= K /\ d \in 1 .. K
        BY <1>1, <3>7
      <4> QED BY <3>3, <3>4, <3>7, <4>1 DEF OrdersOnDisk
    <3>8. CASE r = q /\ k # d
      <4>1. k < d
        BY <1>1, <1>3, <3>2, <3>5, <3>8
      <4> QED BY <1>1, <1>5, <3>4, <3>8, <4>1 DEF d
    <3> QED BY <3>6, <3>7, <3>8
  <2> QED BY <2>1, <2>2
<1> QED BY <1>6, <1>7, <1>8, <1>9, <1>10, <1>11, <1>12 DEF Next, Step, Done, vars

\* All orders that are loaded are those that are given.
OrdersGiven == IInv /\ OrdersOnDisk /\ OrdersLoaded

\* They always are.
LEMMA OrdersAlwaysGiven == Spec => []OrdersGiven
<1>1. Init => OrdersGiven
  <2> SUFFICES ASSUME Init PROVE OrdersGiven
    OBVIOUS
  <2>1. IInv /\ K \in Nat \ {0}
    BY InitInv, JobFacts DEF IInv, Typing
  <2>2. OrdersOnDisk
    <3>1. \A k \in 1 .. K : k \in Datasets
      BY <2>1 DEF Datasets
    <3>2. "doc" \in AllFiles /\ "shuffle" \in AllFiles /\ Absent.state # "whole"
      BY DEF AllFiles, Absent
    <3> QED BY <3>1, <3>2 DEF Init, OrdersOnDisk
  <2>3. OrdersLoaded
    <3>1. \A r \in Ranks : at[r] = 1 /\ pc[r] # "train"
      BY DEF Init
    <3>2. \A k \in 1 .. K : ~ (k < 1)
      BY <2>1
    <3> QED BY <3>1, <3>2 DEF OrdersLoaded
  <2> QED BY <2>1, <2>2, <2>3 DEF OrdersGiven
<1>2. OrdersGiven /\ [Next]_vars => OrdersGiven'
  BY NextInv, OrdersWritten, OrdersRead DEF OrdersGiven
<1> QED
  BY <1>1, <1>2, PTL DEF Spec

\* A shuffle is of all samples.
LEMMA ShuffleOfAll ==
  ASSUME NEW c, NumSamples(c) \in Nat, IsShuffleIdx(c)
  PROVE  {c.shuffle_idx[i] : i \in Samples(c)} = Samples(c)
<1> DEFINE S == Samples(c)
           f == c.shuffle_idx
<1>1. f \in [S -> S] /\ \A i, j \in S : f[i] = f[j] => i = j
  BY DEF IsShuffleIdx
<1>2. IsFiniteSet(S)
  BY FS_Interval DEF Samples
<1> HIDE DEF S, f
<1>3. f \in Injection(S, S)
  BY <1>1 DEF Injection, IsInjective
<1>4. f \in Surjection(S, S)
  BY <1>2, <1>3, FS_Injection
<1>5. \A t \in S : \E s \in S : f[s] = t
  BY <1>4 DEF Surjection
<1>6. {f[i] : i \in S} = S
  BY <1>1, <1>5
<1> QED BY <1>6 DEF S, f

\* A rank that trains reads every sample of a corpus once, each one the
\* tokens of its place in the stream of documents, and those of a last
\* epoch that is shuffled apart after all others - whichever launch has
\* written the index and wherever writing has failed (gpt_dataset.py).
THEOREM EverySampleReadOnce == Spec => []EverySampleOnce
<1>1. OrdersGiven => EverySampleOnce
  <2> SUFFICES ASSUME OrdersGiven, NEW r \in Ranks, At(r, "train"), NEW k \in 1 .. K
               PROVE  LET c == Corpus(k)
                          index == loaded[r][k]
                          order == index.shuffle_idx
                      IN /\ \A i \in Samples(c) :
                              GetItem(c, index, i) = SubSeq(Stream(c), order[i] * c.seq_length + 1,
                                                            (order[i] + 1) * c.seq_length + 1)
                         /\ {order[i] : i \in Samples(c)} = Samples(c)
                         /\ SeparateLastEpoch(c) =>
                              \A i \in Samples(c) : order[i] < SamplesFromEpochsMinusOne(c) <=>
                                                      i < SamplesFromEpochsMinusOne(c)
    BY DEF EverySampleOnce
  <2> DEFINE c == Corpus(k)
             index == loaded[r][k]
             order == index.shuffle_idx
  <2>1. args \in Jobs /\ IInv
    BY DEF OrdersGiven, IInv, Typing
  <2>2. IsIndexed(c) /\ IsShuffleIdx(c)
    <3>1. IsIndexed(c) /\ k \in Weights(args)
      BY <2>1, JobFacts
    <3>2. IsShuffleIdx(c)
      BY <2>1, <3>1, JobsAssumption DEF IsJob, Corpus
    <3> QED BY <3>1, <3>2
  <2>3. GoodSamples(c, index.sample_idx)
    BY <2>1 DEF IInv, LoadedInv
  <2>4. index.doc_idx = c.doc_idx /\ order = c.shuffle_idx
    BY DEF OrdersGiven, OrdersLoaded, At
  <2>5. NumSamples(c) \in Nat
    BY <2>2, SamplesEnough DEF IsIndexed
  <2> HIDE DEF c, index
  <2>6. ASSUME NEW i \in Samples(c)
        PROVE  GetItem(c, index, i) = SubSeq(Stream(c), order[i] * c.seq_length + 1,
                                             (order[i] + 1) * c.seq_length + 1)
    <3>1. order[i] \in Samples(c) /\ i \in Nat
      BY <2>2, <2>4, <2>5 DEF IsShuffleIdx, Samples
    <3> QED BY <2>2, <2>3, <2>4, <3>1, SampleOfStream
  <2>7. {order[i] : i \in Samples(c)} = Samples(c)
    BY <2>2, <2>4, <2>5, ShuffleOfAll
  <2>8. SeparateLastEpoch(c) =>
          \A i \in Samples(c) : order[i] < SamplesFromEpochsMinusOne(c) <=>
                                  i < SamplesFromEpochsMinusOne(c)
    BY <2>2, <2>4 DEF IsShuffleIdx, ShuffledApart
  <2> QED BY <2>6, <2>7, <2>8 DEF c, index
<1> QED
  BY <1>1, OrdersAlwaysGiven, PTL
=============================================================================
