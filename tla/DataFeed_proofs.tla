--------------------------- MODULE DataFeed_proofs ---------------------------
(***************************************************************************)
(* For every job: the ramp-up of the batch size never passes its target,   *)
(* the data-parallel ranks split the data among them, and a restarted pass *)
(* over the data goes on with the microbatches the interrupted one had     *)
(* still to give; and over any number of crashes and restarts the samples  *)
(* that are accounted for, the iterations computed before the start and    *)
(* the place of every loader agree, so that no loader runs dry.            *)
(***************************************************************************)
EXTENDS DataFeed, FiniteSetTheorems, TLAPS

-----------------------------------------------------------------------------
\* Facts about numbers.

\* A product grows with its factor by at least the other one.
LEMMA NextMultiple ==
  ASSUME NEW a \in Int, NEW b \in Int, NEW s \in Nat, a < b
  PROVE  a * s + s <= b * s
<1>1. PICK d \in Nat : b = a + 1 + d
  <2>1. b - a - 1 \in Nat /\ b = a + 1 + (b - a - 1)
    OBVIOUS
  <2> QED BY <2>1
<1>2. b * s = a * s + s + d * s
  BY <1>1
<1>3. d * s \in Nat
  OBVIOUS
<1> QED BY <1>2, <1>3

\* Division with remainder.
LEMMA Quotient ==
  ASSUME NEW j \in Int, NEW s \in Nat \ {0}
  PROVE  /\ j \div s \in Int
         /\ j % s \in 0 .. s - 1
         /\ j = (j \div s) * s + (j % s)
  OBVIOUS

\* A number has one pair of digits in base b.
LEMMA DigitsUnique ==
  ASSUME NEW b \in Nat \ {0}, NEW x \in Int, NEW y \in 0 .. b - 1,
         NEW u \in Int, NEW v \in 0 .. b - 1, x * b + y = u * b + v
  PROVE  x = u /\ y = v
<1>0. x * b \in Int /\ u * b \in Int
  OBVIOUS
<1>1. CASE x < u
  <2>1. x * b + b <= u * b
    BY <1>1, NextMultiple
  <2> QED BY <1>0, <2>1
<1>2. CASE u < x
  <2>1. u * b + b <= x * b
    BY <1>2, NextMultiple
  <2> QED BY <1>0, <2>1
<1>3. CASE x = u
  BY <1>0, <1>3
<1> QED BY <1>1, <1>2, <1>3

\* Digits below a and b make a number below a * b, ...
LEMMA DigitsBound ==
  ASSUME NEW a \in Nat \ {0}, NEW b \in Nat \ {0}, NEW x \in 0 .. a - 1, NEW y \in 0 .. b - 1
  PROVE  x * b + y \in 0 .. a * b - 1
<1>1. x * b \in Nat /\ a * b \in Nat
  OBVIOUS
<1>2. x * b + b <= a * b
  BY NextMultiple
<1> QED BY <1>1, <1>2

\* ... and every such number has them.
LEMMA Digits ==
  ASSUME NEW a \in Nat \ {0}, NEW b \in Nat \ {0}, NEW r \in 0 .. a * b - 1
  PROVE  /\ r \div b \in 0 .. a - 1
         /\ r % b \in 0 .. b - 1
         /\ r = (r \div b) * b + (r % b)
<1> DEFINE x == r \div b
           y == r % b
<1>1. x \in Int /\ y \in 0 .. b - 1 /\ r = x * b + y /\ a * b \in Int /\ r \in Int
  BY Quotient
<1> HIDE DEF x, y
<1>0. x * b \in Int
  BY <1>1
<1>2. 0 <= x
  <2>1. CASE x < 0
    <3>1. x * b + b <= 0 * b
      BY <1>1, <2>1, NextMultiple
    <3> QED BY <1>1, <1>0, <3>1
  <2> QED BY <1>1, <2>1
<1>3. x < a
  <2>1. CASE a < x
    <3>1. a * b + b <= x * b
      BY <1>1, <2>1, NextMultiple
    <3> QED BY <1>1, <1>0, <3>1
  <2>2. CASE a = x
    BY <2>2, <1>1, <1>0
  <2> QED BY <1>1, <2>1, <2>2
<1>4. x \in 0 .. a - 1
  BY <1>1, <1>2, <1>3
<1>5. x = r \div b /\ y = r % b
  BY DEF x, y
<1> QED BY <1>1, <1>4, <1>5

\* Division finds the digits.
LEMMA ExactQuotient ==
  ASSUME NEW n \in Int, NEW b \in Nat \ {0}, NEW y \in 0 .. b - 1
  PROVE  (n * b + y) \div b = n /\ (n * b + y) % b = y
<1> DEFINE j == n * b + y
<1>1. j \in Int
  OBVIOUS
<1>2. j \div b \in Int /\ j % b \in 0 .. b - 1 /\ j = (j \div b) * b + (j % b)
  BY <1>1, Quotient
<1>3. j = n * b + y
  OBVIOUS
<1> HIDE DEF j
<1>4. n = j \div b /\ y = j % b
  BY <1>2, <1>3, DigitsUnique
<1> QED BY <1>4 DEF j

\* The quotient of a natural number is one.
LEMMA QuotientOfNat ==
  ASSUME NEW x \in Nat, NEW s \in Nat \ {0}
  PROVE  x \div s \in Nat
<1> DEFINE q == x \div s
           r == x % s
<1>1. q \in Int /\ r \in 0 .. s - 1 /\ x = q * s + r
  BY Quotient
<1> HIDE DEF q, r
<1>2. CASE q < 0
  <2>1. q * s + s <= 0 * s
    BY <1>1, <1>2, NextMultiple
  <2>2. q * s \in Int
    BY <1>1
  <2> QED BY <1>1, <2>1, <2>2
<1>3. q \in Nat
  BY <1>1, <1>2
<1> QED BY <1>3 DEF q

\* Whole multiples shift a quotient.
LEMMA ShiftedQuotient ==
  ASSUME NEW x \in Int, NEW n \in Int, NEW d \in Nat \ {0}, NEW y \in Int, y = x + n * d
  PROVE  y \div d = (x \div d) + n
<1> DEFINE qx == x \div d
           rx == x % d
           qy == y \div d
           ry == y % d
<1>1. qx \in Int /\ rx \in 0 .. d - 1 /\ x = qx * d + rx
  BY Quotient
<1>2. qy \in Int /\ ry \in 0 .. d - 1 /\ y = qy * d + ry
  BY Quotient
<1> HIDE DEF qx, rx, qy, ry
<1>3. qx + n \in Int /\ (qx + n) * d = qx * d + n * d
      /\ qx * d \in Int /\ qy * d \in Int /\ n * d \in Int
  BY <1>1, <1>2
<1>4. (qx + n) * d + rx = qy * d + ry
  BY <1>1, <1>2, <1>3
<1>5. qx + n = qy
  BY <1>1, <1>2, <1>3, <1>4, DigitsUnique
<1> QED BY <1>5 DEF qx, qy

\* A set of numbers that is not empty has a least element.
LEMMA LeastElement ==
  ASSUME NEW C \in SUBSET Nat, C # {}
  PROVE  \E m \in C : \A k \in C : m <= k
<1> DEFINE Less == StrictSubsetOrdering(Nat)
           F == FiniteSubsetsOf(Nat)
           T == {1 .. n : n \in C}
<1>1. IsWellFoundedOn(Less, F)
  BY FS_StrictSubsetOrderingWellFounded
<1>2. T \subseteq F
  <2>1. ASSUME NEW n \in C PROVE 1 .. n \in F
    <3>1. IsFiniteSet(1 .. n)
      BY FS_Interval
    <3> QED BY <3>1 DEF FiniteSubsetsOf
  <2> QED BY <2>1
<1>3. T # {}
  OBVIOUS
<1>4. PICK x \in T : \A y \in T : ~ (<<y, x>> \in Less)
  <2> HIDE DEF Less, F, T
  <2> QED BY <1>1, <1>2, <1>3, WFMin
<1>5. PICK m \in C : x = 1 .. m
  OBVIOUS
<1>6. ASSUME NEW k \in C, k < m
      PROVE  FALSE
  <2>1. 1 .. k \in T
    OBVIOUS
  <2>2. ~ (<<1 .. k, 1 .. m>> \in Less)
    BY <1>4, <1>5, <2>1
  <2>3. 1 .. k \subseteq 1 .. m /\ m \in 1 .. m /\ m \notin 1 .. k
    BY <1>6
  <2>4. 1 .. k \in SUBSET Nat /\ 1 .. m \in SUBSET Nat
    OBVIOUS
  <2>5. <<1 .. k, 1 .. m>> \in Less
    BY <2>3, <2>4 DEF StrictSubsetOrdering
  <2> QED BY <2>2, <2>5
<1> QED BY <1>6

\* A set that has 0 and with every number the next one has them all.
LEMMA SetInduction ==
  ASSUME NEW T \in SUBSET Nat, 0 \in T, \A n \in T : n + 1 \in T
  PROVE  T = Nat
<1> DEFINE C == Nat \ T
<1>1. SUFFICES ASSUME C # {} PROVE FALSE
  OBVIOUS
<1>2. PICK x \in C : \A k \in C : x <= k
  BY <1>1, LeastElement
<1>3. x - 1 \in Nat /\ x - 1 \in T
  BY <1>2
<1> QED BY <1>2, <1>3

-----------------------------------------------------------------------------
\* The assertion of update(): the batch size stays between its start and
\* its target, also where the ramp-up ends.
THEOREM RampUpStaysBelowTarget ==
  ASSUME NEW j \in Jobs, j.start_batch_size > 0, NEW consumed \in Nat
  PROVE  j.start_batch_size <= RampedUp(j, consumed) /\ RampedUp(j, consumed) <= j.global_batch_size
<1> DEFINE start == j.start_batch_size
           global == j.global_batch_size
           inc == j.increment
           samples == j.rampup_samples
           increments == (global - start) \div inc
           steps == (consumed * increments) \div samples
<1>1. /\ start \in Nat /\ global \in Nat /\ inc \in Nat \ {0} /\ samples \in Nat \ {0}
      /\ start < global /\ (global - start) % inc = 0
  BY JobsAssumption
<1>2. RampedUp(j, consumed) = IF consumed > samples THEN global ELSE start + steps * inc
  BY DEF RampedUp
<1> HIDE DEF start, global, inc, samples
<1>3. increments \in Int /\ global - start = increments * inc
  <2>1. global - start \in Int
    BY <1>1
  <2>2. (global - start) = increments * inc + ((global - start) % inc) /\ increments \in Int
    BY <1>1, <2>1, Quotient
  <2>3. increments * inc \in Int
    BY <1>1, <2>2
  <2> QED BY <1>1, <2>1, <2>2, <2>3
<1> HIDE DEF increments
<1>4. increments >= 0
  <2>1. CASE increments < 0
    <3>1. increments * inc + inc <= 0 * inc
      BY <1>1, <1>3, <2>1, NextMultiple
    <3>2. increments * inc \in Int
      BY <1>1, <1>3
    <3> QED BY <1>1, <1>3, <3>1, <3>2
  <2> QED BY <1>3, <2>1
<1>5. ASSUME consumed <= samples
      PROVE  steps \in 0 .. increments
  <2> DEFINE x == consumed * increments
  <2>1. x \in Nat /\ x <= samples * increments
    BY <1>1, <1>3, <1>4, <1>5
  <2>2. samples * increments = increments * samples /\ increments * samples \in Int
    BY <1>1, <1>3
  <2>3. x \in Int
    BY <2>1
  <2> HIDE DEF x
  <2> DEFINE q == x \div samples
  <2>4. q \in Int /\ x % samples \in 0 .. samples - 1 /\ x = q * samples + (x % samples)
    BY <1>1, <2>3, Quotient
  <2> HIDE DEF q
  <2>5. q * samples \in Int
    BY <1>1, <2>4
  <2>6. ASSUME q < 0
        PROVE  FALSE
    <3>1. q * samples + samples <= 0 * samples
      BY <1>1, <2>4, <2>6, NextMultiple
    <3> QED BY <1>1, <2>1, <2>4, <2>5, <3>1
  <2>7. ASSUME increments < q
        PROVE  FALSE
    <3>1. increments * samples + samples <= q * samples
      BY <1>1, <1>3, <2>4, <2>7, NextMultiple
    <3> QED BY <1>1, <2>1, <2>2, <2>4, <2>5, <3>1
  <2>8. q \in 0 .. increments
    BY <1>3, <2>4, <2>6, <2>7
  <2> QED BY <2>8 DEF q, x
<1>6. ASSUME consumed <= samples
      PROVE  start <= start + steps * inc /\ start + steps * inc <= global
  <2> HIDE DEF steps
  <2>1. steps \in 0 .. increments
    BY <1>5, <1>6
  <2>2. steps * inc \in Nat /\ steps * inc <= increments * inc
    BY <1>1, <1>3, <2>1
  <2> QED BY <1>1, <1>3, <2>2
<1>7. start <= RampedUp(j, consumed) /\ RampedUp(j, consumed) <= global
  BY <1>1, <1>2, <1>6
<1> QED BY <1>7 DEF start, global

\* A round has a microbatch for every rank.
LEMMA RoundShape ==
  ASSUME NEW l \in Layout
  PROVE  /\ l.micro_batch_size \in Nat \ {0} /\ l.data_parallel_size \in Nat \ {0}
         /\ Round(l) = l.data_parallel_size * l.micro_batch_size
         /\ Round(l) \in Nat \ {0}
BY DEF Layout, Round

\* In a sequential pass over the data, every sample of the complete rounds
\* is given by one rank, once: the slices that the ranks compute by
\* themselves from consumed_samples split every global batch.
THEOREM SlicesSplitTheData ==
  ASSUME NEW l \in Layout, NEW consumed \in Nat, job.total_samples \in Nat,
         NEW x \in consumed ..
                   consumed + ((job.total_samples - consumed) \div Round(l)) * Round(l) - 1
  PROVE  LET ranks == 0 .. l.data_parallel_size - 1
             passes == 1 .. (job.total_samples - consumed) \div Round(l)
             places == 1 .. l.micro_batch_size
             given(r, k, i) == Sequential(l, r, consumed)[k][i] = x
         IN /\ \E r \in ranks, k \in passes, i \in places : given(r, k, i)
            /\ \A r, q \in ranks, k, m \in passes, i, n \in places :
                 given(r, k, i) /\ given(q, m, n) => r = q /\ k = m /\ i = n
<1> DEFINE round == Round(l)
           micro == l.micro_batch_size
           dp == l.data_parallel_size
           rounds == (job.total_samples - consumed) \div round
           z == x - consumed
           given(r, k, i) == Sequential(l, r, consumed)[k][i] = x
<1>1. micro \in Nat \ {0} /\ dp \in Nat \ {0} /\ round = dp * micro /\ round \in Nat \ {0}
  BY RoundShape
<1>2. rounds \in Int
  <2>1. job.total_samples - consumed \in Int
    OBVIOUS
  <2> QED BY <1>1, <2>1, Quotient
<1>3. \A r \in 0 .. dp - 1, k \in 1 .. rounds, i \in 1 .. micro :
        Sequential(l, r, consumed)[k][i] = consumed + (k - 1) * round + r * micro + i - 1
  BY DEF Sequential
<1>4. x \in consumed .. consumed + rounds * round - 1
  OBVIOUS
<1> HIDE DEF round, micro, dp, rounds
<1>5. rounds * round \in Int /\ z \in 0 .. rounds * round - 1 /\ x = consumed + z /\ z \in Int
  BY <1>1, <1>2, <1>4
<1> HIDE DEF z
<1>6. rounds \in Nat \ {0}
  <2>1. CASE rounds <= 0
    <3>1. rounds * round <= 0
      BY <1>1, <1>2, <2>1
    <3> QED BY <1>5, <3>1
  <2> QED BY <1>2, <2>1
<1>7. \A r \in 0 .. dp - 1, k \in 1 .. rounds, i \in 1 .. micro :
        /\ r * micro + (i - 1) \in 0 .. round - 1
        /\ given(r, k, i) <=> z = (k - 1) * round + (r * micro + (i - 1))
  <2> TAKE r \in 0 .. dp - 1, k \in 1 .. rounds, i \in 1 .. micro
  <2> DEFINE d == i - 1
  <2>1. d \in 0 .. micro - 1 /\ r * micro \in Int /\ (k - 1) * round \in Int
    BY <1>1, <1>2
  <2>2. r * micro + d \in 0 .. round - 1
    <3> HIDE DEF d
    <3> QED BY <1>1, <2>1, DigitsBound
  <2>3. given(r, k, i) <=> consumed + (k - 1) * round + r * micro + i - 1 = x
    BY <1>3
  <2> QED BY <1>1, <1>5, <2>1, <2>2, <2>3
<1> HIDE DEF given
<1>8. \E r \in 0 .. dp - 1, k \in 1 .. rounds, i \in 1 .. micro : given(r, k, i)
  <2> DEFINE y == z % round
             k == z \div round + 1
             r == y \div micro
             i == (y % micro) + 1
  <2>1. k - 1 = z \div round /\ k - 1 \in 0 .. rounds - 1 /\ y \in 0 .. dp * micro - 1
        /\ z = (k - 1) * round + y
    <3>1. z \div round \in 0 .. rounds - 1 /\ z % round \in 0 .. round - 1
          /\ z = (z \div round) * round + (z % round)
      BY <1>1, <1>5, <1>6, Digits
    <3> QED BY <1>1, <3>1
  <2> HIDE DEF y
  <2>2. r \in 0 .. dp - 1 /\ i - 1 \in 0 .. micro - 1 /\ y = r * micro + (i - 1)
    <3>1. y \div micro \in 0 .. dp - 1 /\ y % micro \in 0 .. micro - 1
          /\ y = (y \div micro) * micro + (y % micro)
      BY <1>1, <2>1, Digits
    <3> QED BY <1>1, <3>1
  <2>3. k \in Int /\ i \in Int
    BY <1>1, <1>5, <2>1, Quotient
  <2> HIDE DEF k, r, i
  <2>4. k \in 1 .. rounds /\ i \in 1 .. micro
    BY <1>1, <1>2, <2>1, <2>2, <2>3
  <2>5. given(r, k, i)
    BY <1>7, <2>1, <2>2, <2>4
  <2> QED BY <2>2, <2>4, <2>5
<1>9. ASSUME NEW r \in 0 .. dp - 1, NEW q \in 0 .. dp - 1, NEW k \in 1 .. rounds,
             NEW m \in 1 .. rounds, NEW i \in 1 .. micro, NEW n \in 1 .. micro,
             given(r, k, i), given(q, m, n)
      PROVE  r = q /\ k = m /\ i = n
  <2> DEFINE k0 == k - 1
             m0 == m - 1
             i0 == i - 1
             n0 == n - 1
  <2>1. /\ k0 \in Int /\ m0 \in Int /\ i0 \in 0 .. micro - 1 /\ n0 \in 0 .. micro - 1
        /\ r \in Int /\ q \in Int
    BY <1>1, <1>2
  <2>2. /\ r * micro + i0 \in 0 .. round - 1 /\ q * micro + n0 \in 0 .. round - 1
        /\ k0 * round + (r * micro + i0) = m0 * round + (q * micro + n0)
    BY <1>7, <1>9
  <2> HIDE DEF k0, m0, i0, n0
  <2>3. k0 = m0 /\ r * micro + i0 = q * micro + n0
    BY <1>1, <2>1, <2>2, DigitsUnique
  <2>4. r = q /\ i0 = n0
    BY <1>1, <2>1, <2>3, DigitsUnique
  <2> QED BY <1>1, <1>2, <2>3, <2>4 DEF k0, m0, i0, n0
<1> QED BY <1>8, <1>9 DEF given, dp, rounds, micro, round

\* What is left of a list after its first n elements.
Rest(s, n) == [k \in 1 .. Len(s) - n |-> s[k + n]]

\* What is left of a list of samples after n microbatches, cut into
\* microbatches, is what is left of its microbatches.
LEMMA MicrobatchesOfRest ==
  ASSUME NEW s, NEW t, NEW size \in Nat \ {0}, NEW n \in Nat,
         Len(s) \in Nat, Len(t) \in Nat, Len(t) = Len(s) - n * size,
         \A i \in 1 .. Len(t) : t[i] = s[i + n * size]
  PROVE  Microbatches(t, size) = Rest(Microbatches(s, size), n)
<1> DEFINE ls == Len(s)
           lt == Len(t)
           qs == ls \div size
           qt == lt \div size
           rt == lt % size
           c == n * size
<1>1. ls \in Nat /\ lt \in Nat /\ c \in Nat /\ ls = lt + c /\ ls = lt + n * size
  OBVIOUS
<1>2. \A i \in 1 .. lt : t[i] = s[i + c]
  OBVIOUS
<1>3. Microbatches(t, size) = [k \in 1 .. qt |-> [i \in 1 .. size |-> t[(k - 1) * size + i]]]
  BY DEF Microbatches
<1>4. Microbatches(s, size) = [k \in 1 .. qs |-> [i \in 1 .. size |-> s[(k - 1) * size + i]]]
  BY DEF Microbatches
<1> HIDE DEF ls, lt
<1>5. qs = qt + n
  <2>1. ls \in Int /\ lt \in Int /\ n \in Int /\ ls = lt + n * size
    BY <1>1
  <2>2. ls \div size = (lt \div size) + n
    BY ONLY <2>1, ShiftedQuotient, size \in Nat \ {0}
  <2> QED BY <2>2
<1>6. qt \in Int /\ rt \in 0 .. size - 1 /\ lt = qt * size + rt
  BY <1>1, Quotient
<1> HIDE DEF qs, qt, rt
<1>7. ASSUME NEW k \in 1 .. qt
      PROVE  [i \in 1 .. size |-> t[(k - 1) * size + i]] = Microbatches(s, size)[k + n]
  <2> DEFINE a == (k - 1) * size
  <2>1. a \in Nat /\ k * size = a + size /\ (k + n - 1) * size = a + c
    BY <1>5, <1>6
  <2>2. a + size <= lt
    <3>1. CASE k = qt
      BY <1>1, <1>6, <2>1, <3>1
    <3>2. CASE k < qt
      <4>1. k * size + size <= qt * size
        BY <1>6, <3>2, NextMultiple
      <4>2. qt * size \in Int
        BY <1>6
      <4> QED BY <1>1, <1>6, <2>1, <4>1, <4>2
    <3> QED BY <1>6, <3>1, <3>2
  <2>3. k + n \in 1 .. qs
    BY <1>5, <1>6
  <2>4. Microbatches(s, size)[k + n] = [i \in 1 .. size |-> s[(k + n - 1) * size + i]]
    BY <1>4, <2>3
  <2> HIDE DEF a, c
  <2>5. \A i \in 1 .. size : t[a + i] = s[(k + n - 1) * size + i]
    <3> TAKE i \in 1 .. size
    <3>1. a + i \in 1 .. lt /\ (a + i) + c = (k + n - 1) * size + i
      BY <1>1, <2>1, <2>2
    <3> QED BY <1>2, <3>1
  <2> QED BY <2>4, <2>5 DEF a
<1>8. qs - n = qt /\ qs \in Nat
  <2>1. ls \div size \in Nat
    BY ONLY <1>1, size \in Nat \ {0}, QuotientOfNat
  <2> QED BY <1>5, <1>6, <2>1 DEF qs
<1>9. Len(Microbatches(s, size)) = qs
  BY <1>4, <1>8
<1> QED BY <1>3, <1>7, <1>8, <1>9 DEF Rest

\* A sequential pass resumed n rounds later goes on n microbatches later.
LEMMA SequentialResumes ==
  ASSUME NEW l \in Layout, NEW rank \in Nat, NEW consumed \in Nat, NEW n \in Nat,
         job.total_samples \in Nat, consumed + n * Round(l) <= job.total_samples
  PROVE  Sequential(l, rank, consumed + n * Round(l)) = Rest(Sequential(l, rank, consumed), n)
<1> DEFINE round == Round(l)
           micro == l.micro_batch_size
           later == consumed + n * round
           x == job.total_samples - later
           y == job.total_samples - consumed
           passes == y \div round
           left == x \div round
           old == Sequential(l, rank, consumed)
           sample(c, k, i) == c + (k - 1) * round + rank * micro + i - 1
<1>1. micro \in Nat \ {0} /\ round \in Nat \ {0}
  BY RoundShape
<1>2. /\ old = [k \in 1 .. passes |-> [i \in 1 .. micro |-> sample(consumed, k, i)]]
      /\ Sequential(l, rank, later) = [k \in 1 .. left |-> [i \in 1 .. micro |-> sample(later, k, i)]]
  BY DEF Sequential
<1> HIDE DEF round, micro, old
<1>3. x \in Nat /\ y \in Int /\ n \in Int /\ y = x + n * round
  <2>1. n * round \in Int
    BY <1>1
  <2> QED BY <2>1 DEF round
<1> HIDE DEF x, y
<1>4. passes = left + n /\ left \in Nat
  <2>1. x \in Int
    BY <1>3
  <2>2. y \div round = (x \div round) + n
    BY ONLY <1>1, <1>3, <2>1, ShiftedQuotient
  <2>3. x \div round \in Nat
    BY ONLY <1>1, <1>3, QuotientOfNat
  <2> QED BY <2>2, <2>3
<1> HIDE DEF passes, left
<1>5. \A k \in 1 .. left, i \in 1 .. micro : sample(later, k, i) = sample(consumed, k + n, i)
  <2> TAKE k \in 1 .. left, i \in 1 .. micro
  <2>1. (k + n - 1) * round = (k - 1) * round + n * round
        /\ (k - 1) * round \in Int /\ n * round \in Int /\ rank * micro \in Int
    BY <1>1, <1>4
  <2> QED BY <1>1, <2>1
<1> HIDE DEF sample, later
<1>6. \A k \in 1 .. left : k + n \in 1 .. passes
  BY <1>4
<1>7. Sequential(l, rank, later) = [k \in 1 .. left |-> old[k + n]]
  BY <1>2, <1>5, <1>6
<1>8. Len(old) = passes /\ passes - n = left
  BY <1>2, <1>4
<1> QED BY <1>7, <1>8 DEF old, later, round, Rest

\* So does the pass of a rank over its bucket of a random order, within an
\* epoch.
LEMMA ShardedResumes ==
  ASSUME NEW l \in Layout, NEW rank \in Nat, NEW consumed \in Nat, NEW n \in Nat,
         job.total_samples \in Nat, job.data_sharding, Round(l) <= job.total_samples,
         (consumed % ActiveSamples(job, l)) + n * Round(l) < ActiveSamples(job, l)
  PROVE  Random(l, rank, consumed + n * Round(l)) = Rest(Random(l, rank, consumed), n)
<1> DEFINE round == Round(l)
           micro == l.micro_batch_size
           dp == l.data_parallel_size
           total == job.total_samples
           rounds == total \div round
           active == ActiveSamples(job, l)
           bucket == BucketSize(job, l)
           epoch == consumed \div active
           current == consumed % active
           offset == BucketOffset(l, current)
           later == consumed + n * round
           new == BucketOffset(l, current + n * round)
           list(off) == [i \in 1 .. bucket - off |->
                           rank * bucket + permutation[epoch][off + i]]
<1>1. /\ micro \in Nat \ {0} /\ dp \in Nat \ {0} /\ round \in Nat \ {0}
      /\ round = dp * micro
  BY RoundShape
<1>2. bucket = rounds * micro
  BY DEF BucketSize
<1>3. active = total - (total % round)
  BY DEF ActiveSamples
<1>4. total \in Nat /\ round <= total /\ current + n * round < active /\ current = consumed % active
  OBVIOUS
<1>5. offset = current \div dp /\ new = (current + n * round) \div dp
  BY DEF BucketOffset
<1>6. /\ Random(l, rank, consumed) = Microbatches(list(offset), micro)
      /\ later \div active = epoch /\ later % active = current + n * round =>
           Random(l, rank, later) = Microbatches(list(new), micro)
  BY DEF Random
<1> HIDE DEF round, micro, dp, total, active, bucket
<1>7. /\ rounds \in Nat /\ active \in Nat \ {0} /\ active = rounds * round
      /\ bucket \in Nat /\ active = bucket * dp
  <2>0. total \in Int
    BY <1>4
  <2>1. rounds \in Int /\ total % round \in 0 .. round - 1
        /\ total = rounds * round + (total % round)
    BY <1>1, <2>0, Quotient
  <2>2. rounds \in Nat
    BY <1>1, <1>4, QuotientOfNat
  <2> HIDE DEF rounds
  <2>3. rounds * round \in Nat /\ rounds * micro \in Nat
    BY <1>1, <2>2
  <2>4. active = rounds * round
    BY <1>3, <2>0, <2>1, <2>3
  <2>5. rounds * round = (rounds * micro) * dp
    BY <1>1, <2>2
  <2>6. active # 0
    BY <1>1, <1>3, <1>4, <2>0, <2>1
  <2> QED BY <1>2, <2>2, <2>3, <2>4, <2>5, <2>6
<1> HIDE DEF rounds
<1>8. /\ current \in 0 .. active - 1 /\ epoch \in Int /\ consumed = epoch * active + current
      /\ epoch * active \in Int /\ n * round \in Nat
  <2>1. consumed \in Int
    OBVIOUS
  <2>2. current \in 0 .. active - 1 /\ epoch \in Int /\ consumed = epoch * active + current
    BY <1>7, <2>1, Quotient
  <2> HIDE DEF current, epoch
  <2> QED BY <1>1, <1>7, <2>2
<1>9. later \div active = epoch /\ later % active = current + n * round
  <2> DEFINE c == current + n * round
  <2>1. c \in 0 .. active - 1 /\ later = epoch * active + c
    <3> HIDE DEF current, epoch
    <3> QED BY <1>4, <1>7, <1>8
  <2> HIDE DEF c, later, epoch
  <2>2. (epoch * active + c) \div active = epoch /\ (epoch * active + c) % active = c
    BY <1>7, <1>8, <2>1, ExactQuotient
  <2> QED BY <2>1, <2>2 DEF c
<1> HIDE DEF current, epoch, later
<1>10. new = offset + n * micro /\ n * micro \in Nat /\ offset \in Nat
  <2> DEFINE y == current + n * round
             m == n * micro
  <2>1. m \in Nat /\ m * dp = n * round
    BY <1>1
  <2>2. current \in Int /\ m \in Int /\ y \in Int /\ y = current + m * dp
    BY <1>8, <2>1
  <2> HIDE DEF y, m
  <2>3. y \div dp = (current \div dp) + m
    BY ONLY ZenonT(60), <1>1, <2>2, ShiftedQuotient
  <2>4. current \div dp \in Nat
    <3>1. current \in Nat
      BY <1>7, <1>8
    <3> QED BY ONLY <1>1, <3>1, QuotientOfNat
  <2> QED BY <1>5, <2>1, <2>3, <2>4 DEF y, m
<1>11. new <= bucket
  <2> DEFINE y == current + n * round
  <2>0. y \in 0 .. active - 1 /\ bucket # 0
    BY <1>1, <1>4, <1>7, <1>8
  <2>1. y \in 0 .. bucket * dp - 1 /\ bucket # 0
    BY <1>7, <2>0
  <2> HIDE DEF y
  <2>2. y \div dp \in 0 .. bucket - 1
    BY <1>1, <1>7, <2>1, Digits
  <2> QED BY <1>5, <1>7, <2>2 DEF y
<1> HIDE DEF offset, new
<1>12. Len(list(offset)) = bucket - offset /\ Len(list(new)) = bucket - new
  BY <1>7, <1>10, <1>11
<1>13. \A i \in 1 .. bucket - new : list(new)[i] = list(offset)[i + n * micro]
  <2> DEFINE m == n * micro
  <2>1. new = offset + m /\ m \in Nat /\ offset \in Nat
    BY <1>10
  <2> HIDE DEF m
  <2> SUFFICES ASSUME NEW i \in 1 .. bucket - new
               PROVE  list(new)[i] = list(offset)[i + m]
    BY DEF m
  <2>2. i + m \in 1 .. bucket - offset /\ offset + (i + m) = new + i
    BY <1>7, <2>1
  <2> QED BY <2>2
<1>14. Microbatches(list(new), micro) = Rest(Microbatches(list(offset), micro), n)
  <2>1. /\ Len(list(offset)) \in Nat /\ Len(list(new)) \in Nat
        /\ Len(list(new)) = Len(list(offset)) - n * micro
    BY <1>7, <1>10, <1>11, <1>12
  <2> HIDE DEF list
  <2>2. PICK a, b : a = list(offset) /\ b = list(new)
    OBVIOUS
  <2>3. \A i \in 1 .. Len(b) : b[i] = a[i + n * micro]
    BY <1>12, <1>13, <2>2
  <2>4. Len(a) \in Nat /\ Len(b) \in Nat /\ Len(b) = Len(a) - n * micro
    BY <2>1, <2>2
  <2>5. Microbatches(b, micro) = Rest(Microbatches(a, micro), n)
    <3> DEFINE m == micro
    <3>1. m \in Nat \ {0}
      BY <1>1
    <3>2. \A i \in 1 .. Len(b) : b[i] = a[i + n * m]
      BY <2>3
    <3>3. Len(a) \in Nat /\ Len(b) \in Nat /\ Len(b) = Len(a) - n * m
      BY <2>4
    <3>4. n \in Nat
      OBVIOUS
    <3> HIDE DEF m
    <3>5. Microbatches(b, m) = Rest(Microbatches(a, m), n)
      BY ONLY SMTT(60), <3>1, <3>2, <3>3, <3>4, MicrobatchesOfRest
    <3> QED BY <3>5 DEF m
  <2> QED BY <2>2, <2>5
<1> QED BY <1>6, <1>9, <1>14 DEF later, round

\* A pass over the data that is resumed where consumed_samples stands n
\* rounds later - by a restarted job, from the checkpoint - is what the
\* interrupted pass had still to give: nothing is skipped or used twice on
\* any rank (in a random order: within the epoch and with sharding).
THEOREM ResumedPassContinues ==
  ASSUME NEW l \in Layout, NEW rank \in Nat, NEW consumed \in Nat, NEW n \in Nat,
         job.total_samples \in Nat, Round(l) <= job.total_samples,
         IF job.dataloader_type = "single"
         THEN consumed + n * Round(l) <= job.total_samples
         ELSE /\ job.data_sharding
              /\ (consumed % ActiveSamples(job, l)) + n * Round(l) < ActiveSamples(job, l)
  PROVE  Pass(l, rank, consumed + n * Round(l)) = Rest(Pass(l, rank, consumed), n)
<1>1. CASE job.dataloader_type = "single"
  BY <1>1, SequentialResumes DEF Pass
<1>2. CASE job.dataloader_type # "single"
  <2>1. /\ job.data_sharding
        /\ (consumed % ActiveSamples(job, l)) + n * Round(l) < ActiveSamples(job, l)
    BY <1>2
  <2>2. Random(l, rank, consumed + n * Round(l)) = Rest(Random(l, rank, consumed), n)
    BY <2>1, ShardedResumes
  <2> QED BY <1>2, <2>2 DEF Pass
<1> QED BY <1>1, <1>2
-----------------------------------------------------------------------------
(***************************************************************************)
(* The iterations of a job.                                                *)
(***************************************************************************)

\* The arguments of a job.
LEMMA JobFacts ==
  ASSUME NEW j \in Jobs
  PROVE  /\ j.total_samples \in Nat /\ j.train_samples \in Nat
         /\ j.global_batch_size \in Nat \ {0} /\ j.global_batch_size <= j.train_samples
         /\ j.start_batch_size \in Nat /\ j.rampup_samples \in Nat
         /\ j.start_batch_size > 0 => j.rampup_samples \in 1 .. j.train_samples
         /\ j.dataloader_type \in {"single", "cyclic"}
         /\ j.dataloader_type = "single" => j.train_samples <= j.total_samples
         /\ j.dataloader_type = "cyclic" =>
              j.data_sharding \/ \A l \in j.layouts : j.total_samples % Round(l) = 0
         /\ \A l \in j.layouts :
              /\ l \in Layout /\ Round(l) <= j.total_samples
              /\ \A c \in 0 .. j.train_samples : GlobalBatchSize(j, c) % Round(l) = 0
BY JobsAssumption

\* A batch is neither empty nor larger than the last ones.
LEMMA BatchSizes ==
  ASSUME NEW j \in Jobs, NEW c \in Nat
  PROVE  /\ GlobalBatchSize(j, c) \in 1 .. j.global_batch_size
         /\ j.start_batch_size = 0 \/ c > j.rampup_samples =>
              GlobalBatchSize(j, c) = j.global_batch_size
<1>1. CASE j.start_batch_size = 0
  BY <1>1, JobFacts DEF GlobalBatchSize
<1>2. CASE j.start_batch_size > 0
  <2>1. GlobalBatchSize(j, c) = RampedUp(j, c)
    BY <1>2 DEF GlobalBatchSize
  <2>2. j.start_batch_size <= RampedUp(j, c) /\ RampedUp(j, c) <= j.global_batch_size
    BY <1>2, RampUpStaysBelowTarget
  <2>3. CASE c > j.rampup_samples
    <3>1. RampedUp(j, c) = j.global_batch_size
      BY <2>3 DEF RampedUp
    <3> QED BY <2>1, <3>1, JobFacts
  <2>4. CASE ~ (c > j.rampup_samples)
    <3>1. RampedUp(j, c) \in Int
      <4> DEFINE inc == (j.global_batch_size - j.start_batch_size) \div j.increment
                 steps == (c * inc) \div j.rampup_samples
      <4>1. j.increment \in Nat \ {0} /\ j.rampup_samples \in Nat \ {0}
        BY <1>2, JobsAssumption
      <4>2. inc \in Int
        BY <4>1, JobFacts
      <4> HIDE DEF inc
      <4>3. steps \in Int
        BY <4>1, <4>2
      <4> HIDE DEF steps
      <4>4. RampedUp(j, c) = j.start_batch_size + steps * j.increment
        BY <2>4 DEF RampedUp, steps, inc
      <4> QED BY <4>1, <4>3, <4>4, JobFacts
    <3> QED BY <1>2, <2>1, <2>2, <2>4, <3>1, JobFacts
  <2> QED BY <2>3, <2>4
<1> QED BY <1>1, <1>2, JobFacts

\* The function of the ramp-up, by what the rest of it needs from a count.
RampSamples(j) == 0 .. j.rampup_samples + j.global_batch_size
RampRest(j, f, c) ==
  IF c > j.rampup_samples THEN [iterations |-> 0, consumed |-> c]
  ELSE [f[c + GlobalBatchSize(j, c)] EXCEPT !.iterations = @ + 1]
IsRamp(j, f) == f = [c \in RampSamples(j) |-> RampRest(j, f, c)]
Ramp(j) == CHOOSE f : IsRamp(j, f)

\* f is that function from the count k on.
RampFrom(j, f, k) ==
  DOMAIN f = RampSamples(j) /\ \A c \in RampSamples(j) : c >= k => f[c] = RampRest(j, f, c)

\* From a count of the ramp-up the next one is later and not too late.
LEMMA RampNext ==
  ASSUME NEW j \in Jobs, NEW c \in RampSamples(j), c <= j.rampup_samples
  PROVE  /\ c + GlobalBatchSize(j, c) \in RampSamples(j)
         /\ c + GlobalBatchSize(j, c) > c
<1>1. c \in Nat /\ j.rampup_samples \in Nat /\ j.global_batch_size \in Nat
  BY JobFacts DEF RampSamples
<1>2. GlobalBatchSize(j, c) \in 1 .. j.global_batch_size
  BY <1>1, BatchSizes
<1> QED BY <1>1, <1>2 DEF RampSamples

\* There is such a function, computed from its end.
LEMMA RampExists ==
  ASSUME NEW j \in Jobs
  PROVE  IsRamp(j, Ramp(j))
<1> DEFINE R == j.rampup_samples
           T == {n \in Nat : n <= R + 1 => \E f : RampFrom(j, f, R + 1 - n)}
<1>1. R \in Nat /\ j.global_batch_size \in Nat
  BY JobFacts
<1>2. 0 \in T
  <2> DEFINE f == [c \in RampSamples(j) |-> [iterations |-> 0, consumed |-> c]]
  <2>1. ASSUME NEW c \in RampSamples(j), c >= R + 1
        PROVE  f[c] = RampRest(j, f, c)
    <3>1. c > R
      BY <1>1, <2>1 DEF RampSamples
    <3> QED BY <3>1 DEF RampRest
  <2>2. RampFrom(j, f, R + 1 - 0)
    BY <1>1, <2>1 DEF RampFrom
  <2> QED BY <2>2
<1>3. ASSUME NEW n \in T
      PROVE  n + 1 \in T
  <2> SUFFICES ASSUME n + 1 <= R + 1
               PROVE  \E f : RampFrom(j, f, R + 1 - (n + 1))
    OBVIOUS
  <2>1. PICK f : RampFrom(j, f, R + 1 - n)
    BY <1>1
  <2> DEFINE k == R - n
             g == [f EXCEPT ![k] = RampRest(j, f, k)]
  <2>2. n \in Nat /\ k \in 0 .. R /\ k \in RampSamples(j) /\ R + 1 - n = k + 1 /\ R + 1 - (n + 1) = k
    BY <1>1 DEF RampSamples
  <2> HIDE DEF k, R
  <2>3. DOMAIN g = RampSamples(j) /\ g[k] = RampRest(j, f, k)
        /\ \A c \in RampSamples(j) : c # k => g[c] = f[c]
    BY <2>1, <2>2 DEF RampFrom
  <2> HIDE DEF g
  <2>4. ASSUME NEW c \in RampSamples(j), c >= k
        PROVE  RampRest(j, g, c) = RampRest(j, f, c)
    <3>1. CASE c > j.rampup_samples
      BY <3>1 DEF RampRest
    <3>2. CASE ~ (c > j.rampup_samples)
      <4>1. c \in Nat /\ c <= j.rampup_samples
        BY <1>1, <3>2 DEF RampSamples, R
      <4>2. c + GlobalBatchSize(j, c) \in RampSamples(j) /\ c + GlobalBatchSize(j, c) > c
        BY <4>1, RampNext
      <4>3. c + GlobalBatchSize(j, c) # k
        BY <2>2, <2>4, <4>1, <4>2 DEF RampSamples
      <4>4. g[c + GlobalBatchSize(j, c)] = f[c + GlobalBatchSize(j, c)]
        BY <2>3, <4>2, <4>3
      <4> QED BY <4>4 DEF RampRest
    <3> QED BY <3>1, <3>2
  <2>5. ASSUME NEW c \in RampSamples(j), c >= k
        PROVE  g[c] = RampRest(j, g, c)
    <3>1. CASE c = k
      BY <2>3, <2>4, <2>5, <3>1
    <3>2. CASE c # k
      <4>1. c >= k + 1
        BY <1>1, <2>2, <2>5, <3>2 DEF RampSamples
      <4>2. f[c] = RampRest(j, f, c)
        BY <2>1, <2>2, <4>1 DEF RampFrom
      <4> QED BY <2>3, <2>4, <2>5, <3>2, <4>2
    <3> QED BY <3>1, <3>2
  <2>6. RampFrom(j, g, k)
    BY <2>3, <2>5 DEF RampFrom
  <2> QED BY <2>2, <2>6
<1>4. R + 1 \in T
  <2>1. T \in SUBSET Nat
    OBVIOUS
  <2> HIDE DEF T
  <2>2. T = Nat
    BY <1>2, <1>3, <2>1, SetInduction
  <2> QED BY <1>1, <2>2
<1>5. PICK f : RampFrom(j, f, R + 1 - (R + 1))
  BY <1>1, <1>4
<1> DEFINE g == [c \in RampSamples(j) |-> f[c]]
<1>6. \A c \in RampSamples(j) : f[c] = RampRest(j, f, c) /\ c >= 0 /\ c \in Nat
  BY <1>1, <1>5 DEF RampFrom, RampSamples
<1>7. ASSUME NEW c \in RampSamples(j)
      PROVE  g[c] = RampRest(j, g, c)
  <2>1. CASE c > j.rampup_samples
    BY <1>6, <2>1 DEF RampRest
  <2>2. CASE ~ (c > j.rampup_samples)
    <3>1. c <= j.rampup_samples
      BY <1>1, <1>6, <2>2
    <3>2. c + GlobalBatchSize(j, c) \in RampSamples(j)
      BY <3>1, RampNext
    <3>3. g[c + GlobalBatchSize(j, c)] = f[c + GlobalBatchSize(j, c)]
      BY <3>2
    <3>4. RampRest(j, g, c) = RampRest(j, f, c)
      BY <3>3 DEF RampRest
    <3> QED BY <1>6, <3>4
  <2> QED BY <2>1, <2>2
<1>8. g = [c \in RampSamples(j) |-> RampRest(j, g, c)]
  <2>1. g = [c \in RampSamples(j) |-> g[c]]
    OBVIOUS
  <2> HIDE DEF g
  <2> QED BY <1>7, <2>1
<1>9. IsRamp(j, g)
  BY <1>8 DEF IsRamp
<1> QED BY <1>9 DEF Ramp

\* What update_train_iters computes is its value for 0.
LEMMA RampupIs ==
  ASSUME NEW j
  PROVE  Rampup(j) = Ramp(j)[0]
BY DEF Rampup, Ramp, IsRamp, RampSamples, RampRest

\* Its values are numbers.
Rests(j) == [iterations : Nat, consumed : RampSamples(j)]
RampType(j, k) ==
  \A c \in RampSamples(j) : c >= k => Ramp(j)[c] \in Rests(j) /\ Ramp(j)[c].consumed >= c

\* Past the ramp-up nothing is left of it; before, one iteration more than
\* at the next count.
LEMMA RampValues ==
  ASSUME NEW j \in Jobs, NEW c \in RampSamples(j)
  PROVE  LET f == Ramp(j)
             next == c + GlobalBatchSize(j, c)
         IN /\ f[c] \in Rests(j) /\ f[c].consumed >= c
            /\ c > j.rampup_samples => f[c].iterations = 0 /\ f[c].consumed = c
            /\ c <= j.rampup_samples =>
                 /\ next \in RampSamples(j)
                 /\ f[next].iterations \in Nat
                 /\ f[c].iterations = f[next].iterations + 1 /\ f[c].consumed = f[next].consumed
<1> DEFINE f == Ramp(j)
           R == j.rampup_samples
           T == {n \in Nat : n <= R + 1 => RampType(j, R + 1 - n)}
<1>1. R \in Nat /\ j.global_batch_size \in Nat /\ \A d \in RampSamples(j) : d \in Nat
  BY JobFacts DEF RampSamples
<1>2. \A d \in RampSamples(j) : f[d] = RampRest(j, f, d)
  <2>1. f = [d \in RampSamples(j) |-> RampRest(j, f, d)]
    BY RampExists DEF IsRamp
  <2> HIDE DEF f
  <2> QED BY <2>1
<1>3. ASSUME NEW d \in RampSamples(j), d > R
      PROVE  f[d] \in Rests(j) /\ f[d].iterations = 0 /\ f[d].consumed = d
  <2>1. f[d] = [iterations |-> 0, consumed |-> d] /\ d \in Nat
    BY <1>1, <1>2, <1>3 DEF RampRest
  <2> HIDE DEF f
  <2> QED BY <2>1 DEF Rests
<1>4. ASSUME NEW d \in RampSamples(j), d <= R
      PROVE  LET e == d + GlobalBatchSize(j, d)
             IN e \in RampSamples(j) /\ e > d /\ f[d] = [f[e] EXCEPT !.iterations = @ + 1]
  <2>1. d + GlobalBatchSize(j, d) \in RampSamples(j) /\ d + GlobalBatchSize(j, d) > d
    BY <1>4, RampNext
  <2>2. f[d] = RampRest(j, f, d) /\ ~ (d > j.rampup_samples)
    BY <1>1, <1>2, <1>4
  <2> HIDE DEF f
  <2> QED BY <2>1, <2>2 DEF RampRest
<1>5. ASSUME NEW d \in RampSamples(j), d <= R, f[d + GlobalBatchSize(j, d)] \in Rests(j)
      PROVE  LET e == d + GlobalBatchSize(j, d)
             IN /\ f[d] \in Rests(j) /\ f[e].iterations \in Nat
                /\ f[d].iterations = f[e].iterations + 1 /\ f[d].consumed = f[e].consumed
  <2> DEFINE e == d + GlobalBatchSize(j, d)
  <2>1. f[d] = [f[e] EXCEPT !.iterations = @ + 1] /\ f[e] \in Rests(j)
    BY <1>4, <1>5
  <2> HIDE DEF e, f
  <2>2. /\ f[d] \in Rests(j) /\ f[e].iterations \in Nat
        /\ f[d].iterations = f[e].iterations + 1 /\ f[d].consumed = f[e].consumed
    BY <2>1 DEF Rests
  <2> QED BY <2>2 DEF e
<1> HIDE DEF f, R
<1>6. 0 \in T
  <2>1. ASSUME NEW d \in RampSamples(j), d >= R + 1 - 0
        PROVE  f[d] \in Rests(j) /\ f[d].consumed >= d
    BY <1>1, <1>3, <2>1
  <2> QED BY <2>1 DEF RampType, f
<1>7. ASSUME NEW n \in T
      PROVE  n + 1 \in T
  <2> SUFFICES ASSUME n + 1 <= R + 1, NEW d \in RampSamples(j), d >= R + 1 - (n + 1)
               PROVE  f[d] \in Rests(j) /\ f[d].consumed >= d
    BY DEF RampType, f
  <2>1. n \in Nat /\ d \in Nat /\ RampType(j, R + 1 - n)
    BY <1>1
  <2>2. CASE d > R
    BY <1>1, <1>3, <2>1, <2>2
  <2>3. CASE d <= R
    <3> DEFINE e == d + GlobalBatchSize(j, d)
    <3>1. e \in RampSamples(j) /\ e > d
      BY <1>4, <2>3
    <3>2. e \in Nat /\ e >= R + 1 - n
      <4> HIDE DEF e
      <4> QED BY <1>1, <2>1, <3>1
    <3>3. f[e] \in Rests(j) /\ f[e].consumed >= e
      BY <2>1, <3>1, <3>2 DEF RampType, f
    <3>4. f[d] \in Rests(j) /\ f[d].consumed = f[e].consumed
      BY <1>5, <2>3, <3>3
    <3>5. f[e].consumed \in Nat
      BY <1>1, <3>3 DEF Rests
    <3> HIDE DEF e
    <3> QED BY <2>1, <3>1, <3>2, <3>3, <3>4, <3>5
  <2> QED BY <1>1, <2>1, <2>2, <2>3
<1>8. RampType(j, 0)
  <2>1. T \in SUBSET Nat
    OBVIOUS
  <2> HIDE DEF T
  <2>2. T = Nat
    BY <1>6, <1>7, <2>1, SetInduction
  <2>3. R + 1 \in T /\ R + 1 - (R + 1) = 0
    BY <1>1, <2>2
  <2> QED BY <2>3 DEF T
<1>9. \A d \in RampSamples(j) : f[d] \in Rests(j) /\ f[d].consumed >= d
  BY <1>1, <1>8 DEF RampType, f
<1>10. ASSUME c <= R
       PROVE  LET e == c + GlobalBatchSize(j, c)
              IN /\ e \in RampSamples(j) /\ f[e].iterations \in Nat
                 /\ f[c].iterations = f[e].iterations + 1 /\ f[c].consumed = f[e].consumed
  <2>1. c + GlobalBatchSize(j, c) \in RampSamples(j)
    BY <1>4, <1>10
  <2> QED BY <1>5, <1>9, <1>10, <2>1
<1> QED BY <1>3, <1>9, <1>10 DEF f, R

-----------------------------------------------------------------------------
\* After `it` iterations a job has consumed c samples, according to the
\* ramp-up update_train_iters has gone through before the start.
Schedule(j, it, c) ==
  IF j.start_batch_size = 0 THEN c = it * j.global_batch_size
  ELSE IF c <= j.rampup_samples
  THEN /\ it + Ramp(j)[c].iterations = Ramp(j)[0].iterations
       /\ Ramp(j)[c].consumed = Ramp(j)[0].consumed
  ELSE /\ it >= Ramp(j)[0].iterations
       /\ c = Ramp(j)[0].consumed + (it - Ramp(j)[0].iterations) * j.global_batch_size

\* The ramp-up as a whole, and the number of iterations it leads to.
LEMMA WholeRampup ==
  ASSUME NEW j \in Jobs, j.start_batch_size # 0
  PROVE  LET r == Ramp(j)[0]
             q == (j.train_samples - r.consumed) \div j.global_batch_size
         IN /\ 0 \in RampSamples(j) /\ r.iterations \in Nat \ {0} /\ r.consumed \in Nat
            /\ r.consumed <= j.rampup_samples + j.global_batch_size
            /\ j.rampup_samples \in Nat /\ j.rampup_samples <= j.train_samples
            /\ q \in Int /\ q >= -1
            /\ q * j.global_batch_size \in Int
            /\ q * j.global_batch_size <= j.train_samples - r.consumed
            /\ j.train_samples - r.consumed < q * j.global_batch_size + j.global_batch_size
            /\ TrainIters(j) = r.iterations + q
<1> DEFINE r == Ramp(j)[0]
           G == j.global_batch_size
           left == j.train_samples - r.consumed
           q == left \div G
<1>1. /\ G \in Nat \ {0} /\ j.train_samples \in Nat
      /\ j.rampup_samples \in Nat /\ j.rampup_samples <= j.train_samples
  BY JobFacts
<1>2. 0 \in RampSamples(j) /\ 0 <= j.rampup_samples
  BY <1>1 DEF RampSamples
<1>3. /\ r \in Rests(j)
      /\ r.iterations = Ramp(j)[0 + GlobalBatchSize(j, 0)].iterations + 1
      /\ Ramp(j)[0 + GlobalBatchSize(j, 0)].iterations \in Nat
  BY <1>2, RampValues
<1>4. r.iterations \in Nat \ {0} /\ r.consumed \in RampSamples(j)
  BY <1>3 DEF Rests
<1>5. TrainIters(j) = r.iterations + q
  BY RampupIs DEF TrainIters
<1> HIDE DEF r, G
<1>6. r.consumed \in Nat /\ r.consumed <= j.rampup_samples + G
  BY <1>1, <1>4 DEF RampSamples, G
<1>7. left \in Int /\ left >= - G
  BY <1>1, <1>6
<1> HIDE DEF left
<1>8. q \in Int /\ left % G \in 0 .. G - 1 /\ left = q * G + (left % G)
  BY <1>1, <1>7, Quotient
<1> HIDE DEF q
<1>9. q * G \in Int
  BY <1>1, <1>8
<1>10. q >= -1
  <2>1. CASE q < -1
    <3>1. q * G + G <= (-1) * G
      BY <1>1, <1>8, <2>1, NextMultiple
    <3>2. (-1) * G = - G
      BY <1>1
    <3> QED BY <1>1, <1>7, <1>8, <1>9, <3>1, <3>2
  <2> QED BY <1>8, <2>1
<1>11. q * G <= left /\ left < q * G + G
  BY <1>1, <1>7, <1>8, <1>9
<1> QED BY <1>1, <1>2, <1>4, <1>5, <1>6, <1>8, <1>9, <1>10, <1>11 DEF r, G, q, left

\* A job that starts is on schedule.
LEMMA ScheduleStarts ==
  ASSUME NEW j \in Jobs
  PROVE  TrainIters(j) \in Nat /\ Schedule(j, 0, 0)
<1>1. CASE j.start_batch_size = 0
  <2>1. TrainIters(j) = j.train_samples \div j.global_batch_size
    BY <1>1 DEF TrainIters
  <2>2. j.train_samples \div j.global_batch_size \in Nat
    BY JobFacts, QuotientOfNat
  <2> QED BY <1>1, <2>1, <2>2, JobFacts DEF Schedule
<1>2. CASE j.start_batch_size # 0
  <2> DEFINE r == Ramp(j)[0]
             q == (j.train_samples - r.consumed) \div j.global_batch_size
  <2>1. /\ r.iterations \in Nat \ {0} /\ q \in Int /\ q >= -1
        /\ TrainIters(j) = r.iterations + q /\ j.rampup_samples \in Nat
    BY <1>2, WholeRampup
  <2> HIDE DEF q, r
  <2>2. TrainIters(j) \in Nat /\ 0 <= j.rampup_samples /\ 0 + r.iterations = r.iterations
    BY <2>1
  <2> QED BY <1>2, <2>2 DEF Schedule, r
<1> QED BY <1>1, <1>2

\* Before the last iteration the samples of a batch are left, and after it
\* the job is on schedule.
LEMMA ScheduleGoesOn ==
  ASSUME NEW j \in Jobs, NEW it \in Nat, NEW c \in 0 .. j.train_samples,
         Schedule(j, it, c), it < TrainIters(j)
  PROVE  /\ c + GlobalBatchSize(j, c) <= j.train_samples
         /\ Schedule(j, it + 1, c + GlobalBatchSize(j, c))
<1> DEFINE G == j.global_batch_size
           g == GlobalBatchSize(j, c)
           train == j.train_samples
<1>1. G \in Nat \ {0} /\ train \in Nat /\ c \in Nat /\ c <= train
  BY JobFacts
<1>2. g \in 1 .. G /\ (j.start_batch_size = 0 \/ c > j.rampup_samples => g = G)
  BY <1>1, BatchSizes
<1>3. CASE j.start_batch_size = 0
  <2> DEFINE q == train \div G
  <2>1. c = it * G /\ g = G /\ TrainIters(j) = q
    BY <1>2, <1>3 DEF Schedule, TrainIters
  <2> HIDE DEF G, train, g
  <2>2. train \in Int
    BY <1>1
  <2>3. q \in Int /\ train % G \in 0 .. G - 1 /\ train = q * G + (train % G)
    BY <1>1, <2>2, Quotient
  <2> HIDE DEF q
  <2>4. it * G + G <= q * G
    BY <1>1, <2>1, <2>3, NextMultiple
  <2>5. q * G \in Int /\ it * G \in Int /\ (it + 1) * G = it * G + G
    BY <1>1, <2>3
  <2>6. c + g <= train /\ c + g = (it + 1) * G
    BY <1>1, <2>1, <2>3, <2>4, <2>5
  <2> QED BY <1>3, <2>6 DEF Schedule, G, g, train
<1>4. CASE j.start_batch_size # 0
  <2> DEFINE r == Ramp(j)[0]
             q == (train - r.consumed) \div G
             R == j.rampup_samples
  <2>1. /\ r.iterations \in Nat \ {0} /\ r.consumed \in Nat /\ R \in Nat /\ R <= train
        /\ q \in Int /\ q >= -1 /\ q * G \in Int /\ q * G <= train - r.consumed
        /\ TrainIters(j) = r.iterations + q
    BY <1>4, WholeRampup
  <2>2. CASE c > R
    <3>1. it >= r.iterations /\ c = r.consumed + (it - r.iterations) * G /\ g = G
      BY <1>1, <1>2, <1>4, <2>1, <2>2 DEF Schedule
    <3> DEFINE n == it - r.iterations
    <3> HIDE DEF q, r, R, G, g, train
    <3>2. n \in Nat /\ n < q /\ c = r.consumed + n * G
      BY <2>1, <3>1
    <3>3. (it + 1) - r.iterations = n + 1
      BY <2>1
    <3> HIDE DEF n
    <3>4. n * G + G <= q * G /\ n * G \in Int /\ (n + 1) * G = n * G + G
      BY <1>1, <2>1, <3>2, NextMultiple
    <3>5. c + g <= train /\ c + g = r.consumed + (n + 1) * G /\ it + 1 >= r.iterations /\ c + g > R
      BY <1>1, <2>1, <2>2, <3>1, <3>2, <3>4
    <3>6. ~ (c + g <= R)
      BY <1>1, <1>2, <2>1, <3>5
    <3> QED BY <1>4, <3>3, <3>5, <3>6 DEF Schedule, r, R, G, g, train
  <2>3. CASE c <= R
    <3> DEFINE f == Ramp(j)
               e == c + g
    <3>1. it + f[c].iterations = r.iterations /\ f[c].consumed = r.consumed
      BY <1>4, <2>3 DEF Schedule
    <3>2. c \in RampSamples(j)
      BY <1>1, <2>1, <2>3 DEF RampSamples
    <3>3. /\ e \in RampSamples(j) /\ f[e].iterations \in Nat
          /\ f[c].iterations = f[e].iterations + 1 /\ f[c].consumed = f[e].consumed
      BY <2>3, <3>2, RampValues
    <3>4. /\ f[e] \in Rests(j) /\ f[e].consumed >= e
          /\ e > R => f[e].iterations = 0 /\ f[e].consumed = e
      BY <3>3, RampValues
    <3>5. e <= R => f[e].iterations # 0
      <4> SUFFICES ASSUME e <= R PROVE f[e].iterations # 0
        OBVIOUS
      <4>1. /\ f[e].iterations = f[e + GlobalBatchSize(j, e)].iterations + 1
            /\ f[e + GlobalBatchSize(j, e)].iterations \in Nat
        BY <3>3, RampValues
      <4> QED BY <4>1
    <3> HIDE DEF f, r, q, R, G, train
    <3>6. e \in Nat
      BY <1>1, <1>2
    <3> HIDE DEF e, g
    <3>7. e <= train
      <4>1. CASE q >= 0
        <5>1. q * G >= 0
          BY <1>1, <2>1, <4>1
        <5>2. r.consumed <= train
          BY <1>1, <2>1, <5>1
        <5> QED BY <1>1, <2>1, <3>1, <3>3, <3>4, <3>6, <5>2
      <4>2. CASE q = -1
        <5>1. f[e].iterations > 0
          BY <2>1, <3>1, <3>3, <4>2
        <5>2. ~ (e > R)
          BY <3>4, <5>1
        <5> QED BY <1>1, <2>1, <3>6, <5>2
      <4> QED BY <2>1, <4>1, <4>2
    <3>8. Schedule(j, it + 1, e)
      <4>1. CASE e <= R
        <5>1. (it + 1) + f[e].iterations = r.iterations /\ f[e].consumed = r.consumed
          BY <2>1, <3>1, <3>3
        <5> QED BY <1>4, <4>1, <5>1 DEF Schedule, f, r, R
      <4>2. CASE e > R
        <5>1. it + 1 = r.iterations /\ e = r.consumed
          BY <2>1, <3>1, <3>3, <3>4, <4>2
        <5>2. e = r.consumed + ((it + 1) - r.iterations) * G /\ it + 1 >= r.iterations
          BY <1>1, <2>1, <5>1
        <5>3. ~ (e <= R)
          BY <2>1, <3>6, <4>2
        <5> QED BY <1>4, <5>2, <5>3 DEF Schedule, r, R, G
      <4> QED BY <2>1, <3>6, <4>1, <4>2
    <3> QED BY <3>7, <3>8 DEF e, g, train
  <2> QED BY <1>1, <2>1, <2>2, <2>3
<1> QED BY <1>3, <1>4

\* After the last iteration less than a batch is left.
LEMMA ScheduleEnds ==
  ASSUME NEW j \in Jobs, NEW it \in Nat, NEW c \in 0 .. j.train_samples,
         Schedule(j, it, c), it >= TrainIters(j)
  PROVE  j.train_samples - c \in 0 .. j.global_batch_size - 1
<1> DEFINE G == j.global_batch_size
           g == GlobalBatchSize(j, c)
           train == j.train_samples
<1>1. G \in Nat \ {0} /\ train \in Nat /\ c \in Nat /\ c <= train
  BY JobFacts
<1>2. g \in 1 .. G
  BY <1>1, BatchSizes
<1>3. CASE j.start_batch_size = 0
  <2> DEFINE q == train \div G
  <2>1. c = it * G /\ TrainIters(j) = q
    BY <1>3 DEF Schedule, TrainIters
  <2> HIDE DEF G, train
  <2>2. train \in Int
    BY <1>1
  <2>3. q \in Int /\ train % G \in 0 .. G - 1 /\ train = q * G + (train % G)
    BY <1>1, <2>2, Quotient
  <2> HIDE DEF q
  <2>4. q * G <= it * G
    <3>1. CASE q = it
      BY <1>1, <2>1, <2>3, <3>1
    <3>2. CASE q < it
      <4>1. q * G + G <= it * G /\ q * G \in Int /\ it * G \in Int
        BY <1>1, <2>3, <3>2, NextMultiple
      <4> QED BY <1>1, <4>1
    <3> QED BY <2>1, <2>3, <3>1, <3>2
  <2>5. q * G \in Int /\ it * G \in Int
    BY <1>1, <2>3
  <2> QED BY <1>1, <2>1, <2>3, <2>4, <2>5 DEF G, train
<1>4. CASE j.start_batch_size # 0
  <2> DEFINE r == Ramp(j)[0]
             q == (train - r.consumed) \div G
             R == j.rampup_samples
  <2>1. /\ r.iterations \in Nat \ {0} /\ r.consumed \in Nat /\ R \in Nat /\ R <= train
        /\ q \in Int /\ q >= -1 /\ q * G \in Int /\ train - r.consumed < q * G + G
        /\ TrainIters(j) = r.iterations + q
    BY <1>4, WholeRampup
  <2>2. CASE c > R
    <3>1. it >= r.iterations /\ c = r.consumed + (it - r.iterations) * G
      BY <1>1, <1>4, <2>1, <2>2 DEF Schedule
    <3> DEFINE n == it - r.iterations
    <3> HIDE DEF q, r, R, G, train
    <3>2. n \in Nat /\ q <= n /\ c = r.consumed + n * G
      BY <2>1, <3>1
    <3> HIDE DEF n
    <3>3. q * G <= n * G /\ n * G \in Int
      <4>1. CASE q = n
        BY <2>1, <4>1
      <4>2. CASE q < n
        <5>1. q * G + G <= n * G /\ n * G \in Int
          BY <1>1, <2>1, <3>2, <4>2, NextMultiple
        <5> QED BY <1>1, <2>1, <5>1
      <4> QED BY <2>1, <3>2, <4>1, <4>2
    <3> QED BY <1>1, <2>1, <3>2, <3>3 DEF G, train
  <2>3. CASE c <= R
    <3> DEFINE f == Ramp(j)
               e == c + g
    <3>1. it + f[c].iterations = r.iterations /\ f[c].consumed = r.consumed
      BY <1>4, <2>3 DEF Schedule
    <3>2. c \in RampSamples(j)
      BY <1>1, <2>1, <2>3 DEF RampSamples
    <3>3. /\ e \in RampSamples(j) /\ f[e].iterations \in Nat
          /\ f[c].iterations = f[e].iterations + 1 /\ f[c].consumed = f[e].consumed
      BY <2>3, <3>2, RampValues
    <3>4. e > R => f[e].consumed = e
      BY <3>3, RampValues
    <3>5. e <= R => f[e].iterations # 0
      <4> SUFFICES ASSUME e <= R PROVE f[e].iterations # 0
        OBVIOUS
      <4>1. /\ f[e].iterations = f[e + GlobalBatchSize(j, e)].iterations + 1
            /\ f[e + GlobalBatchSize(j, e)].iterations \in Nat
        BY <3>3, RampValues
      <4> QED BY <4>1
    <3> HIDE DEF f, r, q, R, G, train
    <3>6. e \in Nat
      BY <1>1, <1>2
    <3>7. q = -1 /\ f[e].iterations = 0
      BY <2>1, <3>1, <3>3
    <3>8. e = r.consumed
      <4> HIDE DEF e
      <4> QED BY <2>1, <3>1, <3>3, <3>4, <3>5, <3>6, <3>7
    <3>9. q * G = - G
      BY <1>1, <3>7
    <3> HIDE DEF g
    <3> QED BY <1>1, <1>2, <2>1, <3>8, <3>9 DEF e, G, train
  <2> QED BY <1>1, <2>1, <2>2, <2>3
<1> QED BY <1>3, <1>4

-----------------------------------------------------------------------------
(***************************************************************************)
(* What a pass gives.                                                      *)
(***************************************************************************)

\* Quotients do not shrink.
LEMMA QuotientMonotone ==
  ASSUME NEW a \in Int, NEW b \in Int, NEW d \in Nat \ {0}, a <= b
  PROVE  a \div d <= b \div d
<1> DEFINE p == a \div d
           q == b \div d
<1>1. /\ p \in Int /\ p * d <= a /\ p * d \in Int
      /\ q \in Int /\ b < q * d + d /\ q * d \in Int
  <2>1. p \in Int /\ a % d \in 0 .. d - 1 /\ a = p * d + (a % d)
    BY Quotient
  <2>2. q \in Int /\ b % d \in 0 .. d - 1 /\ b = q * d + (b % d)
    BY Quotient
  <2> HIDE DEF p, q
  <2>3. p * d \in Int /\ q * d \in Int
    BY <2>1, <2>2
  <2> QED BY <2>1, <2>2, <2>3
<1> HIDE DEF p, q
<1>2. ASSUME q < p PROVE FALSE
  <2>1. q * d + d <= p * d
    BY <1>1, <1>2, NextMultiple
  <2> QED BY <1>1, <2>1
<1>3. p <= q
  BY <1>1, <1>2
<1> QED BY <1>3 DEF p, q

\* Sums and differences of multiples are multiples.
LEMMA Multiples ==
  ASSUME NEW a \in Int, NEW b \in Int, NEW d \in Nat \ {0}, a % d = 0, b % d = 0
  PROVE  (a + b) % d = 0 /\ (a - b) % d = 0
<1> DEFINE p == a \div d
           q == b \div d
<1>1. p \in Int /\ q \in Int /\ a = p * d /\ b = q * d
  <2>1. p \in Int /\ a = p * d + (a % d)
    BY Quotient
  <2>2. q \in Int /\ b = q * d + (b % d)
    BY Quotient
  <2> HIDE DEF p, q
  <2>3. p * d \in Int /\ q * d \in Int
    BY <2>1, <2>2
  <2> QED BY <2>1, <2>2, <2>3
<1> HIDE DEF p, q
<1>2. /\ p + q \in Int /\ a + b = (p + q) * d + 0
      /\ p - q \in Int /\ a - b = (p - q) * d + 0
  BY <1>1
<1>3. 0 \in 0 .. d - 1
  OBVIOUS
<1>4. ((p + q) * d + 0) % d = 0 /\ ((p - q) * d + 0) % d = 0
  BY <1>2, <1>3, ExactQuotient
<1> QED BY <1>2, <1>4

\* The microbatches of a list of samples of S are of samples of S.
LEMMA MicrobatchesGiven ==
  ASSUME NEW S, NEW s, NEW size \in Nat \ {0}, Len(s) \in Nat, \A i \in 1 .. Len(s) : s[i] \in S
  PROVE  /\ Microbatches(s, size) \in Seq([1 .. size -> S])
         /\ Len(Microbatches(s, size)) = Len(s) \div size
<1> DEFINE n == Len(s)
           q == n \div size
           mb(k) == [i \in 1 .. size |-> s[(k - 1) * size + i]]
<1>1. n \in Nat /\ \A i \in 1 .. n : s[i] \in S
  OBVIOUS
<1>2. Microbatches(s, size) = [k \in 1 .. q |-> mb(k)]
  BY DEF Microbatches
<1> HIDE DEF n
<1>3. q \in Nat /\ q * size <= n /\ q * size \in Nat
  <2>1. q \in Nat
    BY <1>1, QuotientOfNat
  <2>2. n % size \in 0 .. size - 1 /\ n = q * size + (n % size)
    BY <1>1, Quotient
  <2> HIDE DEF q
  <2>3. q * size \in Nat
    BY <2>1
  <2> QED BY <1>1, <2>1, <2>2, <2>3
<1> HIDE DEF q
<1>4. ASSUME NEW k \in 1 .. q
      PROVE  mb(k) \in [1 .. size -> S]
  <2>1. (k - 1) * size \in Nat /\ (k - 1) * size + size <= q * size
    <3>1. k - 1 \in Nat /\ k - 1 < q /\ k - 1 \in Int /\ q \in Int
      BY <1>3
    <3>2. (k - 1) * size + size <= q * size
      BY <3>1, NextMultiple
    <3> QED BY <3>1, <3>2
  <2> DEFINE a == (k - 1) * size
  <2>2. ASSUME NEW i \in 1 .. size
        PROVE  s[a + i] \in S
    <3>1. a + i \in 1 .. n
      <4> HIDE DEF a
      <4>1. a \in Nat /\ a + size <= n
        BY <1>1, <1>3, <2>1 DEF a
      <4> QED BY <1>1, <4>1
    <3> QED BY <1>1, <3>1
  <2> QED BY <2>2
<1> HIDE DEF mb
<1>5. [k \in 1 .. q |-> mb(k)] \in Seq([1 .. size -> S]) /\ Len([k \in 1 .. q |-> mb(k)]) = q
  BY <1>3, <1>4
<1> QED BY <1>2, <1>5 DEF q, n

\* A sequential pass is of samples of the job, one microbatch for every
\* round that is left.
LEMMA SequentialGiven ==
  ASSUME NEW l \in Layout, NEW rank \in 0 .. l.data_parallel_size - 1,
         job.total_samples \in Nat, NEW c \in 0 .. job.total_samples
  PROVE  /\ Sequential(l, rank, c) \in Seq([1 .. l.micro_batch_size -> 0 .. job.total_samples - 1])
         /\ Len(Sequential(l, rank, c)) = (job.total_samples - c) \div Round(l)
<1> DEFINE micro == l.micro_batch_size
           dp == l.data_parallel_size
           round == Round(l)
           total == job.total_samples
           left == total - c
           q == left \div round
           mb(k) == [i \in 1 .. micro |-> c + (k - 1) * round + rank * micro + i - 1]
<1>1. micro \in Nat \ {0} /\ dp \in Nat \ {0} /\ round = dp * micro /\ round \in Nat \ {0}
  BY RoundShape
<1>2. left \in Nat /\ total \in Nat /\ c \in Nat /\ total = c + left /\ rank \in 0 .. dp - 1
  OBVIOUS
<1>3. Sequential(l, rank, c) = [k \in 1 .. q |-> mb(k)]
  BY DEF Sequential
<1> HIDE DEF micro, dp, round, total, left
<1>4. q \in Nat /\ q * round <= left /\ q * round \in Nat
  <2>1. q \in Nat
    BY <1>1, <1>2, QuotientOfNat
  <2>2. left % round \in 0 .. round - 1 /\ left = q * round + (left % round)
    <3>1. left \in Int
      BY <1>2
    <3> QED BY <1>1, <3>1, Quotient
  <2> HIDE DEF q
  <2>3. q * round \in Nat
    BY <1>1, <2>1
  <2> QED BY <1>1, <1>2, <2>1, <2>2, <2>3
<1> HIDE DEF q
<1>5. ASSUME NEW k \in 1 .. q
      PROVE  mb(k) \in [1 .. micro -> 0 .. total - 1]
  <2> DEFINE a == (k - 1) * round
  <2>1. a \in Nat /\ a + round <= q * round
    <3>1. k - 1 \in Nat /\ k - 1 < q /\ k - 1 \in Int /\ q \in Int
      BY <1>4
    <3>2. (k - 1) * round + round <= q * round
      BY <1>1, <3>1, NextMultiple
    <3> QED BY <1>1, <3>1, <3>2
  <2>2. ASSUME NEW i \in 1 .. micro
        PROVE  c + a + rank * micro + i - 1 \in 0 .. total - 1
    <3>1. rank * micro + (i - 1) \in 0 .. dp * micro - 1
      <4>1. i - 1 \in 0 .. micro - 1
        BY <1>1
      <4> QED BY <1>1, <1>2, <4>1, DigitsBound
    <3>2. rank * micro \in Int
      BY <1>1, <1>2
    <3> HIDE DEF a
    <3> QED BY <1>1, <1>2, <1>4, <2>1, <3>1, <3>2
  <2> QED BY <2>2
<1> HIDE DEF mb
<1>6. /\ [k \in 1 .. q |-> mb(k)] \in Seq([1 .. micro -> 0 .. total - 1])
      /\ Len([k \in 1 .. q |-> mb(k)]) = q
  BY <1>4, <1>5
<1> QED BY <1>3, <1>6 DEF q, left, total, round, micro

\* What a random order of the data is made of: whole rounds, in buckets of
\* the ranks or in one.
LEMMA ActiveFacts ==
  ASSUME job \in Jobs, job.dataloader_type = "cyclic", NEW l \in job.layouts
  PROVE  LET rounds == job.total_samples \div Round(l)
         IN /\ rounds \in Nat \ {0} /\ ActiveSamples(job, l) = rounds * Round(l)
            /\ ActiveSamples(job, l) \in Nat \ {0}
            /\ BucketSize(job, l) = IF job.data_sharding THEN rounds * l.micro_batch_size
                                    ELSE rounds * Round(l)
<1> DEFINE micro == l.micro_batch_size
           dp == l.data_parallel_size
           round == Round(l)
           total == job.total_samples
           rounds == total \div round
<1>1. /\ micro \in Nat \ {0} /\ dp \in Nat \ {0} /\ round = dp * micro /\ round \in Nat \ {0}
      /\ total \in Nat /\ round <= total
      /\ job.data_sharding \/ total % round = 0
  BY JobFacts, RoundShape
<1>2. /\ ActiveSamples(job, l) = total - (total % round)
      /\ BucketSize(job, l) = IF job.data_sharding THEN rounds * micro
                              ELSE (total \div micro) * micro
  BY DEF ActiveSamples, BucketSize
<1> HIDE DEF micro, dp, round, total
<1>3. total % round \in 0 .. round - 1 /\ total = rounds * round + (total % round)
      /\ rounds \in Nat
  <2>1. total \in Int
    BY <1>1
  <2>2. total % round \in 0 .. round - 1 /\ total = rounds * round + (total % round)
    BY <1>1, <2>1, Quotient
  <2>3. rounds \in Nat
    BY <1>1, QuotientOfNat
  <2> QED BY <2>2, <2>3
<1> HIDE DEF rounds
<1>4. rounds * round \in Nat /\ rounds # 0
  <2>1. rounds * round \in Nat
    BY <1>1, <1>3
  <2> QED BY <1>1, <1>3, <2>1
<1>5. total - (total % round) = rounds * round /\ rounds * round # 0
  BY <1>1, <1>3, <1>4
<1>6. ASSUME ~ job.data_sharding
      PROVE  (total \div micro) * micro = rounds * round
  <2> DEFINE n == rounds * dp
  <2>1. n \in Int /\ n * micro = rounds * round /\ total = rounds * round
    BY <1>1, <1>3, <1>4, <1>6
  <2> HIDE DEF n
  <2>2. 0 \in 0 .. micro - 1 /\ n * micro + 0 = n * micro
    BY <1>1, <2>1
  <2>3. (n * micro + 0) \div micro = n
    BY <1>1, <2>1, <2>2, ExactQuotient
  <2> QED BY <2>1, <2>2, <2>3
<1> QED BY <1>2, <1>3, <1>4, <1>5, <1>6 DEF rounds, round, total, micro

\* Where a count that is a number of rounds stands in its epoch.
LEMMA EpochPlace ==
  ASSUME job \in Jobs, job.dataloader_type = "cyclic", NEW l \in job.layouts,
         NEW c \in Nat, c % Round(l) = 0
  PROVE  LET active == ActiveSamples(job, l)
             rounds == job.total_samples \div Round(l)
             current == c % active
         IN /\ c <= job.train_samples => c \div active \in 0 .. job.train_samples \div active
            /\ current % Round(l) = 0
            /\ \E m \in 0 .. rounds - 1 : current = m * Round(l)
<1> DEFINE active == ActiveSamples(job, l)
           round == Round(l)
           rounds == job.total_samples \div round
           current == c % active
           e == c \div active
<1>1. /\ rounds \in Nat \ {0} /\ active = rounds * round /\ active \in Nat \ {0}
      /\ round \in Nat \ {0} /\ job.train_samples \in Nat
  BY ActiveFacts, JobFacts, RoundShape
<1>2. c \in Nat /\ c % round = 0
  BY <1>1
<1> HIDE DEF active, round, rounds
<1>3. e \in Nat /\ (c <= job.train_samples => e <= job.train_samples \div active)
  BY <1>1, <1>2, QuotientMonotone, QuotientOfNat
<1>4. current \in 0 .. active - 1 /\ c = e * active + current
  <2>1. c \in Int
    BY <1>2
  <2> QED BY <1>1, <2>1, Quotient
<1>5. job.train_samples \div active \in Nat
  BY <1>1, QuotientOfNat
<1> HIDE DEF current, e
<1>6. e * active = (e * rounds) * round + 0 /\ e * rounds \in Int /\ e * active \in Int
      /\ 0 \in 0 .. round - 1
  BY <1>1, <1>3
<1>7. (e * active) % round = 0
  <2> DEFINE n == e * rounds
  <2> HIDE DEF n
  <2>1. n \in Int /\ round \in Nat \ {0} /\ 0 \in 0 .. round - 1 /\ e * active = n * round + 0
    BY <1>1, <1>6 DEF n
  <2>2. (n * round + 0) % round = 0
    BY ONLY <2>1, ExactQuotient
  <2> QED BY <2>1, <2>2
<1>8. current % round = 0
  <2> DEFINE x == e * active
  <2>1. c \in Int /\ x \in Int /\ x % round = 0 /\ c % round = 0 /\ round \in Nat \ {0}
        /\ current = c - x
    BY <1>1, <1>2, <1>4, <1>6, <1>7
  <2> HIDE DEF x
  <2>2. (c - x) % round = 0
    BY ONLY <2>1, Multiples
  <2> QED BY <2>1, <2>2
<1>9. current \div round \in 0 .. rounds - 1 /\ current = (current \div round) * round
  <2>1. current \in 0 .. rounds * round - 1 /\ rounds \in Nat \ {0} /\ round \in Nat \ {0}
    BY <1>1, <1>4
  <2>2. /\ current \div round \in 0 .. rounds - 1
        /\ current = (current \div round) * round + (current % round)
    BY ONLY <2>1, Digits
  <2> DEFINE m == current \div round
  <2> HIDE DEF m
  <2>3. m * round \in Int
    BY <1>1, <2>2 DEF m
  <2> QED BY <1>8, <2>2, <2>3 DEF m
<1> QED BY <1>3, <1>5, <1>8, <1>9 DEF e, current, rounds, round, active

\* The lists a rank cuts of a random order p.
ShardedList(rank, bucket, offset, p) ==
  [i \in 1 .. bucket - offset |-> rank * bucket + p[offset + i]]
StridedList(rank, dp, bucket, current, p) ==
  [i \in 1 .. (bucket - current - rank + dp - 1) \div dp |->
     p[current + rank + (i - 1) * dp + 1]]
IsListOf(list, n, S) == Len(list) = n /\ n \in Nat /\ \A i \in 1 .. Len(list) : list[i] \in S

\* The list a rank cuts of a random order with buckets: what the bucket
\* has left after m rounds.
LEMMA ShardedGiven ==
  ASSUME NEW micro \in Nat \ {0}, NEW dp \in Nat \ {0}, NEW rounds \in Nat,
         NEW m \in 0 .. rounds - 1, NEW rank \in 0 .. dp - 1, NEW bucket, bucket = rounds * micro,
         NEW p \in [1 .. bucket -> 0 .. bucket - 1], NEW offset, offset = (m * (dp * micro)) \div dp
  PROVE  IsListOf(ShardedList(rank, bucket, offset, p), (rounds - m) * micro, 0 .. dp * bucket - 1)
<1> DEFINE list == [i \in 1 .. bucket - offset |-> rank * bucket + p[offset + i]]
<1>1. offset = m * micro
  <2>1. m * micro \in Int /\ m * (dp * micro) = (m * micro) * dp + 0 /\ 0 \in 0 .. dp - 1
    OBVIOUS
  <2>2. ((m * micro) * dp + 0) \div dp = m * micro
    BY <2>1, ExactQuotient
  <2> QED BY <2>1, <2>2
<1>2. /\ offset \in Nat /\ bucket \in Nat \ {0} /\ bucket - offset = (rounds - m) * micro
      /\ (rounds - m) * micro \in Nat
  <2>1. rounds \in Nat \ {0} /\ m \in Nat /\ rounds - m \in Nat
    OBVIOUS
  <2>2. (rounds - m) * micro = rounds * micro - m * micro /\ rounds * micro \in Nat \ {0}
        /\ m * micro \in Nat /\ (rounds - m) * micro \in Nat
    BY <2>1
  <2> QED BY <1>1, <2>2
<1>3. ASSUME NEW i \in 1 .. bucket - offset
      PROVE  rank * bucket + p[offset + i] \in 0 .. dp * bucket - 1
  <2>1. offset + i \in 1 .. bucket
    BY <1>2
  <2>2. p[offset + i] \in 0 .. bucket - 1
    BY <2>1
  <2> QED BY <1>2, <2>2, DigitsBound
<1>4. bucket - offset \in Nat
  BY <1>2
<1>5. Len(list) = bucket - offset
  BY <1>4
<1>6. \A i \in 1 .. Len(list) : list[i] \in 0 .. dp * bucket - 1
  BY <1>3, <1>5
<1> QED BY <1>2, <1>5, <1>6 DEF IsListOf, ShardedList

\* The list a rank cuts of a random order of all: every dp-th sample of
\* what is left after m rounds.
LEMMA StridedGiven ==
  ASSUME NEW micro \in Nat \ {0}, NEW dp \in Nat \ {0}, NEW rounds \in Nat,
         NEW m \in 0 .. rounds - 1, NEW rank \in 0 .. dp - 1,
         NEW bucket, bucket = rounds * (dp * micro),
         NEW p \in [1 .. bucket -> 0 .. bucket - 1], NEW current, current = m * (dp * micro)
  PROVE  IsListOf(StridedList(rank, dp, bucket, current, p), (rounds - m) * micro, 0 .. bucket - 1)
<1> DEFINE n == (rounds - m) * micro
           q == (bucket - current - rank + dp - 1) \div dp
           y == dp - 1 - rank
           list == [i \in 1 .. q |-> p[current + rank + (i - 1) * dp + 1]]
<1>1. /\ n \in Nat /\ bucket \in Nat /\ current \in Nat /\ bucket - current = n * dp
      /\ y \in 0 .. dp - 1 /\ rank \in Nat
  <2>1. rounds - m \in Nat /\ m \in Nat
    OBVIOUS
  <2>2. n \in Nat /\ n * dp = rounds * (dp * micro) - m * (dp * micro)
        /\ rounds * (dp * micro) \in Nat /\ m * (dp * micro) \in Nat
    BY <2>1
  <2> QED BY <2>2
<1> HIDE DEF n, y
<1>2. q = n
  <2>1. n * dp \in Int /\ bucket - current - rank + dp - 1 = n * dp + y
    BY <1>1 DEF y
  <2>2. n \in Int /\ y \in 0 .. dp - 1 /\ dp \in Nat \ {0}
    BY <1>1
  <2>3. (n * dp + y) \div dp = n
    BY ONLY <2>2, ExactQuotient
  <2> QED BY <2>1, <2>3
<1> HIDE DEF q
<1>3. ASSUME NEW i \in 1 .. q
      PROVE  p[current + rank + (i - 1) * dp + 1] \in 0 .. bucket - 1
  <2> DEFINE a == (i - 1) * dp
  <2>1. a \in Nat /\ a + dp <= n * dp /\ n * dp \in Nat
    <3>1. i - 1 \in Nat /\ i - 1 < n /\ i - 1 \in Int /\ n \in Int
      BY <1>1, <1>2
    <3>2. (i - 1) * dp + dp <= n * dp
      BY <3>1, NextMultiple
    <3> QED BY <1>1, <3>1, <3>2
  <2> HIDE DEF a
  <2>2. current + rank + a + 1 \in 1 .. bucket
    BY SMTT(60), <1>1, <2>1
  <2>3. p[current + rank + a + 1] \in 0 .. bucket - 1
    BY <2>2
  <2> QED BY <2>3 DEF a
<1>4. Len(list) = q /\ q \in Nat
  BY <1>1, <1>2
<1>5. \A i \in 1 .. Len(list) : list[i] \in 0 .. bucket - 1
  BY <1>3, <1>4
<1> QED BY <1>1, <1>2, <1>4, <1>5 DEF n, q, IsListOf, StridedList

\* A pass in random order is of samples of the job, and never empty.
LEMMA RandomGiven ==
  ASSUME job \in Jobs, job.dataloader_type = "cyclic", permutation \in job.permutations,
         NEW l \in job.layouts, NEW rank \in 0 .. l.data_parallel_size - 1,
         NEW c \in 0 .. job.train_samples, c % Round(l) = 0
  PROVE  /\ Random(l, rank, c) \in
              Seq([1 .. l.micro_batch_size -> 0 .. ActiveSamples(job, l) - 1])
         /\ Len(Random(l, rank, c)) > 0
<1> DEFINE micro == l.micro_batch_size
           dp == l.data_parallel_size
           rounds == job.total_samples \div Round(l)
           active == ActiveSamples(job, l)
           bucket == BucketSize(job, l)
           current == c % active
           p == permutation[c \div active]
           offset == BucketOffset(l, current)
           sharded == ShardedList(rank, bucket, offset, p)
           strided == StridedList(rank, dp, bucket, current, p)
           list == IF job.data_sharding THEN sharded ELSE strided
<1>1. /\ micro \in Nat \ {0} /\ dp \in Nat \ {0} /\ Round(l) = dp * micro
      /\ rounds \in Nat \ {0} /\ active = rounds * Round(l) /\ active \in Nat
      /\ bucket = IF job.data_sharding THEN rounds * micro ELSE rounds * Round(l)
  BY ActiveFacts, JobFacts, RoundShape
<1>2. PICK m \in 0 .. rounds - 1 : current = m * Round(l)
  BY JobFacts, EpochPlace
<1>3. p \in [1 .. bucket -> 0 .. bucket - 1]
  <2>1. c \div active \in 0 .. job.train_samples \div active
    BY JobFacts, EpochPlace
  <2>2. p \in Bijection(1 .. bucket, 0 .. bucket - 1)
    BY <2>1, PermutationsAssumption
  <2> HIDE DEF p, bucket
  <2> QED BY <2>2 DEF Bijection, Injection
<1>4. Random(l, rank, c) = Microbatches(list, micro)
  BY DEF Random, ShardedList, StridedList
<1>5. offset = current \div dp
  BY DEF BucketOffset
<1>6. rank \in 0 .. dp - 1
  OBVIOUS
<1> HIDE DEF micro, dp, rounds, active, bucket, current, p, offset
<1>7. ASSUME job.data_sharding
      PROVE  IsListOf(sharded, (rounds - m) * micro, 0 .. active - 1)
  <2>1. bucket = rounds * micro /\ offset = (m * (dp * micro)) \div dp /\ dp * bucket = active
    BY <1>1, <1>2, <1>5, <1>7
  <2>2. micro \in Nat \ {0} /\ dp \in Nat \ {0} /\ rounds \in Nat
    BY <1>1
  <2>3. IsListOf(sharded, (rounds - m) * micro, 0 .. dp * bucket - 1)
    BY ONLY <1>2, <1>3, <1>6, <2>1, <2>2, ShardedGiven
  <2> QED BY <2>1, <2>3
<1>8. ASSUME ~ job.data_sharding
      PROVE  IsListOf(strided, (rounds - m) * micro, 0 .. active - 1)
  <2>1. bucket = rounds * (dp * micro) /\ current = m * (dp * micro) /\ bucket = active
    BY <1>1, <1>2, <1>8
  <2>2. micro \in Nat \ {0} /\ dp \in Nat \ {0} /\ rounds \in Nat
    BY <1>1
  <2>3. IsListOf(strided, (rounds - m) * micro, 0 .. bucket - 1)
    BY ONLY <1>2, <1>3, <1>6, <2>1, <2>2, StridedGiven
  <2> QED BY <2>1, <2>3
<1>9. list = IF job.data_sharding THEN sharded ELSE strided
  OBVIOUS
<1> HIDE DEF list, sharded, strided
<1>10. /\ Len(list) = (rounds - m) * micro /\ (rounds - m) * micro \in Nat
       /\ \A i \in 1 .. Len(list) : list[i] \in 0 .. active - 1
  BY <1>7, <1>8, <1>9 DEF IsListOf
<1>11. /\ Microbatches(list, micro) \in Seq([1 .. micro -> 0 .. active - 1])
       /\ Len(Microbatches(list, micro)) = ((rounds - m) * micro) \div micro
  <2>1. micro \in Nat \ {0} /\ Len(list) \in Nat
    BY <1>1, <1>10
  <2> DEFINE S == 0 .. active - 1
  <2>2. \A i \in 1 .. Len(list) : list[i] \in S
    BY <1>10
  <2> HIDE DEF S
  <2>3. /\ Microbatches(list, micro) \in Seq([1 .. micro -> S])
        /\ Len(Microbatches(list, micro)) = Len(list) \div micro
    BY ONLY <2>1, <2>2, MicrobatchesGiven
  <2> QED BY <1>10, <2>3 DEF S
<1>12. ((rounds - m) * micro) \div micro = rounds - m /\ rounds - m > 0
  <2> DEFINE n == rounds - m
  <2>1. n \in Int /\ n > 0 /\ micro \in Nat \ {0} /\ 0 \in 0 .. micro - 1
    BY <1>1
  <2> HIDE DEF n
  <2>2. (n * micro + 0) \div micro = n
    BY ONLY <2>1, ExactQuotient
  <2>3. n * micro + 0 = n * micro
    BY <2>1
  <2> QED BY <2>1, <2>2, <2>3 DEF n
<1> QED BY <1>4, <1>11, <1>12 DEF list, sharded, strided, micro, active

-----------------------------------------------------------------------------
(***************************************************************************)
(* Every step of a job.                                                    *)
(***************************************************************************)

\* The microbatches for layout l.
UsableBy(l) == IF job.dataloader_type = "single" THEN 0 .. job.total_samples - 1
               ELSE 0 .. ActiveSamples(job, l) - 1
Given(l) == [1 .. l.micro_batch_size -> UsableBy(l)]

\* A pass gives microbatches of its layout; one in order as many as there
\* are rounds left, one in random order some.
LEMMA PassGiven ==
  ASSUME job \in Jobs, permutation \in job.permutations,
         NEW l \in job.layouts, NEW rank \in 0 .. l.data_parallel_size - 1,
         NEW c \in 0 .. job.train_samples, c % Round(l) = 0
  PROVE  /\ Pass(l, rank, c) \in Seq(Given(l))
         /\ job.dataloader_type = "single" =>
              Len(Pass(l, rank, c)) = (job.total_samples - c) \div Round(l)
         /\ job.dataloader_type = "cyclic" => Len(Pass(l, rank, c)) > 0
<1>1. CASE job.dataloader_type = "single"
  <2>1. /\ l \in Layout /\ job.total_samples \in Nat /\ c \in 0 .. job.total_samples
        /\ job.dataloader_type # "cyclic"
    BY <1>1, JobFacts
  <2>2. /\ Sequential(l, rank, c) \in Seq([1 .. l.micro_batch_size -> 0 .. job.total_samples - 1])
        /\ Len(Sequential(l, rank, c)) = (job.total_samples - c) \div Round(l)
    BY <2>1, SequentialGiven
  <2> QED BY <1>1, <2>1, <2>2 DEF Pass, Given, UsableBy
<1>2. CASE job.dataloader_type = "cyclic"
  <2>1. /\ Random(l, rank, c) \in
             Seq([1 .. l.micro_batch_size -> 0 .. ActiveSamples(job, l) - 1])
        /\ Len(Random(l, rank, c)) > 0
    BY <1>2, RandomGiven
  <2> QED BY <1>2, <2>1 DEF Pass, Given, UsableBy
<1> QED BY <1>1, <1>2, JobFacts

\* The parts of the invariant: the variables that are not of a loader, ...
Typing ==
  /\ job \in Jobs /\ permutation \in job.permutations /\ layout \in job.layouts
  /\ phase \in {"train", "down", "done"}
  /\ restarts \in 0 .. MaxRestarts /\ (phase = "down" => restarts < MaxRestarts)

\* ... the schedule of iterations and samples, which the job keeps and so
\* does its checkpoint, ...
OnSchedule(it, c) ==
  /\ it \in 0 .. TrainIters(job) /\ c \in 0 .. job.train_samples
  /\ Schedule(job, it, c)
  /\ \A l \in job.layouts : c % Round(l) = 0
AccountsInv ==
  /\ OnSchedule(iteration, consumed_train_samples)
  /\ OnSchedule(checkpoint.iteration, checkpoint.consumed_train_samples)
  /\ phase = "done" => iteration = TrainIters(job)

\* ... the history, ...
DrawnInv ==
  /\ \E n \in Nat : drawn = [i \in 1 .. n |-> drawn[i]]
  /\ iteration <= Len(drawn) /\ checkpoint.iteration <= Len(drawn)

\* ... and a loader: where its sampler stands, or what its pass still has.
LoaderAt(d) ==
  /\ taken[d] \in Seq(Given(layout)) /\ queue[d] \in Seq(Given(layout))
  /\ Len(taken[d]) <= NumMicrobatches
  /\ job.dataloader_type = "cyclic" =>
       sampler[d] = consumed_train_samples + Len(taken[d]) * Round(layout)
  /\ job.dataloader_type = "single" =>
       Len(queue[d]) + Len(taken[d]) = (job.total_samples - consumed_train_samples) \div Round(layout)
LoadersInv ==
  /\ DOMAIN sampler = Loaders(layout) /\ DOMAIN queue = Loaders(layout)
  /\ DOMAIN taken = Loaders(layout)
  /\ \A d \in Loaders(layout) : LoaderAt(d)

IInv == Typing /\ AccountsInv /\ DrawnInv /\ LoadersInv

\* The layout of this launch.
LEMMA LayoutFacts ==
  ASSUME Typing, NEW l \in job.layouts
  PROVE  /\ l \in Layout /\ Round(l) \in Nat \ {0} /\ Round(l) <= job.total_samples
         /\ l.micro_batch_size \in Nat \ {0}
         /\ \A d \in Loaders(l) : d[1] \in 0 .. l.data_parallel_size - 1
<1>1. l \in Layout /\ Round(l) <= job.total_samples
  BY JobFacts DEF Typing
<1> QED BY <1>1, RoundShape DEF Loaders

\* A batch is whole microbatches for every rank, and the samples for it
\* are there while there are iterations to go.
LEMMA NextBatch ==
  ASSUME Typing, OnSchedule(iteration, consumed_train_samples), iteration < TrainIters(job)
  PROVE  /\ NumMicrobatches \in Nat
         /\ NumMicrobatches * Round(layout) = GlobalBatchSize(job, consumed_train_samples)
         /\ consumed_train_samples + NumMicrobatches * Round(layout) \in 0 .. job.train_samples
         /\ OnSchedule(iteration + 1, consumed_train_samples + NumMicrobatches * Round(layout))
<1> DEFINE c == consumed_train_samples
           g == GlobalBatchSize(job, c)
           round == Round(layout)
           n == NumMicrobatches
<1>1. /\ job \in Jobs /\ c \in 0 .. job.train_samples /\ c \in Nat /\ iteration \in Nat
      /\ Schedule(job, iteration, c) /\ \A l \in job.layouts : c % Round(l) = 0
      /\ layout \in job.layouts /\ job.train_samples \in Nat
  BY JobFacts DEF Typing, OnSchedule
<1>2. g \in Nat /\ round \in Nat \ {0}
  BY <1>1, BatchSizes, JobFacts, LayoutFacts
<1>3. \A l \in job.layouts : g % Round(l) = 0
  BY <1>1, JobFacts
<1>4. n = g \div round
  BY DEF NumMicrobatches
<1>5. c + g <= job.train_samples /\ Schedule(job, iteration + 1, c + g)
  BY <1>1, ScheduleGoesOn
<1> HIDE DEF c, g, round, n
<1>6. n \in Nat /\ n * round = g
  <2>1. g \in Int /\ g % round = 0
    BY <1>1, <1>2, <1>3 DEF round
  <2>2. g \div round \in Int /\ g = (g \div round) * round + (g % round)
    BY ONLY <1>2, <2>1, Quotient
  <2>3. n \in Nat
    BY <1>2, <1>4, QuotientOfNat
  <2>4. n * round \in Int
    BY <1>2, <2>3
  <2> QED BY <1>4, <2>1, <2>2, <2>3, <2>4
<1>7. \A l \in job.layouts : (c + g) % Round(l) = 0
  <2> TAKE l \in job.layouts
  <2> DEFINE m == Round(l)
  <2>1. m \in Nat \ {0} /\ c % m = 0 /\ g % m = 0 /\ c \in Int /\ g \in Int
    BY <1>1, <1>2, <1>3, LayoutFacts
  <2> HIDE DEF m
  <2>2. (c + g) % m = 0
    BY ONLY <2>1, Multiples
  <2> QED BY <2>2 DEF m
<1>8. c + g \in 0 .. job.train_samples
  BY <1>1, <1>2, <1>5
<1>9. iteration + 1 \in 0 .. TrainIters(job)
  BY <1>1, ScheduleStarts DEF OnSchedule
<1>10. OnSchedule(iteration + 1, c + g)
  BY <1>5, <1>7, <1>8, <1>9 DEF OnSchedule
<1>11. n * round = g /\ n \in Nat /\ c + n * round \in 0 .. job.train_samples
       /\ OnSchedule(iteration + 1, c + n * round)
  BY <1>6, <1>8, <1>10
<1> QED BY <1>11 DEF c, g, round, n

\* The count a loader has reached within the batch.
LEMMA CountReached ==
  ASSUME Typing, OnSchedule(iteration, consumed_train_samples), iteration < TrainIters(job),
         NEW k \in 0 .. NumMicrobatches
  PROVE  LET count == consumed_train_samples + k * Round(layout)
         IN count \in 0 .. job.train_samples /\ count % Round(layout) = 0
<1> DEFINE c == consumed_train_samples
           round == Round(layout)
           n == NumMicrobatches
<1>1. /\ c \in Nat /\ c % round = 0 /\ round \in Nat \ {0} /\ job.train_samples \in Nat
  BY JobFacts, LayoutFacts DEF Typing, OnSchedule
<1>2. n \in Nat /\ c + n * round <= job.train_samples
  <2>1. n \in Nat /\ c + n * round \in 0 .. job.train_samples
    BY NextBatch
  <2> QED BY <2>1
<1>3. k \in Nat /\ k <= n
  BY <1>2
<1> HIDE DEF c, round, n
<1>4. k * round \in Nat /\ k * round <= n * round /\ n * round \in Nat
  <2>1. CASE k = n
    BY <1>1, <1>2, <2>1
  <2>2. CASE k < n
    <3>1. k * round + round <= n * round
      BY <1>1, <1>2, <1>3, <2>2, NextMultiple
    <3>2. k * round \in Nat /\ n * round \in Nat
      BY <1>1, <1>2, <1>3
    <3> QED BY <1>1, <3>1, <3>2
  <2> QED BY <1>2, <1>3, <2>1, <2>2
<1>5. (k * round + 0) % round = 0
  <2>1. 0 \in 0 .. round - 1 /\ k \in Int
    BY <1>1, <1>3
  <2> QED BY ONLY <1>1, <2>1, ExactQuotient
<1>6. (c + k * round) % round = 0
  <2> DEFINE x == k * round
  <2>1. c \in Int /\ x \in Int /\ x % round = 0 /\ c % round = 0 /\ round \in Nat \ {0}
    <3>1. k * round + 0 = k * round
      BY <1>4
    <3> QED BY <1>1, <1>4, <1>5, <3>1
  <2> HIDE DEF x
  <2>2. (c + x) % round = 0
    BY ONLY <2>1, Multiples
  <2> QED BY <2>2 DEF x
<1>7. c + k * round \in 0 .. job.train_samples
  BY <1>1, <1>2, <1>4
<1> QED BY <1>6, <1>7 DEF c, round

\* Loaders built for a layout at a count that is on schedule.
LEMMA IteratorsBuilt ==
  ASSUME Typing, NEW l \in job.layouts, NEW it, NEW c, OnSchedule(it, c),
         job' = job, permutation' = permutation, consumed_train_samples' = c,
         BuildIterators(l, c)
  PROVE  LoadersInv'
<1>1. /\ job \in Jobs /\ permutation \in job.permutations
      /\ c \in 0 .. job.train_samples /\ c % Round(l) = 0 /\ c \in Nat
      /\ layout' = l
      /\ sampler' = [d \in Loaders(l) |-> c]
      /\ queue' = [d \in Loaders(l) |-> Pass(l, d[1], c)]
      /\ taken' = [d \in Loaders(l) |-> <<>>]
      /\ l \in Layout /\ Round(l) \in Nat \ {0} /\ Round(l) <= job.total_samples
  BY LayoutFacts, JobFacts DEF Typing, OnSchedule, BuildIterators
<1>2. (NumMicrobatches \in Nat)'
  <2>1. GlobalBatchSize(job, c) \in Nat
    BY <1>1, BatchSizes, JobFacts
  <2>2. GlobalBatchSize(job, c) \div Round(l) \in Nat
    BY <1>1, <2>1, QuotientOfNat
  <2> QED BY <1>1, <2>2 DEF NumMicrobatches
<1>3. Given(layout)' = Given(l)
  BY <1>1 DEF Given, UsableBy
<1>4. ASSUME NEW d \in Loaders(l)
      PROVE  LoaderAt(d)'
  <2>1. d[1] \in 0 .. l.data_parallel_size - 1
    BY <1>1, LayoutFacts
  <2>2. /\ Pass(l, d[1], c) \in Seq(Given(l))
        /\ job.dataloader_type = "single" =>
             Len(Pass(l, d[1], c)) = (job.total_samples - c) \div Round(l)
    BY <1>1, <2>1, PassGiven
  <2>3. sampler'[d] = c /\ queue'[d] = Pass(l, d[1], c) /\ taken'[d] = <<>>
    BY <1>1
  <2>4. (taken[d] \in Seq(Given(layout)))' /\ (Len(taken[d]) = 0)' /\ (queue[d] \in Seq(Given(layout)))'
    BY <1>3, <2>2, <2>3
  <2>5. (Len(taken[d]) <= NumMicrobatches)'
    BY <1>2, <2>4
  <2>6. (Len(taken[d]) * Round(layout) = 0)' /\ Round(layout)' = Round(l)
    BY <1>1, <2>4
  <2>7. (sampler[d] = consumed_train_samples + Len(taken[d]) * Round(layout))'
    BY <1>1, <2>3, <2>6
  <2>8. (job.dataloader_type = "single" =>
           Len(queue[d]) + Len(taken[d]) = (job.total_samples - consumed_train_samples) \div Round(layout))'
    <3> SUFFICES ASSUME job.dataloader_type = "single"
                 PROVE  (Len(queue[d]) + Len(taken[d]) =
                           (job.total_samples - consumed_train_samples) \div Round(layout))'
      BY <1>1
    <3>1. Len(queue'[d]) = (job.total_samples - c) \div Round(l) /\ Len(queue'[d]) \in Nat
      BY <2>2, <2>3
    <3> QED BY <1>1, <2>4, <2>6, <3>1
  <2> QED BY <2>4, <2>5, <2>7, <2>8 DEF LoaderAt
<1> QED BY <1>1, <1>4 DEF LoadersInv

\* Initially.
LEMMA InitInv == Init => IInv
<1> SUFFICES ASSUME Init PROVE IInv
  OBVIOUS
<1>1. Typing
  BY MaxRestartsAssumption DEF Init, Typing
<1>2. OnSchedule(0, 0)
  <2>1. TrainIters(job) \in Nat /\ Schedule(job, 0, 0) /\ job.train_samples \in Nat
    BY <1>1, ScheduleStarts, JobFacts DEF Typing
  <2>2. \A l \in job.layouts : 0 % Round(l) = 0
    <3> TAKE l \in job.layouts
    <3>1. Round(l) \in Nat \ {0}
      BY <1>1, LayoutFacts
    <3> QED BY <3>1
  <2> QED BY <2>1, <2>2 DEF OnSchedule
<1>3. AccountsInv
  BY <1>2 DEF Init, AccountsInv
<1>4. DrawnInv
  <2>1. drawn = <<>> /\ <<>> = [i \in 1 .. 0 |-> drawn[i]]
    BY DEF Init
  <2> QED BY <2>1 DEF Init, DrawnInv
<1>5. LoadersInv
  <2>1. /\ job \in Jobs /\ permutation \in job.permutations /\ layout \in job.layouts
        /\ 0 \in 0 .. job.train_samples /\ 0 % Round(layout) = 0
        /\ Round(layout) \in Nat \ {0}
    BY <1>1, <1>2, LayoutFacts DEF Typing, OnSchedule
  <2>2. NumMicrobatches \in Nat
    <3>1. GlobalBatchSize(job, 0) \in Nat
      BY <2>1, BatchSizes, JobFacts
    <3>2. GlobalBatchSize(job, 0) \div Round(layout) \in Nat
      BY <2>1, <3>1, QuotientOfNat
    <3> QED BY <3>2 DEF NumMicrobatches, Init
  <2>3. /\ consumed_train_samples = 0 /\ sampler = [d \in Loaders(layout) |-> 0]
        /\ queue = [d \in Loaders(layout) |-> Pass(layout, d[1], 0)]
        /\ taken = [d \in Loaders(layout) |-> <<>>]
    BY DEF Init
  <2>4. ASSUME NEW d \in Loaders(layout)
        PROVE  LoaderAt(d)
    <3>1. d[1] \in 0 .. layout.data_parallel_size - 1
      BY <1>1, <2>1, LayoutFacts
    <3>2. /\ Pass(layout, d[1], 0) \in Seq(Given(layout))
          /\ job.dataloader_type = "single" =>
               Len(Pass(layout, d[1], 0)) = (job.total_samples - 0) \div Round(layout)
      BY <2>1, <3>1, PassGiven
    <3>3. /\ sampler[d] = 0 /\ queue[d] = Pass(layout, d[1], 0) /\ taken[d] = <<>>
          /\ taken[d] \in Seq(Given(layout)) /\ Len(taken[d]) = 0
          /\ Len(taken[d]) * Round(layout) = 0
      BY <2>1, <2>3
    <3>4. Len(queue[d]) \in Nat
      BY <3>2, <3>3
    <3> QED BY <2>2, <2>3, <3>2, <3>3, <3>4 DEF LoaderAt
  <2> QED BY <2>3, <2>4 DEF LoadersInv
<1> QED BY <1>1, <1>3, <1>4, <1>5 DEF IInv

\* A loader that has not given its share of the batch has a microbatch to
\* give: of this pass, or of the next one.
LEMMA LoaderHas ==
  ASSUME IInv, NEW d \in Loaders(layout),
         iteration < TrainIters(job), Len(taken[d]) < NumMicrobatches
  PROVE  LET left == IF queue[d] = <<>> /\ job.dataloader_type = "cyclic"
                     THEN Pass(layout, d[1], sampler[d]) ELSE queue[d]
         IN /\ left \in Seq(Given(layout)) /\ left # <<>>
            /\ job.dataloader_type = "single" => left = queue[d]
<1> DEFINE left == IF queue[d] = <<>> /\ job.dataloader_type = "cyclic"
                   THEN Pass(layout, d[1], sampler[d]) ELSE queue[d]
           k == Len(taken[d])
           c == consumed_train_samples
           round == Round(layout)
<1>1. /\ Typing /\ OnSchedule(iteration, c) /\ LoaderAt(d)
      /\ job \in Jobs /\ permutation \in job.permutations /\ layout \in job.layouts
  BY DEF IInv, Typing, AccountsInv, LoadersInv
<1>2. k \in Nat /\ round \in Nat \ {0} /\ d[1] \in 0 .. layout.data_parallel_size - 1
  BY <1>1, LayoutFacts DEF LoaderAt
<1>3. /\ NumMicrobatches \in Nat /\ c + NumMicrobatches * round \in 0 .. job.train_samples
      /\ c \in 0 .. job.train_samples
  BY <1>1, NextBatch DEF OnSchedule
<1>4. k \in 0 .. NumMicrobatches
  BY <1>2, <1>3
<1>5. CASE job.dataloader_type = "cyclic"
  <2>1. sampler[d] = c + k * round
    BY <1>1, <1>5 DEF LoaderAt
  <2>2. sampler[d] \in 0 .. job.train_samples /\ sampler[d] % round = 0
    <3> HIDE DEF k
    <3> QED BY <1>1, <1>4, <2>1, CountReached
  <2>3. /\ Pass(layout, d[1], sampler[d]) \in Seq(Given(layout))
        /\ Len(Pass(layout, d[1], sampler[d])) > 0
    BY <1>1, <1>2, <1>5, <2>2, PassGiven
  <2>4. queue[d] \in Seq(Given(layout))
    BY <1>1 DEF LoaderAt
  <2> QED BY <1>5, <2>3, <2>4
<1>6. CASE job.dataloader_type = "single"
  <2>1. /\ left = queue[d] /\ queue[d] \in Seq(Given(layout))
        /\ Len(queue[d]) + k = (job.total_samples - c) \div round
    BY <1>1, <1>6 DEF LoaderAt
  <2>2. job.train_samples <= job.total_samples /\ job.train_samples \in Nat /\ job.total_samples \in Nat
    BY <1>1, <1>6, JobFacts
  <2> DEFINE n == NumMicrobatches
             rest == job.total_samples - c
             q == rest \div round
  <2>3. n * round \in Int /\ n * round <= rest /\ rest \in Int
    <3> HIDE DEF n, round
    <3>1. n \in Nat /\ round \in Nat /\ c \in Nat /\ c + n * round <= job.train_samples
      BY <1>2, <1>3, <2>2 DEF n, round
    <3>2. n * round \in Nat
      BY <3>1
    <3> QED BY <2>2, <3>1, <3>2
  <2> HIDE DEF rest, n
  <2>4. q \in Int /\ rest % round \in 0 .. round - 1 /\ rest = q * round + (rest % round)
    BY <1>2, <2>3, Quotient
  <2>5. n <= q
    <3> HIDE DEF q, round
    <3>1. CASE q < n
      <4>1. n \in Int /\ q \in Int /\ round \in Nat
        BY <1>2, <1>3, <2>4 DEF n
      <4>2. q * round + round <= n * round
        BY ONLY <3>1, <4>1, NextMultiple
      <4>3. q * round \in Int
        BY <4>1
      <4> QED BY <1>2, <2>3, <2>4, <4>2, <4>3
    <3> QED BY <1>3, <2>4, <3>1 DEF n
  <2>6. Len(queue[d]) + k = q
    BY <2>1 DEF rest
  <2>7. Len(queue[d]) \in Nat
    BY <2>1
  <2>8. k < n /\ n \in Int
    BY <1>3 DEF n
  <2>9. Len(queue[d]) > 0
    <3> HIDE DEF q, k
    <3> QED BY SMTT(60), <1>2, <2>4, <2>5, <2>6, <2>7, <2>8
  <2> QED BY <2>1, <2>9
<1> QED BY <1>1, <1>5, <1>6, JobFacts

\* A loader gives a microbatch.
LEMMA TakeInv ==
  ASSUME IInv, NEW d \in Loaders(layout), Take(d)
  PROVE  IInv'
<1> DEFINE left == IF queue[d] = <<>> /\ job.dataloader_type = "cyclic"
                   THEN Pass(layout, d[1], sampler[d]) ELSE queue[d]
           k == Len(taken[d])
           c == consumed_train_samples
           round == Round(layout)
<1>1. /\ Typing /\ AccountsInv /\ DrawnInv /\ LoadersInv
      /\ iteration < TrainIters(job) /\ k < NumMicrobatches /\ phase = "train"
      /\ UNCHANGED <<job, permutation, layout, iteration, consumed_train_samples,
                     checkpoint, restarts, drawn>>
  BY DEF IInv, Take
<1>2. left \in Seq(Given(layout)) /\ left # <<>> /\ (job.dataloader_type = "single" => left = queue[d])
  BY <1>1, LoaderHas
<1>3. /\ sampler' = [sampler EXCEPT ![d] = Counted(layout, @)]
      /\ queue' = [queue EXCEPT ![d] = Tail(left)]
      /\ taken' = [taken EXCEPT ![d] = Append(@, Head(left))]
      /\ phase' = phase
  BY <1>2 DEF Take
<1> HIDE DEF left
<1>4. /\ DOMAIN sampler' = Loaders(layout) /\ DOMAIN queue' = Loaders(layout)
      /\ DOMAIN taken' = Loaders(layout)
      /\ sampler'[d] = Counted(layout, sampler[d]) /\ queue'[d] = Tail(left)
      /\ taken'[d] = Append(taken[d], Head(left))
      /\ \A e \in Loaders(layout) :
           e # d => sampler'[e] = sampler[e] /\ queue'[e] = queue[e] /\ taken'[e] = taken[e]
  BY <1>1, <1>3 DEF LoadersInv
<1>5. Given(layout)' = Given(layout) /\ NumMicrobatches' = NumMicrobatches /\ Loaders(layout)' = Loaders(layout)
  BY <1>1 DEF Given, UsableBy, NumMicrobatches
<1>6. ASSUME NEW e \in Loaders(layout), e # d
      PROVE  LoaderAt(e)'
  <2>1. LoaderAt(e)
    BY <1>1 DEF LoadersInv
  <2> QED BY <1>1, <1>4, <1>5, <1>6, <2>1 DEF LoaderAt
<1>7. LoaderAt(d)'
  <2>1. LoaderAt(d) /\ k \in Nat /\ taken[d] \in Seq(Given(layout)) /\ queue[d] \in Seq(Given(layout))
    BY <1>1 DEF LoadersInv, LoaderAt
  <2>2. /\ Head(left) \in Given(layout) /\ Tail(left) \in Seq(Given(layout))
        /\ Len(Tail(left)) = Len(left) - 1 /\ Len(left) \in Nat
    BY <1>2
  <2>3. taken'[d] \in Seq(Given(layout)) /\ Len(taken'[d]) = k + 1
    BY <1>4, <2>1, <2>2
  <2>4. NumMicrobatches \in Nat /\ round \in Nat \ {0} /\ c \in Nat
    BY <1>1, NextBatch, LayoutFacts, JobFacts DEF AccountsInv, OnSchedule, Typing
  <2> HIDE DEF k, c, round
  <2>5. k + 1 <= NumMicrobatches
    BY <1>1, <2>1, <2>4
  <2>6. job.dataloader_type = "cyclic" => sampler'[d] = c + (k + 1) * round
    <3> SUFFICES ASSUME job.dataloader_type = "cyclic"
                 PROVE  sampler'[d] = c + (k + 1) * round
      OBVIOUS
    <3>1. sampler[d] = c + k * round
      BY <2>1 DEF LoaderAt, k, c, round
    <3>2. sampler'[d] = sampler[d] + round
      BY <1>4 DEF Counted, round
    <3>3. (k + 1) * round = k * round + round /\ k * round \in Nat
      BY <2>1, <2>4
    <3> QED BY <2>4, <3>1, <3>2, <3>3
  <2>7. job.dataloader_type = "single" =>
          Len(queue'[d]) + (k + 1) = (job.total_samples - c) \div round
    <3> SUFFICES ASSUME job.dataloader_type = "single"
                 PROVE  Len(queue'[d]) + (k + 1) = (job.total_samples - c) \div round
      OBVIOUS
    <3>1. Len(queue[d]) + k = (job.total_samples - c) \div round
      BY <2>1 DEF LoaderAt, k, c, round
    <3>2. Len(queue'[d]) = Len(queue[d]) - 1 /\ Len(queue[d]) \in Nat
      BY <1>2, <1>4, <2>2
    <3>3. Len(queue'[d]) + (k + 1) = Len(queue[d]) + k
      <4> DEFINE new == Len(queue'[d])
                 old == Len(queue[d])
      <4>1. new = old - 1 /\ old \in Nat /\ k \in Nat
        BY <2>1, <3>2
      <4> HIDE DEF new, old
      <4>2. new + (k + 1) = old + k
        BY <4>1
      <4> QED BY <4>2 DEF new, old
    <3> QED BY <3>1, <3>3
  <2>8. queue'[d] \in Seq(Given(layout))
    BY <1>4, <2>2
  <2>9. job' = job /\ consumed_train_samples' = c /\ Round(layout)' = round
    BY <1>1 DEF c, round
  <2> QED BY <1>5, <2>3, <2>5, <2>6, <2>7, <2>8, <2>9 DEF LoaderAt
<1>8. LoadersInv'
  BY <1>4, <1>5, <1>6, <1>7 DEF LoadersInv
<1>9. Typing' /\ AccountsInv' /\ DrawnInv'
  BY <1>1, <1>3 DEF Typing, AccountsInv, OnSchedule, DrawnInv
<1> QED BY <1>8, <1>9 DEF IInv

\* A list with an element replaced, or with one more.
LEMMA Longer ==
  ASSUME NEW s, NEW n \in Nat, s = [i \in 1 .. n |-> s[i]], NEW x
  PROVE  /\ Len(s) = n
         /\ \A k \in 1 .. n : [s EXCEPT ![k] = x] = [i \in 1 .. n |-> [s EXCEPT ![k] = x][i]]
         /\ Append(s, x) = [i \in 1 .. n + 1 |-> Append(s, x)[i]]
<1> DEFINE S == {s[i] : i \in 1 .. n} \cup {x}
<1>1. \A i \in 1 .. n : s[i] \in S
  OBVIOUS
<1> HIDE DEF S
<1>2. s \in Seq(S) /\ Len(s) = n /\ x \in S
  <2>1. [i \in 1 .. n |-> s[i]] \in Seq(S) /\ Len([i \in 1 .. n |-> s[i]]) = n
    BY <1>1
  <2> QED BY <2>1 DEF S
<1>3. Append(s, x) \in Seq(S) /\ Len(Append(s, x)) = n + 1
  BY <1>2
<1>4. \A t \in Seq(S) : t = [i \in 1 .. Len(t) |-> t[i]]
  OBVIOUS
<1>5. \A k \in 1 .. n : [s EXCEPT ![k] = x] = [i \in 1 .. n |-> [s EXCEPT ![k] = x][i]]
  OBVIOUS
<1>6. Append(s, x) = [i \in 1 .. n + 1 |-> Append(s, x)[i]]
  <2> DEFINE t == Append(s, x)
  <2>1. t \in Seq(S) /\ Len(t) = n + 1
    BY <1>3
  <2> HIDE DEF t
  <2>2. t = [i \in 1 .. n + 1 |-> t[i]]
    BY <1>4, <2>1
  <2> QED BY <2>2 DEF t
<1> QED BY <1>2, <1>5, <1>6

\* An iteration ends.
LEMMA EndStepInv ==
  ASSUME IInv, EndStep
  PROVE  IInv'
<1> DEFINE n == NumMicrobatches
           c == consumed_train_samples
           round == Round(layout)
<1>1. /\ Typing /\ AccountsInv /\ DrawnInv /\ LoadersInv
      /\ OnSchedule(iteration, c) /\ layout \in job.layouts /\ job \in Jobs
      /\ iteration < TrainIters(job) /\ phase = "train"
      /\ \A d \in Loaders(layout) : Len(taken[d]) = n
      /\ iteration' = iteration + 1 /\ consumed_train_samples' = c + n * round
      /\ taken' = [d \in Loaders(layout) |-> <<>>]
      /\ drawn' = IF iteration < Len(drawn) THEN [drawn EXCEPT ![iteration'] = Batch]
                  ELSE Append(drawn, Batch)
      /\ checkpoint' \in {checkpoint, [iteration |-> iteration',
                                       consumed_train_samples |-> consumed_train_samples']}
      /\ UNCHANGED <<job, permutation, layout, phase, sampler, queue, restarts>>
  BY DEF IInv, EndStep, Typing, AccountsInv
<1>2. /\ n \in Nat /\ OnSchedule(iteration + 1, c + n * round)
      /\ round \in Nat \ {0} /\ c \in Nat /\ iteration \in Nat /\ job.total_samples \in Nat
  BY <1>1, NextBatch, LayoutFacts, JobFacts DEF OnSchedule
<1>3. Typing'
  BY <1>1 DEF Typing
<1>4. AccountsInv'
  <2>1. OnSchedule(iteration, consumed_train_samples)'
    BY <1>1, <1>2 DEF OnSchedule
  <2>2. OnSchedule(checkpoint.iteration, checkpoint.consumed_train_samples)'
    <3>1. CASE checkpoint' = checkpoint
      <4>1. OnSchedule(checkpoint.iteration, checkpoint.consumed_train_samples)
        BY <1>1 DEF AccountsInv
      <4> QED BY <1>1, <3>1, <4>1 DEF OnSchedule
    <3>2. CASE checkpoint' = [iteration |-> iteration',
                              consumed_train_samples |-> consumed_train_samples']
      BY <2>1, <3>2 DEF OnSchedule
    <3> QED BY <1>1, <3>1, <3>2
  <2> QED BY <1>1, <2>1, <2>2 DEF AccountsInv
<1>5. DrawnInv'
  <2>1. PICK m \in Nat : drawn = [i \in 1 .. m |-> drawn[i]]
    BY <1>1 DEF DrawnInv
  <2>2. m = Len(drawn) /\ iteration <= m /\ checkpoint.iteration <= m /\ checkpoint.iteration \in Nat
    <3>1. Len(drawn) = m
      BY <2>1, Longer
    <3> QED BY <1>1, <3>1 DEF DrawnInv, AccountsInv, OnSchedule
  <2>3. checkpoint'.iteration \in {checkpoint.iteration, iteration + 1}
    BY <1>1
  <2>4. CASE iteration < m
    <3>1. iteration + 1 \in 1 .. m /\ drawn' = [drawn EXCEPT ![iteration + 1] = Batch]
      BY <1>1, <1>2, <2>2, <2>4
    <3>2. drawn' = [i \in 1 .. m |-> drawn'[i]]
      BY <2>1, <3>1, Longer
    <3>3. Len(drawn') = m
      BY <3>2, Longer
    <3>4. iteration' <= Len(drawn') /\ checkpoint'.iteration <= Len(drawn')
      BY <1>1, <1>2, <2>2, <2>3, <2>4, <3>3
    <3> QED BY <3>2, <3>4 DEF DrawnInv
  <2>5. CASE iteration = m
    <3>1. drawn' = Append(drawn, Batch)
      BY <1>1, <2>2, <2>5
    <3>2. drawn' = [i \in 1 .. m + 1 |-> drawn'[i]]
      BY <2>1, <3>1, Longer
    <3>3. Len(drawn') = m + 1
      <4>1. m + 1 \in Nat
        OBVIOUS
      <4> QED BY <3>2, <4>1, Longer
    <3>4. iteration' <= Len(drawn') /\ checkpoint'.iteration <= Len(drawn')
      BY <1>1, <1>2, <2>2, <2>3, <2>5, <3>3
    <3>5. m + 1 \in Nat
      OBVIOUS
    <3> QED BY <3>2, <3>4, <3>5 DEF DrawnInv
  <2> QED BY <1>2, <2>2, <2>4, <2>5
<1>6. LoadersInv'
  <2>1. Given(layout)' = Given(layout) /\ Loaders(layout)' = Loaders(layout) /\ Round(layout)' = round
    BY <1>1 DEF Given, UsableBy
  <2>2. (NumMicrobatches \in Nat)'
    <3>1. consumed_train_samples' \in Nat /\ (job \in Jobs)' /\ (Round(layout) \in Nat \ {0})'
      BY <1>1, <1>2
    <3>2. (GlobalBatchSize(job, consumed_train_samples) \in Nat)'
      BY <1>1, <3>1, BatchSizes, JobFacts
    <3>3. (GlobalBatchSize(job, consumed_train_samples) \div Round(layout) \in Nat)'
      BY <3>1, <3>2, QuotientOfNat
    <3> QED BY <3>3 DEF NumMicrobatches
  <2>3. ASSUME NEW d \in Loaders(layout)
        PROVE  LoaderAt(d)'
    <3>1. /\ LoaderAt(d) /\ Len(taken[d]) = n /\ taken'[d] = <<>>
          /\ queue'[d] = queue[d] /\ sampler'[d] = sampler[d]
      BY <1>1 DEF LoadersInv
    <3>2. (taken[d] \in Seq(Given(layout)))' /\ (Len(taken[d]) = 0)' /\ (queue[d] \in Seq(Given(layout)))'
      BY <2>1, <3>1 DEF LoaderAt
    <3>3. job.dataloader_type = "cyclic" => sampler[d] = c + n * round
      BY <3>1 DEF LoaderAt
    <3>4. job.dataloader_type = "single" => Len(queue[d]) = (job.total_samples - (c + n * round)) \div round
      <4> SUFFICES ASSUME job.dataloader_type = "single"
                   PROVE  Len(queue[d]) = (job.total_samples - (c + n * round)) \div round
        OBVIOUS
      <4> DEFINE x == job.total_samples - (c + n * round)
                 y == job.total_samples - c
      <4>1. Len(queue[d]) + n = y \div round /\ Len(queue[d]) \in Nat
        BY <3>1 DEF LoaderAt
      <4>2. x \in Int /\ y \in Int /\ n \in Int /\ y = x + n * round /\ round \in Nat \ {0}
        <5> HIDE DEF n, c, round
        <5>1. n * round \in Nat
          BY <1>2
        <5> QED BY <1>2, <5>1
      <4> HIDE DEF x, y, n, c, round
      <4>3. y \div round = (x \div round) + n
        BY ONLY <4>2, ShiftedQuotient
      <4>4. x \div round \in Int
        BY <4>2
      <4>5. Len(queue[d]) = x \div round
        BY <4>1, <4>2, <4>3, <4>4
      <4> QED BY <4>5 DEF x
    <3> HIDE DEF n, c, round
    <3>5. (Len(taken[d]) * Round(layout) = 0)'
      BY <1>2, <2>1, <3>2
    <3>6. consumed_train_samples' = c + n * round /\ c + n * round \in Nat /\ job' = job
      BY <1>1, <1>2 DEF n, c, round
    <3>7. (job.dataloader_type = "cyclic" =>
             sampler[d] = consumed_train_samples + Len(taken[d]) * Round(layout))'
      BY <3>1, <3>3, <3>5, <3>6
    <3>8. (job.dataloader_type = "single" =>
             Len(queue[d]) + Len(taken[d]) = (job.total_samples - consumed_train_samples) \div Round(layout))'
      <4>1. Len(queue[d]) \in Nat
        BY <3>1 DEF LoaderAt
      <4> QED BY <2>1, <3>1, <3>2, <3>4, <3>6, <4>1
    <3>9. (Len(taken[d]) <= NumMicrobatches)'
      BY <2>2, <3>2
    <3> QED BY <3>2, <3>7, <3>8, <3>9 DEF LoaderAt
  <2>4. DOMAIN sampler' = Loaders(layout) /\ DOMAIN queue' = Loaders(layout)
        /\ DOMAIN taken' = Loaders(layout)
    BY <1>1 DEF LoadersInv
  <2> QED BY <2>1, <2>3, <2>4 DEF LoadersInv
<1> QED BY <1>3, <1>4, <1>5, <1>6 DEF IInv

\* A job starts again.
LEMMA RestartInv ==
  ASSUME IInv, Restart
  PROVE  IInv'
<1>1. /\ Typing /\ AccountsInv /\ DrawnInv
      /\ phase = "down" /\ phase' = "train" /\ restarts' = restarts + 1
      /\ iteration' = checkpoint.iteration
      /\ consumed_train_samples' = checkpoint.consumed_train_samples
      /\ UNCHANGED <<job, permutation, checkpoint, drawn>>
  BY DEF IInv, Restart
<1>2. PICK l \in job.layouts : BuildIterators(l, checkpoint.consumed_train_samples)
  BY DEF Restart
<1>3. OnSchedule(checkpoint.iteration, checkpoint.consumed_train_samples)
  BY <1>1 DEF AccountsInv
<1>4. LoadersInv'
  BY <1>1, <1>2, <1>3, IteratorsBuilt
<1>5. Typing'
  <2>1. layout' = l
    BY <1>2 DEF BuildIterators
  <2> QED BY <1>1, <1>2, <2>1, MaxRestartsAssumption DEF Typing
<1>6. AccountsInv' /\ DrawnInv'
  BY <1>1, <1>3 DEF AccountsInv, OnSchedule, DrawnInv
<1> QED BY <1>4, <1>5, <1>6 DEF IInv

\* The loaders stay as they are.
LEMMA LoadersStay ==
  ASSUME LoadersInv, UNCHANGED <<job, layout, consumed_train_samples, loaders>>
  PROVE  LoadersInv'
<1>1. Given(layout)' = Given(layout) /\ NumMicrobatches' = NumMicrobatches
  BY DEF Given, UsableBy, NumMicrobatches
<1>2. \A d \in Loaders(layout) : LoaderAt(d)'
  BY <1>1 DEF LoadersInv, LoaderAt, loaders
<1> QED BY <1>2 DEF LoadersInv, loaders

\* Every step keeps the invariant.
LEMMA NextInv == IInv /\ [Next]_vars => IInv'
<1> SUFFICES ASSUME IInv, [Next]_vars PROVE IInv'
  OBVIOUS
<1>0. Typing /\ AccountsInv /\ DrawnInv /\ LoadersInv
  BY DEF IInv
<1>1. ASSUME NEW d \in Loaders(layout), Take(d)
      PROVE  IInv'
  BY <1>1, TakeInv
<1>2. CASE EndStep
  BY <1>2, EndStepInv
<1>3. CASE Finish
  <2>1. /\ phase' = "done" /\ iteration >= TrainIters(job)
        /\ UNCHANGED <<job, permutation, layout, iteration, consumed_train_samples, loaders,
                       checkpoint, restarts, drawn>>
    BY <1>3 DEF Finish
  <2>2. iteration = TrainIters(job)
    BY <1>0, <2>1, ScheduleStarts DEF AccountsInv, OnSchedule, Typing
  <2>3. LoadersInv'
    BY <1>0, <2>1, LoadersStay
  <2>4. Typing' /\ AccountsInv' /\ DrawnInv'
    BY <1>0, <2>1, <2>2 DEF Typing, AccountsInv, OnSchedule, DrawnInv
  <2> QED BY <2>3, <2>4 DEF IInv
<1>4. CASE Crash
  <2>1. /\ phase' = "down" /\ restarts < MaxRestarts
        /\ UNCHANGED <<job, permutation, layout, iteration, consumed_train_samples, loaders,
                       checkpoint, restarts, drawn>>
    BY <1>4 DEF Crash
  <2>2. LoadersInv'
    BY <1>0, <2>1, LoadersStay
  <2>3. Typing' /\ AccountsInv' /\ DrawnInv'
    BY <1>0, <2>1 DEF Typing, AccountsInv, OnSchedule, DrawnInv
  <2> QED BY <2>2, <2>3 DEF IInv
<1>5. CASE Restart
  BY <1>5, RestartInv
<1>6. CASE UNCHANGED vars
  <2>1. UNCHANGED <<job, permutation, layout, phase, iteration, consumed_train_samples, loaders,
                    checkpoint, restarts, drawn>>
    BY <1>6 DEF vars
  <2>2. LoadersInv'
    BY <1>0, <2>1, LoadersStay
  <2>3. Typing' /\ AccountsInv' /\ DrawnInv'
    BY <1>0, <2>1 DEF Typing, AccountsInv, OnSchedule, DrawnInv
  <2> QED BY <2>2, <2>3 DEF IInv
<1> QED BY <1>1, <1>2, <1>3, <1>4, <1>5, <1>6 DEF Next, Ended

\* The invariant holds of every job.
LEMMA Invariance == Spec => []IInv
<1>1. IInv /\ [Next]_vars => IInv'
  BY NextInv
<1> QED
  BY <1>1, InitInv, PTL DEF Spec

\* The samples of a sequential or a random order are those of a layout.
LEMMA UsableIs ==
  ASSUME Typing
  PROVE  UsableBy(layout) = Usable
BY DEF UsableBy, Usable

\* Every loader's place in the data is, at every step, the one that the
\* accounting of the whole job implies (data_samplers.py).
THEOREM TypeCorrect == Spec => []TypeOK
<1>1. IInv => TypeOK
  <2> SUFFICES ASSUME IInv PROVE TypeOK
    OBVIOUS
  <2>1. Typing /\ AccountsInv /\ DrawnInv /\ LoadersInv
    BY DEF IInv
  <2>2. /\ iteration \in 0 .. TrainIters(job) /\ consumed_train_samples \in 0 .. job.train_samples
        /\ checkpoint.iteration \in Nat
    BY <2>1 DEF AccountsInv, OnSchedule
  <2>3. checkpoint.iteration \in 0 .. Len(drawn)
    <3>1. PICK n \in Nat : drawn = [i \in 1 .. n |-> drawn[i]]
      BY <2>1 DEF DrawnInv
    <3>2. Len(drawn) = n
      BY <3>1, Longer
    <3> QED BY <2>1, <2>2, <3>2 DEF DrawnInv
  <2>4. ASSUME NEW d \in Loaders(layout)
        PROVE  /\ Len(taken[d]) <= NumMicrobatches
               /\ \A m \in ToSet(taken[d]) : /\ Len(m) = layout.micro_batch_size
                                             /\ ToSet(m) \subseteq Usable
               /\ job.dataloader_type = "cyclic" =>
                    sampler[d] = consumed_train_samples + Len(taken[d]) * Round(layout)
    <3>1. LoaderAt(d) /\ layout.micro_batch_size \in Nat \ {0} /\ Usable = UsableBy(layout)
      BY <2>1, LayoutFacts, UsableIs DEF LoadersInv, Typing
    <3>2. taken[d] \in Seq(Given(layout))
      BY <3>1 DEF LoaderAt
    <3>3. \A i \in DOMAIN taken[d] : taken[d][i] \in [1 .. layout.micro_batch_size -> Usable]
      BY <3>1, <3>2 DEF Given
    <3>4. \A m \in [1 .. layout.micro_batch_size -> Usable] :
            Len(m) = layout.micro_batch_size /\ ToSet(m) \subseteq Usable
      BY <3>1 DEF ToSet
    <3> QED BY <3>1, <3>3, <3>4 DEF LoaderAt, ToSet
  <2> QED BY <2>1, <2>2, <2>3, <2>4 DEF TypeOK, Typing, LoadersInv
<1> QED
  BY <1>1, Invariance, PTL

\* The iterations update_train_iters computes are those there are samples
\* for: no loader runs dry, less than a batch is left at the end, and no
\* pass begins inside a round (data_samplers.py:156).
THEOREM LoadersNeverRunDry == Spec => []TrainItersExact
<1>1. IInv => TrainItersExact
  <2> SUFFICES ASSUME IInv PROVE TrainItersExact
    OBVIOUS
  <2>1. Typing /\ AccountsInv /\ LoadersInv /\ job \in Jobs /\ layout \in job.layouts
    BY DEF IInv, Typing
  <2>2. phase # "dry"
    BY <2>1 DEF Typing
  <2>3. ASSUME phase = "done"
        PROVE  job.train_samples - consumed_train_samples \in 0 .. job.global_batch_size - 1
    <3>1. /\ iteration = TrainIters(job) /\ TrainIters(job) \in Nat
          /\ consumed_train_samples \in 0 .. job.train_samples
          /\ Schedule(job, iteration, consumed_train_samples)
      BY <2>1, <2>3, ScheduleStarts DEF AccountsInv, OnSchedule
    <3>2. iteration \in Nat /\ iteration >= TrainIters(job)
      BY <3>1
    <3> QED BY <2>1, <3>1, <3>2, ScheduleEnds
  <2>4. ASSUME job.dataloader_type = "cyclic", NEW d \in Loaders(layout)
        PROVE  (sampler[d] % ActiveSamples(job, layout)) % Round(layout) = 0
    <3> DEFINE round == Round(layout)
               x == Len(taken[d]) * round
               c == consumed_train_samples
    <3>1. /\ sampler[d] = c + x /\ Len(taken[d]) \in Nat /\ round \in Nat \ {0}
          /\ c \in Nat /\ c % round = 0
      BY <2>1, <2>4, LayoutFacts, JobFacts DEF LoadersInv, LoaderAt, AccountsInv, OnSchedule
    <3>2. x \in Nat /\ x % round = 0
      <4> DEFINE n == Len(taken[d])
      <4>1. n \in Int /\ round \in Nat \ {0} /\ 0 \in 0 .. round - 1
        BY <3>1
      <4> HIDE DEF n, round
      <4>2. (n * round + 0) % round = 0
        BY ONLY <4>1, ExactQuotient
      <4>3. n * round + 0 = n * round /\ n * round \in Nat
        BY <3>1, <4>1 DEF n
      <4> QED BY <4>2, <4>3 DEF n
    <3>3. sampler[d] \in Nat /\ sampler[d] % round = 0
      <4> HIDE DEF x, c, round
      <4>1. c \in Int /\ x \in Int /\ round \in Nat \ {0} /\ c % round = 0 /\ x % round = 0
        BY <3>1, <3>2
      <4>2. (c + x) % round = 0
        BY ONLY <4>1, Multiples
      <4> QED BY <3>1, <3>2, <4>2
    <3> QED BY <2>1, <2>4, <3>3, EpochPlace
  <2> QED BY <2>2, <2>3, <2>4 DEF TrainItersExact
<1> QED
  BY <1>1, Invariance, PTL
=============================================================================
