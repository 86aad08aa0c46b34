------------------------ MODULE TensorParallel_proofs ------------------------
(***************************************************************************)
(* Proofs about megatron/core/tensor_parallel.  First Recomputation (its   *)
(* random.py), for every job: any number of layers, microbatches and ranks,*)
(* every way to recompute and every order of the passes.  Then             *)
(* TensorParallel, for every group, sequence and model.                    *)
(***************************************************************************)
EXTENDS Recomputation, TensorParallel, FiniteSetTheorems, SequenceTheorems, TLAPS

-----------------------------------------------------------------------------
\* Facts about numbers.

\* A product grows with its factor by at least the other one.
LEMMA NextMultiple ==
  ASSUME NEW a \in Int, NEW b \in Int, NEW s \in Nat, a < b
  PROVE  a * s + s <= b * s
<1>1. PICK d \in Nat : b = a + 1 + d
  <2>1. b - a - 1 \in Nat /\ b = a + 1 + (b - a - 1) OBVIOUS
  <2> QED BY <2>1
<1>2. b * s = a * s + s + d * s BY <1>1
<1>3. d * s \in Nat OBVIOUS
<1> QED BY <1>2, <1>3

\* Division with remainder.
LEMMA Quotient ==
  ASSUME NEW j \in Int, NEW s \in Nat \ {0}
  PROVE  /\ j \div s \in Int
         /\ j % s \in 0 .. s - 1
         /\ j = (j \div s) * s + (j % s)
  OBVIOUS

\* A number has one pair of digits in base b.
LEMMA DigitsUnique ==
  ASSUME NEW b \in Nat \ {0}, NEW x \in Int, NEW y \in 0 .. b - 1,
         NEW u \in Int, NEW v \in 0 .. b - 1, x * b + y = u * b + v
  PROVE  x = u /\ y = v
<1>0. x * b \in Int /\ u * b \in Int OBVIOUS
<1>1. CASE x < u
  <2>1. x * b + b <= u * b BY <1>1, NextMultiple
  <2> QED BY <1>0, <2>1
<1>2. CASE u < x
  <2>1. u * b + b <= x * b BY <1>2, NextMultiple
  <2> QED BY <1>0, <2>1
<1>3. CASE x = u BY <1>0, <1>3
<1> QED BY <1>1, <1>2, <1>3

\* Division finds the digits.
LEMMA ExactQuotient ==
  ASSUME NEW n \in Int, NEW b \in Nat \ {0}, NEW y \in 0 .. b - 1
  PROVE  (n * b + y) \div b = n /\ (n * b + y) % b = y
<1> DEFINE j == n * b + y
<1>1. j \in Int OBVIOUS
<1>2. j \div b \in Int /\ j % b \in 0 .. b - 1 /\ j = (j \div b) * b + (j % b)
  BY <1>1, Quotient
<1>3. j = n * b + y OBVIOUS
<1> HIDE DEF j
<1>4. n = j \div b /\ y = j % b BY <1>2, <1>3, DigitsUnique
<1> QED BY <1>4 DEF j

\* The quotient of a natural number is one.
LEMMA QuotientOfNat ==
  ASSUME NEW x \in Nat, NEW s \in Nat \ {0}
  PROVE  x \div s \in Nat
<1> DEFINE q == x \div s
           r == x % s
<1>1. q \in Int /\ r \in 0 .. s - 1 /\ x = q * s + r BY Quotient
<1> HIDE DEF q, r
<1>2. CASE q < 0
  <2>1. q * s + s <= 0 * s BY <1>1, <1>2, NextMultiple
  <2>2. q * s \in Int BY <1>1
  <2> QED BY <1>1, <2>1, <2>2
<1>3. q \in Nat BY <1>1, <1>2
<1> QED BY <1>3 DEF q

\* A set of numbers that is not empty has a least element.
LEMMA LeastElement ==
  ASSUME NEW C \in SUBSET Nat, C # {}
  PROVE  \E m \in C : \A k \in C : m <= k
<1> DEFINE Less == StrictSubsetOrdering(Nat)
           F == FiniteSubsetsOf(Nat)
           T == {1 .. n : n \in C}
<1>1. IsWellFoundedOn(Less, F) BY FS_StrictSubsetOrderingWellFounded
<1>2. T \subseteq F
  <2>1. ASSUME NEW n \in C PROVE 1 .. n \in F
    <3>1. IsFiniteSet(1 .. n) BY FS_Interval
    <3> QED BY <3>1 DEF FiniteSubsetsOf
  <2> QED BY <2>1
<1>3. T # {} OBVIOUS
<1>4. PICK x \in T : \A y \in T : ~ (<<y, x>> \in Less)
  <2> HIDE DEF Less, F, T
  <2> QED BY <1>1, <1>2, <1>3, WFMin
<1>5. PICK m \in C : x = 1 .. m OBVIOUS
<1>6. ASSUME NEW k \in C, k < m
      PROVE  FALSE
  <2>1. 1 .. k \in T OBVIOUS
  <2>2. ~ (<<1 .. k, 1 .. m>> \in Less) BY <1>4, <1>5, <2>1
  <2>3. 1 .. k \subseteq 1 .. m /\ m \in 1 .. m /\ m \notin 1 .. k BY <1>6
  <2>4. 1 .. k \in SUBSET Nat /\ 1 .. m \in SUBSET Nat OBVIOUS
  <2>5. <<1 .. k, 1 .. m>> \in Less BY <2>3, <2>4 DEF StrictSubsetOrdering
  <2> QED BY <2>2, <2>5
<1> QED BY <1>6

\* A set that has 0 and with every number the next one has them all.
LEMMA SetInduction ==
  ASSUME NEW T \in SUBSET Nat, 0 \in T, \A n \in T : n + 1 \in T
  PROVE  T = Nat
<1> DEFINE C == Nat \ T
<1>1. SUFFICES ASSUME C # {} PROVE FALSE
  OBVIOUS
<1>2. PICK x \in C : \A k \in C : x <= k BY <1>1, LeastElement
<1>3. x - 1 \in Nat /\ x - 1 \in T BY <1>2
<1> QED BY <1>2, <1>3

-----------------------------------------------------------------------------
\* A mask is known by the generator, and so are all masks of a forward
\* pass by the number of passes before it.
Gen(seed, count) == [seed |-> seed, count |-> count]
Pair(c, t) == [cuda |-> c, tracker |-> t]
Pairs == [cuda : Generator, tracker : Generator]
Run(c, t, m) == [cuda |-> c, tracker |-> t, masks |-> m]

Masked == IF args.pre_process THEN 1 ELSE 0    \* dropouts of the embedding
CudaDraws == IF args.sequence_parallel THEN 0 ELSE Masked + 2 * args.num_layers
TrackerDraws == IF args.sequence_parallel THEN Masked + 3 * args.num_layers ELSE args.num_layers

\* The generators after n forward passes, ...
Base(r, n) == Pair(Gen(DataParallelSeed(r), n * CudaDraws),
                   Gen(TensorModelParallelSeed(r), n * TrackerDraws))

\* ... those the layers of the next one start with, ...
InLayers(r, n) ==
  IF args.sequence_parallel
  THEN LET g == Gen(TensorModelParallelSeed(r), n * TrackerDraws + Masked) IN Pair(g, g)
  ELSE Pair(Gen(DataParallelSeed(r), n * CudaDraws + Masked),
            Gen(TensorModelParallelSeed(r), n * TrackerDraws))

\* ... and those after k layers that start with g.
After(g, k) ==
  IF args.sequence_parallel
  THEN Pair(Gen(g.cuda.seed, g.cuda.count + 3 * k), g.tracker)
  ELSE Pair(Gen(g.cuda.seed, g.cuda.count + 2 * k), Gen(g.tracker.seed, g.tracker.count + k))

\* ... before unit u of it, counted from 1, ...
UnitLayers == IF args.recompute = "uniform" THEN args.recompute_num_layers ELSE 1
UnitStart(r, n, u) == After(InLayers(r, n), (u - 1) * UnitLayers)

\* The p-th mask of layers that start with g, and all masks of k layers.
LayerMask(g, p) ==
  IF args.sequence_parallel THEN Gen(g.cuda.seed, g.cuda.count + p - 1)
  ELSE LET l == (p - 1) \div 3
           place == (p - 1) % 3
       IN IF place = 0 THEN Gen(g.tracker.seed, g.tracker.count + l)
          ELSE Gen(g.cuda.seed, g.cuda.count + 2 * l + place - 1)
LayerMasks(g, k) == [p \in 1 .. 3 * k |-> LayerMask(g, p)]

EmbeddingMasks(r, n) ==
  IF ~args.pre_process THEN <<>>
  ELSE IF args.sequence_parallel THEN <<Gen(TensorModelParallelSeed(r), n * TrackerDraws)>>
  ELSE <<Gen(DataParallelSeed(r), n * CudaDraws)>>

\* The masks of forward pass n + 1.
PassMasks(r, n) == EmbeddingMasks(r, n) \o LayerMasks(InLayers(r, n), args.num_layers)

-----------------------------------------------------------------------------
\* Sequences as functions.

\* A function on 1 .. n is a sequence.
LEMMA FunctionSeq ==
  ASSUME NEW n \in Nat, NEW f, f = [i \in 1 .. n |-> f[i]]
  PROVE  f \in Seq({f[i] : i \in 1 .. n}) /\ Len(f) = n
<1> DEFINE S == {f[i] : i \in 1 .. n}
<1>1. f \in [1 .. n -> S] OBVIOUS
<1> QED BY <1>1

\* Appending to it, ...
LEMMA AppendFunction ==
  ASSUME NEW n \in Nat, NEW f, f = [i \in 1 .. n |-> f[i]], NEW x
  PROVE  Append(f, x) = [i \in 1 .. n + 1 |-> IF i <= n THEN f[i] ELSE x]
<1> DEFINE S == {f[i] : i \in 1 .. n} \cup {x}
<1>1. f \in [1 .. n -> S] /\ x \in S OBVIOUS
<1>2. f \in Seq(S) /\ Len(f) = n BY <1>1
<1> HIDE DEF S
<1>3. Append(f, x) \in Seq(S) /\ Len(Append(f, x)) = n + 1
      /\ \A i \in 1 .. n : Append(f, x)[i] = f[i]
      /\ Append(f, x)[n + 1] = x
  BY <1>1, <1>2
<1> QED BY <1>3

\* ... concatenating two, ...
LEMMA ConcatFunction ==
  ASSUME NEW a \in Nat, NEW f, f = [i \in 1 .. a |-> f[i]],
         NEW b \in Nat, NEW g, g = [i \in 1 .. b |-> g[i]]
  PROVE  f \o g = [i \in 1 .. a + b |-> IF i <= a THEN f[i] ELSE g[i - a]]
<1> DEFINE S == {f[i] : i \in 1 .. a} \cup {g[i] : i \in 1 .. b}
<1>1. f \in [1 .. a -> S] /\ g \in [1 .. b -> S] OBVIOUS
<1>2. f \in Seq(S) /\ Len(f) = a /\ g \in Seq(S) /\ Len(g) = b BY SMTT(60), <1>1
<1> HIDE DEF S
<1>3. f \o g \in Seq(S) /\ Len(f \o g) = a + b
      /\ \A i \in 1 .. a + b : (f \o g)[i] = IF i <= a THEN f[i] ELSE g[i - a]
  BY <1>2
<1> QED BY <1>3

\* ... leaving out the first of it, ...
LEMMA TailFunction ==
  ASSUME NEW n \in Nat, n > 0, NEW f, f = [i \in 1 .. n |-> f[i]]
  PROVE  Tail(f) = [i \in 1 .. n - 1 |-> f[i + 1]]
<1> DEFINE S == {f[i] : i \in 1 .. n}
<1>1. f \in [1 .. n -> S] OBVIOUS
<1>2. f \in Seq(S) /\ Len(f) = n BY <1>1
<1> HIDE DEF S
<1>3. f # <<>> BY <1>2
<1>4. Tail(f) \in Seq(S) /\ Len(Tail(f)) = n - 1
      /\ \A i \in 1 .. n - 1 : Tail(f)[i] = f[i + 1]
  BY <1>2, <1>3
<1> QED BY <1>4

\* ... and taking the beginning.
LEMMA PrefixFunction ==
  ASSUME NEW n \in Nat, NEW m \in 0 .. n, NEW f, f = [i \in 1 .. n |-> f[i]]
  PROVE  SubSeq(f, 1, m) = [i \in 1 .. m |-> f[i]]
<1> DEFINE S == {f[i] : i \in 1 .. n}
<1>1. f \in [1 .. n -> S] OBVIOUS
<1>2. f \in Seq(S) /\ Len(f) = n BY <1>1
<1> HIDE DEF S
<1>3. Len(SubSeq(f, 1, m)) = m /\ SubSeq(f, 1, m) \in Seq(S)
      /\ \A i \in 1 .. m : SubSeq(f, 1, m)[i] = f[i]
  BY <1>2
<1> QED BY <1>3

-----------------------------------------------------------------------------
\* The arguments of a job, and the generators.

\* The arguments of a job have their types.
LEMMA ArgsType ==
  ASSUME args \in Configs
  PROVE  /\ args.data_parallel_size \in Nat \ {0}
         /\ args.tensor_model_parallel_size \in Nat \ {0}
         /\ args.pipeline_rank \in Nat
         /\ args.data_parallel_random_init \in BOOLEAN /\ args.sequence_parallel \in BOOLEAN
         /\ args.pre_process \in BOOLEAN
         /\ args.num_layers \in Nat \ {0} /\ args.recompute_num_layers \in Nat \ {0}
         /\ args.num_microbatches \in Nat \ {0}
         /\ args.recompute \in {"none", "selective", "uniform", "block"}
         /\ args.recompute = "uniform" => args.num_layers % args.recompute_num_layers = 0
BY ConfigsAssumption DEF Config

\* What a forward pass draws.
LEMMA DrawsType ==
  ASSUME args \in Configs
  PROVE  /\ Masked \in {0, 1} /\ CudaDraws \in Nat /\ TrackerDraws \in Nat \ {0}
         /\ ~args.sequence_parallel => CudaDraws \in Nat \ {0}
BY ArgsType DEF Masked, CudaDraws, TrackerDraws

\* Seeds are numbers; those of the tracker differ from those of the device
\* and from one another within a tensor-parallel group.
LEMMA Seeds ==
  ASSUME args \in Configs, NEW r \in Ranks
  PROVE  /\ DataParallelSeed(r) \in Nat /\ TensorModelParallelSeed(r) \in Nat
         /\ \A q \in Ranks : r[1] = q[1] =>
              /\ DataParallelSeed(r) = DataParallelSeed(q)
              /\ DataParallelSeed(r) # TensorModelParallelSeed(q)
              /\ TensorModelParallelSeed(r) = TensorModelParallelSeed(q) => r = q
<1>1. \A q \in Ranks : q[1] \in Nat /\ q[2] \in Nat /\ q = <<q[1], q[2]>>
  BY ArgsType DEF Ranks
<1>2. \A q \in Ranks : DataParallelSeed(q) \in Nat
  BY <1>1, ArgsType, BoundsAssumption DEF DataParallelSeed
<1>3. \A q \in Ranks : r[1] = q[1] => DataParallelSeed(r) = DataParallelSeed(q)
  BY DEF DataParallelSeed
<1>4. \A q \in Ranks : TensorModelParallelSeed(q) = DataParallelSeed(q) + 2718 + q[2]
  BY DEF TensorModelParallelSeed
<1> QED BY <1>1, <1>2, <1>3, <1>4

\* Generators are generators.
LEMMA GeneratorTypes ==
  ASSUME args \in Configs, NEW r \in Ranks, NEW n \in Nat
  PROVE  Base(r, n) \in Pairs /\ InLayers(r, n) \in Pairs
<1>1. /\ DataParallelSeed(r) \in Nat /\ TensorModelParallelSeed(r) \in Nat
      /\ n * CudaDraws \in Nat /\ n * TrackerDraws \in Nat /\ Masked \in Nat
  BY Seeds, DrawsType
<1> QED BY <1>1 DEF Base, InLayers, Pair, Gen, Pairs, Generator

\* So are those after some layers, and layers can be counted on.
LEMMA AfterFacts ==
  ASSUME NEW g \in Pairs, NEW a \in Nat
  PROVE  /\ After(g, a) \in Pairs /\ After(g, 0) = g
         /\ \A b \in Nat : After(After(g, a), b) = After(g, a + b)
<1>1. /\ g = Pair(g.cuda, g.tracker) /\ g.cuda = Gen(g.cuda.seed, g.cuda.count)
      /\ g.tracker = Gen(g.tracker.seed, g.tracker.count)
      /\ g.cuda.seed \in Nat /\ g.cuda.count \in Nat
      /\ g.tracker.seed \in Nat /\ g.tracker.count \in Nat
  BY DEF Pairs, Generator, Pair, Gen
<1>2. After(g, a) \in Pairs BY <1>1 DEF After, Pair, Gen, Pairs, Generator
<1>3. After(g, 0) = g BY <1>1 DEF After, Pair, Gen
<1>4. ASSUME NEW b \in Nat PROVE After(After(g, a), b) = After(g, a + b)
  <2>1. CASE args.sequence_parallel
    <3>1. After(g, a).cuda.seed = g.cuda.seed /\ After(g, a).cuda.count = g.cuda.count + 3 * a
          /\ After(g, a).tracker = g.tracker
      BY <2>1 DEF After, Pair, Gen
    <3>2. g.cuda.count + 3 * a + 3 * b = g.cuda.count + 3 * (a + b) BY <1>1
    <3> QED BY <2>1, <3>1, <3>2 DEF After
  <2>2. CASE ~args.sequence_parallel
    <3>1. /\ After(g, a).cuda.seed = g.cuda.seed /\ After(g, a).cuda.count = g.cuda.count + 2 * a
          /\ After(g, a).tracker.seed = g.tracker.seed
          /\ After(g, a).tracker.count = g.tracker.count + a
      BY <2>2 DEF After, Pair, Gen
    <3>2. /\ g.cuda.count + 2 * a + 2 * b = g.cuda.count + 2 * (a + b)
          /\ g.tracker.count + a + b = g.tracker.count + (a + b)
      BY <1>1
    <3> QED BY <2>2, <3>1, <3>2 DEF After
  <2> QED BY <2>1, <2>2
<1> QED BY <1>2, <1>3, <1>4

\* Quotient and remainder of the places in a layer.
LEMMA LayerPlace ==
  ASSUME NEW p \in Nat \ {0}, NEW k \in Nat
  PROVE  /\ (p + 3 * k - 1) % 3 = (p - 1) % 3
         /\ (p + 3 * k - 1) \div 3 = ((p - 1) \div 3) + k
         /\ (p - 1) \div 3 \in Nat /\ (p - 1) % 3 \in {0, 1, 2}
         /\ p - 1 = 3 * ((p - 1) \div 3) + ((p - 1) % 3)
<1> DEFINE x == p - 1
           y == p + 3 * k - 1
           q == x \div 3
           m == x % 3
<1>1. x \in Nat /\ y \in Nat /\ y = x + k * 3 /\ 3 \in Nat \ {0} OBVIOUS
<1> HIDE DEF x, y
<1>2. q \in Nat /\ m \in 0 .. 2 /\ x = q * 3 + m BY <1>1, Quotient, QuotientOfNat
<1> HIDE DEF q, m
<1>3. y = (q + k) * 3 + m BY <1>1, <1>2
<1>4. y \div 3 = q + k /\ y % 3 = m BY <1>2, <1>3, ExactQuotient
<1> QED BY <1>2, <1>4 DEF x, y, q, m

\* The masks of layers are those of the first, then those of the others.
LEMMA MasksConcat ==
  ASSUME NEW g \in Pairs, NEW a \in Nat, NEW b \in Nat
  PROVE  LayerMasks(g, a) \o LayerMasks(After(g, a), b) = LayerMasks(g, a + b)
<1>1. /\ g.cuda.seed \in Nat /\ g.cuda.count \in Nat
      /\ g.tracker.seed \in Nat /\ g.tracker.count \in Nat
  BY DEF Pairs, Generator
<1> DEFINE h == After(g, a)
<1>2. ASSUME NEW p \in Nat \ {0} PROVE LayerMask(h, p) = LayerMask(g, p + 3 * a)
  <2>1. CASE args.sequence_parallel
    <3>1. h.cuda.seed = g.cuda.seed /\ h.cuda.count = g.cuda.count + 3 * a
      BY <2>1 DEF After, Pair, Gen
    <3>2. g.cuda.count + 3 * a + p - 1 = g.cuda.count + (p + 3 * a) - 1 BY <1>1
    <3> QED BY <2>1, <3>1, <3>2 DEF LayerMask
  <2>2. CASE ~args.sequence_parallel
    <3> DEFINE l == (p - 1) \div 3
               m == (p - 1) % 3
    <3>1. /\ h.cuda.seed = g.cuda.seed /\ h.cuda.count = g.cuda.count + 2 * a
          /\ h.tracker.seed = g.tracker.seed /\ h.tracker.count = g.tracker.count + a
      BY <2>2 DEF After, Pair, Gen
    <3>2. /\ (p + 3 * a - 1) % 3 = m /\ (p + 3 * a - 1) \div 3 = l + a
          /\ l \in Nat /\ m \in {0, 1, 2}
      BY LayerPlace
    <3>3. /\ g.cuda.count + 2 * a + 2 * l + m - 1 = g.cuda.count + 2 * (l + a) + m - 1
          /\ g.tracker.count + a + l = g.tracker.count + (l + a)
      <4> HIDE DEF l, m
      <4> QED BY <1>1, <3>2
    <3> QED BY <2>2, <3>1, <3>2, <3>3 DEF LayerMask
  <2> QED BY <2>1, <2>2
<1> DEFINE u == LayerMasks(g, a)
           v == LayerMasks(h, b)
<1>3. u = [p \in 1 .. 3 * a |-> u[p]] /\ v = [p \in 1 .. 3 * b |-> v[p]]
  BY DEF LayerMasks
<1>4. u \o v = [p \in 1 .. 3 * a + 3 * b |-> IF p <= 3 * a THEN u[p] ELSE v[p - 3 * a]]
  <2> DEFINE x == 3 * a
             y == 3 * b
  <2>1. x \in Nat /\ y \in Nat OBVIOUS
  <2>2. u = [p \in 1 .. x |-> u[p]] /\ v = [p \in 1 .. y |-> v[p]] BY <1>3
  <2> HIDE DEF u, v, x, y
  <2>3. u \o v = [p \in 1 .. x + y |-> IF p <= x THEN u[p] ELSE v[p - x]]
    BY SMTT(60), <2>1, <2>2, ConcatFunction
  <2> QED BY <2>3 DEF x, y
<1>5. ASSUME NEW p \in 1 .. 3 * a + 3 * b
      PROVE  (IF p <= 3 * a THEN u[p] ELSE v[p - 3 * a]) = LayerMask(g, p)
  <2>1. CASE p <= 3 * a BY <2>1 DEF LayerMasks
  <2>2. CASE ~(p <= 3 * a)
    <3>1. p - 3 * a \in 1 .. 3 * b /\ p - 3 * a \in Nat \ {0} /\ p - 3 * a + 3 * a = p
      BY <2>2
    <3>2. v[p - 3 * a] = LayerMask(h, p - 3 * a) BY <3>1 DEF LayerMasks
    <3>3. LayerMask(h, p - 3 * a) = LayerMask(g, p - 3 * a + 3 * a) BY <3>1, <1>2
    <3> QED BY <2>2, <3>1, <3>2, <3>3
  <2> QED BY <2>1, <2>2
<1>6. LayerMasks(g, a + b) = [p \in 1 .. 3 * a + 3 * b |-> LayerMask(g, p)]
  BY DEF LayerMasks
<1> QED BY <1>4, <1>5, <1>6

\* No layer draws no mask.
LEMMA NoMasks == \A g : LayerMasks(g, 0) = <<>>
BY DEF LayerMasks

\* The fields of a run are all there is of it.
LEMMA RunFields ==
  ASSUME NEW S, NEW T, NEW M, NEW z \in [cuda : S, tracker : T, masks : M]
  PROVE  z = Run(z.cuda, z.tracker, z.masks)
BY DEF Run

\* Entering a fork.
LEMMA ForkRun ==
  ASSUME NEW c, NEW t, NEW m
  PROVE  Fork(Run(c, t, m)) = Run(t, t, m)
<1> DEFINE z == Fork(Run(c, t, m))
<1>1. Run(c, t, m) \in [cuda : {c}, tracker : {t}, masks : {m}] /\ Run(c, t, m).tracker = t
  BY DEF Run
<1>2. z \in [cuda : {t}, tracker : {t}, masks : {m}] BY <1>1 DEF Fork
<1> HIDE DEF z
<1> QED BY <1>2, RunFields DEF z

\* Leaving one that was entered with the generator o.
LEMMA JoinRun ==
  ASSUME NEW c, NEW t, NEW m, NEW o
  PROVE  Join(Run(c, t, m), o) = Run(o, c, m)
<1> DEFINE z == Join(Run(c, t, m), o)
<1>1. Run(c, t, m) \in [cuda : {c}, tracker : {t}, masks : {m}] /\ Run(c, t, m).cuda = c
  BY DEF Run
<1>2. z \in [cuda : {o}, tracker : {c}, masks : {m}] BY <1>1 DEF Join
<1> HIDE DEF z
<1> QED BY <1>2, RunFields DEF z

\* The same of generators alone.
LEMMA ForkPair ==
  ASSUME NEW c, NEW t
  PROVE  Fork(Pair(c, t)) = Pair(t, t)
<1> DEFINE z == Fork(Pair(c, t))
<1>1. Pair(c, t) \in [cuda : {c}, tracker : {t}] /\ Pair(c, t).tracker = t
  BY DEF Pair
<1>2. z \in [cuda : {t}, tracker : {t}] BY <1>1 DEF Fork
<1> HIDE DEF z
<1>3. z = Pair(t, t) BY <1>2 DEF Pair
<1> QED BY <1>3 DEF z

\* Leaving a fork, for generators alone.
LEMMA JoinPair ==
  ASSUME NEW c, NEW t, NEW o
  PROVE  Join(Pair(c, t), o) = Pair(o, c)
<1> DEFINE z == Join(Pair(c, t), o)
<1>1. Pair(c, t) \in [cuda : {c}, tracker : {t}] /\ Pair(c, t).cuda = c BY DEF Pair
<1>2. z \in [cuda : {o}, tracker : {c}] BY <1>1 DEF Join
<1> HIDE DEF z
<1>3. z = Pair(o, c) BY <1>2 DEF Pair
<1> QED BY <1>3 DEF z

\* A dropout draws a mask.
LEMMA DropoutRun ==
  ASSUME NEW s, NEW k \in Nat, NEW t, NEW m
  PROVE  Dropout(Run(Gen(s, k), t, m)) = Run(Gen(s, k + 1), t, Append(m, Gen(s, k)))
<1> DEFINE g == Gen(s, k)
           h == [g EXCEPT !.count = @ + 1]
           y == Append(m, g)
           z == Dropout(Run(g, t, m))
<1>1. /\ Run(g, t, m) \in [cuda : {g}, tracker : {t}, masks : {m}]
      /\ Run(g, t, m).cuda = g /\ Run(g, t, m).masks = m
  BY DEF Run
<1>2. g \in [seed : {s}, count : {k}] /\ g.count = k BY DEF Gen
<1>3. h \in [seed : {s}, count : {k + 1}] BY <1>2
<1>4. h = Gen(s, k + 1) BY <1>3 DEF Gen
<1>5. z = [Run(g, t, m) EXCEPT !.masks = y, !.cuda = h] BY <1>1 DEF Dropout
<1> HIDE DEF g, h, y
<1>6. z \in [cuda : {h}, tracker : {t}, masks : {y}]
  <2> HIDE DEF z
  <2> QED BY <1>1, <1>5
<1> HIDE DEF z
<1> QED BY <1>4, <1>6, RunFields DEF g, h, y, z

\* What a layer draws with generators g, after the masks ms.
LEMMA LayerRun ==
  ASSUME args \in Configs, NEW g \in Pairs, NEW n \in Nat, NEW ms, ms = [i \in 1 .. n |-> ms[i]]
  PROVE  Layer(Run(g.cuda, g.tracker, ms)) =
           Run(After(g, 1).cuda, After(g, 1).tracker, ms \o LayerMasks(g, 1))
<1>1. /\ g.cuda = Gen(g.cuda.seed, g.cuda.count)
      /\ g.tracker = Gen(g.tracker.seed, g.tracker.count)
      /\ g.cuda.seed \in Nat /\ g.cuda.count \in Nat
      /\ g.tracker.seed \in Nat /\ g.tracker.count \in Nat
  BY DEF Pairs, Generator, Gen
<1> DEFINE c0 == g.cuda.count
<1>2. ASSUME NEW s \in Nat, NEW k \in Nat, NEW t, NEW m
      PROVE  Dropout(Run(Gen(s, k), t, m)) = Run(Gen(s, k + 1), t, Append(m, Gen(s, k)))
  BY DropoutRun
<1>3. ms \o LayerMasks(g, 1) =
        Append(Append(Append(ms, LayerMask(g, 1)), LayerMask(g, 2)), LayerMask(g, 3))
  <2> DEFINE u == LayerMasks(g, 1)
             a == Append(ms, LayerMask(g, 1))
             b == Append(a, LayerMask(g, 2))
  <2>1. u = [p \in 1 .. 3 |-> u[p]] /\ u[1] = LayerMask(g, 1) /\ u[2] = LayerMask(g, 2)
        /\ u[3] = LayerMask(g, 3)
    BY DEF LayerMasks
  <2>2. ms \o u = [i \in 1 .. n + 3 |-> IF i <= n THEN ms[i] ELSE u[i - n]]
    <3> HIDE DEF u
    <3> QED BY <2>1, ConcatFunction
  <2>3. a = [i \in 1 .. n + 1 |-> IF i <= n THEN ms[i] ELSE LayerMask(g, 1)]
    BY AppendFunction
  <2>4. b = [i \in 1 .. n + 2 |-> IF i <= n + 1 THEN a[i] ELSE LayerMask(g, 2)]
    <3>1. a = [i \in 1 .. n + 1 |-> a[i]] /\ n + 1 \in Nat /\ n + 1 + 1 = n + 2
      BY <2>3
    <3> HIDE DEF a
    <3>2. Append(a, LayerMask(g, 2)) =
            [i \in 1 .. n + 1 + 1 |-> IF i <= n + 1 THEN a[i] ELSE LayerMask(g, 2)]
      BY <3>1, AppendFunction
    <3> QED BY <3>1, <3>2
  <2>5. Append(b, LayerMask(g, 3)) =
          [i \in 1 .. n + 3 |-> IF i <= n + 2 THEN b[i] ELSE LayerMask(g, 3)]
    <3>1. b = [i \in 1 .. n + 2 |-> b[i]] /\ n + 2 \in Nat /\ n + 2 + 1 = n + 3
      BY <2>4
    <3> HIDE DEF b
    <3>2. Append(b, LayerMask(g, 3)) =
            [i \in 1 .. n + 2 + 1 |-> IF i <= n + 2 THEN b[i] ELSE LayerMask(g, 3)]
      BY <3>1, AppendFunction
    <3> QED BY <3>1, <3>2
  <2> HIDE DEF u, a, b
  <2>6. \A i \in 1 .. n + 3 : (IF i <= n THEN ms[i] ELSE u[i - n]) =
                              (IF i <= n + 2 THEN b[i] ELSE LayerMask(g, 3))
    BY <2>1, <2>3, <2>4
  <2> QED BY <2>2, <2>5, <2>6 DEF u, a, b
<1>4. CASE args.sequence_parallel
  <2>1. /\ LayerMask(g, 1) = Gen(g.cuda.seed, c0) /\ LayerMask(g, 2) = Gen(g.cuda.seed, c0 + 1)
        /\ LayerMask(g, 3) = Gen(g.cuda.seed, c0 + 2)
    BY <1>1, <1>4 DEF LayerMask
  <2>2. After(g, 1).cuda = Gen(g.cuda.seed, c0 + 3) /\ After(g, 1).tracker = g.tracker
    BY <1>1, <1>4 DEF After, Pair
  <2>3. Layer(Run(g.cuda, g.tracker, ms)) = Dropout(Dropout(Dropout(Run(g.cuda, g.tracker, ms))))
    BY <1>4 DEF Layer, Residuals, Attention
  <2>4. /\ c0 \in Nat /\ c0 + 1 \in Nat /\ c0 + 2 \in Nat
        /\ c0 + 1 + 1 = c0 + 2 /\ c0 + 2 + 1 = c0 + 3
    BY SMTT(60), <1>1
  <2> HIDE DEF c0
  <2>5. Dropout(Run(g.cuda, g.tracker, ms)) =
          Run(Gen(g.cuda.seed, c0 + 1), g.tracker, Append(ms, LayerMask(g, 1)))
    BY <1>1, <1>2, <2>1 DEF c0
  <2>6. Dropout(Run(Gen(g.cuda.seed, c0 + 1), g.tracker, Append(ms, LayerMask(g, 1)))) =
          Run(Gen(g.cuda.seed, c0 + 2), g.tracker,
            Append(Append(ms, LayerMask(g, 1)), LayerMask(g, 2)))
    BY SMTT(60), <1>1, <1>2, <2>1, <2>4
  <2>7. Dropout(Run(Gen(g.cuda.seed, c0 + 2), g.tracker,
                  Append(Append(ms, LayerMask(g, 1)), LayerMask(g, 2)))) =
          Run(Gen(g.cuda.seed, c0 + 3), g.tracker,
            Append(Append(Append(ms, LayerMask(g, 1)), LayerMask(g, 2)), LayerMask(g, 3)))
    BY SMTT(60), <1>1, <1>2, <2>1, <2>4
  <2> QED BY <1>3, <2>2, <2>3, <2>5, <2>6, <2>7
<1>5. CASE ~args.sequence_parallel
  <2> DEFINE t0 == g.tracker.count
             ts == g.tracker.seed
             cs == g.cuda.seed
  <2>1. /\ LayerMask(g, 1) = Gen(ts, t0) /\ LayerMask(g, 2) = Gen(cs, c0)
        /\ LayerMask(g, 3) = Gen(cs, c0 + 1)
    BY <1>1, <1>5 DEF LayerMask
  <2>2. After(g, 1).cuda = Gen(cs, c0 + 2) /\ After(g, 1).tracker = Gen(ts, t0 + 1)
    BY <1>1, <1>5 DEF After, Pair
  <2>3. Layer(Run(g.cuda, g.tracker, ms)) =
          Dropout(Dropout(ForkedDropout(Run(g.cuda, g.tracker, ms))))
    BY <1>5 DEF Layer, Residuals, Attention
  <2>4. ForkedDropout(Run(g.cuda, g.tracker, ms)) =
          Run(g.cuda, Gen(ts, t0 + 1), Append(ms, LayerMask(g, 1)))
    <3>1. Fork(Run(g.cuda, g.tracker, ms)) = Run(Gen(ts, t0), g.tracker, ms)
      BY <1>1, ForkRun
    <3>2. Dropout(Run(Gen(ts, t0), g.tracker, ms)) =
            Run(Gen(ts, t0 + 1), g.tracker, Append(ms, Gen(ts, t0)))
      BY <1>1, <1>2
    <3>3. Join(Run(Gen(ts, t0 + 1), g.tracker, Append(ms, Gen(ts, t0))), g.cuda) =
            Run(g.cuda, Gen(ts, t0 + 1), Append(ms, Gen(ts, t0)))
      BY JoinRun
    <3>4. Run(g.cuda, g.tracker, ms).cuda = g.cuda BY DEF Run
    <3> QED BY <2>1, <3>1, <3>2, <3>3, <3>4 DEF ForkedDropout
  <2>5. c0 \in Nat /\ c0 + 1 \in Nat /\ c0 + 1 + 1 = c0 + 2 BY <1>1
  <2>6. Dropout(Run(g.cuda, Gen(ts, t0 + 1), Append(ms, LayerMask(g, 1)))) =
          Run(Gen(cs, c0 + 1), Gen(ts, t0 + 1),
              Append(Append(ms, LayerMask(g, 1)), LayerMask(g, 2)))
    BY <1>1, <1>2, <2>1
  <2>7. Dropout(Run(Gen(cs, c0 + 1), Gen(ts, t0 + 1),
                  Append(Append(ms, LayerMask(g, 1)), LayerMask(g, 2)))) =
          Run(Gen(cs, c0 + 2), Gen(ts, t0 + 1),
            Append(Append(Append(ms, LayerMask(g, 1)), LayerMask(g, 2)), LayerMask(g, 3)))
    <3> HIDE DEF c0
    <3> QED BY <1>1, <1>2, <2>1, <2>5
  <2> QED BY <1>3, <2>2, <2>3, <2>4, <2>6, <2>7
<1> QED BY <1>4, <1>5

\* The first of a unit.
LEMMA FirstDropout ==
  ASSUME NEW s, NEW k \in Nat, NEW t
  PROVE  Dropout(Run(Gen(s, k), t, <<>>)) = Run(Gen(s, k + 1), t, <<Gen(s, k)>>)
<1> DEFINE m == <<>>
<1>1. \A x : Append(m, x) = <<x>> OBVIOUS
<1> HIDE DEF m
<1>2. Dropout(Run(Gen(s, k), t, m)) = Run(Gen(s, k + 1), t, Append(m, Gen(s, k)))
  BY DropoutRun
<1>3. Dropout(Run(Gen(s, k), t, m)) = Run(Gen(s, k + 1), t, <<Gen(s, k)>>)
  BY <1>1, <1>2
<1> QED BY <1>3 DEF m

\* The attention of a layer draws the first mask of the layer.
LEMMA AttentionMask ==
  ASSUME args \in Configs, NEW g \in Pairs
  PROVE  Attention(Start(g)).masks = <<LayerMask(g, 1)>>
<1> DEFINE cs == g.cuda.seed
           cc == g.cuda.count
           ts == g.tracker.seed
           tc == g.tracker.count
<1>1. /\ g.cuda = Gen(cs, cc) /\ g.tracker = Gen(ts, tc)
      /\ cs \in Nat /\ cc \in Nat /\ ts \in Nat /\ tc \in Nat
  BY DEF Pairs, Generator, Gen
<1>2. Start(g) = Run(Gen(cs, cc), Gen(ts, tc), <<>>)
  <2>1. Start(g) = Run(g.cuda, g.tracker, <<>>) BY DEF Start, Run
  <2> QED BY <1>1, <2>1
<1>3. LayerMask(g, 1) = IF args.sequence_parallel THEN Gen(cs, cc) ELSE Gen(ts, tc)
  BY <1>1 DEF LayerMask
<1>5. \A x, y, z : Run(x, y, z).cuda = x /\ Run(x, y, z).masks = z BY DEF Run
<1> HIDE DEF cs, cc, ts, tc
<1>6. CASE args.sequence_parallel
  <2>1. Attention(Start(g)) = Dropout(Run(Gen(cs, cc), Gen(ts, tc), <<>>))
    BY <1>2, <1>6 DEF Attention
  <2>2. Attention(Start(g)) = Run(Gen(cs, cc + 1), Gen(ts, tc), <<Gen(cs, cc)>>)
    BY <1>1, <2>1, FirstDropout
  <2> QED BY <1>3, <1>5, <1>6, <2>2
<1>7. CASE ~args.sequence_parallel
  <2>1. Attention(Start(g)) = ForkedDropout(Run(Gen(cs, cc), Gen(ts, tc), <<>>))
    BY <1>2, <1>7 DEF Attention
  <2>2. Dropout(Fork(Run(Gen(cs, cc), Gen(ts, tc), <<>>))) =
          Run(Gen(ts, tc + 1), Gen(ts, tc), <<Gen(ts, tc)>>)
    <3>1. Fork(Run(Gen(cs, cc), Gen(ts, tc), <<>>)) = Run(Gen(ts, tc), Gen(ts, tc), <<>>)
      BY ForkRun
    <3> QED BY <1>1, <3>1, FirstDropout
  <2>3. Attention(Start(g)) = Run(Gen(cs, cc), Gen(ts, tc + 1), <<Gen(ts, tc)>>)
    <3>1. Attention(Start(g)) =
            Join(Run(Gen(ts, tc + 1), Gen(ts, tc), <<Gen(ts, tc)>>), Gen(cs, cc))
      BY <1>5, <2>1, <2>2 DEF ForkedDropout
    <3> QED BY <3>1, JoinRun
  <2> QED BY <1>3, <1>5, <1>7, <2>3
<1> QED BY <1>6, <1>7

\* What n layers draw.
LEMMA LayersRun ==
  ASSUME args \in Configs, NEW g \in Pairs, NEW n \in Nat
  PROVE  Layers(Start(g), n) = Run(After(g, n).cuda, After(g, n).tracker, LayerMasks(g, n))
<1> DEFINE R(k) == Run(After(g, k).cuda, After(g, k).tracker, LayerMasks(g, k))
           Steps(f) == f = [k \in 0 .. n |-> IF k = 0 THEN Start(g) ELSE Layer(f[k - 1])]
<1>1. R(0) = Start(g) BY AfterFacts, NoMasks DEF Start, Run
<1>2. ASSUME NEW k \in Nat PROVE R(k + 1) = Layer(R(k))
  <2> DEFINE ms == LayerMasks(g, k)
             h == After(g, k)
  <2>1. h \in Pairs /\ After(h, 1) = After(g, k + 1) BY AfterFacts
  <2>2. ms = [i \in 1 .. 3 * k |-> ms[i]] /\ 3 * k \in Nat BY DEF LayerMasks
  <2>3. ms \o LayerMasks(h, 1) = LayerMasks(g, k + 1) BY MasksConcat
  <2> HIDE DEF ms, h
  <2>4. Layer(Run(h.cuda, h.tracker, ms)) =
          Run(After(h, 1).cuda, After(h, 1).tracker, ms \o LayerMasks(h, 1))
    BY <2>1, <2>2, LayerRun
  <2> QED BY <2>1, <2>3, <2>4 DEF ms, h
<1> HIDE DEF R
<1>3. Steps([k \in 0 .. n |-> R(k)])
  <2> DEFINE f == [k \in 0 .. n |-> R(k)]
  <2>1. \A k \in 0 .. n : R(k) = IF k = 0 THEN Start(g) ELSE Layer(f[k - 1])
    <3>1. ASSUME NEW k \in 1 .. n PROVE R(k) = Layer(f[k - 1])
      <4>1. k - 1 \in Nat /\ k - 1 \in 0 .. n /\ k - 1 + 1 = k OBVIOUS
      <4>2. R(k - 1 + 1) = Layer(R(k - 1)) BY <4>1, <1>2
      <4> QED BY <4>1, <4>2
    <3> QED BY <1>1, <3>1
  <2> QED BY <2>1
<1> DEFINE after == CHOOSE f : Steps(f)
<1>4. Steps(after)
  <2> HIDE DEF Steps
  <2> QED BY <1>3
<1>5. Layers(Start(g), n) = after[n] BY DEF Layers
<1>6. after[n] = R(n)
  <2> DEFINE T == {k \in Nat : k <= n => after[k] = R(k)}
  <2>1. \A k \in 0 .. n : after[k] = IF k = 0 THEN Start(g) ELSE Layer(after[k - 1])
    BY <1>4
  <2> HIDE DEF after
  <2>2. 0 \in T BY <1>1, <2>1
  <2>3. ASSUME NEW k \in T PROVE k + 1 \in T
    <3> SUFFICES ASSUME k + 1 <= n PROVE after[k + 1] = R(k + 1)
      OBVIOUS
    <3>1. after[k + 1] = Layer(after[k + 1 - 1]) /\ k + 1 - 1 = k /\ after[k] = R(k)
      BY <2>1
    <3> QED BY <1>2, <3>1
  <2>4. T = Nat
    <3> HIDE DEF T
    <3>1. T \in SUBSET Nat BY DEF T
    <3> QED BY <2>2, <2>3, <3>1, SetInduction
  <2> QED BY <2>4
<1> QED BY <1>5, <1>6 DEF R

-----------------------------------------------------------------------------
\* The parts of a pass.

\* The units of a pass are its layers.
LEMMA UnitsFacts ==
  ASSUME args \in Configs
  PROVE  /\ UnitLayers \in Nat \ {0} /\ Len(Units) \in Nat \ {0}
         /\ Len(Units) * UnitLayers = args.num_layers
         /\ \A u \in 1 .. Len(Units) :
              /\ Units[u].layers = UnitLayers
              /\ Units[u].recomputed \in {"all", "attention", "nothing"}
              /\ Units[u].recomputed = "attention" => UnitLayers = 1
<1> DEFINE l == args.num_layers
           m == args.recompute_num_layers
<1>1. CASE args.recompute = "uniform"
  <2> DEFINE q == l \div m
  <2>1. q \in Nat /\ l = q * m + (l % m) /\ l % m = 0
    <3>1. l \in Nat /\ m \in Nat \ {0} /\ l % m = 0 BY <1>1, ArgsType
    <3> HIDE DEF l, m
    <3> QED BY <3>1, Quotient, QuotientOfNat
  <2>2. Units = [u \in 1 .. q |-> [recomputed |-> "all", layers |-> m]]
    BY <1>1 DEF Units
  <2> HIDE DEF q
  <2>3. Units = [u \in 1 .. q |-> Units[u]] BY <2>2
  <2>4. Len(Units) = q BY <2>1, <2>3, FunctionSeq
  <2>5. q # 0 /\ q * m = l
    <3>1. l \in Nat \ {0} /\ m \in Nat \ {0} BY ArgsType
    <3> HIDE DEF l, m
    <3> QED BY <2>1, <3>1
  <2> QED BY <1>1, <2>1, <2>2, <2>4, <2>5, ArgsType DEF UnitLayers
<1>2. CASE args.recompute # "uniform"
  <2> DEFINE what(u) == IF args.recompute = "selective" THEN "attention"
                        ELSE IF args.recompute = "block" /\ u <= m THEN "all" ELSE "nothing"
  <2>1. Units = [u \in 1 .. l |-> [recomputed |-> what(u), layers |-> 1]]
    BY <1>2 DEF Units
  <2>2. \A u \in 1 .. l : what(u) \in {"all", "attention", "nothing"} OBVIOUS
  <2> HIDE DEF what
  <2>3. Units = [u \in 1 .. l |-> Units[u]] BY <2>1
  <2>4. l \in Nat BY ArgsType
  <2>5. Len(Units) = l
    <3> HIDE DEF l
    <3> QED BY <2>3, <2>4, FunctionSeq
  <2> QED BY <1>2, <2>1, <2>2, <2>5, ArgsType DEF UnitLayers
<1> QED BY <1>1, <1>2

\* The embedding, and the fork around the layers.
LEMMA EmbeddingRun ==
  ASSUME args \in Configs, NEW r \in Ranks, NEW n \in Nat, NEW run,
         run = Embedding(Start(Base(r, n)))
  PROVE  /\ run.masks = EmbeddingMasks(r, n)
         /\ run.cuda \in Generator
         /\ (IF args.sequence_parallel THEN Fork(Generators(run)) ELSE Generators(run)) =
              InLayers(r, n)
         /\ args.sequence_parallel => run.cuda = Gen(DataParallelSeed(r), n * CudaDraws)
<1> DEFINE s == DataParallelSeed(r)
           t == TensorModelParallelSeed(r)
           c == n * CudaDraws
           d == n * TrackerDraws
<1>1. s \in Nat /\ t \in Nat /\ c \in Nat /\ d \in Nat BY Seeds, DrawsType
<1>2. Start(Base(r, n)) = Run(Gen(s, c), Gen(t, d), <<>>)
  BY DEF Start, Base, Pair, Run
<1>4. \A x, y, z : Generators(Run(x, y, z)) = Pair(x, y)
  BY DEF Generators, Run, Pair
<1>5. \A x, y, z : Run(x, y, z).cuda = x /\ Run(x, y, z).masks = z BY DEF Run
<1>6. \A x, y : Fork(Pair(x, y)) = Pair(y, y) BY ForkPair
<1>7. \A k \in Nat : Gen(s, k) \in Generator BY <1>1 DEF Gen, Generator
<1>8. CASE ~args.pre_process
  <2>1. run = Run(Gen(s, c), Gen(t, d), <<>>) BY <1>2, <1>8 DEF Embedding
  <2>2. InLayers(r, n) = IF args.sequence_parallel THEN Pair(Gen(t, d), Gen(t, d))
                         ELSE Pair(Gen(s, c), Gen(t, d))
    <3>1. d + 0 = d /\ c + 0 = c /\ Masked = 0 BY <1>1, <1>8 DEF Masked
    <3> QED BY <3>1 DEF InLayers
  <2> HIDE DEF s, t, c, d
  <2>3. run.masks = <<>> /\ run.cuda = Gen(s, c) /\ Generators(run) = Pair(Gen(s, c), Gen(t, d))
    BY <1>4, <1>5, <2>1
  <2> QED BY <1>1, <1>6, <1>7, <1>8, <2>2, <2>3 DEF EmbeddingMasks, s, c
<1>9. CASE args.pre_process /\ args.sequence_parallel
  <2>1. run = ForkedDropout(Run(Gen(s, c), Gen(t, d), <<>>))
    BY <1>2, <1>9 DEF Embedding
  <2>2. InLayers(r, n) = Pair(Gen(t, d + 1), Gen(t, d + 1))
    BY <1>9 DEF InLayers, Masked
  <2>3. EmbeddingMasks(r, n) = <<Gen(t, d)>> BY <1>9 DEF EmbeddingMasks
  <2> HIDE DEF s, t, c, d
  <2>4. Fork(Run(Gen(s, c), Gen(t, d), <<>>)) = Run(Gen(t, d), Gen(t, d), <<>>)
    BY ForkRun
  <2>5. Dropout(Run(Gen(t, d), Gen(t, d), <<>>)) =
          Run(Gen(t, d + 1), Gen(t, d), <<Gen(t, d)>>)
    BY <1>1, FirstDropout
  <2>6. run = Run(Gen(s, c), Gen(t, d + 1), <<Gen(t, d)>>)
    <3>1. run = Join(Run(Gen(t, d + 1), Gen(t, d), <<Gen(t, d)>>), Gen(s, c))
      BY <1>5, <2>1, <2>4, <2>5 DEF ForkedDropout
    <3> QED BY <3>1, JoinRun
  <2>7. /\ run.masks = <<Gen(t, d)>> /\ run.cuda = Gen(s, c)
        /\ Generators(run) = Pair(Gen(s, c), Gen(t, d + 1))
    BY <1>4, <1>5, <2>6
  <2> QED BY <1>1, <1>6, <1>7, <1>9, <2>2, <2>3, <2>7 DEF s, c
<1>10. CASE args.pre_process /\ ~args.sequence_parallel
  <2>1. run = Dropout(Run(Gen(s, c), Gen(t, d), <<>>)) BY <1>2, <1>10 DEF Embedding
  <2>2. InLayers(r, n) = Pair(Gen(s, c + 1), Gen(t, d))
    BY <1>10 DEF InLayers, Masked
  <2>3. EmbeddingMasks(r, n) = <<Gen(s, c)>> BY <1>10 DEF EmbeddingMasks
  <2> HIDE DEF s, t, c, d
  <2>4. run = Run(Gen(s, c + 1), Gen(t, d), <<Gen(s, c)>>)
    BY <1>1, <2>1, FirstDropout
  <2>5. run.masks = <<Gen(s, c)>> /\ run.cuda = Gen(s, c + 1)
        /\ Generators(run) = Pair(Gen(s, c + 1), Gen(t, d))
    BY <1>4, <1>5, <2>4
  <2> QED BY <1>1, <1>7, <1>10, <2>2, <2>3, <2>5
<1> QED BY <1>8, <1>9, <1>10, ArgsType

\* After the layers, and out of the fork, the generators have made the
\* draws of one more pass.
LEMMA LeftLayers ==
  ASSUME args \in Configs, NEW r \in Ranks, NEW n \in Nat, NEW g,
         g = After(InLayers(r, n), args.num_layers)
  PROVE  (IF args.sequence_parallel THEN Join(g, Gen(DataParallelSeed(r), n * CudaDraws)) ELSE g) =
           Base(r, n + 1)
<1> DEFINE s == DataParallelSeed(r)
           t == TensorModelParallelSeed(r)
           c == n * CudaDraws
           d == n * TrackerDraws
           l == args.num_layers
<1>1. /\ s \in Nat /\ t \in Nat /\ c \in Nat /\ d \in Nat /\ l \in Nat
      /\ Masked \in Nat /\ CudaDraws \in Nat /\ TrackerDraws \in Nat
  BY Seeds, DrawsType, ArgsType
<1>2. (n + 1) * CudaDraws = c + CudaDraws /\ (n + 1) * TrackerDraws = d + TrackerDraws
  BY <1>1
<1>3. Base(r, n + 1) = Pair(Gen(s, c + CudaDraws), Gen(t, d + TrackerDraws))
  BY <1>2 DEF Base
<1>4. CASE args.sequence_parallel
  <2>1. InLayers(r, n) = Pair(Gen(t, d + Masked), Gen(t, d + Masked))
    BY <1>4 DEF InLayers
  <2>2. g = Pair(Gen(t, d + Masked + 3 * l), Gen(t, d + Masked))
    BY <1>4, <2>1 DEF After, Pair, Gen
  <2>3. CudaDraws = 0 /\ TrackerDraws = Masked + 3 * l
    BY <1>4 DEF CudaDraws, TrackerDraws
  <2> HIDE DEF s, t, c, d, l
  <2>4. Join(g, Gen(s, c)) = Pair(Gen(s, c), Gen(t, d + Masked + 3 * l))
    BY <2>2, JoinPair
  <2>5. c + 0 = c /\ d + Masked + 3 * l = d + (Masked + 3 * l) BY <1>1
  <2> QED BY <1>3, <1>4, <2>3, <2>4, <2>5 DEF s, c
<1>5. CASE ~args.sequence_parallel
  <2>1. InLayers(r, n) = Pair(Gen(s, c + Masked), Gen(t, d)) BY <1>5 DEF InLayers
  <2>2. g = Pair(Gen(s, c + Masked + 2 * l), Gen(t, d + l))
    BY <1>5, <2>1 DEF After, Pair, Gen
  <2>3. CudaDraws = Masked + 2 * l /\ TrackerDraws = l
    BY <1>5 DEF CudaDraws, TrackerDraws
  <2> HIDE DEF s, t, c, d, l
  <2>4. c + Masked + 2 * l = c + (Masked + 2 * l) BY <1>1
  <2> QED BY <1>3, <1>5, <2>2, <2>3, <2>4
<1> QED BY <1>4, <1>5, ArgsType

\* What was kept of a unit, and what is drawn again with the generators
\* kept, are the masks of the unit.
LEMMA UnitAgain ==
  ASSUME args \in Configs, NEW g \in Pairs, NEW u \in 1 .. Len(Units), NEW other
  PROVE  (CASE Units[u].recomputed = "all" -> Layers(Start(g), UnitLayers)
            [] Units[u].recomputed = "attention" -> Attention(Start(g))
            [] Units[u].recomputed = "nothing" -> Start(other)).masks
           \o Kept(Units[u], LayerMasks(g, UnitLayers))
         = LayerMasks(g, UnitLayers)
<1> DEFINE ms == LayerMasks(g, UnitLayers)
           what == Units[u].recomputed
<1>1. /\ UnitLayers \in Nat /\ what \in {"all", "attention", "nothing"}
      /\ what = "attention" => UnitLayers = 1
  BY UnitsFacts
<1>2. ms = [p \in 1 .. 3 * UnitLayers |-> ms[p]] /\ 3 * UnitLayers \in Nat
  BY <1>1 DEF LayerMasks
<1>3. ms \in Seq({ms[p] : p \in 1 .. 3 * UnitLayers})
  <2> DEFINE k == 3 * UnitLayers
  <2>1. k \in Nat /\ ms = [p \in 1 .. k |-> ms[p]] BY <1>2
  <2> HIDE DEF ms, k
  <2>2. ms \in Seq({ms[p] : p \in 1 .. k}) BY <2>1, FunctionSeq
  <2> QED BY <2>2 DEF k
<1>4. \A S : \A q \in Seq(S) : q \o <<>> = q /\ <<>> \o q = q OBVIOUS
<1>5. CASE what = "all"
  <2>1. Kept(Units[u], ms) = <<>> BY <1>5 DEF Kept
  <2>2. Layers(Start(g), UnitLayers).masks = ms
    <3>1. Layers(Start(g), UnitLayers) =
            Run(After(g, UnitLayers).cuda, After(g, UnitLayers).tracker, ms)
      BY <1>1, LayersRun
    <3> HIDE DEF ms
    <3> QED BY <3>1 DEF Run
  <2> HIDE DEF ms
  <2>3. ms \o <<>> = ms BY <1>3, <1>4
  <2> QED BY <1>5, <2>1, <2>2, <2>3 DEF ms
<1>6. CASE what = "nothing"
  <2>1. Kept(Units[u], ms) = ms /\ Start(other).masks = <<>> BY <1>6 DEF Kept, Start
  <2> HIDE DEF ms
  <2>2. <<>> \o ms = ms BY <1>3, <1>4
  <2> QED BY <1>6, <2>1, <2>2 DEF ms
<1>7. CASE what = "attention"
  <2>1. Kept(Units[u], ms) = Tail(ms) /\ UnitLayers = 1 BY <1>1, <1>7 DEF Kept
  <2>2. ms = LayerMasks(g, 1) /\ ms = [p \in 1 .. 3 |-> ms[p]] /\ ms[1] = LayerMask(g, 1)
    BY <2>1 DEF LayerMasks
  <2>3. Attention(Start(g)).masks = <<LayerMask(g, 1)>> BY AttentionMask
  <2> HIDE DEF ms
  <2>4. Tail(ms) = [p \in 1 .. 2 |-> ms[p + 1]]
    <3>1. PICK k \in Nat : k = 3 OBVIOUS
    <3>2. k > 0 /\ k - 1 = 2 /\ ms = [p \in 1 .. k |-> ms[p]] BY <2>2, <3>1
    <3>3. Tail(ms) = [p \in 1 .. k - 1 |-> ms[p + 1]] BY <3>2, TailFunction
    <3> QED BY <3>2, <3>3
  <2>5. <<LayerMask(g, 1)>> \o Tail(ms) = ms
    <3> DEFINE a == <<LayerMask(g, 1)>>
               b == Tail(ms)
    <3>1. /\ a = [p \in 1 .. 1 |-> a[p]] /\ a[1] = LayerMask(g, 1)
          /\ b = [p \in 1 .. 2 |-> b[p]] /\ \A p \in 1 .. 2 : b[p] = ms[p + 1]
      BY <2>4
    <3> HIDE DEF a, b
    <3>2. a \o b = [p \in 1 .. 1 + 2 |-> IF p <= 1 THEN a[p] ELSE b[p - 1]]
      BY <3>1, ConcatFunction
    <3>3. \A p \in 1 .. 3 : (IF p <= 1 THEN a[p] ELSE b[p - 1]) = ms[p]
      <4>1. \A p \in 2 .. 3 : p - 1 \in 1 .. 2 /\ p - 1 + 1 = p OBVIOUS
      <4> QED BY <2>2, <3>1, <4>1
    <3>4. a \o b = [p \in 1 .. 3 |-> ms[p]] BY <3>2, <3>3
    <3> QED BY <2>2, <3>4 DEF a, b
  <2> QED BY <1>7, <2>1, <2>3, <2>5 DEF ms
<1> QED BY <1>1, <1>5, <1>6, <1>7

-----------------------------------------------------------------------------
\* The reachable states.  All of them is known from the number n of forward
\* passes, b of backward passes, and the unit u of the one under way.
Defaults(n) == [r \in Ranks |-> Base(r, n)]
Starts(n, u) == [r \in Ranks |-> UnitStart(r, n, u)]
Origs(n) == [r \in Ranks |-> Gen(DataParallelSeed(r), n * CudaDraws)]

\* The masks of a forward pass that is at unit u, of a backward pass, and
\* of whole passes.
ForwardMasks(n, u) ==
  [r \in Ranks |-> EmbeddingMasks(r, n) \o LayerMasks(InLayers(r, n), (u - 1) * UnitLayers)]
BackwardMasks(b, u) ==
  [r \in Ranks |-> LayerMasks(UnitStart(r, b, u + 1), (Len(Units) - u) * UnitLayers)]
AllMasks(n) == [r \in Ranks |-> PassMasks(r, n)]
History(d) == [i \in 1 .. d |-> AllMasks(i - 1)]

\* What unit u of forward pass n + 1 leaves, m units of it, and the passes
\* from b + 1 on, if pass n + 1 is at unit u.
UnitLeft(n, u) ==
  [recomputed |-> Units[u].recomputed, layers |-> Units[u].layers, fwd |-> Starts(n, u),
   masks |-> [r \in Ranks |-> Kept(Units[u], LayerMasks(UnitStart(r, n, u), UnitLayers))]]
PassLeft(n, m) ==
  [embedding |-> [r \in Ranks |-> EmbeddingMasks(r, n)],
   units |-> [u \in 1 .. m |-> UnitLeft(n, u)]]
Outstanding(n, b, u, m) ==
  [k \in 1 .. m |-> PassLeft(b + k - 1, IF b + k - 1 = n THEN u - 1 ELSE Len(Units))]

\* What is saved after n forward passes.
Saved(n) ==
  [t \in 0 .. args.tensor_model_parallel_size - 1 |->
     IF args.data_parallel_random_init
     THEN [d \in 0 .. args.data_parallel_size - 1 |-> Base(<<d, t>>, n)]
     ELSE [d \in {0} |-> Base(<<d, t>>, n)]]

CountsInv ==
  /\ args \in Configs
  /\ forwards \in 0 .. args.num_microbatches /\ backwards \in 0 .. forwards
  /\ iteration \in 0 .. MaxIterations /\ restarts \in 0 .. MaxRestarts
  /\ pass \in [kind : {"none", "forward", "backward"}, unit : 0 .. Len(Units) + 1]
  /\ pass.kind = "forward" => forwards < args.num_microbatches /\ pass.unit > 0
  /\ pass.kind = "backward" => backwards < forwards /\ pass.unit <= Len(Units)
  /\ pass.kind = "forward" \/ forwards > 0 => iteration < MaxIterations
  /\ fork \in [Ranks -> Generator]
  /\ checkpoint.iteration \in 0 .. iteration

Under == IF pass.kind = "forward" THEN 1 ELSE 0
StateAt(n, b, u, d, c) ==
  /\ n = iteration * args.num_microbatches + forwards
  /\ b = iteration * args.num_microbatches + backwards
  /\ u = pass.unit
  /\ c = checkpoint.iteration * args.num_microbatches
  /\ rng = IF pass.kind = "forward" THEN Starts(n, u) ELSE Defaults(n)
  /\ pass.kind = "forward" /\ args.sequence_parallel => fork = Origs(n)
  /\ pass.kind = "forward" => drawing = ForwardMasks(n, u)
  /\ pass.kind = "backward" => drawing = BackwardMasks(b, u)
  /\ graph = Outstanding(n, b, u, n - b + Under)
  /\ drawn = History(d) /\ n <= d
  /\ applied = History(b)
  /\ checkpoint.iteration > 0 => checkpoint.rng_state = Saved(c)
IInv == CountsInv /\ \E n, b, u, d, c \in Nat : StateAt(n, b, u, d, c)

\* The arguments of a job do not change.
LEMMA SameJob ==
  ASSUME args' = args, NEW n, NEW b, NEW u, NEW m
  PROVE  /\ Ranks' = Ranks /\ Units' = Units
         /\ Defaults(n)' = Defaults(n) /\ Starts(n, u)' = Starts(n, u) /\ Origs(n)' = Origs(n)
         /\ ForwardMasks(n, u)' = ForwardMasks(n, u)
         /\ BackwardMasks(b, u)' = BackwardMasks(b, u)
         /\ History(n)' = History(n) /\ Saved(n)' = Saved(n)
         /\ Outstanding(n, b, u, m)' = Outstanding(n, b, u, m)
<1>1. Ranks' = Ranks /\ Units' = Units /\ UnitLayers' = UnitLayers
      /\ CudaDraws' = CudaDraws /\ TrackerDraws' = TrackerDraws /\ Masked' = Masked
  BY DEF Ranks, Units, UnitLayers, CudaDraws, TrackerDraws, Masked
<1>2. ASSUME NEW r
      PROVE  /\ DataParallelSeed(r)' = DataParallelSeed(r)
             /\ TensorModelParallelSeed(r)' = TensorModelParallelSeed(r)
  BY DEF DataParallelSeed, TensorModelParallelSeed
<1>3. ASSUME NEW r, NEW i
      PROVE  Base(r, i)' = Base(r, i) /\ InLayers(r, i)' = InLayers(r, i)
             /\ EmbeddingMasks(r, i)' = EmbeddingMasks(r, i)
  BY <1>1, <1>2 DEF Base, InLayers, EmbeddingMasks, Gen, Pair
<1>4. ASSUME NEW g, NEW k
      PROVE  After(g, k)' = After(g, k) /\ LayerMasks(g, k)' = LayerMasks(g, k)
  <2>1. \A p : LayerMask(g, p)' = LayerMask(g, p) BY DEF LayerMask
  <2> QED BY <2>1 DEF After, LayerMasks
<1>5. ASSUME NEW r, NEW i, NEW v
      PROVE  UnitStart(r, i, v)' = UnitStart(r, i, v)
  <2>1. PICK g : g = InLayers(r, i) OBVIOUS
  <2>2. PICK k : k = (v - 1) * UnitLayers OBVIOUS
  <2>3. InLayers(r, i)' = g /\ ((v - 1) * UnitLayers)' = k BY <1>1, <1>3, <2>1, <2>2
  <2> QED BY <1>4, <2>1, <2>2, <2>3 DEF UnitStart
<1>6. ASSUME NEW r, NEW i, NEW v
      PROVE  LayerMasks(InLayers(r, i), (v - 1) * UnitLayers)' =
               LayerMasks(InLayers(r, i), (v - 1) * UnitLayers)
  <2>1. PICK g : g = InLayers(r, i) OBVIOUS
  <2>2. PICK k : k = (v - 1) * UnitLayers OBVIOUS
  <2>3. InLayers(r, i)' = g /\ ((v - 1) * UnitLayers)' = k BY <1>1, <1>3, <2>1, <2>2
  <2> QED BY <1>4, <2>1, <2>2, <2>3
<1>7. ASSUME NEW r, NEW i, NEW v
      PROVE  LayerMasks(UnitStart(r, i, v + 1), (Len(Units) - v) * UnitLayers)' =
               LayerMasks(UnitStart(r, i, v + 1), (Len(Units) - v) * UnitLayers)
  <2>1. PICK g : g = UnitStart(r, i, v + 1) OBVIOUS
  <2>2. PICK k : k = (Len(Units) - v) * UnitLayers OBVIOUS
  <2>3. UnitStart(r, i, v + 1)' = g /\ ((Len(Units) - v) * UnitLayers)' = k
    BY <1>1, <1>5, <2>1, <2>2
  <2> QED BY <1>4, <2>1, <2>2, <2>3
<1>8. ASSUME NEW r, NEW i
      PROVE  PassMasks(r, i)' = PassMasks(r, i)
  <2>1. PICK g : g = InLayers(r, i) OBVIOUS
  <2>2. PICK k : k = args.num_layers OBVIOUS
  <2>3. InLayers(r, i)' = g /\ args'.num_layers = k BY <1>3, <2>1, <2>2
  <2> QED BY <1>3, <1>4, <2>1, <2>2, <2>3 DEF PassMasks
<1>9. ASSUME NEW r, NEW i, NEW v
      PROVE  Kept(Units[v], LayerMasks(UnitStart(r, i, v), UnitLayers))' =
               Kept(Units[v], LayerMasks(UnitStart(r, i, v), UnitLayers))
  <2>1. PICK g : g = UnitStart(r, i, v) OBVIOUS
  <2>2. PICK k : k = UnitLayers OBVIOUS
  <2>3. UnitStart(r, i, v)' = g /\ UnitLayers' = k BY <1>1, <1>5, <2>1, <2>2
  <2>4. LayerMasks(UnitStart(r, i, v), UnitLayers)' = LayerMasks(UnitStart(r, i, v), UnitLayers)
    BY <1>4, <2>1, <2>2, <2>3
  <2> QED BY <1>1, <2>4 DEF Kept
<1>10. Defaults(n)' = Defaults(n) /\ Saved(n)' = Saved(n)
  BY <1>1, <1>3 DEF Defaults, Saved
<1>11. Starts(n, u)' = Starts(n, u) BY <1>1, <1>5 DEF Starts
<1>12. Origs(n)' = Origs(n) BY <1>1, <1>2 DEF Origs, Gen
<1>13. ForwardMasks(n, u)' = ForwardMasks(n, u) BY <1>1, <1>3, <1>6 DEF ForwardMasks
<1>14. BackwardMasks(b, u)' = BackwardMasks(b, u) BY <1>1, <1>7 DEF BackwardMasks
<1>15. History(n)' = History(n)
  <2>1. \A i : AllMasks(i)' = AllMasks(i) BY <1>1, <1>8 DEF AllMasks
  <2> QED BY <2>1 DEF History
<1>16. Outstanding(n, b, u, m)' = Outstanding(n, b, u, m)
  <2>1. ASSUME NEW i, NEW v PROVE UnitLeft(i, v)' = UnitLeft(i, v)
    <3>1. Starts(i, v)' = Starts(i, v) BY <1>1, <1>5 DEF Starts
    <3>2. [r \in Ranks |-> Kept(Units[v], LayerMasks(UnitStart(r, i, v), UnitLayers))]' =
            [r \in Ranks |-> Kept(Units[v], LayerMasks(UnitStart(r, i, v), UnitLayers))]
      BY <1>1, <1>9
    <3> QED BY <1>1, <3>1, <3>2 DEF UnitLeft
  <2>2. ASSUME NEW i, NEW v PROVE PassLeft(i, v)' = PassLeft(i, v)
    BY <1>1, <1>3, <2>1 DEF PassLeft
  <2>3. Len(Units)' = Len(Units) BY <1>1
  <2>4. ASSUME NEW k
        PROVE  PassLeft(b + k - 1, IF b + k - 1 = n THEN u - 1 ELSE Len(Units))' =
                 PassLeft(b + k - 1, IF b + k - 1 = n THEN u - 1 ELSE Len(Units))
    <3>1. PICK v : v = IF b + k - 1 = n THEN u - 1 ELSE Len(Units) OBVIOUS
    <3> QED BY <2>2, <2>3, <3>1
  <2> QED BY <2>4 DEF Outstanding
<1> QED BY <1>1, <1>10, <1>11, <1>12, <1>13, <1>14, <1>15, <1>16

\* Masks are sequences of generators.
LEMMA MasksType ==
  ASSUME args \in Configs, NEW g \in Pairs, NEW k \in Nat
  PROVE  LayerMasks(g, k) \in Seq(Generator) /\ Len(LayerMasks(g, k)) = 3 * k
<1>1. ASSUME NEW p \in 1 .. 3 * k PROVE LayerMask(g, p) \in Generator
  <2> DEFINE l == (p - 1) \div 3
             m == (p - 1) % 3
  <2>1. l \in Nat /\ m \in {0, 1, 2}
    <3>1. p \in Nat \ {0} /\ 0 \in Nat OBVIOUS
    <3> QED BY <3>1, LayerPlace
  <2>2. /\ g.cuda.seed \in Nat /\ g.cuda.count \in Nat
        /\ g.tracker.seed \in Nat /\ g.tracker.count \in Nat
    BY DEF Pairs, Generator
  <2> HIDE DEF l, m
  <2>3. /\ g.cuda.count + p - 1 \in Nat /\ g.tracker.count + l \in Nat
        /\ m # 0 => g.cuda.count + 2 * l + m - 1 \in Nat
    BY <2>1, <2>2
  <2> QED BY <2>2, <2>3 DEF LayerMask, Gen, Generator, l, m
<1>2. LayerMasks(g, k) \in [1 .. 3 * k -> Generator] BY <1>1 DEF LayerMasks
<1> DEFINE n == 3 * k
<1>3. n \in Nat OBVIOUS
<1> HIDE DEF n
<1>4. \A f \in [1 .. n -> Generator] : f \in Seq(Generator) /\ Len(f) = n BY <1>3
<1> QED BY <1>2, <1>4 DEF n

\* So are those of the embedding.
LEMMA EmbeddingMasksType ==
  ASSUME args \in Configs, NEW r \in Ranks, NEW n \in Nat
  PROVE  EmbeddingMasks(r, n) \in Seq(Generator) /\ Len(EmbeddingMasks(r, n)) = Masked
<1>1. \A x \in Generator : <<x>> \in Seq(Generator) /\ Len(<<x>>) = 1 OBVIOUS
<1>2. <<>> \in Seq(Generator) /\ Len(<<>>) = 0 OBVIOUS
<1>3. /\ Gen(TensorModelParallelSeed(r), n * TrackerDraws) \in Generator
      /\ Gen(DataParallelSeed(r), n * CudaDraws) \in Generator
  <2>1. /\ DataParallelSeed(r) \in Nat /\ TensorModelParallelSeed(r) \in Nat
        /\ n * CudaDraws \in Nat /\ n * TrackerDraws \in Nat
    BY Seeds, DrawsType
  <2> QED BY <2>1 DEF Gen, Generator
<1> QED BY <1>1, <1>2, <1>3 DEF EmbeddingMasks, Masked

\* The generators at the units of a pass, and the masks before and after.
LEMMA StartFacts ==
  ASSUME args \in Configs, NEW r \in Ranks, NEW n \in Nat, NEW u \in 1 .. Len(Units) + 1
  PROVE  /\ UnitStart(r, n, 1) = InLayers(r, n)
         /\ UnitStart(r, n, Len(Units) + 1) = After(InLayers(r, n), args.num_layers)
         /\ UnitStart(r, n, u) \in Pairs
         /\ After(UnitStart(r, n, u), UnitLayers) = UnitStart(r, n, u + 1)
         /\ LayerMasks(InLayers(r, n), (u - 1) * UnitLayers)
              \o LayerMasks(UnitStart(r, n, u), UnitLayers)
            = LayerMasks(InLayers(r, n), (u + 1 - 1) * UnitLayers)
         /\ u <= Len(Units) =>
              LayerMasks(UnitStart(r, n, u), UnitLayers)
                \o LayerMasks(UnitStart(r, n, u + 1), (Len(Units) - u) * UnitLayers)
              = LayerMasks(UnitStart(r, n, u), (Len(Units) - (u - 1)) * UnitLayers)
<1> DEFINE g == InLayers(r, n)
           l == UnitLayers
           before == (u - 1) * UnitLayers
<1>1. g \in Pairs BY GeneratorTypes
<1>2. l \in Nat \ {0} /\ Len(Units) \in Nat \ {0} /\ Len(Units) * l = args.num_layers
  BY UnitsFacts
<1>3. before \in Nat /\ before + l = (u + 1 - 1) * l BY <1>2
<1>4. UnitStart(r, n, u) = After(g, before) /\ UnitStart(r, n, u + 1) = After(g, (u + 1 - 1) * l)
  BY DEF UnitStart
<1>5. UnitStart(r, n, 1) = After(g, 0)
  <2>1. (1 - 1) * l = 0 BY <1>2
  <2> QED BY <2>1 DEF UnitStart
<1>6. UnitStart(r, n, Len(Units) + 1) = After(g, args.num_layers)
  <2>1. (Len(Units) + 1 - 1) * l = args.num_layers
    <3>1. Len(Units) + 1 - 1 = Len(Units) BY <1>2
    <3> QED BY <1>2, <3>1
  <2> QED BY <2>1 DEF UnitStart
<1> HIDE DEF g, l, before
<1>7. After(g, before) \in Pairs /\ After(After(g, before), l) = After(g, before + l)
  BY <1>1, <1>2, <1>3, AfterFacts
<1>8. LayerMasks(g, before) \o LayerMasks(After(g, before), l) = LayerMasks(g, before + l)
  BY <1>1, <1>2, <1>3, MasksConcat
<1>9. ASSUME u <= Len(Units)
      PROVE  LayerMasks(UnitStart(r, n, u), l)
               \o LayerMasks(UnitStart(r, n, u + 1), (Len(Units) - u) * l)
             = LayerMasks(UnitStart(r, n, u), (Len(Units) - (u - 1)) * l)
  <2> DEFINE h == UnitStart(r, n, u)
             rest == (Len(Units) - u) * l
  <2>1. h \in Pairs /\ After(h, l) = UnitStart(r, n, u + 1) BY <1>3, <1>4, <1>7
  <2>2. rest \in Nat /\ l + rest = (Len(Units) - (u - 1)) * l BY <1>2, <1>9
  <2> HIDE DEF h, rest
  <2>3. LayerMasks(h, l) \o LayerMasks(After(h, l), rest) = LayerMasks(h, l + rest)
    BY <1>2, <2>1, <2>2, MasksConcat
  <2> QED BY <2>1, <2>2, <2>3 DEF h, rest
<1>10. After(g, 0) = g BY <1>1, AfterFacts
<1> QED BY <1>3, <1>4, <1>5, <1>6, <1>7, <1>8, <1>9, <1>10 DEF g, l, before

\* The numbers of the passes.
LEMMA Numbers ==
  ASSUME CountsInv, NEW n \in Nat, NEW b \in Nat, NEW u \in Nat, NEW d \in Nat, NEW c \in Nat,
         StateAt(n, b, u, d, c)
  PROVE  /\ n - b = forwards - backwards /\ b <= n /\ c <= b /\ c <= d
         /\ n - b + Under \in Nat /\ n - b + Under <= args.num_microbatches
         /\ args.num_microbatches \in Nat \ {0}
<1> DEFINE m == args.num_microbatches
           i == iteration * m
           j == checkpoint.iteration * m
<1>1. m \in Nat \ {0} /\ iteration \in Nat /\ checkpoint.iteration \in 0 .. iteration
  BY ArgsType, BoundsAssumption DEF CountsInv
<1>2. /\ forwards \in 0 .. m /\ backwards \in 0 .. forwards
      /\ pass.kind = "forward" => forwards < m
  BY DEF CountsInv
<1>3. n = i + forwards /\ b = i + backwards /\ c = j /\ n <= d BY DEF StateAt
<1>4. j <= i /\ i \in Nat /\ j \in Nat
  <2>1. PICK k \in Nat : iteration = checkpoint.iteration + k
    <3>1. iteration - checkpoint.iteration \in Nat
          /\ iteration = checkpoint.iteration + (iteration - checkpoint.iteration)
      BY <1>1
    <3> QED BY <3>1
  <2>2. k * m \in Nat /\ j \in Nat /\ i \in Nat BY <1>1
  <2>3. i = j + k * m
    <3> HIDE DEF m
    <3>1. \A x, y, z \in Int : (x + y) * z = x * z + y * z OBVIOUS
    <3> QED BY <1>1, <2>1, <3>1
  <2> HIDE DEF i, j
  <2> QED BY <2>2, <2>3
<1> HIDE DEF i, j, m
<1>5. Under \in {0, 1} /\ (Under = 1 => forwards < m) BY <1>2 DEF Under
<1> QED BY <1>1, <1>2, <1>3, <1>4, <1>5 DEF m

-----------------------------------------------------------------------------
\* The invariant is inductive.

\* The saved states are those of Saved, ...
LEMMA SavedRngState ==
  ASSUME args \in Configs, NEW n \in Nat, rng = Defaults(n)
  PROVE  RngState = Saved(n)
<1>1. \A t \in 0 .. args.tensor_model_parallel_size - 1 :
        \A d \in 0 .. args.data_parallel_size - 1 : rng[<<d, t>>] = Base(<<d, t>>, n)
  BY DEF Defaults, Ranks
<1>2. 0 \in 0 .. args.data_parallel_size - 1 BY ArgsType
<1> QED BY <1>1, <1>2 DEF RngState, Saved

\* ... and every rank loads what it had.
LEMMA LoadedSaved ==
  ASSUME args \in Configs, NEW n \in Nat, NEW r \in Ranks
  PROVE  Loaded(r, Saved(n)) = Base(r, n)
<1>1. r[1] \in 0 .. args.data_parallel_size - 1 /\ r[2] \in 0 .. args.tensor_model_parallel_size - 1
      /\ r = <<r[1], r[2]>>
  BY DEF Ranks
<1>2. CASE args.data_parallel_random_init
  <2>1. Saved(n)[r[2]][r[1]] = Base(<<r[1], r[2]>>, n) BY <1>1, <1>2 DEF Saved
  <2> QED BY <1>1, <1>2, <2>1 DEF Loaded
<1>3. CASE ~args.data_parallel_random_init
  <2>1. Saved(n)[r[2]][0] = Base(<<0, r[2]>>, n) BY <1>1, <1>3 DEF Saved
  <2>2. Base(<<0, r[2]>>, n) = Base(r, n)
    BY <1>1, <1>3 DEF Base, DataParallelSeed, TensorModelParallelSeed
  <2> QED BY <1>3, <2>1, <2>2 DEF Loaded
<1> QED BY <1>2, <1>3, ArgsType

\* The seeded generators have made no draws.
LEMMA SeededBase ==
  ASSUME args \in Configs, NEW r \in Ranks
  PROVE  Seeded(r) = Base(r, 0)
<1>1. 0 * CudaDraws = 0 /\ 0 * TrackerDraws = 0 BY DrawsType
<1> QED BY <1>1 DEF Seeded, Base, Pair, Gen

\* Default generators are generators.
LEMMA DefaultsType ==
  ASSUME args \in Configs, NEW n \in Nat
  PROVE  /\ \A r \in Ranks : Defaults(n)[r] = Base(r, n) /\ Base(r, n) \in Pairs
         /\ [r \in Ranks |-> Defaults(n)[r].cuda] \in [Ranks -> Generator]
BY GeneratorTypes DEF Defaults, Pairs

\* The invariant holds initially.
LEMMA InvInit == Init => IInv
<1> SUFFICES ASSUME Init PROVE IInv
  OBVIOUS
<1>1. args \in Configs /\ pass = [kind |-> "none", unit |-> 0] /\ graph = <<>>
      /\ forwards = 0 /\ backwards = 0 /\ iteration = 0 /\ restarts = 0
      /\ checkpoint.iteration = 0 /\ drawn = <<>> /\ applied = <<>>
  BY DEF Init
<1>2. rng = Defaults(0) BY <1>1, SeededBase DEF Init, Defaults
<1>3. fork \in [Ranks -> Generator] BY <1>1, <1>2, DefaultsType DEF Init
<1>4. /\ args.num_microbatches \in Nat /\ Len(Units) \in Nat
      /\ 0 * args.num_microbatches = 0
  BY <1>1, ArgsType, UnitsFacts
<1>5. CountsInv BY <1>1, <1>3, <1>4, BoundsAssumption DEF CountsInv
<1>6. StateAt(0, 0, 0, 0, 0)
  <2>1. Outstanding(0, 0, 0, 0) = <<>> /\ History(0) = <<>> /\ 0 - 0 + Under = 0
    BY <1>1 DEF Outstanding, History, Under
  <2> QED BY <1>1, <1>2, <1>4, <2>1 DEF StateAt
<1> QED BY <1>5, <1>6 DEF IInv

\* What a step has to establish.
LEMMA NextAt ==
  ASSUME args' = args,
         NEW n \in Nat, NEW b \in Nat, NEW u \in Nat, NEW d \in Nat, NEW c \in Nat,
         n = iteration' * args.num_microbatches + forwards',
         b = iteration' * args.num_microbatches + backwards',
         u = pass'.unit,
         c = checkpoint'.iteration * args.num_microbatches,
         rng' = IF pass'.kind = "forward" THEN Starts(n, u) ELSE Defaults(n),
         pass'.kind = "forward" /\ args.sequence_parallel => fork' = Origs(n),
         pass'.kind = "forward" => drawing' = ForwardMasks(n, u),
         pass'.kind = "backward" => drawing' = BackwardMasks(b, u),
         graph' = Outstanding(n, b, u, n - b + (IF pass'.kind = "forward" THEN 1 ELSE 0)),
         drawn' = History(d), n <= d,
         applied' = History(b),
         checkpoint'.iteration > 0 => checkpoint'.rng_state = Saved(c)
  PROVE  StateAt(n, b, u, d, c)'
<1> DEFINE m == n - b + (IF pass'.kind = "forward" THEN 1 ELSE 0)
<1>1. /\ Starts(n, u)' = Starts(n, u) /\ Defaults(n)' = Defaults(n) /\ Origs(n)' = Origs(n)
      /\ ForwardMasks(n, u)' = ForwardMasks(n, u) /\ BackwardMasks(b, u)' = BackwardMasks(b, u)
      /\ Saved(c)' = Saved(c)
  BY SameJob
<1>2. History(d)' = History(d) /\ History(b)' = History(b) BY SameJob
<1>3. PICK k : k = m OBVIOUS
<1>4. Outstanding(n, b, u, k)' = Outstanding(n, b, u, k) BY SameJob
<1>5. (n - b + Under)' = k BY <1>3 DEF Under
<1>6. graph' = Outstanding(n, b, u, n - b + Under)' BY <1>3, <1>4, <1>5
<1> QED BY <1>1, <1>2, <1>6 DEF StateAt

\* A forward pass starts.
LEMMA StartForwardInv ==
  ASSUME IInv, StartForward
  PROVE  IInv'
<1>1. CountsInv BY DEF IInv
<1>2. PICK n \in Nat, b \in Nat, u \in Nat, d \in Nat, c \in Nat : StateAt(n, b, u, d, c)
  BY DEF IInv
<1>3. /\ pass.kind = "none" /\ iteration < MaxIterations /\ forwards < args.num_microbatches
      /\ pass' = [kind |-> "forward", unit |-> 1]
      /\ UNCHANGED <<args, checkpoint, restarts, forwards, backwards, iteration, drawn, applied>>
  BY DEF StartForward, schedule, job
<1>4. args \in Configs /\ rng = Defaults(n)
  BY <1>1, <1>2, <1>3 DEF CountsInv, StateAt
<1> DEFINE run == [r \in Ranks |-> Embedding(Start(rng[r]))]
<1>5. /\ rng' = [r \in Ranks |-> IF args.sequence_parallel THEN Fork(Generators(run[r]))
                                 ELSE Generators(run[r])]
      /\ fork' = [r \in Ranks |-> run[r].cuda]
      /\ drawing' = [r \in Ranks |-> run[r].masks]
      /\ graph' = Append(graph, [embedding |-> [r \in Ranks |-> run[r].masks], units |-> <<>>])
  BY DEF StartForward
<1>6. ASSUME NEW r \in Ranks
      PROVE  /\ run[r].masks = EmbeddingMasks(r, n)
             /\ run[r].cuda \in Generator
             /\ (IF args.sequence_parallel THEN Fork(Generators(run[r])) ELSE Generators(run[r])) =
                  InLayers(r, n)
             /\ args.sequence_parallel =>
                  run[r].cuda = Gen(DataParallelSeed(r), n * CudaDraws)
  <2>1. run[r] = Embedding(Start(Base(r, n))) BY <1>4, DefaultsType
  <2> HIDE DEF run
  <2> QED BY <1>4, <2>1, EmbeddingRun
<1> HIDE DEF run
<1>7. /\ n - b = forwards - backwards /\ b <= n /\ n - b \in Nat
      /\ args.num_microbatches \in Nat \ {0} /\ graph = Outstanding(n, b, u, n - b)
  <2>1. /\ n - b = forwards - backwards /\ b <= n /\ args.num_microbatches \in Nat \ {0}
    BY <1>1, <1>2, Numbers
  <2>2. n - b + Under = n - b BY <1>3 DEF Under
  <2>3. graph = Outstanding(n, b, u, n - b + Under) BY <1>2 DEF StateAt
  <2> QED BY <2>1, <2>2, <2>3
<1>8. rng' = Starts(n, 1)
  <2>1. \A r \in Ranks : UnitStart(r, n, 1) = InLayers(r, n)
    BY <1>4, StartFacts, UnitsFacts
  <2> QED BY <1>5, <1>6, <2>1 DEF Starts
<1>9. fork' \in [Ranks -> Generator] /\ (args.sequence_parallel => fork' = Origs(n))
  BY <1>5, <1>6 DEF Origs
<1>10. drawing' = ForwardMasks(n, 1)
  <2>1. (1 - 1) * UnitLayers = 0 BY <1>4, UnitsFacts
  <2>2. \A r \in Ranks :
          EmbeddingMasks(r, n) \o LayerMasks(InLayers(r, n), 0) = EmbeddingMasks(r, n)
    BY <1>4, NoMasks, EmbeddingMasksType, ConcatEmptySeq
  <2> QED BY <1>5, <1>6, <2>1, <2>2 DEF ForwardMasks
<1>11. graph' = Outstanding(n, b, 1, n - b + 1)
  <2> DEFINE k == n - b
             x == [embedding |-> [r \in Ranks |-> run[r].masks], units |-> <<>>]
  <2>1. x = PassLeft(n, 0)
    <3>1. [i \in 1 .. 0 |-> UnitLeft(n, i)] = <<>> OBVIOUS
    <3> QED BY <1>6, <3>1 DEF PassLeft
  <2>2. graph = [i \in 1 .. k |-> graph[i]] BY <1>7 DEF Outstanding
  <2>3. \A i \in 1 .. k : graph[i] = PassLeft(b + i - 1, Len(Units))
    BY <1>7 DEF Outstanding
  <2>4. graph' = Append(graph, x) /\ k \in Nat /\ b + (k + 1) - 1 = n BY <1>5, <1>7
  <2> HIDE DEF k, x
  <2>5. graph' = [i \in 1 .. k + 1 |-> IF i <= k THEN graph[i] ELSE x]
    BY <2>2, <2>4, AppendFunction
  <2>6. ASSUME NEW i \in 1 .. k + 1
        PROVE  (IF i <= k THEN graph[i] ELSE x) =
                 PassLeft(b + i - 1, IF b + i - 1 = n THEN 1 - 1 ELSE Len(Units))
    <3>1. CASE i <= k BY <2>3, <2>4, <3>1
    <3>2. CASE i = k + 1 BY <2>1, <2>4, <3>2
    <3> QED BY <2>4, <3>1, <3>2
  <2> QED BY <2>5, <2>6 DEF Outstanding, k
<1>12. CountsInv'
  BY SMTT(60), <1>1, <1>3, <1>7, <1>9, SameJob, UnitsFacts DEF CountsInv
<1>13. StateAt(n, b, 1, d, c)'
  <2>1. /\ n = iteration * args.num_microbatches + forwards
        /\ b = iteration * args.num_microbatches + backwards
        /\ c = checkpoint.iteration * args.num_microbatches
        /\ drawn = History(d) /\ n <= d /\ applied = History(b)
        /\ checkpoint.iteration > 0 => checkpoint.rng_state = Saved(c)
    BY <1>2 DEF StateAt
  <2> QED BY <1>3, <1>8, <1>9, <1>10, <1>11, <2>1, NextAt
<1> QED BY <1>12, <1>13 DEF IInv

\* A pass that has left one more unit.
LEMMA PassLeftNext ==
  ASSUME NEW n, NEW u \in Nat \ {0}
  PROVE  [PassLeft(n, u - 1) EXCEPT !.units = Append(@, UnitLeft(n, u))] = PassLeft(n, u)
<1> DEFINE s == [i \in 1 .. u - 1 |-> UnitLeft(n, i)]
           y == Append(s, UnitLeft(n, u))
           e == [r \in Ranks |-> EmbeddingMasks(r, n)]
           x == PassLeft(n, u - 1)
           z == [x EXCEPT !.units = y]
<1>1. y = [i \in 1 .. u |-> UnitLeft(n, i)]
  <2>1. u - 1 \in Nat /\ s = [i \in 1 .. u - 1 |-> s[i]] OBVIOUS
  <2>2. \A i \in 1 .. u - 1 : s[i] = UnitLeft(n, i) OBVIOUS
  <2> DEFINE k == u - 1
  <2>3. k \in Nat /\ s = [i \in 1 .. k |-> s[i]] /\ k + 1 = u BY <2>1
  <2> HIDE DEF s, k
  <2>4. Append(s, UnitLeft(n, u)) = [i \in 1 .. k + 1 |-> IF i <= k THEN s[i] ELSE UnitLeft(n, u)]
    BY <2>3, AppendFunction
  <2>5. ASSUME NEW i \in 1 .. u
        PROVE  (IF i <= k THEN s[i] ELSE UnitLeft(n, u)) = UnitLeft(n, i)
    <3>1. CASE i <= k BY <2>2, <2>3, <3>1 DEF k
    <3>2. CASE i = u BY <2>3, <3>2
    <3> QED BY <2>3, <3>1, <3>2
  <2> QED BY <2>3, <2>4, <2>5
<1>2. x \in [embedding : {e}, units : {s}] /\ x.units = s BY DEF PassLeft
<1>3. z \in [embedding : {e}, units : {y}]
  <2> HIDE DEF x, y, e, s
  <2> QED BY <1>2
<1>4. [x EXCEPT !.units = Append(@, UnitLeft(n, u))] = z
  <2> HIDE DEF x, s
  <2> QED BY <1>2
<1>5. z = PassLeft(n, u)
  <2> HIDE DEF z, y
  <2> QED BY <1>1, <1>3 DEF PassLeft, e
<1> QED BY <1>4, <1>5 DEF x

\* The layers of a forward pass run.
LEMMA ForwardUnitInv ==
  ASSUME IInv, ForwardUnit
  PROVE  IInv'
<1>1. CountsInv BY DEF IInv
<1>2. PICK n \in Nat, b \in Nat, u \in Nat, d \in Nat, c \in Nat : StateAt(n, b, u, d, c)
  BY DEF IInv
<1>3. /\ pass.kind = "forward" /\ pass.unit <= Len(Units)
      /\ pass' = [pass EXCEPT !.unit = @ + 1]
      /\ UNCHANGED <<fork, args, checkpoint, restarts, forwards, backwards, iteration, drawn,
                     applied>>
  BY DEF ForwardUnit, schedule, job
<1>4. /\ args \in Configs /\ u \in 1 .. Len(Units) /\ pass.unit = u
      /\ pass' = [kind |-> "forward", unit |-> u + 1]
      /\ Len(Units) \in Nat /\ u \in 1 .. Len(Units) + 1 /\ UnitLayers \in Nat
  <2>1. args \in Configs /\ u = pass.unit BY <1>1, <1>2 DEF CountsInv, StateAt
  <2>2. Len(Units) \in Nat /\ UnitLayers \in Nat BY <2>1, UnitsFacts
  <2>3. pass \in [kind : {"none", "forward", "backward"}, unit : 0 .. Len(Units) + 1]
        /\ pass.unit > 0
    BY <1>1, <1>3 DEF CountsInv
  <2>4. pass' = [kind |-> "forward", unit |-> pass.unit + 1] BY <1>3, <2>3
  <2> QED BY <1>3, <2>1, <2>2, <2>3, <2>4
<1>5. rng = Starts(n, u) /\ drawing = ForwardMasks(n, u)
      /\ (args.sequence_parallel => fork = Origs(n))
  BY <1>2, <1>3 DEF StateAt
<1> DEFINE unit == Units[u]
           run == [r \in Ranks |-> Layers(Start(rng[r]), unit.layers)]
           left == [recomputed |-> unit.recomputed, layers |-> unit.layers, fwd |-> rng,
                    masks |-> [r \in Ranks |-> Kept(unit, run[r].masks)]]
<1>6. /\ rng' = [r \in Ranks |-> Generators(run[r])]
      /\ drawing' = [r \in Ranks |-> drawing[r] \o run[r].masks]
      /\ graph' = [graph EXCEPT ![Len(graph)].units = Append(@, left)]
  BY <1>4 DEF ForwardUnit
<1>7. ASSUME NEW r \in Ranks
      PROVE  /\ Generators(run[r]) = UnitStart(r, n, u + 1)
             /\ run[r].masks = LayerMasks(UnitStart(r, n, u), UnitLayers)
  <2> DEFINE g == UnitStart(r, n, u)
             h == After(g, UnitLayers)
             ms == LayerMasks(g, UnitLayers)
  <2>1. /\ rng[r] = g /\ g \in Pairs /\ h = UnitStart(r, n, u + 1)
        /\ unit.layers = UnitLayers /\ UnitLayers \in Nat
    <3>1. g \in Pairs /\ h = UnitStart(r, n, u + 1) BY <1>4, StartFacts
    <3>2. unit.layers = UnitLayers BY <1>4, UnitsFacts
    <3> HIDE DEF unit, g, h
    <3>3. rng[r] = g BY <1>5 DEF Starts, g
    <3> QED BY <1>4, <3>1, <3>2, <3>3
  <2>2. run[r] = Layers(Start(g), UnitLayers) BY <2>1
  <2>3. h \in Pairs
    <3> HIDE DEF g
    <3> QED BY <2>1, AfterFacts
  <2>4. Layers(Start(g), UnitLayers) = Run(h.cuda, h.tracker, ms)
    <3> HIDE DEF g
    <3> QED BY <1>4, <2>1, LayersRun
  <2> HIDE DEF run, g, h, ms
  <2>5. Generators(run[r]) = Pair(h.cuda, h.tracker) /\ run[r].masks = ms
    BY <2>2, <2>4 DEF Run, Generators, Pair
  <2>6. Pair(h.cuda, h.tracker) = h BY <2>3 DEF Pairs, Pair
  <2> QED BY <2>1, <2>5, <2>6 DEF g, ms
<1>8. left = UnitLeft(n, u)
  <2>1. [r \in Ranks |-> Kept(unit, run[r].masks)] =
          [r \in Ranks |-> Kept(unit, LayerMasks(UnitStart(r, n, u), UnitLayers))]
    <3> HIDE DEF unit, run
    <3> QED BY <1>7
  <2> QED BY <1>5, <2>1 DEF UnitLeft
<1> HIDE DEF unit, run, left
<1>9. rng' = Starts(n, u + 1) BY <1>6, <1>7 DEF Starts
<1>10. drawing' = ForwardMasks(n, u + 1)
  <2>1. ASSUME NEW r \in Ranks
        PROVE  drawing[r] \o run[r].masks =
                 EmbeddingMasks(r, n) \o LayerMasks(InLayers(r, n), (u + 1 - 1) * UnitLayers)
    <3> DEFINE e == EmbeddingMasks(r, n)
               s == LayerMasks(InLayers(r, n), (u - 1) * UnitLayers)
               t == LayerMasks(UnitStart(r, n, u), UnitLayers)
    <3>1. drawing[r] = e \o s /\ run[r].masks = t BY <1>5, <1>7 DEF ForwardMasks
    <3>2. s \o t = LayerMasks(InLayers(r, n), (u + 1 - 1) * UnitLayers)
      BY <1>4, StartFacts
    <3>3. e \in Seq(Generator) /\ s \in Seq(Generator) /\ t \in Seq(Generator)
      <4>1. (u - 1) * UnitLayers \in Nat BY <1>4
      <4>2. UnitStart(r, n, u) \in Pairs BY <1>4, StartFacts
      <4>3. InLayers(r, n) \in Pairs BY <1>4, GeneratorTypes
      <4>4. e \in Seq(Generator) BY <1>4, EmbeddingMasksType
      <4>5. s \in Seq(Generator) BY <1>4, <4>1, <4>3, MasksType
      <4>6. t \in Seq(Generator) BY <1>4, <4>2, MasksType
      <4> QED BY <4>4, <4>5, <4>6
    <3> HIDE DEF e, s, t
    <3>4. (e \o s) \o t = e \o (s \o t) BY SMTT(60), <3>3, ConcatAssociative
    <3> QED BY <3>1, <3>2, <3>4 DEF e
  <2>2. drawing' = [r \in Ranks |-> EmbeddingMasks(r, n)
                                     \o LayerMasks(InLayers(r, n), (u + 1 - 1) * UnitLayers)]
    BY <1>6, <2>1
  <2> QED BY <2>2 DEF ForwardMasks
<1>11. graph' = Outstanding(n, b, u + 1, n - b + 1)
  <2> DEFINE k == n - b + 1
  <2>1. graph = Outstanding(n, b, u, k) /\ k \in Nat \ {0} /\ b + k - 1 = n
    <3>1. /\ n - b = forwards - backwards /\ b <= n BY <1>1, <1>2, Numbers
    <3>2. graph = Outstanding(n, b, u, n - b + Under) /\ Under = 1
      BY <1>2, <1>3 DEF StateAt, Under
    <3> QED BY <3>1, <3>2
  <2>2. graph = [i \in 1 .. k |-> graph[i]] BY <2>1 DEF Outstanding
  <2>3. \A i \in 1 .. k :
          graph[i] = PassLeft(b + i - 1, IF b + i - 1 = n THEN u - 1 ELSE Len(Units))
    BY <2>1 DEF Outstanding
  <2> HIDE DEF k
  <2>4. Len(graph) = k BY <2>1, <2>2, FunctionSeq
  <2>5. graph[k] = PassLeft(n, u - 1) BY <2>1, <2>3
  <2>6. [graph[k] EXCEPT !.units = Append(@, left)] = PassLeft(n, u)
    <3>1. u \in Nat \ {0} BY <1>4
    <3> QED BY <1>8, <2>5, <3>1, PassLeftNext
  <2>7. graph' = [graph EXCEPT ![k] = PassLeft(n, u)] BY <1>6, <2>4, <2>6
  <2>8. graph' = [i \in 1 .. k |-> IF i = k THEN PassLeft(n, u) ELSE graph[i]]
    BY <2>1, <2>2, <2>7
  <2>9. ASSUME NEW i \in 1 .. k
        PROVE  (IF i = k THEN PassLeft(n, u) ELSE graph[i]) =
                 PassLeft(b + i - 1, IF b + i - 1 = n THEN u + 1 - 1 ELSE Len(Units))
    <3>1. CASE i = k BY <1>4, <2>1, <3>1
    <3>2. CASE i # k
      <4>1. b + i - 1 # n BY <2>1, <3>2
      <4> QED BY <2>3, <3>2, <4>1
    <3> QED BY <3>1, <3>2
  <2>10. graph' = Outstanding(n, b, u + 1, k) BY <2>8, <2>9 DEF Outstanding
  <2> QED BY <2>10 DEF k
<1>12. CountsInv'
  <2>1. Ranks' = Ranks /\ Units' = Units BY <1>3, SameJob
  <2>2. pass' \in [kind : {"none", "forward", "backward"}, unit : 0 .. Len(Units) + 1]
        /\ pass'.kind = "forward" /\ pass'.unit > 0
    BY <1>4
  <2> QED BY <1>1, <1>3, <2>1, <2>2 DEF CountsInv
<1>13. StateAt(n, b, u + 1, d, c)'
  <2>1. /\ n = iteration * args.num_microbatches + forwards
        /\ b = iteration * args.num_microbatches + backwards
        /\ c = checkpoint.iteration * args.num_microbatches
        /\ drawn = History(d) /\ n <= d /\ applied = History(b)
        /\ checkpoint.iteration > 0 => checkpoint.rng_state = Saved(c)
    BY <1>2 DEF StateAt
  <2>2. PICK v \in Nat : v = u + 1 OBVIOUS
  <2> QED BY <1>3, <1>4, <1>5, <1>9, <1>10, <1>11, <2>1, <2>2, NextAt
<1> QED BY <1>12, <1>13 DEF IInv

\* The masks of passes, one more of them, fewer, and one drawn again.
LEMMA HistoryFacts ==
  ASSUME NEW d \in Nat
  PROVE  /\ Len(History(d)) = d
         /\ \A i \in 1 .. d : /\ History(d)[i] = AllMasks(i - 1)
                              /\ [History(d) EXCEPT ![i] = AllMasks(i - 1)] = History(d)
         /\ Append(History(d), AllMasks(d)) = History(d + 1)
         /\ \A c \in 0 .. d : SubSeq(History(d), 1, c) = History(c)
<1> DEFINE h == History(d)
<1>1. h = [i \in 1 .. d |-> h[i]] /\ \A i \in 1 .. d : h[i] = AllMasks(i - 1)
  BY DEF History
<1> HIDE DEF h
<1>2. Len(h) = d BY <1>1, FunctionSeq
<1>3. \A i \in 1 .. d : [h EXCEPT ![i] = AllMasks(i - 1)] = h BY <1>1
<1>4. Append(h, AllMasks(d)) = History(d + 1)
  <2>1. Append(h, AllMasks(d)) = [i \in 1 .. d + 1 |-> IF i <= d THEN h[i] ELSE AllMasks(d)]
    BY <1>1, AppendFunction
  <2>2. ASSUME NEW i \in 1 .. d + 1
        PROVE  (IF i <= d THEN h[i] ELSE AllMasks(d)) = AllMasks(i - 1)
    <3>1. CASE i <= d BY <1>1, <3>1
    <3>2. CASE i = d + 1
      <4>1. i - 1 = d /\ ~(i <= d) BY <3>2
      <4> QED BY <4>1
    <3> QED BY <3>1, <3>2
  <2> QED BY <2>1, <2>2 DEF History
<1>5. ASSUME NEW c \in 0 .. d PROVE SubSeq(h, 1, c) = History(c)
  <2>1. SubSeq(h, 1, c) = [i \in 1 .. c |-> h[i]] BY <1>1, PrefixFunction
  <2>2. \A i \in 1 .. c : h[i] = AllMasks(i - 1) BY <1>1
  <2> QED BY <2>1, <2>2 DEF History
<1> QED BY <1>1, <1>2, <1>3, <1>4, <1>5 DEF h

\* The masks of a forward pass that ends are those of its number, and its
\* place in the history is the next one that this job reaches.
LEMMA PassDrawn ==
  ASSUME CountsInv, EndForward,
         NEW n \in Nat, NEW b \in Nat, NEW u \in Nat, NEW d \in Nat, NEW c \in Nat,
         StateAt(n, b, u, d, c)
  PROVE  /\ iteration * args.num_microbatches + forwards' = n + 1
         /\ \/ n + 1 <= d /\ drawn' = History(d)
            \/ d = n /\ drawn' = History(n + 1)
<1>1. /\ pass.kind = "forward" /\ pass.unit > Len(Units) /\ forwards' = forwards + 1
  BY DEF EndForward
<1>2. /\ args \in Configs /\ Len(Units) \in Nat /\ u = Len(Units) + 1 /\ UnitLayers \in Nat
      /\ forwards \in Nat
  <2>1. args \in Configs /\ u = pass.unit BY DEF CountsInv, StateAt
  <2>2. Len(Units) \in Nat /\ UnitLayers \in Nat BY <2>1, UnitsFacts
  <2>3. pass \in [kind : {"none", "forward", "backward"}, unit : 0 .. Len(Units) + 1]
        /\ forwards \in Nat
    <3>1. args.num_microbatches \in Nat BY <2>1, ArgsType
    <3> QED BY <3>1 DEF CountsInv
  <2> QED BY <1>1, <2>1, <2>2, <2>3
<1>3. /\ drawing = ForwardMasks(n, u) /\ drawn = History(d) /\ n <= d
      /\ n = iteration * args.num_microbatches + forwards
  BY <1>1 DEF StateAt
<1>4. args.num_microbatches \in Nat /\ iteration \in Nat
  BY SMTT(60), <1>2, ArgsType, BoundsAssumption DEF CountsInv
<1>5. drawing = AllMasks(n)
  <2>1. (u - 1) * UnitLayers = args.num_layers
    <3>1. u - 1 = Len(Units) BY <1>2
    <3>2. Len(Units) * UnitLayers = args.num_layers BY <1>2, UnitsFacts
    <3> QED BY <3>1, <3>2
  <2> QED BY <1>3, <2>1 DEF ForwardMasks, AllMasks, PassMasks
<1>6. iteration * args.num_microbatches + forwards' = n + 1
  <2> DEFINE x == iteration * args.num_microbatches
  <2>1. x \in Nat /\ n = x + forwards BY <1>3, <1>4
  <2> HIDE DEF x
  <2>2. x + forwards' = n + 1 BY <1>1, <1>2, <2>1
  <2> QED BY <2>2 DEF x
<1>7. \/ n + 1 <= d /\ drawn' = History(d)
      \/ d = n /\ drawn' = History(n + 1)
  <2>1. drawn' = IF n + 1 <= Len(drawn) THEN [drawn EXCEPT ![n + 1] = drawing]
                 ELSE Append(drawn, drawing)
    <3> DEFINE i == iteration * args.num_microbatches + forwards'
    <3>1. drawn' = IF i <= Len(drawn) THEN [drawn EXCEPT ![i] = drawing]
                   ELSE Append(drawn, drawing)
      BY DEF EndForward
    <3> QED BY <1>6, <3>1
  <2>2. Len(drawn) = d BY <1>3, HistoryFacts
  <2>3. CASE n + 1 <= d
    <3>1. n + 1 \in 1 .. d /\ n + 1 - 1 = n BY <2>3
    <3>2. [History(d) EXCEPT ![n + 1] = AllMasks(n + 1 - 1)] = History(d)
      BY <3>1, HistoryFacts
    <3> QED BY <1>3, <1>5, <2>1, <2>2, <2>3, <3>1, <3>2
  <2>4. CASE ~(n + 1 <= d)
    <3>1. d = n BY <1>3, <2>4
    <3>2. Append(History(n), AllMasks(n)) = History(n + 1) BY HistoryFacts
    <3>3. drawn' = History(n + 1) BY <1>3, <1>5, <2>1, <2>2, <2>4, <3>1, <3>2
    <3> QED BY <3>1, <3>3
  <2> QED BY <2>3, <2>4
<1> QED BY <1>6, <1>7

\* A forward pass ends.
LEMMA EndForwardInv ==
  ASSUME IInv, EndForward
  PROVE  IInv'
<1>1. CountsInv BY DEF IInv
<1>2. PICK n \in Nat, b \in Nat, u \in Nat, d \in Nat, c \in Nat : StateAt(n, b, u, d, c)
  BY DEF IInv
<1>3. /\ pass.kind = "forward" /\ pass.unit > Len(Units)
      /\ pass' = [kind |-> "none", unit |-> 0]
      /\ forwards' = forwards + 1
      /\ UNCHANGED <<fork, graph, args, checkpoint, restarts, backwards, iteration, applied>>
      /\ rng' = [r \in Ranks |-> IF args.sequence_parallel THEN Leave(rng[r], r) ELSE rng[r]]
  BY DEF EndForward, job
<1>4. /\ args \in Configs /\ Len(Units) \in Nat /\ u = Len(Units) + 1 /\ UnitLayers \in Nat
      /\ forwards < args.num_microbatches /\ forwards \in Nat /\ backwards \in 0 .. forwards
      /\ iteration < MaxIterations
  <2>1. args \in Configs /\ u = pass.unit BY <1>1, <1>2 DEF CountsInv, StateAt
  <2>2. Len(Units) \in Nat /\ UnitLayers \in Nat BY <2>1, UnitsFacts
  <2>3. pass \in [kind : {"none", "forward", "backward"}, unit : 0 .. Len(Units) + 1]
        /\ forwards < args.num_microbatches /\ forwards \in Nat /\ backwards \in 0 .. forwards
        /\ iteration < MaxIterations
    <3>1. args.num_microbatches \in Nat BY <2>1, ArgsType
    <3> QED BY <1>1, <1>3, <3>1 DEF CountsInv
  <2> QED BY <1>3, <2>1, <2>2, <2>3
<1>5. /\ rng = Starts(n, u) /\ drawing = ForwardMasks(n, u)
      /\ (args.sequence_parallel => fork = Origs(n))
      /\ drawn = History(d) /\ n <= d
      /\ n = iteration * args.num_microbatches + forwards
      /\ b = iteration * args.num_microbatches + backwards
      /\ c = checkpoint.iteration * args.num_microbatches
      /\ applied = History(b) /\ graph = Outstanding(n, b, u, n - b + Under) /\ Under = 1
      /\ checkpoint.iteration > 0 => checkpoint.rng_state = Saved(c)
  BY <1>2, <1>3 DEF StateAt, Under
<1>6. args.num_microbatches \in Nat /\ iteration \in Nat /\ MaxIterations \in Nat
  BY <1>1, <1>4, ArgsType, BoundsAssumption DEF CountsInv
<1>7. rng' = Defaults(n + 1)
  <2>1. ASSUME NEW r \in Ranks
        PROVE  (IF args.sequence_parallel THEN Leave(rng[r], r) ELSE rng[r]) = Base(r, n + 1)
    <3> DEFINE g == After(InLayers(r, n), args.num_layers)
    <3>1. rng[r] = UnitStart(r, n, u) BY <1>5 DEF Starts
    <3>2. UnitStart(r, n, u) = g
      <4>1. Len(Units) + 1 \in 1 .. Len(Units) + 1 BY <1>4
      <4> QED BY <1>4, <4>1, StartFacts
    <3>3. args.sequence_parallel => fork[r] = Gen(DataParallelSeed(r), n * CudaDraws)
      BY <1>5 DEF Origs
    <3> HIDE DEF g
    <3>4. Leave(rng[r], r) = Join(rng[r], fork[r]) BY DEF Leave
    <3>5. (IF args.sequence_parallel THEN Join(g, Gen(DataParallelSeed(r), n * CudaDraws)) ELSE g) =
            Base(r, n + 1)
      BY <1>4, LeftLayers DEF g
    <3> QED BY <3>1, <3>2, <3>3, <3>4, <3>5
  <2> QED BY <1>3, <2>1 DEF Defaults
<1>8. iteration * args.num_microbatches + forwards' = n + 1 BY <1>1, <1>2, PassDrawn
<1>9. PICK e \in Nat : n + 1 <= e /\ drawn' = History(e)
  <2>1. \/ n + 1 <= d /\ drawn' = History(d)
        \/ d = n /\ drawn' = History(n + 1)
    BY <1>1, <1>2, PassDrawn
  <2>2. n + 1 \in Nat /\ n + 1 <= n + 1 OBVIOUS
  <2> QED BY <2>1, <2>2
<1>10. graph' = Outstanding(n + 1, b, 0, n + 1 - b)
  <2>1. n - b = forwards - backwards /\ b <= n BY <1>1, <1>2, Numbers
  <2>2. n + 1 - b = n - b + 1 /\ graph' = Outstanding(n, b, u, n - b + 1)
    BY <1>3, <1>5
  <2>3. ASSUME NEW i \in 1 .. n - b + 1
        PROVE  (IF b + i - 1 = n THEN u - 1 ELSE Len(Units)) =
                 IF b + i - 1 = n + 1 THEN 0 - 1 ELSE Len(Units)
    <3>1. b + i - 1 # n + 1 /\ u - 1 = Len(Units) BY <1>4, <2>1
    <3> QED BY <3>1
  <2> QED BY <2>2, <2>3 DEF Outstanding
<1>11. CountsInv'
  <2>1. Ranks' = Ranks /\ Units' = Units BY <1>3, SameJob
  <2>2. pass' \in [kind : {"none", "forward", "backward"}, unit : 0 .. Len(Units) + 1]
        /\ pass'.kind = "none"
    BY <1>3, <1>4
  <2>3. forwards' \in 0 .. args.num_microbatches /\ backwards' \in 0 .. forwards'
    BY <1>3, <1>4, <1>6
  <2> QED BY <1>1, <1>3, <1>4, <2>1, <2>2, <2>3 DEF CountsInv
<1>12. StateAt(n + 1, b, 0, e, c)'
  <2>1. PICK m \in Nat, v \in Nat : m = n + 1 /\ v = 0 OBVIOUS
  <2>2. m - b + 0 = n + 1 - b BY <2>1
  <2>3. pass'.kind = "none" /\ pass'.unit = 0 BY <1>3
  <2>4. graph' = Outstanding(m, b, v, m - b + (IF pass'.kind = "forward" THEN 1 ELSE 0))
    BY <1>10, <2>1, <2>2, <2>3
  <2> QED BY <1>3, <1>5, <1>7, <1>8, <1>9, <2>1, <2>3, <2>4, NextAt
<1> QED BY <1>11, <1>12 DEF IInv

\* A backward pass starts.
LEMMA StartBackwardInv ==
  ASSUME IInv, StartBackward
  PROVE  IInv'
<1>1. CountsInv BY DEF IInv
<1>2. PICK n \in Nat, b \in Nat, u \in Nat, d \in Nat, c \in Nat : StateAt(n, b, u, d, c)
  BY DEF IInv
<1>3. /\ pass.kind = "none" /\ graph # <<>>
      /\ pass' = [kind |-> "backward", unit |-> Len(Units)]
      /\ drawing' = [r \in Ranks |-> <<>>]
      /\ UNCHANGED <<rng, fork, graph, args, checkpoint, restarts, forwards, backwards, iteration,
                     drawn, applied>>
  BY DEF StartBackward, job, schedule
<1>4. /\ args \in Configs /\ Len(Units) \in Nat /\ UnitLayers \in Nat
      /\ backwards \in Nat /\ forwards \in Nat
  <2>1. args \in Configs BY <1>1 DEF CountsInv
  <2>2. args.num_microbatches \in Nat BY <2>1, ArgsType
  <2> QED BY <1>1, <2>1, <2>2, UnitsFacts DEF CountsInv
<1>5. /\ rng = Defaults(n) /\ drawn = History(d) /\ n <= d
      /\ n = iteration * args.num_microbatches + forwards
      /\ b = iteration * args.num_microbatches + backwards
      /\ c = checkpoint.iteration * args.num_microbatches
      /\ applied = History(b) /\ graph = Outstanding(n, b, u, n - b + Under) /\ Under = 0
      /\ checkpoint.iteration > 0 => checkpoint.rng_state = Saved(c)
  BY <1>2, <1>3 DEF StateAt, Under
<1>6. n - b = forwards - backwards /\ b <= n /\ n - b + Under = n - b
  BY SMTT(60), <1>1, <1>2, <1>5, Numbers
<1>7. backwards < forwards
  <2>1. n - b # 0
    <3>1. Outstanding(n, b, u, 0) = <<>> BY DEF Outstanding
    <3> QED BY <1>3, <1>5, <1>6, <3>1
  <2> QED BY <1>4, <1>6, <2>1
<1>8. drawing' = BackwardMasks(b, Len(Units))
  <2>1. (Len(Units) - Len(Units)) * UnitLayers = 0 BY <1>4
  <2> QED BY <1>3, <2>1, NoMasks DEF BackwardMasks
<1>9. graph = Outstanding(n, b, Len(Units), n - b)
  <2>1. \A i \in 1 .. n - b : b + i - 1 # n BY <1>6
  <2> QED BY <1>5, <1>6, <2>1 DEF Outstanding
<1>10. CountsInv'
  <2>1. Ranks' = Ranks /\ Units' = Units BY <1>3, SameJob
  <2>2. pass' \in [kind : {"none", "forward", "backward"}, unit : 0 .. Len(Units) + 1]
        /\ pass'.kind = "backward" /\ pass'.unit = Len(Units)
    BY <1>3, <1>4
  <2> QED BY <1>1, <1>3, <1>7, <2>1, <2>2 DEF CountsInv
<1>11. \E v \in Nat : StateAt(n, b, v, d, c)'
  <2>1. PICK v \in Nat : v = Len(Units) BY <1>4
  <2>2. n - b + 0 = n - b OBVIOUS
  <2>3. pass'.kind = "backward" /\ pass'.unit = v BY <1>3, <2>1
  <2>4. graph' = Outstanding(n, b, v, n - b + (IF pass'.kind = "forward" THEN 1 ELSE 0))
    BY <1>3, <1>9, <2>1, <2>2, <2>3
  <2>5. drawing' = BackwardMasks(b, v) BY <1>8, <2>1
  <2>6. StateAt(n, b, v, d, c)' BY <1>3, <1>5, <2>3, <2>4, <2>5, NextAt
  <2> QED BY <2>6
<1> QED BY <1>10, <1>11 DEF IInv

\* A backward pass runs layers again.
LEMMA BackwardUnitInv ==
  ASSUME IInv, BackwardUnit
  PROVE  IInv'
<1>1. CountsInv BY DEF IInv
<1>2. PICK n \in Nat, b \in Nat, u \in Nat, d \in Nat, c \in Nat : StateAt(n, b, u, d, c)
  BY DEF IInv
<1>3. /\ pass.kind = "backward" /\ pass.unit > 0
      /\ pass' = [pass EXCEPT !.unit = @ - 1]
      /\ rng' = rng
      /\ UNCHANGED <<fork, graph, args, checkpoint, restarts, forwards, backwards, iteration,
                     drawn, applied>>
  BY DEF BackwardUnit, job, schedule
<1>4. /\ args \in Configs /\ u \in 1 .. Len(Units) /\ pass.unit = u
      /\ pass' = [kind |-> "backward", unit |-> u - 1]
      /\ Len(Units) \in Nat /\ u \in 1 .. Len(Units) + 1 /\ UnitLayers \in Nat
      /\ backwards < forwards /\ forwards \in Nat /\ backwards \in Nat
  <2>1. args \in Configs /\ u = pass.unit BY <1>1, <1>2 DEF CountsInv, StateAt
  <2>2. Len(Units) \in Nat /\ UnitLayers \in Nat /\ args.num_microbatches \in Nat
    BY <2>1, UnitsFacts, ArgsType
  <2>3. pass \in [kind : {"none", "forward", "backward"}, unit : 0 .. Len(Units) + 1]
        /\ pass.unit <= Len(Units)
    BY <1>1, <1>3 DEF CountsInv
  <2>4. pass' = [kind |-> "backward", unit |-> pass.unit - 1] BY <1>3, <2>3
  <2>5. backwards < forwards /\ forwards \in Nat /\ backwards \in Nat
    BY <1>1, <1>3, <2>2 DEF CountsInv
  <2> QED BY <1>3, <2>1, <2>2, <2>3, <2>4, <2>5
<1>5. /\ rng = Defaults(n) /\ drawn = History(d) /\ n <= d
      /\ n = iteration * args.num_microbatches + forwards
      /\ b = iteration * args.num_microbatches + backwards
      /\ c = checkpoint.iteration * args.num_microbatches
      /\ applied = History(b) /\ graph = Outstanding(n, b, u, n - b + Under) /\ Under = 0
      /\ drawing = BackwardMasks(b, u)
      /\ checkpoint.iteration > 0 => checkpoint.rng_state = Saved(c)
  BY <1>2, <1>3 DEF StateAt, Under
<1>6. n - b = forwards - backwards /\ b <= n /\ n - b + Under = n - b
  BY SMTT(60), <1>1, <1>2, <1>5, Numbers
<1>7. graph[1].units[u] = UnitLeft(b, u)
  <2>1. 1 \in 1 .. n - b /\ b + 1 - 1 = b /\ b # n BY <1>4, <1>6
  <2>2. graph[1] = PassLeft(b + 1 - 1, IF b + 1 - 1 = n THEN u - 1 ELSE Len(Units))
    BY <1>5, <1>6, <2>1 DEF Outstanding
  <2>3. graph[1] = PassLeft(b, Len(Units)) BY SMTT(60), <2>1, <2>2
  <2> QED BY <1>4, <2>3 DEF PassLeft
<1> DEFINE unit == UnitLeft(b, u)
           again == [r \in Ranks |->
                       CASE unit.recomputed = "all" -> Layers(Replay(r, unit.fwd[r]), unit.layers)
                         [] unit.recomputed = "attention" -> Attention(Replay(r, unit.fwd[r]))
                         [] unit.recomputed = "nothing" -> Start(rng[r])]
<1>8. drawing' = [r \in Ranks |-> again[r].masks \o unit.masks[r] \o drawing[r]]
  BY <1>4, <1>7 DEF BackwardUnit
<1>9. ASSUME NEW r \in Ranks
      PROVE  again[r].masks \o unit.masks[r] = LayerMasks(UnitStart(r, b, u), UnitLayers)
  <2> DEFINE g == UnitStart(r, b, u)
  <2>1. /\ unit.recomputed = Units[u].recomputed /\ unit.layers = UnitLayers
        /\ unit.fwd[r] = g
        /\ unit.masks[r] = Kept(Units[u], LayerMasks(g, UnitLayers))
    BY <1>4, UnitsFacts DEF UnitLeft, Starts
  <2>2. g \in Pairs BY <1>4, StartFacts
  <2> HIDE DEF unit, g
  <2>3. again[r] = CASE Units[u].recomputed = "all" -> Layers(Start(g), UnitLayers)
                     [] Units[u].recomputed = "attention" -> Attention(Start(g))
                     [] Units[u].recomputed = "nothing" -> Start(rng[r])
    BY <2>1 DEF Replay
  <2> HIDE DEF again
  <2> QED BY <1>4, <2>1, <2>2, <2>3, UnitAgain, ZenonT(40) DEF g
<1> HIDE DEF again, unit
<1>10. drawing' = BackwardMasks(b, u - 1)
  <2>1. ASSUME NEW r \in Ranks
        PROVE  again[r].masks \o unit.masks[r] \o drawing[r] =
                 LayerMasks(UnitStart(r, b, u - 1 + 1), (Len(Units) - (u - 1)) * UnitLayers)
    <3>1. drawing[r] = LayerMasks(UnitStart(r, b, u + 1), (Len(Units) - u) * UnitLayers)
      BY <1>5 DEF BackwardMasks
    <3>2. LayerMasks(UnitStart(r, b, u), UnitLayers)
            \o LayerMasks(UnitStart(r, b, u + 1), (Len(Units) - u) * UnitLayers)
          = LayerMasks(UnitStart(r, b, u), (Len(Units) - (u - 1)) * UnitLayers)
      <4>1. u <= Len(Units) BY <1>4
      <4> QED BY <1>4, <4>1, StartFacts
    <3>3. u - 1 + 1 = u BY <1>4
    <3> QED BY <1>9, <3>1, <3>2, <3>3
  <2>2. drawing' = [r \in Ranks |->
          LayerMasks(UnitStart(r, b, u - 1 + 1), (Len(Units) - (u - 1)) * UnitLayers)]
    BY <1>8, <2>1
  <2> QED BY <2>2 DEF BackwardMasks
<1>11. graph = Outstanding(n, b, u - 1, n - b)
  <2>1. \A i \in 1 .. n - b : b + i - 1 # n BY <1>6
  <2> QED BY <1>5, <1>6, <2>1 DEF Outstanding
<1>12. CountsInv'
  <2>1. Ranks' = Ranks /\ Units' = Units BY <1>3, SameJob
  <2>2. pass' \in [kind : {"none", "forward", "backward"}, unit : 0 .. Len(Units) + 1]
        /\ pass'.kind = "backward" /\ pass'.unit <= Len(Units)
    BY <1>4
  <2> QED BY <1>1, <1>3, <1>4, <2>1, <2>2 DEF CountsInv
<1>13. \E v \in Nat : StateAt(n, b, v, d, c)'
  <2>1. PICK v \in Nat : v = u - 1 BY <1>4
  <2>2. n - b + 0 = n - b OBVIOUS
  <2>3. pass'.kind = "backward" /\ pass'.unit = v BY <1>4, <2>1
  <2>4. graph' = Outstanding(n, b, v, n - b + (IF pass'.kind = "forward" THEN 1 ELSE 0))
    BY <1>3, <1>11, <2>1, <2>2, <2>3
  <2>5. drawing' = BackwardMasks(b, v) BY <1>10, <2>1
  <2>6. StateAt(n, b, v, d, c)' BY <1>3, <1>5, <2>3, <2>4, <2>5, NextAt
  <2> QED BY <2>6
<1> QED BY <1>12, <1>13 DEF IInv

\* At the end of a backward pass its masks are those of the forward pass.
LEMMA MasksApplied ==
  ASSUME CountsInv, EndBackward,
         NEW n \in Nat, NEW b \in Nat, NEW u \in Nat, NEW d \in Nat, NEW c \in Nat,
         StateAt(n, b, u, d, c)
  PROVE  /\ [r \in Ranks |-> graph[1].embedding[r] \o drawing[r]] = AllMasks(b)
         /\ b < n
<1>1. pass.kind = "backward" /\ pass.unit = 0 BY DEF EndBackward
<1>2. /\ args \in Configs /\ u = 0
      /\ drawing = BackwardMasks(b, u) /\ graph = Outstanding(n, b, u, n - b + Under)
      /\ Under = 0
  BY <1>1 DEF CountsInv, StateAt, Under
<1>3. n - b = forwards - backwards /\ b <= n /\ args.num_microbatches \in Nat
  BY Numbers
<1>4. b < n /\ n - b + Under = n - b
  <2>1. backwards < forwards /\ forwards \in Nat /\ backwards \in Nat
    BY <1>1, <1>3 DEF CountsInv
  <2> QED BY <1>2, <1>3, <2>1
<1>5. graph[1].embedding = [r \in Ranks |-> EmbeddingMasks(r, b)]
  <2>1. 1 \in 1 .. n - b /\ b + 1 - 1 = b BY <1>4
  <2>2. graph[1] = PassLeft(b + 1 - 1, IF b + 1 - 1 = n THEN u - 1 ELSE Len(Units))
    BY <1>2, <1>4, <2>1 DEF Outstanding
  <2> QED BY <2>1, <2>2 DEF PassLeft
<1>6. ASSUME NEW r \in Ranks
      PROVE  drawing[r] = LayerMasks(InLayers(r, b), args.num_layers)
  <2>1. drawing[r] = LayerMasks(UnitStart(r, b, 0 + 1), (Len(Units) - 0) * UnitLayers)
    BY <1>2 DEF BackwardMasks
  <2>2. /\ Len(Units) \in Nat /\ UnitLayers \in Nat
        /\ Len(Units) * UnitLayers = args.num_layers
    BY <1>2, UnitsFacts
  <2>3. Len(Units) - 0 = Len(Units) /\ 0 + 1 = 1 /\ 1 \in 1 .. Len(Units) + 1
    BY <2>2
  <2>4. UnitStart(r, b, 1) = InLayers(r, b) BY <1>2, <2>3, StartFacts
  <2> QED BY <2>1, <2>2, <2>3, <2>4
<1> QED BY <1>4, <1>5, <1>6 DEF AllMasks, PassMasks

\* A backward pass ends.
LEMMA EndBackwardInv ==
  ASSUME IInv, EndBackward
  PROVE  IInv'
<1>1. CountsInv BY DEF IInv
<1>2. PICK n \in Nat, b \in Nat, u \in Nat, d \in Nat, c \in Nat : StateAt(n, b, u, d, c)
  BY DEF IInv
<1>3. /\ pass.kind = "backward" /\ pass.unit = 0
      /\ pass' = [kind |-> "none", unit |-> 0]
      /\ applied' = Append(applied, [r \in Ranks |-> graph[1].embedding[r] \o drawing[r]])
      /\ graph' = Tail(graph)
      /\ backwards' = backwards + 1
      /\ UNCHANGED <<rng, fork, args, checkpoint, restarts, forwards, iteration, drawn>>
  BY DEF EndBackward, job
<1>4. /\ args \in Configs /\ args.num_microbatches \in Nat /\ Len(Units) \in Nat
      /\ iteration \in Nat /\ forwards \in Nat /\ backwards \in Nat /\ backwards < forwards
  <2>1. args \in Configs BY <1>1 DEF CountsInv
  <2>2. args.num_microbatches \in Nat /\ Len(Units) \in Nat
    BY SMTT(60), <2>1, ArgsType, UnitsFacts
  <2> QED BY <1>1, <1>3, <2>1, <2>2, BoundsAssumption DEF CountsInv
<1>5. /\ rng = Defaults(n) /\ drawn = History(d) /\ n <= d
      /\ n = iteration * args.num_microbatches + forwards
      /\ b = iteration * args.num_microbatches + backwards
      /\ c = checkpoint.iteration * args.num_microbatches
      /\ applied = History(b) /\ graph = Outstanding(n, b, u, n - b + Under) /\ Under = 0
      /\ u = 0
      /\ checkpoint.iteration > 0 => checkpoint.rng_state = Saved(c)
  BY <1>2, <1>3 DEF StateAt, Under
<1>6. n - b = forwards - backwards /\ b < n /\ n - b + Under = n - b
  <2>1. n - b = forwards - backwards /\ b <= n BY <1>1, <1>2, Numbers
  <2>2. b < n BY <1>1, <1>2, MasksApplied
  <2> QED BY <1>5, <2>1, <2>2
<1>7. iteration * args.num_microbatches + backwards' = b + 1
  <2> DEFINE x == iteration * args.num_microbatches
  <2>1. x \in Nat /\ b = x + backwards
    <3>1. x \in Nat BY <1>4
    <3> QED BY <1>5, <3>1
  <2> HIDE DEF x
  <2>2. x + backwards' = b + 1 BY <1>3, <1>4, <2>1
  <2> QED BY <2>2 DEF x
<1>8. applied' = History(b + 1)
  <2> DEFINE masks == [r \in Ranks |-> graph[1].embedding[r] \o drawing[r]]
  <2>1. masks = AllMasks(b) BY <1>1, <1>2, MasksApplied
  <2>2. Append(History(b), AllMasks(b)) = History(b + 1) BY <1>2, HistoryFacts
  <2>3. applied' = Append(applied, masks) BY <1>3
  <2>4. applied = History(b) BY <1>5
  <2> HIDE DEF masks
  <2> QED BY <2>1, <2>2, <2>3, <2>4
<1>9. graph' = Outstanding(n, b + 1, 0, n - (b + 1))
  <2> DEFINE k == n - b
  <2>1. k \in Nat /\ k > 0 /\ k - 1 = n - (b + 1) BY <1>6
  <2>2. graph = [i \in 1 .. k |-> graph[i]] BY <1>5, <1>6 DEF Outstanding
  <2>3. \A i \in 1 .. k :
          graph[i] = PassLeft(b + i - 1, IF b + i - 1 = n THEN 0 - 1 ELSE Len(Units))
    BY <1>5, <1>6 DEF Outstanding
  <2> HIDE DEF k
  <2>4. graph' = [i \in 1 .. k - 1 |-> graph[i + 1]]
    BY <1>3, <2>1, <2>2, TailFunction
  <2>5. ASSUME NEW i \in 1 .. k - 1
        PROVE  graph[i + 1] =
                 PassLeft(b + 1 + i - 1, IF b + 1 + i - 1 = n THEN 0 - 1 ELSE Len(Units))
    <3>1. i + 1 \in 1 .. k /\ b + (i + 1) - 1 = b + 1 + i - 1 BY <2>1
    <3> QED BY <2>3, <3>1
  <2>6. graph' = Outstanding(n, b + 1, 0, k - 1) BY <2>4, <2>5 DEF Outstanding
  <2> QED BY <2>1, <2>6
<1>10. CountsInv'
  <2>1. Ranks' = Ranks /\ Units' = Units BY <1>3, SameJob
  <2>2. pass' \in [kind : {"none", "forward", "backward"}, unit : 0 .. Len(Units) + 1]
        /\ pass'.kind = "none"
    BY <1>3, <1>4
  <2>3. backwards' \in 0 .. forwards' BY <1>3, <1>4
  <2> QED BY <1>1, <1>3, <2>1, <2>2, <2>3 DEF CountsInv
<1>11. \E v \in Nat, w \in Nat : StateAt(n, v, w, d, c)'
  <2>1. PICK v \in Nat, w \in Nat : v = b + 1 /\ w = 0 OBVIOUS
  <2>2. n - v + 0 = n - (b + 1) BY <2>1, <1>6
  <2>3. pass'.kind = "none" /\ pass'.unit = w BY <1>3, <2>1
  <2>4. graph' = Outstanding(n, v, w, n - v + (IF pass'.kind = "forward" THEN 1 ELSE 0))
    BY SMTT(60), <1>9, <2>1, <2>2, <2>3
  <2>5. StateAt(n, v, w, d, c)' BY <1>3, <1>5, <1>7, <1>8, <2>1, <2>3, <2>4, NextAt
  <2> QED BY <2>5
<1> QED BY <1>10, <1>11 DEF IInv

\* The iteration ends, and the job may save.
LEMMA EndStepFacts ==
  ASSUME CountsInv, EndStep,
         NEW n \in Nat, NEW b \in Nat, NEW u \in Nat, NEW d \in Nat, NEW c \in Nat,
         StateAt(n, b, u, d, c)
  PROVE  /\ b = n /\ iteration' * args.num_microbatches = n
         /\ iteration' = iteration + 1 /\ iteration' \in 0 .. MaxIterations
<1>1. /\ pass.kind = "none" /\ backwards = args.num_microbatches
      /\ iteration' = iteration + 1
  BY DEF EndStep
<1>2. args \in Configs BY DEF CountsInv
<1>3. args.num_microbatches \in Nat \ {0} BY <1>2, ArgsType
<1>4. forwards = args.num_microbatches /\ iteration < MaxIterations
  BY <1>1, <1>3 DEF CountsInv
<1>5. iteration \in Nat /\ MaxIterations \in Nat BY BoundsAssumption DEF CountsInv
<1>6. /\ n = iteration * args.num_microbatches + forwards
      /\ b = iteration * args.num_microbatches + backwards
  BY DEF StateAt
<1>7. (iteration + 1) * args.num_microbatches =
        iteration * args.num_microbatches + args.num_microbatches
  BY <1>3, <1>5
<1> QED BY <1>1, <1>4, <1>5, <1>6, <1>7

\* The end of an iteration keeps the invariant.
LEMMA EndStepInv ==
  ASSUME IInv, EndStep
  PROVE  IInv'
<1>1. CountsInv BY DEF IInv
<1>2. PICK n \in Nat, b \in Nat, u \in Nat, d \in Nat, c \in Nat : StateAt(n, b, u, d, c)
  BY DEF IInv
<1>3. /\ pass.kind = "none" /\ forwards' = 0 /\ backwards' = 0
      /\ checkpoint' \in {checkpoint, [iteration |-> iteration', rng_state |-> RngState]}
      /\ UNCHANGED <<rng, fork, pass, graph, args, restarts, drawn, applied>>
  BY DEF EndStep
<1>4. args \in Configs /\ args.num_microbatches \in Nat
  BY <1>1, ArgsType DEF CountsInv
<1>5. /\ rng = Defaults(n) /\ drawn = History(d) /\ n <= d
      /\ c = checkpoint.iteration * args.num_microbatches
      /\ applied = History(b) /\ graph = Outstanding(n, b, u, n - b + Under) /\ Under = 0
      /\ u = pass.unit
      /\ checkpoint.iteration > 0 => checkpoint.rng_state = Saved(c)
  BY <1>2, <1>3 DEF StateAt, Under
<1>6. /\ b = n /\ iteration' * args.num_microbatches = n
      /\ iteration' = iteration + 1 /\ iteration' \in 0 .. MaxIterations
  BY <1>1, <1>2, EndStepFacts
<1>7. RngState = Saved(n) BY <1>4, <1>5, SavedRngState
<1>8. \/ checkpoint' = checkpoint
      \/ checkpoint'.iteration = iteration' /\ checkpoint'.rng_state = Saved(n)
  BY <1>3, <1>7
<1>9. CountsInv'
  <2>1. Ranks' = Ranks /\ Units' = Units BY <1>3, SameJob
  <2>2. checkpoint'.iteration \in 0 .. iteration'
    <3>1. checkpoint.iteration \in 0 .. iteration /\ iteration \in Nat
      BY <1>1, BoundsAssumption DEF CountsInv
    <3> QED BY <1>6, <1>8, <3>1
  <2> QED BY <1>1, <1>3, <1>4, <1>6, <2>1, <2>2 DEF CountsInv
<1>10. PICK e \in Nat : /\ e = checkpoint'.iteration * args.num_microbatches
                        /\ checkpoint'.iteration > 0 => checkpoint'.rng_state = Saved(e)
  BY <1>5, <1>6, <1>8
<1>11. StateAt(n, b, u, d, e)'
  <2>1. n = iteration' * args.num_microbatches + forwards'
        /\ b = iteration' * args.num_microbatches + backwards'
    BY <1>3, <1>6
  <2>2. pass'.kind = "none" /\ pass'.unit = u BY <1>3, <1>5
  <2>3. graph' = Outstanding(n, b, u, n - b + (IF pass'.kind = "forward" THEN 1 ELSE 0))
    BY <1>3, <1>5, <2>2
  <2> QED BY <1>3, <1>5, <1>10, <2>1, <2>2, <2>3, NextAt
<1> QED BY <1>9, <1>11 DEF IInv

\* A job starts again.
LEMMA RestartInv ==
  ASSUME IInv, Restart
  PROVE  IInv'
<1>1. CountsInv BY DEF IInv
<1>2. PICK n \in Nat, b \in Nat, u \in Nat, d \in Nat, c \in Nat : StateAt(n, b, u, d, c)
  BY DEF IInv
<1>3. /\ restarts < MaxRestarts /\ restarts' = restarts + 1
      /\ pass' = [kind |-> "none", unit |-> 0] /\ graph' = <<>>
      /\ forwards' = 0 /\ backwards' = 0
      /\ iteration' = checkpoint.iteration
      /\ applied' = SubSeq(applied, 1, checkpoint.iteration * args.num_microbatches)
      /\ UNCHANGED <<args, checkpoint, drawn>>
      /\ rng' = [r \in Ranks |-> IF checkpoint.iteration = 0 THEN Seeded(r)
                                 ELSE Loaded(r, checkpoint.rng_state)]
      /\ fork' = [r \in Ranks |-> rng'[r].cuda]
  BY DEF Restart
<1>4. /\ args \in Configs /\ args.num_microbatches \in Nat /\ Len(Units) \in Nat
      /\ checkpoint.iteration \in 0 .. iteration /\ iteration \in 0 .. MaxIterations
      /\ restarts \in Nat
  <2>1. args \in Configs BY <1>1 DEF CountsInv
  <2>2. args.num_microbatches \in Nat /\ Len(Units) \in Nat
    BY <2>1, ArgsType, UnitsFacts
  <2> QED BY <1>1, <2>1, <2>2 DEF CountsInv
<1>5. /\ drawn = History(d) /\ n <= d /\ applied = History(b)
      /\ c = checkpoint.iteration * args.num_microbatches
      /\ checkpoint.iteration > 0 => checkpoint.rng_state = Saved(c)
  BY <1>2 DEF StateAt
<1>6. c <= b /\ c <= d BY <1>1, <1>2, Numbers
<1>7. rng' = Defaults(c)
  <2>1. ASSUME NEW r \in Ranks
        PROVE  (IF checkpoint.iteration = 0 THEN Seeded(r) ELSE Loaded(r, checkpoint.rng_state)) =
                 Base(r, c)
    <3>1. CASE checkpoint.iteration = 0
      <4>1. c = 0 BY <1>4, <1>5, <3>1
      <4> QED BY <1>4, <3>1, <4>1, SeededBase
    <3>2. CASE checkpoint.iteration # 0
      <4>1. checkpoint.rng_state = Saved(c) BY <1>4, <1>5, <3>2
      <4> QED BY <1>4, <3>2, <4>1, LoadedSaved
    <3> QED BY <3>1, <3>2
  <2> QED BY <1>3, <2>1 DEF Defaults
<1>8. fork' \in [Ranks -> Generator] BY <1>3, <1>4, <1>7, DefaultsType
<1>9. applied' = History(c)
  <2>1. c \in 0 .. b BY <1>6
  <2> QED BY <1>3, <1>5, <2>1, HistoryFacts
<1>10. CountsInv'
  <2>1. Ranks' = Ranks /\ Units' = Units BY <1>3, SameJob
  <2>2. pass' \in [kind : {"none", "forward", "backward"}, unit : 0 .. Len(Units) + 1]
        /\ pass'.kind = "none"
    BY <1>3, <1>4
  <2>3. restarts' \in 0 .. MaxRestarts /\ iteration' \in 0 .. MaxIterations
        /\ checkpoint'.iteration \in 0 .. iteration'
    BY <1>3, <1>4, BoundsAssumption
  <2> QED BY <1>1, <1>3, <1>4, <1>8, <2>1, <2>2, <2>3 DEF CountsInv
<1>11. \E v \in Nat : StateAt(c, c, v, d, c)'
  <2>1. PICK v \in Nat : v = 0 OBVIOUS
  <2>2. pass'.kind = "none" /\ pass'.unit = v BY <1>3, <2>1
  <2>3. c = iteration' * args.num_microbatches + forwards'
        /\ c = iteration' * args.num_microbatches + backwards'
    BY <1>3, <1>5
  <2>4. graph' = Outstanding(c, c, v, c - c + (IF pass'.kind = "forward" THEN 1 ELSE 0))
    <3>1. c - c + 0 = 0 OBVIOUS
    <3> QED BY <1>3, <2>2, <3>1 DEF Outstanding
  <2>5. StateAt(c, c, v, d, c)'
    BY <1>3, <1>5, <1>6, <1>7, <1>9, <2>2, <2>3, <2>4, NextAt
  <2> QED BY <2>5
<1> QED BY <1>10, <1>11 DEF IInv

\* A step that changes nothing.
LEMMA StutterInv ==
  ASSUME IInv, UNCHANGED vars
  PROVE  IInv'
<1>1. CountsInv BY DEF IInv
<1>2. PICK n \in Nat, b \in Nat, u \in Nat, d \in Nat, c \in Nat : StateAt(n, b, u, d, c)
  BY DEF IInv
<1>3. UNCHANGED <<rng, fork, pass, graph, forwards, backwards, iteration, args, checkpoint,
                  restarts, drawing, drawn, applied>>
  BY DEF vars, schedule, job
<1>4. CountsInv'
  <2>1. Ranks' = Ranks /\ Units' = Units BY <1>3, SameJob
  <2> QED BY <1>1, <1>3, <2>1 DEF CountsInv
<1>5. StateAt(n, b, u, d, c)'
  <2>1. Under = IF pass'.kind = "forward" THEN 1 ELSE 0 BY <1>3 DEF Under
  <2>2. /\ n = iteration' * args.num_microbatches + forwards'
        /\ b = iteration' * args.num_microbatches + backwards'
        /\ u = pass'.unit
        /\ c = checkpoint'.iteration * args.num_microbatches
        /\ rng' = IF pass'.kind = "forward" THEN Starts(n, u) ELSE Defaults(n)
        /\ pass'.kind = "forward" /\ args.sequence_parallel => fork' = Origs(n)
        /\ pass'.kind = "forward" => drawing' = ForwardMasks(n, u)
        /\ pass'.kind = "backward" => drawing' = BackwardMasks(b, u)
        /\ graph' = Outstanding(n, b, u, n - b + Under)
        /\ drawn' = History(d) /\ n <= d
        /\ applied' = History(b)
        /\ checkpoint'.iteration > 0 => checkpoint'.rng_state = Saved(c)
    BY <1>2, <1>3 DEF StateAt
  <2> QED BY <1>3, <2>1, <2>2, NextAt
<1> QED BY <1>4, <1>5 DEF IInv

\* Every reachable state is one of them.
LEMMA Invariant == Spec => []IInv
<1>1. Init => IInv BY InvInit
<1>2. IInv /\ [Next]_vars => IInv'
  <2> SUFFICES ASSUME IInv, [Next]_vars PROVE IInv'
    OBVIOUS
  <2>1. CASE StartForward BY <2>1, StartForwardInv
  <2>2. CASE ForwardUnit BY <2>2, ForwardUnitInv
  <2>3. CASE EndForward BY <2>3, EndForwardInv
  <2>4. CASE StartBackward BY <2>4, StartBackwardInv
  <2>5. CASE BackwardUnit BY <2>5, BackwardUnitInv
  <2>6. CASE EndBackward BY <2>6, EndBackwardInv
  <2>7. CASE EndStep BY <2>7, EndStepInv
  <2>8. CASE Restart BY <2>8, RestartInv
  <2>9. CASE Ended \/ UNCHANGED vars BY <2>9, StutterInv DEF Ended
  <2> QED BY <2>1, <2>2, <2>3, <2>4, <2>5, <2>6, <2>7, <2>8, <2>9 DEF Next
<1> QED BY <1>1, <1>2, PTL DEF Spec

-----------------------------------------------------------------------------
\* Types.

\* What TypeOK says holds in every reachable state of every job; above all
\* the generators outside of a forward pass are the ones seeded at the
\* start (CudaRNGStatesTracker.fork, CheckpointFunction, load_checkpoint).
THEOREM TypeCorrect == Spec => []TypeOK
<1>1. IInv => TypeOK
  <2> SUFFICES ASSUME IInv PROVE TypeOK
    OBVIOUS
  <2>1. CountsInv BY DEF IInv
  <2>2. PICK n \in Nat, b \in Nat, u \in Nat, d \in Nat, c \in Nat : StateAt(n, b, u, d, c)
    BY DEF IInv
  <2>3. args \in Configs /\ u = pass.unit
        /\ rng = (IF pass.kind = "forward" THEN Starts(n, u) ELSE Defaults(n))
        /\ graph = Outstanding(n, b, u, n - b + Under)
    BY <2>1, <2>2 DEF CountsInv, StateAt
  <2>4. Len(graph) <= args.num_microbatches
    <3> DEFINE k == n - b + Under
    <3>1. k \in Nat /\ k <= args.num_microbatches BY <2>1, <2>2, Numbers
    <3> HIDE DEF k
    <3>2. graph = [i \in 1 .. k |-> graph[i]] BY <2>3 DEF Outstanding, k
    <3>3. Len(graph) = k BY <3>1, <3>2, FunctionSeq
    <3> QED BY <3>1, <3>3
  <2>5. rng \in [Ranks -> [cuda : Generator, tracker : Generator]]
    <3>1. CASE pass.kind = "forward"
      <4>1. u \in 1 .. Len(Units) + 1
        <5>1. Len(Units) \in Nat BY <2>3, UnitsFacts
        <5> QED BY <2>1, <2>3, <3>1, <5>1 DEF CountsInv
      <4>2. \A r \in Ranks : UnitStart(r, n, u) \in Pairs BY <2>3, <4>1, StartFacts
      <4> QED BY <2>3, <3>1, <4>2 DEF Starts, Pairs
    <3>2. CASE pass.kind # "forward"
      <4>1. \A r \in Ranks : Base(r, n) \in Pairs BY <2>3, GeneratorTypes
      <4> QED BY <2>3, <3>2, <4>1 DEF Defaults, Pairs
    <3> QED BY <3>1, <3>2
  <2>6. pass.kind # "forward" =>
          \A r \in Ranks : /\ rng[r].cuda.seed = DataParallelSeed(r)
                           /\ rng[r].tracker.seed = TensorModelParallelSeed(r)
    BY <2>3 DEF Defaults, Base, Pair, Gen
  <2> QED BY <2>1, <2>4, <2>5, <2>6 DEF TypeOK, CountsInv
<1> QED BY <1>1, Invariant, PTL

-----------------------------------------------------------------------------
\* Masks.

\* How far into the draws of a pass a mask is, from either generator.
TrackerPlace(m) == IF args.sequence_parallel THEN m - 1 ELSE (m - Masked - 1) \div 3
CudaPlace(m) ==
  IF m <= Masked THEN 0
  ELSE Masked + 2 * ((m - Masked - 1) \div 3) + ((m - Masked - 1) % 3) - 1
Places == 1 .. Masked + 3 * args.num_layers

\* A mask behind the embedding belongs to a layer, and to attention if it
\* is the first one of the layer.
LEMMA PlaceInLayer ==
  ASSUME args \in Configs, ~args.sequence_parallel, NEW m \in Places, m > Masked
  PROVE  /\ (m - Masked - 1) \div 3 \in 0 .. args.num_layers - 1
         /\ (m - Masked - 1) % 3 \in {0, 1, 2}
         /\ m = Masked + 1 + 3 * ((m - Masked - 1) \div 3) + ((m - Masked - 1) % 3)
         /\ Partitioned(m) <=> (m - Masked - 1) % 3 = 0
<1> DEFINE p == m - Masked
           l == (p - 1) \div 3
           e == (p - 1) % 3
<1>1. Masked \in {0, 1} /\ args.num_layers \in Nat \ {0} BY DrawsType, ArgsType
<1>2. p \in Nat \ {0} /\ p <= 3 * args.num_layers /\ m = Masked + p
  BY <1>1 DEF Places
<1>3. Partitioned(m) <=> p % 3 = 1 BY DEF Partitioned, Masked
<1> HIDE DEF p
<1>4. l \in Nat /\ e \in {0, 1, 2} /\ p - 1 = 3 * l + e
  <2>1. 0 \in Nat OBVIOUS
  <2> QED BY <1>2, <2>1, LayerPlace
<1> HIDE DEF l, e
<1>5. l \in 0 .. args.num_layers - 1 BY <1>1, <1>2, <1>4
<1>6. p % 3 = 1 <=> e = 0
  <2>1. 3 \in Nat \ {0} /\ l \in Int /\ l + 1 \in Int BY <1>4
  <2>2. CASE e = 0
    <3>1. p = l * 3 + 1 /\ 1 \in 0 .. 3 - 1 BY <1>2, <1>4, <2>2
    <3>2. (l * 3 + 1) % 3 = 1 BY <2>1, <3>1, ExactQuotient
    <3> QED BY <2>2, <3>1, <3>2
  <2>3. CASE e = 1
    <3>1. p = l * 3 + 2 /\ 2 \in 0 .. 3 - 1 BY <1>2, <1>4, <2>3
    <3>2. (l * 3 + 2) % 3 = 2 BY <2>1, <3>1, ExactQuotient
    <3> QED BY <2>3, <3>1, <3>2
  <2>4. CASE e = 2
    <3>1. p = (l + 1) * 3 + 0 /\ 0 \in 0 .. 3 - 1 BY <1>2, <1>4, <2>4
    <3>2. ((l + 1) * 3 + 0) % 3 = 0 BY <2>1, <3>1, ExactQuotient
    <3> QED BY <2>4, <3>1, <3>2
  <2> QED BY <1>4, <2>2, <2>3, <2>4
<1>7. m = Masked + 1 + 3 * l + e BY <1>1, <1>2, <1>4
<1> QED BY <1>3, <1>4, <1>5, <1>6, <1>7 DEF l, e, p

\* Different masks have different places in the draws.
LEMMA PlacesDiffer ==
  ASSUME args \in Configs, NEW m \in Places
  PROVE  /\ Partitioned(m) => TrackerPlace(m) \in 0 .. TrackerDraws - 1
         /\ ~Partitioned(m) => CudaPlace(m) \in 0 .. CudaDraws - 1
         /\ \A q \in Places :
              /\ Partitioned(m) /\ Partitioned(q) /\ TrackerPlace(m) = TrackerPlace(q) => m = q
              /\ ~Partitioned(m) /\ ~Partitioned(q) /\ CudaPlace(m) = CudaPlace(q) => m = q
<1>1. Masked \in {0, 1} /\ args.num_layers \in Nat \ {0} /\ args.sequence_parallel \in BOOLEAN
  BY DrawsType, ArgsType
<1>2. CASE args.sequence_parallel
  <2>1. TrackerDraws = Masked + 3 * args.num_layers /\ \A q : Partitioned(q)
    BY <1>2 DEF TrackerDraws, Partitioned
  <2>2. \A q \in Places : q \in Int /\ TrackerPlace(q) = q - 1
    BY <1>1, <1>2 DEF TrackerPlace, Places
  <2>3. TrackerPlace(m) \in 0 .. TrackerDraws - 1 BY <1>1, <2>1, <2>2 DEF Places
  <2> QED BY <2>1, <2>2, <2>3
<1>3. CASE ~args.sequence_parallel
  <2> DEFINE l(q) == (q - Masked - 1) \div 3
             e(q) == (q - Masked - 1) % 3
  <2>1. TrackerDraws = args.num_layers /\ CudaDraws = Masked + 2 * args.num_layers
    BY <1>3 DEF TrackerDraws, CudaDraws
  <2>2. ASSUME NEW q \in Places, q > Masked
        PROVE  /\ l(q) \in 0 .. args.num_layers - 1 /\ e(q) \in {0, 1, 2}
               /\ q = Masked + 1 + 3 * l(q) + e(q)
               /\ Partitioned(q) <=> e(q) = 0
               /\ TrackerPlace(q) = l(q) /\ CudaPlace(q) = Masked + 2 * l(q) + e(q) - 1
    <3>1. TrackerPlace(q) = l(q) BY <1>3 DEF TrackerPlace
    <3>2. CudaPlace(q) = Masked + 2 * l(q) + e(q) - 1
      <4>1. ~(q <= Masked) BY <1>1, <2>2 DEF Places
      <4> QED BY <4>1 DEF CudaPlace
    <3> QED BY <1>3, <2>2, <3>1, <3>2, PlaceInLayer
  <2>3. ASSUME NEW q \in Places, ~(q > Masked)
        PROVE  Masked = 1 /\ q = 1 /\ ~Partitioned(q) /\ CudaPlace(q) = 0
    <3>1. Masked = 1 /\ q = 1 BY <1>1, <2>3 DEF Places
    <3>2. 1 - 1 = 0 /\ 0 % 3 = 0 OBVIOUS
    <3>3. ~Partitioned(q) BY <1>3, <3>1, <3>2 DEF Partitioned, Masked
    <3> QED BY <3>1, <3>3 DEF CudaPlace
  <2> HIDE DEF l, e
  <2>4. Partitioned(m) => TrackerPlace(m) \in 0 .. TrackerDraws - 1
    BY <2>1, <2>2, <2>3
  <2>5. ~Partitioned(m) => CudaPlace(m) \in 0 .. CudaDraws - 1
    BY <1>1, <2>1, <2>2, <2>3
  <2>6. ASSUME NEW q \in Places
        PROVE  /\ Partitioned(m) /\ Partitioned(q) /\ TrackerPlace(m) = TrackerPlace(q) => m = q
               /\ ~Partitioned(m) /\ ~Partitioned(q) /\ CudaPlace(m) = CudaPlace(q) => m = q
    <3>1. CASE m > Masked /\ q > Masked
      <4>1. /\ l(m) \in Nat /\ e(m) \in {0, 1, 2} /\ m = Masked + 1 + 3 * l(m) + e(m)
            /\ Partitioned(m) <=> e(m) = 0
            /\ TrackerPlace(m) = l(m) /\ CudaPlace(m) = Masked + 2 * l(m) + e(m) - 1
        BY <1>1, <2>2, <3>1
      <4>2. /\ l(q) \in Nat /\ e(q) \in {0, 1, 2} /\ q = Masked + 1 + 3 * l(q) + e(q)
            /\ Partitioned(q) <=> e(q) = 0
            /\ TrackerPlace(q) = l(q) /\ CudaPlace(q) = Masked + 2 * l(q) + e(q) - 1
        BY <1>1, <2>2, <3>1
      <4> QED BY <1>1, <4>1, <4>2
    <3>2. CASE m > Masked /\ ~(q > Masked) BY <1>1, <2>2, <2>3, <3>2
    <3>3. CASE ~(m > Masked) /\ q > Masked BY <1>1, <2>2, <2>3, <3>3
    <3>4. CASE ~(m > Masked) /\ ~(q > Masked) BY <2>3, <3>4
    <3> QED BY <3>1, <3>2, <3>3, <3>4
  <2> QED BY <2>4, <2>5, <2>6
<1> QED BY <1>1, <1>2, <1>3

\* The generator a mask is drawn with.
LEMMA MaskAt ==
  ASSUME args \in Configs, NEW r \in Ranks, NEW n \in Nat
  PROVE  /\ DOMAIN PassMasks(r, n) = Places
         /\ \A m \in Places :
              PassMasks(r, n)[m] =
                IF Partitioned(m)
                THEN Gen(TensorModelParallelSeed(r), n * TrackerDraws + TrackerPlace(m))
                ELSE Gen(DataParallelSeed(r), n * CudaDraws + CudaPlace(m))
<1> DEFINE s == DataParallelSeed(r)
           t == TensorModelParallelSeed(r)
           c == n * CudaDraws
           d == n * TrackerDraws
           g == InLayers(r, n)
           e == EmbeddingMasks(r, n)
           ls == LayerMasks(g, args.num_layers)
<1>1. /\ s \in Nat /\ t \in Nat /\ c \in Nat /\ d \in Nat /\ g \in Pairs
      /\ Masked \in {0, 1} /\ args.num_layers \in Nat \ {0} /\ args.sequence_parallel \in BOOLEAN
      /\ args.pre_process \in BOOLEAN
  BY Seeds, DrawsType, ArgsType, GeneratorTypes
<1>2. e \in Seq(Generator) /\ Len(e) = Masked BY EmbeddingMasksType
<1>3. ls \in Seq(Generator) /\ Len(ls) = 3 * args.num_layers
  <2> HIDE DEF g
  <2> QED BY <1>1, MasksType
<1>4. /\ PassMasks(r, n) = e \o ls
      /\ \A m \in 1 .. 3 * args.num_layers : ls[m] = LayerMask(g, m)
  BY DEF PassMasks, LayerMasks
<1> HIDE DEF ls, e
<1>5. /\ DOMAIN (e \o ls) = Places
      /\ \A m \in Places : (e \o ls)[m] = IF m <= Masked THEN e[m] ELSE ls[m - Masked]
  <2> DEFINE k == 3 * args.num_layers
  <2>1. k \in Nat /\ Masked \in Nat BY <1>1
  <2> HIDE DEF k
  <2>2. /\ e \o ls \in Seq(Generator) /\ Len(e \o ls) = Masked + k
        /\ \A m \in 1 .. Masked + k :
             (e \o ls)[m] = IF m <= Len(e) THEN e[m] ELSE ls[m - Len(e)]
    <3>1. /\ e \o ls \in Seq(Generator) /\ Len(e \o ls) = Len(e) + Len(ls)
          /\ \A m \in 1 .. Len(e) + Len(ls) :
               (e \o ls)[m] = IF m <= Len(e) THEN e[m] ELSE ls[m - Len(e)]
      BY <1>2, <1>3, ConcatProperties
    <3> QED BY <1>2, <1>3, <3>1 DEF k
  <2>3. DOMAIN (e \o ls) = 1 .. Masked + k BY <2>2
  <2> QED BY <1>2, <2>2, <2>3 DEF Places, k
<1>6. ASSUME NEW m \in Places
      PROVE  (e \o ls)[m] = IF Partitioned(m) THEN Gen(t, d + TrackerPlace(m))
                            ELSE Gen(s, c + CudaPlace(m))
  <2>1. CASE m <= Masked
    <3>1. Masked = 1 /\ m = 1 /\ args.pre_process BY <1>1, <2>1 DEF Places, Masked
    <3>2. e[1] = IF args.sequence_parallel THEN Gen(t, d) ELSE Gen(s, c)
      BY <3>1 DEF EmbeddingMasks, e
    <3>3. CASE args.sequence_parallel
      <4>1. Partitioned(m) /\ TrackerPlace(m) = 0 /\ d + 0 = d
        BY <1>1, <3>1, <3>3 DEF Partitioned, TrackerPlace
      <4> QED BY <1>5, <2>1, <3>1, <3>2, <3>3, <4>1
    <3>4. CASE ~args.sequence_parallel
      <4>1. 1 - 1 = 0 /\ 0 % 3 = 0 OBVIOUS
      <4>2. ~Partitioned(m) /\ CudaPlace(m) = 0 /\ c + 0 = c
        BY <1>1, <2>1, <3>1, <3>4, <4>1 DEF Partitioned, CudaPlace, Masked
      <4> QED BY <1>5, <2>1, <3>1, <3>2, <3>4, <4>2
    <3> QED BY <1>1, <3>3, <3>4
  <2>2. CASE ~(m <= Masked)
    <3> DEFINE p == m - Masked
    <3>1. m > Masked /\ p \in 1 .. 3 * args.num_layers /\ p \in Nat
      BY <1>1, <2>2 DEF Places
    <3>2. (e \o ls)[m] = LayerMask(g, p) BY <1>4, <1>5, <2>2, <3>1
    <3>3. CASE args.sequence_parallel
      <4>1. g.cuda.seed = t /\ g.cuda.count = d + Masked
        BY <3>3 DEF InLayers, Pair, Gen
      <4>2. LayerMask(g, p) = Gen(t, d + Masked + p - 1) BY <3>3, <4>1 DEF LayerMask
      <4>3. Partitioned(m) /\ d + Masked + p - 1 = d + TrackerPlace(m)
        <5>1. m \in Nat BY <1>1 DEF Places
        <5> HIDE DEF d
        <5> QED BY <1>1, <3>3, <5>1 DEF Partitioned, TrackerPlace
      <4> QED BY <3>2, <4>2, <4>3
    <3>4. CASE ~args.sequence_parallel
      <4> DEFINE l == (p - 1) \div 3
                 f == (p - 1) % 3
      <4>1. /\ g.cuda.seed = s /\ g.cuda.count = c + Masked
            /\ g.tracker.seed = t /\ g.tracker.count = d
        BY <3>4 DEF InLayers, Pair, Gen
      <4>2. LayerMask(g, p) = IF f = 0 THEN Gen(t, d + l) ELSE Gen(s, c + Masked + 2 * l + f - 1)
        BY <3>4, <4>1 DEF LayerMask
      <4>3. /\ l \in Nat /\ f \in {0, 1, 2}
            /\ Partitioned(m) <=> f = 0
        <5>1. l \in 0 .. args.num_layers - 1 /\ f \in {0, 1, 2} /\ (Partitioned(m) <=> f = 0)
          BY <3>1, <3>4, PlaceInLayer
        <5> QED BY <1>1, <5>1
      <4>4. TrackerPlace(m) = l /\ CudaPlace(m) = Masked + 2 * l + f - 1
        BY <2>2, <3>4 DEF TrackerPlace, CudaPlace
      <4> HIDE DEF l, f, c
      <4>5. c + Masked + 2 * l + f - 1 = c + (Masked + 2 * l + f - 1) BY <1>1, <4>3
      <4> QED BY <3>2, <4>2, <4>3, <4>4, <4>5 DEF c
    <3> QED BY <1>1, <3>3, <3>4
  <2> QED BY <2>1, <2>2
<1> QED BY <1>4, <1>5, <1>6

\* No two dropouts of a data-parallel replica use the same numbers, unless
\* they are the same one on ranks that hold the same activations.
THEOREM MasksAlwaysIndependent == Spec => []MasksIndependent
<1>1. IInv => MasksIndependent
  <2> SUFFICES ASSUME IInv PROVE MasksIndependent
    OBVIOUS
  <2>1. PICK d \in Nat : args \in Configs /\ drawn = History(d)
    BY DEF IInv, CountsInv, StateAt
  <2>2. DOMAIN drawn = 1 .. d /\ \A i \in 1 .. d : drawn[i] = AllMasks(i - 1)
    BY <2>1 DEF History
  <2>3. SUFFICES ASSUME NEW r \in Ranks, NEW q \in Ranks, NEW i \in 1 .. d, NEW j \in 1 .. d,
                        r[1] = q[1],
                        NEW m \in DOMAIN drawn[i][r], NEW k \in DOMAIN drawn[j][q]
                 PROVE  (drawn[i][r][m] = drawn[j][q][k]) <=>
                          (i = j /\ m = k /\ (r = q \/ ~Partitioned(m)))
    BY <2>2 DEF MasksIndependent
  <2>4. drawn[i][r] = PassMasks(r, i - 1) /\ drawn[j][q] = PassMasks(q, j - 1)
        /\ i - 1 \in Nat /\ j - 1 \in Nat
    BY <2>2 DEF AllMasks
  <2>5. m \in Places /\ k \in Places BY <2>1, <2>4, MaskAt
  <2> DEFINE own(x, y, z) == Gen(TensorModelParallelSeed(x), y * TrackerDraws + TrackerPlace(z))
             common(x, y, z) == Gen(DataParallelSeed(x), y * CudaDraws + CudaPlace(z))
  <2>6. /\ drawn[i][r][m] = IF Partitioned(m) THEN own(r, i - 1, m) ELSE common(r, i - 1, m)
        /\ drawn[j][q][k] = IF Partitioned(k) THEN own(q, j - 1, k) ELSE common(q, j - 1, k)
    BY <2>1, <2>4, <2>5, MaskAt
  <2>7. /\ DataParallelSeed(r) = DataParallelSeed(q)
        /\ DataParallelSeed(r) # TensorModelParallelSeed(q)
        /\ DataParallelSeed(q) # TensorModelParallelSeed(r)
        /\ TensorModelParallelSeed(r) = TensorModelParallelSeed(q) => r = q
    BY <2>1, <2>3, Seeds
  <2>8. \A a, b, x, y : Gen(a, b) = Gen(x, y) <=> a = x /\ b = y BY DEF Gen
  <2>9. TrackerDraws \in Nat \ {0} /\ CudaDraws \in Nat BY <2>1, DrawsType
  <2>10. CASE Partitioned(m) /\ Partitioned(k)
    <3>1. /\ TrackerPlace(m) \in 0 .. TrackerDraws - 1 /\ TrackerPlace(k) \in 0 .. TrackerDraws - 1
          /\ TrackerPlace(m) = TrackerPlace(k) => m = k
      BY <2>1, <2>5, <2>10, PlacesDiffer
    <3>2. ASSUME (i - 1) * TrackerDraws + TrackerPlace(m) = (j - 1) * TrackerDraws + TrackerPlace(k)
          PROVE  i = j /\ m = k
      <4>1. i - 1 \in Int /\ j - 1 \in Int OBVIOUS
      <4>2. i - 1 = j - 1 /\ TrackerPlace(m) = TrackerPlace(k)
        BY <2>9, <3>1, <3>2, <4>1, DigitsUnique
      <4> QED BY <3>1, <4>2
    <3>3. (own(r, i - 1, m) = own(q, j - 1, k)) <=> (i = j /\ m = k /\ r = q)
      BY <2>7, <2>8, <3>2
    <3> QED BY <2>6, <2>10, <3>3
  <2>11. CASE ~Partitioned(m) /\ ~Partitioned(k)
    <3>1. /\ CudaPlace(m) \in 0 .. CudaDraws - 1 /\ CudaPlace(k) \in 0 .. CudaDraws - 1
          /\ CudaPlace(m) = CudaPlace(k) => m = k
      BY <2>1, <2>5, <2>11, PlacesDiffer
    <3>2. ASSUME (i - 1) * CudaDraws + CudaPlace(m) = (j - 1) * CudaDraws + CudaPlace(k)
          PROVE  i = j /\ m = k
      <4>1. i - 1 \in Int /\ j - 1 \in Int /\ CudaDraws \in Nat \ {0} BY <2>9, <3>1
      <4>2. i - 1 = j - 1 /\ CudaPlace(m) = CudaPlace(k)
        BY <3>1, <3>2, <4>1, DigitsUnique
      <4> QED BY <3>1, <4>2
    <3>3. (common(r, i - 1, m) = common(q, j - 1, k)) <=> (i = j /\ m = k)
      BY <2>7, <2>8, <3>2
    <3> QED BY <2>6, <2>11, <3>3
  <2>12. CASE Partitioned(m) /\ ~Partitioned(k)
    <3>1. own(r, i - 1, m) # common(q, j - 1, k) /\ m # k BY <2>7, <2>8, <2>12
    <3> QED BY <2>6, <2>12, <3>1
  <2>13. CASE ~Partitioned(m) /\ Partitioned(k)
    <3>1. common(r, i - 1, m) # own(q, j - 1, k) /\ m # k BY <2>7, <2>8, <2>13
    <3> QED BY <2>6, <2>13, <3>1
  <2> QED BY <2>10, <2>11, <2>12, <2>13
<1> QED BY <1>1, Invariant, PTL

-----------------------------------------------------------------------------
\* Refinement.

\* What the state is to the abstract specification.
LEMMA Abstract ==
  ASSUME CountsInv, NEW n \in Nat, NEW b \in Nat, NEW u \in Nat, NEW d \in Nat, NEW c \in Nat,
         StateAt(n, b, u, d, c)
  PROVE  /\ iteration * args.num_microbatches + forwards = n
         /\ checkpoint.iteration * args.num_microbatches = c
         /\ drawn = History(d) /\ Len(drawn) = d /\ applied = History(b) /\ Len(applied) = b
         /\ b <= n /\ n <= d /\ c <= b
<1>1. /\ n = iteration * args.num_microbatches + forwards
      /\ c = checkpoint.iteration * args.num_microbatches
      /\ drawn = History(d) /\ applied = History(b) /\ n <= d
  BY DEF StateAt
<1>2. Len(History(d)) = d /\ Len(History(b)) = b BY HistoryFacts
<1>3. b <= n /\ c <= b BY Numbers
<1> QED BY <1>1, <1>2, <1>3

\* A forward pass is one of the abstract specification.
LEMMA ForwardRefined ==
  ASSUME IInv, EndForward
  PROVE  Masks!Forward
<1>1. CountsInv BY DEF IInv
<1>2. PICK n \in Nat, b \in Nat, u \in Nat, d \in Nat, c \in Nat : StateAt(n, b, u, d, c)
  BY DEF IInv
<1>3. UNCHANGED <<args, checkpoint, iteration, applied>> BY DEF EndForward, job
<1>4. /\ iteration * args.num_microbatches + forwards = n
      /\ drawn = History(d) /\ Len(drawn) = d
  BY <1>1, <1>2, Abstract
<1>5. iteration' * args'.num_microbatches + forwards' = n + 1
  BY <1>1, <1>2, <1>3, PassDrawn
<1>6. \/ n < Len(drawn) /\ drawn' = drawn
      \/ n = Len(drawn) /\ drawn' = Append(drawn, drawn'[n + 1])
  <2>1. CASE n + 1 <= d /\ drawn' = History(d) BY <1>4, <2>1
  <2>2. CASE d = n /\ drawn' = History(n + 1)
    <3>1. PICK i \in Nat : i = n + 1 /\ i \in 1 .. i /\ i - 1 = n OBVIOUS
    <3>2. History(i)[i] = AllMasks(i - 1) BY <3>1, HistoryFacts
    <3>3. Append(History(n), AllMasks(n)) = History(n + 1) BY HistoryFacts
    <3> QED BY <1>4, <2>2, <3>1, <3>2, <3>3
  <2> QED BY <1>1, <1>2, <2>1, <2>2, PassDrawn
<1>7. checkpoint'.iteration * args'.num_microbatches = checkpoint.iteration * args.num_microbatches
  BY <1>3
<1> QED BY <1>3, <1>4, <1>5, <1>6, <1>7 DEF Masks!Forward

\* So is a backward pass, ...
LEMMA BackwardRefined ==
  ASSUME IInv, EndBackward
  PROVE  Masks!Backward
<1>1. CountsInv BY DEF IInv
<1>2. PICK n \in Nat, b \in Nat, u \in Nat, d \in Nat, c \in Nat : StateAt(n, b, u, d, c)
  BY DEF IInv
<1>3. /\ UNCHANGED <<args, checkpoint, iteration, forwards, drawn>>
      /\ applied' = Append(applied, [r \in Ranks |-> graph[1].embedding[r] \o drawing[r]])
  BY DEF EndBackward, job
<1>4. /\ iteration * args.num_microbatches + forwards = n
      /\ drawn = History(d) /\ applied = History(b) /\ Len(applied) = b /\ n <= d
  BY <1>1, <1>2, Abstract
<1>5. [r \in Ranks |-> graph[1].embedding[r] \o drawing[r]] = AllMasks(b) /\ b < n
  BY <1>1, <1>2, MasksApplied
<1>6. drawn[b + 1] = AllMasks(b)
  <2>1. PICK i \in 1 .. d : i = b + 1 /\ i - 1 = b BY <1>4, <1>5
  <2>2. History(d)[i] = AllMasks(i - 1) BY HistoryFacts
  <2> QED BY <1>4, <2>1, <2>2
<1>7. /\ checkpoint'.iteration * args'.num_microbatches =
           checkpoint.iteration * args.num_microbatches
      /\ iteration' * args'.num_microbatches + forwards' =
           iteration * args.num_microbatches + forwards
  BY <1>3
<1> QED BY <1>3, <1>4, <1>5, <1>6, <1>7 DEF Masks!Backward

\* ... the end of an iteration, where the job may save, ...
LEMMA SaveRefined ==
  ASSUME IInv, EndStep
  PROVE  Masks!Save \/ UNCHANGED Masks!vars
<1>1. CountsInv BY DEF IInv
<1>2. PICK n \in Nat, b \in Nat, u \in Nat, d \in Nat, c \in Nat : StateAt(n, b, u, d, c)
  BY DEF IInv
<1>3. /\ UNCHANGED <<args, drawn, applied>> /\ forwards' = 0
      /\ checkpoint' \in {checkpoint, [iteration |-> iteration', rng_state |-> RngState]}
  BY DEF EndStep
<1>4. iteration * args.num_microbatches + forwards = n /\ Len(applied) = b
  BY <1>1, <1>2, Abstract
<1>5. b = n /\ iteration' * args.num_microbatches = n BY <1>1, <1>2, EndStepFacts
<1>6. iteration' * args'.num_microbatches + forwards' = n BY <1>3, <1>5
<1>7. CASE checkpoint' = checkpoint
  <2>1. checkpoint'.iteration * args'.num_microbatches =
          checkpoint.iteration * args.num_microbatches
    BY <1>3, <1>7
  <2> QED BY <1>3, <1>4, <1>6, <2>1 DEF Masks!vars
<1>8. CASE checkpoint' # checkpoint
  <2>1. checkpoint'.iteration * args'.num_microbatches = n BY <1>3, <1>5, <1>8
  <2> QED BY <1>3, <1>4, <1>5, <1>6, <2>1 DEF Masks!Save
<1> QED BY <1>7, <1>8

\* ... and a restart.
LEMMA RestartRefined ==
  ASSUME IInv, Restart
  PROVE  Masks!Restart
<1>1. CountsInv BY DEF IInv
<1>2. /\ UNCHANGED <<args, checkpoint, drawn>>
      /\ forwards' = 0 /\ iteration' = checkpoint.iteration
      /\ applied' = SubSeq(applied, 1, checkpoint.iteration * args.num_microbatches)
  BY DEF Restart
<1>3. PICK n \in Nat, b \in Nat, u \in Nat, d \in Nat, c \in Nat : StateAt(n, b, u, d, c)
  BY DEF IInv
<1>4. checkpoint.iteration * args.num_microbatches = c BY <1>1, <1>3, Abstract
<1>5. /\ iteration' * args'.num_microbatches + forwards' = c
      /\ checkpoint'.iteration * args'.num_microbatches = c
  BY <1>2, <1>4
<1> QED BY <1>2, <1>4, <1>5 DEF Masks!Restart

\* Every job does what activation checkpointing and the saved states of
\* the generators promise: the gradient of a microbatch uses the masks of
\* its forward pass, and a restart draws the same ones again.
THEOREM RefinesDropoutMasks == Spec => ImplementsDropoutMasks
<1>1. Init => Masks!Init
  <2> SUFFICES ASSUME Init PROVE Masks!Init
    OBVIOUS
  <2>1. /\ args \in Configs /\ forwards = 0 /\ iteration = 0 /\ checkpoint.iteration = 0
        /\ drawn = <<>> /\ applied = <<>>
    BY DEF Init
  <2>2. 0 * args.num_microbatches = 0 BY <2>1, ArgsType
  <2>3. /\ iteration * args.num_microbatches + forwards = 0
        /\ checkpoint.iteration * args.num_microbatches = 0
    BY <2>1, <2>2
  <2> QED BY <2>1, <2>3 DEF Masks!Init
<1>2. IInv /\ [Next]_vars => [Masks!Next]_(Masks!vars)
  <2> SUFFICES ASSUME IInv, [Next]_vars PROVE Masks!Next \/ UNCHANGED Masks!vars
    OBVIOUS
  <2>1. ASSUME UNCHANGED <<drawn, iteration, forwards, args, checkpoint, applied>>
        PROVE  UNCHANGED Masks!vars
    BY <2>1 DEF Masks!vars
  <2>2. CASE StartForward \/ ForwardUnit \/ StartBackward \/ BackwardUnit \/ Ended \/ UNCHANGED vars
    <3>1. UNCHANGED <<drawn, iteration, forwards, args, checkpoint, applied>>
      BY <2>2 DEF StartForward, ForwardUnit, StartBackward, BackwardUnit, Ended, vars, schedule, job
    <3> QED BY SMTT(60), <2>1, <3>1
  <2>3. CASE EndForward BY <2>3, ForwardRefined DEF Masks!Next
  <2>4. CASE EndBackward BY <2>4, BackwardRefined DEF Masks!Next
  <2>5. CASE EndStep BY <2>5, SaveRefined DEF Masks!Next
  <2>6. CASE Restart BY <2>6, RestartRefined DEF Masks!Next
  <2> QED BY <2>2, <2>3, <2>4, <2>5, <2>6 DEF Next
<1> QED BY <1>1, <1>2, Invariant, PTL DEF Spec, ImplementsDropoutMasks, Masks!Spec

-----------------------------------------------------------------------------
-----------------------------------------------------------------------------
(***************************************************************************)
(* The inductive invariant of tensor parallelism.  A rank's state is a     *)
(* function of where it is in the passes and of whether the collective it  *)
(* has launched is over.  The predicates are of values, not of the state:  *)
(* what a step leaves alone on a rank stays right.                         *)
(***************************************************************************)

\* What validate_args lets through.
Legal(c) ==
  /\ c \in Model
  /\ c.sequence_parallel => /\ c.tensor_model_parallel_size > 1
                            /\ ~c.async_tensor_model_parallel_allreduce
                            /\ c.seq_length % c.tensor_model_parallel_size = 0
  /\ c.deepspeed => ~c.async_tensor_model_parallel_allreduce
  /\ c.pretrain = "gpt_pipe" => c.deepspeed
  /\ c.pretrain = "gpt_core" => c.add_position_embedding
  /\ c.max_position_embeddings >= c.seq_length
  /\ c.sequence_parallel /\ c.add_position_embedding =>
       c.max_position_embeddings % c.tensor_model_parallel_size = 0

GroupOf(c) == 0 .. c.tensor_model_parallel_size - 1
TokenIds(c) == 0 .. c.seq_length - 1
Cells(c) == TokenIds(c) \X GroupOf(c)
LastBlock(c) == 2 * c.num_layers + 1
Slice(c) == c.seq_length \div c.tensor_model_parallel_size

\* The arguments the layers can work with: batches are not cut before the
\* embedding, nor the table of positions.
Agreed(c) ==
  c.sequence_parallel => /\ c.pretrain # "gpt"
                         /\ c.add_position_embedding => c.pretrain = "gpt_core"

\* All tokens, and those of rank r between blocks.
Sequence(c) == [i \in 1 .. c.seq_length |-> i - 1]
SliceOf(c, r) == [i \in 1 .. Slice(c) |-> r * Slice(c) + i - 1]
Part(c, r) == IF c.sequence_parallel THEN SliceOf(c, r) ELSE Sequence(c)

\* With arguments that do not agree: how many tokens a rank begins with, and
\* how many it has between blocks.
BatchSize(c) == IF c.pretrain = "gpt" THEN Slice(c) ELSE c.seq_length
CutSize(c) == BatchSize(c) \div c.tensor_model_parallel_size

\* Complete entries, and the shares of rank r.
Entry(c, t) == [x \in Cells(c) |-> IF x[1] = t THEN 1 ELSE 0]
Complete(c, tokens) == [i \in DOMAIN tokens |-> Entry(c, tokens[i])]
SharesOf(c, r, tokens) ==
  [i \in DOMAIN tokens |-> [x \in Cells(c) |-> IF x = <<tokens[i], r>> THEN 1 ELSE 0]]
Tensors(c, n) == [1 .. n -> [Cells(c) -> {0, 1}]]

\* Where a rank is.
Early == {"word_embeddings", "embedding"}
ColumnBack == {"column_backward", "grad_input", "grad_weight", "norm_backward"}
RowBack == {"row_backward", "row_grads"}
Final == {"reduce_model_grads", "synced", "done"}
FirstBack == {"scatter_backward", "embedding_backward"} \cup Final
Back == ColumnBack \cup RowBack \cup FirstBack

Place(c, l, b) ==
  \/ l \in Early \cup FirstBack /\ b = 0
  \/ l \in {"column"} \cup ColumnBack /\ b \in 1 .. LastBlock(c)
  \/ l \in {"row", "residual"} \cup RowBack /\ b \in 1 .. LastBlock(c) - 1
  \/ l \in {"logits", "loss"} /\ b = LastBlock(c)
  \/ l = "error" /\ ~Agreed(c) /\ (b = 0 \/ (b = LastBlock(c) /\ c.pretrain = "gpt"))

\* Where a rank can be of a job that will fail.  Part of the positions is
\* enough for rank 0, if at all: it waits for the others then.
Failing(c, r, l, b, m) ==
  ~Agreed(c) =>
    /\ l \in Early \cup {"column", "row", "residual", "logits", "error"}
    /\ \/ c.pretrain = "gpt"
       \/ l \in Early \cup {"error"}
       \/ r = 0 /\ b = 1 /\ (l = "column" \/ (l = "row" /\ m.kind # "none"))

\* The collective a rank has launched that is at l.
KindAt(c, l) ==
  CASE l \in {"embedding", "loss"} -> "all_reduce"
    [] l \in {"row", "logits", "grad_input"} -> IF c.sequence_parallel THEN "all_gather_mpu" ELSE "none"
    [] l \in {"residual", "norm_backward"} -> IF c.sequence_parallel THEN "reduce_scatter" ELSE "all_reduce"
    [] l = "grad_weight" -> IF c.sequence_parallel THEN "reduce_scatter"
                            ELSE IF c.async_tensor_model_parallel_allreduce THEN "all_reduce" ELSE "none"
    [] l \in {"row_grads", "embedding_backward"} -> IF c.sequence_parallel THEN "all_gather" ELSE "none"
    [] l = "synced" -> IF c.sequence_parallel /\ ~c.deepspeed THEN "all_reduce" ELSE "none"
    [] OTHER -> "none"
Calls(c, l, m) ==
  \/ m = [kind |-> "none"]
  \/ KindAt(c, l) # "none" /\ m = [kind |-> KindAt(c, l), tensor |-> m.tensor]

\* How many collectives are over when a rank gets to label l of block b,
\* and how many are.
Before(c, l, b) ==
  IF c.sequence_parallel
  THEN CASE l \in Early -> 0
         [] l \in {"column", "row", "logits"} -> 2 * b - 1
         [] l \in {"residual", "loss"} -> 2 * b
         [] l \in {"column_backward", "grad_input"} -> 5 * LastBlock(c) - 3 * b + 1
         [] l \in {"grad_weight", "norm_backward"} -> 5 * LastBlock(c) - 3 * b + 2
         [] l \in RowBack \cup {"scatter_backward", "embedding_backward"} -> 5 * LastBlock(c) - 3 * b
         [] l \in {"reduce_model_grads", "synced"} -> 5 * LastBlock(c) + 1
         [] l = "done" -> 5 * LastBlock(c) + (IF c.deepspeed THEN 1 ELSE 2)
         [] OTHER -> IF b = 0 THEN 1 ELSE 2 * b
  ELSE IF l \in Back THEN 2 * LastBlock(c) + 1 - b ELSE b
Clock(c, l, b, m) == Before(c, l, b) + (IF KindAt(c, l) # "none" /\ m.kind = "none" THEN 1 ELSE 0)

\* The gradients: how often each token has contributed.
Zeros(c) == [t \in TokenIds(c) |-> 0]
Ones(c) == [t \in TokenIds(c) |-> 1]
Seen(c, tokens) == [t \in TokenIds(c) |-> IF \E i \in DOMAIN tokens : tokens[i] = t THEN 1 ELSE 0]
OnPart(c, r) == Seen(c, Part(c, r))
ParamsOf(c) == (0 .. LastBlock(c)) \X {"norm", "column", "row", "bias", "word", "position"}
Accumulates(c, l, b, p) ==
  CASE p[2] = "norm" -> l \in Back /\ p[1] > b
    [] p[2] = "column" -> l \in Back /\ p[1] > 0 /\ (p[1] > b \/ (l = "norm_backward" /\ p[1] = b))
    [] p[2] = "row" -> /\ l \in Back /\ p[1] \in 1 .. LastBlock(c) - 1
                       /\ p[1] > b \/ (l \in ColumnBack /\ p[1] = b)
    [] p[2] = "bias" -> /\ l \in Back /\ p[1] \in 1 .. LastBlock(c) - 1
                        /\ p[1] > b \/ (l \in ColumnBack \cup {"row_grads"} /\ p[1] = b)
    [] p[2] = "word" -> l \in Final /\ p[1] = 0
    [] p[2] = "position" -> l \in Final /\ p[1] = 0 /\ c.add_position_embedding
Gradients(c, r, l, b) ==
  [p \in ParamsOf(c) |-> IF ~Accumulates(c, l, b, p) THEN Zeros(c)
                      ELSE IF p[2] \in {"norm", "bias"} /\ (l # "done" \/ c.deepspeed)
                      THEN OnPart(c, r) ELSE Ones(c)]

\* What the coalesced gradients are before and after their reduction.
Copies(n, g) == [i \in 1 .. n |-> g]
Replicated(c) == 2 * LastBlock(c) - 1

\* What a rank at l gives to its collective, and what it has of it.
Given(c, r, l, m) ==
  CASE l \in {"embedding", "loss", "residual", "grad_weight", "norm_backward"} ->
         m.tensor = SharesOf(c, r, Sequence(c))
    [] l \in {"row", "logits", "grad_input", "row_grads", "embedding_backward"} ->
         m.tensor = Complete(c, Part(c, r))
    [] l = "synced" -> m.tensor = Copies(Replicated(c), OnPart(c, r))
    [] OTHER -> TRUE
Gotten(c, r, l, f, o) ==
  CASE l \in {"embedding", "loss", "row_grads", "embedding_backward"} -> o = Complete(c, Sequence(c))
    [] l \in {"residual", "grad_weight", "norm_backward"} -> o = Complete(c, Part(c, r))
    [] l \in {"row", "logits", "grad_input"} -> f = Complete(c, Sequence(c))
    [] l = "synced" -> o = Copies(Replicated(c), Ones(c))
    [] OTHER -> TRUE

\* The blocks whose input, and whose split tensor, are saved.
InputSaved(c, l, b) ==
  IF l \in Early THEN {} ELSE IF l = "column" THEN 1 .. b - 1
  ELSE IF l \in {"row", "residual"} THEN 1 .. b ELSE 1 .. LastBlock(c)
ContextSaved(c, l, b) ==
  IF l \in Early THEN {} ELSE IF l \in {"column", "row"} THEN 1 .. b - 1
  ELSE IF l = "residual" THEN 1 .. b ELSE 1 .. LastBlock(c) - 1

\* The values on a rank, when the arguments agree and when they do not.
Values(c, r, l, b, h, v, s, f, m, o, g) ==
  /\ l \notin Early => h = Complete(c, Part(c, r))
  /\ \A k \in InputSaved(c, l, b) : s[k].input = Complete(c, Part(c, r))
  /\ \A k \in ContextSaved(c, l, b) : s[k].context = Sequence(c)
  /\ l \in ColumnBack => v = Sequence(c)
  /\ m.kind # "none" => Given(c, r, l, m)
  /\ KindAt(c, l) # "none" /\ m.kind = "none" => Gotten(c, r, l, f, o)
  /\ l = "grad_weight" /\ c.sequence_parallel => f = Complete(c, Sequence(c))
  /\ g = Gradients(c, r, l, b)

CutValues(c, r, l, h, f, m, o) ==
  LET k == CutSize(c)
      n == c.tensor_model_parallel_size * k
  IN /\ l \notin Early => h \in Tensors(c, k)
     /\ l = "embedding" =>
          IF m.kind = "none" THEN o \in Tensors(c, BatchSize(c))
          ELSE \E tokens : DOMAIN tokens = 1 .. BatchSize(c) /\ m.tensor = SharesOf(c, r, tokens)
     /\ l \in {"row", "logits"} => IF m.kind = "none" THEN f \in Tensors(c, n)
                                   ELSE m.tensor \in Tensors(c, k)
     /\ l = "residual" =>
          IF m.kind = "none" THEN o \in Tensors(c, k)
          ELSE \E tokens : DOMAIN tokens = 1 .. n /\ m.tensor = SharesOf(c, r, tokens)

Keeps(c, s) ==
  s = [k \in 0 .. LastBlock(c) |-> [input |-> s[k].input, context |-> s[k].context]]

RankInv(c, r, l, b, h, v, s, f, m, o, g) ==
  /\ Place(c, l, b) /\ Failing(c, r, l, b, m)
  /\ Calls(c, l, m)
  /\ Keeps(c, s)
  /\ l \in Early \/ (l = "error" /\ b = 0) => h = <<>>
  /\ Agreed(c) => Values(c, r, l, b, h, v, s, f, m, o, g)
  /\ ~Agreed(c) /\ l # "error" => CutValues(c, r, l, h, f, m, o)
  /\ l = "error" /\ b # 0 => h \in Tensors(c, CutSize(c))

\* A function of the ranks.
PerRank(c, f) == f = [r \in GroupOf(c) |-> f[r]]

TPInv ==
  /\ model \in Models /\ Legal(model)
  /\ PerRank(model, pc) /\ PerRank(model, block) /\ PerRank(model, hidden) /\ PerRank(model, branch)
  /\ PerRank(model, saved) /\ PerRank(model, buffer) /\ PerRank(model, comm) /\ PerRank(model, out)
  /\ PerRank(model, grads)
  /\ \A r \in GroupOf(model) :
       RankInv(model, r, pc[r], block[r], hidden[r], branch[r], saved[r], buffer[r], comm[r],
               out[r], grads[r])
  /\ \A r, q \in GroupOf(model) :
       Clock(model, pc[r], block[r], comm[r]) = Clock(model, pc[q], block[q], comm[q])

-----------------------------------------------------------------------------
\* Arguments, and the operators of the model in terms of them.

\* The arguments have their types; the slices make up the sequence.
LEMMA LegalFacts ==
  ASSUME NEW c, Legal(c)
  PROVE  /\ c.tensor_model_parallel_size \in Nat \ {0} /\ c.seq_length \in Nat \ {0}
         /\ c.num_layers \in Nat \ {0}
         /\ c.sequence_parallel \in BOOLEAN /\ c.async_tensor_model_parallel_allreduce \in BOOLEAN
         /\ c.add_position_embedding \in BOOLEAN /\ c.deepspeed \in BOOLEAN
         /\ c.pretrain \in {"gpt", "gpt_pipe", "gpt_core"} /\ c.max_position_embeddings \in Nat \ {0}
         /\ LastBlock(c) \in Nat /\ LastBlock(c) >= 3 /\ Slice(c) \in Nat
         /\ 0 \in GroupOf(c) /\ GroupOf(c) \subseteq Nat /\ TokenIds(c) \subseteq Nat
         /\ c.sequence_parallel =>
              /\ c.seq_length = c.tensor_model_parallel_size * Slice(c)
              /\ Slice(c) > 0 /\ Slice(c) < c.seq_length
<1> DEFINE p == c.tensor_model_parallel_size
           n == c.seq_length
           m == Slice(c)
<1>1. /\ p \in Nat \ {0} /\ n \in Nat \ {0} /\ c.num_layers \in Nat \ {0}
      /\ c.sequence_parallel \in BOOLEAN /\ c.async_tensor_model_parallel_allreduce \in BOOLEAN
      /\ c.add_position_embedding \in BOOLEAN /\ c.deepspeed \in BOOLEAN
      /\ c.pretrain \in {"gpt", "gpt_pipe", "gpt_core"} /\ c.max_position_embeddings \in Nat \ {0}
      /\ c.sequence_parallel => p > 1 /\ n % p = 0
  BY DEF Legal, Model
<1>2. m \in Nat BY <1>1, QuotientOfNat DEF Slice
<1>3. n = m * p + (n % p)
  <2>1. n \in Int /\ p \in Nat \ {0} /\ m = n \div p BY <1>1 DEF Slice
  <2> HIDE DEF n, p, m
  <2> QED BY <2>1, Quotient
<1>4. ASSUME c.sequence_parallel
      PROVE  n = p * m /\ m > 0 /\ m < n
  <2> HIDE DEF m
  <2>1. n = m * p /\ p > 1 BY <1>1, <1>2, <1>3, <1>4
  <2>2. m # 0 BY <1>1, <2>1
  <2>3. 1 * m + m <= p * m BY <1>1, <1>2, <2>1, NextMultiple
  <2> QED BY <1>1, <1>2, <2>1, <2>2, <2>3
<1>5. LastBlock(c) \in Nat /\ LastBlock(c) >= 3 BY <1>1 DEF LastBlock
<1>6. 0 \in GroupOf(c) /\ GroupOf(c) \subseteq Nat /\ TokenIds(c) \subseteq Nat
  BY <1>1 DEF GroupOf, TokenIds
<1> HIDE DEF m
<1> QED BY <1>1, <1>2, <1>4, <1>5, <1>6 DEF m

\* The model's operators.
LEMMA ModelFacts ==
  ASSUME Legal(model)
  PROVE  /\ P = model.tensor_model_parallel_size /\ Group = GroupOf(model) /\ Tokens = TokenIds(model)
         /\ Tokens \X Group = Cells(model)
         /\ Logits = LastBlock(model) /\ Blocks = 0 .. LastBlock(model) /\ Params = ParamsOf(model)
         /\ InOrder = Sequence(model)
         /\ \A r, tokens : Shares(tokens, r) = SharesOf(model, r, tokens)
BY DEF P, Group, GroupOf, Tokens, TokenIds, Cells, Logits, LastBlock, Blocks, Params, ParamsOf,
   InOrder, Sequence,
       Shares, Share, SharesOf

\* The tokens of a slice.
LEMMA SliceTokens ==
  ASSUME NEW c, Legal(c), c.sequence_parallel, NEW r \in GroupOf(c)
  PROVE  /\ SliceOf(c, r) \in [1 .. Slice(c) -> TokenIds(c)]
         /\ \A i \in 1 .. Slice(c) : SliceOf(c, r)[i] = r * Slice(c) + i - 1
<1> DEFINE p == c.tensor_model_parallel_size
           n == c.seq_length
           m == Slice(c)
<1>1. p \in Nat \ {0} /\ n \in Nat \ {0} /\ m \in Nat /\ n = p * m /\ r \in Nat /\ r < p
  BY LegalFacts DEF GroupOf
<1>2. r * m + m <= p * m /\ r * m \in Nat BY <1>1, NextMultiple
<1>3. ASSUME NEW i \in 1 .. m PROVE r * m + i - 1 \in 0 .. n - 1
  <2> HIDE DEF m, n, p
  <2> QED BY <1>1, <1>2
<1> HIDE DEF m
<1>4. SliceOf(c, r) = [i \in 1 .. m |-> r * m + i - 1] BY DEF SliceOf, m
<1> QED BY <1>3, <1>4 DEF m, n, TokenIds

\* All of the sequence: its i-th entry is token i - 1.
LEMMA SequenceTokens ==
  ASSUME NEW c, Legal(c)
  PROVE  /\ Sequence(c) \in [1 .. c.seq_length -> TokenIds(c)]
         /\ \A i \in 1 .. c.seq_length : Sequence(c)[i] = i - 1
  BY LegalFacts DEF Sequence, TokenIds

\* The part of a rank is a sequence of tokens.
LEMMA PartTokens ==
  ASSUME NEW c, Legal(c), NEW r \in GroupOf(c)
  PROVE  \E k \in Nat : Part(c, r) \in [1 .. k -> TokenIds(c)]
<1>1. CASE c.sequence_parallel BY <1>1, LegalFacts, SliceTokens DEF Part
<1>2. CASE ~c.sequence_parallel BY <1>2, LegalFacts, SequenceTokens DEF Part
<1> QED BY <1>1, <1>2

\* A slice of a sequence of p * m.
LEMMA SplitFacts ==
  ASSUME Legal(model), NEW m \in Nat, NEW r \in GroupOf(model),
         NEW x, x = [i \in 1 .. model.tensor_model_parallel_size * m |-> x[i]]
  PROVE  /\ Split(x, r) = [i \in 1 .. m |-> x[r * m + i]]
         /\ \A i \in 1 .. m : r * m + i \in 1 .. model.tensor_model_parallel_size * m
<1> DEFINE p == model.tensor_model_parallel_size
           n == p * m
<1>1. p \in Nat \ {0} /\ r \in Nat /\ r < p /\ n \in Nat /\ P = p
  BY LegalFacts, ModelFacts DEF GroupOf
<1>2. r * m \in Nat /\ r * m + m <= n /\ (r + 1) * m = r * m + m
  <2> HIDE DEF p
  <2>1. r * m \in Nat /\ (r + 1) * m = r * m + m BY <1>1
  <2> QED BY <1>1, <2>1, NextMultiple
<1>3. Len(x) = n /\ x \in Seq({x[i] : i \in 1 .. n})
  <2> HIDE DEF p
  <2>1. x = [i \in 1 .. n |-> x[i]] BY DEF p
  <2> HIDE DEF n
  <2> QED BY <1>1, <2>1, FunctionSeq
<1>4. n \div p = m
  <2>1. n = m * p + 0 /\ 0 \in 0 .. p - 1 BY <1>1
  <2> HIDE DEF n
  <2> QED BY <1>1, <2>1, ExactQuotient
<1>5. Split(x, r) = SubSeq(x, r * m + 1, r * m + m)
  <2> HIDE DEF n, p
  <2> QED BY <1>1, <1>2, <1>3, <1>4 DEF Split
<1> HIDE DEF n, p
<1>6. SubSeq(x, r * m + 1, r * m + m) = [i \in 1 .. m |-> x[r * m + i]]
  <2> DEFINE a == r * m
  <2>1. a \in Nat /\ a + m <= n /\ a + 1 \in Int /\ a + m \in Int BY <1>2
  <2> HIDE DEF a
  <2>2. SubSeq(x, a + 1, a + m) = [i \in 1 .. m |-> x[a + i]]
    <3>1. SubSeq(x, a + 1, a + m) = [i \in 1 .. (1 + (a + m) - (a + 1)) |-> x[i + (a + 1) - 1]]
      BY SMTT(60), <2>1 DEF SubSeq
    <3>2. 1 + (a + m) - (a + 1) = m /\ \A i \in 1 .. m : i + (a + 1) - 1 = a + i
      BY SMTT(60), <2>1
    <3> QED BY <3>1, <3>2
  <2> QED BY <2>2 DEF a
<1>7. \A i \in 1 .. m : r * m + i \in 1 .. n
  <2> DEFINE a == r * m
  <2> HIDE DEF a
  <2>1. a \in Nat /\ a + m <= n BY <1>2 DEF a
  <2>2. \A i \in 1 .. m : a + i \in 1 .. n BY <1>1, <2>1
  <2> QED BY <2>2 DEF a
<1> QED BY <1>5, <1>6, <1>7 DEF n, p

-----------------------------------------------------------------------------
\* Tensors.

\* A complete entry is correct for its token.
LEMMA TokenOfComplete ==
  ASSUME Legal(model), NEW t \in TokenIds(model)
  PROVE  TokenOf(Entry(model, t)) = t
<1> DEFINE W(u) == Entry(model, u)
<1>1. Tokens = TokenIds(model) /\ \A u : Whole(u) = W(u)
  BY ModelFacts DEF Whole, Entry
<1>2. \A u \in TokenIds(model) : W(u) = W(t) => u = t
  <2> SUFFICES ASSUME NEW u \in TokenIds(model), W(u) = W(t) PROVE u = t
    OBVIOUS
  <2>1. <<t, 0>> \in Cells(model) BY LegalFacts DEF Cells
  <2>2. W(u)[<<t, 0>>] = (IF t = u THEN 1 ELSE 0) /\ W(t)[<<t, 0>>] = 1
    BY <2>1 DEF Entry
  <2> QED BY <2>2
<1> HIDE DEF W
<1>3. TokenOf(W(t)) = CHOOSE u \in TokenIds(model) : W(t) = W(u) BY <1>1 DEF TokenOf
<1>4. (CHOOSE u \in TokenIds(model) : W(t) = W(u)) = t BY <1>2
<1> QED BY <1>3, <1>4 DEF W

\* A tensor of complete entries is the tensor of the tokens it was made
\* of.
LEMMA TokensOfComplete ==
  ASSUME Legal(model), NEW D, NEW tokens \in [D -> TokenIds(model)]
  PROVE  TokensOf(Complete(model, tokens)) = tokens
<1>1. \A i \in D : TokenOf(Complete(model, tokens)[i]) = tokens[i]
  BY TokenOfComplete DEF Complete
<1>2. DOMAIN Complete(model, tokens) = D BY DEF Complete
<1> QED BY <1>1, <1>2 DEF TokensOf

\* Adding a tensor of complete entries to itself leaves its tokens.
LEMMA SumOfComplete ==
  ASSUME NEW tokens
  PROVE  Sum2(Complete(model, tokens), Complete(model, tokens)) = Complete(model, tokens)
  BY DEF Sum2, Complete

\* The entries of two equal tensors match.
LEMMA MatchedSame ==
  ASSUME NEW a, a = [i \in DOMAIN a |-> a[i]]
  PROVE  Matched(a, a) = a
  BY DEF Matched

\* A block works on all of the sequence whole.
LEMMA LocalOfSequence ==
  ASSUME Legal(model), NEW b
  PROVE  Local(b, Sequence(model)) = Sequence(model)
  BY ModelFacts DEF Local

\* The number of entries and what is in them stays.
LEMMA TensorTypes ==
  ASSUME Legal(model), NEW n \in Nat, NEW x \in Tensors(model, n), NEW y \in Tensors(model, n), NEW b
  PROVE  /\ Sum2(x, y) \in Tensors(model, n)
         /\ DOMAIN TokensOf(x) = 1 .. n /\ Len(TokensOf(x)) = n
         /\ DOMAIN Local(b, TokensOf(x)) = 1 .. n
<1>1. Nothing \in [Cells(model) -> {0, 1}] BY ModelFacts DEF Nothing
<1>2. x \in [1 .. n -> [Cells(model) -> {0, 1}]] BY DEF Tensors
<1>3. Sum2(x, y) \in Tensors(model, n) BY <1>1, <1>2 DEF Sum2, Tensors
<1>4. TokensOf(x) = [i \in 1 .. n |-> TokenOf(x[i])] BY <1>2 DEF TokensOf
<1>5. Len(TokensOf(x)) = n BY <1>4, FunctionSeq
<1> QED BY <1>3, <1>4, <1>5 DEF Local

-----------------------------------------------------------------------------
\* Collectives.

\* The sum of an entry over the ranks in S, and its recursion.
SumOfEntry(x, i, e, S) == MapThenSumSet(LAMBDA r : x[r][i][e], S)
IsEntrySum(iter, x, i, e, S) ==
  iter = [s \in SUBSET S |->
            IF s = {} THEN 0
            ELSE x[CHOOSE r \in s : TRUE][i][e] + iter[s \ {CHOOSE r \in s : TRUE}]]

\* _reduce's sum over a set of ranks, once it is known to be a recursive
\* function.
LEMMA EntrySumUnfolded ==
  ASSUME NEW x, NEW i, NEW e, NEW S, NEW f, IsEntrySum(f, x, i, e, S)
  PROVE  \E iter : /\ IsEntrySum(iter, x, i, e, S)
                   /\ SumOfEntry(x, i, e, S) = iter[S]
<1> DEFINE iter == CHOOSE iter : IsEntrySum(iter, x, i, e, S)
<1>1. IsEntrySum(iter, x, i, e, S) OBVIOUS
<1>2. SumOfEntry(x, i, e, S) = iter[S]
  BY DEF SumOfEntry, MapThenSumSet, MapThenFoldSet, IsEntrySum
<1> HIDE DEF iter
<1> QED BY <1>1, <1>2

\* If only rank q has something in an entry, that is the sum.
LEMMA EntrySum ==
  ASSUME NEW S, IsFiniteSet(S), NEW q \in S, NEW v \in Nat, NEW x, NEW i, NEW e,
         \A r \in S : x[r][i][e] = IF r = q THEN v ELSE 0
  PROVE  SumOfEntry(x, i, e, S) = v
<1> DEFINE H(T) == IF q \in T THEN v ELSE 0
           h == [T \in SUBSET S |-> H(T)]
<1>1. ASSUME NEW T \in SUBSET S, NEW r \in T
      PROVE  H(T) = x[r][i][e] + H(T \ {r})
  <2>1. x[r][i][e] = IF r = q THEN v ELSE 0 OBVIOUS
  <2>2. CASE r = q BY <2>1, <2>2
  <2>3. CASE r # q
    <3>1. q \in T <=> q \in T \ {r} BY <2>3
    <3> QED BY <2>1, <2>3, <3>1
  <2> QED BY <2>2, <2>3
<1>2. H({}) = 0 OBVIOUS
<1> HIDE DEF H
<1>3. IsEntrySum(h, x, i, e, S)
  <2>1. ASSUME NEW s \in SUBSET S
        PROVE  H(s) = IF s = {} THEN 0
                      ELSE x[CHOOSE r \in s : TRUE][i][e] + h[s \ {CHOOSE r \in s : TRUE}]
    <3>1. CASE s = {} BY <1>2, <3>1
    <3>2. CASE s # {}
      <4> DEFINE y == CHOOSE r \in s : TRUE
      <4>1. y \in s BY <3>2
      <4> HIDE DEF y
      <4>2. h[s \ {y}] = H(s \ {y}) OBVIOUS
      <4>3. H(s) = x[y][i][e] + h[s \ {y}] BY <1>1, <4>1, <4>2
      <4> QED BY <3>2, <4>3 DEF y
    <3> QED BY <3>1, <3>2
  <2> QED BY <2>1 DEF IsEntrySum
<1>4. PICK iter : /\ IsEntrySum(iter, x, i, e, S)
                  /\ SumOfEntry(x, i, e, S) = iter[S]
  <2> HIDE DEF h
  <2> QED BY <1>3, EntrySumUnfolded
<1>5. ASSUME NEW s \in SUBSET S
      PROVE  iter[s] = IF s = {} THEN 0
                       ELSE x[CHOOSE r \in s : TRUE][i][e] + iter[s \ {CHOOSE r \in s : TRUE}]
  BY <1>4 DEF IsEntrySum
<1> DEFINE N == {n \in Nat : \A T \in SUBSET S : Cardinality(T) = n => iter[T] = H(T)}
<1>6. \A T \in SUBSET S : IsFiniteSet(T) /\ Cardinality(T) \in Nat
  BY FS_Subset, FS_CardinalityType
<1>7. 0 \in N
  <2>1. \A T \in SUBSET S : Cardinality(T) = 0 => T = {} BY <1>6, FS_EmptySet
  <2> QED BY <1>2, <1>5, <2>1
<1>8. ASSUME NEW n \in N PROVE n + 1 \in N
  <2>1. n \in Nat /\ \A T \in SUBSET S : Cardinality(T) = n => iter[T] = H(T)
    OBVIOUS
  <2>2. ASSUME NEW T \in SUBSET S, Cardinality(T) = n + 1 PROVE iter[T] = H(T)
    <3>1. T # {}
      <4>1. Cardinality({}) = 0 /\ n + 1 # 0 BY <2>1, FS_EmptySet
      <4> QED BY <2>2, <4>1
    <3> DEFINE y == CHOOSE r \in T : TRUE
    <3>2. y \in T BY <3>1
    <3>3. iter[T] = x[y][i][e] + iter[T \ {y}] BY <1>5, <3>1
    <3> HIDE DEF y
    <3>4. Cardinality(T \ {y}) = n /\ T \ {y} \in SUBSET S
      <4>1. Cardinality(T \ {y}) = Cardinality(T) - 1
        BY <1>6, <3>2, FS_RemoveElement
      <4> QED BY <2>1, <2>2, <4>1
    <3>5. iter[T \ {y}] = H(T \ {y}) BY <2>1, <3>4
    <3> QED BY <1>1, <3>2, <3>3, <3>5
  <2> QED BY <2>1, <2>2
<1>9. N = Nat
  <2>1. N \in SUBSET Nat OBVIOUS
  <2> HIDE DEF N
  <2> QED BY <1>7, <1>8, <2>1, SetInduction
<1>10. iter[S] = H(S)
  <2>1. S \in SUBSET S /\ Cardinality(S) \in N BY <1>6, <1>9
  <2> QED BY <2>1
<1> QED BY <1>4, <1>10 DEF H

\* _reduce adds the entries of the ranks.
LEMMA ReducedFacts ==
  ASSUME NEW x
  PROVE  Reduced(x) = [i \in DOMAIN x[0] |-> [e \in DOMAIN x[0][i] |-> SumOfEntry(x, i, e, Group)]]
  BY DEF Reduced, SumOfEntry

\* The reduction of shares: of each rank, its own share.
LEMMA ReducedShares ==
  ASSUME Legal(model), NEW n \in Nat, NEW tokens, \A r \in GroupOf(model) : DOMAIN tokens[r] = 1 .. n,
         NEW x, \A r \in GroupOf(model) : x[r] = SharesOf(model, r, tokens[r])
  PROVE  /\ Reduced(x) = [i \in 1 .. n |-> [e \in Cells(model) |-> IF tokens[e[2]][i] = e[1] THEN 1 ELSE 0]]
         /\ Reduced(x) \in Tensors(model, n)
<1>1. 0 \in GroupOf(model) /\ Group = GroupOf(model) /\ IsFiniteSet(GroupOf(model))
  <2>1. model.tensor_model_parallel_size - 1 \in Int /\ 0 \in Int BY LegalFacts
  <2>2. IsFiniteSet(0 .. model.tensor_model_parallel_size - 1) BY <2>1, FS_Interval
  <2> QED BY <2>2, LegalFacts, ModelFacts DEF GroupOf
<1>2. ASSUME NEW i \in 1 .. n, NEW e \in Cells(model)
      PROVE  SumOfEntry(x, i, e, Group) = IF tokens[e[2]][i] = e[1] THEN 1 ELSE 0
  <2> DEFINE v == IF tokens[e[2]][i] = e[1] THEN 1 ELSE 0
  <2>1. e[2] \in GroupOf(model) /\ v \in Nat /\ e = <<e[1], e[2]>> BY DEF Cells
  <2>2. ASSUME NEW r \in GroupOf(model)
        PROVE  x[r][i][e] = IF r = e[2] THEN v ELSE 0
    <3>1. x[r][i][e] = IF e = <<tokens[r][i], r>> THEN 1 ELSE 0
      <4>1. x[r] = SharesOf(model, r, tokens[r]) /\ DOMAIN tokens[r] = 1 .. n
        OBVIOUS
      <4>2. SharesOf(model, r, tokens[r])[i] = [y \in Cells(model) |-> IF y = <<tokens[r][i], r>> THEN 1 ELSE 0]
        BY <4>1 DEF SharesOf
      <4> QED BY <4>1, <4>2
    <3>2. e = <<tokens[r][i], r>> <=> (e[1] = tokens[r][i] /\ e[2] = r) BY <2>1
    <3> QED BY <3>1, <3>2
  <2> HIDE DEF v
  <2>3. SumOfEntry(x, i, e, GroupOf(model)) = v BY <1>1, <2>1, <2>2, EntrySum
  <2> QED BY <1>1, <2>3 DEF v
<1>3. DOMAIN x[0] = 1 .. n /\ \A i \in 1 .. n : DOMAIN x[0][i] = Cells(model)
  <2>1. x[0] = SharesOf(model, 0, tokens[0]) /\ DOMAIN tokens[0] = 1 .. n BY <1>1
  <2> QED BY <2>1 DEF SharesOf
<1>4. Reduced(x) = [i \in 1 .. n |-> [e \in Cells(model) |-> IF tokens[e[2]][i] = e[1] THEN 1 ELSE 0]]
  BY <1>2, <1>3, ReducedFacts
<1> QED BY <1>4 DEF Tensors

\* If all ranks have their shares of all tokens, the entries are complete.
LEMMA ReducedSequence ==
  ASSUME Legal(model), NEW x, \A r \in GroupOf(model) : x[r] = SharesOf(model, r, Sequence(model))
  PROVE  Reduced(x) = Complete(model, Sequence(model))
<1> DEFINE n == model.seq_length
           tokens == [r \in GroupOf(model) |-> Sequence(model)]
<1>1. n \in Nat /\ DOMAIN Sequence(model) = 1 .. n BY LegalFacts, SequenceTokens
<1>2. /\ \A r \in GroupOf(model) : DOMAIN tokens[r] = 1 .. n
      /\ \A r \in GroupOf(model) : x[r] = SharesOf(model, r, tokens[r])
  BY <1>1
<1> HIDE DEF n, tokens
<1>3. Reduced(x) = [i \in 1 .. n |-> [e \in Cells(model) |-> IF tokens[e[2]][i] = e[1] THEN 1 ELSE 0]]
  BY <1>1, <1>2, ReducedShares
<1>4. ASSUME NEW i \in 1 .. n, NEW e \in Cells(model)
      PROVE  tokens[e[2]][i] = Sequence(model)[i]
  <2>1. e[2] \in GroupOf(model) BY DEF Cells
  <2> QED BY <2>1 DEF tokens
<1>5. \A i \in 1 .. n : [e \in Cells(model) |-> IF tokens[e[2]][i] = e[1] THEN 1 ELSE 0] = Entry(model, Sequence(model)[i])
  BY <1>4 DEF Entry
<1> QED BY <1>1, <1>3, <1>5 DEF Complete

\* A slice of the complete entries of the sequence.
LEMMA SplitComplete ==
  ASSUME Legal(model), model.sequence_parallel, NEW r \in GroupOf(model)
  PROVE  Split(Complete(model, Sequence(model)), r) = Complete(model, SliceOf(model, r))
<1> DEFINE m == Slice(model)
           p == model.tensor_model_parallel_size
           x == Complete(model, Sequence(model))
           C(t) == Entry(model, t)
<1>1. m \in Nat /\ p \in Nat /\ model.seq_length = p * m BY LegalFacts
<1>2. x = [i \in 1 .. p * m |-> C(i - 1)]
  <2>1. DOMAIN Sequence(model) = 1 .. p * m /\ \A i \in 1 .. p * m : Sequence(model)[i] = i - 1
    BY <1>1, SequenceTokens
  <2> HIDE DEF m, p
  <2> QED BY <2>1 DEF Complete
<1>3. DOMAIN SliceOf(model, r) = 1 .. m /\ \A i \in 1 .. m : SliceOf(model, r)[i] = r * m + i - 1
  BY SliceTokens
<1> HIDE DEF m, x, C
<1>4. x = [i \in 1 .. p * m |-> x[i]] BY <1>2
<1>5. /\ Split(x, r) = [i \in 1 .. m |-> x[r * m + i]]
      /\ \A i \in 1 .. m : r * m + i \in 1 .. p * m
  BY <1>1, <1>4, SplitFacts
<1>6. ASSUME NEW i \in 1 .. m PROVE x[r * m + i] = C(r * m + i - 1)
  <2> DEFINE j == r * m + i
  <2>1. j \in 1 .. p * m BY <1>5
  <2>2. j - 1 = r * m + i - 1
    <3>1. r * m \in Int BY <1>1, LegalFacts
    <3> QED BY <3>1
  <2> HIDE DEF j
  <2>3. x[j] = C(j - 1) BY <1>2, <2>1
  <2> QED BY <2>2, <2>3 DEF j
<1>7. Complete(model, SliceOf(model, r)) = [i \in 1 .. m |-> C(r * m + i - 1)]
  BY <1>3 DEF Complete, C
<1> QED BY <1>5, <1>6, <1>7 DEF x

\* A slice of the tokens.
LEMMA SplitSequence ==
  ASSUME Legal(model), model.sequence_parallel, NEW r \in GroupOf(model)
  PROVE  Split(InOrder, r) = SliceOf(model, r)
<1> DEFINE m == Slice(model)
           p == model.tensor_model_parallel_size
           x == Sequence(model)
<1>1. m \in Nat /\ p \in Nat /\ model.seq_length = p * m /\ InOrder = x
  BY LegalFacts, ModelFacts
<1>2. DOMAIN x = 1 .. p * m /\ \A i \in 1 .. p * m : x[i] = i - 1
  BY <1>1, SequenceTokens
<1>3. DOMAIN SliceOf(model, r) = 1 .. m /\ \A i \in 1 .. m : SliceOf(model, r)[i] = r * m + i - 1
  BY SliceTokens
<1>4. SliceOf(model, r) = [i \in 1 .. m |-> r * m + i - 1] BY DEF SliceOf
<1>5. x = [i \in 1 .. p * m |-> i - 1] BY <1>1 DEF Sequence
<1> HIDE DEF m, x
<1>6. x = [i \in 1 .. p * m |-> x[i]] BY <1>5
<1>7. /\ Split(x, r) = [i \in 1 .. m |-> x[r * m + i]]
      /\ \A i \in 1 .. m : r * m + i \in 1 .. p * m
  BY <1>1, <1>6, SplitFacts
<1>8. ASSUME NEW i \in 1 .. m PROVE x[r * m + i] = r * m + i - 1
  <2> DEFINE j == r * m + i
  <2>1. j \in 1 .. p * m BY <1>7
  <2>2. j - 1 = r * m + i - 1
    <3>1. r * m \in Int BY <1>1, LegalFacts
    <3> QED BY <3>1
  <2> HIDE DEF j
  <2>3. x[j] = j - 1 BY <1>2, <2>1
  <2> QED BY <2>2, <2>3 DEF j
<1> QED BY <1>1, <1>4, <1>7, <1>8

\* _split_along_first_dim gives a rank a tensor shorter by the size of the
\* group.
LEMMA SplitTensor ==
  ASSUME Legal(model), NEW n \in Nat, NEW x \in Tensors(model, n), NEW r \in GroupOf(model)
  PROVE  Split(x, r) \in Tensors(model, n \div model.tensor_model_parallel_size)
<1> DEFINE p == model.tensor_model_parallel_size
           m == n \div p
           a == r * m
<1>1. p \in Nat \ {0} /\ r \in Nat /\ r < p /\ P = p
  BY LegalFacts, ModelFacts DEF GroupOf
<1>2. m \in Nat /\ n = m * p + (n % p) /\ n % p \in Nat
  <2>1. n \in Int /\ p \in Nat \ {0} BY <1>1
  <2>2. m \in Nat BY <2>1, QuotientOfNat
  <2>3. n % p \in 0 .. p - 1 /\ n = (n \div p) * p + (n % p)
    <3> HIDE DEF p
    <3> QED BY <2>1, Quotient
  <2> QED BY <2>2, <2>3
<1> HIDE DEF m
<1>3. a \in Nat /\ a + m <= n /\ (r + 1) * m = a + m
  <2> HIDE DEF p
  <2>1. a \in Nat /\ (r + 1) * m = a + m /\ p * m \in Nat /\ m * p = p * m
    BY <1>1, <1>2
  <2>2. a + m <= p * m BY <1>1, <1>2, NextMultiple
  <2> QED BY <1>2, <2>1, <2>2
<1>4. x \in [1 .. n -> [Cells(model) -> {0, 1}]] BY DEF Tensors
<1>5. Len(x) = n BY <1>4
<1>6. Split(x, r) = SubSeq(x, a + 1, a + m) BY <1>1, <1>3, <1>5 DEF Split, m
<1> HIDE DEF a
<1>7. SubSeq(x, a + 1, a + m) = [i \in 1 .. (1 + (a + m) - (a + 1)) |-> x[i + (a + 1) - 1]]
  BY <1>2, <1>3 DEF SubSeq
<1>8. 1 + (a + m) - (a + 1) = m /\ \A i \in 1 .. m : i + (a + 1) - 1 \in 1 .. n
  BY <1>2, <1>3
<1>9. SubSeq(x, a + 1, a + m) \in [1 .. m -> [Cells(model) -> {0, 1}]]
  BY <1>4, <1>7, <1>8
<1> QED BY <1>6, <1>9 DEF Tensors, m

\* The slices together.
LEMMA GatheredFacts ==
  ASSUME Legal(model), NEW m \in Nat, NEW x, \A r \in GroupOf(model) : x[r] = [i \in 1 .. m |-> x[r][i]]
  PROVE  /\ Gathered(x) = [i \in 1 .. model.tensor_model_parallel_size * m |->
                             x[(i - 1) \div m][((i - 1) % m) + 1]]
         /\ \A i \in 1 .. model.tensor_model_parallel_size * m :
              /\ (i - 1) \div m \in GroupOf(model)
              /\ ((i - 1) % m) + 1 \in 1 .. m
              /\ i - 1 = ((i - 1) \div m) * m + ((i - 1) % m)
<1> DEFINE p == model.tensor_model_parallel_size
<1>1. p \in Nat \ {0} /\ P = p /\ 0 \in GroupOf(model) BY LegalFacts, ModelFacts
<1>2. Len(x[0]) = m BY <1>1, FunctionSeq
<1>3. Gathered(x) = [i \in 1 .. p * m |-> x[(i - 1) \div m][((i - 1) % m) + 1]]
  BY <1>1, <1>2 DEF Gathered
<1>4. ASSUME NEW i \in 1 .. p * m
      PROVE  /\ (i - 1) \div m \in 0 .. p - 1
             /\ ((i - 1) % m) + 1 \in 1 .. m
             /\ i - 1 = ((i - 1) \div m) * m + ((i - 1) % m)
  <2> DEFINE j == i - 1
             q == j \div m
             s == j % m
  <2> HIDE DEF p
  <2>1. p * m \in Nat /\ i \in Nat /\ i >= 1 /\ i <= p * m BY <1>1
  <2>2. m # 0 BY <1>1, <2>1
  <2>3. j \in Nat /\ j < p * m BY <2>1
  <2> HIDE DEF j
  <2>4. q \in Nat BY <2>2, <2>3, QuotientOfNat
  <2>5. s \in 0 .. m - 1 /\ j = q * m + s
    <3>1. m \in Nat \ {0} /\ j \in Int BY <2>2, <2>3
    <3> QED BY <3>1, Quotient
  <2> HIDE DEF q, s
  <2>6. ~(p <= q)
    <3> SUFFICES ASSUME p < q \/ p = q PROVE FALSE
      BY <1>1, <2>4
    <3>1. q * m \in Nat BY <2>4
    <3>2. CASE p = q BY <2>3, <2>5, <3>1, <3>2
    <3>3. CASE p < q
      <4>1. p * m + m <= q * m BY <1>1, <2>4, <3>3, NextMultiple
      <4> QED BY <2>1, <2>3, <2>5, <3>1, <4>1
    <3> QED BY <3>2, <3>3
  <2>7. q \in 0 .. p - 1 /\ s + 1 \in 1 .. m BY <1>1, <2>2, <2>4, <2>5, <2>6
  <2> QED BY <2>5, <2>7 DEF q, s, j
<1> QED BY <1>3, <1>4 DEF GroupOf

\* _gather_along_first_dim puts the slices of the ranks together to the
\* sequence.
LEMMA GatheredSlices ==
  ASSUME Legal(model), model.sequence_parallel,
         NEW x, \A r \in GroupOf(model) : x[r] = Complete(model, SliceOf(model, r))
  PROVE  Gathered(x) = Complete(model, Sequence(model))
<1> DEFINE m == Slice(model)
           p == model.tensor_model_parallel_size
           C(t) == Entry(model, t)
<1>1. m \in Nat /\ p \in Nat /\ model.seq_length = p * m BY LegalFacts
<1>2. ASSUME NEW r \in GroupOf(model)
      PROVE  x[r] = [i \in 1 .. m |-> C(r * m + i - 1)]
  <2>1. DOMAIN SliceOf(model, r) = 1 .. m /\ \A i \in 1 .. m : SliceOf(model, r)[i] = r * m + i - 1
    BY SliceTokens
  <2> HIDE DEF m
  <2> QED BY ZenonT(60), <2>1 DEF Complete
<1>3. Complete(model, Sequence(model)) = [i \in 1 .. p * m |-> C(i - 1)]
  <2>1. DOMAIN Sequence(model) = 1 .. p * m /\ \A i \in 1 .. p * m : Sequence(model)[i] = i - 1
    BY <1>1, SequenceTokens
  <2> HIDE DEF m, p
  <2> QED BY <2>1 DEF Complete
<1> HIDE DEF m, C
<1>4. \A r \in GroupOf(model) : x[r] = [i \in 1 .. m |-> x[r][i]] BY <1>2
<1>5. /\ Gathered(x) = [i \in 1 .. p * m |-> x[(i - 1) \div m][((i - 1) % m) + 1]]
      /\ \A i \in 1 .. p * m : /\ (i - 1) \div m \in GroupOf(model)
                               /\ ((i - 1) % m) + 1 \in 1 .. m
                               /\ i - 1 = ((i - 1) \div m) * m + ((i - 1) % m)
  BY <1>1, <1>4, GatheredFacts
<1>6. ASSUME NEW i \in 1 .. p * m
      PROVE  x[(i - 1) \div m][((i - 1) % m) + 1] = C(i - 1)
  <2> DEFINE q == (i - 1) \div m
             s == ((i - 1) % m) + 1
  <2>1. q \in GroupOf(model) /\ s \in 1 .. m /\ i - 1 = q * m + (s - 1)
    <3>1. ((i - 1) % m) + 1 \in 1 .. m BY <1>5
    <3>2. i - 1 = q * m + ((i - 1) % m) BY <1>5
    <3>3. ((i - 1) % m) = s - 1
      <4> DEFINE z == (i - 1) % m
      <4>1. z + 1 \in 1 .. m /\ z \in Int
        <5>1. m \in Nat \ {0} /\ i - 1 \in Int
          <6>1. m # 0 BY <1>1
          <6> QED BY <1>1, <6>1
        <5> QED BY <3>1, <5>1, Quotient
      <4> HIDE DEF z
      <4> QED BY <4>1 DEF z
    <3> QED BY <1>5, <3>1, <3>2, <3>3
  <2> HIDE DEF q, s
  <2>2. x[q][s] = C(q * m + s - 1) BY <1>2, <2>1
  <2>3. q * m + s - 1 = i - 1
    <3>1. q * m \in Int
      <4>1. q \in Int BY <2>1, LegalFacts
      <4> QED BY <1>1, <4>1
    <3> QED BY <2>1, <3>1
  <2> QED BY <2>2, <2>3 DEF q, s
<1> QED BY <1>3, <1>5, <1>6

\* _gather_along_first_dim makes a tensor longer by the size of the group.
LEMMA GatheredTensors ==
  ASSUME Legal(model), NEW m \in Nat, NEW x, \A r \in GroupOf(model) : x[r] \in Tensors(model, m)
  PROVE  Gathered(x) \in Tensors(model, model.tensor_model_parallel_size * m)
<1> DEFINE p == model.tensor_model_parallel_size
<1>1. \A r \in GroupOf(model) : x[r] \in [1 .. m -> [Cells(model) -> {0, 1}]]
  BY DEF Tensors
<1>2. \A r \in GroupOf(model) : x[r] = [i \in 1 .. m |-> x[r][i]] BY <1>1
<1>3. /\ Gathered(x) = [i \in 1 .. p * m |-> x[(i - 1) \div m][((i - 1) % m) + 1]]
      /\ \A i \in 1 .. p * m : /\ (i - 1) \div m \in GroupOf(model)
                               /\ ((i - 1) % m) + 1 \in 1 .. m
  BY <1>2, GatheredFacts
<1> HIDE DEF p
<1>4. \A i \in 1 .. p * m : x[(i - 1) \div m][((i - 1) % m) + 1] \in [Cells(model) -> {0, 1}]
  BY <1>1, <1>3
<1> QED BY <1>3, <1>4 DEF Tensors, p

-----------------------------------------------------------------------------
\* Gradients.

\* A token is on one rank.
LEMMA Owner ==
  ASSUME NEW c, Legal(c), c.sequence_parallel, NEW t \in TokenIds(c)
  PROVE  \E q \in GroupOf(c) : \A r \in GroupOf(c) : OnPart(c, r)[t] = IF r = q THEN 1 ELSE 0
<1> DEFINE m == Slice(c)
           p == c.tensor_model_parallel_size
           q == t \div m
           s == t % m
<1>1. m \in Nat \ {0} /\ p \in Nat \ {0} /\ c.seq_length = p * m /\ t \in Nat /\ t < p * m
  BY LegalFacts DEF TokenIds
<1>2. q \in Nat /\ s \in 0 .. m - 1 /\ t = q * m + s
  <2>1. t \in Int BY <1>1
  <2> HIDE DEF m
  <2> QED BY <1>1, <2>1, Quotient, QuotientOfNat
<1> HIDE DEF q, s
<1>3. q \in GroupOf(c)
  <2>1. q < p
    <3> HIDE DEF m, p
    <3>1. q * m \in Nat BY <1>1, <1>2
    <3>2. CASE p < q
      <4>1. p * m + m <= q * m BY <1>1, <1>2, <3>2, NextMultiple
      <4> QED BY <1>1, <1>2, <3>1, <4>1
    <3>3. CASE p = q BY <1>1, <1>2, <3>1, <3>3
    <3> QED BY <1>1, <1>2, <3>2, <3>3
  <2> QED BY <1>1, <1>2, <2>1 DEF GroupOf
<1>4. ASSUME NEW r \in GroupOf(c)
      PROVE  OnPart(c, r)[t] = IF r = q THEN 1 ELSE 0
  <2>1. /\ DOMAIN Part(c, r) = 1 .. m
        /\ \A i \in 1 .. m : Part(c, r)[i] = r * m + i - 1
    BY SliceTokens DEF Part
  <2>2. r \in Nat BY LegalFacts
  <2> HIDE DEF m, p
  <2>3. ASSUME NEW i \in 1 .. m, r * m + i - 1 = t
        PROVE  r = q
    <3>1. i - 1 \in 0 .. m - 1 /\ r * m + (i - 1) = q * m + s
      BY <1>1, <1>2, <2>2, <2>3
    <3> QED BY <1>1, <1>2, <2>2, <3>1, DigitsUnique
  <2>4. ASSUME r = q
        PROVE  \E i \in 1 .. m : r * m + i - 1 = t
    <3>1. s + 1 \in 1 .. m /\ r * m + (s + 1) - 1 = t
      <4>1. r * m \in Int BY <1>1, <2>2
      <4> QED BY <1>1, <1>2, <2>4, <4>1
    <3> QED BY <3>1
  <2>5. OnPart(c, r)[t] = IF \E i \in 1 .. m : Part(c, r)[i] = t THEN 1 ELSE 0
    BY <2>1 DEF OnPart, Seen
  <2>6. (\E i \in 1 .. m : Part(c, r)[i] = t) <=> r = q BY <2>1, <2>3, <2>4
  <2> QED BY <2>5, <2>6
<1> QED BY <1>3, <1>4

\* The sum of what the parts contribute.
LEMMA ReducedReplicated ==
  ASSUME Legal(model), model.sequence_parallel, NEW n \in Nat,
         NEW x, \A r \in GroupOf(model) : x[r] = Copies(n, OnPart(model, r))
  PROVE  Reduced(x) = Copies(n, Ones(model))
<1>1. 0 \in GroupOf(model) /\ Group = GroupOf(model) /\ IsFiniteSet(GroupOf(model))
  <2>1. model.tensor_model_parallel_size - 1 \in Int /\ 0 \in Int BY LegalFacts
  <2>2. IsFiniteSet(0 .. model.tensor_model_parallel_size - 1) BY <2>1, FS_Interval
  <2> QED BY <2>2, LegalFacts, ModelFacts DEF GroupOf
<1>2. ASSUME NEW i \in 1 .. n, NEW t \in TokenIds(model)
      PROVE  SumOfEntry(x, i, t, Group) = 1
  <2>1. PICK q \in GroupOf(model) : \A r \in GroupOf(model) : OnPart(model, r)[t] = IF r = q THEN 1 ELSE 0
    BY Owner
  <2>2. ASSUME NEW r \in GroupOf(model)
        PROVE  x[r][i][t] = IF r = q THEN 1 ELSE 0
    <3>1. x[r][i] = OnPart(model, r)
      <4>1. x[r] = Copies(n, OnPart(model, r)) OBVIOUS
      <4> QED BY <4>1 DEF Copies
    <3> QED BY <2>1, <3>1
  <2>3. SumOfEntry(x, i, t, GroupOf(model)) = 1 BY <1>1, <2>2, EntrySum
  <2> QED BY <1>1, <2>3
<1>3. DOMAIN x[0] = 1 .. n /\ \A i \in 1 .. n : DOMAIN x[0][i] = TokenIds(model)
  <2>1. x[0] = Copies(n, OnPart(model, 0)) BY <1>1
  <2>2. DOMAIN OnPart(model, 0) = TokenIds(model) BY DEF OnPart, Seen
  <2> QED BY <2>1, <2>2 DEF Copies
<1>4. Reduced(x) = [i \in 1 .. n |-> [t \in TokenIds(model) |-> 1]]
  BY <1>2, <1>3, ReducedFacts
<1> QED BY <1>4 DEF Copies, Ones

\* Without sequence parallelism a part is all of the sequence.
LEMMA OnSequence ==
  ASSUME NEW c, Legal(c), NEW r
  PROVE  /\ Seen(c, Sequence(c)) = Ones(c)
         /\ ~c.sequence_parallel => OnPart(c, r) = Ones(c)
<1>1. ASSUME NEW t \in TokenIds(c)
      PROVE  \E i \in DOMAIN Sequence(c) : Sequence(c)[i] = t
  <2>1. t + 1 \in 1 .. c.seq_length /\ (t + 1) - 1 = t BY LegalFacts DEF TokenIds
  <2>2. Sequence(c)[t + 1] = t /\ t + 1 \in DOMAIN Sequence(c)
    BY <2>1, SequenceTokens
  <2> QED BY <2>2
<1> QED BY <1>1 DEF OnPart, Seen, Part, Ones

\* Tokens that are all different, and a gradient that is not begun.
Distinct(k, tokens) ==
  /\ DOMAIN tokens = 1 .. k
  /\ \A i, j \in 1 .. k : tokens[i] = tokens[j] => i = j
Fresh(r, p) ==
  /\ grads[r] = [q \in ParamsOf(model) |-> grads[r][q]]
  /\ grads[r][p] = Zeros(model)
Counted(r, p, tokens) == [grads[r] EXCEPT ![p] = Seen(model, tokens)]

\* Tokens that are all different add at most one each.
LEMMA AccumulatedFacts ==
  ASSUME Legal(model), NEW r, NEW b, NEW param, <<b, param>> \in ParamsOf(model),
         Fresh(r, <<b, param>>), NEW k \in Nat, NEW tokens, Distinct(k, tokens)
  PROVE  Accumulated(r, b, param, tokens) = Counted(r, <<b, param>>, tokens)
<1> DEFINE C(t) == Cardinality({i \in 1 .. k : tokens[i] = t})
<1>1. ASSUME NEW t
      PROVE  C(t) = IF \E i \in 1 .. k : tokens[i] = t THEN 1 ELSE 0
  <2>1. CASE \E i \in 1 .. k : tokens[i] = t
    <3>1. PICK i \in 1 .. k : tokens[i] = t BY <2>1
    <3>2. {j \in 1 .. k : tokens[j] = t} = {i} BY <3>1 DEF Distinct
    <3>3. Cardinality({i}) = 1 BY FS_Singleton
    <3> QED BY <2>1, <3>2, <3>3
  <2>2. CASE ~ \E i \in 1 .. k : tokens[i] = t
    <3>1. {j \in 1 .. k : tokens[j] = t} = {} BY <2>2
    <3>2. Cardinality({}) = 0 BY FS_EmptySet
    <3> QED BY <2>2, <3>1, <3>2
  <2> QED BY <2>1, <2>2
<1>2. Tokens = TokenIds(model) BY ModelFacts
<1>3. \A t \in TokenIds(model) : grads[r][<<b, param>>][t] = 0 BY DEF Fresh, Zeros
<1>4. Accumulated(r, b, param, tokens) =
        [grads[r] EXCEPT ![<<b, param>>] =
           [t \in TokenIds(model) |-> grads[r][<<b, param>>][t] + C(t)]]
  BY <1>2 DEF Accumulated, Distinct
<1> DEFINE f == [t \in TokenIds(model) |-> grads[r][<<b, param>>][t] + C(t)]
<1>6. Accumulated(r, b, param, tokens) = [grads[r] EXCEPT ![<<b, param>>] = f]
  BY <1>4
<1> HIDE DEF C
<1>7. f = Seen(model, tokens) BY <1>1, <1>3 DEF Seen, Distinct
<1> HIDE DEF f
<1> QED BY <1>6, <1>7 DEF Counted

\* No token is twice in the part of a rank, nor in the sequence.
LEMMA PartDiffers ==
  ASSUME Legal(model), NEW r \in GroupOf(model)
  PROVE  /\ \E k \in Nat : Distinct(k, Part(model, r))
         /\ \E k \in Nat : Distinct(k, Sequence(model))
<1>1. \E k \in Nat : Distinct(k, Sequence(model))
  <2>1. model.seq_length \in Nat /\ DOMAIN Sequence(model) = 1 .. model.seq_length
        /\ \A i \in 1 .. model.seq_length : Sequence(model)[i] = i - 1
    BY LegalFacts, SequenceTokens
  <2> QED BY <2>1 DEF Distinct
<1>2. CASE ~model.sequence_parallel BY <1>1, <1>2 DEF Part
<1>3. CASE model.sequence_parallel
  <2> DEFINE m == Slice(model)
             a == r * m
  <2>1. m \in Nat /\ DOMAIN Part(model, r) = 1 .. m /\ \A i \in 1 .. m : Part(model, r)[i] = a + i - 1
    BY <1>3, LegalFacts, SliceTokens DEF Part
  <2>2. a \in Int BY <2>1, LegalFacts
  <2> HIDE DEF m, a
  <2>3. Distinct(m, Part(model, r)) BY <2>1, <2>2 DEF Distinct
  <2> QED BY <1>1, <2>1, <2>3
<1> QED BY <1>1, <1>2, <1>3

\* What a backward step adds for the tokens of the part, or all tokens.
LEMMA AccumulatedTokens ==
  ASSUME Legal(model), NEW r \in GroupOf(model), NEW b, NEW param, <<b, param>> \in ParamsOf(model),
         Fresh(r, <<b, param>>)
  PROVE  /\ Accumulated(r, b, param, Part(model, r)) = [grads[r] EXCEPT ![<<b, param>>] = OnPart(model, r)]
         /\ Accumulated(r, b, param, Sequence(model)) = [grads[r] EXCEPT ![<<b, param>>] = Ones(model)]
         /\ Accumulated(r, b, param, <<>>) = grads[r]
<1>1. Accumulated(r, b, param, Part(model, r)) = [grads[r] EXCEPT ![<<b, param>>] = OnPart(model, r)]
  <2> DEFINE tokens == Part(model, r)
  <2>1. PICK k \in Nat : Distinct(k, tokens) BY PartDiffers
  <2> HIDE DEF tokens
  <2>2. Accumulated(r, b, param, tokens) = Counted(r, <<b, param>>, tokens)
    BY <2>1, AccumulatedFacts
  <2> QED BY <2>2 DEF Counted, tokens, OnPart
<1>2. Accumulated(r, b, param, Sequence(model)) = [grads[r] EXCEPT ![<<b, param>>] = Ones(model)]
  <2> DEFINE tokens == Sequence(model)
  <2>1. PICK k \in Nat : Distinct(k, tokens) BY PartDiffers
  <2> HIDE DEF tokens
  <2>2. Accumulated(r, b, param, tokens) = Counted(r, <<b, param>>, tokens)
    BY <2>1, AccumulatedFacts
  <2> QED BY <2>2, OnSequence DEF Counted, tokens
<1>3. Accumulated(r, b, param, <<>>) = grads[r]
  <2> DEFINE none == <<>>
  <2>1. 0 \in Nat /\ Distinct(0, none) BY DEF Distinct
  <2> HIDE DEF none
  <2>2. Accumulated(r, b, param, none) = Counted(r, <<b, param>>, none)
    BY <2>1, AccumulatedFacts
  <2>3. Seen(model, none) = Zeros(model) BY <2>1 DEF Zeros, Seen, Distinct
  <2>4. [grads[r] EXCEPT ![<<b, param>>] = Zeros(model)] = grads[r] BY DEF Fresh
  <2> QED BY <2>2, <2>3, <2>4 DEF Counted, none
<1> QED BY <1>1, <1>2, <1>3

\* One more parameter has its gradient, or none.
Value(c, r, p) == IF p[2] \in {"norm", "bias"} THEN OnPart(c, r) ELSE Ones(c)

\* The gradients a place calls for are one per parameter, zero until it is
\* reached.
LEMMA GradientsType ==
  ASSUME NEW c, NEW r, NEW l, NEW b
  PROVE  /\ Gradients(c, r, l, b) = [p \in ParamsOf(c) |-> Gradients(c, r, l, b)[p]]
         /\ \A p \in ParamsOf(c) : ~Accumulates(c, l, b, p) => Gradients(c, r, l, b)[p] = Zeros(c)
  BY DEF Gradients

\* A step that accumulates nothing keeps the gradients the place calls
\* for.
LEMMA GradientsStay ==
  ASSUME NEW c, NEW r, NEW l, NEW b, NEW l2, NEW b2, l # "done", l2 # "done",
         \A p \in ParamsOf(c) : Accumulates(c, l2, b2, p) <=> Accumulates(c, l, b, p)
  PROVE  Gradients(c, r, l2, b2) = Gradients(c, r, l, b)
  BY DEF Gradients

\* A step that accumulates one parameter changes only the gradient of that
\* one.
LEMMA GradientsStep ==
  ASSUME NEW c, NEW r, NEW l, NEW b, NEW l2, NEW b2, l # "done", l2 # "done", NEW q \in ParamsOf(c),
         \A p \in ParamsOf(c) : Accumulates(c, l2, b2, p) <=> Accumulates(c, l, b, p) \/ p = q
  PROVE  Gradients(c, r, l2, b2) = [Gradients(c, r, l, b) EXCEPT ![q] = Value(c, r, q)]
<1>1. ASSUME NEW p \in ParamsOf(c)
      PROVE  Gradients(c, r, l2, b2)[p] = [Gradients(c, r, l, b) EXCEPT ![q] = Value(c, r, q)][p]
  <2>1. CASE p = q BY <2>1 DEF Gradients, Value
  <2>2. CASE p # q BY <2>2 DEF Gradients, Value
  <2> QED BY <2>1, <2>2
<1> QED BY <1>1 DEF Gradients

\* The coalesced parameters: a norm and a bias for each block.
IsUpto(f) ==
  f = [b \in Blocks |-> IF b = 0 THEN <<>> ELSE f[b - 1] \o SequenceParallelParams(b)]
Upto(b) ==
  [i \in 1 .. (IF b = LastBlock(model) THEN 2 * b - 1 ELSE 2 * b) |->
     <<(i + 1) \div 2, IF i % 2 = 1 THEN "norm" ELSE "bias">>]

\* allreduce_layernorm_grads takes the replicated parameters block by
\* block.
LEMMA UptoStep ==
  ASSUME Legal(model), NEW b \in 1 .. LastBlock(model)
  PROVE  Upto(b) = Upto(b - 1) \o SequenceParallelParams(b)
<1> DEFINE n == LastBlock(model)
           a == 2 * (b - 1)
           x == Upto(b - 1)
           E(i) == <<(i + 1) \div 2, IF i % 2 = 1 THEN "norm" ELSE "bias">>
<1>1. n \in Nat /\ b \in Nat /\ b >= 1 /\ b <= n /\ a \in Nat /\ Logits = n
  BY LegalFacts, ModelFacts
<1>2. x = [i \in 1 .. a |-> E(i)] BY <1>1 DEF Upto
<1>3. E(a + 1) = <<b, "norm">> /\ E(a + 2) = <<b, "bias">>
  <2>1. ((a + 1) + 1) \div 2 = b /\ (a + 1) % 2 = 1 /\ ((a + 2) + 1) \div 2 = b /\ (a + 2) % 2 = 0
    BY <1>1
  <2> QED BY <2>1
<1>4. Upto(b) = [i \in 1 .. (IF b = n THEN a + 1 ELSE a + 2) |-> E(i)]
  <2>1. 2 * b - 1 = a + 1 /\ 2 * b = a + 2 BY <1>1
  <2> QED BY <2>1 DEF Upto
<1> DEFINE k == IF b = n THEN 1 ELSE 2
           y == SequenceParallelParams(b)
<1>5. y = [i \in 1 .. k |-> E(a + i)]
  <2> HIDE DEF E, a, n
  <2>1. CASE b = n
    <3>1. y = <<<<b, "norm">>>> BY <1>1, <2>1 DEF SequenceParallelParams
    <3>2. <<<<b, "norm">>>> = [i \in 1 .. 1 |-> <<b, "norm">>] OBVIOUS
    <3>3. \A i \in 1 .. 1 : i = 1 OBVIOUS
    <3> QED BY <1>3, <2>1, <3>1, <3>2, <3>3
  <2>2. CASE b # n
    <3>1. y = <<<<b, "norm">>, <<b, "bias">>>>
      BY <1>1, <2>2 DEF SequenceParallelParams
    <3>2. y = [i \in 1 .. 2 |-> IF i = 1 THEN <<b, "norm">> ELSE <<b, "bias">>]
      BY <3>1
    <3>3. \A i \in 1 .. 2 : E(a + i) = IF i = 1 THEN <<b, "norm">> ELSE <<b, "bias">>
      <4>1. \A i \in 1 .. 2 : i = 1 \/ i = 2 OBVIOUS
      <4> QED BY <1>3, <4>1
    <3> QED BY <2>2, <3>2, <3>3
  <2> QED BY <2>1, <2>2
<1> HIDE DEF E, x, y, a
<1>6. x \o y = [i \in 1 .. a + k |-> IF i <= a THEN x[i] ELSE y[i - a]]
  <2>1. k \in Nat /\ x = [i \in 1 .. a |-> x[i]] /\ y = [i \in 1 .. k |-> y[i]]
    BY <1>2, <1>5
  <2> QED BY <1>1, <2>1, ConcatFunction
<1>7. ASSUME NEW i \in 1 .. a + k
      PROVE  (IF i <= a THEN x[i] ELSE y[i - a]) = E(i)
  <2>1. CASE i <= a
    <3>1. i \in 1 .. a BY <1>1, <2>1
    <3> QED BY <1>2, <2>1, <3>1
  <2>2. CASE ~(i <= a)
    <3>1. i - a \in 1 .. k /\ a + (i - a) = i BY <1>1, <2>2
    <3>2. y[i - a] = E(a + (i - a)) BY <1>5, <3>1
    <3> QED BY <2>2, <3>1, <3>2
  <2> QED BY <2>1, <2>2
<1>8. Upto(b) = [i \in 1 .. a + k |-> E(i)] BY <1>4
<1> QED BY <1>6, <1>7, <1>8 DEF x, y

\* The coalesced parameters, once they are known to be a recursive
\* function.
LEMMA UptoUnfolded ==
  ASSUME NEW f, IsUpto(f)
  PROVE  \E g : IsUpto(g) /\ Coalesced = g[Logits]
<1> DEFINE g == CHOOSE g : IsUpto(g)
<1>1. IsUpto(g) OBVIOUS
<1>2. Coalesced = g[Logits] BY DEF Coalesced, IsUpto
<1> HIDE DEF g
<1> QED BY <1>1, <1>2

\* The coalesced parameters are those of all the blocks.
LEMMA CoalescedIs ==
  ASSUME Legal(model)
  PROVE  Coalesced = Upto(LastBlock(model))
<1> DEFINE n == LastBlock(model)
           h == [b \in Blocks |-> Upto(b)]
<1>1. n \in Nat /\ n >= 3 /\ Blocks = 0 .. n /\ Logits = n BY LegalFacts, ModelFacts
<1>2. Upto(0) = <<>>
  <2>1. 2 * 0 = 0 /\ 0 # n BY <1>1
  <2> QED BY <2>1 DEF Upto
<1>3. IsUpto(h)
  <2>1. ASSUME NEW b \in Blocks
        PROVE  Upto(b) = IF b = 0 THEN <<>> ELSE h[b - 1] \o SequenceParallelParams(b)
    <3>1. CASE b = 0 BY <1>2, <3>1
    <3>2. CASE b # 0
      <4>1. b \in 1 .. n /\ b - 1 \in Blocks BY <1>1, <3>2
      <4> QED BY <3>2, <4>1, UptoStep
    <3> QED BY <3>1, <3>2
  <2> QED BY <2>1 DEF IsUpto
<1>4. PICK g : IsUpto(g) /\ Coalesced = g[Logits] BY <1>3, UptoUnfolded
<1>5. \A b \in Blocks : g[b] = IF b = 0 THEN <<>> ELSE g[b - 1] \o SequenceParallelParams(b)
  BY <1>4 DEF IsUpto
<1> DEFINE T == {b \in Nat : b \in Blocks => g[b] = Upto(b)}
<1>6. 0 \in T BY <1>1, <1>2, <1>5
<1>7. ASSUME NEW b \in T PROVE b + 1 \in T
  <2>1. b \in Nat /\ (b \in Blocks => g[b] = Upto(b)) OBVIOUS
  <2>2. ASSUME b + 1 \in Blocks PROVE g[b + 1] = Upto(b + 1)
    <3>1. b + 1 \in 1 .. n /\ b \in Blocks /\ (b + 1) - 1 = b /\ b + 1 # 0
      BY <1>1, <2>1, <2>2
    <3>2. g[b + 1] = g[b] \o SequenceParallelParams(b + 1) BY <1>5, <2>2, <3>1
    <3>3. Upto(b + 1) = Upto(b) \o SequenceParallelParams(b + 1) BY <3>1, UptoStep
    <3> QED BY <2>1, <3>1, <3>2, <3>3
  <2> QED BY <2>1, <2>2
<1>8. T = Nat
  <2>1. T \in SUBSET Nat OBVIOUS
  <2> HIDE DEF T
  <2> QED BY <1>6, <1>7, <2>1, SetInduction
<1>9. g[n] = Upto(n)
  <2>1. n \in T /\ n \in Blocks BY <1>1, <1>8
  <2> QED BY <2>1
<1> QED BY <1>1, <1>4, <1>9

\* allreduce_layernorm_grads coalesces replicated parameters, and each of
\* them.
LEMMA CoalescedFacts ==
  ASSUME Legal(model)
  PROVE  /\ DOMAIN Coalesced = 1 .. Replicated(model)
         /\ \A i \in DOMAIN Coalesced : /\ Coalesced[i] \in ParamsOf(model)
                                        /\ Coalesced[i][2] \in {"norm", "bias"}
                                        /\ Accumulates(model, "reduce_model_grads", 0, Coalesced[i])
         /\ \A p \in ParamsOf(model) :
              p[2] \in {"norm", "bias"} /\ Accumulates(model, "reduce_model_grads", 0, p)
                => \E i \in DOMAIN Coalesced : Coalesced[i] = p
<1> DEFINE n == LastBlock(model)
<1>1. n \in Nat /\ n >= 3 /\ Replicated(model) = 2 * n - 1
  BY LegalFacts DEF Replicated
<1>2. Coalesced = [i \in 1 .. 2 * n - 1 |-> <<(i + 1) \div 2, IF i % 2 = 1 THEN "norm" ELSE "bias">>]
  BY CoalescedIs DEF Upto
<1>3. "reduce_model_grads" \in Back BY DEF Back, FirstBack, Final
<1>4. ASSUME NEW i \in 1 .. 2 * n - 1
      PROVE  /\ Coalesced[i] \in ParamsOf(model)
             /\ Coalesced[i][2] \in {"norm", "bias"}
             /\ Accumulates(model, "reduce_model_grads", 0, Coalesced[i])
  <2> DEFINE q == (i + 1) \div 2
             p == <<q, IF i % 2 = 1 THEN "norm" ELSE "bias">>
  <2>1. Coalesced[i] = p BY <1>2
  <2>2. q \in 1 .. n /\ (i % 2 # 1 => q <= n - 1)
    <3> HIDE DEF n
    <3> QED BY <1>1
  <2> HIDE DEF q
  <2>3. p[1] = q /\ p[2] = IF i % 2 = 1 THEN "norm" ELSE "bias" OBVIOUS
  <2>4. p \in ParamsOf(model) BY <1>1, <2>2 DEF ParamsOf
  <2>5. Accumulates(model, "reduce_model_grads", 0, p)
    <3> HIDE DEF p, n
    <3>1. CASE i % 2 = 1 BY <1>1, <1>3, <2>2, <2>3, <3>1 DEF Accumulates
    <3>2. CASE i % 2 # 1
      <4>1. q > 0 /\ q \in 1 .. LastBlock(model) - 1 BY <1>1, <2>2, <3>2 DEF n
      <4> QED BY <1>3, <2>3, <3>2, <4>1 DEF Accumulates
    <3> QED BY <3>1, <3>2
  <2> QED BY <2>1, <2>3, <2>4, <2>5
<1>5. ASSUME NEW p \in ParamsOf(model), p[2] \in {"norm", "bias"}, Accumulates(model, "reduce_model_grads", 0, p)
      PROVE  \E i \in 1 .. 2 * n - 1 : Coalesced[i] = p
  <2> DEFINE b == p[1]
  <2>1. b \in 0 .. n /\ p = <<b, p[2]>> BY DEF ParamsOf
  <2>2. CASE p[2] = "norm"
    <3>1. b > 0 BY <1>5, <2>2 DEF Accumulates
    <3>2. 2 * b - 1 \in 1 .. 2 * n - 1 /\ ((2 * b - 1) + 1) \div 2 = b /\ (2 * b - 1) % 2 = 1
      <4> HIDE DEF b, n
      <4> QED BY <1>1, <2>1, <3>1
    <3>3. Coalesced[2 * b - 1] = <<b, "norm">> BY <1>2, <3>2
    <3> QED BY <2>1, <2>2, <3>2, <3>3
  <2>3. CASE p[2] = "bias"
    <3>1. b \in 1 .. n - 1 BY <1>5, <2>3 DEF Accumulates
    <3>2. 2 * b \in 1 .. 2 * n - 1 /\ ((2 * b) + 1) \div 2 = b /\ (2 * b) % 2 = 0
      <4> HIDE DEF b, n
      <4> QED BY <1>1, <3>1
    <3>3. Coalesced[2 * b] = <<b, "bias">> BY <1>2, <3>2
    <3> QED BY <2>1, <2>3, <3>2, <3>3
  <2> QED BY <1>5, <2>2, <2>3
<1>6. DOMAIN Coalesced = 1 .. 2 * n - 1 BY <1>2
<1> HIDE DEF n
<1> QED BY <1>1, <1>4, <1>5, <1>6

-----------------------------------------------------------------------------
\* Steps.

\* A step of rank r leaves it with these values, and the others alone.
Becomes(r, l, b, h, v, s, f, m, o, g) ==
  /\ model' = model
  /\ pc' = [pc EXCEPT ![r] = l] /\ block' = [block EXCEPT ![r] = b]
  /\ hidden' = [hidden EXCEPT ![r] = h] /\ branch' = [branch EXCEPT ![r] = v]
  /\ saved' = [saved EXCEPT ![r] = s] /\ buffer' = [buffer EXCEPT ![r] = f]
  /\ comm' = [comm EXCEPT ![r] = m] /\ out' = [out EXCEPT ![r] = o]
  /\ grads' = [grads EXCEPT ![r] = g]

\* A step of one rank changes that rank alone.
LEMMA ExceptFacts ==
  ASSUME NEW c, NEW f, PerRank(c, f), NEW r \in GroupOf(c), NEW e
  PROVE  /\ PerRank(c, [f EXCEPT ![r] = e])
         /\ [f EXCEPT ![r] = e][r] = e
         /\ \A q \in GroupOf(c) : q # r => [f EXCEPT ![r] = e][q] = f[q]
         /\ [f EXCEPT ![r] = f[r]] = f
<1>1. DOMAIN f = GroupOf(c) /\ f = [q \in GroupOf(c) |-> f[q]] BY DEF PerRank
<1> QED BY <1>1 DEF PerRank

\* A step of one rank keeps the invariant when that rank is as its new
\* place says, and as many collectives are over for it as before.
LEMMA RankStep ==
  ASSUME TPInv, NEW r \in GroupOf(model),
         NEW l, NEW b, NEW h, NEW v, NEW s, NEW f, NEW m, NEW o, NEW g,
         Becomes(r, l, b, h, v, s, f, m, o, g),
         RankInv(model, r, l, b, h, v, s, f, m, o, g),
         Clock(model, l, b, m) = Clock(model, pc[r], block[r], comm[r])
  PROVE  TPInv'
<1>1. model' = model BY DEF Becomes
<1>2. /\ PerRank(model, pc) /\ PerRank(model, block) /\ PerRank(model, hidden) /\ PerRank(model, branch)
      /\ PerRank(model, saved) /\ PerRank(model, buffer) /\ PerRank(model, comm) /\ PerRank(model, out)
      /\ PerRank(model, grads)
  BY DEF TPInv
<1>3. \A x, e : PerRank(model, x) =>
          /\ PerRank(model, [x EXCEPT ![r] = e]) /\ [x EXCEPT ![r] = e][r] = e
          /\ \A q \in GroupOf(model) : q # r => [x EXCEPT ![r] = e][q] = x[q]
  BY ExceptFacts
<1>4. /\ PerRank(model, pc') /\ PerRank(model, block') /\ PerRank(model, hidden') /\ PerRank(model, branch')
      /\ PerRank(model, saved') /\ PerRank(model, buffer') /\ PerRank(model, comm') /\ PerRank(model, out')
      /\ PerRank(model, grads')
  BY <1>2, <1>3 DEF Becomes
<1>5. /\ pc'[r] = l /\ block'[r] = b /\ hidden'[r] = h /\ branch'[r] = v /\ saved'[r] = s
      /\ buffer'[r] = f /\ comm'[r] = m /\ out'[r] = o /\ grads'[r] = g
  BY <1>2, <1>3 DEF Becomes
<1>6. ASSUME NEW q \in GroupOf(model), q # r
      PROVE  /\ pc'[q] = pc[q] /\ block'[q] = block[q] /\ hidden'[q] = hidden[q] /\ branch'[q] = branch[q]
             /\ saved'[q] = saved[q] /\ buffer'[q] = buffer[q] /\ comm'[q] = comm[q] /\ out'[q] = out[q]
             /\ grads'[q] = grads[q]
  BY <1>2, <1>3, <1>6 DEF Becomes
<1>7. ASSUME NEW q \in GroupOf(model)
      PROVE  /\ RankInv(model, q, pc'[q], block'[q], hidden'[q], branch'[q], saved'[q], buffer'[q], comm'[q],
                        out'[q], grads'[q])
             /\ Clock(model, pc'[q], block'[q], comm'[q]) = Clock(model, pc[q], block[q], comm[q])
  <2>1. CASE q = r BY <1>5, <2>1
  <2>2. CASE q # r BY <1>6, <2>2 DEF TPInv
  <2> QED BY <2>1, <2>2
<1>8. \A q, w \in GroupOf(model) :
         Clock(model, pc'[q], block'[q], comm'[q]) = Clock(model, pc'[w], block'[w], comm'[w])
  BY <1>7 DEF TPInv
<1>9. model \in Models /\ Legal(model) BY DEF TPInv
<1> QED BY <1>1, <1>4, <1>7, <1>8, <1>9 DEF TPInv

\* The invariant of one rank.
LEMMA OfRank ==
  ASSUME TPInv, NEW r \in GroupOf(model)
  PROVE  /\ Legal(model)
         /\ RankInv(model, r, pc[r], block[r], hidden[r], branch[r], saved[r], buffer[r], comm[r],
                    out[r], grads[r])
         /\ [pc EXCEPT ![r] = pc[r]] = pc /\ [block EXCEPT ![r] = block[r]] = block
         /\ [hidden EXCEPT ![r] = hidden[r]] = hidden /\ [branch EXCEPT ![r] = branch[r]] = branch
         /\ [saved EXCEPT ![r] = saved[r]] = saved /\ [buffer EXCEPT ![r] = buffer[r]] = buffer
         /\ [comm EXCEPT ![r] = comm[r]] = comm /\ [out EXCEPT ![r] = out[r]] = out
         /\ [grads EXCEPT ![r] = grads[r]] = grads
  BY ExceptFacts DEF TPInv

\* The invariant holds before the first step.
LEMMA TPInvInit ==
  ASSUME TPInit
  PROVE  TPInv
<1>1. model \in Models /\ Legal(model) BY ModelsAssumption DEF Legal, TPInit
<1>2. Group = GroupOf(model) /\ Blocks = 0 .. LastBlock(model) /\ Params = ParamsOf(model) /\ Tokens = TokenIds(model)
  BY <1>1, ModelFacts
<1>3. /\ PerRank(model, pc) /\ PerRank(model, block) /\ PerRank(model, hidden) /\ PerRank(model, branch)
      /\ PerRank(model, saved) /\ PerRank(model, buffer) /\ PerRank(model, comm) /\ PerRank(model, out)
      /\ PerRank(model, grads)
  BY <1>2 DEF TPInit, PerRank
<1>4. ASSUME NEW r \in GroupOf(model)
      PROVE  /\ RankInv(model, r, pc[r], block[r], hidden[r], branch[r], saved[r], buffer[r], comm[r], out[r],
                        grads[r])
             /\ Clock(model, pc[r], block[r], comm[r]) = 0
  <2>1. /\ pc[r] = "word_embeddings" /\ block[r] = 0 /\ hidden[r] = <<>>
        /\ saved[r] = [b \in 0 .. LastBlock(model) |-> [input |-> <<>>, context |-> <<>>]]
        /\ comm[r] = [kind |-> "none"]
        /\ grads[r] = [p \in ParamsOf(model) |-> [t \in TokenIds(model) |-> 0]]
    BY <1>2 DEF TPInit, None
  <2>2. Place(model, "word_embeddings", 0) /\ Failing(model, r, "word_embeddings", 0, comm[r])
    BY DEF Place, Failing, Early
  <2>3. Keeps(model, saved[r]) BY <2>1 DEF Keeps
  <2>4. KindAt(model, "word_embeddings") = "none" /\ InputSaved(model, "word_embeddings", 0) = {}
        /\ ContextSaved(model, "word_embeddings", 0) = {}
    BY DEF KindAt, InputSaved, ContextSaved, Early
  <2>5. grads[r] = Gradients(model, r, "word_embeddings", 0)
    <3>1. \A p \in ParamsOf(model) : ~Accumulates(model, "word_embeddings", 0, p)
      BY DEF Accumulates, ParamsOf, Back, ColumnBack, RowBack, FirstBack, Final
    <3> QED BY <2>1, <3>1 DEF Gradients, Zeros
  <2>6. "word_embeddings" \in Early /\ "word_embeddings" \notin ColumnBack /\ "word_embeddings" # "grad_weight"
        /\ "word_embeddings" \notin Back /\ "word_embeddings" # "error"
    BY DEF Early, ColumnBack, Back, RowBack, FirstBack, Final
  <2>7. Calls(model, "word_embeddings", comm[r]) BY <2>1 DEF Calls
  <2>8. Values(model, r, "word_embeddings", 0, hidden[r], branch[r], saved[r], buffer[r], comm[r],
               out[r], grads[r])
    BY <2>1, <2>4, <2>5, <2>6 DEF Values
  <2>9. CutValues(model, r, "word_embeddings", hidden[r], buffer[r], comm[r], out[r])
    BY <2>1, <2>4, <2>6 DEF CutValues
  <2>10. Clock(model, "word_embeddings", 0, comm[r]) = 0
    <3>1. Before(model, "word_embeddings", 0) = 0 BY <2>6 DEF Before, Early, RowBack
    <3> QED BY <2>4, <3>1 DEF Clock
  <2> QED BY <2>1, <2>2, <2>3, <2>6, <2>7, <2>8, <2>9, <2>10 DEF RankInv
<1> QED BY <1>1, <1>3, <1>4 DEF TPInv

\* No gradient is there before the backward pass.
LEMMA ForwardGradients ==
  ASSUME NEW c, NEW r, NEW l, NEW b, NEW k, NEW d, l \notin Back, k \notin Back
  PROVE  Gradients(c, r, l, b) = Gradients(c, r, k, d)
<1>1. ASSUME NEW p \in ParamsOf(c)
      PROVE  ~Accumulates(c, l, b, p) /\ ~Accumulates(c, k, d, p)
  <2>1. l \notin Final /\ k \notin Final BY DEF Back, FirstBack
  <2> QED BY <2>1 DEF Accumulates, ParamsOf
<1>2. l # "done" /\ k # "done" BY DEF Back, FirstBack, Final
<1> QED BY <1>1, <1>2, GradientsStay

\* The arguments of a job that fails, and the sizes of its tensors.
LEMMA CutFacts ==
  ASSUME NEW c, Legal(c), ~Agreed(c)
  PROVE  /\ c.sequence_parallel /\ c.tensor_model_parallel_size > 1
         /\ c.pretrain = "gpt" \/ (c.pretrain = "gpt_pipe" /\ c.add_position_embedding)
         /\ BatchSize(c) \in Nat /\ CutSize(c) \in Nat
<1>1. /\ c.sequence_parallel /\ c.tensor_model_parallel_size > 1
      /\ c.pretrain = "gpt" \/ (c.pretrain = "gpt_pipe" /\ c.add_position_embedding)
  BY LegalFacts DEF Legal, Agreed
<1>2. BatchSize(c) \in Nat /\ c.tensor_model_parallel_size \in Nat \ {0}
  BY LegalFacts DEF BatchSize
<1>3. CutSize(c) \in Nat BY <1>2, QuotientOfNat DEF CutSize
<1> QED BY <1>1, <1>2, <1>3

\* A batch is what the layers take, or its slice of the sequence.
LEMMA BatchFacts ==
  ASSUME Legal(model), NEW r \in GroupOf(model)
  PROVE  /\ Agreed(model) => Batch(r) = Sequence(model)
         /\ ~Agreed(model) => DOMAIN Batch(r) = 1 .. BatchSize(model) /\ Len(Batch(r)) = BatchSize(model)
<1>1. ASSUME Agreed(model) PROVE Batch(r) = Sequence(model)
  BY <1>1, ModelFacts DEF Batch, Agreed
<1>2. ASSUME ~Agreed(model)
      PROVE  DOMAIN Batch(r) = 1 .. BatchSize(model) /\ Batch(r) = [i \in 1 .. BatchSize(model) |-> Batch(r)[i]]
  <2>1. model.sequence_parallel BY <1>2, CutFacts
  <2>2. CASE model.pretrain = "gpt"
    BY <2>1, <2>2, SplitSequence, SliceTokens DEF Batch, BatchSize
  <2>3. CASE model.pretrain # "gpt"
    BY <2>3, ModelFacts, SequenceTokens DEF Batch, BatchSize
  <2> QED BY <2>2, <2>3
<1>3. ~Agreed(model) => Len(Batch(r)) = BatchSize(model)
  BY <1>2, CutFacts, FunctionSeq
<1> QED BY <1>1, <1>2, <1>3

\* VocabParallelEmbedding.forward looks up the words of its part of the
\* vocabulary.
LEMMA WordEmbeddingsStep ==
  ASSUME TPInv, NEW r \in GroupOf(model), WordEmbeddings(r)
  PROVE  TPInv'
<1> DEFINE m == [kind |-> "all_reduce", tensor |-> Shares(Batch(r), r)]
<1>1. /\ Legal(model)
      /\ RankInv(model, r, pc[r], block[r], hidden[r], branch[r], saved[r], buffer[r], comm[r],
                 out[r], grads[r])
  BY OfRank
<1>2. pc[r] = "word_embeddings" BY DEF WordEmbeddings, At
<1>3. Becomes(r, "embedding", block[r], hidden[r], branch[r], saved[r], buffer[r], m, m.tensor, grads[r])
  BY OfRank DEF WordEmbeddings, Launch, Goto, Becomes
<1>4. block[r] = 0
  BY <1>1, <1>2 DEF RankInv, Place, Early, FirstBack, Final, ColumnBack, RowBack
<1>5. KindAt(model, "word_embeddings") = "none" /\ KindAt(model, "embedding") = "all_reduce"
  BY DEF KindAt
<1>6. comm[r].kind = "none" BY <1>1, <1>2, <1>5 DEF RankInv, Calls
<1>7. m.tensor = SharesOf(model, r, Batch(r)) BY <1>1, ModelFacts
<1>8. RankInv(model, r, "embedding", block[r], hidden[r], branch[r], saved[r], buffer[r], m,
              m.tensor, grads[r])
  <2>1. Place(model, "embedding", block[r]) /\ Failing(model, r, "embedding", block[r], m)
    BY <1>4 DEF Place, Failing, Early
  <2>2. Calls(model, "embedding", m) BY <1>5 DEF Calls
  <2>3. Keeps(model, saved[r]) /\ hidden[r] = <<>> BY <1>1, <1>2 DEF RankInv, Early
  <2>4. ASSUME Agreed(model)
        PROVE  Values(model, r, "embedding", block[r], hidden[r], branch[r], saved[r], buffer[r],
                      m, m.tensor, grads[r])
    <3>1. grads[r] = Gradients(model, r, "word_embeddings", block[r])
      BY <1>1, <1>2, <2>4 DEF RankInv, Values
    <3>2. grads[r] = Gradients(model, r, "embedding", block[r])
      <4>1. "word_embeddings" \notin Back /\ "embedding" \notin Back
        BY DEF Back, ColumnBack, RowBack, FirstBack, Final
      <4> QED BY <3>1, <4>1, ForwardGradients
    <3>3. Given(model, r, "embedding", m)
      <4>1. m.tensor = SharesOf(model, r, Sequence(model))
        BY <1>1, <1>7, <2>4, BatchFacts
      <4> HIDE DEF m
      <4> QED BY <4>1 DEF Given
    <3>4. "embedding" \in Early /\ "embedding" \notin ColumnBack
      BY DEF Early, ColumnBack
    <3>5. m.kind # "none" OBVIOUS
    <3>6. InputSaved(model, "embedding", block[r]) = {} /\ ContextSaved(model, "embedding", block[r]) = {}
      BY <3>4 DEF InputSaved, ContextSaved
    <3> HIDE DEF m
    <3> QED BY <3>2, <3>3, <3>4, <3>5, <3>6 DEF Values
  <2>5. ASSUME ~Agreed(model)
        PROVE  CutValues(model, r, "embedding", hidden[r], buffer[r], m, m.tensor)
    <3>1. /\ m.tensor = SharesOf(model, r, Batch(r)) /\ m.kind # "none"
          /\ DOMAIN Batch(r) = 1 .. BatchSize(model)
      BY <1>1, <1>7, <2>5, BatchFacts
    <3> HIDE DEF m
    <3> QED BY <3>1 DEF CutValues, Early
  <2> HIDE DEF m
  <2> QED BY <2>1, <2>2, <2>3, <2>4, <2>5 DEF RankInv
<1>9. Clock(model, "embedding", block[r], m) = Clock(model, pc[r], block[r], comm[r])
  <2>1. Before(model, "embedding", block[r]) = 0 /\ Before(model, pc[r], block[r]) = 0
    BY <1>2, <1>4 DEF Before, Early, RowBack, Back, ColumnBack, FirstBack, Final
  <2> QED BY <1>2, <1>5, <2>1 DEF Clock
<1> HIDE DEF m
<1> QED BY <1>3, <1>8, <1>9, RankStep

-----------------------------------------------------------------------------
\* Backward steps.

\* A parameter is a block and a name.
LEMMA ParamFacts ==
  ASSUME NEW c, NEW p \in ParamsOf(c)
  PROVE  /\ p[1] \in 0 .. LastBlock(c) /\ p[2] \in {"norm", "column", "row", "bias", "word", "position"}
         /\ \A b, k : p = <<b, k>> <=> p[1] = b /\ p[2] = k
<1>1. PICK b0 \in 0 .. LastBlock(c), k0 \in {"norm", "column", "row", "bias", "word", "position"} : p = <<b0, k0>>
  BY DEF ParamsOf
<1> QED BY <1>1

\* A rank that is past the loss does not fail.
LEMMA BackAgrees ==
  ASSUME NEW c, Legal(c), NEW r, NEW l, NEW b, NEW m, Failing(c, r, l, b, m), l \in Back \cup {"loss"}
  PROVE  Agreed(c)
<1>1. l \notin Early \cup {"column", "row", "residual", "logits", "error"}
  BY DEF Back, ColumnBack, RowBack, FirstBack, Final, Early
<1> QED BY <1>1 DEF Failing

\* A rank that waits for nothing has launched nothing.
LEMMA NothingLaunched ==
  ASSUME NEW c, NEW l, NEW m, Calls(c, l, m), m.kind = "none" \/ KindAt(c, l) = "none"
  PROVE  m = [kind |-> "none"]
BY DEF Calls

\* What is right of a rank once all blocks are saved.
BackValues(c, r, l, h, v, s, f, m, o) ==
  /\ h = Complete(c, Part(c, r))
  /\ \A k \in 1 .. LastBlock(c) : s[k].input = Complete(c, Part(c, r))
  /\ \A k \in 1 .. LastBlock(c) - 1 : s[k].context = Sequence(c)
  /\ l \in ColumnBack => v = Sequence(c)
  /\ m.kind # "none" => Given(c, r, l, m)
  /\ KindAt(c, l) # "none" /\ m.kind = "none" => Gotten(c, r, l, f, o)
  /\ l = "grad_weight" /\ c.sequence_parallel => f = Complete(c, Sequence(c))

\* The values of a rank that goes back, without its gradients.
LEMMA ValuesBack ==
  ASSUME NEW c, NEW r, NEW l, NEW b, NEW h, NEW v, NEW s, NEW f, NEW m, NEW o, NEW g,
         l \in Back \cup {"logits", "loss"}
  PROVE  Values(c, r, l, b, h, v, s, f, m, o, g)
           <=> BackValues(c, r, l, h, v, s, f, m, o) /\ g = Gradients(c, r, l, b)
<1>1. l \notin Early \cup {"column", "row", "residual"}
  BY DEF Back, ColumnBack, RowBack, FirstBack, Final, Early
<1>2. InputSaved(c, l, b) = 1 .. LastBlock(c) /\ ContextSaved(c, l, b) = 1 .. LastBlock(c) - 1
  BY <1>1 DEF InputSaved, ContextSaved
<1> QED BY <1>1, <1>2 DEF Values, BackValues

\* The invariant of a rank that is past the logits.
LEMMA OfBackRank ==
  ASSUME TPInv, NEW r \in GroupOf(model), pc[r] \in Back \cup {"loss"}
  PROVE  /\ Legal(model) /\ Agreed(model) /\ Place(model, pc[r], block[r]) /\ Calls(model, pc[r], comm[r])
         /\ Keeps(model, saved[r])
         /\ BackValues(model, r, pc[r], hidden[r], branch[r], saved[r], buffer[r], comm[r], out[r])
         /\ grads[r] = Gradients(model, r, pc[r], block[r])
<1>1. /\ Legal(model)
      /\ RankInv(model, r, pc[r], block[r], hidden[r], branch[r], saved[r], buffer[r], comm[r],
                 out[r], grads[r])
  BY OfRank
<1>2. Agreed(model) BY <1>1, BackAgrees DEF RankInv
<1> QED BY <1>1, <1>2, ValuesBack DEF RankInv

\* RankStep for a rank that goes back.
LEMMA BackStep ==
  ASSUME TPInv, NEW r \in GroupOf(model), pc[r] \in Back \cup {"loss"},
         NEW l, NEW b, NEW h, NEW v, NEW s, NEW f, NEW m, NEW o, NEW g, l \in Back,
         Becomes(r, l, b, h, v, s, f, m, o, g),
         Place(model, l, b), Calls(model, l, m), Keeps(model, s),
         BackValues(model, r, l, h, v, s, f, m, o), g = Gradients(model, r, l, b),
         Clock(model, l, b, m) = Clock(model, pc[r], block[r], comm[r])
  PROVE  TPInv'
<1>1. Legal(model) /\ Agreed(model) BY OfBackRank
<1>2. l \notin Early \cup {"error"}
  BY DEF Back, ColumnBack, RowBack, FirstBack, Final, Early
<1>3. Values(model, r, l, b, h, v, s, f, m, o, g) BY ValuesBack
<1>4. Failing(model, r, l, b, m) BY <1>1 DEF Failing
<1>5. RankInv(model, r, l, b, h, v, s, f, m, o, g)
  BY <1>1, <1>2, <1>3, <1>4 DEF RankInv
<1> QED BY <1>5, RankStep

\* With its loss a rank starts to go back: the gradient of its logits.
LEMMA LossStep ==
  ASSUME TPInv, NEW r \in GroupOf(model), Loss(r)
  PROVE  TPInv'
<1> DEFINE v == TokensOf(out[r])
           n == LastBlock(model)
<1>1. pc[r] = "loss" /\ comm[r].kind = "none" BY DEF Loss, At, Over
<1>2. /\ Legal(model) /\ Agreed(model) /\ Place(model, "loss", block[r]) /\ Calls(model, "loss", comm[r])
      /\ Keeps(model, saved[r])
      /\ BackValues(model, r, "loss", hidden[r], branch[r], saved[r], buffer[r], comm[r], out[r])
      /\ grads[r] = Gradients(model, r, "loss", block[r])
  BY <1>1, OfBackRank
<1>3. block[r] = n /\ n \in Nat /\ n >= 3
  BY <1>2, LegalFacts DEF Place, Early, FirstBack, Final, ColumnBack, RowBack
<1>4. comm[r] = [kind |-> "none"] BY <1>1, <1>2, NothingLaunched
<1>5. Becomes(r, "column_backward", n, hidden[r], v, saved[r], buffer[r], comm[r], out[r], grads[r])
  BY <1>3, OfRank DEF Loss, Goto, Becomes
<1>6. KindAt(model, "loss") = "all_reduce" /\ KindAt(model, "column_backward") = "none"
  BY DEF KindAt
<1>7. v = Sequence(model)
  <2>1. out[r] = Complete(model, Sequence(model))
    BY <1>1, <1>2, <1>6 DEF BackValues, Gotten
  <2> QED BY <1>2, <2>1, SequenceTokens, TokensOfComplete
<1>8. BackValues(model, r, "column_backward", hidden[r], v, saved[r], buffer[r], comm[r], out[r])
  <2> HIDE DEF v, n
  <2> QED BY <1>1, <1>2, <1>6, <1>7 DEF BackValues
<1>9. grads[r] = Gradients(model, r, "column_backward", n)
  <2>1. ASSUME NEW p \in ParamsOf(model)
        PROVE  Accumulates(model, "column_backward", n, p) <=> Accumulates(model, "loss", block[r], p)
    <3>1. p[1] \in 0 .. n /\ p[2] \in {"norm", "column", "row", "bias", "word", "position"}
      BY ParamFacts
    <3>2. "column_backward" \in ColumnBack /\ "column_backward" \in Back /\ "column_backward" \notin Final
          /\ "loss" \notin Back /\ "loss" \notin Final
      BY DEF Back, ColumnBack, RowBack, FirstBack, Final
    <3>3. ~Accumulates(model, "loss", block[r], p) BY <3>1, <3>2 DEF Accumulates
    <3>4. ~Accumulates(model, "column_backward", n, p)
      <4> USE <1>3, <3>1, <3>2
      <4>1. ~(p[1] > n) /\ (p[1] \in 1 .. n - 1 => p[1] # n) OBVIOUS
      <4> QED BY <4>1 DEF Accumulates, n
    <3> QED BY <3>3, <3>4
  <2> QED BY <1>2, <2>1, GradientsStay
<1>10. Place(model, "column_backward", n) BY <1>3 DEF Place, ColumnBack, n
<1>11. Calls(model, "column_backward", comm[r]) BY <1>4 DEF Calls
<1>12. Clock(model, "column_backward", n, comm[r]) = Clock(model, pc[r], block[r], comm[r])
  <2>1. Before(model, "column_backward", n) = Before(model, "loss", n) + 1
    BY <1>3 DEF Before, Early, RowBack, Back, ColumnBack, FirstBack, Final, n
  <2>2. Before(model, "loss", n) \in Int
    BY <1>3 DEF Before, Early, RowBack, Back, ColumnBack, FirstBack, Final, n
  <2> QED BY <1>1, <1>3, <1>6, <2>1, <2>2 DEF Clock
<1>13. "column_backward" \in Back BY DEF Back, ColumnBack
<1> HIDE DEF v, n
<1> QED BY <1>1, <1>2, <1>5, <1>8, <1>9, <1>10, <1>11, <1>12, <1>13, BackStep

\* The labels of the backward pass, and what they are in.
LEMMA BackLabels ==
  /\ {"column_backward", "grad_input", "grad_weight", "norm_backward", "row_backward", "row_grads",
      "scatter_backward", "embedding_backward", "reduce_model_grads", "synced", "done"} \subseteq Back
  /\ {"column_backward", "grad_input", "grad_weight", "norm_backward"} \subseteq ColumnBack
  /\ {"row_backward", "row_grads", "scatter_backward", "embedding_backward", "reduce_model_grads",
      "synced", "done"} \cap ColumnBack = {}
  /\ {"reduce_model_grads", "synced", "done"} \subseteq Final
  /\ {"column_backward", "grad_input", "grad_weight", "norm_backward", "row_backward", "row_grads",
      "scatter_backward", "embedding_backward"} \cap Final = {}
BY DEF Back, ColumnBack, RowBack, FirstBack, Final

\* Where a rank is in the backward pass, and how many collectives are over.
LEMMA BackPlaces ==
  ASSUME NEW c, Legal(c), NEW b
  PROVE  /\ \A l \in ColumnBack : Place(c, l, b) <=> b \in 1 .. LastBlock(c)
         /\ \A l \in RowBack : Place(c, l, b) <=> b \in 1 .. LastBlock(c) - 1
         /\ \A l \in FirstBack : Place(c, l, b) <=> b = 0
         /\ \A l \in Back : ~c.sequence_parallel => Before(c, l, b) = 2 * LastBlock(c) + 1 - b
         /\ c.sequence_parallel =>
              /\ \A l \in {"column_backward", "grad_input"} : Before(c, l, b) = 5 * LastBlock(c) - 3 * b + 1
              /\ \A l \in {"grad_weight", "norm_backward"} : Before(c, l, b) = 5 * LastBlock(c) - 3 * b + 2
              /\ \A l \in {"row_backward", "row_grads", "scatter_backward", "embedding_backward"} :
                   Before(c, l, b) = 5 * LastBlock(c) - 3 * b
              /\ \A l \in {"reduce_model_grads", "synced"} : Before(c, l, b) = 5 * LastBlock(c) + 1
              /\ Before(c, "done", b) = 5 * LastBlock(c) + (IF c.deepspeed THEN 1 ELSE 2)
<1>1. \A l \in ColumnBack : Place(c, l, b) <=> b \in 1 .. LastBlock(c)
  BY DEF Place, Early, FirstBack, Final, ColumnBack, RowBack
<1>2. \A l \in RowBack : Place(c, l, b) <=> b \in 1 .. LastBlock(c) - 1
  BY DEF Place, Early, FirstBack, Final, ColumnBack, RowBack
<1>3. \A l \in FirstBack : Place(c, l, b) <=> b = 0
  BY DEF Place, Early, FirstBack, Final, ColumnBack, RowBack
<1>4. \A l \in Back : ~c.sequence_parallel => Before(c, l, b) = 2 * LastBlock(c) + 1 - b
  BY DEF Before
<1>5. ASSUME c.sequence_parallel
      PROVE  /\ \A l \in {"column_backward", "grad_input"} : Before(c, l, b) = 5 * LastBlock(c) - 3 * b + 1
             /\ \A l \in {"grad_weight", "norm_backward"} : Before(c, l, b) = 5 * LastBlock(c) - 3 * b + 2
             /\ \A l \in {"row_backward", "row_grads", "scatter_backward", "embedding_backward"} :
                  Before(c, l, b) = 5 * LastBlock(c) - 3 * b
             /\ \A l \in {"reduce_model_grads", "synced"} : Before(c, l, b) = 5 * LastBlock(c) + 1
             /\ Before(c, "done", b) = 5 * LastBlock(c) + (IF c.deepspeed THEN 1 ELSE 2)
  BY <1>5 DEF Before, Early, RowBack
<1> QED BY <1>1, <1>2, <1>3, <1>4, <1>5

\* The backward pass of a row-parallel layer: the gradient of its bias,
\* and the gather of the gradient of its output.
LEMMA RowBackwardStep ==
  ASSUME TPInv, NEW r \in GroupOf(model), RowBackward(r)
  PROVE  TPInv'
<1> DEFINE b == block[r]
           n == LastBlock(model)
           g == Accumulated(r, b, "bias", TokensOf(hidden[r]))
           m == IF model.sequence_parallel THEN [kind |-> "all_gather", tensor |-> hidden[r]] ELSE comm[r]
           o == IF model.sequence_parallel THEN <<>> ELSE out[r]
<1>1. pc[r] = "row_backward" BY DEF RowBackward, At
<1>2. /\ Legal(model) /\ Agreed(model) /\ Place(model, "row_backward", b) /\ Calls(model, "row_backward", comm[r])
      /\ Keeps(model, saved[r])
      /\ BackValues(model, r, "row_backward", hidden[r], branch[r], saved[r], buffer[r], comm[r], out[r])
      /\ grads[r] = Gradients(model, r, "row_backward", b)
  BY <1>1, BackLabels, OfBackRank
<1>3. b \in 1 .. n - 1 /\ n \in Nat /\ n >= 3
  BY <1>2, BackPlaces, LegalFacts DEF RowBack
<1>4. /\ KindAt(model, "row_backward") = "none"
      /\ KindAt(model, "row_grads") = IF model.sequence_parallel THEN "all_gather" ELSE "none"
  BY DEF KindAt
<1>5. comm[r] = [kind |-> "none"] BY <1>2, <1>4, NothingLaunched
<1>6. Becomes(r, "row_grads", b, hidden[r], branch[r], saved[r], buffer[r], m, o, g)
  <2>1. /\ model' = model /\ pc' = [pc EXCEPT ![r] = "row_grads"] /\ block' = [block EXCEPT ![r] = b]
        /\ hidden' = [hidden EXCEPT ![r] = hidden[r]] /\ branch' = [branch EXCEPT ![r] = branch[r]]
        /\ saved' = [saved EXCEPT ![r] = saved[r]] /\ buffer' = [buffer EXCEPT ![r] = buffer[r]]
        /\ grads' = [grads EXCEPT ![r] = g]
    BY OfRank DEF RowBackward, Goto
  <2>2. comm' = [comm EXCEPT ![r] = m] /\ out' = [out EXCEPT ![r] = o]
    <3>1. CASE model.sequence_parallel BY <3>1 DEF RowBackward, Launch
    <3>2. CASE ~model.sequence_parallel BY <3>2, OfRank DEF RowBackward, NoLaunch
    <3> QED BY <3>1, <3>2
  <2> HIDE DEF m, o, g
  <2> QED BY <2>1, <2>2 DEF Becomes
<1>7. hidden[r] = Complete(model, Part(model, r)) BY <1>2 DEF BackValues
<1>8. /\ model.sequence_parallel => m = [kind |-> "all_gather", tensor |-> hidden[r]]
      /\ ~model.sequence_parallel => m = [kind |-> "none"]
  BY <1>5
<1> HIDE DEF m, o
<1>9. BackValues(model, r, "row_grads", hidden[r], branch[r], saved[r], buffer[r], m, o)
  <2>1. m.kind # "none" => Given(model, r, "row_grads", m) BY <1>7, <1>8 DEF Given
  <2>2. ~(KindAt(model, "row_grads") # "none" /\ m.kind = "none") BY <1>4, <1>8
  <2> QED BY <1>2, <2>1, <2>2, BackLabels DEF BackValues
<1>10. g = Gradients(model, r, "row_grads", b)
  <2> DEFINE q == <<b, "bias">>
  <2>1. q \in ParamsOf(model) BY <1>3 DEF ParamsOf
  <2>2. TokensOf(hidden[r]) = Part(model, r)
    BY <1>2, <1>7, PartTokens, TokensOfComplete
  <2>3. ~Accumulates(model, "row_backward", b, q)
    BY <1>3, BackLabels DEF Accumulates
  <2>4. Fresh(r, q) BY <1>2, <2>1, <2>3, GradientsType DEF Fresh
  <2>5. g = [grads[r] EXCEPT ![q] = OnPart(model, r)]
    <3> HIDE DEF b
    <3>1. Accumulated(r, b, "bias", Part(model, r)) = [grads[r] EXCEPT ![<<b, "bias">>] = OnPart(model, r)]
      BY <1>2, <2>1, <2>4, AccumulatedTokens
    <3> QED BY <2>2, <3>1
  <2>6. ASSUME NEW p \in ParamsOf(model)
        PROVE  Accumulates(model, "row_grads", b, p) <=> Accumulates(model, "row_backward", b, p) \/ p = q
    <3>1. /\ p[1] \in 0 .. n /\ p[2] \in {"norm", "column", "row", "bias", "word", "position"}
          /\ p = q <=> p[1] = b /\ p[2] = "bias"
      BY ParamFacts
    <3> HIDE DEF q, b
    <3> QED BY <1>3, <3>1, BackLabels DEF Accumulates
  <2>7. Value(model, r, q) = OnPart(model, r) BY DEF Value
  <2> HIDE DEF q, g
  <2> QED BY <1>2, <2>1, <2>5, <2>6, <2>7, GradientsStep
<1>11. Place(model, "row_grads", b) BY <1>2, <1>3, BackPlaces DEF RowBack
<1>12. Calls(model, "row_grads", m) BY <1>4, <1>8 DEF Calls
<1>13. Clock(model, "row_grads", b, m) = Clock(model, pc[r], b, comm[r])
  <2>1. Before(model, "row_grads", b) = Before(model, "row_backward", b)
    BY <1>2, BackLabels, BackPlaces
  <2> QED BY <1>1, <1>4, <1>8, <2>1 DEF Clock
<1> HIDE DEF b, n, g
<1> QED BY <1>1, <1>2, <1>6, <1>9, <1>10, <1>11, <1>12, <1>13, BackLabels, BackStep DEF b

\* The gradient of the row-parallel weight, and of what it was given.
LEMMA RowGradsStep ==
  ASSUME TPInv, NEW r \in GroupOf(model), RowGrads(r)
  PROVE  TPInv'
<1> DEFINE b == block[r]
           n == LastBlock(model)
           x == TokensOf(IF model.sequence_parallel THEN out[r] ELSE hidden[r])
           y == saved[r][b].context
           g == Accumulated(r, b, "row", Matched(x, y))
           v == Local(b, Matched(x, y))
<1>1. pc[r] = "row_grads" /\ comm[r].kind = "none" BY DEF RowGrads, At, Over
<1>2. /\ Legal(model) /\ Agreed(model) /\ Place(model, "row_grads", b) /\ Calls(model, "row_grads", comm[r])
      /\ Keeps(model, saved[r])
      /\ BackValues(model, r, "row_grads", hidden[r], branch[r], saved[r], buffer[r], comm[r], out[r])
      /\ grads[r] = Gradients(model, r, "row_grads", b)
  BY <1>1, BackLabels, OfBackRank
<1>3. b \in 1 .. n - 1 /\ n \in Nat /\ n >= 3
  BY <1>2, BackPlaces, LegalFacts DEF RowBack
<1>4. /\ KindAt(model, "column_backward") = "none"
      /\ KindAt(model, "row_grads") = IF model.sequence_parallel THEN "all_gather" ELSE "none"
  BY DEF KindAt
<1>5. comm[r] = [kind |-> "none"] BY <1>1, <1>2, NothingLaunched
<1>6. Becomes(r, "column_backward", b, hidden[r], v, saved[r], buffer[r], comm[r], out[r], g)
  BY OfRank DEF RowGrads, Goto, Becomes
<1>7. x = Sequence(model) /\ y = Sequence(model)
  <2>1. (IF model.sequence_parallel THEN out[r] ELSE hidden[r]) = Complete(model, Sequence(model))
    <3>1. CASE model.sequence_parallel
      BY <1>1, <1>2, <1>4, <3>1 DEF BackValues, Gotten
    <3>2. CASE ~model.sequence_parallel BY <1>2, <3>2 DEF BackValues, Part
    <3> QED BY <3>1, <3>2
  <2>2. x = Sequence(model) BY <1>2, <2>1, SequenceTokens, TokensOfComplete
  <2>3. y = Sequence(model) BY <1>2, <1>3 DEF BackValues
  <2> QED BY <2>2, <2>3
<1>8. Matched(x, y) = Sequence(model) BY <1>7, MatchedSame DEF Sequence
<1>9. v = Sequence(model) BY <1>2, <1>8, LocalOfSequence
<1>10. g = Gradients(model, r, "column_backward", b)
  <2> DEFINE q == <<b, "row">>
  <2>1. q \in ParamsOf(model) BY <1>3 DEF ParamsOf
  <2>2. ~Accumulates(model, "row_grads", b, q) BY <1>3, BackLabels DEF Accumulates
  <2>3. Fresh(r, q) BY <1>2, <2>1, <2>2, GradientsType DEF Fresh
  <2>4. g = [grads[r] EXCEPT ![q] = Ones(model)]
    <3> HIDE DEF b
    <3>1. Accumulated(r, b, "row", Sequence(model)) = [grads[r] EXCEPT ![<<b, "row">>] = Ones(model)]
      BY <1>2, <2>1, <2>3, AccumulatedTokens
    <3> QED BY <1>8, <3>1
  <2>5. ASSUME NEW p \in ParamsOf(model)
        PROVE  Accumulates(model, "column_backward", b, p) <=> Accumulates(model, "row_grads", b, p) \/ p = q
    <3>1. /\ p[1] \in 0 .. n /\ p[2] \in {"norm", "column", "row", "bias", "word", "position"}
          /\ p = q <=> p[1] = b /\ p[2] = "row"
      BY ParamFacts
    <3> HIDE DEF q, b
    <3> QED BY <1>3, <3>1, BackLabels DEF Accumulates
  <2>6. Value(model, r, q) = Ones(model) BY DEF Value
  <2> HIDE DEF q, g
  <2> QED BY <1>2, <2>1, <2>4, <2>5, <2>6, GradientsStep
<1> HIDE DEF v, x, y, g
<1>11. BackValues(model, r, "column_backward", hidden[r], v, saved[r], buffer[r], comm[r], out[r])
  BY <1>1, <1>2, <1>4, <1>9 DEF BackValues
<1>12. Place(model, "column_backward", b) /\ Calls(model, "column_backward", comm[r])
  BY <1>2, <1>3, <1>5, BackLabels, BackPlaces DEF Calls
<1>13. Clock(model, "column_backward", b, comm[r]) = Clock(model, pc[r], b, comm[r])
  <2>1. /\ model.sequence_parallel => /\ Before(model, "row_grads", b) = 5 * n - 3 * b
                                      /\ Before(model, "column_backward", b) = 5 * n - 3 * b + 1
        /\ ~model.sequence_parallel => Before(model, "row_grads", b) = Before(model, "column_backward", b)
    BY <1>2, BackLabels, BackPlaces
  <2> HIDE DEF b, n
  <2> QED BY <1>1, <1>3, <1>4, <2>1 DEF Clock
<1> HIDE DEF b, n
<1> QED BY <1>1, <1>2, <1>6, <1>10, <1>11, <1>12, <1>13, BackLabels, BackStep DEF b

\* LinearWithGradAccumulationAndAsyncCommunication.backward gathers its
\* input.
LEMMA ColumnBackwardStep ==
  ASSUME TPInv, NEW r \in GroupOf(model), ColumnBackward(r)
  PROVE  TPInv'
<1> DEFINE b == block[r]
           n == LastBlock(model)
           x == saved[r][b].input
           m == IF model.sequence_parallel THEN [kind |-> "all_gather_mpu", tensor |-> x] ELSE comm[r]
           o == IF model.sequence_parallel THEN <<>> ELSE out[r]
<1>1. pc[r] = "column_backward" BY DEF ColumnBackward, At
<1>2. /\ Legal(model) /\ Agreed(model) /\ Place(model, "column_backward", b)
      /\ Calls(model, "column_backward", comm[r]) /\ Keeps(model, saved[r])
      /\ BackValues(model, r, "column_backward", hidden[r], branch[r], saved[r], buffer[r], comm[r], out[r])
      /\ grads[r] = Gradients(model, r, "column_backward", b)
  BY <1>1, BackLabels, OfBackRank
<1>3. b \in 1 .. n /\ n \in Nat /\ n >= 3
  BY <1>2, BackLabels, BackPlaces, LegalFacts
<1>4. /\ KindAt(model, "column_backward") = "none"
      /\ KindAt(model, "grad_input") = IF model.sequence_parallel THEN "all_gather_mpu" ELSE "none"
  BY DEF KindAt
<1>5. comm[r] = [kind |-> "none"] BY <1>2, <1>4, NothingLaunched
<1>6. Becomes(r, "grad_input", b, hidden[r], branch[r], saved[r], buffer[r], m, o, grads[r])
  <2>1. /\ model' = model /\ pc' = [pc EXCEPT ![r] = "grad_input"] /\ block' = [block EXCEPT ![r] = b]
        /\ hidden' = [hidden EXCEPT ![r] = hidden[r]] /\ branch' = [branch EXCEPT ![r] = branch[r]]
        /\ saved' = [saved EXCEPT ![r] = saved[r]] /\ buffer' = [buffer EXCEPT ![r] = buffer[r]]
        /\ grads' = [grads EXCEPT ![r] = grads[r]]
    BY OfRank DEF ColumnBackward, Goto
  <2>2. comm' = [comm EXCEPT ![r] = m] /\ out' = [out EXCEPT ![r] = o]
    <3>1. CASE model.sequence_parallel BY <3>1 DEF ColumnBackward, Launch
    <3>2. CASE ~model.sequence_parallel BY <3>2, OfRank DEF ColumnBackward, NoLaunch
    <3> QED BY <3>1, <3>2
  <2> HIDE DEF m, o
  <2> QED BY <2>1, <2>2 DEF Becomes
<1>7. x = Complete(model, Part(model, r)) BY <1>2, <1>3 DEF BackValues
<1>8. /\ model.sequence_parallel => m = [kind |-> "all_gather_mpu", tensor |-> x]
      /\ ~model.sequence_parallel => m = [kind |-> "none"]
  BY <1>5
<1> HIDE DEF m, o, x
<1>9. BackValues(model, r, "grad_input", hidden[r], branch[r], saved[r], buffer[r], m, o)
  <2>1. m.kind # "none" => Given(model, r, "grad_input", m) BY <1>7, <1>8 DEF Given
  <2>2. ~(KindAt(model, "grad_input") # "none" /\ m.kind = "none") BY <1>4, <1>8
  <2> QED BY <1>2, <2>1, <2>2, BackLabels DEF BackValues
<1>10. grads[r] = Gradients(model, r, "grad_input", b)
  <2>1. ASSUME NEW p \in ParamsOf(model)
        PROVE  Accumulates(model, "grad_input", b, p) <=> Accumulates(model, "column_backward", b, p)
    <3>1. p[1] \in 0 .. n /\ p[2] \in {"norm", "column", "row", "bias", "word", "position"}
      BY ParamFacts
    <3> HIDE DEF b
    <3> QED BY <1>3, <3>1, BackLabels DEF Accumulates
  <2> QED BY <1>2, <2>1, GradientsStay
<1>11. Place(model, "grad_input", b) BY <1>2, <1>3, BackLabels, BackPlaces
<1>12. Calls(model, "grad_input", m) BY <1>4, <1>8 DEF Calls
<1>13. Clock(model, "grad_input", b, m) = Clock(model, pc[r], b, comm[r])
  <2>1. Before(model, "grad_input", b) = Before(model, "column_backward", b)
    BY <1>2, BackLabels, BackPlaces
  <2> QED BY <1>1, <1>4, <1>8, <2>1 DEF Clock
<1> HIDE DEF b, n
<1> QED BY <1>1, <1>2, <1>6, <1>9, <1>10, <1>11, <1>12, <1>13, BackLabels, BackStep DEF b

\* It computes the gradient of the input, and starts to reduce it.
LEMMA GradInputStep ==
  ASSUME TPInv, NEW r \in GroupOf(model), GradInput(r)
  PROVE  TPInv'
<1> DEFINE b == block[r]
           n == LastBlock(model)
           x == Shares(branch[r], r)
           async == model.async_tensor_model_parallel_allreduce
           m == IF async THEN [kind |-> "all_reduce", tensor |-> x]
                ELSE IF model.sequence_parallel THEN [kind |-> "reduce_scatter", tensor |-> x] ELSE comm[r]
           o == IF async THEN x ELSE IF model.sequence_parallel THEN <<>> ELSE out[r]
<1>1. pc[r] = "grad_input" /\ (model.sequence_parallel => comm[r].kind = "none")
  BY DEF GradInput, At, Over
<1>2. /\ Legal(model) /\ Agreed(model) /\ Place(model, "grad_input", b)
      /\ Calls(model, "grad_input", comm[r]) /\ Keeps(model, saved[r])
      /\ BackValues(model, r, "grad_input", hidden[r], branch[r], saved[r], buffer[r], comm[r], out[r])
      /\ grads[r] = Gradients(model, r, "grad_input", b)
  BY <1>1, BackLabels, OfBackRank
<1>3. b \in 1 .. n /\ n \in Nat /\ n >= 3 /\ async \in BOOLEAN /\ model.sequence_parallel \in BOOLEAN
  BY <1>2, BackLabels, BackPlaces, LegalFacts
<1>4. /\ KindAt(model, "grad_input") = IF model.sequence_parallel THEN "all_gather_mpu" ELSE "none"
      /\ KindAt(model, "grad_weight") = IF model.sequence_parallel THEN "reduce_scatter"
                                       ELSE IF async THEN "all_reduce" ELSE "none"
  BY DEF KindAt
<1>5. comm[r] = [kind |-> "none"] /\ (model.sequence_parallel => ~async)
  BY <1>1, <1>2, <1>4, NothingLaunched DEF Legal
<1>6. Becomes(r, "grad_weight", b, hidden[r], branch[r], saved[r], buffer[r], m, o, grads[r])
  <2>1. /\ model' = model /\ pc' = [pc EXCEPT ![r] = "grad_weight"] /\ block' = [block EXCEPT ![r] = b]
        /\ hidden' = [hidden EXCEPT ![r] = hidden[r]] /\ branch' = [branch EXCEPT ![r] = branch[r]]
        /\ saved' = [saved EXCEPT ![r] = saved[r]] /\ buffer' = [buffer EXCEPT ![r] = buffer[r]]
        /\ grads' = [grads EXCEPT ![r] = grads[r]]
    BY OfRank DEF GradInput, Goto
  <2>2. comm' = [comm EXCEPT ![r] = m] /\ out' = [out EXCEPT ![r] = o]
    <3>1. CASE async
      <4>1. ~model.sequence_parallel BY <1>5, <3>1
      <4> QED BY <3>1, <4>1 DEF GradInput, Launch
    <3>2. CASE model.sequence_parallel /\ ~async BY <3>2 DEF GradInput, Launch
    <3>3. CASE ~model.sequence_parallel /\ ~async
      BY <3>3, OfRank DEF GradInput, NoLaunch
    <3> QED BY <1>3, <3>1, <3>2, <3>3
  <2> HIDE DEF m, o
  <2> QED BY <2>1, <2>2 DEF Becomes
<1>7. x = SharesOf(model, r, Sequence(model))
  <2>1. branch[r] = Sequence(model) BY <1>2, BackLabels DEF BackValues
  <2> QED BY <1>2, <2>1, ModelFacts
<1>8. /\ async => m = [kind |-> "all_reduce", tensor |-> x]
      /\ model.sequence_parallel => m = [kind |-> "reduce_scatter", tensor |-> x]
      /\ ~model.sequence_parallel /\ ~async => m = [kind |-> "none"]
  BY <1>5
<1> HIDE DEF m, o, x
<1>9. BackValues(model, r, "grad_weight", hidden[r], branch[r], saved[r], buffer[r], m, o)
  <2>1. m.kind # "none" => Given(model, r, "grad_weight", m)
    BY <1>3, <1>7, <1>8 DEF Given
  <2>2. ~(KindAt(model, "grad_weight") # "none" /\ m.kind = "none") BY <1>4, <1>8
  <2>3. model.sequence_parallel => buffer[r] = Complete(model, Sequence(model))
    BY <1>1, <1>2, <1>4 DEF BackValues, Gotten
  <2> QED BY <1>2, <2>1, <2>2, <2>3, BackLabels DEF BackValues
<1>10. grads[r] = Gradients(model, r, "grad_weight", b)
  <2>1. ASSUME NEW p \in ParamsOf(model)
        PROVE  Accumulates(model, "grad_weight", b, p) <=> Accumulates(model, "grad_input", b, p)
    <3>1. p[1] \in 0 .. n /\ p[2] \in {"norm", "column", "row", "bias", "word", "position"}
      BY ParamFacts
    <3> HIDE DEF b
    <3> QED BY <1>3, <3>1, BackLabels DEF Accumulates
  <2> QED BY <1>2, <2>1, GradientsStay
<1>11. Place(model, "grad_weight", b) BY <1>2, <1>3, BackLabels, BackPlaces
<1>12. Calls(model, "grad_weight", m) BY <1>3, <1>4, <1>5, <1>8 DEF Calls
<1>13. Clock(model, "grad_weight", b, m) = Clock(model, pc[r], b, comm[r])
  <2>1. /\ model.sequence_parallel => /\ Before(model, "grad_input", b) = 5 * n - 3 * b + 1
                                      /\ Before(model, "grad_weight", b) = 5 * n - 3 * b + 2
        /\ ~model.sequence_parallel => Before(model, "grad_weight", b) = Before(model, "grad_input", b)
    BY <1>2, BackLabels, BackPlaces
  <2> HIDE DEF b, n
  <2>2. CASE model.sequence_parallel BY <1>1, <1>3, <1>4, <1>8, <2>1, <2>2 DEF Clock
  <2>3. CASE ~model.sequence_parallel
    BY <1>1, <1>3, <1>4, <1>8, <2>1, <2>3 DEF Clock
  <2> QED BY <2>2, <2>3
<1> HIDE DEF b, n
<1> QED BY <1>1, <1>2, <1>6, <1>9, <1>10, <1>11, <1>12, <1>13, BackLabels, BackStep DEF b

\* It takes the gradient of the weight while that reduction may still run.
LEMMA GradWeightStep ==
  ASSUME TPInv, NEW r \in GroupOf(model), GradWeight(r)
  PROVE  TPInv'
<1> DEFINE b == block[r]
           n == LastBlock(model)
           overlaps == model.sequence_parallel \/ model.async_tensor_model_parallel_allreduce
           x == Shares(branch[r], r)
           y == Matched(branch[r], TokensOf(TotalInput(r)))
           m == IF overlaps THEN comm[r] ELSE [kind |-> "all_reduce", tensor |-> x]
           o == IF overlaps THEN out[r] ELSE x
           g == Accumulated(r, b, "column", y)
<1>1. pc[r] = "grad_weight" BY DEF GradWeight, At
<1>2. /\ Legal(model) /\ Agreed(model) /\ Place(model, "grad_weight", b)
      /\ Calls(model, "grad_weight", comm[r]) /\ Keeps(model, saved[r])
      /\ BackValues(model, r, "grad_weight", hidden[r], branch[r], saved[r], buffer[r], comm[r], out[r])
      /\ grads[r] = Gradients(model, r, "grad_weight", b)
  BY <1>1, BackLabels, OfBackRank
<1>3. /\ b \in 1 .. n /\ n \in Nat /\ n >= 3 /\ model.sequence_parallel \in BOOLEAN
      /\ model.async_tensor_model_parallel_allreduce \in BOOLEAN
  BY <1>2, BackLabels, BackPlaces, LegalFacts
<1>4. /\ KindAt(model, "grad_weight") = IF model.sequence_parallel THEN "reduce_scatter"
                                       ELSE IF overlaps THEN "all_reduce" ELSE "none"
      /\ KindAt(model, "norm_backward") = IF model.sequence_parallel THEN "reduce_scatter" ELSE "all_reduce"
  BY DEF KindAt
<1>5. ~overlaps => comm[r] = [kind |-> "none"] BY <1>2, <1>4, NothingLaunched
<1>6. Becomes(r, "norm_backward", b, hidden[r], branch[r], saved[r], buffer[r], m, o, g)
  <2>1. /\ model' = model /\ pc' = [pc EXCEPT ![r] = "norm_backward"] /\ block' = [block EXCEPT ![r] = b]
        /\ hidden' = [hidden EXCEPT ![r] = hidden[r]] /\ branch' = [branch EXCEPT ![r] = branch[r]]
        /\ saved' = [saved EXCEPT ![r] = saved[r]] /\ buffer' = [buffer EXCEPT ![r] = buffer[r]]
        /\ grads' = [grads EXCEPT ![r] = g]
    BY OfRank DEF GradWeight, Goto
  <2>2. comm' = [comm EXCEPT ![r] = m] /\ out' = [out EXCEPT ![r] = o]
    <3>1. CASE overlaps BY <3>1, OfRank DEF GradWeight, NoLaunch
    <3>2. CASE ~overlaps BY <3>2 DEF GradWeight, Launch
    <3> QED BY <3>1, <3>2
  <2> HIDE DEF m, o, g
  <2> QED BY <2>1, <2>2 DEF Becomes
<1>7. branch[r] = Sequence(model) BY <1>2, BackLabels DEF BackValues
<1>8. x = SharesOf(model, r, Sequence(model)) BY <1>2, <1>7, ModelFacts
<1>9. y = Sequence(model)
  <2>1. TotalInput(r) = Complete(model, Sequence(model))
    <3>1. CASE model.sequence_parallel BY <1>2, <3>1 DEF TotalInput, BackValues
    <3>2. CASE ~model.sequence_parallel
      BY <1>2, <1>3, <3>2 DEF TotalInput, BackValues, Part
    <3> QED BY <3>1, <3>2
  <2>2. TokensOf(TotalInput(r)) = Sequence(model)
    BY <1>2, <2>1, SequenceTokens, TokensOfComplete
  <2> QED BY <1>7, <2>2, MatchedSame DEF Sequence
<1>10. g = Gradients(model, r, "norm_backward", b)
  <2> DEFINE q == <<b, "column">>
  <2>1. q \in ParamsOf(model) BY <1>3 DEF ParamsOf
  <2>2. ~Accumulates(model, "grad_weight", b, q) BY <1>3, BackLabels DEF Accumulates
  <2>3. Fresh(r, q) BY <1>2, <2>1, <2>2, GradientsType DEF Fresh
  <2>4. g = [grads[r] EXCEPT ![q] = Ones(model)]
    <3> HIDE DEF b
    <3>1. Accumulated(r, b, "column", Sequence(model)) = [grads[r] EXCEPT ![<<b, "column">>] = Ones(model)]
      BY <1>2, <2>1, <2>3, AccumulatedTokens
    <3> QED BY <1>9, <3>1
  <2>5. ASSUME NEW p \in ParamsOf(model)
        PROVE  Accumulates(model, "norm_backward", b, p) <=> Accumulates(model, "grad_weight", b, p) \/ p = q
    <3>1. /\ p[1] \in 0 .. n /\ p[2] \in {"norm", "column", "row", "bias", "word", "position"}
          /\ p = q <=> p[1] = b /\ p[2] = "column"
      BY ParamFacts
    <3> HIDE DEF q, b
    <3>2. b \in Nat /\ b > 0 /\ p[1] \in Nat BY <1>3, <3>1
    <3>3. CASE p[2] = "column"
      <4>1. Accumulates(model, "norm_backward", b, p) <=> p[1] > 0 /\ (p[1] > b \/ p[1] = b)
        BY <3>3, BackLabels DEF Accumulates
      <4>2. Accumulates(model, "grad_weight", b, p) <=> p[1] > 0 /\ p[1] > b
        BY <3>3, BackLabels DEF Accumulates
      <4> QED BY <3>1, <3>2, <3>3, <4>1, <4>2
    <3>4. CASE p[2] # "column" BY <3>1, <3>4, BackLabels DEF Accumulates
    <3> QED BY <3>3, <3>4
  <2>6. Value(model, r, q) = Ones(model) BY DEF Value
  <2> HIDE DEF q, g
  <2> QED BY <1>2, <2>1, <2>4, <2>5, <2>6, GradientsStep
<1>11. /\ overlaps => m = comm[r] /\ o = out[r]
       /\ ~overlaps => m = [kind |-> "all_reduce", tensor |-> x]
  OBVIOUS
<1> HIDE DEF m, o, x, y, g
<1>12. BackValues(model, r, "norm_backward", hidden[r], branch[r], saved[r], buffer[r], m, o)
  <2>1. m.kind # "none" => Given(model, r, "norm_backward", m)
    <3>1. CASE overlaps
      <4> HIDE DEF overlaps
      <4> QED BY <1>2, <1>11, <3>1 DEF BackValues, Given
    <3>2. CASE ~overlaps
      <4> HIDE DEF overlaps
      <4> QED BY <1>8, <1>11, <3>2 DEF Given
    <3> QED BY <3>1, <3>2
  <2>2. KindAt(model, "norm_backward") # "none" /\ m.kind = "none" => Gotten(model, r, "norm_backward", buffer[r], o)
    <3>1. CASE overlaps
      <4>1. KindAt(model, "grad_weight") # "none" BY <1>4, <3>1
      <4> HIDE DEF overlaps
      <4> QED BY <1>2, <1>11, <3>1, <4>1 DEF BackValues, Gotten
    <3>2. CASE ~overlaps
      <4> HIDE DEF overlaps
      <4> QED BY <1>11, <3>2
    <3> QED BY <3>1, <3>2
  <2> QED BY <1>2, <1>7, <2>1, <2>2 DEF BackValues
<1>13. Place(model, "norm_backward", b) BY <1>2, <1>3, BackLabels, BackPlaces
<1>14. Calls(model, "norm_backward", m)
  <2>1. CASE overlaps
    <3>1. KindAt(model, "norm_backward") = KindAt(model, "grad_weight")
      BY <1>4, <2>1
    <3> HIDE DEF overlaps
    <3> QED BY <1>2, <1>11, <2>1, <3>1 DEF Calls
  <2>2. CASE ~overlaps
    <3>1. KindAt(model, "norm_backward") = "all_reduce" BY <1>4, <2>2
    <3> HIDE DEF overlaps
    <3> QED BY <1>11, <2>2, <3>1 DEF Calls
  <2> QED BY <2>1, <2>2
<1>15. Clock(model, "norm_backward", b, m) = Clock(model, pc[r], b, comm[r])
  <2>1. Before(model, "norm_backward", b) = Before(model, "grad_weight", b)
    BY <1>2, BackLabels, BackPlaces
  <2>2. CASE overlaps
    <3>1. KindAt(model, "norm_backward") = KindAt(model, "grad_weight")
      BY <1>4, <2>2
    <3> HIDE DEF overlaps
    <3> QED BY <1>1, <1>11, <2>1, <2>2, <3>1 DEF Clock
  <2>3. CASE ~overlaps
    <3>1. KindAt(model, "grad_weight") = "none" BY <1>4, <2>3
    <3> HIDE DEF overlaps
    <3> QED BY <1>1, <1>11, <2>1, <2>3, <3>1 DEF Clock
  <2> QED BY <2>2, <2>3
<1> HIDE DEF b, n
<1> QED BY <1>1, <1>2, <1>6, <1>10, <1>12, <1>13, <1>14, <1>15, BackLabels, BackStep DEF b

\* The norm's backward takes the reduced gradient and adds the residual's.
LEMMA NormBackwardStep ==
  ASSUME TPInv, NEW r \in GroupOf(model), NormBackward(r)
  PROVE  TPInv'
<1> DEFINE b == block[r]
           n == LastBlock(model)
           g == Accumulated(r, b, "norm", TokensOf(out[r]))
           h == IF b = Logits THEN out[r] ELSE Sum2(hidden[r], out[r])
           l == IF b = 1 THEN "scatter_backward" ELSE "row_backward"
<1>1. pc[r] = "norm_backward" /\ comm[r].kind = "none" BY DEF NormBackward, At, Over
<1>2. /\ Legal(model) /\ Agreed(model) /\ Place(model, "norm_backward", b)
      /\ Calls(model, "norm_backward", comm[r]) /\ Keeps(model, saved[r])
      /\ BackValues(model, r, "norm_backward", hidden[r], branch[r], saved[r], buffer[r], comm[r], out[r])
      /\ grads[r] = Gradients(model, r, "norm_backward", b)
  BY <1>1, BackLabels, OfBackRank
<1>3. b \in 1 .. n /\ n \in Nat /\ n >= 3
  BY <1>2, BackLabels, BackPlaces, LegalFacts
<1>4. /\ KindAt(model, "norm_backward") = IF model.sequence_parallel THEN "reduce_scatter" ELSE "all_reduce"
      /\ KindAt(model, l) = "none"
  BY DEF KindAt
<1>5. comm[r] = [kind |-> "none"] BY <1>1, <1>2, NothingLaunched
<1>6. Becomes(r, l, b - 1, h, branch[r], saved[r], buffer[r], comm[r], out[r], g)
  <2>1. DOMAIN hidden = GroupOf(model) /\ DOMAIN block = GroupOf(model)
    BY DEF TPInv, PerRank
  <2>2. hidden' = [hidden EXCEPT ![r] = h] /\ block' = [block EXCEPT ![r] = b - 1]
    BY <2>1 DEF NormBackward
  <2>3. /\ model' = model /\ pc' = [pc EXCEPT ![r] = l] /\ branch' = [branch EXCEPT ![r] = branch[r]]
        /\ saved' = [saved EXCEPT ![r] = saved[r]] /\ buffer' = [buffer EXCEPT ![r] = buffer[r]]
        /\ comm' = [comm EXCEPT ![r] = comm[r]] /\ out' = [out EXCEPT ![r] = out[r]]
        /\ grads' = [grads EXCEPT ![r] = g]
    BY OfRank DEF NormBackward, Goto
  <2> HIDE DEF h, l, g
  <2> QED BY <2>2, <2>3 DEF Becomes
<1>7. out[r] = Complete(model, Part(model, r)) /\ hidden[r] = Complete(model, Part(model, r))
  BY <1>1, <1>2, <1>4 DEF BackValues, Gotten
<1>8. h = Complete(model, Part(model, r)) BY <1>7, SumOfComplete
<1>9. l \in {"scatter_backward", "row_backward"} /\ l \in Back /\ l \notin ColumnBack /\ l # "grad_weight"
      /\ l \notin Final /\ l # "done"
  BY BackLabels
<1>10. g = Gradients(model, r, l, b - 1)
  <2> DEFINE q == <<b, "norm">>
  <2>1. q \in ParamsOf(model) BY <1>3 DEF ParamsOf
  <2>2. ~Accumulates(model, "norm_backward", b, q)
    BY <1>3, BackLabels DEF Accumulates
  <2>3. Fresh(r, q) BY <1>2, <2>1, <2>2, GradientsType DEF Fresh
  <2>4. g = [grads[r] EXCEPT ![q] = OnPart(model, r)]
    <3> HIDE DEF b
    <3>1. Accumulated(r, b, "norm", Part(model, r)) = [grads[r] EXCEPT ![<<b, "norm">>] = OnPart(model, r)]
      BY <1>2, <2>1, <2>3, AccumulatedTokens
    <3>2. TokensOf(out[r]) = Part(model, r)
      BY <1>2, <1>7, PartTokens, TokensOfComplete
    <3> QED BY <3>1, <3>2
  <2>5. ASSUME NEW p \in ParamsOf(model)
        PROVE  Accumulates(model, l, b - 1, p) <=> Accumulates(model, "norm_backward", b, p) \/ p = q
    <3>1. /\ p[1] \in 0 .. n /\ p[2] \in {"norm", "column", "row", "bias", "word", "position"}
          /\ p = q <=> p[1] = b /\ p[2] = "norm"
      BY ParamFacts
    <3>2. b \in Nat /\ p[1] \in Nat /\ (p[1] > b - 1 <=> p[1] > b \/ p[1] = b)
      BY <1>3, <3>1
    <3> HIDE DEF q, b, l, n
    <3>3. CASE p[2] = "norm" BY <1>9, <3>1, <3>2, <3>3, BackLabels DEF Accumulates
    <3>4. CASE p[2] = "column" BY <1>9, <3>1, <3>2, <3>4, BackLabels DEF Accumulates
    <3>5. CASE p[2] = "row"
      <4>1. l \in Back /\ l \notin ColumnBack /\ "norm_backward" \in Back /\ "norm_backward" \in ColumnBack
        BY <1>9, BackLabels
      <4> QED BY <3>1, <3>2, <3>5, <4>1 DEF Accumulates
    <3>6. CASE p[2] = "bias"
      <4>1. /\ l \in Back /\ l \notin ColumnBack \cup {"row_grads"} /\ "norm_backward" \in Back
            /\ "norm_backward" \in ColumnBack
        BY <1>9, BackLabels
      <4> QED BY <3>1, <3>2, <3>6, <4>1 DEF Accumulates
    <3>7. CASE p[2] \in {"word", "position"}
      BY <1>9, <3>1, <3>7, BackLabels DEF Accumulates
    <3> QED BY <3>1, <3>3, <3>4, <3>5, <3>6, <3>7
  <2>6. Value(model, r, q) = OnPart(model, r) BY DEF Value
  <2> HIDE DEF q, g, l
  <2> QED BY <1>2, <1>9, <2>1, <2>4, <2>5, <2>6, GradientsStep
<1>11. BackValues(model, r, l, h, branch[r], saved[r], buffer[r], comm[r], out[r])
  <2> HIDE DEF h, l
  <2> QED BY <1>1, <1>2, <1>4, <1>8, <1>9 DEF BackValues
<1>12. Place(model, l, b - 1)
  <2>1. CASE b = 1 BY <1>2, <2>1, BackPlaces DEF FirstBack
  <2>2. CASE b # 1
    <3>1. b - 1 \in 1 .. n - 1 BY <1>3, <2>2
    <3> HIDE DEF b
    <3> QED BY <1>2, <2>2, <3>1, BackPlaces DEF RowBack
  <2> QED BY <2>1, <2>2
<1>13. Calls(model, l, comm[r]) BY <1>5 DEF Calls
<1>14. Clock(model, l, b - 1, comm[r]) = Clock(model, pc[r], b, comm[r])
  <2> HIDE DEF b, n, l
  <2>1. /\ model.sequence_parallel => /\ Before(model, "norm_backward", b) = 5 * n - 3 * b + 2
                                      /\ Before(model, l, b - 1) = 5 * n - 3 * (b - 1)
        /\ ~model.sequence_parallel => /\ Before(model, "norm_backward", b) = 2 * n + 1 - b
                                       /\ Before(model, l, b - 1) = 2 * n + 1 - (b - 1)
    BY <1>2, <1>9, BackLabels, BackPlaces DEF n
  <2>2. Clock(model, l, b - 1, comm[r]) = Before(model, l, b - 1) + 0
    BY <1>4 DEF Clock
  <2>3. Clock(model, pc[r], b, comm[r]) = Before(model, "norm_backward", b) + 1
    BY <1>1, <1>4 DEF Clock
  <2>4. CASE model.sequence_parallel
    <3>1. 5 * n - 3 * (b - 1) + 0 = (5 * n - 3 * b + 2) + 1 BY <1>3
    <3> QED BY <2>1, <2>2, <2>3, <2>4, <3>1
  <2>5. CASE ~model.sequence_parallel
    <3>1. 2 * n + 1 - (b - 1) + 0 = (2 * n + 1 - b) + 1 BY <1>3
    <3> QED BY <2>1, <2>2, <2>3, <2>5, <3>1
  <2> QED BY <2>4, <2>5
<1> HIDE DEF b, n, g, h, l
<1> QED BY <1>1, <1>2, <1>6, <1>9, <1>10, <1>11, <1>12, <1>13, <1>14, BackLabels, BackStep DEF b

\* The backward pass of the scatter gathers the gradients of the tokens.
LEMMA ScatterBackwardStep ==
  ASSUME TPInv, NEW r \in GroupOf(model), ScatterBackward(r)
  PROVE  TPInv'
<1> DEFINE b == block[r]
           n == LastBlock(model)
           m == IF model.sequence_parallel THEN [kind |-> "all_gather", tensor |-> hidden[r]] ELSE comm[r]
           o == IF model.sequence_parallel THEN <<>> ELSE out[r]
<1>1. pc[r] = "scatter_backward" BY DEF ScatterBackward, At
<1>2. /\ Legal(model) /\ Agreed(model) /\ Place(model, "scatter_backward", b)
      /\ Calls(model, "scatter_backward", comm[r]) /\ Keeps(model, saved[r])
      /\ BackValues(model, r, "scatter_backward", hidden[r], branch[r], saved[r], buffer[r], comm[r], out[r])
      /\ grads[r] = Gradients(model, r, "scatter_backward", b)
  BY <1>1, BackLabels, OfBackRank
<1>3. b = 0 /\ n \in Nat /\ n >= 3 BY <1>2, BackPlaces, LegalFacts DEF FirstBack
<1>4. /\ KindAt(model, "scatter_backward") = "none"
      /\ KindAt(model, "embedding_backward") = IF model.sequence_parallel THEN "all_gather" ELSE "none"
  BY DEF KindAt
<1>5. comm[r] = [kind |-> "none"] BY <1>2, <1>4, NothingLaunched
<1>6. Becomes(r, "embedding_backward", b, hidden[r], branch[r], saved[r], buffer[r], m, o, grads[r])
  <2>1. /\ model' = model /\ pc' = [pc EXCEPT ![r] = "embedding_backward"] /\ block' = [block EXCEPT ![r] = b]
        /\ hidden' = [hidden EXCEPT ![r] = hidden[r]] /\ branch' = [branch EXCEPT ![r] = branch[r]]
        /\ saved' = [saved EXCEPT ![r] = saved[r]] /\ buffer' = [buffer EXCEPT ![r] = buffer[r]]
        /\ grads' = [grads EXCEPT ![r] = grads[r]]
    BY OfRank DEF ScatterBackward, Goto
  <2>2. comm' = [comm EXCEPT ![r] = m] /\ out' = [out EXCEPT ![r] = o]
    <3>1. CASE model.sequence_parallel BY <3>1 DEF ScatterBackward, Launch
    <3>2. CASE ~model.sequence_parallel
      BY <3>2, OfRank DEF ScatterBackward, NoLaunch
    <3> QED BY <3>1, <3>2
  <2> HIDE DEF m, o
  <2> QED BY <2>1, <2>2 DEF Becomes
<1>7. hidden[r] = Complete(model, Part(model, r)) BY <1>2 DEF BackValues
<1>8. /\ model.sequence_parallel => m = [kind |-> "all_gather", tensor |-> hidden[r]]
      /\ ~model.sequence_parallel => m = [kind |-> "none"]
  BY <1>5
<1> HIDE DEF m, o
<1>9. BackValues(model, r, "embedding_backward", hidden[r], branch[r], saved[r], buffer[r], m, o)
  <2>1. m.kind # "none" => Given(model, r, "embedding_backward", m)
    BY <1>7, <1>8 DEF Given
  <2>2. ~(KindAt(model, "embedding_backward") # "none" /\ m.kind = "none")
    BY <1>4, <1>8
  <2> QED BY <1>2, <2>1, <2>2, BackLabels DEF BackValues
<1>10. grads[r] = Gradients(model, r, "embedding_backward", b)
  <2>1. ASSUME NEW p \in ParamsOf(model)
        PROVE  Accumulates(model, "embedding_backward", b, p) <=> Accumulates(model, "scatter_backward", b, p)
    <3>1. p[1] \in 0 .. n /\ p[2] \in {"norm", "column", "row", "bias", "word", "position"}
      BY ParamFacts
    <3> HIDE DEF b
    <3> QED BY <1>3, <3>1, BackLabels DEF Accumulates
  <2> QED BY <1>2, <2>1, GradientsStay
<1>11. Place(model, "embedding_backward", b) BY <1>2, <1>3, BackPlaces DEF FirstBack
<1>12. Calls(model, "embedding_backward", m) BY <1>4, <1>8 DEF Calls
<1>13. Clock(model, "embedding_backward", b, m) = Clock(model, pc[r], b, comm[r])
  <2>1. Before(model, "embedding_backward", b) = Before(model, "scatter_backward", b)
    BY <1>2, BackLabels, BackPlaces
  <2> QED BY <1>1, <1>4, <1>8, <2>1 DEF Clock
<1> HIDE DEF b, n
<1> QED BY <1>1, <1>2, <1>6, <1>9, <1>10, <1>11, <1>12, <1>13, BackLabels, BackStep DEF b

\* The embeddings take their gradients.
LEMMA EmbeddingBackwardStep ==
  ASSUME TPInv, NEW r \in GroupOf(model), EmbeddingBackward(r)
  PROVE  TPInv'
<1> DEFINE x == Matched(TokensOf(IF model.sequence_parallel THEN out[r] ELSE hidden[r]), Batch(r))
           y == IF model.add_position_embedding THEN x ELSE <<>>
           q1 == <<0, "word">>
           q2 == <<0, "position">>
           g == [Accumulated(r, 0, "word", x) EXCEPT ![q2] = Accumulated(r, 0, "position", y)[q2]]
           l == "reduce_model_grads"
           l1 == "embedding_backward"
<1>1. pc[r] = l1 /\ comm[r].kind = "none" BY DEF EmbeddingBackward, At, Over
<1>2. /\ Legal(model) /\ Agreed(model) /\ Place(model, l1, block[r]) /\ Calls(model, l1, comm[r])
      /\ Keeps(model, saved[r])
      /\ BackValues(model, r, l1, hidden[r], branch[r], saved[r], buffer[r], comm[r], out[r])
      /\ grads[r] = Gradients(model, r, l1, block[r])
  BY <1>1, BackLabels, OfBackRank
<1>3. block[r] = 0 /\ LastBlock(model) \in Nat /\ LastBlock(model) >= 3 /\ model.add_position_embedding \in BOOLEAN
  BY <1>2, BackPlaces, LegalFacts DEF FirstBack
<1>4. KindAt(model, l1) = (IF model.sequence_parallel THEN "all_gather" ELSE "none") /\ KindAt(model, l) = "none"
  BY DEF KindAt
<1>5. comm[r] = [kind |-> "none"] BY <1>1, <1>2, NothingLaunched
<1>6. Becomes(r, l, 0, hidden[r], branch[r], saved[r], buffer[r], comm[r], out[r], g)
  <2>1. DOMAIN grads = GroupOf(model) BY DEF TPInv, PerRank
  <2>2. grads' = [[grads EXCEPT ![r] = Accumulated(r, 0, "word", x)] EXCEPT
                    ![r][q2] = Accumulated(r, 0, "position", y)[q2]]
    BY DEF EmbeddingBackward
  <2>3. grads' = [grads EXCEPT ![r] = g]
    <3> DEFINE A == Accumulated(r, 0, "word", x)
               B == Accumulated(r, 0, "position", y)[q2]
    <3>1. grads' = [[grads EXCEPT ![r] = A] EXCEPT ![r] = [[grads EXCEPT ![r] = A][r] EXCEPT ![q2] = B]]
      BY <2>2
    <3>2. [grads EXCEPT ![r] = A][r] = A BY <2>1
    <3> HIDE DEF A, B, q2
    <3>3. grads' = [grads EXCEPT ![r] = [A EXCEPT ![q2] = B]] BY <2>1, <3>1, <3>2
    <3> QED BY <3>3 DEF A, B
  <2>4. /\ model' = model /\ pc' = [pc EXCEPT ![r] = l] /\ block' = [block EXCEPT ![r] = 0]
        /\ hidden' = [hidden EXCEPT ![r] = hidden[r]] /\ branch' = [branch EXCEPT ![r] = branch[r]]
        /\ saved' = [saved EXCEPT ![r] = saved[r]] /\ buffer' = [buffer EXCEPT ![r] = buffer[r]]
        /\ comm' = [comm EXCEPT ![r] = comm[r]] /\ out' = [out EXCEPT ![r] = out[r]]
    BY <1>3, OfRank DEF EmbeddingBackward, Goto
  <2> HIDE DEF g
  <2> QED BY <2>3, <2>4 DEF Becomes
<1>7. x = Sequence(model)
  <2>1. (IF model.sequence_parallel THEN out[r] ELSE hidden[r]) = Complete(model, Sequence(model))
    <3>1. CASE model.sequence_parallel
      BY <1>1, <1>2, <1>4, <3>1 DEF BackValues, Gotten
    <3>2. CASE ~model.sequence_parallel BY <1>2, <3>2 DEF BackValues, Part
    <3> QED BY <3>1, <3>2
  <2>2. Batch(r) = Sequence(model) BY <1>2, BatchFacts
  <2>3. TokensOf(Complete(model, Sequence(model))) = Sequence(model)
    BY <1>2, SequenceTokens, TokensOfComplete
  <2> QED BY <2>1, <2>2, <2>3, MatchedSame DEF Sequence
<1>8. g = Gradients(model, r, l, 0)
  <2>1. q1 \in ParamsOf(model) /\ q2 \in ParamsOf(model) /\ q1 # q2
    BY <1>3 DEF ParamsOf
  <2>2. ~Accumulates(model, l1, block[r], q1) /\ ~Accumulates(model, l1, block[r], q2)
    BY BackLabels DEF Accumulates
  <2>3. Fresh(r, q1) /\ Fresh(r, q2) BY <1>2, <2>1, <2>2, GradientsType DEF Fresh
  <2>4. Accumulated(r, 0, "word", x) = [grads[r] EXCEPT ![q1] = Ones(model)]
    BY SMTT(60), <1>2, <1>7, <2>1, <2>3, AccumulatedTokens
  <2>5. Accumulated(r, 0, "position", y)[q2] = IF model.add_position_embedding THEN Ones(model) ELSE Zeros(model)
    <3>1. /\ Accumulated(r, 0, "position", Sequence(model)) = [grads[r] EXCEPT ![q2] = Ones(model)]
          /\ Accumulated(r, 0, "position", <<>>) = grads[r]
      BY <1>2, <2>1, <2>3, AccumulatedTokens
    <3>2. CASE model.add_position_embedding
      <4>1. Accumulated(r, 0, "position", y) = [grads[r] EXCEPT ![q2] = Ones(model)]
        BY <1>7, <3>1, <3>2
      <4> QED BY <2>1, <2>3, <3>2, <4>1 DEF Fresh
    <3>3. CASE ~model.add_position_embedding
      <4>1. Accumulated(r, 0, "position", y) = grads[r] BY <3>1, <3>3
      <4> QED BY <2>3, <3>3, <4>1 DEF Fresh
    <3> QED BY <3>2, <3>3
  <2> DEFINE w == IF model.add_position_embedding THEN Ones(model) ELSE Zeros(model)
             G1 == Gradients(model, r, l1, block[r])
             G2 == Gradients(model, r, l, 0)
  <2>6. g = [[G1 EXCEPT ![q1] = Ones(model)] EXCEPT ![q2] = w]
    <3> HIDE DEF q1, q2, x, y
    <3> QED BY <1>2, <2>4, <2>5
  <2>7. ASSUME NEW p \in ParamsOf(model)
        PROVE  G2[p] = IF p = q2 THEN w ELSE IF p = q1 THEN Ones(model) ELSE G1[p]
    <3>1. /\ p[1] \in 0 .. LastBlock(model) /\ p[2] \in {"norm", "column", "row", "bias", "word", "position"}
          /\ p = q1 <=> p[1] = 0 /\ p[2] = "word"
          /\ p = q2 <=> p[1] = 0 /\ p[2] = "position"
      BY ParamFacts
    <3>2. Accumulates(model, l, 0, p) <=> \/ Accumulates(model, l1, block[r], p) \/ p = q1
                                          \/ p = q2 /\ model.add_position_embedding
      <4> HIDE DEF q1, q2
      <4>1. CASE p[2] \in {"word", "position"}
        BY <1>3, <3>1, <4>1, BackLabels DEF Accumulates
      <4>2. CASE p[2] \notin {"word", "position"}
        BY <1>3, <3>1, <4>2, BackLabels DEF Accumulates
      <4> QED BY <4>1, <4>2
    <3>3. /\ G2[p] = IF ~Accumulates(model, l, 0, p) THEN Zeros(model) ELSE Value(model, r, p)
          /\ G1[p] = IF ~Accumulates(model, l1, block[r], p) THEN Zeros(model) ELSE Value(model, r, p)
      BY DEF Gradients, Value
    <3>4. p = q1 \/ p = q2 => Value(model, r, p) = Ones(model) BY <3>1 DEF Value
    <3> HIDE DEF q1, q2, G1, G2
    <3> QED BY <2>1, <2>2, <3>2, <3>3, <3>4 DEF w
  <2>8. G1 = [p \in ParamsOf(model) |-> G1[p]] /\ G2 = [p \in ParamsOf(model) |-> G2[p]]
    BY GradientsType
  <2>9. [[G1 EXCEPT ![q1] = Ones(model)] EXCEPT ![q2] = w]
          = [p \in ParamsOf(model) |-> IF p = q2 THEN w ELSE IF p = q1 THEN Ones(model) ELSE G1[p]]
    <3> HIDE DEF w, q1, q2, G1, G2
    <3> QED BY <2>1, <2>8
  <2>10. G2 = [p \in ParamsOf(model) |-> IF p = q2 THEN w ELSE IF p = q1 THEN Ones(model) ELSE G1[p]]
    <3> HIDE DEF w, q1, q2, G1, G2
    <3> QED BY <2>7, <2>8
  <2> HIDE DEF g, w, q1, q2, G1
  <2> QED BY <2>6, <2>9, <2>10
<1> HIDE DEF g, x, y
<1>9. BackValues(model, r, l, hidden[r], branch[r], saved[r], buffer[r], comm[r], out[r])
  BY <1>1, <1>2, <1>4, BackLabels DEF BackValues
<1>10. Place(model, l, 0) /\ Calls(model, l, comm[r])
  BY <1>2, <1>5, BackPlaces DEF Calls, FirstBack, Final
<1>11. Clock(model, l, 0, comm[r]) = Clock(model, pc[r], block[r], comm[r])
  <2>1. /\ model.sequence_parallel => /\ Before(model, l1, 0) = 5 * LastBlock(model) - 3 * 0
                                      /\ Before(model, l, 0) = 5 * LastBlock(model) + 1
        /\ ~model.sequence_parallel => Before(model, l1, 0) = Before(model, l, 0)
    BY <1>2, BackLabels, BackPlaces
  <2> QED BY <1>1, <1>3, <1>4, <2>1 DEF Clock
<1> QED BY <1>1, <1>2, <1>6, <1>8, <1>9, <1>10, <1>11, BackLabels, BackStep

\* allreduce_layernorm_grads coalesces the gradients of replicated
\* parameters.
LEMMA ReduceModelGradsStep ==
  ASSUME TPInv, NEW r \in GroupOf(model), ReduceModelGrads(r)
  PROVE  TPInv'
<1> DEFINE n == Replicated(model)
           x == [i \in DOMAIN Coalesced |-> grads[r][Coalesced[i]]]
           m == IF Reduces THEN [kind |-> "all_reduce", tensor |-> x] ELSE comm[r]
           o == IF Reduces THEN x ELSE out[r]
           l == "reduce_model_grads"
<1>1. pc[r] = l BY DEF ReduceModelGrads, At
<1>2. /\ Legal(model) /\ Agreed(model) /\ Place(model, l, block[r]) /\ Calls(model, l, comm[r])
      /\ Keeps(model, saved[r])
      /\ BackValues(model, r, l, hidden[r], branch[r], saved[r], buffer[r], comm[r], out[r])
      /\ grads[r] = Gradients(model, r, l, block[r])
  BY <1>1, BackLabels, OfBackRank
<1>3. block[r] = 0 BY <1>2, BackPlaces DEF FirstBack, Final
<1>4. KindAt(model, l) = "none" /\ KindAt(model, "synced") = IF Reduces THEN "all_reduce" ELSE "none"
  BY DEF KindAt, Reduces
<1>5. comm[r] = [kind |-> "none"] BY <1>2, <1>4, NothingLaunched
<1>6. Becomes(r, "synced", 0, hidden[r], branch[r], saved[r], buffer[r], m, o, grads[r])
  <2>1. /\ model' = model /\ pc' = [pc EXCEPT ![r] = "synced"] /\ block' = [block EXCEPT ![r] = 0]
        /\ hidden' = [hidden EXCEPT ![r] = hidden[r]] /\ branch' = [branch EXCEPT ![r] = branch[r]]
        /\ saved' = [saved EXCEPT ![r] = saved[r]] /\ buffer' = [buffer EXCEPT ![r] = buffer[r]]
        /\ grads' = [grads EXCEPT ![r] = grads[r]]
    BY <1>3, OfRank DEF ReduceModelGrads, Goto
  <2>2. comm' = [comm EXCEPT ![r] = m] /\ out' = [out EXCEPT ![r] = o]
    <3>1. CASE Reduces
      <4>1. Launch(r, "all_reduce", x) BY <3>1 DEF ReduceModelGrads
      <4> HIDE DEF x
      <4> QED BY <3>1, <4>1 DEF Launch
    <3>2. CASE ~Reduces BY <3>2, OfRank DEF ReduceModelGrads, NoLaunch
    <3> QED BY <3>1, <3>2
  <2> HIDE DEF m, o
  <2> QED BY <2>1, <2>2 DEF Becomes
<1>7. x = Copies(n, OnPart(model, r))
  <2>1. ASSUME NEW i \in DOMAIN Coalesced
        PROVE  grads[r][Coalesced[i]] = OnPart(model, r)
    <3>1. /\ Coalesced[i] \in ParamsOf(model) /\ Coalesced[i][2] \in {"norm", "bias"}
          /\ Accumulates(model, l, block[r], Coalesced[i])
      BY <1>2, <1>3, CoalescedFacts
    <3> QED BY <1>2, <3>1 DEF Gradients
  <2>2. DOMAIN Coalesced = 1 .. n BY <1>2, CoalescedFacts
  <2> QED BY <2>1, <2>2 DEF Copies
<1>8. /\ Reduces => m = [kind |-> "all_reduce", tensor |-> x]
      /\ ~Reduces => m = [kind |-> "none"]
  BY <1>5
<1> HIDE DEF m, o, x
<1>9. BackValues(model, r, "synced", hidden[r], branch[r], saved[r], buffer[r], m, o)
  <2>1. m.kind # "none" => Given(model, r, "synced", m) BY <1>7, <1>8 DEF Given
  <2>2. ~(KindAt(model, "synced") # "none" /\ m.kind = "none") BY <1>4, <1>8
  <2> QED BY <1>2, <2>1, <2>2, BackLabels DEF BackValues
<1>10. grads[r] = Gradients(model, r, "synced", 0)
  <2>1. ASSUME NEW p \in ParamsOf(model)
        PROVE  Accumulates(model, "synced", 0, p) <=> Accumulates(model, l, block[r], p)
    <3>1. p[2] \in {"norm", "column", "row", "bias", "word", "position"}
      BY ParamFacts
    <3> QED BY <1>3, <3>1, BackLabels DEF Accumulates
  <2> QED BY <1>2, <2>1, GradientsStay
<1>11. Place(model, "synced", 0) /\ Calls(model, "synced", m)
  BY <1>2, <1>4, <1>8, BackPlaces DEF Calls, FirstBack, Final
<1>12. Clock(model, "synced", 0, m) = Clock(model, pc[r], block[r], comm[r])
  <2>1. Before(model, "synced", 0) = Before(model, l, 0)
    BY <1>2, BackLabels, BackPlaces
  <2> QED BY <1>1, <1>3, <1>4, <1>8, <2>1 DEF Clock
<1> QED BY <1>1, <1>2, <1>6, <1>9, <1>10, <1>11, <1>12, BackLabels, BackStep

\* The reduced gradients are copied back.
LEMMA SyncedStep ==
  ASSUME TPInv, NEW r \in GroupOf(model), Synced(r)
  PROVE  TPInv'
<1> DEFINE n == Replicated(model)
           isCoalesced(p) == \E i \in DOMAIN Coalesced : Coalesced[i] = p
           x == [p \in Params |-> IF isCoalesced(p)
                                  THEN out[r][CHOOSE i \in DOMAIN Coalesced : Coalesced[i] = p]
                                  ELSE grads[r][p]]
           g == IF Reduces THEN x ELSE grads[r]
<1>1. pc[r] = "synced" /\ comm[r].kind = "none" BY DEF Synced, At, Over
<1>2. /\ Legal(model) /\ Agreed(model) /\ Place(model, "synced", block[r]) /\ Calls(model, "synced", comm[r])
      /\ Keeps(model, saved[r])
      /\ BackValues(model, r, "synced", hidden[r], branch[r], saved[r], buffer[r], comm[r], out[r])
      /\ grads[r] = Gradients(model, r, "synced", block[r])
  BY <1>1, BackLabels, OfBackRank
<1>3. block[r] = 0 /\ LastBlock(model) \in Nat
  BY <1>2, BackPlaces, LegalFacts DEF FirstBack, Final
<1>4. KindAt(model, "done") = "none" /\ KindAt(model, "synced") = IF Reduces THEN "all_reduce" ELSE "none"
  BY DEF KindAt, Reduces
<1>5. comm[r] = [kind |-> "none"] BY <1>1, <1>2, NothingLaunched
<1>6. Becomes(r, "done", 0, hidden[r], branch[r], saved[r], buffer[r], comm[r], out[r], g)
  <2>1. /\ model' = model /\ pc' = [pc EXCEPT ![r] = "done"] /\ block' = [block EXCEPT ![r] = 0]
        /\ hidden' = [hidden EXCEPT ![r] = hidden[r]] /\ branch' = [branch EXCEPT ![r] = branch[r]]
        /\ saved' = [saved EXCEPT ![r] = saved[r]] /\ buffer' = [buffer EXCEPT ![r] = buffer[r]]
        /\ comm' = [comm EXCEPT ![r] = comm[r]] /\ out' = [out EXCEPT ![r] = out[r]]
    BY <1>3, OfRank DEF Synced, Goto
  <2>2. grads' = [grads EXCEPT ![r] = g]
    <3>1. CASE Reduces BY <3>1 DEF Synced
    <3>2. CASE ~Reduces BY <3>2, OfRank DEF Synced
    <3> QED BY <3>1, <3>2
  <2> HIDE DEF g
  <2> QED BY <2>1, <2>2 DEF Becomes
<1>7. ASSUME NEW p \in ParamsOf(model)
      PROVE  Accumulates(model, "done", 0, p) <=> Accumulates(model, "synced", 0, p)
  <2>1. p[2] \in {"norm", "column", "row", "bias", "word", "position"} BY ParamFacts
  <2> QED BY <2>1, BackLabels DEF Accumulates
<1>8. ASSUME NEW p \in ParamsOf(model)
      PROVE  Accumulates(model, "synced", 0, p) <=> Accumulates(model, "reduce_model_grads", 0, p)
  <2>1. p[2] \in {"norm", "column", "row", "bias", "word", "position"} BY ParamFacts
  <2> QED BY <2>1, BackLabels DEF Accumulates
<1>9. g = Gradients(model, r, "done", 0)
  <2> DEFINE G1 == Gradients(model, r, "synced", 0)
             G2 == Gradients(model, r, "done", 0)
  <2>1. ASSUME NEW p \in ParamsOf(model)
        PROVE  /\ G2[p] = IF ~Accumulates(model, "synced", 0, p) THEN Zeros(model)
                          ELSE IF model.deepspeed THEN Value(model, r, p) ELSE Ones(model)
               /\ G1[p] = IF ~Accumulates(model, "synced", 0, p) THEN Zeros(model) ELSE Value(model, r, p)
    BY <1>7 DEF Gradients, Value
  <2>2. G1 = [p \in ParamsOf(model) |-> G1[p]] /\ G2 = [p \in ParamsOf(model) |-> G2[p]]
    BY GradientsType
  <2>3. grads[r] = G1 /\ Params = ParamsOf(model) BY <1>2, <1>3, ModelFacts
  <2> HIDE DEF G1, G2
  <2>4. CASE ~Reduces
    <3>1. model.deepspeed \/ OnPart(model, r) = Ones(model)
      BY <1>2, <2>4, OnSequence DEF Reduces
    <3>2. model.deepspeed \/ \A p \in ParamsOf(model) : Value(model, r, p) = Ones(model)
      BY <3>1 DEF Value
    <3>3. \A p \in ParamsOf(model) : G1[p] = G2[p] BY <2>1, <3>2
    <3>4. G1 = G2 BY <2>2, <3>3
    <3> QED BY <2>3, <2>4, <3>4 DEF G2
  <2>5. CASE Reduces
    <3>1. out[r] = Copies(n, Ones(model)) /\ ~model.deepspeed
      BY <1>1, <1>2, <1>4, <2>5 DEF BackValues, Gotten, Reduces
    <3>2. ASSUME NEW p \in ParamsOf(model)
          PROVE  x[p] = G2[p]
      <4>1. x[p] = IF isCoalesced(p) THEN out[r][CHOOSE i \in DOMAIN Coalesced : Coalesced[i] = p] ELSE grads[r][p]
        BY <2>3
      <4>2. CASE isCoalesced(p)
        <5> DEFINE j == CHOOSE i \in DOMAIN Coalesced : Coalesced[i] = p
        <5>1. j \in DOMAIN Coalesced /\ Coalesced[j] = p BY <4>2
        <5> HIDE DEF j
        <5>2. j \in 1 .. n /\ Accumulates(model, "synced", 0, p)
          BY <1>2, <1>8, <5>1, CoalescedFacts
        <5>3. out[r][j] = Ones(model) BY <3>1, <5>2 DEF Copies
        <5>4. x[p] = out[r][j]
          <6> HIDE DEF x
          <6> QED BY <4>1, <4>2 DEF j
        <5> QED BY <2>1, <3>1, <5>2, <5>3, <5>4
      <4>3. CASE ~isCoalesced(p)
        <5>1. p[2] \in {"norm", "bias"} => ~Accumulates(model, "synced", 0, p)
          BY <1>2, <1>8, <4>3, CoalescedFacts
        <5>2. G1[p] = G2[p] BY <2>1, <5>1 DEF Value
        <5> HIDE DEF x, isCoalesced
        <5> QED BY <2>3, <4>1, <4>3, <5>2
      <4> QED BY <4>2, <4>3
    <3>3. x = [p \in ParamsOf(model) |-> x[p]] BY <2>3
    <3>4. x = G2
      <4> HIDE DEF x
      <4> QED BY <2>2, <3>2, <3>3
    <3> HIDE DEF x
    <3> QED BY <2>5, <3>4 DEF G2
  <2> QED BY <2>4, <2>5
<1> HIDE DEF g, x
<1>10. BackValues(model, r, "done", hidden[r], branch[r], saved[r], buffer[r], comm[r], out[r])
  BY <1>1, <1>2, <1>4, BackLabels DEF BackValues
<1>11. Place(model, "done", 0) /\ Calls(model, "done", comm[r])
  BY <1>2, <1>5, BackPlaces DEF Calls, FirstBack, Final
<1>12. Clock(model, "done", 0, comm[r]) = Clock(model, pc[r], block[r], comm[r])
  <2>1. /\ model.sequence_parallel => /\ Before(model, "synced", 0) = 5 * LastBlock(model) + 1
                                      /\ Before(model, "done", 0) =
                                           5 * LastBlock(model) + (IF model.deepspeed THEN 1 ELSE 2)
        /\ ~model.sequence_parallel => Before(model, "done", 0) = Before(model, "synced", 0)
    BY <1>2, BackLabels, BackPlaces
  <2>2. Reduces <=> model.sequence_parallel /\ ~model.deepspeed BY DEF Reduces
  <2> QED BY <1>1, <1>3, <1>4, <2>1, <2>2 DEF Clock
<1> QED BY <1>1, <1>2, <1>6, <1>9, <1>10, <1>11, <1>12, BackLabels, BackStep

-----------------------------------------------------------------------------
\* Forward steps.

\* The labels of the forward pass, where a rank is that is at them, and how
\* many collectives are over.
Passing == {"column", "row", "residual", "logits", "loss"}

\* The labels of the forward pass are those of no other part.
LEMMA PassingLabels ==
  /\ Passing \cap Early = {} /\ Passing \cap Back = {} /\ Passing \cap ColumnBack = {}
  /\ "error" \notin Early \cup Back /\ Early \cap Back = {}
BY DEF Passing, Early, Back, ColumnBack, RowBack, FirstBack, Final

\* The blocks of the forward pass, and the collectives that are over
\* there.
LEMMA PassingPlaces ==
  ASSUME NEW c, Legal(c), NEW b
  PROVE  /\ Place(c, "column", b) <=> b \in 1 .. LastBlock(c)
         /\ \A l \in {"row", "residual"} : Place(c, l, b) <=> b \in 1 .. LastBlock(c) - 1
         /\ \A l \in {"logits", "loss"} : Place(c, l, b) <=> b = LastBlock(c)
         /\ \A l \in Early : Place(c, l, b) <=> b = 0
         /\ ~c.sequence_parallel => \A l \in Passing \cup Early : Before(c, l, b) = b
         /\ c.sequence_parallel =>
              /\ \A l \in {"column", "row", "logits"} : Before(c, l, b) = 2 * b - 1
              /\ \A l \in {"residual", "loss"} : Before(c, l, b) = 2 * b
              /\ \A l \in Early : Before(c, l, b) = 0
              /\ Before(c, "error", b) = IF b = 0 THEN 1 ELSE 2 * b
<1>1. /\ Place(c, "column", b) <=> b \in 1 .. LastBlock(c)
      /\ \A l \in {"row", "residual"} : Place(c, l, b) <=> b \in 1 .. LastBlock(c) - 1
      /\ \A l \in {"logits", "loss"} : Place(c, l, b) <=> b = LastBlock(c)
      /\ \A l \in Early : Place(c, l, b) <=> b = 0
  BY DEF Place, Early, FirstBack, Final, ColumnBack, RowBack
<1>2. ~c.sequence_parallel => \A l \in Passing \cup Early : Before(c, l, b) = b
  BY PassingLabels DEF Before
<1>3. ASSUME c.sequence_parallel
      PROVE  /\ \A l \in {"column", "row", "logits"} : Before(c, l, b) = 2 * b - 1
             /\ \A l \in {"residual", "loss"} : Before(c, l, b) = 2 * b
             /\ \A l \in Early : Before(c, l, b) = 0
             /\ Before(c, "error", b) = IF b = 0 THEN 1 ELSE 2 * b
  BY <1>3 DEF Before, Early, RowBack
<1> QED BY <1>1, <1>2, <1>3

\* The invariant of a rank between the embedding and the loss.
LEMMA OfPassingRank ==
  ASSUME TPInv, NEW r \in GroupOf(model), pc[r] \in Passing
  PROVE  /\ Legal(model) /\ Failing(model, r, pc[r], block[r], comm[r])
         /\ Place(model, pc[r], block[r]) /\ Calls(model, pc[r], comm[r]) /\ Keeps(model, saved[r])
         /\ Agreed(model) => Values(model, r, pc[r], block[r], hidden[r], branch[r], saved[r],
                                    buffer[r], comm[r],
                                   out[r], grads[r])
         /\ ~Agreed(model) =>
              /\ pc[r] # "loss"
              /\ CutValues(model, r, pc[r], hidden[r], buffer[r], comm[r], out[r])
              /\ \/ model.pretrain = "gpt"
                 \/ r = 0 /\ block[r] = 1 /\ (pc[r] = "column" \/ (pc[r] = "row" /\ comm[r].kind # "none"))
<1>1. /\ Legal(model)
      /\ RankInv(model, r, pc[r], block[r], hidden[r], branch[r], saved[r], buffer[r], comm[r],
                 out[r], grads[r])
  BY OfRank
<1>2. pc[r] \notin Early \cup {"error"} BY PassingLabels DEF Passing
<1>3. ~Agreed(model) =>
        /\ pc[r] # "loss"
        /\ \/ model.pretrain = "gpt"
           \/ r = 0 /\ block[r] = 1 /\ (pc[r] = "column" \/ (pc[r] = "row" /\ comm[r].kind # "none"))
  BY <1>1, <1>2 DEF RankInv, Failing, Early
<1> QED BY <1>1, <1>2, <1>3 DEF RankInv

\* RankStep for a rank in the forward pass.
LEMMA PassingStep ==
  ASSUME TPInv, NEW r \in GroupOf(model),
         NEW l, NEW b, NEW h, NEW v, NEW s, NEW f, NEW m, NEW o, NEW g, l \in Passing,
         Becomes(r, l, b, h, v, s, f, m, o, g),
         Failing(model, r, l, b, m), Place(model, l, b), Calls(model, l, m), Keeps(model, s),
         Agreed(model) => Values(model, r, l, b, h, v, s, f, m, o, g),
         ~Agreed(model) => CutValues(model, r, l, h, f, m, o),
         Clock(model, l, b, m) = Clock(model, pc[r], block[r], comm[r])
  PROVE  TPInv'
<1>1. l \notin Early \cup {"error"} BY PassingLabels DEF Passing
<1>2. RankInv(model, r, l, b, h, v, s, f, m, o, g) BY <1>1 DEF RankInv
<1> QED BY <1>2, RankStep

\* Rank 0 has the first rows of the table, no other rank has.
LEMMA FirstRows ==
  ASSUME Legal(model), ~Agreed(model), model.pretrain # "gpt", NEW r \in GroupOf(model), PositionsExist(r)
  PROVE  r = 0
<1> DEFINE p == model.tensor_model_parallel_size
           n == model.max_position_embeddings
           m == n \div p
<1>1. /\ p \in Nat \ {0} /\ n \in Nat \ {0} /\ model.seq_length \in Nat \ {0} /\ r \in Nat /\ P = p
      /\ model.sequence_parallel /\ model.pretrain = "gpt_pipe" /\ model.add_position_embedding
  BY LegalFacts, ModelFacts, CutFacts
<1>2. n % p = 0 BY <1>1 DEF Legal
<1>3. m \in Nat BY <1>1, QuotientOfNat
<1>4. m # 0
  <2>1. n = (n \div p) * p + (n % p)
    <3> HIDE DEF n, p
    <3> QED BY <1>1, Quotient
  <2> HIDE DEF n, p
  <2> QED BY <1>1, <1>2, <2>1
<1>5. 0 \in Rows(r)
  <2>1. Batch(r) = Sequence(model) /\ 1 \in DOMAIN Sequence(model) /\ Sequence(model)[1] = 0
    BY <1>1, ModelFacts, SequenceTokens DEF Batch
  <2> QED BY <1>1, <2>1 DEF PositionsExist
<1>6. 0 \in m * r .. m * r + m - 1 BY <1>1, <1>5 DEF Rows
<1> HIDE DEF m
<1>7. m * r \in Nat /\ m * r = 0 BY <1>1, <1>3, <1>6
<1> QED BY <1>1, <1>3, <1>4, <1>7

\* Embedding.forward adds the positions and scatters the sequence, or
\* fails to.
LEMMA EmbeddingStep ==
  ASSUME TPInv, NEW r \in GroupOf(model), EmbeddingForward(r)
  PROVE  TPInv'
<1> DEFINE n == LastBlock(model)
           h == IF model.sequence_parallel THEN Split(out[r], r) ELSE out[r]
<1>1. pc[r] = "embedding" /\ comm[r].kind = "none" BY DEF EmbeddingForward, At, Over
<1>2. /\ Legal(model)
      /\ RankInv(model, r, "embedding", block[r], hidden[r], branch[r], saved[r], buffer[r],
                 comm[r], out[r], grads[r])
  BY <1>1, OfRank
<1>3. "embedding" \in Early /\ n \in Nat /\ n >= 3 BY <1>2, LegalFacts DEF Early
<1>4. /\ block[r] = 0 /\ hidden[r] = <<>> /\ Keeps(model, saved[r]) /\ Calls(model, "embedding", comm[r])
      /\ Agreed(model) => Values(model, r, "embedding", 0, hidden[r], branch[r], saved[r],
                                 buffer[r], comm[r], out[r],
                                grads[r])
      /\ ~Agreed(model) => CutValues(model, r, "embedding", hidden[r], buffer[r], comm[r], out[r])
  <2>1. block[r] = 0 BY <1>2, <1>3, PassingPlaces DEF RankInv
  <2> QED BY <1>2, <1>3, <2>1 DEF RankInv
<1>5. comm[r] = [kind |-> "none"] BY <1>1, <1>4, NothingLaunched
<1>6. KindAt(model, "embedding") = "all_reduce" /\ KindAt(model, "column") = "none" /\ KindAt(model, "error") = "none"
  BY DEF KindAt
<1>7. Clock(model, pc[r], block[r], comm[r]) = 1
  <2>1. Before(model, "embedding", 0) = 0 BY <1>2, <1>3, PassingPlaces
  <2> QED BY <1>1, <1>4, <1>6, <2>1 DEF Clock
<1>8. ASSUME Agreed(model)
      PROVE  /\ Embeds(r)
             /\ Values(model, r, "column", 1, h, branch[r], saved[r], buffer[r], comm[r], out[r], grads[r])
  <2>1. out[r] = Complete(model, Sequence(model)) /\ grads[r] = Gradients(model, r, "embedding", 0)
    BY <1>1, <1>4, <1>6, <1>8 DEF Values, Gotten
  <2>2. Embeds(r)
    <3>1. PositionsExist(r) BY <1>8 DEF Agreed, PositionsExist
    <3>2. Len(out[r]) = model.seq_length
      <4>1. DOMAIN Sequence(model) = 1 .. model.seq_length /\ model.seq_length \in Nat
        BY <1>2, SequenceTokens, LegalFacts
      <4>2. out[r] = [i \in 1 .. model.seq_length |-> Entry(model, Sequence(model)[i])]
        BY <2>1, <4>1 DEF Complete
      <4> QED BY <4>1, <4>2, FunctionSeq
    <3>3. model.sequence_parallel => model.seq_length % P = 0
      BY <1>2, ModelFacts DEF Legal
    <3> QED BY <3>1, <3>2, <3>3 DEF Embeds
  <2>3. h = Complete(model, Part(model, r))
    <3>1. CASE model.sequence_parallel BY <1>2, <2>1, <3>1, SplitComplete DEF Part
    <3>2. CASE ~model.sequence_parallel BY <2>1, <3>2 DEF Part
    <3> QED BY <3>1, <3>2
  <2>4. "column" \notin Back /\ "embedding" \notin Back /\ "column" \notin Early /\ "column" \notin ColumnBack
    BY PassingLabels DEF Passing, Early
  <2>5. grads[r] = Gradients(model, r, "column", 1) BY <2>1, <2>4, ForwardGradients
  <2>6. InputSaved(model, "column", 1) = {} /\ ContextSaved(model, "column", 1) = {}
    BY <2>4 DEF InputSaved, ContextSaved
  <2> HIDE DEF h
  <2> QED BY <1>5, <1>6, <2>2, <2>3, <2>4, <2>5, <2>6 DEF Values
<1>9. CASE Embeds(r)
  <2>1. Becomes(r, "column", 1, h, branch[r], saved[r], buffer[r], comm[r], out[r], grads[r])
    BY <1>9, OfRank DEF EmbeddingForward, Goto, Becomes
  <2>2. ASSUME ~Agreed(model)
        PROVE  CutValues(model, r, "column", h, buffer[r], comm[r], out[r])
    <3>1. out[r] \in Tensors(model, BatchSize(model)) /\ model.sequence_parallel /\ BatchSize(model) \in Nat
      BY <1>1, <1>2, <1>4, <2>2, CutFacts DEF CutValues
    <3>2. h \in Tensors(model, CutSize(model))
      BY <1>2, <3>1, SplitTensor DEF CutSize
    <3> HIDE DEF h
    <3> QED BY <3>2 DEF CutValues
  <2>3. Failing(model, r, "column", 1, comm[r])
    <3>1. ~Agreed(model) /\ model.pretrain # "gpt" => r = 0
      BY <1>2, <1>9, FirstRows DEF Embeds
    <3> QED BY <3>1 DEF Failing
  <2>4. Clock(model, "column", 1, comm[r]) = 1
    <3>1. Before(model, "column", 1) = 1 BY <1>2, <1>3, PassingPlaces DEF Passing
    <3> QED BY <1>6, <3>1 DEF Clock
  <2>5. Place(model, "column", 1) /\ Calls(model, "column", comm[r]) /\ "column" \in Passing
    BY <1>2, <1>3, <1>5, PassingPlaces DEF Calls, Passing
  <2> HIDE DEF h
  <2> QED BY <1>4, <1>7, <1>8, <2>1, <2>2, <2>3, <2>4, <2>5, PassingStep
<1>10. CASE ~Embeds(r)
  <2>1. ~Agreed(model) /\ model.sequence_parallel BY <1>2, <1>8, <1>10, CutFacts
  <2>2. Becomes(r, "error", 0, hidden[r], branch[r], saved[r], buffer[r], comm[r], out[r], grads[r])
    BY <1>4, <1>10, OfRank DEF EmbeddingForward, Goto, Becomes
  <2>3. Place(model, "error", 0) /\ Failing(model, r, "error", 0, comm[r]) /\ Calls(model, "error", comm[r])
    BY <1>5, <2>1 DEF Place, Failing, Calls
  <2>4. RankInv(model, r, "error", 0, hidden[r], branch[r], saved[r], buffer[r], comm[r], out[r], grads[r])
    BY <1>4, <2>1, <2>3 DEF RankInv
  <2>5. Clock(model, "error", 0, comm[r]) = 1
    <3>1. Before(model, "error", 0) = 1 BY <1>2, <2>1, PassingPlaces
    <3> QED BY <1>6, <3>1 DEF Clock
  <2> QED BY <1>7, <2>2, <2>4, <2>5, RankStep
<1> QED BY <1>9, <1>10

\* A column-parallel layer saves its input, and gathers it.
LEMMA ColumnStep ==
  ASSUME TPInv, NEW r \in GroupOf(model), Column(r)
  PROVE  TPInv'
<1> DEFINE b == block[r]
           n == LastBlock(model)
           k == CutSize(model)
           s == [saved[r] EXCEPT ![b].input = hidden[r]]
           l == IF b = Logits THEN "logits" ELSE "row"
           m == IF model.sequence_parallel THEN [kind |-> "all_gather_mpu", tensor |-> hidden[r]] ELSE comm[r]
           o == IF model.sequence_parallel THEN <<>> ELSE out[r]
<1>1. pc[r] = "column" /\ "column" \in Passing BY DEF Column, At, Passing
<1>2. /\ Legal(model) /\ Failing(model, r, "column", b, comm[r])
      /\ Place(model, "column", b) /\ Calls(model, "column", comm[r]) /\ Keeps(model, saved[r])
      /\ Agreed(model) => Values(model, r, "column", b, hidden[r], branch[r], saved[r], buffer[r], comm[r],
                                out[r], grads[r])
      /\ ~Agreed(model) => CutValues(model, r, "column", hidden[r], buffer[r], comm[r], out[r])
  BY <1>1, OfPassingRank
<1>3. b \in 1 .. n /\ n \in Nat /\ n >= 3 /\ Logits = n
  BY <1>2, PassingPlaces, LegalFacts, ModelFacts
<1>4. /\ KindAt(model, "column") = "none"
      /\ KindAt(model, l) = IF model.sequence_parallel THEN "all_gather_mpu" ELSE "none"
  BY DEF KindAt
<1>5. comm[r] = [kind |-> "none"] BY <1>2, <1>4, NothingLaunched
<1>6. Becomes(r, l, b, hidden[r], branch[r], s, buffer[r], m, o, grads[r])
  <2>1. /\ model' = model /\ pc' = [pc EXCEPT ![r] = l] /\ block' = [block EXCEPT ![r] = b]
        /\ hidden' = [hidden EXCEPT ![r] = hidden[r]] /\ branch' = [branch EXCEPT ![r] = branch[r]]
        /\ saved' = [saved EXCEPT ![r] = s] /\ buffer' = [buffer EXCEPT ![r] = buffer[r]]
        /\ grads' = [grads EXCEPT ![r] = grads[r]]
    BY OfRank DEF Column, Goto
  <2>2. comm' = [comm EXCEPT ![r] = m] /\ out' = [out EXCEPT ![r] = o]
    <3>1. CASE model.sequence_parallel BY <3>1 DEF Column, Launch
    <3>2. CASE ~model.sequence_parallel BY <3>2, OfRank DEF Column, NoLaunch
    <3> QED BY <3>1, <3>2
  <2> HIDE DEF m, o, s, l
  <2> QED BY <2>1, <2>2 DEF Becomes
<1>7. /\ model.sequence_parallel => m = [kind |-> "all_gather_mpu", tensor |-> hidden[r]]
      /\ ~model.sequence_parallel => m = [kind |-> "none"]
  BY <1>5
<1>8. l \in {"row", "logits"} /\ l \in Passing /\ (l = "logits" <=> b = n)
  BY <1>3 DEF Passing
<1>9. /\ s[b].input = hidden[r] /\ s[b].context = saved[r][b].context
      /\ \A j \in 0 .. n : j # b => s[j] = saved[r][j]
      /\ Keeps(model, s)
  <2> DEFINE z == saved[r]
  <2>1. z = [j \in 0 .. n |-> [input |-> z[j].input, context |-> z[j].context]] /\ b \in 0 .. n
    BY <1>2, <1>3 DEF Keeps
  <2>2. z[b] = [input |-> z[b].input, context |-> z[b].context] BY <2>1
  <2>3. s = [z EXCEPT ![b] = [z[b] EXCEPT !.input = hidden[r]]] OBVIOUS
  <2>4. [z[b] EXCEPT !.input = hidden[r]] = [input |-> hidden[r], context |-> z[b].context]
    <3> DEFINE e == z[b]
    <3>1. e = [input |-> e.input, context |-> e.context] BY <2>2
    <3> HIDE DEF e
    <3>2. [e EXCEPT !.input = hidden[r]] = [input |-> hidden[r], context |-> e.context]
      BY <3>1
    <3> QED BY <3>2 DEF e
  <2> HIDE DEF z, b, s
  <2>5. s = [j \in 0 .. n |-> IF j = b THEN [input |-> hidden[r], context |-> z[b].context] ELSE z[j]]
    BY <2>1, <2>3, <2>4
  <2>6. s[b] = [input |-> hidden[r], context |-> z[b].context] /\ \A j \in 0 .. n : j # b => s[j] = z[j]
    BY <2>1, <2>5
  <2>7. \A j \in 0 .. n : s[j] = [input |-> s[j].input, context |-> s[j].context]
    <3> TAKE j \in 0 .. n
    <3>1. CASE j = b BY <2>6, <3>1
    <3>2. CASE j # b
      <4>1. z[j] = [input |-> z[j].input, context |-> z[j].context] BY <2>1
      <4> QED BY <2>6, <3>2, <4>1
    <3> QED BY <3>1, <3>2
  <2>8. Keeps(model, s) BY <2>5, <2>7 DEF Keeps
  <2> QED BY <2>6, <2>8 DEF z
<1> HIDE DEF m, o, s
<1>10. ASSUME Agreed(model)
       PROVE  Values(model, r, l, b, hidden[r], branch[r], s, buffer[r], m, o, grads[r])
  <2>1. l \notin Early /\ l \notin Back /\ l \notin ColumnBack /\ "column" \notin Early /\ "column" \notin Back
        /\ l # "grad_weight"
    BY <1>1, <1>8, PassingLabels DEF Passing
  <2>2. /\ InputSaved(model, "column", b) = 1 .. b - 1 /\ ContextSaved(model, "column", b) = 1 .. b - 1
        /\ InputSaved(model, l, b) = 1 .. b /\ ContextSaved(model, l, b) = 1 .. b - 1
    BY <1>3, <1>8, <2>1 DEF InputSaved, ContextSaved
  <2>3. /\ hidden[r] = Complete(model, Part(model, r))
        /\ \A j \in 1 .. b - 1 : saved[r][j].input = Complete(model, Part(model, r))
        /\ \A j \in 1 .. b - 1 : saved[r][j].context = Sequence(model)
        /\ grads[r] = Gradients(model, r, "column", b)
    BY <1>2, <1>10, <2>1, <2>2 DEF Values
  <2>4. \A j \in 1 .. b - 1 : j \in 0 .. n /\ j # b BY <1>3
  <2>5. \A j \in 1 .. b : j = b \/ j \in 1 .. b - 1 BY <1>3
  <2>6. /\ \A j \in 1 .. b : s[j].input = Complete(model, Part(model, r))
        /\ \A j \in 1 .. b - 1 : s[j].context = Sequence(model)
    BY <1>9, <2>3, <2>4, <2>5
  <2>7. grads[r] = Gradients(model, r, l, b) BY <2>1, <2>3, ForwardGradients
  <2>8. m.kind # "none" => Given(model, r, l, m) BY <1>7, <1>8, <2>3 DEF Given
  <2>9. ~(KindAt(model, l) # "none" /\ m.kind = "none") BY <1>4, <1>7
  <2> HIDE DEF l
  <2> QED BY <2>1, <2>2, <2>3, <2>6, <2>7, <2>8, <2>9 DEF Values
<1>11. ASSUME ~Agreed(model)
       PROVE  CutValues(model, r, l, hidden[r], buffer[r], m, o)
  <2>1. hidden[r] \in Tensors(model, k)
    BY <1>1, <1>2, <1>11, PassingLabels DEF CutValues
  <2>2. m.kind # "none" /\ m.tensor = hidden[r] BY <1>2, <1>7, <1>11, CutFacts
  <2>3. l \notin Early /\ l # "embedding" /\ l # "residual"
    BY <1>8, PassingLabels DEF Passing
  <2> HIDE DEF l
  <2> QED BY <2>1, <2>2, <2>3 DEF CutValues
<1>12. Place(model, l, b)
  <2>1. b = n \/ b \in 1 .. n - 1 BY <1>3
  <2> QED BY <1>2, <1>8, <2>1, PassingPlaces
<1>13. Calls(model, l, m) BY <1>4, <1>7 DEF Calls
<1>14. Clock(model, l, b, m) = Clock(model, pc[r], b, comm[r])
  <2>1. Before(model, l, b) = Before(model, "column", b)
    BY <1>1, <1>2, <1>8, PassingPlaces
  <2> QED BY <1>1, <1>4, <1>7, <2>1 DEF Clock
<1>15. Failing(model, r, l, b, m)
  <2>1. ASSUME ~Agreed(model), model.pretrain # "gpt"
        PROVE  r = 0 /\ b = 1 /\ l = "row" /\ m.kind # "none"
    <3>1. r = 0 /\ b = 1 BY <1>1, <1>2, <2>1, PassingLabels DEF Failing
    <3>2. l = "row" BY <1>3, <1>8, <3>1
    <3> QED BY <1>2, <1>7, <2>1, <3>1, <3>2, CutFacts
  <2> QED BY <1>8, <2>1 DEF Failing
<1> HIDE DEF b, n, l
<1> QED BY <1>2, <1>6, <1>8, <1>9, <1>10, <1>11, <1>12, <1>13, <1>14, <1>15, PassingStep DEF b

\* The matrix product, and the reduction of the row-parallel layer.
LEMMA RowStep ==
  ASSUME TPInv, NEW r \in GroupOf(model), Row(r)
  PROVE  TPInv'
<1> DEFINE b == block[r]
           n == LastBlock(model)
           k == CutSize(model)
           tokens == Local(b, TokensOf(TotalInput(r)))
           s == [saved[r] EXCEPT ![b].context = tokens]
           m == [kind |-> IF model.sequence_parallel THEN "reduce_scatter" ELSE "all_reduce",
                 tensor |-> Shares(tokens, r)]
           o == IF model.sequence_parallel THEN <<>> ELSE Shares(tokens, r)
<1>1. pc[r] = "row" /\ "row" \in Passing /\ "residual" \in Passing /\ comm[r].kind = "none"
  BY DEF Row, At, Over, Passing
<1>2. /\ Legal(model) /\ Failing(model, r, "row", b, comm[r])
      /\ Place(model, "row", b) /\ Calls(model, "row", comm[r]) /\ Keeps(model, saved[r])
      /\ Agreed(model) => Values(model, r, "row", b, hidden[r], branch[r], saved[r], buffer[r], comm[r],
                                out[r], grads[r])
      /\ ~Agreed(model) => /\ CutValues(model, r, "row", hidden[r], buffer[r], comm[r], out[r])
                          /\ model.pretrain = "gpt"
  BY <1>1, OfPassingRank
<1>3. b \in 1 .. n - 1 /\ n \in Nat /\ n >= 3 BY <1>2, PassingPlaces, LegalFacts
<1>4. /\ KindAt(model, "row") = IF model.sequence_parallel THEN "all_gather_mpu" ELSE "none"
      /\ KindAt(model, "residual") = IF model.sequence_parallel THEN "reduce_scatter" ELSE "all_reduce"
  BY DEF KindAt
<1>5. comm[r] = [kind |-> "none"] BY <1>1, <1>2, NothingLaunched
<1>6. Becomes(r, "residual", b, hidden[r], branch[r], s, buffer[r], m, o, grads[r])
  <2>1. /\ model' = model /\ pc' = [pc EXCEPT ![r] = "residual"] /\ block' = [block EXCEPT ![r] = b]
        /\ hidden' = [hidden EXCEPT ![r] = hidden[r]] /\ branch' = [branch EXCEPT ![r] = branch[r]]
        /\ saved' = [saved EXCEPT ![r] = s] /\ buffer' = [buffer EXCEPT ![r] = buffer[r]]
        /\ grads' = [grads EXCEPT ![r] = grads[r]]
    BY OfRank DEF Row, Goto
  <2>2. comm' = [comm EXCEPT ![r] = m] /\ out' = [out EXCEPT ![r] = o]
    <3>1. Launch(r, IF model.sequence_parallel THEN "reduce_scatter" ELSE "all_reduce", Shares(tokens, r))
      BY DEF Row
    <3> HIDE DEF tokens
    <3>2. CASE model.sequence_parallel BY <3>1, <3>2 DEF Launch
    <3>3. CASE ~model.sequence_parallel BY <3>1, <3>3 DEF Launch
    <3> QED BY <3>2, <3>3
  <2> HIDE DEF m, o, s
  <2> QED BY <2>1, <2>2 DEF Becomes
<1>7. m = [kind |-> KindAt(model, "residual"), tensor |-> SharesOf(model, r, tokens)] /\ m.kind # "none"
  <2> HIDE DEF tokens
  <2> QED BY <1>2, <1>4, ModelFacts
<1>8. /\ s[b].context = tokens /\ s[b].input = saved[r][b].input
      /\ \A j \in 0 .. n : j # b => s[j] = saved[r][j]
      /\ Keeps(model, s)
  <2> DEFINE z == saved[r]
  <2> HIDE DEF tokens
  <2>1. z = [j \in 0 .. n |-> [input |-> z[j].input, context |-> z[j].context]] /\ b \in 0 .. n
    BY <1>2, <1>3 DEF Keeps
  <2>2. z[b] = [input |-> z[b].input, context |-> z[b].context] BY <2>1
  <2>3. s = [z EXCEPT ![b] = [z[b] EXCEPT !.context = tokens]] OBVIOUS
  <2>4. [z[b] EXCEPT !.context = tokens] = [input |-> z[b].input, context |-> tokens]
    <3> DEFINE e == z[b]
    <3>1. e = [input |-> e.input, context |-> e.context] BY <2>2
    <3> HIDE DEF e
    <3>2. [e EXCEPT !.context = tokens] = [input |-> e.input, context |-> tokens]
      BY <3>1
    <3> QED BY <3>2 DEF e
  <2> HIDE DEF z, b, s
  <2>5. s = [j \in 0 .. n |-> IF j = b THEN [input |-> z[b].input, context |-> tokens] ELSE z[j]]
    BY <2>1, <2>3, <2>4
  <2>6. s[b] = [input |-> z[b].input, context |-> tokens] /\ \A j \in 0 .. n : j # b => s[j] = z[j]
    BY <2>1, <2>5
  <2>7. \A j \in 0 .. n : s[j] = [input |-> s[j].input, context |-> s[j].context]
    <3> TAKE j \in 0 .. n
    <3>1. CASE j = b BY <2>6, <3>1
    <3>2. CASE j # b
      <4>1. z[j] = [input |-> z[j].input, context |-> z[j].context] BY <2>1
      <4> QED BY <2>6, <3>2, <4>1
    <3> QED BY <3>1, <3>2
  <2>8. Keeps(model, s) BY <2>5, <2>7 DEF Keeps
  <2> QED BY <2>6, <2>8 DEF z
<1> HIDE DEF m, o, s
<1>9. ASSUME Agreed(model)
      PROVE  Values(model, r, "residual", b, hidden[r], branch[r], s, buffer[r], m, o, grads[r])
  <2>1. "residual" \notin Early /\ "residual" \notin Back /\ "residual" \notin ColumnBack
        /\ "row" \notin Early /\ "row" \notin Back
    BY <1>1, PassingLabels
  <2>2. /\ InputSaved(model, "row", b) = 1 .. b /\ ContextSaved(model, "row", b) = 1 .. b - 1
        /\ InputSaved(model, "residual", b) = 1 .. b /\ ContextSaved(model, "residual", b) = 1 .. b
    BY <2>1 DEF InputSaved, ContextSaved
  <2>3. /\ hidden[r] = Complete(model, Part(model, r))
        /\ \A j \in 1 .. b : saved[r][j].input = Complete(model, Part(model, r))
        /\ \A j \in 1 .. b - 1 : saved[r][j].context = Sequence(model)
        /\ grads[r] = Gradients(model, r, "row", b)
    BY <1>2, <1>9, <2>1, <2>2 DEF Values
  <2>4. tokens = Sequence(model)
    <3>1. TotalInput(r) = Complete(model, Sequence(model))
      <4>1. CASE model.sequence_parallel
        BY <1>1, <1>2, <1>4, <1>9, <4>1 DEF TotalInput, Values, Gotten
      <4>2. CASE ~model.sequence_parallel
        <5>1. b \in 1 .. b BY <1>3
        <5> QED BY <2>3, <4>2, <5>1 DEF TotalInput, Part
      <4> QED BY <4>1, <4>2
    <3>2. TokensOf(TotalInput(r)) = Sequence(model)
      BY <1>2, <3>1, SequenceTokens, TokensOfComplete
    <3> QED BY <1>2, <3>2, LocalOfSequence
  <2> HIDE DEF tokens
  <2>5. /\ \A j \in 1 .. b - 1 : j \in 0 .. n /\ j # b
        /\ \A j \in 1 .. b : j = b \/ j \in 1 .. b - 1
        /\ b \in 1 .. b
    BY <1>3
  <2>6. /\ \A j \in 1 .. b : s[j].input = Complete(model, Part(model, r))
        /\ \A j \in 1 .. b : s[j].context = Sequence(model)
    BY <1>8, <2>3, <2>4, <2>5
  <2>7. grads[r] = Gradients(model, r, "residual", b)
    BY <2>1, <2>3, ForwardGradients
  <2>8. Given(model, r, "residual", m) BY <1>7, <2>4 DEF Given
  <2> QED BY <1>7, <2>1, <2>2, <2>3, <2>6, <2>7, <2>8 DEF Values
<1>10. ASSUME ~Agreed(model)
       PROVE  CutValues(model, r, "residual", hidden[r], buffer[r], m, o)
  <2> DEFINE w == model.tensor_model_parallel_size * k
  <2>1. hidden[r] \in Tensors(model, k) /\ model.sequence_parallel
    BY <1>1, <1>2, <1>10, PassingLabels, CutFacts DEF CutValues
  <2>2. buffer[r] \in Tensors(model, w) BY <1>1, <1>2, <1>10 DEF CutValues
  <2>3. w \in Nat
    <3>1. k \in Nat BY <1>2, <1>10, CutFacts
    <3> HIDE DEF k
    <3> QED BY <1>2, <3>1, LegalFacts
  <2>4. DOMAIN tokens = 1 .. w
    <3> HIDE DEF w, b
    <3> QED BY <1>2, <2>1, <2>2, <2>3, TensorTypes DEF TotalInput
  <2>5. \E x : DOMAIN x = 1 .. w /\ m.tensor = SharesOf(model, r, x)
    <3> HIDE DEF tokens, w
    <3> QED BY <1>7, <2>4
  <2> QED BY <1>1, <1>7, <2>1, <2>5, PassingLabels DEF CutValues
<1> HIDE DEF tokens
<1>11. Place(model, "residual", b) /\ Calls(model, "residual", m) /\ Failing(model, r, "residual", b, m)
  BY <1>2, <1>3, <1>7, PassingPlaces DEF Calls, Failing
<1>12. Clock(model, "residual", b, m) = Clock(model, pc[r], b, comm[r])
  <2>1. /\ model.sequence_parallel => Before(model, "row", b) = 2 * b - 1 /\ Before(model, "residual", b) = 2 * b
        /\ ~model.sequence_parallel => Before(model, "row", b) = b /\ Before(model, "residual", b) = b
    BY <1>1, <1>2, PassingPlaces
  <2> HIDE DEF b, n
  <2>2. Clock(model, "residual", b, m) = Before(model, "residual", b) + 0
    BY <1>7 DEF Clock
  <2>3. CASE model.sequence_parallel BY <1>1, <1>3, <1>4, <2>1, <2>2, <2>3 DEF Clock
  <2>4. CASE ~model.sequence_parallel
    BY <1>1, <1>3, <1>4, <2>1, <2>2, <2>4 DEF Clock
  <2> QED BY <2>3, <2>4
<1> HIDE DEF b, n
<1> QED BY <1>1, <1>2, <1>6, <1>8, <1>9, <1>10, <1>11, <1>12, PassingStep DEF b

\* The residual is added to the reduced output.
LEMMA ResidualStep ==
  ASSUME TPInv, NEW r \in GroupOf(model), Residual(r)
  PROVE  TPInv'
<1> DEFINE b == block[r]
           n == LastBlock(model)
           k == CutSize(model)
           h == Sum2(hidden[r], out[r])
<1>1. pc[r] = "residual" /\ "residual" \in Passing /\ "column" \in Passing /\ comm[r].kind = "none"
  BY DEF Residual, At, Over, Passing
<1>2. /\ Legal(model) /\ Failing(model, r, "residual", b, comm[r])
      /\ Place(model, "residual", b) /\ Calls(model, "residual", comm[r]) /\ Keeps(model, saved[r])
      /\ Agreed(model) => Values(model, r, "residual", b, hidden[r], branch[r], saved[r], buffer[r], comm[r],
                                out[r], grads[r])
      /\ ~Agreed(model) => /\ CutValues(model, r, "residual", hidden[r], buffer[r], comm[r], out[r])
                          /\ model.pretrain = "gpt"
  BY <1>1, OfPassingRank
<1>3. b \in 1 .. n - 1 /\ n \in Nat /\ n >= 3 BY <1>2, PassingPlaces, LegalFacts
<1>4. /\ KindAt(model, "column") = "none"
      /\ KindAt(model, "residual") = IF model.sequence_parallel THEN "reduce_scatter" ELSE "all_reduce"
  BY DEF KindAt
<1>5. comm[r] = [kind |-> "none"] BY <1>1, <1>2, NothingLaunched
<1>6. Becomes(r, "column", b + 1, h, branch[r], saved[r], buffer[r], comm[r], out[r], grads[r])
  <2>1. DOMAIN hidden = GroupOf(model) /\ DOMAIN block = GroupOf(model)
    BY DEF TPInv, PerRank
  <2>2. hidden' = [hidden EXCEPT ![r] = h] /\ block' = [block EXCEPT ![r] = b + 1]
    BY <2>1 DEF Residual
  <2>3. /\ model' = model /\ pc' = [pc EXCEPT ![r] = "column"] /\ branch' = [branch EXCEPT ![r] = branch[r]]
        /\ saved' = [saved EXCEPT ![r] = saved[r]] /\ buffer' = [buffer EXCEPT ![r] = buffer[r]]
        /\ comm' = [comm EXCEPT ![r] = comm[r]] /\ out' = [out EXCEPT ![r] = out[r]]
        /\ grads' = [grads EXCEPT ![r] = grads[r]]
    BY OfRank DEF Residual, Goto
  <2> HIDE DEF h
  <2> QED BY <2>2, <2>3 DEF Becomes
<1>7. ASSUME Agreed(model)
      PROVE  Values(model, r, "column", b + 1, h, branch[r], saved[r], buffer[r], comm[r], out[r], grads[r])
  <2>1. "residual" \notin Early /\ "residual" \notin Back /\ "column" \notin ColumnBack
        /\ "column" \notin Early /\ "column" \notin Back
    BY <1>1, PassingLabels
  <2>2. /\ InputSaved(model, "residual", b) = 1 .. b /\ ContextSaved(model, "residual", b) = 1 .. b
        /\ InputSaved(model, "column", b + 1) = 1 .. (b + 1) - 1
        /\ ContextSaved(model, "column", b + 1) = 1 .. (b + 1) - 1 /\ (b + 1) - 1 = b
    BY <1>3, <2>1 DEF InputSaved, ContextSaved
  <2>3. out[r] = Complete(model, Part(model, r))
    BY <1>1, <1>2, <1>4, <1>7 DEF Values, Gotten
  <2>4. /\ hidden[r] = Complete(model, Part(model, r))
        /\ \A j \in 1 .. b : saved[r][j].input = Complete(model, Part(model, r))
        /\ \A j \in 1 .. b : saved[r][j].context = Sequence(model)
        /\ grads[r] = Gradients(model, r, "residual", b)
    BY <1>2, <1>7, <2>1, <2>2 DEF Values
  <2>5. h = Complete(model, Part(model, r)) BY <2>3, <2>4, SumOfComplete
  <2>6. grads[r] = Gradients(model, r, "column", b + 1)
    BY <2>1, <2>4, ForwardGradients
  <2> HIDE DEF h, b
  <2> QED BY <1>1, <1>4, <2>1, <2>2, <2>4, <2>5, <2>6 DEF Values
<1>8. ASSUME ~Agreed(model)
      PROVE  CutValues(model, r, "column", h, buffer[r], comm[r], out[r])
  <2>1. hidden[r] \in Tensors(model, k) /\ out[r] \in Tensors(model, k)
    BY <1>1, <1>2, <1>8, PassingLabels DEF CutValues
  <2>2. k \in Nat BY <1>2, <1>8, CutFacts
  <2>3. h \in Tensors(model, k)
    <3> HIDE DEF k
    <3> QED BY <1>2, <2>1, <2>2, TensorTypes
  <2> HIDE DEF h
  <2> QED BY <2>3 DEF CutValues
<1>9. /\ Place(model, "column", b + 1) /\ Calls(model, "column", comm[r])
      /\ Failing(model, r, "column", b + 1, comm[r])
  <2>1. b + 1 \in 1 .. n BY <1>3
  <2> HIDE DEF b
  <2> QED BY <1>2, <1>5, <2>1, PassingPlaces DEF Calls, Failing
<1>10. Clock(model, "column", b + 1, comm[r]) = Clock(model, pc[r], b, comm[r])
  <2> HIDE DEF b, n
  <2>1. /\ model.sequence_parallel => /\ Before(model, "residual", b) = 2 * b
                                      /\ Before(model, "column", b + 1) = 2 * (b + 1) - 1
        /\ ~model.sequence_parallel => Before(model, "residual", b) = b /\ Before(model, "column", b + 1) = b + 1
    BY <1>1, <1>2, PassingPlaces
  <2>2. Clock(model, "column", b + 1, comm[r]) = Before(model, "column", b + 1) + 0
    BY <1>4 DEF Clock
  <2>3. Clock(model, pc[r], b, comm[r]) = Before(model, "residual", b) + 1
    BY <1>1, <1>4 DEF Clock
  <2> QED BY <1>3, <2>1, <2>2, <2>3
<1> HIDE DEF b, n, h
<1> QED BY <1>1, <1>2, <1>6, <1>7, <1>8, <1>9, <1>10, PassingStep DEF b

\* vocab_parallel_cross_entropy finds its targets, or fails for want of
\* logits.
LEMMA CrossEntropyStep ==
  ASSUME TPInv, NEW r \in GroupOf(model), CrossEntropy(r)
  PROVE  TPInv'
<1> DEFINE n == LastBlock(model)
           k == CutSize(model)
           tokens == TokensOf(TotalInput(r))
           x == Shares(Matched(tokens, InOrder), r)
           m == [kind |-> "all_reduce", tensor |-> x]
<1>1. /\ pc[r] = "logits" /\ "logits" \in Passing /\ "loss" \in Passing /\ comm[r].kind = "none"
      /\ "logits" \in Back \cup {"logits", "loss"} /\ "loss" \in Back \cup {"logits", "loss"}
  BY DEF CrossEntropy, At, Over, Passing
<1>2. /\ Legal(model)
      /\ Place(model, "logits", block[r]) /\ Calls(model, "logits", comm[r]) /\ Keeps(model, saved[r])
      /\ Agreed(model) => Values(model, r, "logits", block[r], hidden[r], branch[r], saved[r],
                                 buffer[r], comm[r],
                                out[r], grads[r])
      /\ ~Agreed(model) => /\ CutValues(model, r, "logits", hidden[r], buffer[r], comm[r], out[r])
                           /\ model.pretrain = "gpt"
  BY <1>1, OfPassingRank
<1>3. block[r] = n /\ n \in Nat /\ n >= 3 BY <1>2, PassingPlaces, LegalFacts
<1>4. /\ KindAt(model, "logits") = IF model.sequence_parallel THEN "all_gather_mpu" ELSE "none"
      /\ KindAt(model, "loss") = "all_reduce" /\ KindAt(model, "error") = "none"
  BY DEF KindAt
<1>5. comm[r] = [kind |-> "none"] BY <1>1, <1>2, NothingLaunched
<1>6. CASE Agreed(model)
  <2>1. /\ BackValues(model, r, "logits", hidden[r], branch[r], saved[r], buffer[r], comm[r], out[r])
        /\ grads[r] = Gradients(model, r, "logits", n)
    BY <1>1, <1>2, <1>3, <1>6, ValuesBack
  <2>2. tokens = Sequence(model)
    <3>1. TotalInput(r) = Complete(model, Sequence(model))
      <4>1. CASE model.sequence_parallel
        BY <1>1, <1>4, <2>1, <4>1 DEF TotalInput, BackValues, Gotten
      <4>2. CASE ~model.sequence_parallel
        <5>1. n \in 1 .. n BY <1>3
        <5> QED BY <1>3, <2>1, <4>2, <5>1 DEF TotalInput, BackValues, Part
      <4> QED BY <4>1, <4>2
    <3> QED BY <1>2, <3>1, SequenceTokens, TokensOfComplete
  <2>3. Len(tokens) = model.seq_length
    <3> HIDE DEF tokens
    <3> QED BY <1>2, <2>2, LegalFacts, SequenceTokens DEF Sequence
  <2>4. Becomes(r, "loss", n, hidden[r], branch[r], saved[r], buffer[r], m, x, grads[r])
    <3>1. Launch(r, "all_reduce", x) /\ Goto(r, "loss") BY <2>3 DEF CrossEntropy
    <3>2. comm' = [comm EXCEPT ![r] = m] /\ out' = [out EXCEPT ![r] = x]
      <4> HIDE DEF x
      <4> QED BY <3>1 DEF Launch
    <3> HIDE DEF m, x
    <3> QED BY <1>3, <3>1, <3>2, OfRank DEF CrossEntropy, Goto, Becomes
  <2>5. x = SharesOf(model, r, Sequence(model))
    <3>1. Matched(tokens, InOrder) = Sequence(model)
      BY <1>2, <2>2, ModelFacts, MatchedSame DEF Sequence
    <3> QED BY <1>2, <3>1, ModelFacts
  <2> HIDE DEF x
  <2>6. m = [kind |-> "all_reduce", tensor |-> x] /\ m.kind # "none" /\ m.tensor = x
    OBVIOUS
  <2> HIDE DEF m
  <2>7. Given(model, r, "loss", m) BY <2>5, <2>6 DEF Given
  <2>8. "logits" \notin Back /\ "loss" \notin Back /\ "loss" \notin ColumnBack
    BY <1>1, PassingLabels
  <2>9. grads[r] = Gradients(model, r, "loss", n) BY <2>1, <2>8, ForwardGradients
  <2>10. BackValues(model, r, "loss", hidden[r], branch[r], saved[r], buffer[r], m, x)
    BY <2>1, <2>6, <2>7, <2>8 DEF BackValues
  <2>11. Values(model, r, "loss", n, hidden[r], branch[r], saved[r], buffer[r], m, x, grads[r])
    BY <1>1, <2>9, <2>10, ValuesBack
  <2>12. Place(model, "loss", n) /\ Calls(model, "loss", m) /\ Failing(model, r, "loss", n, m)
    BY <1>2, <1>4, <1>6, <2>6, PassingPlaces DEF Calls, Failing
  <2>13. Clock(model, "loss", n, m) = Clock(model, pc[r], block[r], comm[r])
    <3>1. /\ model.sequence_parallel => Before(model, "logits", n) = 2 * n - 1 /\ Before(model, "loss", n) = 2 * n
          /\ ~model.sequence_parallel => Before(model, "logits", n) = n /\ Before(model, "loss", n) = n
      BY <1>1, <1>2, PassingPlaces
    <3>2. Clock(model, "loss", n, m) = Before(model, "loss", n) + 0
      BY <2>6 DEF Clock
    <3>3. CASE model.sequence_parallel
      BY <1>1, <1>3, <1>4, <3>1, <3>2, <3>3 DEF Clock
    <3>4. CASE ~model.sequence_parallel
      BY <1>1, <1>3, <1>4, <3>1, <3>2, <3>4 DEF Clock
    <3> QED BY <3>3, <3>4
  <2> HIDE DEF n
  <2> QED BY <1>1, <1>2, <1>6, <2>4, <2>11, <2>12, <2>13, PassingStep
<1>7. CASE ~Agreed(model)
  <2> DEFINE p == model.tensor_model_parallel_size
             w == p * k
  <2>1. model.sequence_parallel /\ model.pretrain = "gpt" /\ ~Agreed(model)
    BY <1>2, <1>7, CutFacts
  <2>2. buffer[r] \in Tensors(model, w) /\ hidden[r] \in Tensors(model, k)
    BY <1>1, <1>2, <1>7, PassingLabels DEF CutValues
  <2>3. w \in Nat /\ w < model.seq_length
    <3>1. p \in Nat /\ p > 0 /\ Slice(model) \in Nat /\ Slice(model) < model.seq_length /\ model.seq_length \in Nat
      BY <1>2, <2>1, LegalFacts
    <3>2. k \in Nat /\ p * k <= Slice(model)
      <4> DEFINE z == Slice(model)
      <4>1. k = z \div p BY <2>1 DEF CutSize, BatchSize
      <4> HIDE DEF p, z, k
      <4> QED BY <3>1, <4>1 DEF z
    <3>3. p * k \in Nat
      <4> HIDE DEF p, k
      <4> QED BY <3>1, <3>2
    <3> HIDE DEF p, k
    <3> QED BY <3>1, <3>2, <3>3
  <2>4. Len(tokens) = w
    <3> HIDE DEF w
    <3> QED BY <1>2, <2>1, <2>2, <2>3, TensorTypes DEF TotalInput
  <2>5. Len(tokens) # model.seq_length
    <3> HIDE DEF tokens, w
    <3> QED BY <1>2, <2>3, <2>4, LegalFacts
  <2>6. Becomes(r, "error", n, hidden[r], branch[r], saved[r], buffer[r], comm[r], out[r], grads[r])
    <3>1. NoLaunch /\ Goto(r, "error") BY <2>5 DEF CrossEntropy
    <3> QED BY <1>3, <3>1, OfRank DEF CrossEntropy, NoLaunch, Goto, Becomes
  <2>7. Place(model, "error", n) /\ Failing(model, r, "error", n, comm[r]) /\ Calls(model, "error", comm[r])
    BY <1>5, <2>1 DEF Place, Failing, Calls
  <2>8. RankInv(model, r, "error", n, hidden[r], branch[r], saved[r], buffer[r], comm[r], out[r], grads[r])
    <3>1. n # 0 /\ "error" \notin Early BY <1>3, PassingLabels
    <3> HIDE DEF n
    <3> QED BY <1>2, <2>1, <2>2, <2>7, <3>1 DEF RankInv
  <2>9. Clock(model, "error", n, comm[r]) = Clock(model, pc[r], block[r], comm[r])
    <3>1. Before(model, "error", n) = 2 * n /\ Before(model, "logits", n) = 2 * n - 1
      BY <1>2, <1>3, <2>1, PassingPlaces
    <3> QED BY <1>1, <1>3, <1>4, <2>1, <3>1 DEF Clock
  <2> HIDE DEF n
  <2> QED BY <2>6, <2>8, <2>9, RankStep
<1> QED BY <1>6, <1>7

-----------------------------------------------------------------------------
\* The step of a collective.

Kinds == {"all_reduce", "all_gather", "all_gather_mpu", "reduce_scatter"}

\* Which label a collective is launched at, and how many are over before.
LEMMA KindLabels ==
  ASSUME NEW c, Legal(c), NEW l, NEW b, Place(c, l, b)
  PROVE  /\ KindAt(c, l) \in Kinds \cup {"none"}
         /\ KindAt(c, l) = "all_reduce" =>
              \/ l \in {"embedding", "loss"}
              \/ ~c.sequence_parallel /\ l \in {"residual", "grad_weight", "norm_backward"}
              \/ c.sequence_parallel /\ ~c.deepspeed /\ l = "synced"
         /\ KindAt(c, l) = "all_gather" => c.sequence_parallel /\ l \in {"row_grads", "embedding_backward"}
         /\ KindAt(c, l) = "all_gather_mpu" => c.sequence_parallel /\ l \in {"row", "logits", "grad_input"}
         /\ KindAt(c, l) = "reduce_scatter" =>
              c.sequence_parallel /\ l \in {"residual", "grad_weight", "norm_backward"}
<1>1. c.sequence_parallel \in BOOLEAN /\ c.async_tensor_model_parallel_allreduce \in BOOLEAN
  BY LegalFacts
<1>2. CASE l \in {"embedding", "loss"} BY <1>1, <1>2 DEF KindAt, Kinds
<1>3. CASE l \in {"row", "logits", "grad_input"} BY <1>1, <1>3 DEF KindAt, Kinds
<1>4. CASE l \in {"residual", "norm_backward", "grad_weight"}
  BY <1>1, <1>4 DEF KindAt, Kinds
<1>5. CASE l \in {"row_grads", "embedding_backward"} BY <1>1, <1>5 DEF KindAt, Kinds
<1>6. CASE l = "synced" BY <1>1, <1>6 DEF KindAt, Kinds
<1>7. CASE l \notin {"embedding", "loss", "row", "logits", "grad_input", "residual", "norm_backward", "grad_weight",
                     "row_grads", "embedding_backward", "synced"}
  BY <1>1, <1>7 DEF KindAt
<1> QED BY <1>2, <1>3, <1>4, <1>5, <1>6, <1>7

\* Collectives that are launched after as many others are the same.
LEMMA SameKind ==
  ASSUME NEW c, Legal(c), NEW l, NEW b, Place(c, l, b), NEW k, NEW d, Place(c, k, d),
         KindAt(c, l) # "none", KindAt(c, k) # "none", Before(c, l, b) = Before(c, k, d)
  PROVE  /\ KindAt(c, l) = KindAt(c, k)
         /\ l = "synced" => k = "synced"
<1> DEFINE n == LastBlock(c)
<1>1. n \in Nat /\ n >= 3 BY LegalFacts
<1>2. CASE ~c.sequence_parallel BY <1>2, KindLabels DEF KindAt, Kinds
<1>3. CASE c.sequence_parallel
  <2>1. ASSUME NEW j, NEW e, Place(c, j, e), KindAt(c, j) # "none"
        PROVE  \/ j \in {"embedding", "loss"} /\ KindAt(c, j) = "all_reduce" /\ Before(c, j, e) \in {0, 2 * n}
               \/ j = "synced" /\ KindAt(c, j) = "all_reduce" /\ Before(c, j, e) = 5 * n + 1
               \/ /\ j # "synced" /\ KindAt(c, j) = "all_gather_mpu" /\ e \in 1 .. n
                  /\ Before(c, j, e) = 2 * e - 1 \/ Before(c, j, e) = 5 * n - 3 * e + 1
               \/ /\ j # "synced" /\ KindAt(c, j) = "reduce_scatter"
                  /\ \/ e \in 1 .. n - 1 /\ Before(c, j, e) = 2 * e
                     \/ e \in 1 .. n /\ Before(c, j, e) = 5 * n - 3 * e + 2
               \/ /\ j # "synced" /\ KindAt(c, j) = "all_gather"
                  /\ e \in 0 .. n - 1 /\ Before(c, j, e) = 5 * n - 3 * e
    <3>1. \/ j \in {"embedding", "loss"} \/ j \in {"residual", "grad_weight", "norm_backward"}
          \/ j = "synced" \/ j \in {"row_grads", "embedding_backward"} \/ j \in {"row", "logits", "grad_input"}
      BY <1>3, <2>1, KindLabels DEF Kinds
    <3>2. CASE j \in {"embedding", "loss"}
      <4>1. KindAt(c, j) = "all_reduce" BY <3>2 DEF KindAt
      <4>2. Before(c, j, e) = 0 \/ (Before(c, j, e) = 2 * e /\ e = n)
        BY <1>3, <2>1, <3>2, PassingPlaces DEF Early
      <4> QED BY <3>2, <4>1, <4>2
    <3>3. CASE j = "residual"
      <4>1. KindAt(c, j) = "reduce_scatter" BY <1>3, <3>3 DEF KindAt
      <4>2. e \in 1 .. n - 1 /\ Before(c, j, e) = 2 * e
        BY <1>3, <2>1, <3>3, PassingPlaces
      <4> QED BY <3>3, <4>1, <4>2
    <3>4. CASE j \in {"grad_weight", "norm_backward"}
      <4>1. KindAt(c, j) = "reduce_scatter" BY <1>3, <3>4 DEF KindAt
      <4>2. e \in 1 .. n /\ Before(c, j, e) = 5 * n - 3 * e + 2
        BY <1>3, <2>1, <3>4, BackLabels, BackPlaces
      <4> QED BY <3>4, <4>1, <4>2
    <3>5. CASE j = "synced"
      <4>1. KindAt(c, j) = "all_reduce" BY <2>1, <3>5 DEF KindAt
      <4>2. Before(c, j, e) = 5 * n + 1 BY <1>3, <3>5, BackPlaces
      <4> QED BY <3>5, <4>1, <4>2
    <3>6. CASE j \in {"row_grads", "embedding_backward"}
      <4>1. KindAt(c, j) = "all_gather" BY <1>3, <3>6 DEF KindAt
      <4>2. Before(c, j, e) = 5 * n - 3 * e BY <1>3, <3>6, BackPlaces
      <4>3. e = 0 \/ e \in 1 .. n - 1
        BY <2>1, <3>6, BackPlaces DEF RowBack, FirstBack
      <4>4. e \in 0 .. n - 1 BY <1>1, <4>3
      <4> QED BY <3>6, <4>1, <4>2, <4>4
    <3>7. CASE j \in {"row", "logits"}
      <4>1. KindAt(c, j) = "all_gather_mpu" BY <1>3, <3>7 DEF KindAt
      <4>2. e \in 1 .. n - 1 \/ e = n BY <2>1, <3>7, PassingPlaces
      <4>3. e \in 1 .. n BY <1>1, <4>2
      <4>4. Before(c, j, e) = 2 * e - 1 BY <1>3, <3>7, PassingPlaces
      <4> QED BY <3>7, <4>1, <4>3, <4>4
    <3>8. CASE j = "grad_input"
      <4>1. KindAt(c, j) = "all_gather_mpu" BY <1>3, <3>8 DEF KindAt
      <4>2. e \in 1 .. n /\ Before(c, j, e) = 5 * n - 3 * e + 1
        BY <1>3, <2>1, <3>8, BackLabels, BackPlaces
      <4> QED BY <3>8, <4>1, <4>2
    <3> QED BY <3>1, <3>2, <3>3, <3>4, <3>5, <3>6, <3>7, <3>8
  <2> DEFINE x == Before(c, l, b)
  <2> HIDE DEF n, x
  <2>2. \A e \in 1 .. n :
          /\ 2 * e - 1 \notin {0, 2 * n, 5 * n + 1} /\ 5 * n - 3 * e + 1 \notin {0, 2 * n, 5 * n + 1}
          /\ 5 * n - 3 * e + 2 \notin {0, 2 * n, 5 * n + 1}
    BY <1>1
  <2>3. /\ \A e \in 1 .. n - 1 : 2 * e \notin {0, 2 * n, 5 * n + 1} /\ e \in 1 .. n
        /\ \A e \in 0 .. n - 1 : 5 * n - 3 * e \notin {0, 2 * n, 5 * n + 1}
        /\ 5 * n + 1 \notin {0, 2 * n}
    BY <1>1
  <2>4. \A e, f \in 1 .. n :
          /\ 2 * e - 1 # 2 * f /\ 2 * e - 1 # 5 * n - 3 * f + 2
          /\ 5 * n - 3 * e + 1 # 2 * f /\ 5 * n - 3 * e + 1 # 5 * n - 3 * f + 2
    BY <1>1
  <2>5. \A e \in 0 .. n - 1 : \A f \in 1 .. n :
          /\ 5 * n - 3 * e # 2 * f - 1 /\ 5 * n - 3 * e # 5 * n - 3 * f + 1
          /\ 5 * n - 3 * e # 5 * n - 3 * f + 2 /\ (f \in 1 .. n - 1 => 5 * n - 3 * e # 2 * f)
    BY <1>1
  <2> QED
    <3>1. \/ l \in {"embedding", "loss"} /\ KindAt(c, l) = "all_reduce" /\ x \in {0, 2 * n}
          \/ l = "synced" /\ KindAt(c, l) = "all_reduce" /\ x = 5 * n + 1
          \/ /\ l # "synced" /\ KindAt(c, l) = "all_gather_mpu" /\ b \in 1 .. n
             /\ x = 2 * b - 1 \/ x = 5 * n - 3 * b + 1
          \/ /\ l # "synced" /\ KindAt(c, l) = "reduce_scatter"
             /\ \/ b \in 1 .. n - 1 /\ x = 2 * b
                \/ b \in 1 .. n /\ x = 5 * n - 3 * b + 2
          \/ /\ l # "synced" /\ KindAt(c, l) = "all_gather"
             /\ b \in 0 .. n - 1 /\ x = 5 * n - 3 * b
      BY <2>1 DEF x
    <3>2. \/ k \in {"embedding", "loss"} /\ KindAt(c, k) = "all_reduce" /\ x \in {0, 2 * n}
          \/ k = "synced" /\ KindAt(c, k) = "all_reduce" /\ x = 5 * n + 1
          \/ /\ k # "synced" /\ KindAt(c, k) = "all_gather_mpu" /\ d \in 1 .. n
             /\ x = 2 * d - 1 \/ x = 5 * n - 3 * d + 1
          \/ /\ k # "synced" /\ KindAt(c, k) = "reduce_scatter"
             /\ \/ d \in 1 .. n - 1 /\ x = 2 * d
                \/ d \in 1 .. n /\ x = 5 * n - 3 * d + 2
          \/ /\ k # "synced" /\ KindAt(c, k) = "all_gather"
             /\ d \in 0 .. n - 1 /\ x = 5 * n - 3 * d
      BY <2>1 DEF x
    <3>3. x \in {0, 2 * n, 5 * n + 1} <=> KindAt(c, l) = "all_reduce"
      BY <2>2, <2>3, <3>1
    <3>4. x \in {0, 2 * n, 5 * n + 1} <=> KindAt(c, k) = "all_reduce"
      BY <2>2, <2>3, <3>2
    <3>5. (x = 5 * n + 1 <=> l = "synced") /\ (x = 5 * n + 1 <=> k = "synced")
      BY <2>2, <2>3, <3>1, <3>2
    <3>6. CASE KindAt(c, l) = "all_reduce" BY <3>3, <3>4, <3>5, <3>6
    <3>7. CASE KindAt(c, l) = "all_gather_mpu"
      <4>1. b \in 1 .. n /\ (x = 2 * b - 1 \/ x = 5 * n - 3 * b + 1) BY <3>1, <3>7
      <4>2. KindAt(c, k) # "reduce_scatter" BY <2>3, <2>4, <3>2, <4>1
      <4>3. KindAt(c, k) # "all_gather" BY <2>5, <3>2, <4>1
      <4> QED BY <3>2, <3>3, <3>4, <3>5, <3>7, <4>2, <4>3
    <3>8. CASE KindAt(c, l) = "reduce_scatter"
      <4>1. \/ b \in 1 .. n - 1 /\ x = 2 * b
            \/ b \in 1 .. n /\ x = 5 * n - 3 * b + 2
        BY <3>1, <3>8
      <4>2. KindAt(c, k) # "all_gather_mpu" BY <2>3, <2>4, <3>2, <4>1
      <4>3. KindAt(c, k) # "all_gather" BY <2>3, <2>5, <3>2, <4>1
      <4> QED BY <3>2, <3>3, <3>4, <3>5, <3>8, <4>2, <4>3
    <3>9. CASE KindAt(c, l) = "all_gather"
      <4>1. b \in 0 .. n - 1 /\ x = 5 * n - 3 * b BY <3>1, <3>9
      <4>2. KindAt(c, k) # "all_gather_mpu" BY <2>5, <3>2, <4>1
      <4>3. KindAt(c, k) # "reduce_scatter" BY <2>3, <2>5, <3>2, <4>1
      <4> QED BY <3>2, <3>3, <3>4, <3>5, <3>9, <4>2, <4>3
    <3> QED BY <3>1, <3>6, <3>7, <3>8, <3>9
<1> QED BY <1>2, <1>3

\* What a collective writes on rank r, if x[q] is what rank q gave.
Result(kind, x, r) ==
  CASE kind = "all_reduce" -> Reduced(x)
    [] kind = "reduce_scatter" -> Split(Reduced(x), r)
    [] OTHER -> Gathered(x)

\* All ranks have launched a collective of this kind.
Launched(kind, x) ==
  \A r \in GroupOf(model) : comm[r].kind = kind /\ comm[r].tensor = x[r]

\* How many collectives are over at a place is a number.
LEMMA BeforeType ==
  ASSUME NEW c, Legal(c), NEW l, NEW b, Place(c, l, b)
  PROVE  Before(c, l, b) \in Int
<1>1. LastBlock(c) \in Int /\ b \in Int BY LegalFacts DEF Place
<1> QED BY <1>1 DEF Before

\* When the ranks have all launched a collective, they are where that one
\* is launched.
LEMMA OfLaunched ==
  ASSUME TPInv, NEW kind \in Kinds, NEW x, Launched(kind, x), NEW r \in GroupOf(model)
  PROVE  /\ Legal(model) /\ Place(model, pc[r], block[r]) /\ KindAt(model, pc[r]) = kind /\ comm[r].kind # "none"
         /\ pc[r] # "error"
         /\ Agreed(model) => Given(model, r, pc[r], comm[r])
         /\ ~Agreed(model) => /\ CutValues(model, r, pc[r], hidden[r], buffer[r], comm[r], out[r])
                              /\ pc[r] \in {"embedding", "row", "logits", "residual"}
                              /\ model.pretrain = "gpt" \/ pc[r] = "embedding"
         /\ \A q \in GroupOf(model) : pc[q] = "synced" => pc[r] = "synced"
<1>1. ASSUME NEW q \in GroupOf(model)
      PROVE  /\ Legal(model) /\ Place(model, pc[q], block[q]) /\ KindAt(model, pc[q]) = kind
             /\ comm[q].kind # "none" /\ Clock(model, pc[q], block[q], comm[q]) = Before(model, pc[q], block[q]) + 0
             /\ RankInv(model, q, pc[q], block[q], hidden[q], branch[q], saved[q], buffer[q],
                        comm[q], out[q], grads[q])
  <2>1. /\ Legal(model)
        /\ RankInv(model, q, pc[q], block[q], hidden[q], branch[q], saved[q], buffer[q], comm[q],
                   out[q], grads[q])
    BY OfRank
  <2>2. comm[q].kind = kind /\ kind # "none" BY DEF Launched, Kinds
  <2>3. KindAt(model, pc[q]) = kind BY <2>1, <2>2 DEF RankInv, Calls
  <2> QED BY <2>1, <2>2, <2>3 DEF RankInv, Clock
<1>2. pc[r] # "error"
  <2>1. KindAt(model, "error") = "none" /\ kind # "none" BY DEF KindAt, Kinds
  <2> QED BY <1>1, <2>1
<1>3. ASSUME NEW q \in GroupOf(model), pc[q] = "synced"
      PROVE  pc[r] = "synced"
  <2>1. Clock(model, pc[q], block[q], comm[q]) = Clock(model, pc[r], block[r], comm[r])
    BY DEF TPInv
  <2>2. Before(model, pc[q], block[q]) = Before(model, pc[r], block[r])
    <3>1. Before(model, pc[q], block[q]) \in Int /\ Before(model, pc[r], block[r]) \in Int
      BY <1>1, BeforeType
    <3> QED BY <1>1, <2>1, <3>1
  <2>3. kind # "none" BY DEF Kinds
  <2> QED BY <1>1, <1>3, <2>2, <2>3, SameKind
<1>4. ~Agreed(model) => pc[r] \in {"embedding", "row", "logits", "residual"}
  <2>1. KindAt(model, "word_embeddings") = "none" /\ KindAt(model, "column") = "none" /\ kind # "none"
    BY DEF KindAt, Kinds
  <2> QED BY <1>1, <1>2, <2>1 DEF RankInv, Failing, Early
<1>5. ASSUME ~Agreed(model), model.pretrain # "gpt"
      PROVE  pc[r] = "embedding"
  <2>1. /\ KindAt(model, "word_embeddings") = "none" /\ KindAt(model, "column") = "none" /\ kind # "none"
        /\ KindAt(model, "error") = "none" /\ KindAt(model, "embedding") = "all_reduce"
        /\ KindAt(model, "row") = "all_gather_mpu"
    BY <1>1, <1>5, CutFacts DEF KindAt, Kinds
  <2>2. 1 \in GroupOf(model) /\ 1 # 0
    BY <1>1, <1>5, LegalFacts, CutFacts DEF GroupOf
  <2>3. pc[1] \in Early \cup {"error"} /\ KindAt(model, pc[1]) = kind
    BY <1>1, <1>5, <2>2 DEF RankInv, Failing
  <2>4. kind = "all_reduce" BY <2>1, <2>3 DEF Early
  <2>5. pc[r] \in Early \cup {"error", "column", "row"} /\ KindAt(model, pc[r]) = kind
    BY <1>1, <1>5 DEF RankInv, Failing
  <2> QED BY <2>1, <2>4, <2>5 DEF Early
<1>6. Agreed(model) => Given(model, r, pc[r], comm[r]) BY <1>1 DEF RankInv, Values
<1>7. ~Agreed(model) => CutValues(model, r, pc[r], hidden[r], buffer[r], comm[r], out[r])
  BY <1>1, <1>2 DEF RankInv
<1> QED BY <1>1, <1>2, <1>3, <1>4, <1>5, <1>6, <1>7

\* With batches that the layers expect the results are complete.
LEMMA ResultAgreed ==
  ASSUME TPInv, Agreed(model), NEW kind \in Kinds, NEW x, Launched(kind, x), NEW r \in GroupOf(model)
  PROVE  LET y == Result(kind, x, r)
         IN IF kind = "all_gather_mpu" THEN \A o : Gotten(model, r, pc[r], y, o)
            ELSE \A f : Gotten(model, r, pc[r], f, y)
<1> DEFINE y == Result(kind, x, r)
<1>1. Legal(model) /\ Place(model, pc[r], block[r]) /\ KindAt(model, pc[r]) = kind
  BY OfLaunched
<1>2. ASSUME NEW q \in GroupOf(model)
      PROVE  /\ Given(model, q, pc[q], comm[q]) /\ comm[q].tensor = x[q] /\ KindAt(model, pc[q]) = kind
             /\ Place(model, pc[q], block[q]) /\ (pc[q] = "synced" <=> pc[r] = "synced")
  BY OfLaunched DEF Launched
<1>3. CASE kind = "all_reduce" /\ pc[r] = "synced"
  <2>1. model.sequence_parallel BY <1>1, <1>3, KindLabels
  <2>2. \A q \in GroupOf(model) : x[q] = Copies(Replicated(model), OnPart(model, q))
    BY <1>2, <1>3 DEF Given
  <2>3. Replicated(model) \in Nat BY <1>1, LegalFacts DEF Replicated
  <2>4. y = Copies(Replicated(model), Ones(model))
    BY <1>1, <1>3, <2>1, <2>2, <2>3, ReducedReplicated DEF Result
  <2> HIDE DEF y
  <2>5. \A f : Gotten(model, r, pc[r], f, y) BY <1>3, <2>4 DEF Gotten
  <2> QED BY <1>3, <2>5 DEF y
<1>4. CASE kind = "all_reduce" /\ pc[r] # "synced"
  <2>1. ASSUME NEW q \in GroupOf(model)
        PROVE  \/ pc[q] \in {"embedding", "loss"}
               \/ ~model.sequence_parallel /\ pc[q] \in {"residual", "grad_weight", "norm_backward"}
    BY <1>1, <1>2, <1>4, KindLabels
  <2>2. ASSUME NEW q \in GroupOf(model)
        PROVE  x[q] = SharesOf(model, q, Sequence(model))
    <3>1. pc[q] \in {"embedding", "loss", "residual", "grad_weight", "norm_backward"}
      BY <2>1
    <3> QED BY <1>2, <3>1 DEF Given
  <2>3. y = Complete(model, Sequence(model))
    BY <1>1, <1>4, <2>2, ReducedSequence DEF Result
  <2>4. ~model.sequence_parallel => Part(model, r) = Sequence(model) BY DEF Part
  <2> HIDE DEF y
  <2>5. \A f : Gotten(model, r, pc[r], f, y)
    <3>1. CASE pc[r] \in {"embedding", "loss"} BY <2>3, <3>1 DEF Gotten
    <3>2. CASE ~model.sequence_parallel /\ pc[r] \in {"residual", "grad_weight", "norm_backward"}
      BY <2>3, <2>4, <3>2 DEF Gotten
    <3> QED BY <2>1, <3>1, <3>2
  <2> QED BY <1>4, <2>5 DEF y
<1>5. CASE kind = "reduce_scatter"
  <2>1. ASSUME NEW q \in GroupOf(model)
        PROVE  model.sequence_parallel /\ pc[q] \in {"residual", "grad_weight", "norm_backward"}
    BY <1>1, <1>2, <1>5, KindLabels
  <2>2. \A q \in GroupOf(model) : x[q] = SharesOf(model, q, Sequence(model))
    BY <1>2, <2>1 DEF Given
  <2>3. model.sequence_parallel /\ pc[r] \in {"residual", "grad_weight", "norm_backward"}
    BY <2>1
  <2>4. y = Complete(model, SliceOf(model, r))
    BY <1>1, <1>5, <2>2, <2>3, ReducedSequence, SplitComplete DEF Result
  <2>5. Part(model, r) = SliceOf(model, r) BY <2>3 DEF Part
  <2> HIDE DEF y
  <2>6. \A f : Gotten(model, r, pc[r], f, y) BY <2>3, <2>4, <2>5 DEF Gotten
  <2> QED BY <1>5, <2>6 DEF y
<1>6. CASE kind \in {"all_gather", "all_gather_mpu"}
  <2>1. ASSUME NEW q \in GroupOf(model)
        PROVE  /\ model.sequence_parallel
               /\ pc[q] \in IF kind = "all_gather" THEN {"row_grads", "embedding_backward"}
                            ELSE {"row", "logits", "grad_input"}
    BY <1>1, <1>2, <1>6, KindLabels
  <2>2. ASSUME NEW q \in GroupOf(model)
        PROVE  x[q] = Complete(model, SliceOf(model, q))
    <3>1. model.sequence_parallel /\ pc[q] \in {"row", "logits", "grad_input", "row_grads", "embedding_backward"}
      BY <2>1
    <3>2. Part(model, q) = SliceOf(model, q) BY <3>1 DEF Part
    <3> QED BY <1>2, <3>1, <3>2 DEF Given
  <2>3. model.sequence_parallel BY <2>1
  <2>4. y = Complete(model, Sequence(model))
    BY <1>1, <1>6, <2>2, <2>3, GatheredSlices DEF Result
  <2> HIDE DEF y
  <2>5. CASE kind = "all_gather"
    <3>1. pc[r] \in {"row_grads", "embedding_backward"} BY <2>1, <2>5
    <3>2. \A f : Gotten(model, r, pc[r], f, y) BY <2>4, <3>1 DEF Gotten
    <3> QED BY <2>5, <3>2 DEF y
  <2>6. CASE kind = "all_gather_mpu"
    <3>1. pc[r] \in {"row", "logits", "grad_input"} BY <2>1, <2>6
    <3>2. \A o : Gotten(model, r, pc[r], y, o) BY <2>4, <3>1 DEF Gotten
    <3> QED BY <2>6, <3>2 DEF y
  <2> QED BY <1>6, <2>5, <2>6
<1> QED BY <1>3, <1>4, <1>5, <1>6 DEF Kinds

\* With arguments that do not agree they have the expected size.
LEMMA ResultCut ==
  ASSUME TPInv, ~Agreed(model), NEW kind \in Kinds, NEW x, Launched(kind, x), NEW r \in GroupOf(model)
  PROVE  LET y == Result(kind, x, r)
             m == [kind |-> "none"]
         IN IF kind = "all_gather_mpu" THEN \A o : CutValues(model, r, pc[r], hidden[r], y, m, o)
            ELSE \A f : CutValues(model, r, pc[r], hidden[r], f, m, y)
<1> DEFINE y == Result(kind, x, r)
           p == model.tensor_model_parallel_size
           k == CutSize(model)
           w == BatchSize(model)
           n == p * k
           m == [kind |-> "none"]
<1>1. ASSUME NEW q \in GroupOf(model)
      PROVE  /\ CutValues(model, q, pc[q], hidden[q], buffer[q], comm[q], out[q])
             /\ pc[q] \in {"embedding", "row", "logits", "residual"}
             /\ comm[q].tensor = x[q] /\ comm[q].kind # "none" /\ KindAt(model, pc[q]) = kind
  BY OfLaunched DEF Launched
<1>2. Legal(model) /\ model.sequence_parallel BY OfLaunched, CutFacts
<1>3. p \in Nat /\ p > 0 /\ w \in Nat /\ k \in Nat BY <1>2, LegalFacts, CutFacts
<1>4. n \in Nat /\ n \div p = k
  <2> HIDE DEF p, k
  <2> QED BY <1>3
<1>5. m.kind = "none" /\ "embedding" \in Early /\ {"row", "logits", "residual"} \cap Early = {}
  BY DEF Early
<1>6. pc[r] # "embedding" => hidden[r] \in Tensors(model, k)
  BY <1>1, <1>5 DEF CutValues
<1>7. /\ KindAt(model, "embedding") = "all_reduce" /\ KindAt(model, "row") = "all_gather_mpu"
      /\ KindAt(model, "logits") = "all_gather_mpu" /\ KindAt(model, "residual") = "reduce_scatter"
  BY <1>2 DEF KindAt
<1> HIDE DEF m
<1>8. CASE kind = "all_reduce"
  <2>1. \A q \in GroupOf(model) : pc[q] = "embedding" BY <1>1, <1>7, <1>8
  <2>2. \A q \in GroupOf(model) : \E t : DOMAIN t = 1 .. w /\ x[q] = SharesOf(model, q, t)
    BY <1>1, <2>1 DEF CutValues
  <2> DEFINE tokens == [q \in GroupOf(model) |-> CHOOSE t : DOMAIN t = 1 .. w /\ x[q] = SharesOf(model, q, t)]
  <2> HIDE DEF w
  <2>3. y \in Tensors(model, w)
    <3>1. \A q \in GroupOf(model) : DOMAIN tokens[q] = 1 .. w /\ x[q] = SharesOf(model, q, tokens[q])
      BY <2>2
    <3> HIDE DEF tokens
    <3> QED BY <1>2, <1>3, <1>8, <3>1, ReducedShares DEF Result
  <2> HIDE DEF y
  <2>4. pc[r] = "embedding" BY <2>1
  <2>5. \A f : CutValues(model, r, pc[r], hidden[r], f, m, y)
    BY <1>5, <2>3, <2>4 DEF CutValues, w
  <2> QED BY <1>8, <2>5 DEF y, m
<1>9. CASE kind = "all_gather_mpu"
  <2>1. \A q \in GroupOf(model) : pc[q] \in {"row", "logits"} BY <1>1, <1>7, <1>9
  <2>2. \A q \in GroupOf(model) : x[q] \in Tensors(model, k)
    BY <1>1, <2>1 DEF CutValues
  <2>3. y \in Tensors(model, n)
    <3> HIDE DEF k
    <3> QED BY <1>2, <1>3, <1>9, <2>2, GatheredTensors DEF Result
  <2> HIDE DEF y
  <2>4. pc[r] \in {"row", "logits"} BY <2>1
  <2>5. \A o : CutValues(model, r, pc[r], hidden[r], y, m, o)
    BY <1>5, <1>6, <2>3, <2>4 DEF CutValues
  <2> QED BY <1>9, <2>5 DEF y, m
<1>10. CASE kind = "reduce_scatter"
  <2>1. \A q \in GroupOf(model) : pc[q] = "residual" BY <1>1, <1>7, <1>10
  <2>2. \A q \in GroupOf(model) : \E t : DOMAIN t = 1 .. n /\ x[q] = SharesOf(model, q, t)
    BY <1>1, <2>1 DEF CutValues
  <2> DEFINE tokens == [q \in GroupOf(model) |-> CHOOSE t : DOMAIN t = 1 .. n /\ x[q] = SharesOf(model, q, t)]
  <2>3. \A q \in GroupOf(model) : DOMAIN tokens[q] = 1 .. n /\ x[q] = SharesOf(model, q, tokens[q])
    <3> HIDE DEF n
    <3> QED BY <2>2
  <2>4. Reduced(x) \in Tensors(model, n)
    <3> HIDE DEF tokens, n
    <3> QED BY <1>2, <1>4, <2>3, ReducedShares
  <2>5. y \in Tensors(model, k)
    <3> HIDE DEF n, k
    <3> QED BY <1>2, <1>4, <1>10, <2>4, SplitTensor DEF Result
  <2> HIDE DEF y
  <2>6. pc[r] = "residual" BY <2>1
  <2>7. \A f : CutValues(model, r, pc[r], hidden[r], f, m, y)
    BY <1>5, <1>6, <2>5, <2>6 DEF CutValues
  <2> QED BY <1>10, <2>7 DEF y, m
<1>11. kind # "all_gather"
  <2>1. pc[r] \in {"embedding", "row", "logits", "residual"} /\ KindAt(model, pc[r]) = kind
    BY <1>1
  <2> QED BY <1>7, <2>1
<1> QED BY <1>8, <1>9, <1>10, <1>11 DEF Kinds

\* The collective all ranks have launched keeps the invariant.
LEMMA CollectiveStep ==
  ASSUME TPInv, Collective
  PROVE  TPInv'
<1> DEFINE x == [r \in Group |-> comm[r].tensor]
           m == [kind |-> "none"]
<1>1. Legal(model) /\ model \in Models /\ Group = GroupOf(model)
  BY ModelFacts DEF TPInv
<1>2. PICK kind \in Kinds :
        /\ \A r \in Group : comm[r].kind = kind
        /\ IF kind = "all_gather_mpu"
           THEN buffer' = [r \in Group |-> Result(kind, x, r)] /\ out' = out
           ELSE out' = [r \in Group |-> Result(kind, x, r)] /\ buffer' = buffer
  BY DEF Collective, Kinds, Result
<1>3. /\ comm' = [r \in Group |-> m]
      /\ model' = model /\ pc' = pc /\ block' = block /\ hidden' = hidden /\ branch' = branch /\ saved' = saved
      /\ grads' = grads
  BY DEF Collective, None
<1>4. Launched(kind, x) BY <1>1, <1>2 DEF Launched
<1> HIDE DEF x, m
<1>5. ASSUME NEW r \in GroupOf(model)
      PROVE  /\ RankInv(model, r, pc[r], block[r], hidden[r], branch[r], saved[r], buffer'[r],
                        comm'[r], out'[r],
                        grads[r])
             /\ Clock(model, pc[r], block[r], comm'[r]) = Before(model, pc[r], block[r]) + 1
             /\ Clock(model, pc[r], block[r], comm[r]) = Before(model, pc[r], block[r]) + 0
  <2> DEFINE y == Result(kind, x, r)
  <2>1. RankInv(model, r, pc[r], block[r], hidden[r], branch[r], saved[r], buffer[r], comm[r],
                out[r], grads[r])
    BY OfRank
  <2>2. KindAt(model, pc[r]) = kind /\ comm[r].kind # "none" /\ pc[r] # "error" /\ kind # "none"
    BY <1>4, OfLaunched DEF Kinds
  <2>3. comm'[r] = m /\ m.kind = "none" /\ m = [kind |-> "none"] BY <1>1, <1>3 DEF m
  <2>4. /\ kind = "all_gather_mpu" => buffer'[r] = y /\ out'[r] = out[r]
        /\ kind # "all_gather_mpu" => buffer'[r] = buffer[r] /\ out'[r] = y
    BY <1>1, <1>2
  <2> HIDE DEF y
  <2>5. ASSUME Agreed(model)
        PROVE  Values(model, r, pc[r], block[r], hidden[r], branch[r], saved[r], buffer'[r],
                      comm'[r], out'[r],
                      grads[r])
    <3>1. Gotten(model, r, pc[r], buffer'[r], out'[r])
      <4>1. CASE kind = "all_gather_mpu"
        <5>1. \A o : Gotten(model, r, pc[r], y, o)
          BY <1>4, <2>5, <4>1, ResultAgreed DEF y
        <5> QED BY <2>4, <4>1, <5>1
      <4>2. CASE kind # "all_gather_mpu"
        <5>1. \A f : Gotten(model, r, pc[r], f, y)
          BY <1>4, <2>5, <4>2, ResultAgreed DEF y
        <5> QED BY <2>4, <4>2, <5>1
      <4> QED BY <4>1, <4>2
    <3>2. pc[r] = "grad_weight" => buffer'[r] = buffer[r]
      <4>1. KindAt(model, "grad_weight") # "all_gather_mpu" BY DEF KindAt
      <4> QED BY <2>2, <2>4, <4>1
    <3>3. Values(model, r, pc[r], block[r], hidden[r], branch[r], saved[r], buffer[r], comm[r],
                 out[r], grads[r])
      BY <2>1, <2>5 DEF RankInv
    <3> QED BY <2>3, <3>1, <3>2, <3>3 DEF Values
  <2>6. ASSUME ~Agreed(model)
        PROVE  CutValues(model, r, pc[r], hidden[r], buffer'[r], comm'[r], out'[r])
    <3>1. CASE kind = "all_gather_mpu"
      <4>1. \A o : CutValues(model, r, pc[r], hidden[r], y, m, o)
        BY <1>4, <2>3, <2>6, <3>1, ResultCut DEF y
      <4> QED BY <2>3, <2>4, <3>1, <4>1
    <3>2. CASE kind # "all_gather_mpu"
      <4>1. \A f : CutValues(model, r, pc[r], hidden[r], f, m, y)
        BY <1>4, <2>3, <2>6, <3>2, ResultCut DEF y
      <4> QED BY <2>3, <2>4, <3>2, <4>1
    <3> QED BY <3>1, <3>2
  <2>7. Calls(model, pc[r], comm'[r]) /\ Failing(model, r, pc[r], block[r], comm'[r])
    <3>1. ~Agreed(model) =>
            /\ pc[r] \in {"embedding", "row", "logits", "residual"}
            /\ model.pretrain = "gpt" \/ pc[r] = "embedding"
      BY <1>4, OfLaunched
    <3> QED BY <2>3, <3>1 DEF Calls, Failing, Early
  <2>8. RankInv(model, r, pc[r], block[r], hidden[r], branch[r], saved[r], buffer'[r], comm'[r],
                out'[r], grads[r])
    BY <2>1, <2>2, <2>5, <2>6, <2>7 DEF RankInv
  <2>9. /\ Clock(model, pc[r], block[r], comm'[r]) = Before(model, pc[r], block[r]) + 1
        /\ Clock(model, pc[r], block[r], comm[r]) = Before(model, pc[r], block[r]) + 0
    BY <2>2, <2>3 DEF Clock
  <2> QED BY <2>8, <2>9
<1>6. ASSUME NEW r \in GroupOf(model), NEW q \in GroupOf(model)
      PROVE  Clock(model, pc[r], block[r], comm'[r]) = Clock(model, pc[q], block[q], comm'[q])
  <2>1. Before(model, pc[r], block[r]) \in Int /\ Before(model, pc[q], block[q]) \in Int
    BY <1>4, BeforeType, OfLaunched
  <2>2. Before(model, pc[r], block[r]) + 0 = Before(model, pc[q], block[q]) + 0
    BY <1>5 DEF TPInv
  <2>3. /\ Clock(model, pc[r], block[r], comm'[r]) = Before(model, pc[r], block[r]) + 1
        /\ Clock(model, pc[q], block[q], comm'[q]) = Before(model, pc[q], block[q]) + 1
    BY <1>5
  <2> QED BY <2>1, <2>2, <2>3
<1>7. /\ PerRank(model, pc) /\ PerRank(model, block) /\ PerRank(model, hidden) /\ PerRank(model, branch)
      /\ PerRank(model, saved) /\ PerRank(model, buffer') /\ PerRank(model, comm') /\ PerRank(model, out')
      /\ PerRank(model, grads)
  <2>1. /\ PerRank(model, pc) /\ PerRank(model, block) /\ PerRank(model, hidden) /\ PerRank(model, branch)
        /\ PerRank(model, saved) /\ PerRank(model, buffer) /\ PerRank(model, out) /\ PerRank(model, grads)
    BY DEF TPInv
  <2>2. PerRank(model, comm') BY <1>1, <1>3 DEF PerRank
  <2>3. PerRank(model, [r \in Group |-> Result(kind, x, r)]) BY <1>1 DEF PerRank
  <2>4. PerRank(model, buffer') /\ PerRank(model, out') BY <1>2, <2>1, <2>3
  <2> QED BY <2>1, <2>2, <2>4
<1> QED BY <1>1, <1>3, <1>5, <1>6, <1>7 DEF TPInv

\* The tensor parallelism of megatron/core: a step of a rank, of a
\* collective, or none at the end.
LEMMA TPInvNext ==
  ASSUME TPInv, [TPNext]_TPvars
  PROVE  TPInv'
<1>1. Group = GroupOf(model) BY ModelFacts DEF TPInv
<1>2. CASE Collective BY <1>2, CollectiveStep
<1>3. ASSUME NEW r \in Group, Forward(r)
      PROVE  TPInv'
  BY <1>1, <1>3, WordEmbeddingsStep, EmbeddingStep, ColumnStep, RowStep, ResidualStep,
     CrossEntropyStep DEF Forward
<1>4. ASSUME NEW r \in Group, Backward(r)
      PROVE  TPInv'
  <2>1. r \in GroupOf(model) BY <1>1
  <2>2. CASE Loss(r) \/ RowBackward(r) \/ RowGrads(r) \/ ColumnBackward(r) \/ GradInput(r)
    BY <2>1, <2>2, LossStep, RowBackwardStep, RowGradsStep, ColumnBackwardStep, GradInputStep
  <2>3. CASE GradWeight(r) \/ NormBackward(r) \/ ScatterBackward(r) \/ EmbeddingBackward(r)
    BY <2>1, <2>3, GradWeightStep, NormBackwardStep, ScatterBackwardStep, EmbeddingBackwardStep
  <2> QED BY <1>4, <2>2, <2>3 DEF Backward
<1>5. ASSUME NEW r \in Group, ReduceGrads(r)
      PROVE  TPInv'
  BY <1>1, <1>5, ReduceModelGradsStep, SyncedStep DEF ReduceGrads
<1>6. CASE UNCHANGED TPvars
  <2>1. /\ model' = model /\ pc' = pc /\ block' = block /\ hidden' = hidden /\ branch' = branch /\ saved' = saved
        /\ buffer' = buffer /\ comm' = comm /\ out' = out /\ grads' = grads
    BY <1>6 DEF TPvars
  <2> QED BY <2>1 DEF TPInv
<1> QED BY <1>2, <1>3, <1>4, <1>5, <1>6 DEF TPNext, Done

\* Every state a run can reach satisfies the inductive invariant.
THEOREM TPInvariance ==
  TPSpec => []TPInv
<1>1. TPInit => TPInv BY TPInvInit
<1>2. TPInv /\ [TPNext]_TPvars => TPInv' BY TPInvNext
<1> QED BY <1>1, <1>2, PTL DEF TPSpec

\* In the end every gradient has its tokens once.
LEMMA DoneGradients ==
  ASSUME TPInv
  PROVE  GradientsComplete
<1>1. SUFFICES ASSUME NEW r \in GroupOf(model), pc[r] = "done", NEW p \in ParamsOf(model), NEW t \in TokenIds(model)
               PROVE  grads[r][p][t] = IF HasParam(p) /\ (IsPartial(p) => t \in OwnTokens(r)) THEN 1 ELSE 0
  <2>1. Group = GroupOf(model) /\ Params = ParamsOf(model) /\ Tokens = TokenIds(model)
    BY ModelFacts DEF TPInv
  <2> QED BY <2>1 DEF GradientsComplete, At
<1>2. Legal(model) /\ Place(model, "done", block[r]) /\ grads[r] = Gradients(model, r, "done", block[r])
  BY <1>1, BackLabels, OfBackRank
<1>3. block[r] = 0 /\ LastBlock(model) = Logits /\ LastBlock(model) \in Nat
  BY <1>2, BackPlaces, LegalFacts, ModelFacts DEF FirstBack, Final
<1>4. grads[r][p] = IF ~Accumulates(model, "done", 0, p) THEN Zeros(model)
                    ELSE IF p[2] \in {"norm", "bias"} /\ model.deepspeed THEN OnPart(model, r) ELSE Ones(model)
  BY <1>2, <1>3 DEF Gradients
<1>5. Accumulates(model, "done", 0, p) <=> HasParam(p)
  <2>1. p[1] \in 0 .. LastBlock(model) /\ p[2] \in {"norm", "column", "row", "bias", "word", "position"}
    BY ParamFacts
  <2>2. "done" \in Back /\ "done" \notin ColumnBack /\ "done" \in Final
    BY BackLabels
  <2>3. CASE p[2] \in {"norm", "column"}
    <3>1. Accumulates(model, "done", 0, p) <=> p[1] > 0
      BY <2>1, <2>2, <2>3 DEF Accumulates
    <3>2. HasParam(p) <=> p[1] > 0 BY <2>3 DEF HasParam
    <3> QED BY <3>1, <3>2
  <2>4. CASE p[2] \in {"row", "bias"}
    <3>1. Accumulates(model, "done", 0, p) <=> p[1] \in 1 .. LastBlock(model) - 1
      <4>1. p[1] \in 1 .. LastBlock(model) - 1 => p[1] > 0 BY <1>3
      <4>2. CASE p[2] = "row" BY <2>2, <4>1, <4>2 DEF Accumulates
      <4>3. CASE p[2] = "bias" BY <2>2, <4>1, <4>3 DEF Accumulates
      <4> QED BY <2>4, <4>2, <4>3
    <3>2. HasParam(p) <=> p[1] \in 1 .. Logits - 1 BY <2>4 DEF HasParam
    <3> QED BY <1>3, <3>1, <3>2
  <2>5. CASE p[2] \in {"word", "position"}
    BY <2>1, <2>2, <2>5 DEF Accumulates, HasParam
  <2> QED BY <2>1, <2>3, <2>4, <2>5
<1>6. OnPart(model, r)[t] = IF model.sequence_parallel => t \in OwnTokens(r) THEN 1 ELSE 0
  <2>1. CASE model.sequence_parallel
    <3>1. Split(InOrder, r) = Part(model, r) BY <1>2, <2>1, SplitSequence DEF Part
    <3> QED BY <2>1, <3>1 DEF OnPart, Seen, OwnTokens
  <2>2. CASE ~model.sequence_parallel BY <1>2, <2>2, OnSequence DEF Ones
  <2> QED BY <2>1, <2>2
<1> QED BY <1>4, <1>5, <1>6 DEF Zeros, Ones, IsPartial

\* A hidden state has an entry for each token of the rank, or none.
LEMMA HiddenType ==
  ASSUME TPInv, NEW r \in GroupOf(model)
  PROVE  hidden[r] \in {<<>>} \cup
           [1 .. Len(Batch(r)) \div (IF model.sequence_parallel THEN P ELSE 1) -> [Tokens \X Group -> {0, 1}]]
<1> DEFINE p == model.tensor_model_parallel_size
           d == Len(Batch(r)) \div (IF model.sequence_parallel THEN P ELSE 1)
           k == CutSize(model)
<1>1. /\ Legal(model)
      /\ RankInv(model, r, pc[r], block[r], hidden[r], branch[r], saved[r], buffer[r], comm[r],
                 out[r], grads[r])
  BY OfRank
<1>2. P = p /\ Tokens \X Group = Cells(model) /\ p \in Nat \ {0} /\ model.seq_length \in Nat \ {0}
      /\ Slice(model) \in Nat
  BY <1>1, LegalFacts, ModelFacts
<1>3. \A n \in Nat : [1 .. n -> [Tokens \X Group -> {0, 1}]] = Tensors(model, n)
  BY <1>2 DEF Tensors
<1>4. CASE pc[r] \in Early \/ (pc[r] = "error" /\ block[r] = 0)
  BY <1>1, <1>4 DEF RankInv
<1>5. CASE ~(pc[r] \in Early \/ (pc[r] = "error" /\ block[r] = 0)) /\ ~Agreed(model)
  <2>1. hidden[r] \in Tensors(model, k) BY <1>1, <1>5 DEF RankInv, CutValues
  <2>2. d = k BY <1>1, <1>2, <1>5, BatchFacts, CutFacts DEF CutSize
  <2>3. k \in Nat BY <1>1, <1>5, CutFacts
  <2> HIDE DEF d, k
  <2>4. hidden[r] \in [1 .. d -> [Tokens \X Group -> {0, 1}]]
    BY <1>3, <2>1, <2>2, <2>3
  <2> QED BY <2>4 DEF d
<1>6. CASE ~(pc[r] \in Early \/ (pc[r] = "error" /\ block[r] = 0)) /\ Agreed(model)
  <2>1. Agreed(model) BY <1>6
  <2>2. pc[r] \notin Early BY <1>6
  <2>3. hidden[r] = Complete(model, Part(model, r))
    BY <1>1, <2>1, <2>2 DEF RankInv, Values
  <2>4. Batch(r) = Sequence(model) BY <1>1, <2>1, BatchFacts
  <2>5. Len(Sequence(model)) = model.seq_length BY <1>2 DEF Sequence
  <2>6. d \in Nat /\ Part(model, r) \in [1 .. d -> TokenIds(model)]
    <3>1. CASE model.sequence_parallel
      <4>1. d = Slice(model) BY <1>2, <2>4, <2>5, <3>1 DEF Slice
      <4> HIDE DEF d
      <4> QED BY <1>1, <1>2, <3>1, <4>1, SliceTokens DEF Part
    <3>2. CASE ~model.sequence_parallel
      <4>1. d = model.seq_length BY <1>2, <2>4, <2>5, <3>2
      <4> HIDE DEF d
      <4> QED BY <1>1, <1>2, <3>2, <4>1, SequenceTokens DEF Part
    <3> QED BY <3>1, <3>2
  <2> HIDE DEF d
  <2>7. Complete(model, Part(model, r)) \in Tensors(model, d)
    <3>1. DOMAIN Part(model, r) = 1 .. d BY <2>6
    <3>2. \A t : Entry(model, t) \in [Cells(model) -> {0, 1}] BY DEF Entry
    <3> QED BY <3>1, <3>2 DEF Complete, Tensors
  <2> QED BY <1>3, <2>3, <2>6, <2>7 DEF d
<1> QED BY <1>4, <1>5, <1>6

\* The types of TypeOK follow from the invariant.
LEMMA TPInvTypes ==
  ASSUME TPInv
  PROVE  TPTypeOK
<1>1. Legal(model) /\ model \in Models /\ Group = GroupOf(model) /\ Blocks = 0 .. LastBlock(model)
      /\ LastBlock(model) \in Nat /\ LastBlock(model) >= 3
      /\ model.add_position_embedding \in BOOLEAN
  BY LegalFacts, ModelFacts DEF TPInv
<1>2. ASSUME NEW r \in GroupOf(model)
      PROVE  /\ RankInv(model, r, pc[r], block[r], hidden[r], branch[r], saved[r], buffer[r],
                        comm[r], out[r], grads[r])
             /\ Place(model, pc[r], block[r]) /\ Calls(model, pc[r], comm[r])
  BY OfRank DEF RankInv
<1>3. ASSUME NEW r \in GroupOf(model)
      PROVE  /\ block[r] \in Blocks
             /\ pc[r] = "error" =>
                  /\ model.sequence_parallel
                  /\ \/ model.pretrain = "gpt"
                     \/ model.pretrain = "gpt_pipe" /\ model.add_position_embedding
  <2>1. block[r] \in 0 .. LastBlock(model)
    <3>1. Place(model, pc[r], block[r]) BY <1>2
    <3> DEFINE b == block[r]
               n == LastBlock(model)
    <3>2. b = 0 \/ b = n \/ b \in 1 .. n \/ b \in 1 .. n - 1 BY <3>1 DEF Place
    <3> HIDE DEF b, n
    <3>3. b \in 0 .. n BY <1>1, <3>2 DEF n
    <3> QED BY <3>3 DEF b, n
  <2>2. ASSUME pc[r] = "error"
        PROVE  /\ model.sequence_parallel
               /\ model.pretrain = "gpt" \/ (model.pretrain = "gpt_pipe" /\ model.add_position_embedding)
    <3>1. ~Agreed(model)
      BY <1>2, <2>2 DEF Place, Early, FirstBack, Final, ColumnBack, RowBack
    <3> QED BY <1>1, <3>1, CutFacts
  <2> QED BY <1>1, <2>1, <2>2
<1>4. ASSUME NEW r \in GroupOf(model), NEW q \in GroupOf(model)
      PROVE  Over(r) \/ Over(q) \/ comm[r].kind = comm[q].kind
  <2>1. SUFFICES ASSUME comm[r].kind # "none", comm[q].kind # "none"
                 PROVE  comm[r].kind = comm[q].kind
    BY DEF Over
  <2>2. /\ KindAt(model, pc[r]) # "none" /\ comm[r].kind = KindAt(model, pc[r])
        /\ KindAt(model, pc[q]) # "none" /\ comm[q].kind = KindAt(model, pc[q])
    <3>1. \A l, m : Calls(model, l, m) /\ m.kind # "none" => KindAt(model, l) # "none" /\ m.kind = KindAt(model, l)
      BY DEF Calls
    <3> QED BY <1>2, <2>1, <3>1
  <2>3. /\ Clock(model, pc[r], block[r], comm[r]) = Before(model, pc[r], block[r]) + 0
        /\ Clock(model, pc[q], block[q], comm[q]) = Before(model, pc[q], block[q]) + 0
    BY <2>1 DEF Clock
  <2>4. Before(model, pc[r], block[r]) + 0 = Before(model, pc[q], block[q]) + 0
    BY <2>3 DEF TPInv
  <2>5. Before(model, pc[r], block[r]) \in Int /\ Before(model, pc[q], block[q]) \in Int
    BY <1>1, <1>2, BeforeType
  <2>6. Before(model, pc[r], block[r]) = Before(model, pc[q], block[q])
    BY <2>4, <2>5
  <2> QED BY <1>1, <1>2, <2>2, <2>6, SameKind
<1> QED BY <1>1, <1>3, <1>4, HiddenType DEF TPTypeOK

\* The types of TypeOK, the collectives that match and the cases in which a
\* rank fails (megatron/core/tensor_parallel/mappings.py and layers.py):
\* for every size of the group, of the sequence and of the model.
THEOREM TensorParallelTypeCorrect ==
  TPSpec => []TPTypeOK
<1>1. TPInv => TPTypeOK BY TPInvTypes
<1> QED BY <1>1, TPInvariance, PTL

\* However the layers are split and whichever communication overlaps the
\* computation (LinearWithGradAccumulationAndAsyncCommunication.backward):
\* each gradient has every token once, and so have those of replicated
\* parameters after their reduction (allreduce_layernorm_grads).  If train_step
\* leaves that to DeepSpeed, they have the rank's own tokens once.
THEOREM GradientsAlwaysComplete ==
  TPSpec => []GradientsComplete
<1>1. TPInv => GradientsComplete BY DoneGradients
<1> QED BY <1>1, TPInvariance, PTL
=============================================================================
