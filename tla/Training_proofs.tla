--------------------------- MODULE Training_proofs ---------------------------
(***************************************************************************)
(* Proofs about Training, for every number of ranks, iterations and        *)
(* relaunches and every job whose kill switch, if it has one, is looked up *)
(* by one rank only.                                                       *)
(***************************************************************************)
EXTENDS Training, FiniteSetTheorems, TLAPS

-----------------------------------------------------------------------------
\* Facts about numbers.

\* A product grows with its factor by at least the other one.
LEMMA NextMultiple ==
  ASSUME NEW a \in Int, NEW b \in Int, NEW s \in Nat, a < b
  PROVE  a * s + s <= b * s
<1>1. PICK d \in Nat : b = a + 1 + d
  <2>1. b - a - 1 \in Nat /\ b = a + 1 + (b - a - 1)
    OBVIOUS
  <2> QED BY <2>1
<1>2. b * s = a * s + s + d * s
  BY <1>1
<1>3. d * s \in Nat
  OBVIOUS
<1> QED BY <1>2, <1>3

\* Division with remainder.
LEMMA Quotient ==
  ASSUME NEW j \in Int, NEW s \in Nat \ {0}
  PROVE  /\ j \div s \in Int
         /\ j % s \in 0 .. s - 1
         /\ j = (j \div s) * s + (j % s)
  OBVIOUS

\* A number has one pair of digits in base b.
LEMMA DigitsUnique ==
  ASSUME NEW b \in Nat \ {0}, NEW x \in Int, NEW y \in 0 .. b - 1,
         NEW u \in Int, NEW v \in 0 .. b - 1, x * b + y = u * b + v
  PROVE  x = u /\ y = v
<1>0. x * b \in Int /\ u * b \in Int
  OBVIOUS
<1>1. CASE x < u
  <2>1. x * b + b <= u * b
    BY <1>1, NextMultiple
  <2> QED BY <1>0, <2>1
<1>2. CASE u < x
  <2>1. u * b + b <= x * b
    BY <1>2, NextMultiple
  <2> QED BY <1>0, <2>1
<1>3. CASE x = u
  BY <1>0, <1>3
<1> QED BY <1>1, <1>2, <1>3

\* Digits below a and b make a number below a * b, ...
LEMMA DigitsBound ==
  ASSUME NEW a \in Nat \ {0}, NEW b \in Nat \ {0}, NEW x \in 0 .. a - 1, NEW y \in 0 .. b - 1
  PROVE  x * b + y \in 0 .. a * b - 1
<1>1. x * b \in Nat /\ a * b \in Nat
  OBVIOUS
<1>2. x * b + b <= a * b
  BY NextMultiple
<1> QED BY <1>1, <1>2

\* ... and every such number has them.
LEMMA Digits ==
  ASSUME NEW a \in Nat \ {0}, NEW b \in Nat \ {0}, NEW r \in 0 .. a * b - 1
  PROVE  /\ r \div b \in 0 .. a - 1
         /\ r % b \in 0 .. b - 1
         /\ r = (r \div b) * b + (r % b)
<1> DEFINE x == r \div b
           y == r % b
<1>1. x \in Int /\ y \in 0 .. b - 1 /\ r = x * b + y /\ a * b \in Int /\ r \in Int
  BY Quotient
<1> HIDE DEF x, y
<1>0. x * b \in Int
  BY <1>1
<1>2. 0 <= x
  <2>1. CASE x < 0
    <3>1. x * b + b <= 0 * b
      BY <1>1, <2>1, NextMultiple
    <3> QED BY <1>1, <1>0, <3>1
  <2> QED BY <1>1, <2>1
<1>3. x < a
  <2>1. CASE a < x
    <3>1. a * b + b <= x * b
      BY <1>1, <2>1, NextMultiple
    <3> QED BY <1>1, <1>0, <3>1
  <2>2. CASE a = x
    BY <2>2, <1>1, <1>0
  <2> QED BY <1>1, <2>1, <2>2
<1>4. x \in 0 .. a - 1
  BY <1>1, <1>2, <1>3
<1>5. x = r \div b /\ y = r % b
  BY DEF x, y
<1> QED BY <1>1, <1>4, <1>5

\* Division finds the digits.
LEMMA ExactQuotient ==
  ASSUME NEW n \in Int, NEW b \in Nat \ {0}, NEW y \in 0 .. b - 1
  PROVE  (n * b + y) \div b = n /\ (n * b + y) % b = y
<1> DEFINE j == n * b + y
<1>1. j \in Int
  OBVIOUS
<1>2. j \div b \in Int /\ j % b \in 0 .. b - 1 /\ j = (j \div b) * b + (j % b)
  BY <1>1, Quotient
<1>3. j = n * b + y
  OBVIOUS
<1> HIDE DEF j
<1>4. n = j \div b /\ y = j % b
  BY <1>2, <1>3, DigitsUnique
<1> QED BY <1>4 DEF j

\* The quotient of a natural number is one.
LEMMA QuotientOfNat ==
  ASSUME NEW x \in Nat, NEW s \in Nat \ {0}
  PROVE  x \div s \in Nat
<1> DEFINE q == x \div s
           r == x % s
<1>1. q \in Int /\ r \in 0 .. s - 1 /\ x = q * s + r
  BY Quotient
<1> HIDE DEF q, r
<1>2. CASE q < 0
  <2>1. q * s + s <= 0 * s
    BY <1>1, <1>2, NextMultiple
  <2>2. q * s \in Int
    BY <1>1
  <2> QED BY <1>1, <2>1, <2>2
<1>3. q \in Nat
  BY <1>1, <1>2
<1> QED BY <1>3 DEF q

\* A set of numbers that is not empty has a least element.
LEMMA LeastElement ==
  ASSUME NEW C \in SUBSET Nat, C # {}
  PROVE  \E m \in C : \A k \in C : m <= k
<1> DEFINE Less == StrictSubsetOrdering(Nat)
           F == FiniteSubsetsOf(Nat)
           T == {1 .. n : n \in C}
<1>1. IsWellFoundedOn(Less, F)
  BY FS_StrictSubsetOrderingWellFounded
<1>2. T \subseteq F
  <2>1. ASSUME NEW n \in C PROVE 1 .. n \in F
    <3>1. IsFiniteSet(1 .. n)
      BY FS_Interval
    <3> QED BY <3>1 DEF FiniteSubsetsOf
  <2> QED BY <2>1
<1>3. T # {}
  OBVIOUS
<1>4. PICK x \in T : \A y \in T : ~ (<<y, x>> \in Less)
  <2> HIDE DEF Less, F, T
  <2> QED BY <1>1, <1>2, <1>3, WFMin
<1>5. PICK m \in C : x = 1 .. m
  OBVIOUS
<1>6. ASSUME NEW k \in C, k < m
      PROVE  FALSE
  <2>1. 1 .. k \in T
    OBVIOUS
  <2>2. ~ (<<1 .. k, 1 .. m>> \in Less)
    BY <1>4, <1>5, <2>1
  <2>3. 1 .. k \subseteq 1 .. m /\ m \in 1 .. m /\ m \notin 1 .. k
    BY <1>6
  <2>4. 1 .. k \in SUBSET Nat /\ 1 .. m \in SUBSET Nat
    OBVIOUS
  <2>5. <<1 .. k, 1 .. m>> \in Less
    BY <2>3, <2>4 DEF StrictSubsetOrdering
  <2> QED BY <2>2, <2>5
<1> QED BY <1>6

\* A set that has 0 and with every number the next one has them all.
LEMMA SetInduction ==
  ASSUME NEW T \in SUBSET Nat, 0 \in T, \A n \in T : n + 1 \in T
  PROVE  T = Nat
<1> DEFINE C == Nat \ T
<1>1. SUFFICES ASSUME C # {} PROVE FALSE
  OBVIOUS
<1>2. PICK x \in C : \A k \in C : x <= k
  BY <1>1, LeastElement
<1>3. x - 1 \in Nat /\ x - 1 \in T
  BY <1>2
<1> QED BY <1>2, <1>3

-----------------------------------------------------------------------------
\* A job of several ranks has no kill switch: they would look at its file
\* at different times.
KillSwitchAlone == \A c \in Configs : c.kill_switch_file => WorldSize(c) = 1

-----------------------------------------------------------------------------
\* What a rank holds is a function of the steps it has trained.

Tiled(steps) ==
  \A i \in DOMAIN steps :
    /\ steps[i].from = (IF i = 1 THEN 0 ELSE steps[i-1].to)
    /\ steps[i].to - steps[i].from \in 1 .. args.rampup.global

Used(steps) == IF steps = <<>> THEN 0 ELSE steps[Len(steps)].to

TrainCounted(s) ==
  /\ s.optim = s.model /\ Tiled(s.model)
  /\ s.iteration = Len(s.model) /\ s.iteration <= TrainIters
  /\ s.consumed = Used(s.model)
  /\ s.num_steps = AppliedSamples(s.model)

\* At most this much validation data is used in the first i iterations.
MostEvaluated(i) == (i \div args.eval_interval) * (args.eval_iters * args.rampup.global)

EvalCounted(s) ==
  /\ s.consumed_valid = EvaluatedSamples(s.model)
  /\ s.consumed_valid <= MostEvaluated(s.iteration)
  /\ s.consumed_valid = 0 /\ args.eval_iters > 0 => s.iteration < args.eval_interval

Counted(s) == TrainCounted(s) /\ EvalCounted(s)

\* After a step and before its evaluation.
EvalDue(r) ==
  LET s == state[r]
      last == s.model[Len(s.model)]
  IN /\ s.iteration > 0 /\ s.iteration % args.eval_interval = 0 /\ args.eval_iters > 0
     /\ batch_size[r] = last.to - last.from
     /\ s.consumed_valid + args.eval_iters * batch_size[r] = EvaluatedSamples(s.model)
     /\ s.consumed_valid <= MostEvaluated(s.iteration - 1)

-----------------------------------------------------------------------------
\* The labels of the stages of a launch.

Early == {"init", "start_time", "load"}
Unloaded == Early \cup {"metadata", "load_file", "aborted"}
Writing == {"save_timer", "save", "gather", "open_optim", "close_optim", "open_model",
            "close_model", "save_barrier", "open_tracker", "close_tracker"}

\* Rank 0 is writing the tracker file.
Publishing == pc[0] \in {"open_tracker", "close_tracker"}

InSave(r) == pc[r] \in Writing \/ (pc[r] = "save_done" /\ Publishing)
AfterSave(r) == pc[r] = "stop_timer" \/ (pc[r] = "save_done" /\ ~Publishing)

\* How far a rank is past the last published checkpoint.
LastSave(i) == (i \div args.save_interval) * args.save_interval
Published(r) == state[r] = saved
Unsaved(r) == /\ saved.iteration < state[r].iteration
              /\ LastSave(state[r].iteration - 1) <= saved.iteration
Lags(r) == /\ saved.iteration < state[r].iteration \/ Published(r)
           /\ LastSave(state[r].iteration) <= saved.iteration

\* While a rank loads.
LoadInv(r) ==
  /\ pc[r] \in Early => state[r] = Fresh
  /\ pc[r] \in {"metadata", "load_file"} =>
       tracker \in Iterations /\ state[r] = [Fresh EXCEPT !.iteration = tracker]
  /\ pc[r] \in {"loaded", "build_data"} => Published(r)
  /\ pc[r] \in Unloaded \cup {"loaded", "build_data"} => ret[r] = "init"

\* While it trains.
TrainInv(r) ==
  /\ pc[r] \notin Unloaded => TrainCounted(state[r])
  /\ pc[r] \notin Unloaded \cup {"evaluate", "finished"} => EvalCounted(state[r])
  /\ pc[r] = "evaluate" => EvalDue(r)
  /\ pc[r] \notin Unloaded \cup {"loaded", "build_data", "finished", "exited"} =>
       data_iterator[r] = state[r].consumed /\ valid_iterator[r] = state[r].consumed_valid
  /\ batch_size[r] <= args.rampup.global
  /\ valid_iterator[r] <= MostEvaluated(TrainIters) + args.eval_iters * args.rampup.global

\* Where it stands towards the last published checkpoint.
SaveInv(r) ==
  /\ pc[r] \in {"loop", "train_step"} => Lags(r)
  /\ pc[r] = "train_step" => state[r].iteration < TrainIters
  /\ pc[r] \in {"train_step", "evaluate", "signals", "checkpoint"} => ~saved_checkpoint[r]
  /\ pc[r] \in {"evaluate", "signals", "checkpoint"} => Unsaved(r)
  /\ pc[r] \in {"duration", "exits"} =>
       IF saved_checkpoint[r] THEN Published(r)
       ELSE Unsaved(r) /\ state[r].iteration % args.save_interval # 0
  /\ InSave(r) \/ AfterSave(r) =>
       /\ ret[r] \in {"exited", "exit_barrier", "finished", AfterCheckpoint}
       /\ saved_checkpoint[r] <=> ret[r] = AfterCheckpoint
       /\ ret[r] = "finished" => state[r].iteration = TrainIters
  /\ InSave(r) => Unsaved(r) \/ (ret[r] = "finished" /\ Published(r))
  /\ AfterSave(r) => Published(r)
  /\ pc[r] = "stop_timer" => ret[r] # "finished"
  /\ pc[r] \in {"exit_barrier", "last_evaluations"} => Published(r)
  /\ pc[r] \in {"exited", "finished"} =>
       state[r].model = saved.model \/ (pc[r] = "exited" /\ ret[r] = "init")

Written(r) == \/ pc[r] \in {"save_barrier", "open_tracker", "close_tracker"}
              \/ pc[r] = "save_done" /\ Publishing

\* What it has written.
FileInv(r) ==
  LET file == files[state[r].iteration][Shard(r)]
  IN /\ pc[r] \in {"gather", "open_optim", "close_optim"} => args.use_distributed_optimizer
     /\ pc[r] \in {"open_optim", "close_optim", "open_model", "close_model"} =>
          DataParallelRank(r) = 0
     /\ pc[r] \in {"open_tracker", "close_tracker"} => r = 0
     /\ pc[r] \in {"open_model", "close_model"} /\ args.use_distributed_optimizer =>
          file["distrib_optim"] = Complete(state[r])
     /\ Written(r) /\ DataParallelRank(r) = 0 =>
          /\ file["model_optim_rng"] = Complete(state[r])
          /\ args.use_distributed_optimizer => file["distrib_optim"] = Complete(state[r])

RankInv(r) == LoadInv(r) /\ TrainInv(r) /\ SaveInv(r) /\ FileInv(r)

\* What is on disk.
DiskInv ==
  /\ Counted(saved)
  /\ tracker = None => saved = Fresh
  /\ tracker \in Iterations => tracker = saved.iteration
  /\ tracker \in 1 .. TrainIters - 1 => Whole(tracker)
  /\ tracker = TrainIters =>
       \A sh \in Shards, k \in Kinds :
         k = "model_optim_rng" \/ args.use_distributed_optimizer =>
           files[TrainIters][sh][k] \in {Partial, Complete(saved)}

-----------------------------------------------------------------------------
\* The collective a rank enters next, and its ret and saved_checkpoint when
\* it does, as long as no kill switch interferes.

FromLoop(r, rt) ==
  IF state[r].iteration < TrainIters THEN <<"train_step", rt, FALSE>>
  ELSE <<"save_barrier", "finished", FALSE>>

FromExits(r, rt, sc) ==
  IF args.exit_interval # 0 /\ state[r].iteration % args.exit_interval = 0
  THEN IF sc THEN <<"exit_barrier", rt, TRUE>> ELSE <<"save_timer", "exit_barrier", FALSE>>
  ELSE FromLoop(r, rt)

FromCheckpoint(r) ==
  IF state[r].iteration % args.save_interval = 0
  THEN <<"save_timer", AfterCheckpoint, TRUE>>
  ELSE IF args.exit_duration_in_mins THEN <<"duration", ret[r], saved_checkpoint[r]>>
  ELSE FromExits(r, ret[r], saved_checkpoint[r])

NextWait(r) ==
  IF pc[r] = "init" THEN "start_time"
  ELSE IF pc[r] = "load" THEN IF tracker = None THEN "loaded" ELSE "metadata"
  ELSE IF pc[r] = "load_file" THEN "loaded"
  ELSE IF pc[r] \in {"save", "gather", "open_optim", "close_optim", "open_model",
                     "close_model"} THEN "save_barrier"
  ELSE IF pc[r] \in {"open_tracker", "close_tracker"} THEN "save_done"
  ELSE pc[r]

Future(r) ==
  IF pc[r] \in {"build_data", "loop"} THEN FromLoop(r, ret[r])
  ELSE IF pc[r] = "checkpoint" THEN FromCheckpoint(r)
  ELSE IF pc[r] = "exits" THEN FromExits(r, ret[r], saved_checkpoint[r])
  ELSE <<NextWait(r), ret[r], saved_checkpoint[r]>>

PairInv(r, q) ==
  /\ pc[r] # "aborted" /\ pc[q] # "aborted" => Future(r) = Future(q)
  /\ pc[r] = "aborted" => pc[q] \in {"load", "metadata", "load_file", "loaded", "aborted"}
  /\ pc[r] \notin Unloaded /\ pc[q] \notin Unloaded => state[r].model = state[q].model

\* The inductive invariant.
IInv ==
  /\ TypeOK
  /\ DiskInv
  /\ \A r \in Ranks : RankInv(r)
  /\ \A r, q \in Ranks : PairInv(r, q)

-----------------------------------------------------------------------------
\* Sums.

\* sum is what Total computes from f up to n.
IsSum(sum, f, n) == sum = [k \in 0 .. n |-> IF k = 0 THEN 0 ELSE sum[k-1] + f[k]]

\* Such a sum exists for every n.
LEMMA SumExists ==
  ASSUME NEW f, NEW n \in Nat
  PROVE  \E sum : IsSum(sum, f, n)
<1> DEFINE T == {m \in Nat : \E sum : IsSum(sum, f, m)}
<1>1. 0 \in T
  <2> DEFINE g == [k \in 0 .. 0 |-> 0]
  <2>1. IsSum(g, f, 0)
    BY DEF IsSum
  <2> QED BY <2>1
<1>2. ASSUME NEW m \in T PROVE m + 1 \in T
  <2>1. PICK g : IsSum(g, f, m)
    OBVIOUS
  <2> DEFINE h == [k \in 0 .. m + 1 |-> IF k = m + 1 THEN g[m] + f[m+1] ELSE g[k]]
  <2>2. \A k \in 0 .. m : g[k] = IF k = 0 THEN 0 ELSE g[k-1] + f[k]
    BY <2>1 DEF IsSum
  <2>3. \A k \in 0 .. m + 1 : h[k] = IF k = 0 THEN 0 ELSE h[k-1] + f[k]
    BY <2>2
  <2>4. IsSum(h, f, m + 1)
    BY <2>3 DEF IsSum
  <2> QED BY <2>4
<1>3. T = Nat
  <2> HIDE DEF T
  <2>1. T \in SUBSET Nat
    BY DEF T
  <2> QED BY <1>1, <1>2, <2>1, SetInduction
<1> QED BY <1>3

\* Sums of functions that agree up to m agree up to m.
LEMMA SumUnique ==
  ASSUME NEW f, NEW g, NEW m \in Nat, NEW n \in Nat, m <= n, NEW a, NEW b,
         IsSum(a, f, m), IsSum(b, g, n), \A k \in 1 .. m : f[k] = g[k]
  PROVE  \A k \in 0 .. m : a[k] = b[k]
<1> DEFINE T == {k \in Nat : k <= m => a[k] = b[k]}
<1>1. \A k \in 0 .. m : /\ a[k] = IF k = 0 THEN 0 ELSE a[k-1] + f[k]
                        /\ b[k] = IF k = 0 THEN 0 ELSE b[k-1] + g[k]
  BY DEF IsSum
<1>2. 0 \in T
  BY <1>1
<1>3. ASSUME NEW k \in T PROVE k + 1 \in T
  BY <1>1
<1>4. T = Nat
  <2> HIDE DEF T
  <2>1. T \in SUBSET Nat
    BY DEF T
  <2> QED BY <1>2, <1>3, <2>1, SetInduction
<1> QED BY <1>4

\* Total is the last value of a sum.
LEMMA TotalIsSum ==
  ASSUME NEW f, NEW n \in Nat
  PROVE  \E sum : IsSum(sum, f, n) /\ Total(f, n) = sum[n]
<1> DEFINE g == CHOOSE sum : IsSum(sum, f, n)
<1>1. IsSum(g, f, n)
  BY SumExists
<1>2. Total(f, n) = g[n]
  BY DEF Total, IsSum
<1> QED BY <1>1, <1>2

\* Nothing adds up to 0.
LEMMA TotalZero ==
  ASSUME NEW f
  PROVE  Total(f, 0) = 0
BY TotalIsSum DEF IsSum

\* One summand more.
LEMMA TotalStep ==
  ASSUME NEW f, NEW n \in Nat
  PROVE  Total(f, n + 1) = Total(f, n) + f[n+1]
<1>1. PICK a : IsSum(a, f, n) /\ Total(f, n) = a[n]
  BY TotalIsSum
<1>2. PICK b : IsSum(b, f, n + 1) /\ Total(f, n + 1) = b[n+1]
  BY TotalIsSum
<1>3. b[n+1] = b[n] + f[n+1]
  BY <1>2 DEF IsSum
<1>4. a[n] = b[n]
  BY <1>1, <1>2, SumUnique
<1> QED BY <1>1, <1>2, <1>3, <1>4

\* Total looks at f[1] .. f[n] only.
LEMMA TotalSame ==
  ASSUME NEW n \in Nat, NEW f, NEW g, \A k \in 1 .. n : f[k] = g[k]
  PROVE  Total(f, n) = Total(g, n)
<1>1. PICK a : IsSum(a, f, n) /\ Total(f, n) = a[n]
  BY TotalIsSum
<1>2. PICK b : IsSum(b, g, n) /\ Total(g, n) = b[n]
  BY TotalIsSum
<1> QED BY <1>1, <1>2, SumUnique

-----------------------------------------------------------------------------
\* The arguments of a job.

\* The arguments of a job have their types.
LEMMA ArgsType ==
  ASSUME args \in Configs
  PROVE  /\ args.data_parallel_size \in Nat \ {0} /\ args.model_parallel_size \in Nat \ {0}
         /\ args.save_interval \in Nat \ {0} /\ args.eval_interval \in Nat \ {0}
         /\ args.eval_iters \in Nat /\ args.exit_interval \in Nat
         /\ args.exit_duration_in_mins \in BOOLEAN /\ args.exit_signal_handler \in BOOLEAN
         /\ args.kill_switch_file \in BOOLEAN /\ args.use_distributed_optimizer \in BOOLEAN
         /\ args.rampup.start \in Nat \ {0} /\ args.rampup.increment \in Nat \ {0}
         /\ args.rampup.ramup_samples \in Nat \ {0} /\ args.rampup.global \in Nat \ {0}
         /\ args.rampup.start < args.rampup.global
         /\ (args.rampup.global - args.rampup.start) % args.rampup.increment = 0
         /\ TrainIters \in Nat \ {0}
<1>1. args \in Config
  BY ConfigsAssumption
<1>2. args.rampup \in Rampup
  BY <1>1 DEF Config
<1> QED BY <1>1, <1>2, TrainItersAssumption DEF Config, Rampup

\* A rank is a place in the data-parallel group of its shard.
LEMMA RankFacts ==
  ASSUME args \in Configs
  PROVE  /\ 0 \in Ranks /\ Ranks \subseteq Nat
         /\ \A r \in Ranks : Shard(r) \in Shards
         /\ \A r, q \in Ranks :
              DataParallelRank(r) = 0 /\ DataParallelRank(q) = 0 /\ Shard(r) = Shard(q)
                => r = q
         /\ \A sh \in Shards : \E r \in Ranks : Shard(r) = sh /\ DataParallelRank(r) = 0
<1> DEFINE d == args.data_parallel_size
           m == args.model_parallel_size
<1>1. d \in Nat \ {0} /\ m \in Nat \ {0}
  BY ArgsType
<1>2. WorldSize(args) = m * d /\ m * d \in Nat
  <2>1. d * m = m * d /\ m * d \in Nat
    BY <1>1
  <2> QED BY <2>1 DEF WorldSize
<1>3. \A r \in Ranks : r \in 0 .. m * d - 1
  BY <1>2 DEF Ranks
<1>4. ASSUME NEW r \in Ranks
      PROVE  Shard(r) \in Shards /\ r = Shard(r) * d + DataParallelRank(r)
  <2>1. r \div d \in 0 .. m - 1 /\ r = (r \div d) * d + (r % d)
    <3> HIDE DEF d, m
    <3> QED BY <1>1, <1>3, Digits
  <2> QED BY <2>1 DEF Shard, Shards, DataParallelRank
<1>5. ASSUME NEW sh \in Shards
      PROVE  \E r \in Ranks : Shard(r) = sh /\ DataParallelRank(r) = 0
  <2>1. sh \in 0 .. m - 1 /\ 0 \in 0 .. d - 1
    BY <1>1 DEF Shards
  <2>2. sh * d + 0 \in 0 .. m * d - 1
    <3> HIDE DEF d, m
    <3> QED BY <1>1, <2>1, DigitsBound
  <2>3. (sh * d + 0) \div d = sh /\ (sh * d + 0) % d = 0
    <3>1. sh \in Int
      BY <2>1
    <3> HIDE DEF d, m
    <3> QED BY <1>1, <2>1, <3>1, ExactQuotient
  <2> DEFINE r == sh * d + 0
  <2>4. r \in Ranks /\ r \div d = sh /\ r % d = 0
    BY <1>2, <2>2, <2>3 DEF Ranks
  <2> QED BY <2>4 DEF Shard, DataParallelRank
<1>6. 0 \in Ranks
  <2>1. 0 \in 0 .. m - 1 /\ 0 \in 0 .. d - 1
    BY <1>1
  <2>2. 0 * d + 0 \in 0 .. m * d - 1
    <3> HIDE DEF d, m
    <3> QED BY <1>1, <2>1, DigitsBound
  <2>3. 0 * d + 0 = 0
    BY <1>1
  <2> QED BY <1>2, <2>2, <2>3 DEF Ranks
<1>7. ASSUME NEW r \in Ranks, NEW q \in Ranks,
             DataParallelRank(r) = 0, DataParallelRank(q) = 0, Shard(r) = Shard(q)
      PROVE  r = q
  BY <1>4, <1>7
<1>8. Ranks \subseteq Nat
  BY DEF Ranks
<1> QED BY <1>4, <1>5, <1>6, <1>7, <1>8

\* The formula of the ramp-up.
LEMMA RampBound ==
  ASSUME NEW g \in Nat \ {0}, NEW s \in Nat \ {0}, NEW i \in Nat \ {0}, NEW R \in Nat \ {0},
         NEW c \in Nat, s < g, (g - s) % i = 0, c <= R
  PROVE  s + ((c * ((g - s) \div i)) \div R) * i \in 1 .. g
<1>1. PICK n \in Nat : n = (g - s) \div i /\ g - s = n * i
  <2>1. g - s \in Nat
    OBVIOUS
  <2>2. (g - s) \div i \in Nat
    BY <2>1, QuotientOfNat
  <2>3. g - s = ((g - s) \div i) * i + ((g - s) % i)
    BY <2>1, Quotient
  <2>4. ((g - s) \div i) * i \in Nat
    BY <2>2
  <2> QED BY <2>2, <2>3, <2>4
<1>2. c * n \in Nat /\ R * n \in Nat /\ n * R = R * n
  OBVIOUS
<1>3. PICK k \in Nat : k = (c * n) \div R /\ k * R <= c * n
  <2>1. PICK x \in Nat : x = c * n
    BY <1>2
  <2>2. x \div R \in Nat
    BY QuotientOfNat
  <2>3. x = (x \div R) * R + (x % R) /\ x % R \in 0 .. R - 1
    BY Quotient
  <2>4. (x \div R) * R \in Nat
    BY <2>2
  <2> QED BY <2>1, <2>2, <2>3, <2>4
<1>4. c * n <= R * n
  <2>1. CASE c = R
    BY <1>2, <2>1
  <2>2. CASE c < R
    <3>1. c * n + n <= R * n
      BY <2>2, NextMultiple
    <3> QED BY <1>2, <3>1
  <2> QED BY <2>1, <2>2
<1>5. k <= n
  <2>1. SUFFICES ASSUME n < k PROVE FALSE
    OBVIOUS
  <2>2. n * R + R <= k * R
    BY <2>1, NextMultiple
  <2>3. n * R \in Nat /\ k * R \in Nat
    OBVIOUS
  <2> QED BY <1>2, <1>3, <1>4, <2>2, <2>3
<1>6. k * i <= n * i
  <2>1. k * i \in Nat /\ n * i \in Nat
    OBVIOUS
  <2>2. CASE k < n
    <3>1. k * i + i <= n * i
      BY <2>2, NextMultiple
    <3> QED BY <2>1, <3>1
  <2> QED BY <1>5, <2>1, <2>2
<1>7. k * i \in Nat
  OBVIOUS
<1> QED BY <1>1, <1>3, <1>6, <1>7

\* A batch has at least one sample and at most the global batch size.
LEMMA BatchType ==
  ASSUME args \in Configs, NEW c \in Nat
  PROVE  GlobalBatchSize(c) \in 1 .. args.rampup.global
<1>1. CASE c > args.rampup.ramup_samples
  BY <1>1, ArgsType DEF GlobalBatchSize
<1>2. CASE ~(c > args.rampup.ramup_samples)
  <2>1. c <= args.rampup.ramup_samples
    BY <1>2, ArgsType
  <2> QED BY <1>2, <2>1, ArgsType, RampBound DEF GlobalBatchSize
<1> QED BY <1>1, <1>2

-----------------------------------------------------------------------------
\* Counting the steps of a rank.

\* A job that starts from nothing has its counters right.
LEMMA FreshCounted ==
  ASSUME args \in Configs
  PROVE  Fresh \in State /\ Counted(Fresh)
<1>1. Fresh \in State
  BY DEF Fresh, State
<1>2. AppliedSamples(<<>>) = 0 /\ EvaluatedSamples(<<>>) = 0
  BY TotalZero DEF AppliedSamples, EvaluatedSamples
<1>3. MostEvaluated(0) = 0
  <2>1. 0 \div args.eval_interval = 0 /\ args.eval_iters * args.rampup.global \in Nat
    BY ArgsType
  <2> QED BY <2>1 DEF MostEvaluated
<1>4. TrainCounted(Fresh)
  BY <1>2, ArgsType DEF TrainCounted, Fresh, Tiled, Used
<1> QED BY <1>1, <1>2, <1>3, <1>4, ArgsType DEF Counted, EvalCounted, Fresh

\* The steps determine the rest.
LEMMA CountedUnique ==
  ASSUME NEW s \in State, NEW t \in State, Counted(s), Counted(t), s.model = t.model
  PROVE  s = t
BY DEF State, Counted, TrainCounted, EvalCounted

\* One step more.
LEMMA AppliedStep ==
  ASSUME NEW steps \in Seq(TrainingStep), NEW step \in TrainingStep
  PROVE  AppliedSamples(Append(steps, step)) =
           AppliedSamples(steps) + (IF step.applied THEN step.to - step.from ELSE 0)
<1> DEFINE more == Append(steps, step)
           f == [i \in DOMAIN steps |->
                   IF steps[i].applied THEN steps[i].to - steps[i].from ELSE 0]
           g == [i \in DOMAIN more |->
                   IF more[i].applied THEN more[i].to - more[i].from ELSE 0]
           n == Len(steps)
<1>1. n \in Nat /\ Len(more) = n + 1 /\ DOMAIN steps = 1 .. n /\ DOMAIN more = 1 .. n + 1
      /\ more[n+1] = step /\ \A i \in 1 .. n : more[i] = steps[i]
  OBVIOUS
<1>2. Total(g, n + 1) = Total(g, n) + g[n+1]
  <2> HIDE DEF g
  <2> QED BY <1>1, TotalStep
<1>3. Total(f, n) = Total(g, n)
  <2>1. \A k \in 1 .. n : f[k] = g[k]
    BY <1>1
  <2> HIDE DEF f, g, n
  <2> QED BY <1>1, <2>1, TotalSame
<1>4. g[n+1] = IF step.applied THEN step.to - step.from ELSE 0
  BY <1>1
<1>5. AppliedSamples(steps) = Total(f, n) /\ AppliedSamples(more) = Total(g, n + 1)
  BY <1>1 DEF AppliedSamples
<1> HIDE DEF f, g, n, more
<1> QED BY <1>2, <1>3, <1>4, <1>5 DEF more

\* ... and the samples of the evaluations.
LEMMA EvaluatedStep ==
  ASSUME NEW steps \in Seq(TrainingStep), NEW step \in TrainingStep
  PROVE  EvaluatedSamples(Append(steps, step)) =
           EvaluatedSamples(steps)
             + (IF (Len(steps) + 1) % args.eval_interval = 0
                THEN args.eval_iters * (step.to - step.from) ELSE 0)
<1> DEFINE more == Append(steps, step)
           f == [i \in DOMAIN steps |->
                   IF i % args.eval_interval = 0
                   THEN args.eval_iters * (steps[i].to - steps[i].from) ELSE 0]
           g == [i \in DOMAIN more |->
                   IF i % args.eval_interval = 0
                   THEN args.eval_iters * (more[i].to - more[i].from) ELSE 0]
           n == Len(steps)
<1>1. n \in Nat /\ Len(more) = n + 1 /\ DOMAIN steps = 1 .. n /\ DOMAIN more = 1 .. n + 1
      /\ more[n+1] = step /\ \A i \in 1 .. n : more[i] = steps[i]
  OBVIOUS
<1>2. Total(g, n + 1) = Total(g, n) + g[n+1]
  <2> HIDE DEF g
  <2> QED BY <1>1, TotalStep
<1>3. Total(f, n) = Total(g, n)
  <2>1. \A k \in 1 .. n : f[k] = g[k]
    BY <1>1
  <2> HIDE DEF f, g, n
  <2> QED BY <1>1, <2>1, TotalSame
<1>4. g[n+1] = IF (n + 1) % args.eval_interval = 0
               THEN args.eval_iters * (step.to - step.from) ELSE 0
  BY <1>1
<1>5. EvaluatedSamples(steps) = Total(f, n) /\ EvaluatedSamples(more) = Total(g, n + 1)
  BY <1>1 DEF EvaluatedSamples
<1> HIDE DEF f, g, more
<1> QED BY <1>2, <1>3, <1>4, <1>5 DEF more

\* A batch of validation data at most, in each interval.
LEMMA MostStep ==
  ASSUME args \in Configs, NEW i \in Nat
  PROVE  /\ MostEvaluated(i) \in Nat
         /\ MostEvaluated(i) <= MostEvaluated(i + 1)
         /\ (i + 1) % args.eval_interval = 0 =>
              MostEvaluated(i + 1) = MostEvaluated(i) + args.eval_iters * args.rampup.global
<1>1. PICK v \in Nat \ {0} : v = args.eval_interval
  BY ArgsType
<1>2. PICK e \in Nat : e = args.eval_iters * args.rampup.global
  BY ArgsType
<1>3. PICK a \in Nat : a = i \div v
  BY QuotientOfNat
<1>4. PICK b \in Nat : b = (i + 1) \div v
  BY QuotientOfNat
<1>5. a * v + (i % v) = i /\ i % v \in 0 .. v - 1
  BY <1>3, Quotient
<1>6. b * v + ((i + 1) % v) = i + 1 /\ (i + 1) % v \in 0 .. v - 1
  <2>1. i + 1 \in Int
    OBVIOUS
  <2> QED BY <1>4, <2>1, Quotient
<1>7. a * v \in Nat /\ b * v \in Nat /\ a * e \in Nat /\ b * e \in Nat
  OBVIOUS
<1>8. a <= b
  <2>1. SUFFICES ASSUME b < a PROVE FALSE
    OBVIOUS
  <2>2. b * v + v <= a * v
    BY <2>1, NextMultiple
  <2> QED BY <1>5, <1>6, <1>7, <2>2
<1>9. a * e <= b * e
  <2>1. CASE a < b
    <3>1. a * e + e <= b * e
      BY <2>1, NextMultiple
    <3> QED BY <1>7, <3>1
  <2> QED BY <1>8, <2>1
<1>10. ASSUME (i + 1) % v = 0
       PROVE  b * e = a * e + e
  <2>1. b <= a + 1
    <3>1. SUFFICES ASSUME a + 1 < b PROVE FALSE
      OBVIOUS
    <3>2. (a + 1) * v + v <= b * v /\ (a + 1) * v = a * v + v
      BY <3>1, NextMultiple
    <3> QED BY <1>5, <1>6, <1>7, <3>2
  <2>2. a # b
    BY <1>5, <1>6, <1>10
  <2>3. b = a + 1
    BY <1>8, <2>1, <2>2
  <2>4. (a + 1) * e = a * e + e
    OBVIOUS
  <2> QED BY <2>3, <2>4
<1>11. MostEvaluated(i) = a * e /\ MostEvaluated(i + 1) = b * e
  BY <1>1, <1>2, <1>3, <1>4 DEF MostEvaluated
<1> QED BY <1>1, <1>2, <1>7, <1>9, <1>10, <1>11

\* More iterations need no less validation data.
LEMMA MostMonotone ==
  ASSUME args \in Configs, NEW i \in Nat, NEW j \in Nat, i <= j
  PROVE  MostEvaluated(i) <= MostEvaluated(j)
<1> DEFINE T == {d \in Nat : MostEvaluated(i) <= MostEvaluated(i + d)}
<1>1. 0 \in T
  BY MostStep
<1>2. ASSUME NEW d \in T PROVE d + 1 \in T
  <2>1. MostEvaluated(i + d) <= MostEvaluated((i + d) + 1)
        /\ MostEvaluated(i) \in Nat /\ MostEvaluated(i + d) \in Nat
        /\ MostEvaluated((i + d) + 1) \in Nat
    BY MostStep
  <2>2. i + (d + 1) = (i + d) + 1
    OBVIOUS
  <2> QED BY <2>1, <2>2
<1>3. T = Nat
  <2> HIDE DEF T
  <2>1. T \in SUBSET Nat
    BY DEF T
  <2> QED BY <1>1, <1>2, <2>1, SetInduction
<1>4. j - i \in Nat /\ i + (j - i) = j
  OBVIOUS
<1> QED BY <1>3, <1>4

\* The samples used are a number.
LEMMA UsedType ==
  ASSUME NEW steps \in Seq(TrainingStep)
  PROVE  Used(steps) \in Nat
<1>1. CASE steps = <<>>
  BY <1>1 DEF Used
<1>2. CASE steps # <<>>
  <2>1. Len(steps) \in 1 .. Len(steps)
    BY <1>2
  <2>2. steps[Len(steps)] \in TrainingStep
    BY <2>1
  <2>3. steps[Len(steps)].to \in Nat
    BY <2>2 DEF TrainingStep
  <2> QED BY <1>2, <2>3 DEF Used
<1> QED BY <1>1, <1>2

\* What appending to a sequence leaves and adds.
LEMMA AppendFacts ==
  ASSUME NEW S, NEW q \in Seq(S), NEW e \in S
  PROVE  /\ Append(q, e) \in Seq(S) /\ Len(q) \in Nat /\ Len(Append(q, e)) = Len(q) + 1
         /\ Append(q, e)[Len(q) + 1] = e /\ \A i \in 1 .. Len(q) : Append(q, e)[i] = q[i]
         /\ DOMAIN q = 1 .. Len(q) /\ DOMAIN Append(q, e) = 1 .. Len(q) + 1
         /\ SubSeq(Append(q, e), 1, Len(q)) = q /\ Append(q, e) # <<>>
<1>1. /\ Append(q, e) \in Seq(S) /\ Len(q) \in Nat /\ Len(Append(q, e)) = Len(q) + 1
      /\ Append(q, e)[Len(q) + 1] = e /\ \A i \in 1 .. Len(q) : Append(q, e)[i] = q[i]
  OBVIOUS
<1>2. DOMAIN q = 1 .. Len(q) /\ DOMAIN Append(q, e) = 1 .. Len(q) + 1
  OBVIOUS
<1>3. Append(q, e) # <<>>
  BY <1>1
<1>4. SubSeq(Append(q, e), 1, Len(q)) = q
  OBVIOUS
<1> QED BY <1>1, <1>2, <1>3, <1>4

\* A training step: what it leaves to the evaluation, if one is due.
LEMMA TrainedCounted ==
  ASSUME args \in Configs, NEW s \in State, NEW applied \in BOOLEAN,
         TrainCounted(s), EvalCounted(s), s.iteration < TrainIters
  PROVE  LET t == Trained(s, s.consumed, applied)
             b == GlobalBatchSize(s.consumed)
             last == t.model[Len(t.model)]
         IN /\ t \in State /\ TrainCounted(t) /\ t.iteration = s.iteration + 1
            /\ Len(t.model) = Len(s.model) + 1 /\ t.model # <<>>
            /\ SubSeq(t.model, 1, Len(s.model)) = s.model
            /\ last.from = s.consumed /\ last.to = s.consumed + b
            /\ t.consumed = s.consumed + b /\ t.consumed_valid = s.consumed_valid
            /\ IF args.eval_iters > 0 /\ t.iteration % args.eval_interval = 0
               THEN /\ t.consumed_valid + args.eval_iters * b = EvaluatedSamples(t.model)
                    /\ t.consumed_valid <= MostEvaluated(t.iteration - 1)
               ELSE EvalCounted(t)
<1> DEFINE t == Trained(s, s.consumed, applied)
           b == GlobalBatchSize(s.consumed)
           step == [from |-> s.consumed, to |-> s.consumed + b, applied |-> applied]
           n == Len(s.model)
<1>1. /\ s.model \in Seq(TrainingStep) /\ s.optim \in Seq(TrainingStep)
      /\ s.iteration \in Nat /\ s.consumed \in Nat /\ s.consumed_valid \in Nat
      /\ s.num_steps \in Nat
  BY DEF State
<1>2. b \in Nat /\ b \in 1 .. args.rampup.global
  <2>1. b \in 1 .. args.rampup.global
    <3> HIDE DEF b
    <3> QED BY <1>1, BatchType DEF b
  <2> HIDE DEF b
  <2> QED BY <2>1, ArgsType
<1> HIDE DEF b
<1>3. step \in TrainingStep
  BY <1>1, <1>2 DEF TrainingStep
<1>4. /\ t.model = Append(s.model, step) /\ t.optim = Append(s.optim, step)
      /\ t.iteration = s.iteration + 1 /\ t.consumed = s.consumed + b
      /\ t.consumed_valid = s.consumed_valid
      /\ t.num_steps = s.num_steps + (IF applied THEN b ELSE 0)
  BY DEF Trained, b
<1>5. t \in State
  <2>1. Append(s.model, step) \in Seq(TrainingStep) /\ Append(s.optim, step) \in Seq(TrainingStep)
    <3> HIDE DEF step
    <3> QED BY <1>1, <1>3
  <2>2. s.num_steps + (IF applied THEN b ELSE 0) \in Nat /\ s.consumed + b \in Nat
    BY <1>1, <1>2
  <2> QED BY <1>1, <2>1, <2>2 DEF State, Trained, b
<1>6. n \in Nat /\ Len(t.model) = n + 1 /\ t.model[n+1] = step
      /\ \A i \in 1 .. n : t.model[i] = s.model[i]
      /\ DOMAIN s.model = 1 .. n /\ DOMAIN t.model = 1 .. n + 1
  <2> HIDE DEF step, t
  <2> QED BY <1>1, <1>3, <1>4, AppendFacts
<1>7. step.from = s.consumed /\ step.to = s.consumed + b /\ step.applied = applied
      /\ step.to - step.from = b
  BY <1>1, <1>2
<1>8. Tiled(t.model)
  <2>1. \A i \in 1 .. n : /\ s.model[i].from = (IF i = 1 THEN 0 ELSE s.model[i-1].to)
                          /\ s.model[i].to - s.model[i].from \in 1 .. args.rampup.global
    BY <1>6 DEF TrainCounted, Tiled
  <2>2. step.from = IF n + 1 = 1 THEN 0 ELSE s.model[n].to
    BY <1>1, <1>6, <1>7 DEF TrainCounted, Used
  <2>3. \A i \in 1 .. n + 1 :
          /\ t.model[i].from = (IF i = 1 THEN 0 ELSE t.model[i-1].to)
          /\ t.model[i].to - t.model[i].from \in 1 .. args.rampup.global
    <3> SUFFICES ASSUME NEW i \in 1 .. n + 1
                 PROVE  /\ t.model[i].from = (IF i = 1 THEN 0 ELSE t.model[i-1].to)
                        /\ t.model[i].to - t.model[i].from \in 1 .. args.rampup.global
      OBVIOUS
    <3> HIDE DEF step, n, t
    <3>1. CASE i = n + 1
      <4>1. n # 0 => n \in 1 .. n /\ t.model[n] = s.model[n]
        BY <1>6
      <4> QED BY <1>2, <1>6, <1>7, <2>2, <3>1, <4>1
    <3>2. CASE i \in 1 .. n
      <4>1. i # 1 => i - 1 \in 1 .. n
        BY <3>2, <1>6
      <4> QED BY <1>6, <2>1, <3>2, <4>1
    <3> QED BY <1>6, <3>1, <3>2
  <2> HIDE DEF step, n, t
  <2> QED BY SMTT(60), <1>6, <2>3 DEF Tiled
<1>9. TrainCounted(t)
  <2>1. t.num_steps = AppliedSamples(t.model)
    <3> HIDE DEF step, t
    <3> QED BY <1>1, <1>3, <1>4, <1>7, AppliedStep DEF TrainCounted
  <2>2. t.consumed = Used(t.model) /\ t.model # <<>>
    <3>1. t.model # <<>> /\ t.model[Len(t.model)] = step
      <4> HIDE DEF step, t, n
      <4>1. Len(t.model) # 0 /\ t.model[Len(t.model)] = step
        BY <1>6
      <4>2. Len(<<>>) = 0
        OBVIOUS
      <4> QED BY <4>1, <4>2
    <3>2. Used(t.model) = step.to
      <4> HIDE DEF step, t
      <4> QED BY <3>1 DEF Used
    <3> HIDE DEF step, t
    <3> QED BY <1>4, <1>7, <3>1, <3>2
  <2>3. t.iteration = Len(t.model) /\ t.iteration <= TrainIters /\ t.optim = t.model
    <3> HIDE DEF step, t
    <3> QED BY SMTT(60), <1>1, <1>4, <1>6, ArgsType DEF TrainCounted
  <2> QED BY <1>8, <2>1, <2>2, <2>3 DEF TrainCounted
<1>10. SubSeq(t.model, 1, n) = s.model /\ t.model # <<>>
  <2> HIDE DEF step, t
  <2> QED BY SMTT(60), <1>1, <1>3, <1>4, AppendFacts
<1>11. s.consumed_valid = EvaluatedSamples(s.model) /\ s.consumed_valid <= MostEvaluated(s.iteration)
       /\ n = s.iteration
  BY DEF EvalCounted, TrainCounted
<1>12. EvaluatedSamples(t.model) =
         s.consumed_valid + (IF (s.iteration + 1) % args.eval_interval = 0
                             THEN args.eval_iters * b ELSE 0)
  <2> HIDE DEF step, t, n
  <2> QED BY <1>1, <1>3, <1>4, <1>7, <1>11, EvaluatedStep DEF n
<1>13. CASE args.eval_iters > 0 /\ (s.iteration + 1) % args.eval_interval = 0
  <2>1. t.consumed_valid + args.eval_iters * b = EvaluatedSamples(t.model)
    <3> HIDE DEF t
    <3> QED BY <1>4, <1>12, <1>13
  <2>2. t.iteration - 1 = s.iteration
    <3> HIDE DEF t
    <3> QED BY <1>1, <1>4
  <2> HIDE DEF t, step, n
  <2> QED BY <1>4, <1>5, <1>6, <1>7, <1>9, <1>10, <1>11, <1>13, <2>1, <2>2 DEF t, b, n
<1>14. CASE ~(args.eval_iters > 0 /\ (s.iteration + 1) % args.eval_interval = 0)
  <2> HIDE DEF t, step, n
  <2>1. EvaluatedSamples(t.model) = s.consumed_valid
    <3>1. CASE args.eval_iters = 0
      BY <1>1, <1>2, <1>12, <3>1
    <3>2. CASE args.eval_iters > 0
      BY <1>1, <1>12, <1>14, <3>2
    <3> QED BY <3>1, <3>2, ArgsType
  <2>2. s.consumed_valid <= MostEvaluated(s.iteration + 1)
    <3>1. /\ MostEvaluated(s.iteration) \in Nat
          /\ MostEvaluated(s.iteration) <= MostEvaluated(s.iteration + 1)
      BY <1>1, MostStep
    <3>2. s.iteration + 1 \in Nat
      BY <1>1
    <3>3. MostEvaluated(s.iteration + 1) \in Nat
      BY <3>2, MostStep
    <3> QED BY <1>1, <1>11, <3>1, <3>3
  <2>3. ASSUME s.consumed_valid = 0, args.eval_iters > 0
        PROVE  s.iteration + 1 < args.eval_interval
    <3>1. s.iteration < args.eval_interval
      BY <2>3 DEF EvalCounted
    <3>2. s.iteration + 1 # args.eval_interval
      BY <1>14, <2>3, ArgsType
    <3> QED BY SMTT(60), <1>1, <3>1, <3>2, ArgsType
  <2>4. EvalCounted(t)
    BY <1>4, <2>1, <2>2, <2>3 DEF EvalCounted
  <2> QED BY <1>4, <1>5, <1>6, <1>7, <1>9, <1>10, <1>14, <2>4 DEF t, b, n
<1> QED BY <1>13, <1>14

\* The last iteration that --save-interval saves, and the next.
LEMMA LastSaveFacts ==
  ASSUME args \in Configs, NEW i \in Nat
  PROVE  /\ LastSave(i) \in Nat /\ LastSave(i) <= i
         /\ LastSave(i) <= LastSave(i + 1) /\ LastSave(i + 1) \in Nat
         /\ (i + 1) % args.save_interval # 0 => LastSave(i + 1) = LastSave(i)
<1>1. PICK v \in Nat \ {0} : v = args.save_interval
  BY ArgsType
<1>3. PICK a \in Nat : a = i \div v
  BY QuotientOfNat
<1>4. PICK b \in Nat : b = (i + 1) \div v
  BY QuotientOfNat
<1>5. a * v + (i % v) = i /\ i % v \in 0 .. v - 1
  BY <1>3, Quotient
<1>6. b * v + ((i + 1) % v) = i + 1 /\ (i + 1) % v \in 0 .. v - 1
  <2>1. i + 1 \in Int
    OBVIOUS
  <2> QED BY <1>4, <2>1, Quotient
<1>7. a * v \in Nat /\ b * v \in Nat
  OBVIOUS
<1>8. a < b => a * v + v <= b * v
  BY NextMultiple
<1>9. b < a => b * v + v <= a * v
  BY NextMultiple
<1>10. a <= b
  BY <1>5, <1>6, <1>7, <1>9
<1>11. a * v <= b * v
  BY <1>7, <1>8, <1>10
<1>12. (i + 1) % v # 0 => a = b
  BY <1>5, <1>6, <1>7, <1>8, <1>10
<1>13. LastSave(i) = a * v /\ LastSave(i + 1) = b * v
  BY <1>1, <1>3, <1>4 DEF LastSave
<1> QED BY <1>1, <1>5, <1>7, <1>11, <1>12, <1>13

-----------------------------------------------------------------------------
\* What a step leaves alone.

\* What depends on the arguments alone stays with them.
LEMMA JobKept ==
  ASSUME args' = args
  PROVE  /\ Ranks' = Ranks /\ Shards' = Shards
         /\ AfterCheckpoint' = AfterCheckpoint /\ AfterEvaluation' = AfterEvaluation
         /\ MostEvaluated(TrainIters)' = MostEvaluated(TrainIters)
         /\ Counted(saved)' <=> Counted(saved')
BY DEF Ranks, Shards, WorldSize, AfterCheckpoint, AfterEvaluation, MostEvaluated, Counted,
       TrainCounted, Tiled, EvalCounted, EvaluatedSamples

\* ... and so does the place of a rank and what its counters have to be.
LEMMA RankKept ==
  ASSUME args' = args, NEW r
  PROVE  /\ Shard(r)' = Shard(r) /\ DataParallelRank(r)' = DataParallelRank(r)
         /\ TrainCounted(state[r])' <=> TrainCounted(state'[r])
         /\ EvalCounted(state[r])' <=> EvalCounted(state'[r])
         /\ LastSave(state[r].iteration)' = LastSave(state'[r].iteration)
         /\ LastSave(state[r].iteration - 1)' = LastSave(state'[r].iteration - 1)
BY DEF Shard, DataParallelRank, TrainCounted, Tiled, EvalCounted, EvaluatedSamples,
       MostEvaluated, LastSave

\* A step leaves rank r alone.
Same(r) ==
  /\ pc'[r] = pc[r] /\ ret'[r] = ret[r] /\ state'[r] = state[r]
  /\ saved_checkpoint'[r] = saved_checkpoint[r] /\ data_iterator'[r] = data_iterator[r]
  /\ valid_iterator'[r] = valid_iterator[r] /\ batch_size'[r] = batch_size[r]

\* An evaluation that is due stays due for a rank left alone.
LEMMA EvalDueKept ==
  ASSUME NEW r, args' = args, Same(r), EvalDue(r)
  PROVE  EvalDue(r)'
BY DEF EvalDue, Same, MostEvaluated, EvaluatedSamples

\* A rank that a step leaves alone keeps its invariant.
LEMMA RankFrame ==
  ASSUME NEW r \in Ranks, RankInv(r), args' = args, saved' = saved, Same(r),
         Publishing' = Publishing, tracker' = tracker \/ pc[r] \notin Unloaded,
         DataParallelRank(r) = 0 =>
           files'[state[r].iteration][Shard(r)] = files[state[r].iteration][Shard(r)]
  PROVE  RankInv(r)'
<1> USE JobKept, RankKept DEF Same
<1>1. LoadInv(r)'
  BY DEF RankInv, LoadInv, Published, Early, Unloaded
<1>2. TrainInv(r)'
  BY EvalDueKept DEF RankInv, TrainInv, Unloaded
<1>3. SaveInv(r)'
  BY DEF RankInv, SaveInv, Lags, Published, Unsaved, InSave, AfterSave, Writing
<1>4. FileInv(r)'
  BY DEF RankInv, FileInv, Written
<1> QED BY <1>1, <1>2, <1>3, <1>4 DEF RankInv

\* Where a rank must be for what it is about to enter.
LEMMA FutureFacts ==
  ASSUME NEW r \in Ranks, pc[r] \in Labels
  PROVE  /\ pc[r] \in Waiting \cup {"exited", "finished"} =>
              Future(r) = <<pc[r], ret[r], saved_checkpoint[r]>>
         /\ Future(r)[1] = "loaded" => pc[r] \in {"load", "load_file", "loaded"}
         /\ Future(r)[1] = "metadata" => pc[r] \in {"load", "metadata"}
         /\ Future(r)[1] = "start_time" => pc[r] \in {"init", "start_time"}
         /\ Future(r)[1] = "save_done" => pc[r] \in {"open_tracker", "close_tracker", "save_done"}
         /\ pc[r] = "load" => Future(r)[1] \in {"loaded", "metadata"}
         /\ pc[r] = "load_file" => Future(r)[1] = "loaded"
         /\ pc[r] \in {"open_tracker", "close_tracker"} => Future(r)[1] = "save_done"
<1>1. pc[r] \in Waiting \cup {"exited", "finished"} =>
        Future(r) = <<pc[r], ret[r], saved_checkpoint[r]>>
  BY DEF Future, NextWait, Waiting, BarrierLabels
<1>2. pc[r] \in {"build_data", "loop", "checkpoint", "exits"} =>
        Future(r)[1] \in {"train_step", "save_barrier", "save_timer", "duration", "exit_barrier"}
  BY DEF Future, FromLoop, FromCheckpoint, FromExits
<1>3. pc[r] \notin {"build_data", "loop", "checkpoint", "exits"} => Future(r)[1] = NextWait(r)
  BY DEF Future
<1> QED BY <1>1, <1>2, <1>3 DEF NextWait, Labels, Waiting, BarrierLabels, Terminal

\* It is the same for ranks that stand at the same place.
LEMMA SameFuture ==
  ASSUME NEW r \in Ranks, NEW q \in Ranks, pc[r] = pc[q], ret[r] = ret[q],
         saved_checkpoint[r] = saved_checkpoint[q], state[r].iteration = state[q].iteration
  PROVE  Future(r) = Future(q)
BY DEF Future, FromLoop, FromCheckpoint, FromExits, NextWait

\* The same of the next state.
LEMMA SameFuturePrimed ==
  ASSUME NEW r, NEW q, pc'[r] = pc'[q], ret'[r] = ret'[q],
         saved_checkpoint'[r] = saved_checkpoint'[q],
         state'[r].iteration = state'[q].iteration
  PROVE  Future(r)' = Future(q)'
BY DEF Future, FromLoop, FromCheckpoint, FromExits, NextWait

\* A step that leaves a rank alone, and does not move the tracker under
\* its feet, leaves its future alone.
LEMMA FutureKept ==
  ASSUME NEW r \in Ranks, args' = args, Same(r), tracker' = tracker \/ pc[r] # "load"
  PROVE  Future(r)' = Future(r)
BY DEF Future, FromLoop, FromCheckpoint, FromExits, NextWait, Same, AfterCheckpoint

\* A rank that moves by itself keeps its future.
Advances(r) ==
  /\ pc'[r] = "aborted" \/ (pc[r] # "aborted" /\ Future(r)' = Future(r))
  /\ pc'[r] = "aborted" => pc[r] \in {"load", "load_file", "aborted"}
  /\ pc[r] = "aborted" => pc'[r] = "aborted"
  /\ pc[r] \in {"load", "load_file", "metadata", "loaded"} =>
       pc'[r] \in {"load", "metadata", "load_file", "loaded", "aborted"}
  /\ pc'[r] \notin Unloaded =>
       \/ pc[r] \notin Unloaded /\ state'[r].model = state[r].model
       \/ /\ pc[r] \in {"load", "load_file"} /\ pc'[r] = "loaded"
          /\ state'[r].model = saved.model

\* A rank left alone advances.
LEMMA SameAdvances ==
  ASSUME NEW r \in Ranks, args' = args, Same(r), tracker' = tracker \/ pc[r] # "load"
  PROVE  Advances(r)
BY FutureKept DEF Advances, Same

\* When all ranks advance they still agree.
LEMMA PairsKept ==
  ASSUME TypeOK, NEW r \in Ranks, NEW q \in Ranks, PairInv(r, q), PairInv(q, r),
         RankInv(r), RankInv(q), Advances(r), Advances(q)
  PROVE  PairInv(r, q)'
<1>0. pc[r] \in Labels /\ pc[q] \in Labels
  BY DEF TypeOK
<1>1. pc'[r] # "aborted" /\ pc'[q] # "aborted" => Future(r)' = Future(q)'
  BY DEF PairInv, Advances
<1>2. ASSUME pc'[r] = "aborted"
      PROVE  pc'[q] \in {"load", "metadata", "load_file", "loaded", "aborted"}
  <2>1. pc[q] \in {"load", "metadata", "load_file", "loaded", "aborted"}
    <3>1. CASE pc[r] = "aborted" \/ pc[q] = "aborted"
      BY <1>2, <3>1 DEF PairInv
    <3>2. CASE pc[r] \in {"load", "load_file"} /\ pc[q] # "aborted"
      <4>1. Future(q)[1] \in {"loaded", "metadata"}
        BY <1>0, <3>2, FutureFacts DEF PairInv
      <4> QED BY <1>0, <4>1, FutureFacts
    <3> QED BY <1>2, <3>1, <3>2 DEF Advances
  <2> QED BY <2>1 DEF Advances
<1>3. ASSUME pc'[r] \notin Unloaded, pc'[q] \notin Unloaded
      PROVE  state'[r].model = state'[q].model
  <2>1. ASSUME NEW x \in {r, q}, NEW y \in {r, q}, x # y,
               pc[x] \in {"load", "load_file"}, pc'[x] = "loaded",
               state'[x].model = saved.model
        PROVE  state'[y].model = saved.model
    <3>1. CASE pc[y] \notin Unloaded /\ state'[y].model = state[y].model
      <4>1. pc[y] # "aborted" /\ pc[x] # "aborted"
        BY <2>1, <3>1 DEF Unloaded
      <4>2. Future(y)[1] \in {"loaded", "metadata"}
        BY <1>0, <2>1, <4>1, FutureFacts DEF PairInv
      <4>3. pc[y] = "loaded"
        BY <1>0, <3>1, <4>2, FutureFacts DEF Unloaded, Early
      <4>4. state[y] = saved
        BY <4>3 DEF RankInv, LoadInv, Published
      <4> QED BY <3>1, <4>4
    <3> QED BY <1>3, <3>1 DEF Advances
  <2> QED BY <1>3, <2>1 DEF Advances, PairInv
<1> QED BY <1>1, <1>2, <1>3 DEF PairInv

-----------------------------------------------------------------------------
\* The steps of one rank.

\* A step that writes nothing keeps what is on disk.
LEMMA DiskKept ==
  ASSUME DiskInv, UNCHANGED <<args, disk>>
  PROVE  DiskInv'
BY JobKept DEF DiskInv, disk, Whole

\* A rank that moves and touches no file.
LEMMA StepOfOne ==
  ASSUME IInv, TypeOK', NEW r \in Ranks, UNCHANGED <<args, disk>>,
         \A q \in Ranks \ {r} : Same(q),
         pc[r] \notin {"open_tracker", "close_tracker"},
         pc'[r] \notin {"open_tracker", "close_tracker"},
         RankInv(r)', Advances(r) \/ Ranks = {r}
  PROVE  IInv'
<1>1. Ranks' = Ranks /\ saved' = saved /\ tracker' = tracker /\ files' = files
  BY JobKept DEF disk
<1>2. Publishing' = Publishing
  <2>1. args \in Configs
    BY DEF IInv, TypeOK
  <2> QED BY <2>1, RankFacts DEF Publishing, Same
<1>3. ASSUME NEW q \in Ranks \ {r} PROVE RankInv(q)' /\ Advances(q)
  BY <1>1, <1>2, RankFrame, SameAdvances DEF IInv
<1>4. ASSUME NEW p \in Ranks, NEW q \in Ranks PROVE PairInv(p, q)'
  <2>1. CASE Ranks = {r}
    BY <2>1 DEF PairInv
  <2>2. CASE Advances(r)
    BY <1>3, <2>2, PairsKept DEF IInv
  <2> QED BY <2>1, <2>2
<1> QED BY <1>1, <1>3, <1>4, DiskKept DEF IInv

\* Initialize keeps the invariant: a rank that finds the kill-switch file
\* has no other to wait for it.
LEMMA InitializeStep ==
  ASSUME IInv, KillSwitchAlone, NEW r \in Ranks, Initialize(r)
  PROVE  IInv'
<1> USE DEF Initialize, At, Goto, disk, local, env, iterators
<1>0. TypeOK /\ args' = args /\ args \in Configs
  BY DEF IInv, TypeOK
<1>1. TypeOK'
  BY <1>0, JobKept DEF TypeOK, Labels, Waiting, Terminal
<1>3. /\ pc[r] = "init" /\ pc'[r] = IF KillSwitch THEN "exited" ELSE "start_time"
      /\ state'[r] = state[r] /\ ret'[r] = ret[r] /\ saved_checkpoint'[r] = saved_checkpoint[r]
      /\ \A q \in Ranks \ {r} : Same(q)
  BY <1>0 DEF TypeOK, Same
<1>4. state[r] = Fresh /\ ret[r] = "init" /\ RankInv(r)
  BY <1>3 DEF IInv, RankInv, LoadInv, Early, Unloaded
<1>5. Counted(Fresh)
  BY <1>0, FreshCounted
<1>6. RankInv(r)'
  <2>1. LoadInv(r)'
    BY <1>3, <1>4 DEF LoadInv, Early, Unloaded
  <2>2. TrainInv(r)'
    BY <1>0, <1>3, <1>4, <1>5, RankKept, JobKept DEF RankInv, TrainInv, Unloaded, Early, Counted
  <2>3. SaveInv(r)'
    BY <1>3, <1>4 DEF SaveInv, InSave, AfterSave, Writing
  <2>4. FileInv(r)'
    BY <1>3 DEF FileInv, Written
  <2> QED BY <2>1, <2>2, <2>3, <2>4 DEF RankInv
<1>7. Advances(r) \/ Ranks = {r}
  <2>1. CASE KillSwitch
    <3>1. WorldSize(args) = 1
      BY <1>0, <2>1 DEF KillSwitchAlone, KillSwitch
    <3> QED BY <3>1 DEF Ranks
  <2>2. CASE ~KillSwitch
    <3>1. Future(r)' = Future(r)
      BY <1>3, <2>2 DEF Future, NextWait
    <3> QED BY <1>3, <2>2, <3>1 DEF Advances, Unloaded, Early
  <2> QED BY <2>1, <2>2
<1> QED BY <1>0, <1>1, <1>3, <1>6, <1>7, StepOfOne

\* Load keeps the invariant.
LEMMA LoadRankStep ==
  ASSUME IInv, NEW r \in Ranks, Load(r), UNCHANGED <<local, env>>
  PROVE  IInv'
<1> USE DEF Load, At, Goto, disk, local, env, iterators
<1>0. TypeOK /\ args' = args /\ args \in Configs /\ DiskInv /\ RankInv(r)
  BY DEF IInv, TypeOK
<1>1. /\ pc[r] = "load" /\ state[r] = Fresh /\ ret[r] = "init"
      /\ ret'[r] = ret[r] /\ saved_checkpoint'[r] = saved_checkpoint[r]
      /\ batch_size'[r] = batch_size[r] /\ valid_iterator'[r] = valid_iterator[r]
      /\ batch_size[r] <= args.rampup.global
      /\ \A q \in Ranks \ {r} : Same(q)
  BY <1>0 DEF TypeOK, Same, RankInv, LoadInv, TrainInv, Early, Unloaded
<1>2. Fresh \in State /\ Counted(Fresh) /\ Fresh.iteration = 0
      /\ [Fresh EXCEPT !.iteration = 0] = Fresh
  BY <1>0, FreshCounted DEF Fresh
<1>3. tracker \in {None, Empty} \cup Iterations /\ None \notin Iterations /\ Empty \notin Iterations
      /\ None # Empty
  BY <1>0, ArgsType DEF TypeOK, None, Empty, Iterations
<1>4. /\ pc'[r] = IF tracker = None THEN "loaded"
                  ELSE IF tracker = Empty THEN "aborted" ELSE "metadata"
      /\ state'[r] = IF tracker = None THEN Fresh ELSE [Fresh EXCEPT !.iteration = tracker]
  BY <1>0, <1>1, <1>2, <1>3 DEF TypeOK
<1>5. TypeOK'
  <2>1. state' \in [Ranks -> State]
    <3>1. tracker = None \/ tracker \in Nat
      BY <1>3 DEF Empty, Iterations
    <3>2. state'[r] \in State
      BY <1>2, <1>4, <3>1 DEF State
    <3> QED BY <1>0, <3>2 DEF TypeOK
  <2>2. pc' \in [Ranks -> Labels]
    BY <1>0, <1>4 DEF TypeOK, Labels, Waiting, Terminal, BarrierLabels
  <2> QED BY <1>0, <2>1, <2>2, JobKept DEF TypeOK
<1>6. RankInv(r)'
  <2>1. LoadInv(r)'
    BY <1>0, <1>1, <1>3, <1>4 DEF LoadInv, Early, Unloaded, Published, DiskInv
  <2>2. TrainInv(r)'
    BY <1>0, <1>1, <1>2, <1>4, RankKept, JobKept
    DEF RankInv, TrainInv, Unloaded, Early, Counted
  <2>3. SaveInv(r)'
    BY <1>4 DEF SaveInv, InSave, AfterSave, Writing
  <2>4. FileInv(r)'
    BY <1>4 DEF FileInv, Written
  <2> QED BY <2>1, <2>2, <2>3, <2>4 DEF RankInv
<1>7. Advances(r)
  <2>1. CASE tracker = Empty
    BY <1>1, <1>3, <1>4, <2>1 DEF Advances, Unloaded
  <2>2. CASE tracker # Empty
    <3>1. Future(r)' = Future(r)
      BY <1>1, <1>4, <2>2 DEF Future, NextWait
    <3> QED BY <1>0, <1>1, <1>4, <2>2, <3>1 DEF Advances, Unloaded, Early, DiskInv
  <2> QED BY <2>1, <2>2
<1> QED BY <1>0, <1>1, <1>4, <1>5, <1>6, <1>7, StepOfOne

\* LoadFile keeps the invariant: a rank that finds its files complete has
\* the published state back.
LEMMA LoadFileStep ==
  ASSUME IInv, NEW r \in Ranks, LoadFile(r), UNCHANGED <<local, env>>
  PROVE  IInv'
<1> USE DEF At, Goto, disk, local, env, iterators
<1>0. /\ TypeOK /\ args' = args /\ args \in Configs /\ DiskInv /\ RankInv(r)
      /\ UNCHANGED <<files, tracker, saved, ret>>
  BY DEF IInv, TypeOK, LoadFile
<1>1. /\ pc[r] = "load_file" /\ ret[r] = "init"
      /\ tracker \in Iterations /\ state[r].iteration = tracker
      /\ ret'[r] = ret[r] /\ saved_checkpoint'[r] = saved_checkpoint[r]
      /\ batch_size'[r] = batch_size[r] /\ valid_iterator'[r] = valid_iterator[r]
      /\ batch_size[r] <= args.rampup.global
      /\ \A q \in Ranks \ {r} : Same(q)
  BY <1>0 DEF TypeOK, Same, RankInv, LoadInv, TrainInv, Early, Unloaded, Fresh, LoadFile
<1>2. \/ pc'[r] = "loaded" /\ state'[r] = saved
      \/ pc'[r] = "aborted" /\ state'[r] = state[r]
  <2> DEFINE file == files[state[r].iteration][Shard(r)]
             m == file["model_optim_rng"]
             o == IF args.use_distributed_optimizer THEN file["distrib_optim"] ELSE m
  <2>1. CASE m.status = "complete" /\ o.status = "complete"
    <3>1. \A k \in Kinds : k = "model_optim_rng" \/ args.use_distributed_optimizer =>
            file[k] \in {Partial, Complete(saved)}
      <4>1. tracker \in 1 .. TrainIters - 1 \/ tracker = TrainIters
        BY <1>1, ArgsType, <1>0 DEF Iterations
      <4>2. Shard(r) \in Shards
        BY <1>0, RankFacts
      <4> QED BY <1>0, <1>1, <4>1, <4>2 DEF DiskInv, Whole
    <3>2. m = Complete(saved) /\ o = Complete(saved)
      BY <2>1, <3>1 DEF Kinds, Partial, Complete
    <3>3. m.state = saved /\ o.state = saved
      BY <3>2 DEF Complete
    <3>4. Restored(saved, saved) = saved
      BY <1>0 DEF Restored, TypeOK, State
    <3> HIDE DEF m, o
    <3>5. pc' = [pc EXCEPT ![r] = "loaded"] /\ state' = [state EXCEPT ![r] = Restored(m.state, o.state)]
      BY <2>1 DEF LoadFile, m, o
    <3> QED BY <1>0, <3>3, <3>4, <3>5 DEF TypeOK
  <2>2. CASE ~ (m.status = "complete" /\ o.status = "complete")
    BY <1>0, <2>2 DEF TypeOK, LoadFile
  <2> QED BY <2>1, <2>2
<1>3. pc' = [pc EXCEPT ![r] = pc'[r]] /\ state' = [state EXCEPT ![r] = state'[r]]
  BY <1>0 DEF TypeOK, LoadFile
<1>5. TypeOK'
  <2>1. state' \in [Ranks -> State]
    BY <1>0, <1>2, <1>3 DEF TypeOK
  <2>2. pc' \in [Ranks -> Labels]
    BY <1>0, <1>2, <1>3 DEF TypeOK, Labels, Waiting, Terminal, BarrierLabels
  <2> QED BY <1>0, <2>1, <2>2, JobKept DEF TypeOK, LoadFile
<1>6. RankInv(r)'
  <2>1. LoadInv(r)'
    BY <1>0, <1>1, <1>2 DEF LoadInv, Early, Unloaded, Published
  <2>2. TrainInv(r)'
    BY <1>0, <1>1, <1>2, RankKept, JobKept DEF RankInv, TrainInv, Unloaded, DiskInv, Counted
  <2>3. SaveInv(r)'
    BY <1>2 DEF SaveInv, InSave, AfterSave, Writing
  <2>4. FileInv(r)'
    BY <1>2 DEF FileInv, Written
  <2> QED BY <2>1, <2>2, <2>3, <2>4 DEF RankInv
<1>7. Advances(r)
  <2>1. pc'[r] = "loaded" => Future(r)' = Future(r)
    BY <1>1 DEF Future, NextWait
  <2> QED BY <1>0, <1>1, <1>2, <2>1 DEF Advances, Unloaded, Early
<1> QED BY <1>0, <1>1, <1>2, <1>5, <1>6, <1>7, StepOfOne

\* The validation data an older checkpoint does not count is none.
LEMMA ConsumedValidCounted ==
  ASSUME args \in Configs, NEW s \in State, Counted(s)
  PROVE  ConsumedValid(s) = s.consumed_valid
<1>1. SUFFICES ASSUME s.iteration > 0, s.consumed_valid = 0
               PROVE  (s.iteration \div args.eval_interval) * args.eval_iters * args.rampup.global = 0
  BY DEF ConsumedValid
<1>2. PICK v \in Nat \ {0} : v = args.eval_interval
  BY ArgsType
<1>3. PICK e \in Nat : e = args.eval_iters
  BY ArgsType
<1>4. PICK i \in Nat : i = s.iteration
  BY DEF State
<1>5. PICK g \in Nat : g = args.rampup.global
  BY ArgsType
<1>6. PICK a \in Nat : a = i \div v
  BY QuotientOfNat
<1>7. a * v + (i % v) = i /\ i % v \in 0 .. v - 1
  BY <1>6, Quotient
<1>8. e = 0 \/ a = 0
  <2>1. SUFFICES ASSUME e > 0, a >= 1 PROVE FALSE
    OBVIOUS
  <2>2. i < v
    BY <1>1, <1>2, <1>3, <1>4, <2>1 DEF Counted, EvalCounted
  <2>3. 0 * v + v <= a * v
    BY <2>1, NextMultiple
  <2> QED BY <1>7, <2>2, <2>3
<1>9. a * e * g = 0
  BY <1>8
<1> QED BY <1>2, <1>3, <1>4, <1>5, <1>6, <1>9

\* BuildData keeps the invariant: the data iterators start where the
\* checkpoint ended.
LEMMA BuildDataStep ==
  ASSUME IInv, NEW r \in Ranks, BuildData(r)
  PROVE  IInv'
<1> USE DEF BuildData, At, Goto, disk, local, env, iterators
<1>0. TypeOK /\ args' = args /\ args \in Configs /\ DiskInv /\ RankInv(r)
  BY DEF IInv, TypeOK
<1>1. /\ pc[r] = "build_data" /\ state[r] = saved /\ saved \in State /\ Counted(saved)
      /\ saved.iteration \in Nat /\ saved.consumed \in Nat
  BY <1>0 DEF TypeOK, RankInv, LoadInv, Published, DiskInv, State
<1>2. ConsumedValid(saved) = saved.consumed_valid
  BY <1>0, <1>1, ConsumedValidCounted
<1>3. /\ pc'[r] = "loop" /\ state'[r] = saved
      /\ ret'[r] = ret[r] /\ saved_checkpoint'[r] = saved_checkpoint[r]
      /\ data_iterator'[r] = saved.consumed
      /\ valid_iterator'[r] = saved.consumed_valid
      /\ batch_size'[r] = GlobalBatchSize(saved.consumed)
      /\ \A q \in Ranks \ {r} : Same(q)
  <2>1. [saved EXCEPT !.consumed_valid = saved.consumed_valid] = saved
    BY <1>1 DEF State
  <2> QED BY <1>0, <1>1, <1>2, <2>1 DEF TypeOK, Same
<1>4. batch_size'[r] \in 1 .. args.rampup.global
  BY <1>0, <1>1, <1>3, BatchType
<1>5. TypeOK'
  <2>1. /\ state' \in [Ranks -> State] /\ pc' \in [Ranks -> Labels]
        /\ data_iterator' \in [Ranks -> Nat] /\ valid_iterator' \in [Ranks -> Nat]
    BY <1>0, <1>1, <1>3 DEF TypeOK, Labels, State
  <2>2. batch_size' \in [Ranks -> Nat \ {0}]
    <3>1. GlobalBatchSize(state[r].consumed) \in Nat \ {0}
      BY <1>0, <1>1, <1>3, <1>4, ArgsType
    <3> QED BY <1>0, <3>1 DEF TypeOK
  <2> QED BY <1>0, <2>1, <2>2, JobKept DEF TypeOK
<1>6. LastSave(saved.iteration) <= saved.iteration
  BY <1>0, <1>1, LastSaveFacts
<1>7. saved.consumed_valid <= MostEvaluated(TrainIters) + args.eval_iters * args.rampup.global
  <2>1. PICK e \in Nat : e = args.eval_iters * args.rampup.global
    BY <1>0, ArgsType
  <2>2. /\ MostEvaluated(saved.iteration) <= MostEvaluated(TrainIters)
        /\ MostEvaluated(saved.iteration) \in Nat /\ MostEvaluated(TrainIters) \in Nat
        /\ saved.consumed_valid \in Nat
        /\ saved.consumed_valid <= MostEvaluated(saved.iteration)
    BY <1>0, <1>1, MostMonotone, MostStep, ArgsType
    DEF Counted, TrainCounted, EvalCounted, State
  <2> QED BY <2>1, <2>2
<1>8. RankInv(r)'
  <2>1. LoadInv(r)'
    BY <1>3 DEF LoadInv, Early, Unloaded
  <2>2. TrainInv(r)'
    <3>1. batch_size'[r] <= args'.rampup.global
      BY <1>0, <1>4, ArgsType
    <3>2. valid_iterator'[r] <=
            MostEvaluated(TrainIters)' + args'.eval_iters * args'.rampup.global
      BY <1>0, <1>3, <1>7, JobKept
    <3>3. /\ TrainCounted(state[r])' /\ EvalCounted(state[r])'
          /\ data_iterator'[r] = state'[r].consumed
          /\ valid_iterator'[r] = state'[r].consumed_valid
      BY <1>0, <1>1, <1>3, RankKept DEF Counted
    <3> QED BY <1>3, <3>1, <3>2, <3>3 DEF TrainInv
  <2>3. SaveInv(r)'
    BY <1>0, <1>1, <1>3, <1>6, RankKept DEF SaveInv, InSave, AfterSave, Writing, Lags, Published
  <2>4. FileInv(r)'
    BY <1>3 DEF FileInv, Written
  <2> QED BY <2>1, <2>2, <2>3, <2>4 DEF RankInv
<1>9. Advances(r)
  <2>1. Future(r)' = Future(r)
    BY <1>1, <1>3 DEF Future, FromLoop
  <2> QED BY <1>1, <1>3, <2>1 DEF Advances, Unloaded, Early
<1> QED BY <1>0, <1>1, <1>3, <1>5, <1>8, <1>9, StepOfOne

\* What a rank that trains or saves holds.
LEMMA TrainingAfter ==
  ASSUME IInv, NEW r \in Ranks, pc[r] \notin Unloaded
  PROVE  /\ state[r] \in State /\ TrainCounted(state[r]) /\ state[r].iteration \in Nat
         /\ state[r].iteration <= TrainIters /\ TrainIters \in Nat \ {0}
         /\ saved.iteration \in Nat /\ saved \in State
BY ArgsType DEF IInv, TypeOK, RankInv, TrainInv, TrainCounted, State

\* Loop keeps the invariant.
LEMMA LoopStep ==
  ASSUME IInv, NEW r \in Ranks, Loop(r)
  PROVE  IInv'
<1> USE DEF Loop, At, Goto, disk, local, env, iterators
<1>0. TypeOK /\ args' = args /\ args \in Configs /\ DiskInv /\ RankInv(r)
  BY DEF IInv, TypeOK
<1>1. /\ pc[r] = "loop" /\ Lags(r) /\ pc[r] \notin Unloaded
      /\ TrainCounted(state[r]) /\ EvalCounted(state[r])
      /\ data_iterator[r] = state[r].consumed /\ valid_iterator[r] = state[r].consumed_valid
  BY <1>0 DEF RankInv, TrainInv, SaveInv, Unloaded, Early
<1>2. /\ pc'[r] = IF state[r].iteration < TrainIters THEN "train_step" ELSE "save"
      /\ ret'[r] = IF state[r].iteration < TrainIters THEN ret[r] ELSE "finished"
      /\ saved_checkpoint'[r] = FALSE
      /\ UNCHANGED <<state, data_iterator, valid_iterator, batch_size>>
      /\ \A q \in Ranks \ {r} : Same(q)
  BY <1>0 DEF TypeOK, Same
<1>3. TypeOK'
  BY <1>0, JobKept DEF TypeOK, Labels, Terminal, Waiting
<1>4. RankInv(r)'
  <2>1. LoadInv(r)'
    BY <1>2 DEF LoadInv, Early, Unloaded
  <2>2. TrainInv(r)'
    BY <1>0, <1>1, <1>2, RankKept, JobKept DEF RankInv, TrainInv, Unloaded, Early
  <2>3. SaveInv(r)'
    <3>1. CASE state[r].iteration < TrainIters
      BY <1>0, <1>1, <1>2, <3>1, RankKept
      DEF SaveInv, InSave, AfterSave, Writing, Lags, Published
    <3>2. CASE ~ (state[r].iteration < TrainIters)
      <4>1. state[r].iteration = TrainIters
        BY <3>2, <1>1, TrainingAfter
      <4>2. Unsaved(r) \/ Published(r)
        <5>1. /\ LastSave(TrainIters - 1) <= LastSave(TrainIters - 1 + 1)
              /\ LastSave(TrainIters - 1) \in Nat /\ LastSave(TrainIters) \in Nat
          <6>1. TrainIters - 1 \in Nat /\ TrainIters - 1 + 1 = TrainIters
            BY <1>1, TrainingAfter
          <6> QED BY <1>0, <6>1, LastSaveFacts
        <5>2. saved.iteration \in Nat /\ TrainIters - 1 + 1 = TrainIters
          BY <1>1, TrainingAfter
        <5> QED BY <1>1, <4>1, <5>1, <5>2 DEF Lags, Unsaved
      <4>3. Unsaved(r)' <=> Unsaved(r)
        BY <1>0, <1>2, RankKept DEF Unsaved
      <4>4. AfterCheckpoint # "finished" /\ AfterCheckpoint' = AfterCheckpoint
        BY <1>0, JobKept DEF AfterCheckpoint
      <4> QED BY <1>0, <1>2, <3>2, <4>1, <4>2, <4>3, <4>4
              DEF SaveInv, InSave, AfterSave, Writing, Published
    <3> QED BY <3>1, <3>2
  <2>4. FileInv(r)'
    BY <1>2 DEF FileInv, Written
  <2> QED BY <2>1, <2>2, <2>3, <2>4 DEF RankInv
<1>5. Advances(r)
  <2>1. Future(r)' = Future(r)
    <3>1. CASE state[r].iteration < TrainIters
      <4>1. Future(r) = <<"train_step", ret[r], FALSE>>
        BY <1>1, <3>1 DEF Future, FromLoop
      <4>2. Future(r)' = <<"train_step", ret'[r], saved_checkpoint'[r]>>
        BY <1>2, <3>1 DEF Future, NextWait
      <4>3. ret'[r] = ret[r] /\ saved_checkpoint'[r] = FALSE
        BY <1>2, <3>1
      <4> QED BY <4>1, <4>2, <4>3, Zenon
    <3>2. CASE ~ (state[r].iteration < TrainIters)
      <4>1. Future(r) = <<"save_barrier", "finished", FALSE>>
        BY <1>1, <3>2 DEF Future, FromLoop
      <4>2. Future(r)' = <<"save_barrier", ret'[r], saved_checkpoint'[r]>>
        BY <1>2, <3>2 DEF Future, NextWait
      <4>3. ret'[r] = "finished" /\ saved_checkpoint'[r] = FALSE
        BY <1>2, <3>2
      <4> QED BY <4>1, <4>2, <4>3, Zenon
    <3> QED BY <3>1, <3>2
  <2> QED BY <1>1, <1>2, <2>1 DEF Advances, Unloaded, Early
<1> QED BY <1>0, <1>1, <1>2, <1>3, <1>4, <1>5, StepOfOne

\* Checkpoint keeps the invariant.
LEMMA CheckpointStep ==
  ASSUME IInv, NEW r \in Ranks, Checkpoint(r)
  PROVE  IInv'
<1> USE DEF At, Goto, disk, local, env, iterators
<1>0. /\ TypeOK /\ args' = args /\ args \in Configs /\ DiskInv /\ RankInv(r)
      /\ UNCHANGED <<args, disk, dead, state, data_iterator, valid_iterator, batch_size, env>>
  BY DEF IInv, TypeOK, Checkpoint
<1>1. /\ pc[r] = "checkpoint" /\ Unsaved(r) /\ ~saved_checkpoint[r] /\ pc[r] \notin Unloaded
      /\ saved_checkpoint[r] = FALSE
      /\ TrainCounted(state[r]) /\ EvalCounted(state[r])
      /\ data_iterator[r] = state[r].consumed /\ valid_iterator[r] = state[r].consumed_valid
  BY <1>0 DEF RankInv, TrainInv, SaveInv, Unloaded, Early, TypeOK, Checkpoint
<1>2. /\ pc' = [pc EXCEPT ![r] = pc'[r]] /\ ret' = [ret EXCEPT ![r] = ret'[r]]
      /\ saved_checkpoint' = [saved_checkpoint EXCEPT ![r] = saved_checkpoint'[r]]
      /\ \/ /\ state[r].iteration % args.save_interval = 0
            /\ pc'[r] = "save_timer" /\ ret'[r] = AfterCheckpoint
            /\ saved_checkpoint'[r] = TRUE
         \/ /\ state[r].iteration % args.save_interval # 0
            /\ pc'[r] = AfterCheckpoint /\ ret'[r] = ret[r]
            /\ saved_checkpoint'[r] = FALSE
  BY <1>0, <1>1 DEF TypeOK, Checkpoint, SaveAndTime
<1>3. \A q \in Ranks \ {r} : Same(q)
  BY <1>0, <1>2 DEF TypeOK, Same
<1>4. AfterCheckpoint \in {"duration", "exits"} /\ AfterCheckpoint' = AfterCheckpoint
  BY <1>0, JobKept DEF AfterCheckpoint
<1>5. TypeOK'
  <2>1. pc'[r] \in Labels /\ ret'[r] \in Labels /\ saved_checkpoint'[r] \in BOOLEAN
    BY <1>0, <1>2, <1>4 DEF TypeOK, Labels, Terminal, Waiting, BarrierLabels
  <2>2. pc' \in [Ranks -> Labels] /\ ret' \in [Ranks -> Labels]
        /\ saved_checkpoint' \in [Ranks -> BOOLEAN]
    BY <1>0, <1>2, <2>1 DEF TypeOK
  <2> QED BY <1>0, <2>2, JobKept DEF TypeOK
<1>6. RankInv(r)'
  <2>1. LoadInv(r)'
    BY <1>2, <1>4 DEF LoadInv, Early, Unloaded
  <2>2. TrainInv(r)'
    BY <1>0, <1>1, <1>2, <1>4, RankKept, JobKept DEF RankInv, TrainInv, Unloaded, Early
  <2>3. Unsaved(r)'
    BY <1>0, <1>1, RankKept DEF Unsaved
  <2>4. SaveInv(r)'
    BY <1>0, <1>2, <1>4, <2>3 DEF SaveInv, InSave, AfterSave, Writing
  <2>5. FileInv(r)'
    BY <1>2, <1>4 DEF FileInv, Written
  <2> QED BY <2>1, <2>2, <2>4, <2>5 DEF RankInv
<1>7. Advances(r)
  <2>1. Future(r)' = Future(r)
    <3>1. CASE state[r].iteration % args.save_interval = 0
      <4>1. Future(r) = <<"save_timer", AfterCheckpoint, TRUE>>
        BY <1>1, <3>1 DEF Future, FromCheckpoint
      <4>2. Future(r)' = <<"save_timer", ret'[r], saved_checkpoint'[r]>>
        BY <1>2, <3>1 DEF Future, NextWait
      <4>3. ret'[r] = AfterCheckpoint /\ saved_checkpoint'[r] = TRUE
        BY <1>2, <3>1
      <4> QED BY <4>1, <4>2, <4>3, Zenon
    <3>2. CASE state[r].iteration % args.save_interval # 0
      <4>0. pc'[r] = AfterCheckpoint /\ ret'[r] = ret[r]
            /\ saved_checkpoint'[r] = saved_checkpoint[r]
        BY <1>1, <1>2, <3>2
      <4>1. CASE args.exit_duration_in_mins
        <5>1. Future(r) = <<"duration", ret[r], saved_checkpoint[r]>>
          BY <1>1, <3>2, <4>1 DEF Future, FromCheckpoint
        <5>2. Future(r)' = <<"duration", ret'[r], saved_checkpoint'[r]>>
          BY <4>0, <4>1 DEF Future, NextWait, AfterCheckpoint
        <5> QED BY <4>0, <5>1, <5>2, Zenon
      <4>2. CASE ~ args.exit_duration_in_mins
        <5>1. Future(r) = FromExits(r, ret[r], saved_checkpoint[r])
          BY <1>1, <3>2, <4>2 DEF Future, FromCheckpoint
        <5>2. Future(r)' = FromExits(r, ret[r], saved_checkpoint[r])'
          BY <4>0, <4>2 DEF Future, AfterCheckpoint
        <5> QED BY <1>0, <4>0, <5>1, <5>2 DEF FromExits, FromLoop
      <4> QED BY <4>1, <4>2
    <3> QED BY <3>1, <3>2
  <2> QED BY <1>0, <1>1, <1>2, <1>4, <2>1 DEF Advances, Unloaded, Early
<1> QED BY <1>0, <1>1, <1>2, <1>3, <1>4, <1>5, <1>6, <1>7, StepOfOne

\* Exits keeps the invariant: ranks with the same iteration leave
\* together.
LEMMA ExitsStep ==
  ASSUME IInv, KillSwitchAlone, NEW r \in Ranks, Exits(r)
  PROVE  IInv'
<1> USE DEF At, Goto, disk, local, env, iterators
<1> DEFINE due == args.exit_interval # 0 /\ state[r].iteration % args.exit_interval = 0
<1>0. /\ TypeOK /\ args' = args /\ args \in Configs /\ DiskInv /\ RankInv(r)
      /\ UNCHANGED <<args, dead, state, disk, local, env>>
      /\ saved_checkpoint[r] \in BOOLEAN
  BY DEF IInv, TypeOK, Exits
<1>1. /\ pc[r] = "exits" /\ pc[r] \notin Unloaded
      /\ IF saved_checkpoint[r] THEN Published(r)
         ELSE Unsaved(r) /\ state[r].iteration % args.save_interval # 0
      /\ TrainCounted(state[r]) /\ EvalCounted(state[r])
      /\ data_iterator[r] = state[r].consumed /\ valid_iterator[r] = state[r].consumed_valid
  BY <1>0 DEF RankInv, TrainInv, SaveInv, Unloaded, Early, Exits
<1>2. /\ pc' = [pc EXCEPT ![r] = pc'[r]] /\ ret' = [ret EXCEPT ![r] = ret'[r]]
      /\ \/ /\ due \/ KillSwitch
            /\ saved_checkpoint[r] /\ pc'[r] = "exit_barrier" /\ ret'[r] = ret[r]
         \/ /\ due \/ KillSwitch
            /\ ~saved_checkpoint[r] /\ pc'[r] = "save_timer" /\ ret'[r] = "exit_barrier"
         \/ /\ ~due /\ ~KillSwitch /\ pc'[r] = "loop" /\ ret'[r] = ret[r]
  BY <1>0, <1>1 DEF TypeOK, Exits, Leave, SaveAndTime
<1> HIDE DEF due
<1>3. \A q \in Ranks \ {r} : Same(q)
  BY <1>0, <1>2 DEF TypeOK, Same
<1>5. TypeOK'
  <2>1. pc'[r] \in Labels /\ ret'[r] \in Labels
    BY <1>0, <1>2 DEF TypeOK, Labels, Terminal, Waiting, BarrierLabels
  <2>2. pc' \in [Ranks -> Labels] /\ ret' \in [Ranks -> Labels]
    BY <1>0, <1>2, <2>1 DEF TypeOK
  <2> QED BY <1>0, <2>2, JobKept DEF TypeOK
<1>6. RankInv(r)'
  <2>1. LoadInv(r)'
    BY <1>2 DEF LoadInv, Early, Unloaded
  <2>2. TrainInv(r)'
    BY <1>0, <1>1, <1>2, RankKept, JobKept DEF RankInv, TrainInv, Unloaded, Early
  <2>3. /\ Unsaved(r) => Unsaved(r)'
        /\ Published(r)' <=> Published(r)
        /\ AfterCheckpoint' \in {"duration", "exits"}
    BY <1>0, RankKept, JobKept DEF Unsaved, Published, AfterCheckpoint
  <2>4. Lags(r)'
    <3>1. /\ state[r].iteration \in Nat /\ saved.iteration \in Nat
          /\ LastSave(state[r].iteration) <= state[r].iteration
      BY <1>0, <1>1, TrainingAfter, LastSaveFacts
    <3>2. ASSUME Unsaved(r), state[r].iteration % args.save_interval # 0
          PROVE  LastSave(state[r].iteration) <= saved.iteration
      <4>1. state[r].iteration - 1 \in Nat /\ state[r].iteration = state[r].iteration - 1 + 1
        BY <3>1, <3>2 DEF Unsaved
      <4>2. LastSave(state[r].iteration) = LastSave(state[r].iteration - 1)
        BY <1>0, <3>2, <4>1, LastSaveFacts
      <4> QED BY <3>2, <4>2 DEF Unsaved
    <3> QED BY <1>0, <1>1, <3>1, <3>2, RankKept DEF Lags, Published, Unsaved
  <2>5. SaveInv(r)'
    BY <1>0, <1>1, <1>2, <2>3, <2>4 DEF SaveInv, InSave, AfterSave, Writing
  <2>6. FileInv(r)'
    BY <1>2 DEF FileInv, Written
  <2> QED BY <2>1, <2>2, <2>5, <2>6 DEF RankInv
<1>7. Advances(r) \/ Ranks = {r}
  <2>1. CASE KillSwitch
    <3>1. WorldSize(args) = 1
      BY <1>0, <2>1 DEF KillSwitchAlone, KillSwitch
    <3> QED BY <3>1 DEF Ranks
  <2>2. CASE ~KillSwitch
    <3>0. Future(r) = FromExits(r, ret[r], saved_checkpoint[r])
      BY <1>1 DEF Future
    <3>1. Future(r)' = Future(r)
      <4>1. CASE due /\ saved_checkpoint[r]
        <5>1. Future(r) = <<"exit_barrier", ret[r], TRUE>>
          BY <3>0, <4>1 DEF FromExits, due
        <5>2. Future(r)' = <<"exit_barrier", ret'[r], saved_checkpoint'[r]>>
          BY <1>2, <4>1 DEF Future, NextWait
        <5>3. ret'[r] = ret[r] /\ saved_checkpoint'[r] = TRUE
          BY <1>0, <1>2, <4>1
        <5> QED BY <5>1, <5>2, <5>3, Zenon
      <4>2. CASE due /\ ~saved_checkpoint[r]
        <5>1. Future(r) = <<"save_timer", "exit_barrier", FALSE>>
          BY <3>0, <4>2 DEF FromExits, due
        <5>2. Future(r)' = <<"save_timer", ret'[r], saved_checkpoint'[r]>>
          BY <1>2, <4>2 DEF Future, NextWait
        <5>3. ret'[r] = "exit_barrier" /\ saved_checkpoint'[r] = FALSE
          BY <1>0, <1>2, <4>2
        <5> QED BY <5>1, <5>2, <5>3, Zenon
      <4>3. CASE ~due
        <5>1. Future(r) = FromLoop(r, ret[r])
          BY <3>0, <4>3 DEF FromExits, due
        <5>2. Future(r)' = FromLoop(r, ret[r])'
          BY <1>2, <2>2, <4>3 DEF Future
        <5>3. ret'[r] = ret[r] /\ state' = state
          BY <1>0, <1>2, <2>2, <4>3
        <5> QED BY <5>1, <5>2, <5>3 DEF FromLoop
      <4> QED BY <4>1, <4>2, <4>3
    <3> QED BY <1>0, <1>1, <1>2, <3>1 DEF Advances, Unloaded, Early
  <2> QED BY <2>1, <2>2
<1> QED BY <1>0, <1>1, <1>2, <1>3, <1>5, <1>6, <1>7, StepOfOne

\* Where a rank stands while it writes its files.
StepSaving == {"save", "gather", "open_optim", "close_optim", "open_model", "close_model"}

\* A rank that goes on saving.
LEMMA SavingKept ==
  ASSUME NEW r \in Ranks, RankInv(r), UNCHANGED <<args, ret, state, saved, local>>,
         pc[r] \in StepSaving,
         pc'[r] \in StepSaving \cup {"save_barrier"}
  PROVE  LoadInv(r)' /\ TrainInv(r)' /\ SaveInv(r)' /\ Advances(r)
<1> USE DEF local, iterators
<1>0. pc[r] \in Writing /\ pc'[r] \in Writing
  BY DEF Writing, StepSaving
<1>1. LoadInv(r)'
  BY DEF LoadInv, Early, Unloaded, StepSaving
<1>2. TrainInv(r)'
  BY RankKept, JobKept DEF RankInv, TrainInv, Unloaded, Early, StepSaving
<1>3. /\ Unsaved(r) => Unsaved(r)'
      /\ Published(r)' <=> Published(r)
      /\ AfterCheckpoint' = AfterCheckpoint
  BY RankKept, JobKept DEF Unsaved, Published
<1>4. SaveInv(r)'
  <2>1. /\ ret[r] \in {"exited", "exit_barrier", "finished", AfterCheckpoint}
        /\ saved_checkpoint[r] <=> ret[r] = AfterCheckpoint
        /\ ret[r] = "finished" => state[r].iteration = TrainIters
        /\ Unsaved(r) \/ (ret[r] = "finished" /\ Published(r))
    BY <1>0 DEF RankInv, SaveInv, InSave
  <2>2. ret'[r] = ret[r] /\ saved_checkpoint'[r] = saved_checkpoint[r] /\ state'[r] = state[r]
    OBVIOUS
  <2> QED BY <2>1, <2>2, <1>0, <1>3 DEF SaveInv, AfterSave, StepSaving
<1>5. Advances(r)
  <2>1. Future(r) = <<"save_barrier", ret[r], saved_checkpoint[r]>>
    BY DEF Future, NextWait, StepSaving
  <2>2. Future(r)' = <<"save_barrier", ret'[r], saved_checkpoint'[r]>>
    BY DEF Future, NextWait, StepSaving
  <2>3. Future(r)' = Future(r)
    BY <2>1, <2>2
  <2> QED BY <2>3 DEF Advances, Unloaded, Early, StepSaving
<1> QED BY <1>1, <1>2, <1>4, <1>5

\* Save keeps the invariant.
LEMMA SaveRankStep ==
  ASSUME IInv, NEW r \in Ranks, Save(r), UNCHANGED <<local, env>>
  PROVE  IInv'
<1> USE DEF Save, At, Goto, local, env, iterators
<1>0. TypeOK /\ args' = args /\ args \in Configs /\ RankInv(r)
  BY DEF IInv, TypeOK
<1>1. /\ pc[r] = "save"
      /\ pc'[r] = IF args.use_distributed_optimizer THEN "gather"
                  ELSE IF DataParallelRank(r) = 0 THEN "open_model" ELSE "save_barrier"
      /\ \A q \in Ranks \ {r} : Same(q)
  BY <1>0 DEF TypeOK, Same
<1>2. TypeOK'
  BY <1>0, JobKept DEF TypeOK, Labels, Waiting, BarrierLabels
<1>3. LoadInv(r)' /\ TrainInv(r)' /\ SaveInv(r)' /\ Advances(r)
  BY <1>0, <1>1, SavingKept DEF StepSaving
<1>4. FileInv(r)'
  BY <1>0, <1>1, RankKept DEF FileInv, Written
<1>5. RankInv(r)'
  BY <1>3, <1>4 DEF RankInv
<1>6. pc[r] \notin {"open_tracker", "close_tracker"} /\ pc'[r] \notin {"open_tracker", "close_tracker"}
  BY <1>1
<1>7. UNCHANGED <<args, disk>>
  BY DEF disk
<1> QED BY <1>1, <1>2, <1>3, <1>5, <1>6, <1>7, StepOfOne

\* Every rank moves by itself or stays where it is.
LEMMA StepOfSome ==
  ASSUME IInv, TypeOK', DiskInv', args' = args,
         \A q \in Ranks : RankInv(q)' /\ Advances(q)
  PROVE  IInv'
<1>1. Ranks' = Ranks
  BY JobKept
<1>2. ASSUME NEW p \in Ranks, NEW q \in Ranks PROVE PairInv(p, q)'
  BY PairsKept DEF IInv
<1> QED BY <1>1, <1>2 DEF IInv

\* Gather keeps the invariant.
LEMMA GatherStep ==
  ASSUME IInv, NEW r \in Ranks, Gather(r), UNCHANGED <<local, env>>
  PROVE  IInv'
<1> USE DEF At, local, env, iterators, disk
<1>0. /\ TypeOK /\ args' = args /\ args \in Configs /\ DiskInv
      /\ UNCHANGED <<args, ret, dead, state, disk, local, env>>
  BY DEF IInv, TypeOK, Gather
<1>1. ASSUME NEW q \in Ranks
      PROVE  \/ Same(q) /\ q \notin Group(r)
             \/ /\ pc[q] = "gather" /\ q \in Group(r)
                /\ pc'[q] = IF DataParallelRank(q) = 0 THEN "open_optim" ELSE "save_barrier"
  BY <1>0 DEF Gather, Same
<1>2. TypeOK'
  <2>1. pc' \in [Ranks -> Labels]
    BY <1>0 DEF TypeOK, Gather, Labels, Waiting, BarrierLabels
  <2> QED BY <1>0, <2>1, JobKept DEF TypeOK
<1>3. DiskInv'
  BY <1>0, DiskKept
<1>4. Publishing' = Publishing
  <2>1. 0 \in Ranks
    BY <1>0, RankFacts
  <2>2. pc'[0] = pc[0] \/ (pc[0] = "gather" /\ pc'[0] \in {"open_optim", "save_barrier"})
    BY <1>1, <2>1 DEF Same
  <2> QED BY <2>2 DEF Publishing
<1>5. ASSUME NEW q \in Ranks PROVE RankInv(q)' /\ Advances(q)
  <2>0. RankInv(q)
    BY DEF IInv
  <2>1. CASE Same(q)
    BY <1>0, <1>4, <2>0, <2>1, RankFrame, SameAdvances
  <2>2. CASE /\ pc[q] = "gather"
             /\ pc'[q] = IF DataParallelRank(q) = 0 THEN "open_optim" ELSE "save_barrier"
    <3>1. LoadInv(q)' /\ TrainInv(q)' /\ SaveInv(q)' /\ Advances(q)
      BY <1>0, <2>0, <2>2, SavingKept DEF StepSaving
    <3>2. FileInv(q)'
      BY <1>0, <2>0, <2>2, RankKept DEF FileInv, Written, RankInv
    <3> QED BY <3>1, <3>2 DEF RankInv
  <2> QED BY <1>1, <2>1, <2>2
<1> QED BY <1>0, <1>2, <1>3, <1>5, StepOfSome

\* What a rank that saves holds, and what it may overwrite.
LEMMA SavingFacts ==
  ASSUME IInv, NEW r \in Ranks, InSave(r)
  PROVE  /\ state[r] \in State /\ Counted(state[r]) /\ state[r].iteration \in Iterations
         /\ tracker \in 1 .. TrainIters - 1 => state[r].iteration # tracker
         /\ tracker = TrainIters => state[r] = saved
<1>1. pc[r] \in Writing \cup {"save_done"}
  BY DEF InSave
<1>2. /\ TrainCounted(state[r]) /\ EvalCounted(state[r])
      /\ Unsaved(r) \/ (ret[r] = "finished" /\ Published(r))
      /\ ret[r] = "finished" => state[r].iteration = TrainIters
  BY <1>1 DEF IInv, RankInv, TrainInv, SaveInv, Writing, Unloaded, Early
<1>3. /\ state[r] \in State /\ saved \in State /\ TrainIters \in Nat \ {0}
      /\ tracker \in Iterations => tracker = saved.iteration
  BY ArgsType DEF IInv, TypeOK, DiskInv
<1>4. /\ state[r].iteration \in Nat /\ saved.iteration \in Nat
      /\ state[r].iteration <= TrainIters
  BY <1>2, <1>3 DEF State, TrainCounted
<1> QED BY <1>2, <1>3, <1>4 DEF Counted, Iterations, Unsaved, Published

\* Rank r writes k of its shard, and goes on saving.
LEMMA WriteStep ==
  ASSUME IInv, NEW r \in Ranks, NEW k \in Kinds, NEW content \in {Partial, Complete(state[r])},
         NEW l \in {"close_optim", "open_model", "close_model", "save_barrier"},
         pc[r] \in {"open_optim", "close_optim", "open_model", "close_model"},
         Write(r, k, content), Goto(r, l),
         UNCHANGED <<args, ret, dead, state, tracker, saved, local, env>>,
         FileInv(r)'
  PROVE  IInv'
<1> USE DEF local, env, iterators
<1>0. /\ TypeOK /\ args \in Configs /\ DiskInv /\ RankInv(r)
      /\ DataParallelRank(r) = 0
  BY DEF IInv, TypeOK, RankInv, FileInv
<1>1. /\ state[r] \in State /\ Counted(state[r]) /\ state[r].iteration \in Iterations
      /\ tracker \in 1 .. TrainIters - 1 => state[r].iteration # tracker
      /\ tracker = TrainIters => state[r] = saved
      /\ Shard(r) \in Shards
  <2>1. InSave(r)
    BY DEF InSave, Writing
  <2> QED BY <1>0, <2>1, SavingFacts, RankFacts
<1>2. /\ pc'[r] = l /\ \A q \in Ranks \ {r} : Same(q)
  BY <1>0 DEF TypeOK, Same, Goto
<1>3. /\ files' \in [Iterations -> [Shards -> [Kinds -> Content]]]
      /\ \A i \in Iterations, sh \in Shards, j \in Kinds :
           files'[i][sh][j] = IF i = state[r].iteration /\ sh = Shard(r) /\ j = k
                              THEN content ELSE files[i][sh][j]
      /\ \A i \in Iterations, sh \in Shards : sh # Shard(r) => files'[i][sh] = files[i][sh]
  <2> DEFINE ii == state[r].iteration
             ss == Shard(r)
  <2>1. files' = [files EXCEPT ![ii][ss][k] = content]
    BY DEF Write
  <2>2. files \in [Iterations -> [Shards -> [Kinds -> Content]]]
    BY <1>0 DEF TypeOK
  <2>3. content \in Content
    BY <1>1 DEF Content, Complete
  <2>4. ii \in Iterations /\ ss \in Shards
    BY <1>1
  <2> HIDE DEF ii, ss
  <2>5. /\ files' \in [Iterations -> [Shards -> [Kinds -> Content]]]
        /\ \A i \in Iterations, sh \in Shards, j \in Kinds :
             files'[i][sh][j] = IF i = ii /\ sh = ss /\ j = k THEN content ELSE files[i][sh][j]
        /\ \A i \in Iterations, sh \in Shards : sh # ss => files'[i][sh] = files[i][sh]
    BY <2>1, <2>2, <2>3, <2>4
  <2> QED BY <2>5 DEF ii, ss
<1>4. TypeOK'
  <2>1. pc' \in [Ranks -> Labels]
    BY <1>0 DEF TypeOK, Goto, Labels, Waiting, BarrierLabels
  <2> QED BY <1>0, <1>3, <2>1, JobKept DEF TypeOK
<1>5. DiskInv'
  <2>1. Counted(saved)'
    BY <1>0, JobKept DEF DiskInv
  <2>2. ASSUME tracker \in 1 .. TrainIters - 1 PROVE Whole(tracker)'
    <3>1. tracker \in Iterations
      BY <1>0, <2>2, ArgsType DEF Iterations
    <3> QED BY <1>0, <1>1, <1>3, <2>2, <3>1, JobKept DEF DiskInv, Whole
  <2>3. ASSUME tracker = TrainIters,
               NEW sh \in Shards, NEW j \in Kinds,
               j = "model_optim_rng" \/ args.use_distributed_optimizer
        PROVE  files'[TrainIters][sh][j] \in {Partial, Complete(saved)}
    <3>1. TrainIters \in Iterations
      BY <1>0, ArgsType DEF Iterations
    <3> QED BY <1>0, <1>1, <1>3, <2>3, <3>1 DEF DiskInv
  <2> QED BY <1>0, <2>1, <2>2, <2>3, JobKept DEF DiskInv
<1>6. Publishing' = Publishing
  <2>1. 0 \in Ranks
    BY <1>0, RankFacts
  <2> QED BY <1>2, <2>1 DEF Publishing, Same
<1>7. ASSUME NEW q \in Ranks PROVE RankInv(q)' /\ Advances(q)
  <2>0. RankInv(q)
    BY DEF IInv
  <2>1. CASE q = r
    <3>1. LoadInv(r)' /\ TrainInv(r)' /\ SaveInv(r)' /\ Advances(r)
      BY <1>0, <1>2, SavingKept DEF StepSaving
    <3> QED BY <2>1, <3>1 DEF RankInv
  <2>2. CASE q # r
    <3>1. Same(q)
      BY <1>2, <2>2
    <3>2. ASSUME DataParallelRank(q) = 0, ~ (files'[state[q].iteration][Shard(q)]
                                              = files[state[q].iteration][Shard(q)])
          PROVE  FALSE
      <4>1. Shard(q) \in Shards /\ Shard(q) # Shard(r)
        BY <1>0, <2>2, <3>2, RankFacts
      <4>2. CASE state[q].iteration \in Iterations
        BY <1>3, <3>2, <4>1, <4>2
      <4>3. CASE state[q].iteration \notin Iterations
        <5>1. files' = [files EXCEPT ![state[r].iteration][Shard(r)][k] = content]
          BY DEF Write
        <5> QED BY <1>0, <1>1, <3>2, <4>3, <5>1 DEF TypeOK
      <4> QED BY <4>2, <4>3
    <3>3. RankInv(q)'
      BY <1>6, <2>0, <3>1, <3>2, RankFrame
    <3> QED BY <3>1, <3>3, SameAdvances
  <2> QED BY <2>1, <2>2
<1> QED BY <1>0, <1>4, <1>5, <1>7, StepOfSome

\* What is in the file after the write, and in the other one.
LEMMA FileWritten ==
  ASSUME IInv, NEW r \in Ranks, NEW k \in Kinds, NEW content, NEW j \in Kinds,
         pc[r] \in {"open_optim", "close_optim", "open_model", "close_model"},
         Write(r, k, content)
  PROVE  files'[state[r].iteration][Shard(r)][j] =
           IF j = k THEN content ELSE files[state[r].iteration][Shard(r)][j]
<1>1. state[r].iteration \in Iterations /\ Shard(r) \in Shards
  BY SavingFacts, RankFacts DEF InSave, Writing, IInv, TypeOK
<1> DEFINE ii == state[r].iteration
           ss == Shard(r)
<1>2. files' = [files EXCEPT ![ii][ss][k] = content]
  BY DEF Write
<1>3. files \in [Iterations -> [Shards -> [Kinds -> Content]]]
  BY DEF IInv, TypeOK
<1>4. ii \in Iterations /\ ss \in Shards
  BY <1>1
<1> HIDE DEF ii, ss
<1>5. files'[ii][ss][j] = IF j = k THEN content ELSE files[ii][ss][j]
  BY <1>2, <1>3, <1>4
<1> QED BY <1>5 DEF ii, ss

\* The steps that write a file keep the invariant.
LEMMA FileStep ==
  ASSUME IInv, NEW r \in Ranks, UNCHANGED <<local, env>>,
         OpenOptim(r) \/ CloseOptim(r) \/ OpenModel(r) \/ CloseModel(r)
  PROVE  IInv'
<1> DEFINE file == files[state[r].iteration][Shard(r)]
           file1 == files'[state[r].iteration][Shard(r)]
<1>0. /\ args' = args /\ state' = state
      /\ "distrib_optim" \in Kinds /\ "model_optim_rng" \in Kinds
      /\ Partial \in {Partial, Complete(state[r])}
      /\ Complete(state[r]) \in {Partial, Complete(state[r])}
      /\ "distrib_optim" # "model_optim_rng"
      /\ pc \in [Ranks -> Labels]
  BY DEF IInv, TypeOK, OpenOptim, CloseOptim, OpenModel, CloseModel, Kinds
<1>1. FileInv(r)
  BY DEF IInv, RankInv
<1>2. CASE OpenOptim(r)
  <2>1. pc[r] = "open_optim" /\ pc'[r] = "close_optim"
    BY <1>0, <1>2 DEF OpenOptim, At, Goto
  <2>2. FileInv(r)'
    BY <1>0, <1>1, <2>1, RankKept DEF FileInv, Written
  <2> QED BY <1>0, <1>2, <2>1, <2>2, WriteStep DEF OpenOptim
<1>3. CASE CloseOptim(r)
  <2>1. pc[r] = "close_optim" /\ pc'[r] = "open_model"
    BY <1>0, <1>3 DEF CloseOptim, At, Goto
  <2>2. file1["distrib_optim"] = Complete(state[r])
    BY <1>0, <1>3, <2>1, FileWritten DEF CloseOptim
  <2>3. FileInv(r)'
    BY <1>0, <1>1, <2>1, <2>2, RankKept DEF FileInv, Written, Complete
  <2> QED BY <1>0, <1>3, <2>1, <2>3, WriteStep DEF CloseOptim
<1>4. CASE OpenModel(r)
  <2>1. pc[r] = "open_model" /\ pc'[r] = "close_model"
    BY <1>0, <1>4 DEF OpenModel, At, Goto
  <2>2. file1["distrib_optim"] = file["distrib_optim"]
    BY <1>0, <1>4, <2>1, FileWritten DEF OpenModel
  <2>3. FileInv(r)'
    BY <1>0, <1>1, <2>1, <2>2, RankKept DEF FileInv, Written, Complete
  <2> QED BY <1>0, <1>4, <2>1, <2>3, WriteStep DEF OpenModel
<1>5. CASE CloseModel(r)
  <2>1. pc[r] = "close_model" /\ pc'[r] = "save_barrier"
    BY <1>0, <1>5 DEF CloseModel, At, Goto
  <2>2. /\ file1["distrib_optim"] = file["distrib_optim"]
        /\ file1["model_optim_rng"] = Complete(state[r])
    BY <1>0, <1>5, <2>1, FileWritten DEF CloseModel
  <2>3. FileInv(r)'
    BY <1>0, <1>1, <2>1, <2>2, RankKept DEF FileInv, Written, Complete
  <2> QED BY <1>0, <1>5, <2>1, <2>3, WriteStep DEF CloseModel
<1> QED BY <1>2, <1>3, <1>4, <1>5

\* While rank 0 publishes, the others wait for it.
LEMMA PublishingFacts ==
  ASSUME IInv, Publishing, NEW q \in Ranks, q # 0
  PROVE  pc[q] = "save_done" /\ ret[q] = ret[0] /\ saved_checkpoint[q] = saved_checkpoint[0]
<1>0. 0 \in Ranks /\ pc[0] \in Labels /\ pc[q] \in Labels
  BY RankFacts DEF IInv, TypeOK
<1>1. Future(0) = <<"save_done", ret[0], saved_checkpoint[0]>>
  BY DEF Publishing, Future, NextWait
<1>2. pc[q] # "aborted"
  BY <1>0 DEF IInv, PairInv, Publishing
<1>3. Future(q) = <<"save_done", ret[0], saved_checkpoint[0]>>
  BY <1>0, <1>1, <1>2 DEF IInv, PairInv, Publishing
<1>4. pc[q] \in {"open_tracker", "close_tracker", "save_done"}
  BY <1>0, <1>3, FutureFacts
<1>5. pc[q] = "save_done"
  BY <1>4 DEF IInv, RankInv, FileInv
<1> QED BY <1>0, <1>3, <1>5, FutureFacts DEF Waiting, BarrierLabels

\* OpenTracker keeps the invariant.
LEMMA OpenTrackerStep ==
  ASSUME IInv, NEW r \in Ranks, OpenTracker(r), UNCHANGED <<local, env>>
  PROVE  IInv'
<1> USE DEF OpenTracker, At, Goto, local, env, iterators
<1>0. /\ TypeOK /\ args' = args /\ args \in Configs /\ DiskInv /\ RankInv(r) /\ r = 0
      /\ saved' = saved /\ files' = files
  BY DEF IInv, TypeOK, RankInv, FileInv
<1>1. pc[r] = "open_tracker" /\ pc'[r] = "close_tracker" /\ \A q \in Ranks \ {r} : Same(q)
  BY <1>0 DEF TypeOK, Same
<1>2. TypeOK'
  BY <1>0, JobKept DEF TypeOK, Labels
<1>3. DiskInv'
  <2>1. TrainIters \in Nat \ {0}
    BY <1>0, ArgsType
  <2>2. tracker' = 0 /\ tracker' \notin Iterations /\ tracker' # None
        /\ tracker' \notin 1 .. TrainIters - 1 /\ tracker' # TrainIters
    BY <2>1 DEF Empty, None, Iterations
  <2> QED BY <1>0, <2>2, JobKept DEF DiskInv
<1>4. Publishing /\ Publishing'
  BY <1>0, <1>1 DEF Publishing
<1>5. ASSUME NEW q \in Ranks PROVE RankInv(q)' /\ Advances(q)
  <2>0. RankInv(q)
    BY DEF IInv
  <2>1. CASE q = r
    <3>1. LoadInv(r)'
      BY <1>1 DEF LoadInv, Early, Unloaded
    <3>2. TrainInv(r)'
      BY <1>0, <1>1, RankKept, JobKept DEF RankInv, TrainInv, Unloaded, Early
    <3>3. SaveInv(r)'
      <4>1. /\ ret[r] \in {"exited", "exit_barrier", "finished", AfterCheckpoint}
            /\ saved_checkpoint[r] <=> ret[r] = AfterCheckpoint
            /\ ret[r] = "finished" => state[r].iteration = TrainIters
            /\ Unsaved(r) \/ (ret[r] = "finished" /\ Published(r))
        BY <1>0, <1>1 DEF RankInv, SaveInv, InSave, Writing
      <4>2. /\ Unsaved(r) => Unsaved(r)'
            /\ Published(r) => Published(r)'
            /\ AfterCheckpoint' = AfterCheckpoint
        BY <1>0, RankKept, JobKept DEF Unsaved, Published
      <4> QED BY <1>1, <4>1, <4>2 DEF SaveInv, InSave, AfterSave, Writing
    <3>4. FileInv(r)'
      BY <1>0, <1>1, RankKept DEF RankInv, FileInv, Written, Complete
    <3>5. Future(r)' = Future(r)
      BY <1>1 DEF Future, NextWait
    <3>6. Advances(r)
      BY <1>1, <3>5 DEF Advances, Unloaded, Early
    <3> QED BY <2>1, <3>1, <3>2, <3>3, <3>4, <3>6 DEF RankInv
  <2>2. CASE q # r
    <3>1. Same(q) /\ pc[q] = "save_done"
      BY <1>0, <1>1, <1>4, <2>2, PublishingFacts
    <3>2. pc[q] \notin Unloaded /\ pc[q] # "load"
      BY <3>1 DEF Unloaded, Early
    <3> QED BY <1>0, <1>4, <2>0, <3>1, <3>2, RankFrame, SameAdvances
  <2> QED BY <2>1, <2>2
<1> QED BY <1>0, <1>2, <1>3, <1>5, StepOfSome

\* Ranks that have counted the same steps hold the same.
LEMMA SameState ==
  ASSUME IInv, NEW r \in Ranks, NEW q \in Ranks,
         pc[r] \notin Unloaded \cup {"evaluate", "finished"},
         pc[q] \notin Unloaded \cup {"evaluate", "finished"}
  PROVE  state[r] = state[q]
<1>1. /\ state[r] \in State /\ Counted(state[r])
      /\ state[q] \in State /\ Counted(state[q])
  BY DEF IInv, TypeOK, RankInv, TrainInv, Counted
<1>2. state[r].model = state[q].model
  BY DEF IInv, PairInv
<1> QED BY <1>1, <1>2, CountedUnique

\* CloseTracker keeps the invariant: the files it publishes are complete
\* and all of the state of rank 0.
LEMMA CloseTrackerStep ==
  ASSUME IInv, NEW r \in Ranks, CloseTracker(r), UNCHANGED <<local, env>>
  PROVE  IInv'
<1> USE DEF CloseTracker, At, Goto, local, env, iterators
<1>0. /\ TypeOK /\ args' = args /\ args \in Configs /\ DiskInv /\ RankInv(r) /\ r = 0
      /\ saved' = state[0] /\ tracker' = state[0].iteration /\ files' = files
  BY DEF IInv, TypeOK, RankInv, FileInv
<1>1. pc[0] = "close_tracker" /\ pc'[0] = "save_done" /\ \A q \in Ranks \ {0} : Same(q)
  BY <1>0 DEF TypeOK, Same
<1>2. Publishing /\ ~Publishing'
  BY <1>0, <1>1 DEF Publishing
<1>3. /\ state[0] \in State /\ Counted(state[0]) /\ state[0].iteration \in Iterations
  BY <1>0, <1>1, SavingFacts DEF InSave, Writing
<1>4. ASSUME NEW q \in Ranks
      PROVE  /\ pc[q] = IF q = 0 THEN "close_tracker" ELSE "save_done"
             /\ pc'[q] = "save_done" /\ state'[q] = saved' /\ state[q] = state[0]
             /\ ret'[q] = ret[q] /\ saved_checkpoint'[q] = saved_checkpoint[q]
             /\ InSave(q) /\ Written(q) /\ RankInv(q)
  <2>1. /\ pc[q] = IF q = 0 THEN "close_tracker" ELSE "save_done"
        /\ pc'[q] = "save_done"
    BY <1>0, <1>1, <1>2, PublishingFacts DEF Same
  <2>2. state[q] = state[0]
    <3>1. 0 \in Ranks
      BY <1>0
    <3> QED BY <1>1, <2>1, <3>1, SameState DEF Unloaded, Early
  <2> QED BY <1>0, <1>2, <2>1, <2>2 DEF InSave, Writing, Written, IInv
<1>5. TypeOK'
  <2>1. pc' \in [Ranks -> Labels]
    BY <1>0 DEF TypeOK, Labels, Waiting, BarrierLabels
  <2>2. tracker' \in {None, Empty} \cup Iterations
    BY <1>0, <1>3
  <2>3. saved' \in State
    BY <1>0, <1>3
  <2> QED BY <1>0, <2>1, <2>2, <2>3, JobKept DEF TypeOK
<1>6. DiskInv'
  <2>1. Counted(saved)'
    BY <1>0, <1>3, JobKept
  <2>2. tracker' = saved'.iteration /\ tracker' # None
    BY <1>0, <1>3 DEF None, Iterations
  <2>3. ASSUME NEW sh \in Shards, NEW k \in Kinds,
               k = "model_optim_rng" \/ args.use_distributed_optimizer
        PROVE  files'[tracker'][sh][k] = Complete(saved)'
    <3>1. PICK q \in Ranks : Shard(q) = sh /\ DataParallelRank(q) = 0
      BY <1>0, RankFacts
    <3>2. files[state[q].iteration][sh][k] = Complete(state[q])
      BY <1>4, <2>3, <3>1 DEF RankInv, FileInv, Kinds
    <3>3. Complete(saved)' = Complete(state[q])
      BY <1>0, <1>4 DEF Complete
    <3> QED BY <1>0, <1>4, <3>2, <3>3
  <2>4. Whole(tracker)'
    BY <1>0, <2>3, JobKept DEF Whole
  <2>5. tracker' = TrainIters =>
          \A sh \in Shards, k \in Kinds :
            k = "model_optim_rng" \/ args.use_distributed_optimizer =>
              files'[TrainIters][sh][k] = Complete(saved)'
    BY <2>3
  <2> QED BY <1>0, <2>1, <2>2, <2>4, <2>5, JobKept DEF DiskInv
<1>7. ASSUME NEW q \in Ranks PROVE RankInv(q)' /\ Advances(q)
  <2>1. LoadInv(q)'
    BY <1>4 DEF LoadInv, Early, Unloaded
  <2>2. TrainInv(q)'
    <3>1. pc[q] \notin Unloaded \cup {"evaluate", "finished", "loaded", "build_data", "exited"}
          /\ pc'[q] \notin Unloaded \cup {"evaluate", "finished", "loaded", "build_data", "exited"}
      BY <1>4 DEF Unloaded, Early
    <3>2. TrainInv(q)
      BY <1>4 DEF RankInv
    <3> QED BY <1>0, <1>4, <3>1, <3>2, RankKept, JobKept DEF TrainInv
  <2>3. SaveInv(q)'
    <3>1. /\ ret[q] \in {"exited", "exit_barrier", "finished", AfterCheckpoint}
          /\ saved_checkpoint[q] <=> ret[q] = AfterCheckpoint
          /\ ret[q] = "finished" => state[q].iteration = TrainIters
      BY <1>4 DEF RankInv, SaveInv
    <3>2. AfterCheckpoint' = AfterCheckpoint
      BY <1>0, JobKept
    <3>3. pc'[q] = "save_done" /\ Published(q)' /\ ~InSave(q)'
      BY <1>2, <1>4 DEF Published, InSave, Writing
    <3>4. state'[q] = state[q]
      OBVIOUS
    <3> QED BY <1>4, <3>1, <3>2, <3>3, <3>4 DEF SaveInv
  <2>4. FileInv(q)'
    BY <1>2, <1>4 DEF FileInv, Written
  <2>5. Future(q)' = Future(q)
    <3>1. Future(q) = <<"save_done", ret[q], saved_checkpoint[q]>>
      BY <1>4 DEF Future, NextWait
    <3>2. Future(q)' = <<"save_done", ret'[q], saved_checkpoint'[q]>>
      BY <1>4 DEF Future, NextWait
    <3> QED BY <1>4, <3>1, <3>2
  <2>6. Advances(q)
    BY <1>4, <2>5 DEF Advances, Unloaded, Early
  <2> QED BY <2>1, <2>2, <2>3, <2>4, <2>6 DEF RankInv
<1> QED BY <1>0, <1>5, <1>6, <1>7, StepOfSome

-----------------------------------------------------------------------------
\* The collectives.

\* A step of all ranks keeps the invariant when it keeps theirs and sends
\* them the same way.
LEMMA StepOfAll ==
  ASSUME IInv, TypeOK', UNCHANGED <<args, disk>>,
         \A r \in Ranks : pc'[r] # "aborted" /\ RankInv(r)',
         \A r, q \in Ranks :
           /\ Future(r)' = Future(q)'
           /\ pc'[r] \notin Unloaded => state'[r].model = state'[q].model
  PROVE  IInv'
<1>1. Ranks' = Ranks
  BY JobKept
<1>2. ASSUME NEW p \in Ranks, NEW q \in Ranks PROVE PairInv(p, q)'
  BY DEF PairInv
<1> QED BY <1>1, <1>2, DiskKept DEF IInv

\* Ranks that wait have been told the same.
LEMMA Together ==
  ASSUME IInv, NEW r \in Ranks, NEW q \in Ranks, pc[r] \in Waiting, pc[q] \in Waiting
  PROVE  /\ pc[r] = pc[q] /\ ret[r] = ret[q] /\ saved_checkpoint[r] = saved_checkpoint[q]
         /\ pc[r] \notin Unloaded => state[r].model = state[q].model
         /\ pc[r] \notin Unloaded \cup {"evaluate"} => state[r] = state[q]
<1>1. pc[r] \in Labels /\ pc[q] \in Labels /\ pc[r] # "aborted" /\ pc[q] # "aborted"
      /\ pc[r] # "finished" /\ pc[q] # "finished"
  BY DEF IInv, TypeOK, Waiting, BarrierLabels
<1>2. <<pc[r], ret[r], saved_checkpoint[r]>> = <<pc[q], ret[q], saved_checkpoint[q]>>
  BY <1>1, FutureFacts DEF IInv, PairInv
<1>3. pc[r] = pc[q] /\ ret[r] = ret[q] /\ saved_checkpoint[r] = saved_checkpoint[q]
  BY <1>2
<1>4. pc[r] \notin Unloaded => state[r].model = state[q].model
  BY <1>3 DEF IInv, PairInv
<1>5. pc[r] \notin Unloaded \cup {"evaluate"} => state[r] = state[q]
  BY <1>1, <1>3, SameState
<1> QED BY <1>3, <1>4, <1>5

\* StartTime keeps the invariant.
LEMMA StartTimeStep ==
  ASSUME IInv, StartTime
  PROVE  IInv'
<1> USE DEF StartTime, AllAt, At, Everyone, disk, local, env, iterators
<1>0. TypeOK /\ args' = args /\ args \in Configs
  BY DEF IInv, TypeOK
<1>1. ASSUME NEW r \in Ranks
      PROVE  pc[r] = "start_time" /\ pc'[r] = "load" /\ state[r] = Fresh /\ ret[r] = "init"
             /\ RankInv(r)
  BY DEF IInv, RankInv, LoadInv, Early, Unloaded
<1>2. TypeOK'
  BY <1>0, JobKept DEF TypeOK, Labels
<1>3. ASSUME NEW r \in Ranks PROVE pc'[r] # "aborted" /\ RankInv(r)'
  <2>1. LoadInv(r)'
    BY <1>1 DEF LoadInv, Early, Unloaded
  <2>2. TrainInv(r)'
    BY <1>0, <1>1, JobKept DEF RankInv, TrainInv, Unloaded, Early
  <2>3. SaveInv(r)'
    BY <1>1 DEF SaveInv, InSave, AfterSave, Writing
  <2>4. FileInv(r)'
    BY <1>1 DEF FileInv, Written
  <2> QED BY <1>1, <2>1, <2>2, <2>3, <2>4 DEF RankInv
<1>4. ASSUME NEW r \in Ranks, NEW q \in Ranks
      PROVE  /\ Future(r)' = Future(q)'
             /\ pc'[r] \notin Unloaded => state'[r].model = state'[q].model
  <2>1. pc'[r] = pc'[q] /\ ret'[r] = ret'[q] /\ saved_checkpoint'[r] = saved_checkpoint'[q]
        /\ state'[r].iteration = state'[q].iteration
    BY <1>1, Together DEF Waiting
  <2> QED BY <1>1, <2>1, SameFuturePrimed DEF Unloaded, Early
<1> QED BY <1>0, <1>2, <1>3, <1>4, StepOfAll

\* Metadata keeps the invariant: all ranks have read the same iteration.
LEMMA MetadataStep ==
  ASSUME IInv, Metadata, UNCHANGED <<local, env>>
  PROVE  IInv'
<1> USE DEF AllAt, At, Everyone, disk, local, env, iterators
<1>0. /\ TypeOK /\ args' = args /\ args \in Configs /\ 0 \in Ranks
      /\ UNCHANGED <<args, ret, dead, files, tracker, saved>>
      /\ pc' = [r \in Ranks |-> "load_file"]
  BY RankFacts DEF IInv, TypeOK, Metadata
<1>1. ASSUME NEW r \in Ranks
      PROVE  pc[r] = "metadata" /\ tracker \in Iterations
             /\ state[r] = [Fresh EXCEPT !.iteration = tracker] /\ ret[r] = "init"
             /\ RankInv(r)
  BY DEF IInv, RankInv, LoadInv, Early, Unloaded, Metadata
<1>2. [Fresh EXCEPT !.iteration = tracker].iteration = tracker
  BY DEF Fresh
<1>3. ASSUME NEW r \in Ranks PROVE state'[r] = state[r]
  <2> DEFINE S == {state[p].iteration : p \in Ranks}
             max_iter == CHOOSE i \in S : \A p \in Ranks : state[p].iteration <= i
  <2>1. state' = [p \in Ranks |-> [state[p] EXCEPT !.iteration = max_iter]]
    BY DEF Metadata
  <2>2. S = {tracker}
    <3>1. \A p \in Ranks : state[p].iteration = tracker
      BY <1>1, <1>2
    <3> QED BY <1>0, <3>1
  <2>3. max_iter = tracker
    <3>1. \E i \in S : \A p \in Ranks : state[p].iteration <= i
      <4>1. tracker \in S /\ tracker \in Int
        BY <2>2, <1>0, <1>1 DEF Iterations
      <4>2. \A p \in Ranks : state[p].iteration <= tracker
        BY <4>1, <1>1, <1>2
      <4> QED BY <4>1, <4>2
    <3> HIDE DEF S
    <3>2. max_iter \in S
      BY <3>1
    <3> QED BY <2>2, <3>2
  <2> HIDE DEF max_iter
  <2>4. [state[r] EXCEPT !.iteration = tracker] = state[r]
    BY <1>1 DEF Fresh
  <2> QED BY <2>1, <2>3, <2>4
<1>4. TypeOK'
  <2>1. state' = state
    BY <1>0, <1>3 DEF TypeOK, Metadata
  <2> QED BY <1>0, <2>1, JobKept DEF TypeOK, Labels
<1>5. ASSUME NEW r \in Ranks PROVE pc'[r] # "aborted" /\ RankInv(r)'
  <2>0. pc'[r] = "load_file"
    BY <1>0
  <2>1. LoadInv(r)'
    BY <1>0, <1>1, <1>3, <2>0 DEF LoadInv, Early, Unloaded, Fresh
  <2>2. TrainInv(r)'
    BY <1>0, <1>1, <2>0, JobKept DEF RankInv, TrainInv, Unloaded
  <2>3. SaveInv(r)'
    BY <2>0 DEF SaveInv, InSave, AfterSave, Writing
  <2>4. FileInv(r)'
    BY <2>0 DEF FileInv, Written
  <2> QED BY <2>0, <2>1, <2>2, <2>3, <2>4 DEF RankInv
<1>6. ASSUME NEW r \in Ranks, NEW q \in Ranks
      PROVE  /\ Future(r)' = Future(q)'
             /\ pc'[r] \notin Unloaded => state'[r].model = state'[q].model
  <2>1. pc'[r] = pc'[q] /\ ret'[r] = ret'[q] /\ saved_checkpoint'[r] = saved_checkpoint'[q]
        /\ state'[r].iteration = state'[q].iteration
    BY <1>0, <1>1, <1>3, Together DEF Waiting
  <2> QED BY <1>0, <2>1, SameFuturePrimed DEF Unloaded
<1> QED BY <1>0, <1>4, <1>5, <1>6, StepOfAll

\* A rank at a barrier, and what RankInv says of it there.
LEMMA AtBarrier ==
  ASSUME NEW r \in Ranks, TypeOK, RankInv(r), pc[r] \in BarrierLabels, pc[r] # "loaded"
  PROVE  /\ TrainCounted(state[r]) /\ EvalCounted(state[r])
         /\ data_iterator[r] = state[r].consumed /\ valid_iterator[r] = state[r].consumed_valid
BY DEF RankInv, TrainInv, BarrierLabels, Unloaded, Early

\* Behind a barrier a rank keeps its invariant.
LEMMA BarrierRank ==
  ASSUME IInv, Barrier, NEW r \in Ranks, 0 \in Ranks, pc[r] = pc[0], ret[r] = ret[0]
  PROVE  pc'[r] \in Labels \ {"aborted"} /\ RankInv(r)'
<1> USE DEF disk, local, env, iterators
<1>0. /\ TypeOK /\ args' = args /\ args \in Configs /\ RankInv(r)
      /\ UNCHANGED <<args, ret, dead, state, disk, local, env>>
      /\ pc[r] \in BarrierLabels
      /\ pc'[r] = AfterBarrier(r)
  BY DEF IInv, TypeOK, Barrier
<1>1. /\ batch_size'[r] <= args'.rampup.global
      /\ valid_iterator'[r] <=
           MostEvaluated(TrainIters)' + args'.eval_iters * args'.rampup.global
  BY <1>0, JobKept DEF RankInv, TrainInv
<1>2. /\ Unsaved(r) => Unsaved(r)'
      /\ Published(r) => Published(r)'
      /\ AfterCheckpoint' = AfterCheckpoint /\ AfterCheckpoint \in {"duration", "exits"}
      /\ TrainCounted(state[r])' <=> TrainCounted(state[r])
      /\ EvalCounted(state[r])' <=> EvalCounted(state[r])
  BY <1>0, RankKept, JobKept DEF Unsaved, Published, AfterCheckpoint
<1>3. CASE pc[r] = "loaded"
  <2>1. pc'[r] = "build_data"
    BY <1>0, <1>3 DEF AfterBarrier
  <2>2. /\ Published(r) /\ ret[r] = "init"
        /\ TrainCounted(state[r]) /\ EvalCounted(state[r])
    BY <1>0, <1>3 DEF RankInv, LoadInv, TrainInv, Unloaded, Early
  <2>3. LoadInv(r)'
    BY <1>0, <1>2, <2>1, <2>2 DEF LoadInv, Early, Unloaded
  <2>4. TrainInv(r)'
    BY <1>1, <1>2, <2>1, <2>2 DEF TrainInv
  <2>5. SaveInv(r)'
    BY <2>1 DEF SaveInv, InSave, AfterSave, Writing
  <2>6. FileInv(r)'
    BY <2>1 DEF FileInv, Written
  <2> QED BY <2>1, <2>3, <2>4, <2>5, <2>6 DEF RankInv, Labels
<1>4. ASSUME pc[r] # "loaded", pc'[r] \notin Unloaded \cup {"loaded", "build_data", "evaluate"}
      PROVE  LoadInv(r)' /\ TrainInv(r)'
  <2>1. LoadInv(r)'
    BY <1>4 DEF LoadInv, Early, Unloaded
  <2>2. /\ TrainCounted(state[r])' /\ EvalCounted(state[r])'
        /\ data_iterator'[r] = state'[r].consumed
        /\ valid_iterator'[r] = state'[r].consumed_valid
    BY <1>0, <1>2, <1>4, AtBarrier
  <2> QED BY <1>1, <1>4, <2>1, <2>2 DEF TrainInv
<1>5. CASE pc[r] = "save_timer"
  <2>1. pc'[r] = "save"
    BY <1>0, <1>5 DEF AfterBarrier
  <2>2. LoadInv(r)' /\ TrainInv(r)'
    BY <1>4, <1>5, <2>1 DEF Unloaded, Early
  <2>3. /\ ret[r] \in {"exited", "exit_barrier", "finished", AfterCheckpoint}
        /\ saved_checkpoint[r] <=> ret[r] = AfterCheckpoint
        /\ ret[r] = "finished" => state[r].iteration = TrainIters
        /\ Unsaved(r) \/ (ret[r] = "finished" /\ Published(r))
    BY <1>0, <1>5 DEF RankInv, SaveInv, InSave, Writing
  <2>4. SaveInv(r)'
    BY <1>0, <1>2, <2>1, <2>3 DEF SaveInv, InSave, AfterSave, Writing
  <2>5. FileInv(r)'
    BY <2>1 DEF FileInv, Written
  <2> QED BY <2>1, <2>2, <2>4, <2>5 DEF RankInv, Labels
<1>6. CASE pc[r] = "save_barrier"
  <2>1. pc'[r] = IF r = 0 THEN "open_tracker" ELSE "save_done"
    BY <1>0, <1>6 DEF AfterBarrier
  <2>2. LoadInv(r)' /\ TrainInv(r)'
    BY <1>4, <1>6, <2>1 DEF Unloaded, Early
  <2>3. /\ ret[r] \in {"exited", "exit_barrier", "finished", AfterCheckpoint}
        /\ saved_checkpoint[r] <=> ret[r] = AfterCheckpoint
        /\ ret[r] = "finished" => state[r].iteration = TrainIters
        /\ Unsaved(r) \/ (ret[r] = "finished" /\ Published(r))
    BY <1>0, <1>6 DEF RankInv, SaveInv, InSave, Writing
  <2>4. pc'[0] = "open_tracker"
    BY <1>6 DEF Barrier, AfterBarrier
  <2>5. Publishing'
    BY <2>4 DEF Publishing
  <2>6. SaveInv(r)'
    BY <1>0, <1>2, <2>1, <2>3, <2>5 DEF SaveInv, InSave, AfterSave, Writing
  <2>7. FileInv(r)'
    BY <1>0, <1>6, <2>1, RankKept DEF FileInv, Written, RankInv, Complete
  <2> QED BY <2>1, <2>2, <2>6, <2>7 DEF RankInv, Labels, Waiting, BarrierLabels
<1>7. CASE pc[r] = "save_done"
  <2>0. ~Publishing
    BY <1>7 DEF Publishing
  <2>1. pc'[r] = IF ret[r] = "finished" THEN AfterTraining ELSE "stop_timer"
    BY <1>0, <1>7 DEF AfterBarrier
  <2>2. AfterTraining \in {"last_evaluations", "finished"}
    BY DEF AfterTraining
  <2>3. LoadInv(r)' /\ TrainInv(r)'
    BY <1>4, <1>7, <2>1, <2>2 DEF Unloaded, Early
  <2>4. /\ ret[r] \in {"exited", "exit_barrier", "finished", AfterCheckpoint}
        /\ saved_checkpoint[r] <=> ret[r] = AfterCheckpoint
        /\ ret[r] = "finished" => state[r].iteration = TrainIters
        /\ Published(r)
    BY <1>0, <1>7, <2>0 DEF RankInv, SaveInv, AfterSave
  <2>5. state'[r].model = saved'.model
    BY <1>0, <2>4 DEF Published
  <2>6. SaveInv(r)'
    <3>1. CASE ret[r] = "finished"
      BY <1>0, <1>2, <2>1, <2>2, <2>4, <2>5, <3>1
      DEF SaveInv, InSave, AfterSave, Writing
    <3>2. CASE ret[r] # "finished"
      BY <1>0, <1>2, <2>1, <2>4, <3>2 DEF SaveInv, InSave, AfterSave, Writing
    <3> QED BY <3>1, <3>2
  <2>7. FileInv(r)'
    BY <2>1, <2>2 DEF FileInv, Written
  <2> QED BY <2>1, <2>2, <2>3, <2>6, <2>7 DEF RankInv, Labels, Waiting, BarrierLabels, Terminal
<1>8. CASE pc[r] = "stop_timer"
  <2>1. pc'[r] = ret[r]
    BY <1>0, <1>8 DEF AfterBarrier
  <2>2. /\ ret[r] \in {"exited", "exit_barrier", AfterCheckpoint}
        /\ saved_checkpoint[r] <=> ret[r] = AfterCheckpoint
        /\ Published(r)
    BY <1>0, <1>8 DEF RankInv, SaveInv, AfterSave
  <2>3. LoadInv(r)' /\ TrainInv(r)'
    BY <1>2, <1>4, <1>8, <2>1, <2>2 DEF Unloaded, Early
  <2>4. state'[r].model = saved'.model
    BY <1>0, <2>2 DEF Published
  <2>5. SaveInv(r)'
    BY <1>0, <1>2, <2>1, <2>2, <2>4 DEF SaveInv, InSave, AfterSave, Writing
  <2>6. FileInv(r)'
    BY <1>2, <2>1, <2>2 DEF FileInv, Written
  <2> QED BY <1>2, <2>1, <2>2, <2>3, <2>5, <2>6
          DEF RankInv, Labels, Waiting, BarrierLabels, Terminal
<1>9. CASE pc[r] = "exit_barrier"
  <2>1. pc'[r] = "exited"
    BY <1>0, <1>9 DEF AfterBarrier
  <2>2. Published(r)
    BY <1>0, <1>9 DEF RankInv, SaveInv
  <2>3. LoadInv(r)' /\ TrainInv(r)'
    BY <1>4, <1>9, <2>1 DEF Unloaded, Early
  <2>4. state'[r].model = saved'.model
    BY <1>0, <2>2 DEF Published
  <2>5. SaveInv(r)'
    BY <2>1, <2>4 DEF SaveInv, InSave, AfterSave, Writing
  <2>6. FileInv(r)'
    BY <2>1 DEF FileInv, Written
  <2> QED BY <2>1, <2>3, <2>5, <2>6 DEF RankInv, Labels, Terminal
<1> QED BY <1>0, <1>3, <1>5, <1>6, <1>7, <1>8, <1>9 DEF BarrierLabels

\* Where it stands then.
LEMMA AfterBarrierIs ==
  ASSUME NEW r, pc[r] \in BarrierLabels
  PROVE  /\ pc[r] = "loaded" => AfterBarrier(r) = "build_data"
         /\ pc[r] = "save_timer" => AfterBarrier(r) = "save"
         /\ pc[r] = "save_done" =>
              AfterBarrier(r) = IF ret[r] = "finished" THEN AfterTraining ELSE "stop_timer"
         /\ pc[r] = "stop_timer" => AfterBarrier(r) = ret[r]
         /\ pc[r] = "exit_barrier" => AfterBarrier(r) = "exited"
BY DEF AfterBarrier

\* Barrier keeps the invariant.
LEMMA BarrierStep ==
  ASSUME IInv, Barrier
  PROVE  IInv'
<1> USE DEF disk, local, env, iterators
<1>0. /\ TypeOK /\ args' = args /\ args \in Configs /\ 0 \in Ranks
      /\ UNCHANGED <<args, ret, dead, state, disk, local, env>>
      /\ pc' = [r \in Ranks |-> AfterBarrier(r)]
      /\ \A r \in Ranks : pc[r] \in BarrierLabels
  BY RankFacts DEF IInv, TypeOK, Barrier
<1>1. ASSUME NEW r \in Ranks, NEW q \in Ranks
      PROVE  /\ pc[r] = pc[q] /\ ret[r] = ret[q] /\ saved_checkpoint[r] = saved_checkpoint[q]
             /\ state[r] = state[q]
  <2>1. pc[r] \in Waiting /\ pc[q] \in Waiting
    BY <1>0 DEF Waiting
  <2>2. pc[r] \notin Unloaded \cup {"evaluate"}
    BY <1>0 DEF BarrierLabels, Unloaded, Early
  <2> QED BY <2>1, <2>2, Together
<1>2. \A r \in Ranks : pc'[r] \in Labels \ {"aborted"} /\ RankInv(r)'
  BY <1>0, <1>1, BarrierRank
<1>3. TypeOK'
  <2>1. pc' \in [Ranks -> Labels]
    BY <1>0, <1>2
  <2> QED BY <1>0, <2>1, JobKept DEF TypeOK
<1>4. ASSUME NEW r \in Ranks, NEW q \in Ranks
      PROVE  /\ Future(r)' = Future(q)'
             /\ pc'[r] \notin Unloaded => state'[r].model = state'[q].model
  <2>1. /\ ret'[r] = ret'[q] /\ saved_checkpoint'[r] = saved_checkpoint'[q]
        /\ state'[r] = state'[q]
    BY <1>0, <1>1
  <2>2. CASE pc[r] = "save_barrier"
    <3>1. pc'[r] \in {"open_tracker", "save_done"} /\ pc'[q] \in {"open_tracker", "save_done"}
      BY <1>0, <1>1, <2>2 DEF AfterBarrier
    <3>2. /\ Future(r)' = <<"save_done", ret'[r], saved_checkpoint'[r]>>
          /\ Future(q)' = <<"save_done", ret'[q], saved_checkpoint'[q]>>
      BY <3>1 DEF Future, NextWait
    <3> QED BY <2>1, <3>2
  <2>3. CASE pc[r] # "save_barrier"
    <3>1. AfterBarrier(r) = AfterBarrier(q)
      BY <1>0, <1>1, <2>3, AfterBarrierIs DEF BarrierLabels
    <3>2. pc'[r] = pc'[q]
      BY <1>0, <3>1
    <3> QED BY <2>1, <3>2, SameFuturePrimed
  <2> QED BY <2>2, <2>3
<1>5. \A r \in Ranks : pc'[r] # "aborted" /\ RankInv(r)'
  BY <1>2
<1> QED BY <1>0, <1>3, <1>4, <1>5, StepOfAll

\* What a training step appends.
LEMMA TrainedModel ==
  ASSUME NEW s, NEW from, NEW applied
  PROVE  /\ Trained(s, from, applied).model =
              Append(s.model, [from |-> from, to |-> from + GlobalBatchSize(s.consumed),
                               applied |-> applied])
         /\ Trained(s, from, applied).consumed = s.consumed + GlobalBatchSize(s.consumed)
BY DEF Trained

\* TrainStep keeps the invariant: the ranks train on the same samples and
\* are at most an interval past their last save.
LEMMA TrainStepStep ==
  ASSUME IInv, TrainStep
  PROVE  IInv'
<1> USE DEF disk, local, env, iterators
<1>0. /\ TypeOK /\ args' = args /\ args \in Configs
      /\ UNCHANGED <<args, ret, dead, disk, saved_checkpoint, valid_iterator, env>>
  BY DEF IInv, TypeOK, TrainStep
<1>1. PICK applied \in BOOLEAN :
        state' = [r \in Ranks |-> Trained(state[r], data_iterator[r], applied)]
  BY DEF TrainStep
<1>2. ASSUME NEW r \in Ranks
      PROVE  /\ pc[r] = "train_step" /\ RankInv(r)
             /\ data_iterator[r] = state[r].consumed
             /\ valid_iterator[r] = state[r].consumed_valid
             /\ state'[r] = Trained(state[r], state[r].consumed, applied)
             /\ data_iterator'[r] = state[r].consumed + GlobalBatchSize(state[r].consumed)
             /\ batch_size'[r] = GlobalBatchSize(state[r].consumed)
             /\ pc'[r] = AfterStep(state[r].iteration + 1)
             /\ state[r] \in State /\ TrainCounted(state[r]) /\ EvalCounted(state[r])
             /\ state[r].iteration < TrainIters /\ ~saved_checkpoint[r] /\ Lags(r)
             /\ state[r].iteration \in Nat /\ saved.iteration \in Nat
             /\ state[r].consumed \in Nat
  <2>1. pc[r] = "train_step" /\ RankInv(r)
    BY DEF IInv, TrainStep, AllAt, At
  <2>2. /\ data_iterator[r] = state[r].consumed
        /\ valid_iterator[r] = state[r].consumed_valid
        /\ state[r] \in State /\ TrainCounted(state[r]) /\ EvalCounted(state[r])
        /\ state[r].iteration < TrainIters /\ ~saved_checkpoint[r] /\ Lags(r)
    BY <1>0, <2>1 DEF RankInv, TrainInv, SaveInv, Unloaded, Early, TypeOK
  <2>3. /\ data_iterator'[r] = data_iterator[r] + GlobalBatchSize(state[r].consumed)
        /\ batch_size'[r] = GlobalBatchSize(state[r].consumed)
        /\ pc'[r] = AfterStep(state[r].iteration + 1)
        /\ state'[r] = Trained(state[r], data_iterator[r], applied)
    BY <1>1 DEF TrainStep
  <2> QED BY <1>0, <2>1, <2>2, <2>3 DEF TypeOK, State
<1>3. ASSUME NEW r \in Ranks
      PROVE  LET t == state'[r]
                 b == batch_size'[r]
                 last == t.model[Len(t.model)]
             IN /\ t \in State /\ TrainCounted(t) /\ t.iteration = state[r].iteration + 1
                /\ last.from = state[r].consumed /\ last.to = state[r].consumed + b
                /\ t.consumed = data_iterator'[r] /\ t.consumed_valid = valid_iterator'[r]
                /\ t.model # <<>>
                /\ t.model = Append(state[r].model,
                     [from |-> state[r].consumed, to |-> state[r].consumed + b,
                      applied |-> applied])
                /\ IF args.eval_iters > 0 /\ t.iteration % args.eval_interval = 0
                   THEN /\ t.consumed_valid + args.eval_iters * b = EvaluatedSamples(t.model)
                        /\ t.consumed_valid <= MostEvaluated(t.iteration - 1)
                   ELSE EvalCounted(t)
  <2>1. PICK s : s = state[r]
    OBVIOUS
  <2>2. PICK t : t = state'[r]
    OBVIOUS
  <2>3. PICK b : b = batch_size'[r]
    OBVIOUS
  <2>4. /\ s \in State /\ TrainCounted(s) /\ EvalCounted(s) /\ s.iteration < TrainIters
        /\ t = Trained(s, s.consumed, applied)
        /\ b = GlobalBatchSize(s.consumed) /\ data_iterator'[r] = s.consumed + b
        /\ valid_iterator'[r] = s.consumed_valid
    BY <1>0, <1>2, <2>1, <2>2, <2>3
  <2>5. t.model = Append(s.model, [from |-> s.consumed, to |-> s.consumed + b,
                                   applied |-> applied])
    BY <2>4, TrainedModel
  <2>6. LET last == t.model[Len(t.model)]
        IN /\ t \in State /\ TrainCounted(t) /\ t.iteration = s.iteration + 1
           /\ last.from = s.consumed /\ last.to = s.consumed + b
           /\ t.consumed = s.consumed + b /\ t.consumed_valid = s.consumed_valid
           /\ t.model # <<>>
           /\ IF args.eval_iters > 0 /\ t.iteration % args.eval_interval = 0
              THEN /\ t.consumed_valid + args.eval_iters * b = EvaluatedSamples(t.model)
                   /\ t.consumed_valid <= MostEvaluated(t.iteration - 1)
              ELSE EvalCounted(t)
    BY <1>0, <2>4, TrainedCounted
  <2> QED BY <2>1, <2>2, <2>3, <2>4, <2>5, <2>6
<1>3a. ASSUME NEW r \in Ranks
       PROVE  /\ state'[r] \in State /\ state'[r].iteration = state[r].iteration + 1
              /\ state'[r].iteration > 0 /\ state'[r].iteration - 1 = state[r].iteration
  <2>1. state'[r] \in State /\ state'[r].iteration = state[r].iteration + 1
    BY <1>3
  <2>2. state[r].iteration \in Nat
    BY <1>2
  <2> QED BY <2>1, <2>2
<1>4. ASSUME NEW r \in Ranks PROVE batch_size'[r] \in 1 .. args.rampup.global
  BY <1>0, <1>2, BatchType
<1>5. /\ AfterEvaluation \in {"signals", "checkpoint"}
      /\ \A i : AfterStep(i) = IF args.eval_iters > 0 /\ i % args.eval_interval = 0
                               THEN "evaluate" ELSE AfterEvaluation
  BY DEF AfterEvaluation, AfterStep
<1>6. TypeOK'
  <2>1. state' \in [Ranks -> State]
    BY <1>1, <1>3
  <2>2. pc' \in [Ranks -> Labels]
    BY <1>5 DEF TrainStep, Labels, Waiting
  <2>3. data_iterator' \in [Ranks -> Nat] /\ batch_size' \in [Ranks -> Nat \ {0}]
    <3>1. \A r \in Ranks : data_iterator'[r] \in Nat /\ batch_size'[r] \in Nat \ {0}
      BY <1>0, <1>2, <1>4, ArgsType
    <3> QED BY <3>1 DEF TrainStep
  <2> QED BY <1>0, <2>1, <2>2, <2>3, JobKept DEF TypeOK
<1>7. ASSUME NEW r \in Ranks PROVE pc'[r] # "aborted" /\ RankInv(r)'
  <2>0. pc'[r] = IF args.eval_iters > 0 /\ state'[r].iteration % args.eval_interval = 0
                 THEN "evaluate" ELSE AfterEvaluation
    BY <1>2, <1>3, <1>5
  <2>1. LoadInv(r)'
    BY <1>5, <2>0 DEF LoadInv, Early, Unloaded
  <2>2. EvalDue(r)' \/ pc'[r] # "evaluate"
    <3>1. SUFFICES ASSUME pc'[r] = "evaluate" PROVE EvalDue(r)'
      OBVIOUS
    <3>2. args.eval_iters > 0 /\ state'[r].iteration % args.eval_interval = 0
      BY <1>5, <2>0, <3>1
    <3>3. state'[r].iteration > 0
      BY <1>3a
    <3>5. MostEvaluated(state[r].iteration)' = MostEvaluated(state'[r].iteration)
          /\ MostEvaluated(state[r].iteration - 1)' = MostEvaluated(state'[r].iteration - 1)
          /\ EvaluatedSamples(state[r].model)' = EvaluatedSamples(state'[r].model)
      BY <1>0 DEF MostEvaluated, EvaluatedSamples
    <3>6. PICK t : t = state'[r]
      OBVIOUS
    <3>7. PICK b : b = batch_size'[r]
      OBVIOUS
    <3>8. LET last == t.model[Len(t.model)]
          IN  /\ last.from = state[r].consumed /\ last.to = state[r].consumed + b
              /\ t.consumed_valid + args.eval_iters * b = EvaluatedSamples(t.model)
              /\ t.consumed_valid <= MostEvaluated(t.iteration - 1)
      BY <1>3, <3>2, <3>6, <3>7
    <3>9. b = t.model[Len(t.model)].to - t.model[Len(t.model)].from
      <4>1. PICK c \in Nat : c = state[r].consumed
        BY <1>2
      <4>2. b \in Nat
        BY <1>0, <1>4, <3>7, ArgsType
      <4> QED BY <3>8, <4>1, <4>2
    <3> QED BY <1>0, <3>2, <3>3, <3>5, <3>6, <3>7, <3>8, <3>9 DEF EvalDue
  <2>3. TrainInv(r)'
    <3>1. batch_size'[r] <= args'.rampup.global
      BY <1>0, <1>4, ArgsType
    <3>2. valid_iterator'[r] <=
            MostEvaluated(TrainIters)' + args'.eval_iters * args'.rampup.global
      BY <1>0, <1>2, JobKept DEF RankInv, TrainInv
    <3>3. /\ TrainCounted(state[r])'
          /\ data_iterator'[r] = state'[r].consumed
          /\ valid_iterator'[r] = state'[r].consumed_valid
          /\ pc'[r] # "evaluate" => EvalCounted(state[r])'
      BY <1>0, <1>3, <2>0, RankKept
    <3> QED BY <1>5, <2>0, <2>2, <3>1, <3>2, <3>3 DEF TrainInv
  <2>4. Unsaved(r)'
    <3>1. /\ saved.iteration <= state[r].iteration
          /\ LastSave(state[r].iteration) <= saved.iteration
      BY <1>2 DEF Lags, Published
    <3>2. /\ state'[r].iteration - 1 = state[r].iteration
          /\ state'[r].iteration = state[r].iteration + 1
          /\ state[r].iteration \in Nat /\ saved.iteration \in Nat
      BY <1>2, <1>3a
    <3> QED BY <1>0, <3>1, <3>2, RankKept DEF Unsaved
  <2>5. SaveInv(r)'
    <3>1. ~saved_checkpoint'[r]
      BY <1>0, <1>2
    <3> QED BY <1>5, <2>0, <2>4, <3>1 DEF SaveInv, InSave, AfterSave, Writing
  <2>6. FileInv(r)'
    BY <1>5, <2>0 DEF FileInv, Written
  <2> QED BY <1>5, <2>0, <2>1, <2>3, <2>5, <2>6 DEF RankInv
<1>8. ASSUME NEW r \in Ranks, NEW q \in Ranks
      PROVE  /\ Future(r)' = Future(q)'
             /\ pc'[r] \notin Unloaded => state'[r].model = state'[q].model
  <2>1. /\ ret'[r] = ret'[q] /\ saved_checkpoint'[r] = saved_checkpoint'[q]
        /\ state[r] = state[q]
    BY <1>0, <1>2, Together DEF Waiting, Unloaded, Early
  <2>2. state'[r] = state'[q] /\ pc'[r] = pc'[q]
    BY <1>2, <2>1
  <2> QED BY <2>1, <2>2, SameFuturePrimed
<1> QED BY <1>0, <1>6, <1>7, <1>8, StepOfAll

\* What an evaluation adds to the counters.
LEMMA EvaluatedMore ==
  ASSUME args \in Configs, NEW s \in State, NEW n \in Nat, TrainCounted(s)
  PROVE  LET t == [s EXCEPT !.consumed_valid = @ + n]
         IN /\ TrainCounted(t) /\ t.model = s.model /\ t.iteration = s.iteration
            /\ t.consumed = s.consumed /\ t.consumed_valid = s.consumed_valid + n
            /\ t \in State
<1> DEFINE t == [s EXCEPT !.consumed_valid = @ + n]
<1>1. /\ t.model = s.model /\ t.iteration = s.iteration /\ t.optim = s.optim
      /\ t.consumed = s.consumed /\ t.consumed_valid = s.consumed_valid + n
      /\ t.num_steps = s.num_steps
      /\ t \in State
  BY SMTT(60) DEF State
<1> HIDE DEF t
<1>2. TrainCounted(t)
  BY <1>1 DEF TrainCounted
<1> QED BY <1>1, <1>2 DEF t

\* Evaluate keeps the invariant.
LEMMA EvaluateStep ==
  ASSUME IInv, Evaluate
  PROVE  IInv'
<1> USE DEF disk, local, env, iterators
<1>0. /\ TypeOK /\ args' = args /\ args \in Configs
      /\ UNCHANGED <<args, ret, dead, disk, saved_checkpoint, data_iterator, batch_size, env>>
  BY DEF IInv, TypeOK, Evaluate
<1>1. AfterEvaluation \in {"signals", "checkpoint"}
  BY DEF AfterEvaluation
<1>2. ASSUME NEW r \in Ranks
      PROVE  /\ pc[r] = "evaluate" /\ RankInv(r) /\ pc'[r] = AfterEvaluation
             /\ state[r] \in State /\ TrainCounted(state[r]) /\ EvalDue(r)
             /\ data_iterator[r] = state[r].consumed
             /\ valid_iterator[r] = state[r].consumed_valid
             /\ ~saved_checkpoint[r] /\ Unsaved(r)
             /\ Draw(r) \in Nat
             /\ state'[r] = [state[r] EXCEPT !.consumed_valid = @ + Draw(r)]
             /\ valid_iterator'[r] = state[r].consumed_valid + Draw(r)
  <2>1. pc[r] = "evaluate" /\ RankInv(r)
    BY DEF IInv, Evaluate, AllAt, At
  <2>2. Draw(r) \in Nat
    <3>1. args.eval_iters \in Nat /\ batch_size[r] \in Nat
      BY <1>0, ArgsType DEF TypeOK
    <3> QED BY <3>1 DEF Draw
  <2>3. /\ state[r] \in State /\ TrainCounted(state[r]) /\ EvalDue(r)
        /\ data_iterator[r] = state[r].consumed
        /\ valid_iterator[r] = state[r].consumed_valid
        /\ ~saved_checkpoint[r] /\ Unsaved(r)
    BY <1>0, <2>1 DEF RankInv, TrainInv, SaveInv, Unloaded, Early, TypeOK
  <2>4. /\ state'[r] = [state[r] EXCEPT !.consumed_valid = @ + Draw(r)]
        /\ valid_iterator'[r] = valid_iterator[r] + Draw(r)
        /\ pc'[r] = AfterEvaluation
    BY DEF Evaluate, Everyone
  <2> QED BY <2>1, <2>2, <2>3, <2>4
<1>3. ASSUME NEW r \in Ranks
      PROVE  /\ state'[r] \in State /\ TrainCounted(state'[r])
             /\ state'[r].model = state[r].model /\ state'[r].iteration = state[r].iteration
             /\ state'[r].consumed = state[r].consumed
             /\ state'[r].consumed_valid = state[r].consumed_valid + Draw(r)
  <2>1. PICK s : s = state[r]
    OBVIOUS
  <2>2. PICK n \in Nat : n = Draw(r)
    BY <1>2
  <2>3. PICK t : t = state'[r]
    OBVIOUS
  <2>4. s \in State /\ TrainCounted(s) /\ t = [s EXCEPT !.consumed_valid = @ + n]
    BY <1>2, <2>1, <2>2, <2>3
  <2>5. /\ t \in State /\ TrainCounted(t) /\ t.model = s.model /\ t.iteration = s.iteration
        /\ t.consumed = s.consumed /\ t.consumed_valid = s.consumed_valid + n
    BY <1>0, <2>4, EvaluatedMore
  <2> QED BY <2>1, <2>2, <2>3, <2>5
<1>4. ASSUME NEW r \in Ranks
      PROVE  /\ EvalCounted(state'[r])
             /\ state'[r].consumed_valid <=
                  MostEvaluated(TrainIters) + args.eval_iters * args.rampup.global
  <2>1. PICK n \in Nat : n = Draw(r)
    BY <1>2
  <2>2. PICK b \in Nat \ {0} : b = batch_size[r]
    BY <1>0 DEF TypeOK
  <2>3. PICK e \in Nat : e = args.eval_iters
    BY <1>0, ArgsType
  <2>4. PICK g \in Nat \ {0} : g = args.rampup.global
    BY <1>0, ArgsType
  <2>5. PICK c \in Nat : c = state[r].consumed_valid
    BY <1>2 DEF State
  <2>6. PICK i \in Nat : i = state[r].iteration
    BY <1>2 DEF State
  <2>7. /\ i > 0 /\ i % args.eval_interval = 0 /\ e > 0 /\ n = e * b
        /\ c + n = EvaluatedSamples(state[r].model)
        /\ c <= MostEvaluated(i - 1) /\ b <= g
    <3>1. batch_size[r] <= args.rampup.global
      BY <1>2 DEF RankInv, TrainInv
    <3>2. n = e * b
      BY <2>1, <2>2, <2>3 DEF Draw
    <3> QED BY <1>2, <2>2, <2>3, <2>4, <2>5, <2>6, <3>1, <3>2 DEF EvalDue
  <2>8. PICK d \in Nat : d = g - b
    BY <2>7
  <2>9. /\ e * g = e * b + e * d /\ e * g \in Nat /\ e * b \in Nat /\ e * d \in Nat
    <3>1. g = b + d
      BY <2>8
    <3> QED BY <3>1
  <2>10. n <= e * g /\ n > 0
    <3>1. e * b > 0
      BY <2>7
    <3> QED BY <2>7, <2>9, <3>1
  <2>11. /\ MostEvaluated(i) = MostEvaluated(i - 1) + e * g
         /\ MostEvaluated(i - 1) \in Nat /\ MostEvaluated(i) \in Nat
    <3>1. i - 1 \in Nat /\ i - 1 + 1 = i
      BY <2>7
    <3> QED BY <1>0, <2>3, <2>4, <2>7, <3>1, MostStep
  <2>12. MostEvaluated(i) <= MostEvaluated(TrainIters) /\ MostEvaluated(TrainIters) \in Nat
    <3>1. i <= TrainIters /\ TrainIters \in Nat
      BY <1>0, <1>2, <2>6, ArgsType DEF TrainCounted
    <3> QED BY <1>0, <3>1, MostMonotone, MostStep
  <2>13. /\ state'[r].consumed_valid = c + n /\ state'[r].iteration = i
         /\ EvaluatedSamples(state'[r].model) = c + n
    BY <1>3, <2>1, <2>5, <2>6, <2>7
  <2>14. c + n <= MostEvaluated(i) /\ c + n # 0
    BY <2>7, <2>10, <2>11, <2>9
  <2>15. EvalCounted(state'[r])
    BY <2>13, <2>14 DEF EvalCounted
  <2>16. c + n <= MostEvaluated(TrainIters) + e * g
    BY <2>14, <2>12, <2>11, <2>9
  <2> QED BY <2>3, <2>4, <2>13, <2>15, <2>16
<1>5. TypeOK'
  <2>1. state' \in [Ranks -> State]
    BY <1>3 DEF Evaluate
  <2>2. pc' \in [Ranks -> Labels]
    BY <1>1 DEF Evaluate, Everyone, Labels, Waiting
  <2>3. valid_iterator' \in [Ranks -> Nat]
    <3>1. \A r \in Ranks : valid_iterator[r] + Draw(r) \in Nat
      <4>1. ASSUME NEW r \in Ranks, NEW v \in Nat, NEW n \in Nat,
                   v = valid_iterator[r], n = Draw(r)
            PROVE  valid_iterator[r] + Draw(r) \in Nat
        BY <4>1
      <4>2. \A r \in Ranks : valid_iterator[r] \in Nat /\ Draw(r) \in Nat
        BY <1>0, <1>2 DEF TypeOK
      <4> QED BY <4>1, <4>2
    <3> QED BY <3>1 DEF Evaluate
  <2> QED BY <1>0, <2>1, <2>2, <2>3, JobKept DEF TypeOK
<1>6. ASSUME NEW r \in Ranks PROVE pc'[r] # "aborted" /\ RankInv(r)'
  <2>0. pc'[r] \in {"signals", "checkpoint"}
    BY <1>1, <1>2
  <2>1. LoadInv(r)'
    BY <2>0 DEF LoadInv, Early, Unloaded
  <2>2. TrainInv(r)'
    <3>1. valid_iterator'[r] = state'[r].consumed_valid
      BY <1>2, <1>3
    <3>2. /\ batch_size'[r] <= args'.rampup.global
          /\ valid_iterator'[r] <=
               MostEvaluated(TrainIters)' + args'.eval_iters * args'.rampup.global
      BY <1>0, <1>2, <1>4, <3>1, JobKept DEF RankInv, TrainInv
    <3>3. /\ TrainCounted(state[r])' /\ EvalCounted(state[r])'
          /\ data_iterator'[r] = state'[r].consumed
      BY <1>0, <1>2, <1>3, <1>4, RankKept
    <3> QED BY <2>0, <3>1, <3>2, <3>3 DEF TrainInv
  <2>3. Unsaved(r)'
    BY <1>0, <1>2, <1>3, RankKept DEF Unsaved
  <2>4. SaveInv(r)'
    <3>1. ~saved_checkpoint'[r]
      BY <1>0, <1>2
    <3> QED BY <2>0, <2>3, <3>1 DEF SaveInv, InSave, AfterSave, Writing
  <2>5. FileInv(r)'
    BY <2>0 DEF FileInv, Written
  <2> QED BY <2>0, <2>1, <2>2, <2>4, <2>5 DEF RankInv
<1>7. ASSUME NEW r \in Ranks, NEW q \in Ranks
      PROVE  /\ Future(r)' = Future(q)'
             /\ pc'[r] \notin Unloaded => state'[r].model = state'[q].model
  <2>1. /\ ret'[r] = ret'[q] /\ saved_checkpoint'[r] = saved_checkpoint'[q]
        /\ state[r].model = state[q].model
    BY <1>0, <1>2, Together DEF Waiting, Unloaded, Early
  <2>2. state'[r].model = state'[q].model /\ state'[r].iteration = state'[q].iteration
    BY <1>3, <2>1 DEF TrainCounted
  <2>3. pc'[r] = pc'[q]
    BY <1>2
  <2> QED BY <2>1, <2>2, <2>3, SameFuturePrimed
<1> QED BY <1>0, <1>5, <1>6, <1>7, StepOfAll

\* LastEvaluations keeps the invariant.
LEMMA LastEvaluationsStep ==
  ASSUME IInv, LastEvaluations
  PROVE  IInv'
<1> USE DEF disk, local, env, iterators
<1>0. /\ TypeOK /\ args' = args /\ args \in Configs
      /\ UNCHANGED <<args, ret, dead, disk, saved_checkpoint, data_iterator, batch_size, env>>
  BY DEF IInv, TypeOK, LastEvaluations
<1>2. ASSUME NEW r \in Ranks
      PROVE  /\ pc[r] = "last_evaluations" /\ RankInv(r) /\ pc'[r] = "finished"
             /\ state[r] \in State /\ TrainCounted(state[r]) /\ EvalCounted(state[r])
             /\ Published(r)
             /\ Draw(r) \in Nat /\ Draw(r) <= args.eval_iters * args.rampup.global
             /\ state'[r] = [state[r] EXCEPT !.consumed_valid = @ + 2 * Draw(r)]
             /\ valid_iterator'[r] = state[r].consumed_valid + Draw(r)
  <2>1. pc[r] = "last_evaluations" /\ RankInv(r)
    BY DEF IInv, LastEvaluations, AllAt, At
  <2>2. Draw(r) \in Nat /\ Draw(r) <= args.eval_iters * args.rampup.global
    <3>1. PICK e \in Nat : e = args.eval_iters
      BY <1>0, ArgsType
    <3>2. PICK g \in Nat : g = args.rampup.global
      BY <1>0, ArgsType
    <3>3. PICK b \in Nat : b = batch_size[r]
      BY <1>0 DEF TypeOK
    <3>4. b <= g
      BY <2>1, <3>2, <3>3 DEF RankInv, TrainInv
    <3>5. PICK d \in Nat : g = b + d
      <4>1. g - b \in Nat /\ g = b + (g - b)
        BY <3>4
      <4> QED BY <4>1
    <3>6. e * g = e * b + e * d /\ e * b \in Nat /\ e * d \in Nat
      BY <3>5
    <3>7. Draw(r) = e * b
      BY <3>1, <3>3 DEF Draw
    <3> QED BY <3>1, <3>2, <3>6, <3>7
  <2>3. /\ state[r] \in State /\ TrainCounted(state[r]) /\ EvalCounted(state[r])
        /\ valid_iterator[r] = state[r].consumed_valid /\ Published(r)
    BY <1>0, <2>1 DEF RankInv, TrainInv, SaveInv, Unloaded, Early, TypeOK
  <2>4. /\ state'[r] = [state[r] EXCEPT !.consumed_valid = @ + 2 * Draw(r)]
        /\ valid_iterator'[r] = valid_iterator[r] + Draw(r)
        /\ pc'[r] = "finished"
    BY DEF LastEvaluations, Everyone
  <2> QED BY <2>1, <2>2, <2>3, <2>4
<1>3. ASSUME NEW r \in Ranks
      PROVE  /\ state'[r] \in State /\ TrainCounted(state'[r])
             /\ state'[r].model = state[r].model /\ state'[r].iteration = state[r].iteration
  <2>1. PICK s : s = state[r]
    OBVIOUS
  <2>2. PICK n \in Nat : n = 2 * Draw(r)
    <3>1. PICK d \in Nat : d = Draw(r)
      BY <1>2
    <3> QED BY <3>1
  <2>3. PICK t : t = state'[r]
    OBVIOUS
  <2>4. s \in State /\ TrainCounted(s) /\ t = [s EXCEPT !.consumed_valid = @ + n]
    BY <1>2, <2>1, <2>2, <2>3
  <2>5. /\ t \in State /\ TrainCounted(t) /\ t.model = s.model /\ t.iteration = s.iteration
    BY <1>0, <2>4, EvaluatedMore
  <2> QED BY <2>1, <2>3, <2>5
<1>4. ASSUME NEW r \in Ranks
      PROVE  /\ valid_iterator'[r] \in Nat
             /\ valid_iterator'[r] <=
                  MostEvaluated(TrainIters) + args.eval_iters * args.rampup.global
  <2>1. PICK n \in Nat : n = Draw(r)
    BY <1>2
  <2>2. PICK e \in Nat : e = args.eval_iters * args.rampup.global
    BY <1>0, ArgsType
  <2>3. PICK c \in Nat : c = state[r].consumed_valid
    BY <1>2 DEF State
  <2>4. c <= MostEvaluated(TrainIters) /\ MostEvaluated(TrainIters) \in Nat
    <3>1. PICK i \in Nat : i = state[r].iteration
      BY <1>2 DEF State
    <3>2. i <= TrainIters /\ TrainIters \in Nat /\ c <= MostEvaluated(i)
      BY <1>0, <1>2, <2>3, <3>1, ArgsType DEF TrainCounted, EvalCounted
    <3>3. MostEvaluated(i) <= MostEvaluated(TrainIters)
          /\ MostEvaluated(i) \in Nat /\ MostEvaluated(TrainIters) \in Nat
      BY <1>0, <3>2, MostMonotone, MostStep
    <3> QED BY <3>2, <3>3
  <2>5. valid_iterator'[r] = c + n /\ n <= e
    BY <1>2, <2>1, <2>2, <2>3
  <2> QED BY <2>2, <2>4, <2>5
<1>5. TypeOK'
  <2>1. state' \in [Ranks -> State]
    BY <1>3 DEF LastEvaluations
  <2>2. pc' \in [Ranks -> Labels]
    BY DEF LastEvaluations, Everyone, Labels, Terminal
  <2>3. valid_iterator' \in [Ranks -> Nat]
    BY <1>4 DEF LastEvaluations
  <2> QED BY <1>0, <2>1, <2>2, <2>3, JobKept DEF TypeOK
<1>6. ASSUME NEW r \in Ranks PROVE pc'[r] # "aborted" /\ RankInv(r)'
  <2>0. pc'[r] = "finished"
    BY <1>2
  <2>1. LoadInv(r)'
    BY <2>0 DEF LoadInv, Early, Unloaded
  <2>2. TrainInv(r)'
    <3>1. /\ batch_size'[r] <= args'.rampup.global
          /\ valid_iterator'[r] <=
               MostEvaluated(TrainIters)' + args'.eval_iters * args'.rampup.global
      BY <1>0, <1>2, <1>4, JobKept DEF RankInv, TrainInv
    <3>2. TrainCounted(state[r])'
      BY <1>0, <1>3, RankKept
    <3> QED BY <2>0, <3>1, <3>2 DEF TrainInv
  <2>3. state'[r].model = saved'.model
    BY <1>0, <1>2, <1>3 DEF Published
  <2>4. SaveInv(r)'
    BY <2>0, <2>3 DEF SaveInv, InSave, AfterSave, Writing
  <2>5. FileInv(r)'
    BY <2>0 DEF FileInv, Written
  <2> QED BY <2>0, <2>1, <2>2, <2>4, <2>5 DEF RankInv
<1>7. ASSUME NEW r \in Ranks, NEW q \in Ranks
      PROVE  /\ Future(r)' = Future(q)'
             /\ pc'[r] \notin Unloaded => state'[r].model = state'[q].model
  <2>1. /\ ret'[r] = ret'[q] /\ saved_checkpoint'[r] = saved_checkpoint'[q]
        /\ state[r] = state[q]
    BY <1>0, <1>2, Together DEF Waiting, Unloaded, Early
  <2>2. state'[r].model = state'[q].model /\ state'[r].iteration = state'[q].iteration
    BY <1>3, <2>1
  <2>3. pc'[r] = pc'[q]
    BY <1>2
  <2> QED BY <2>1, <2>2, <2>3, SameFuturePrimed
<1> QED BY <1>0, <1>5, <1>6, <1>7, StepOfAll

\* A collective that decides where every rank goes, from the loop's body:
\* to leave it after a save, or on with it.
LEMMA DecisionStep ==
  ASSUME IInv, NEW l \in {"signals", "duration"}, NEW go \in [Ranks -> Labels],
         \A r \in Ranks : pc[r] = l, pc' = go,
         \A r \in Ranks :
           \/ /\ go[r] = (IF l = "signals" THEN "checkpoint" ELSE "exits")
              /\ ret'[r] = ret[r]
           \/ go[r] = "save_timer" /\ ret'[r] = "exited" /\ ~saved_checkpoint[r]
           \/ l = "duration" /\ go[r] = "exited" /\ ret'[r] = "exited" /\ saved_checkpoint[r],
         \A r, q \in Ranks : saved_checkpoint[r] = saved_checkpoint[q] =>
           go[r] = go[q] /\ (ret[r] = ret[q] => ret'[r] = ret'[q]),
         ret' \in [Ranks -> Labels],
         UNCHANGED <<args, dead, state, disk, local, env>>
  PROVE  IInv'
<1> USE DEF disk, local, env, iterators
<1>0. TypeOK /\ args' = args /\ args \in Configs
  BY DEF IInv, TypeOK
<1>1. TypeOK'
  BY <1>0, JobKept DEF TypeOK
<1>2. ASSUME NEW r \in Ranks PROVE pc'[r] # "aborted" /\ RankInv(r)'
  <2>0. /\ pc'[r] \in {"checkpoint", "exits", "save_timer", "exited"} /\ RankInv(r)
        /\ saved_checkpoint[r] \in BOOLEAN
    BY <1>0 DEF IInv, TypeOK
  <2>1. /\ TrainCounted(state[r]) /\ EvalCounted(state[r])
        /\ data_iterator[r] = state[r].consumed /\ valid_iterator[r] = state[r].consumed_valid
        /\ l = "signals" => ~saved_checkpoint[r] /\ Unsaved(r)
        /\ l = "duration" =>
             IF saved_checkpoint[r] THEN Published(r)
             ELSE Unsaved(r) /\ state[r].iteration % args.save_interval # 0
    BY <2>0 DEF RankInv, TrainInv, SaveInv, Unloaded, Early
  <2>2. /\ Unsaved(r) => Unsaved(r)'
        /\ Published(r) => Published(r)' /\ state'[r].model = saved'.model
        /\ AfterCheckpoint' \in {"duration", "exits"}
    BY <1>0, RankKept DEF Unsaved, Published, AfterCheckpoint
  <2>3. LoadInv(r)'
    BY <2>0 DEF LoadInv, Early, Unloaded
  <2>4. TrainInv(r)'
    BY <1>0, <2>0, <2>1, RankKept, JobKept DEF RankInv, TrainInv, Unloaded, Early
  <2>5. SaveInv(r)'
    <3>1. CASE pc'[r] \in {"checkpoint", "exits"}
      BY <1>0, <2>0, <2>1, <2>2, <3>1 DEF SaveInv, InSave, AfterSave, Writing
    <3>2. CASE pc'[r] = "save_timer"
      BY <1>0, <2>0, <2>1, <2>2, <3>2 DEF SaveInv, InSave, AfterSave, Writing
    <3>3. CASE pc'[r] = "exited"
      BY <1>0, <2>0, <2>1, <2>2, <3>3 DEF SaveInv, InSave, AfterSave, Writing
    <3> QED BY <2>0, <3>1, <3>2, <3>3
  <2>6. FileInv(r)'
    BY <2>0 DEF FileInv, Written
  <2> QED BY <2>0, <2>3, <2>4, <2>5, <2>6 DEF RankInv
<1>3. ASSUME NEW r \in Ranks, NEW q \in Ranks
      PROVE  /\ Future(r)' = Future(q)'
             /\ pc'[r] \notin Unloaded => state'[r].model = state'[q].model
  <2>1. /\ ret[r] = ret[q] /\ saved_checkpoint[r] = saved_checkpoint[q]
        /\ state[r] = state[q]
    BY Together DEF Waiting, Unloaded, Early
  <2>2. pc'[r] = pc'[q] /\ ret'[r] = ret'[q] /\ saved_checkpoint'[r] = saved_checkpoint'[q]
        /\ state'[r] = state'[q]
    BY <2>1
  <2> QED BY <2>2, SameFuturePrimed
<1> QED BY <1>0, <1>1, <1>2, <1>3, StepOfAll

\* Signals keeps the invariant: one SIGTERM sends all ranks the same way.
LEMMA SignalsStep ==
  ASSUME IInv, Signals
  PROVE  IInv'
<1> DEFINE any == \E q \in Ranks : signal[q]
<1>1. SignalReceived(0) = any /\ \A r \in Ranks : SignalReceived(r) = any
  BY DEF SignalReceived
<1> HIDE DEF any
<1>2. /\ \A r \in Ranks : pc[r] = "signals" /\ ~saved_checkpoint[r]
      /\ ret \in [Ranks -> Labels]
  BY DEF Signals, AllAt, At, IInv, RankInv, SaveInv, TypeOK
<1>3. /\ pc' = [r \in Ranks |-> IF any THEN "save_timer" ELSE "checkpoint"]
      /\ ret' = [r \in Ranks |-> IF any THEN "exited" ELSE ret[r]]
      /\ UNCHANGED <<args, dead, state, disk, local, env>>
  BY <1>1 DEF Signals
<1>4. pc' \in [Ranks -> Labels] /\ ret' \in [Ranks -> Labels]
  BY <1>2, <1>3 DEF Labels, Waiting, BarrierLabels, Terminal
<1>5. /\ \A r \in Ranks :
           \/ pc'[r] = "checkpoint" /\ ret'[r] = ret[r]
           \/ pc'[r] = "save_timer" /\ ret'[r] = "exited" /\ ~saved_checkpoint[r]
      /\ \A r, q \in Ranks : pc'[r] = pc'[q] /\ (ret[r] = ret[q] => ret'[r] = ret'[q])
  BY <1>2, <1>3
<1> QED BY <1>2, <1>3, <1>4, <1>5, DecisionStep

\* Duration keeps the invariant: one late clock sends all ranks the same
\* way.
LEMMA DurationStep ==
  ASSUME IInv, Duration
  PROVE  IInv'
<1>1. PICK done \in BOOLEAN :
        /\ pc' = [r \in Ranks |-> IF ~done THEN "exits"
                                  ELSE IF saved_checkpoint[r] THEN "exited"
                                  ELSE "save_timer"]
        /\ ret' = [r \in Ranks |-> IF done THEN "exited" ELSE ret[r]]
  BY DEF Duration
<1>2. /\ \A r \in Ranks : pc[r] = "duration"
      /\ ret \in [Ranks -> Labels]
      /\ UNCHANGED <<args, dead, state, disk, local, env>>
  BY DEF Duration, AllAt, At, IInv, TypeOK
<1>4. pc' \in [Ranks -> Labels] /\ ret' \in [Ranks -> Labels]
  BY <1>1, <1>2 DEF Labels, Waiting, BarrierLabels, Terminal
<1>5. /\ \A r \in Ranks :
           \/ pc'[r] = "exits" /\ ret'[r] = ret[r]
           \/ pc'[r] = "save_timer" /\ ret'[r] = "exited" /\ ~saved_checkpoint[r]
           \/ pc'[r] = "exited" /\ ret'[r] = "exited" /\ saved_checkpoint[r]
      /\ \A r, q \in Ranks : saved_checkpoint[r] = saved_checkpoint[q] =>
           pc'[r] = pc'[q] /\ (ret[r] = ret[q] => ret'[r] = ret'[q])
  BY <1>1, <1>2
<1> QED BY <1>2, <1>4, <1>5, DecisionStep

-----------------------------------------------------------------------------
\* The world around the job.

\* A launch starts all ranks from nothing but what is on disk.
Launched ==
  /\ TypeOK /\ DiskInv
  /\ pc = [r \in Ranks |-> "init"] /\ ret = [r \in Ranks |-> "init"]
  /\ state = [r \in Ranks |-> Fresh]
  /\ valid_iterator = [r \in Ranks |-> 0]
  /\ batch_size = [r \in Ranks |-> GlobalBatchSize(0)]
  /\ saved_checkpoint = [r \in Ranks |-> FALSE]

\* A launch has the invariant.
LEMMA LaunchedInvariant == Launched => IInv
<1> SUFFICES ASSUME Launched PROVE IInv
  OBVIOUS
<1> USE DEF Launched
<1>0. args \in Configs
  BY DEF TypeOK
<1>1. ASSUME NEW r \in Ranks PROVE RankInv(r)
  <2>1. LoadInv(r)
    BY DEF LoadInv, Early, Unloaded
  <2>2. TrainInv(r)
    <3>1. batch_size[r] <= args.rampup.global
      BY <1>0, BatchType, ArgsType
    <3>2. 0 <= MostEvaluated(TrainIters) + args.eval_iters * args.rampup.global
      <4>1. PICK e \in Nat : e = args.eval_iters * args.rampup.global
        BY <1>0, ArgsType
      <4>2. MostEvaluated(TrainIters) \in Nat
        BY <1>0, ArgsType, MostStep
      <4> QED BY <4>1, <4>2
    <3> QED BY <3>1, <3>2 DEF TrainInv, Unloaded, Early
  <2>3. SaveInv(r)
    BY DEF SaveInv, InSave, AfterSave, Writing
  <2>4. FileInv(r)
    BY DEF FileInv, Written
  <2> QED BY <2>1, <2>2, <2>3, <2>4 DEF RankInv
<1>2. ASSUME NEW r \in Ranks, NEW q \in Ranks PROVE PairInv(r, q)
  BY SameFuture DEF PairInv, Unloaded, Early
<1> QED BY <1>1, <1>2 DEF IInv

\* The same of the next state.
LEMMA LaunchedAgain == Launched' => IInv'
<1>1. (Launched => IInv)'
  BY LaunchedInvariant, PTL
<1> QED BY <1>1

\* The first launch has it.
LEMMA InitInvariant == Init => IInv
<1> SUFFICES ASSUME Init PROVE IInv
  OBVIOUS
<1>1. args \in Configs
  BY DEF Init
<1>2. Fresh \in State /\ Counted(Fresh)
  BY <1>1, FreshCounted
<1>3. TypeOK
  <2>1. batch_size \in [Ranks -> Nat \ {0}]
    <3>1. GlobalBatchSize(0) \in Nat \ {0}
      BY <1>1, BatchType, ArgsType
    <3> QED BY <3>1 DEF Init
  <2>2. files \in [Iterations -> [Shards -> [Kinds -> Content]]]
    BY DEF Init, Content
  <2>3. restarts \in 0 .. MaxRestarts
    BY MaxRestartsAssumption DEF Init
  <2>4. "init" \in Labels
    BY DEF Labels
  <2>5. /\ pc \in [Ranks -> Labels] /\ ret \in [Ranks -> Labels]
        /\ dead \subseteq Ranks /\ state \in [Ranks -> State]
        /\ tracker \in {None, Empty} \cup Iterations /\ saved \in State
        /\ saved_checkpoint \in [Ranks -> BOOLEAN]
        /\ data_iterator \in [Ranks -> Nat] /\ valid_iterator \in [Ranks -> Nat]
        /\ signal \in [Ranks -> BOOLEAN] /\ kill_file \in BOOLEAN
    BY <1>2, <2>4 DEF Init
  <2> QED BY <1>1, <2>1, <2>2, <2>3, <2>5 DEF TypeOK
<1>4. DiskInv
  <2>1. TrainIters \in Nat \ {0}
    BY <1>1, ArgsType
  <2> QED BY <1>2, <2>1 DEF Init, DiskInv, None, Iterations
<1> QED BY <1>3, <1>4, LaunchedInvariant DEF Init, Launched

\* Launch keeps the invariant.
LEMMA LaunchStep ==
  ASSUME IInv, Launch
  PROVE  IInv'
<1> USE DEF disk
<1>0. TypeOK /\ args' = args /\ args \in Configs
  BY DEF IInv, TypeOK, Launch
<1>1. TypeOK'
  <2>1. Fresh \in State /\ GlobalBatchSize(0) \in Nat \ {0}
    BY <1>0, FreshCounted, BatchType, ArgsType
  <2>2. restarts' \in 0 .. MaxRestarts
    BY <1>0, MaxRestartsAssumption DEF Launch, TypeOK
  <2>3. "init" \in Labels
    BY DEF Labels
  <2>4. /\ pc' \in [Ranks -> Labels] /\ ret' \in [Ranks -> Labels]
        /\ dead' \subseteq Ranks /\ state' \in [Ranks -> State]
        /\ saved_checkpoint' \in [Ranks -> BOOLEAN]
        /\ data_iterator' \in [Ranks -> Nat] /\ valid_iterator' \in [Ranks -> Nat]
        /\ batch_size' \in [Ranks -> Nat \ {0}]
        /\ signal' \in [Ranks -> BOOLEAN]
    BY <2>1, <2>3 DEF Launch, Everyone
  <2> QED BY <1>0, <2>2, <2>4, JobKept DEF TypeOK, Launch
<1>2. DiskInv'
  BY DiskKept DEF IInv, Launch
<1>3. GlobalBatchSize(0)' = GlobalBatchSize(0) /\ Ranks' = Ranks
  BY <1>0, JobKept DEF GlobalBatchSize
<1>4. Launched'
  BY <1>1, <1>2, <1>3 DEF Launched, Launch, Everyone
<1> QED BY <1>4, LaunchedAgain

\* Nothing happens but to dead, signal, kill_file and restarts.
LEMMA QuietStep ==
  ASSUME IInv, TypeOK', UNCHANGED <<args, pc, ret, state, disk, local>>
  PROVE  IInv'
<1> USE DEF local, iterators
<1>1. \A q \in Ranks : Same(q)
  BY DEF Same
<1>2. 0 \in Ranks
  BY RankFacts DEF IInv, TypeOK
<1>3. Publishing' = Publishing
  BY DEF Publishing
<1>4. ASSUME NEW q \in Ranks PROVE RankInv(q)' /\ Advances(q)
  BY <1>1, <1>3, RankFrame, SameAdvances DEF IInv, disk
<1>5. DiskInv'
  BY DiskKept DEF IInv
<1> QED BY <1>4, <1>5, StepOfSome

\* Every step keeps the invariant.
LEMMA NextInvariant ==
  ASSUME KillSwitchAlone, IInv, [Next]_vars
  PROVE  IInv'
<1> USE DEF env
<1>0. TypeOK
  BY DEF IInv
<1>1. ASSUME NEW r \in Ranks, RankStep(r) PROVE IInv'
  <2>1. CASE Initialize(r)
    BY <2>1, InitializeStep
  <2>2. CASE BuildData(r)
    BY <2>2, BuildDataStep
  <2>3. CASE Loop(r)
    BY <2>3, LoopStep
  <2>4. CASE Checkpoint(r)
    BY <2>4, CheckpointStep
  <2>5. CASE Exits(r)
    BY <2>5, ExitsStep
  <2>6. CASE SaveStep(r) /\ UNCHANGED <<local, env>>
    BY <2>6, SaveRankStep, GatherStep, FileStep, OpenTrackerStep, CloseTrackerStep DEF SaveStep
  <2>7. CASE LoadStep(r) /\ UNCHANGED <<local, env>>
    BY <2>7, LoadRankStep, LoadFileStep DEF LoadStep
  <2> QED BY <1>1, <2>1, <2>2, <2>3, <2>4, <2>5, <2>6, <2>7 DEF RankStep
<1>2. CASE Collective
  BY <1>2, StartTimeStep, BarrierStep, TrainStepStep, EvaluateStep, LastEvaluationsStep,
     SignalsStep, DurationStep, MetadataStep DEF Collective
<1>3. ASSUME NEW r \in Ranks, Crash(r) PROVE IInv'
  <2>1. TypeOK'
    BY <1>0, <1>3, JobKept DEF Crash, TypeOK, disk, local, iterators
  <2> QED BY <1>3, <2>1, QuietStep DEF Crash
<1>4. ASSUME NEW r \in Ranks, Sigterm(r) PROVE IInv'
  <2>1. TypeOK'
    BY <1>0, <1>4, JobKept DEF Sigterm, TypeOK, disk, local, iterators
  <2> QED BY <1>4, <2>1, QuietStep DEF Sigterm
<1>5. CASE CreateKillFile
  <2>1. TypeOK'
    BY <1>0, <1>5, JobKept DEF CreateKillFile, TypeOK, disk, local, iterators
  <2> QED BY <1>5, <2>1, QuietStep DEF CreateKillFile
<1>6. CASE Restart \/ Resubmit
  BY <1>6, LaunchStep DEF Restart, Resubmit
<1>7. CASE UNCHANGED vars
  <2>1. TypeOK'
    BY <1>0, <1>7, JobKept DEF vars, TypeOK, disk, local, iterators
  <2> QED BY <1>7, <2>1, QuietStep DEF vars
<1> QED BY <1>1, <1>2, <1>3, <1>4, <1>5, <1>6, <1>7 DEF Next, Over

-----------------------------------------------------------------------------
\* What always holds.

\* In a job whose kill switch is looked up by one rank only the inductive
\* invariant always holds.
THEOREM Invariance ==
  ASSUME KillSwitchAlone PROVE Spec => []IInv
<1>1. Init => IInv
  BY InitInvariant
<1>2. IInv /\ [Next]_vars => IInv'
  BY NextInvariant
<1> QED BY <1>1, <1>2, PTL DEF Spec

\* The variables always have their types.
THEOREM TypeCorrect ==
  ASSUME KillSwitchAlone PROVE Spec => []TypeOK
<1>1. IInv => TypeOK
  BY DEF IInv
<1> QED BY <1>1, Invariance, PTL

\* Ranks never wait in different collectives: whatever each has read or
\* decided by itself since the last one, the job does not hang.
THEOREM CollectivesAlwaysMatch ==
  ASSUME KillSwitchAlone PROVE Spec => []CollectivesMatch
<1>1. IInv => CollectivesMatch
  BY Together DEF CollectivesMatch
<1> QED BY <1>1, Invariance, PTL

\* Ranks that train hold the same weights, optimizer state and counters,
\* whatever has crashed in between.
THEOREM RanksAlwaysAgree ==
  ASSUME KillSwitchAlone PROVE Spec => []RanksAgree
<1>1. IInv => RanksAgree
  <2> SUFFICES ASSUME IInv, NEW r \in Ranks, NEW q \in Ranks,
                      pc[r] = "train_step", pc[q] = "train_step"
               PROVE  /\ state[r] = state[q] /\ data_iterator[r] = data_iterator[q]
                      /\ state[r].model = state[r].optim
    BY DEF RanksAgree, At
  <2>1. state[r] = state[q]
    BY Together DEF Waiting, Unloaded, Early
  <2>2. \A p \in {r, q} : TrainCounted(state[p]) /\ data_iterator[p] = state[p].consumed
    BY DEF IInv, RankInv, TrainInv, Unloaded, Early
  <2> QED BY <2>1, <2>2 DEF TrainCounted
<1> QED BY <1>1, Invariance, PTL

\* Over all launches every sample is used once and in order, and the
\* counters of samples, updates and validation data are those of the steps
\* trained.
THEOREM AlwaysAccounted ==
  ASSUME KillSwitchAlone PROVE Spec => []Accounting
<1>1. IInv => Accounting
  <2> SUFFICES ASSUME IInv PROVE Accounting
    OBVIOUS
  <2>0. args \in Configs
    BY DEF IInv, TypeOK
  <2>1. ASSUME NEW r \in Ranks, pc[r] = "train_step"
        PROVE  /\ TrainCounted(state[r]) /\ EvalCounted(state[r])
               /\ data_iterator[r] = state[r].consumed
               /\ valid_iterator[r] = state[r].consumed_valid
    BY <2>1 DEF IInv, RankInv, TrainInv, Unloaded, Early
  <2>2. TrainAccounting
    BY <2>1 DEF TrainAccounting, At, TrainCounted, Tiled, Used
  <2>3. \A r \in Ranks : At(r, "train_step") =>
          /\ valid_iterator[r] = EvaluatedSamples(state[r].model)
          /\ state[r].consumed_valid = valid_iterator[r]
    BY <2>1 DEF At, EvalCounted
  <2>4. ASSUME NEW r \in Ranks
        PROVE  valid_iterator[r] <=
                 (TrainIters \div args.eval_interval + 1) * args.eval_iters * args.rampup.global
    <3>1. PICK v \in Nat \ {0} : v = args.eval_interval
      BY <2>0, ArgsType
    <3>2. PICK e \in Nat : e = args.eval_iters
      BY <2>0, ArgsType
    <3>3. PICK g \in Nat : g = args.rampup.global
      BY <2>0, ArgsType
    <3>4. PICK a \in Nat : a = TrainIters \div v
      BY <2>0, ArgsType, QuotientOfNat
    <3>5. MostEvaluated(TrainIters) = a * (e * g)
      BY <3>1, <3>2, <3>3, <3>4 DEF MostEvaluated
    <3>6. (a + 1) * e * g = a * (e * g) + e * g
      OBVIOUS
    <3>7. valid_iterator[r] <= a * (e * g) + e * g
      BY <3>2, <3>3, <3>5 DEF IInv, RankInv, TrainInv
    <3> QED BY <3>1, <3>2, <3>3, <3>4, <3>6, <3>7
  <2> QED BY <2>2, <2>3, <2>4 DEF Accounting
<1> QED BY <1>1, Invariance, PTL

\* As long as there is training left to do, a tracker file that names an
\* iteration names one whose files are all complete and of one save.
THEOREM LatestCheckpointAlwaysWhole ==
  ASSUME KillSwitchAlone PROVE Spec => []LatestCheckpointWhole
<1>1. IInv => LatestCheckpointWhole
  BY DEF IInv, DiskInv, LatestCheckpointWhole
<1> QED BY <1>1, Invariance, PTL

-----------------------------------------------------------------------------
\* Training implements durable training.

\* The values of DurableTraining's variables.
TrainedNow ==
  IF Loading THEN saved.model
  ELSE IF \A r \in Ranks : state[r].model = state[0].model /\ state[r].optim = state[0].model
  THEN state[0].model ELSE Disagreement

\* ... and of its status.
StatusNow == IF Refused THEN "refused" ELSE IF Stopped THEN "stopped" ELSE "training"

\* Rank r is one that Loading speaks of.
LoadingRank(r) ==
  \/ pc[r] \in {"init", "start_time", "load", "metadata", "load_file", "loaded", "aborted"}
  \/ pc[r] = "exited" /\ ret[r] = "init"

\* What has been trained, in a state with the invariant.
LEMMA TrainedIs ==
  ASSUME IInv
  PROVE  /\ Loading <=> \E r \in Ranks : LoadingRank(r)
         /\ Loading => TrainedNow = saved.model
         /\ ~Loading => TrainedNow = state[0].model
         /\ Stopped => TrainedNow = saved.model
         /\ 0 \in Ranks
<1>0. 0 \in Ranks
  BY RankFacts DEF IInv, TypeOK
<1>1. Loading <=> \E r \in Ranks : LoadingRank(r)
  BY DEF Loading, LoadingRank
<1>2. Loading => TrainedNow = saved.model
  BY DEF TrainedNow
<1>3. ASSUME ~Loading PROVE TrainedNow = state[0].model
  <2>1. ASSUME NEW r \in Ranks
        PROVE  state[r].model = state[0].model /\ state[r].optim = state[0].model
    <3>1. pc[r] \notin Unloaded /\ pc[0] \notin Unloaded
      BY <1>0, <1>1, <1>3 DEF LoadingRank, Unloaded, Early
    <3> QED BY <1>0, <3>1 DEF IInv, RankInv, TrainInv, TrainCounted, PairInv
  <2> QED BY <1>3, <2>1 DEF TrainedNow
<1>4. ASSUME Stopped PROVE TrainedNow = saved.model
  <2>1. pc[0] \in {"exited", "finished"} /\ RankInv(0)
    BY <1>0, <1>4 DEF Stopped, IInv
  <2>2. CASE ~Loading
    <3>1. ret[0] # "init" \/ pc[0] = "finished"
      BY <1>0, <1>1, <2>1, <2>2 DEF LoadingRank
    <3>2. state[0].model = saved.model
      BY <2>1, <3>1 DEF RankInv, SaveInv
    <3> QED BY <1>3, <2>2, <3>2
  <2> QED BY <1>2, <2>2
<1> QED BY <1>0, <1>1, <1>2, <1>3, <1>4

\* The same of the next state.
LEMMA TrainedIsPrimed ==
  IInv' => /\ Loading' <=> \E r \in Ranks' : LoadingRank(r)'
           /\ Loading' => TrainedNow' = saved'.model
           /\ ~Loading' => TrainedNow' = state'[0].model
           /\ Stopped' => TrainedNow' = saved'.model
<1>1. (IInv => /\ Loading <=> \E r \in Ranks : LoadingRank(r)
               /\ Loading => TrainedNow = saved.model
               /\ ~Loading => TrainedNow = state[0].model
               /\ Stopped => TrainedNow = saved.model)'
  <2>1. IInv => /\ Loading <=> \E r \in Ranks : LoadingRank(r)
                /\ Loading => TrainedNow = saved.model
                /\ ~Loading => TrainedNow = state[0].model
                /\ Stopped => TrainedNow = saved.model
    BY TrainedIs
  <2> QED BY <2>1, PTL
<1> QED BY <1>1

\* A step that neither trains, nor publishes, nor launches.
LEMMA StutterStopRefuse ==
  ASSUME IInv, IInv', UNCHANGED <<args, saved>>, TrainedNow' = TrainedNow,
         \A r \in Ranks :
           /\ pc[r] \in Terminal => pc'[r] = pc[r]
           /\ pc'[r] = "aborted" => LoadingRank(r)
  PROVE  [Durable!Next]_(Durable!vars)
<1> DEFINE int == args.save_interval
           dur == saved.model
<1>0. /\ int' = int /\ dur' = dur /\ Ranks' = Ranks
  BY JobKept
<1>1. ASSUME Refused PROVE StatusNow' = StatusNow
  BY <1>0, <1>1 DEF StatusNow, Refused, Terminal
<1>2. ASSUME ~Refused, Refused'
      PROVE  TrainedNow = dur /\ StatusNow' = "refused"
  BY <1>0, <1>2, TrainedIs DEF StatusNow, Refused
<1>3. ASSUME ~Refused, ~Refused', Stopped PROVE StatusNow' = StatusNow
  BY <1>0, <1>3 DEF StatusNow, Stopped, Terminal
<1>4. ASSUME ~Refused, ~Refused', ~Stopped, Stopped'
      PROVE  TrainedNow = dur /\ StatusNow = "training" /\ StatusNow' = "stopped"
  BY <1>0, <1>4, TrainedIsPrimed DEF StatusNow
<1>5. ASSUME ~Refused, ~Refused', ~Stopped, ~Stopped' PROVE StatusNow' = StatusNow
  BY <1>5 DEF StatusNow
<1> USE DEF TrainedNow, StatusNow
<1>6. CASE StatusNow' = StatusNow
  BY <1>0, <1>6 DEF Durable!vars
<1>7. CASE TrainedNow = dur /\ StatusNow' = "refused"
  BY <1>0, <1>7 DEF Durable!Next, Durable!Refuse
<1>8. CASE TrainedNow = dur /\ StatusNow = "training" /\ StatusNow' = "stopped"
  BY <1>0, <1>8 DEF Durable!Next, Durable!Stop
<1> QED BY <1>1, <1>2, <1>3, <1>4, <1>5, <1>6, <1>7, <1>8

\* Rank r neither starts nor ends loading, and keeps what it has trained.
Gentle(r) ==
  /\ pc[r] \in Terminal => pc'[r] = pc[r]
  /\ pc'[r] = "aborted" => LoadingRank(r)
  /\ LoadingRank(r)' <=> LoadingRank(r)
  /\ state'[r].model = state[r].model \/ LoadingRank(r)

\* A step that is gentle to all ranks stutters, stops or refuses.
LEMMA GentleStep ==
  ASSUME IInv, IInv', UNCHANGED <<args, saved>>, \A r \in Ranks : Gentle(r)
  PROVE  [Durable!Next]_(Durable!vars)
<1>0. Ranks' = Ranks
  BY JobKept
<1>1. Loading' <=> Loading
  BY <1>0, TrainedIs, TrainedIsPrimed DEF Gentle
<1>2. TrainedNow' = TrainedNow
  <2>1. CASE Loading
    BY <1>1, <2>1, TrainedIs, TrainedIsPrimed
  <2>2. CASE ~Loading
    <3>1. state'[0].model = state[0].model
      BY <2>2, TrainedIs DEF Gentle
    <3> QED BY <1>1, <2>2, <3>1, TrainedIs, TrainedIsPrimed
  <2> QED BY <2>1, <2>2
<1>3. \A r \in Ranks : /\ pc[r] \in Terminal => pc'[r] = pc[r]
                       /\ pc'[r] = "aborted" => LoadingRank(r)
  BY DEF Gentle
<1> QED BY <1>2, <1>3, StutterStopRefuse

\* ... as one that a step leaves alone, or that moves on by itself.
LEMMA GentleMove ==
  ASSUME NEW r \in Ranks,
         \/ Same(r)
         \/ /\ pc[r] \notin Terminal /\ state'[r].model = state[r].model
            /\ ~LoadingRank(r) /\ ~LoadingRank(r)' /\ pc'[r] # "aborted"
         \/ pc[r] \notin Terminal /\ LoadingRank(r) /\ LoadingRank(r)'
  PROVE  Gentle(r)
BY DEF Gentle, Same, LoadingRank

\* All steps of one rank but CloseTracker are gentle to every rank.
LEMMA RankStepGentle ==
  ASSUME IInv, NEW r \in Ranks, RankStep(r), ~CloseTracker(r)
  PROVE  /\ UNCHANGED <<args, saved>>
         /\ \A q \in Ranks : Gentle(q)
<1> USE DEF At, Goto, disk, local, iterators, env
<1>0. TypeOK
  BY DEF IInv
<1>1. CASE Initialize(r)
  <2>1. /\ \A q \in Ranks \ {r} : Same(q)
        /\ LoadingRank(r) /\ LoadingRank(r)' /\ pc[r] \notin Terminal
    <3>1. /\ pc[r] = "init" /\ pc'[r] \in {"exited", "start_time"} /\ ret'[r] = ret[r]
          /\ \A q \in Ranks \ {r} : Same(q)
      BY <1>0, <1>1 DEF Initialize, TypeOK, Same
    <3>2. ret[r] = "init"
      BY <3>1 DEF IInv, RankInv, LoadInv, Unloaded, Early
    <3> QED BY <3>1, <3>2 DEF LoadingRank, Terminal
  <2> QED BY <1>1, <2>1, GentleMove DEF Initialize
<1>2. CASE BuildData(r)
  <2>1. /\ \A q \in Ranks \ {r} : Same(q)
        /\ pc[r] = "build_data" /\ pc'[r] = "loop" /\ state'[r].model = state[r].model
    BY <1>0, <1>2 DEF BuildData, TypeOK, Same, State
  <2> QED BY <1>2, <2>1, GentleMove DEF BuildData, LoadingRank, Terminal
<1>3. CASE Loop(r)
  <2>1. /\ \A q \in Ranks \ {r} : Same(q)
        /\ pc[r] = "loop" /\ pc'[r] \in {"train_step", "save"} /\ state'[r] = state[r]
    BY <1>0, <1>3 DEF Loop, TypeOK, Same
  <2> QED BY <1>3, <2>1, GentleMove DEF Loop, LoadingRank, Terminal
<1>4. CASE Checkpoint(r)
  <2>1. /\ \A q \in Ranks \ {r} : Same(q)
        /\ pc[r] = "checkpoint" /\ pc'[r] \in {"save_timer", "duration", "exits"}
        /\ state'[r] = state[r]
    BY <1>0, <1>4 DEF Checkpoint, SaveAndTime, AfterCheckpoint, TypeOK, Same
  <2> QED BY <1>4, <2>1, GentleMove DEF Checkpoint, LoadingRank, Terminal
<1>5. CASE Exits(r)
  <2>1. /\ \A q \in Ranks \ {r} : Same(q)
        /\ pc[r] = "exits" /\ pc'[r] \in {"exit_barrier", "save_timer", "loop"}
        /\ state'[r] = state[r]
    BY <1>0, <1>5 DEF Exits, Leave, SaveAndTime, TypeOK, Same
  <2> QED BY <1>5, <2>1, GentleMove DEF Exits, LoadingRank, Terminal
<1>6. CASE UNCHANGED <<local, env>> /\ SaveStep(r)
  <2>1. CASE Gather(r)
    <3>1. ASSUME NEW q \in Ranks
          PROVE  \/ Same(q)
                 \/ /\ pc[q] = "gather" /\ pc'[q] \in {"open_optim", "save_barrier"}
                    /\ state'[q] = state[q]
      BY <1>6, <2>1 DEF Gather, Same
    <3>2. ASSUME NEW q \in Ranks PROVE Gentle(q)
      BY <3>1, GentleMove DEF LoadingRank, Terminal
    <3> QED BY <2>1, <3>2 DEF Gather
  <2>2. CASE ~Gather(r)
    <3>1. /\ \A q \in Ranks \ {r} : Same(q)
          /\ pc[r] \in StepSaving \cup {"open_tracker"}
          /\ pc'[r] \in StepSaving \cup {"save_barrier", "close_tracker"}
          /\ state'[r] = state[r] /\ UNCHANGED <<args, saved>>
      <4>1. CASE Save(r)
        BY <1>0, <1>6, <4>1 DEF Save, TypeOK, Same, StepSaving
      <4>2. CASE OpenOptim(r)
        BY <1>0, <1>6, <4>2 DEF OpenOptim, TypeOK, Same, StepSaving
      <4>3. CASE CloseOptim(r)
        BY <1>0, <1>6, <4>3 DEF CloseOptim, TypeOK, Same, StepSaving
      <4>4. CASE OpenModel(r)
        BY <1>0, <1>6, <4>4 DEF OpenModel, TypeOK, Same, StepSaving
      <4>5. CASE CloseModel(r)
        BY <1>0, <1>6, <4>5 DEF CloseModel, TypeOK, Same, StepSaving
      <4>6. CASE OpenTracker(r)
        BY <1>0, <1>6, <4>6 DEF OpenTracker, TypeOK, Same, StepSaving
      <4> QED BY <1>6, <2>2, <4>1, <4>2, <4>3, <4>4, <4>5, <4>6 DEF SaveStep
    <3>2. pc[r] \notin Terminal /\ ~LoadingRank(r) /\ ~LoadingRank(r)' /\ pc'[r] # "aborted"
      BY <3>1 DEF LoadingRank, Terminal, StepSaving
    <3> QED BY <3>1, <3>2, GentleMove
  <2> QED BY <2>1, <2>2
<1>7. CASE UNCHANGED <<local, env>> /\ LoadStep(r)
  <2>1. /\ \A q \in Ranks \ {r} : Same(q)
        /\ pc[r] \in {"load", "load_file"} /\ pc'[r] \in {"loaded", "aborted", "metadata"}
        /\ UNCHANGED <<args, saved>>
    <3>1. CASE Load(r)
      <4>1. pc'[r] \in {"loaded", "aborted", "metadata"} /\ \A q \in Ranks \ {r} : Same(q)
        <5>1. CASE tracker = None
          BY <1>0, <1>7, <3>1, <5>1 DEF Load, TypeOK, Same
        <5>2. CASE tracker = Empty
          BY <1>0, <1>7, <3>1, <5>2 DEF Load, TypeOK, Same, Empty, None
        <5>3. CASE tracker \notin {None, Empty}
          BY <1>0, <1>7, <3>1, <5>3 DEF Load, TypeOK, Same
        <5> QED BY <5>1, <5>2, <5>3
      <4> QED BY <3>1, <4>1 DEF Load
    <3>2. CASE LoadFile(r)
      BY <1>0, <1>7, <3>2 DEF LoadFile, TypeOK, Same
    <3> QED BY <1>7, <3>1, <3>2 DEF LoadStep
  <2>2. pc[r] \notin Terminal /\ LoadingRank(r) /\ LoadingRank(r)'
    BY <2>1 DEF LoadingRank, Terminal
  <2> QED BY <2>1, <2>2, GentleMove
<1> QED BY <1>1, <1>2, <1>3, <1>4, <1>5, <1>6, <1>7 DEF RankStep

\* A barrier stutters, or stops the job.
LEMMA BarrierGentle ==
  ASSUME IInv, IInv', Barrier
  PROVE  [Durable!Next]_(Durable!vars)
<1> USE DEF disk
<1>0. /\ UNCHANGED <<args, saved, state>> /\ 0 \in Ranks /\ TypeOK /\ Ranks' = Ranks
  BY RankFacts, JobKept DEF IInv, TypeOK, Barrier
<1>1. ASSUME NEW r \in Ranks
      PROVE  /\ pc[r] \in BarrierLabels /\ pc[r] = pc[0] /\ pc'[r] = AfterBarrier(r)
             /\ pc'[r] # "aborted" /\ pc[r] \notin Terminal
  <2>1. pc[r] \in BarrierLabels /\ pc[0] \in BarrierLabels /\ pc'[r] = AfterBarrier(r)
    BY <1>0 DEF Barrier
  <2>2. pc[r] = pc[0] /\ ret[r] = ret[0]
    BY <1>0, <2>1, Together DEF Waiting
  <2>3. pc'[r] # "aborted"
    BY <1>0, <2>2, BarrierRank
  <2> QED BY <2>1, <2>2, <2>3 DEF BarrierLabels, Terminal
<1>2. CASE Published(0)
  <2>1. TrainedNow = saved.model
    BY <1>2, TrainedIs DEF Published
  <2>2. TrainedNow' = saved.model
    BY <1>0, <1>2, TrainedIsPrimed DEF Published
  <2> QED BY <1>0, <1>1, <2>1, <2>2, StutterStopRefuse
<1>3. CASE ~Published(0)
  <2>1. pc[0] \in {"save_timer", "save_barrier"}
    BY <1>0, <1>1, <1>3 DEF IInv, RankInv, LoadInv, SaveInv, AfterSave, BarrierLabels, Publishing
  <2>2. ASSUME NEW r \in Ranks PROVE Gentle(r)
    <3>1. pc'[r] \in {"save", "open_tracker", "save_done"}
      BY <1>1, <2>1 DEF AfterBarrier
    <3> QED BY <1>0, <1>1, <2>1, <3>1 DEF Gentle, LoadingRank, Terminal
  <2> QED BY <1>0, <2>2, GentleStep
<1> QED BY <1>2, <1>3

\* The collectives but the training step and the barriers.
LEMMA CollectiveGentle ==
  ASSUME IInv, Collective, ~TrainStep, ~Barrier
  PROVE  /\ UNCHANGED <<args, saved>>
         /\ \A r \in Ranks : Gentle(r)
<1> USE DEF disk, AllAt, At, Everyone
<1>0. TypeOK
  BY DEF IInv
<1>1. CASE StartTime \/ Metadata
  BY <1>1 DEF StartTime, Metadata, Gentle, LoadingRank, Terminal
<1>2. CASE Evaluate
  <2>1. ASSUME NEW r \in Ranks
        PROVE  /\ pc[r] = "evaluate" /\ pc'[r] \in {"signals", "checkpoint"}
               /\ state'[r].model = state[r].model
    <3>1. state[r] \in State
      BY <1>0 DEF TypeOK
    <3>2. state'[r] = [state[r] EXCEPT !.consumed_valid = @ + Draw(r)]
      BY <1>2 DEF Evaluate
    <3>3. state'[r].model = state[r].model
      BY <3>1, <3>2 DEF State
    <3> QED BY <1>2, <3>3 DEF Evaluate, AfterEvaluation
  <2> QED BY <1>2, <2>1 DEF Evaluate, Gentle, LoadingRank, Terminal
<1>3. CASE LastEvaluations
  <2>1. ASSUME NEW r \in Ranks
        PROVE  /\ pc[r] = "last_evaluations" /\ pc'[r] = "finished"
               /\ state'[r].model = state[r].model
    <3>1. state[r] \in State
      BY <1>0 DEF TypeOK
    <3>2. state'[r] = [state[r] EXCEPT !.consumed_valid = @ + 2 * Draw(r)]
      BY <1>3 DEF LastEvaluations
    <3>3. state'[r].model = state[r].model
      BY <3>1, <3>2 DEF State
    <3> QED BY <1>3, <3>3 DEF LastEvaluations
  <2> QED BY <1>3, <2>1 DEF LastEvaluations, Gentle, LoadingRank, Terminal
<1>4. CASE Signals
  <2>1. ASSUME NEW r \in Ranks
        PROVE  /\ pc[r] = "signals" /\ pc'[r] \in {"save_timer", "checkpoint"}
               /\ state'[r] = state[r]
    BY <1>4 DEF Signals
  <2> QED BY <1>4, <2>1 DEF Signals, Gentle, LoadingRank, Terminal
<1>5. CASE Duration
  <2>1. PICK done \in BOOLEAN :
          /\ pc' = [r \in Ranks |-> IF ~done THEN "exits"
                                    ELSE IF saved_checkpoint[r] THEN "exited"
                                    ELSE "save_timer"]
          /\ ret' = [r \in Ranks |-> IF done THEN "exited" ELSE ret[r]]
    BY <1>5 DEF Duration
  <2>2. ASSUME NEW r \in Ranks
        PROVE  /\ pc[r] = "duration" /\ state'[r] = state[r]
               /\ \/ pc'[r] \in {"exits", "save_timer"}
                  \/ pc'[r] = "exited" /\ ret'[r] = "exited"
    BY <1>5, <2>1 DEF Duration
  <2> QED BY <1>5, <2>2 DEF Duration, Gentle, LoadingRank, Terminal
<1> QED BY <1>1, <1>2, <1>3, <1>4, <1>5 DEF Collective

\* What changes neither the ranks nor what is published.
LEMMA QuietGentle ==
  ASSUME IInv, IInv', UNCHANGED <<args, pc, ret, state, saved>>
  PROVE  [Durable!Next]_(Durable!vars)
<1>1. \A r \in Ranks : Gentle(r)
  BY DEF Gentle, LoadingRank
<1> QED BY <1>1, GentleStep

\* Whoever has saved at the last multiple of the interval is less than an
\* interval past it.
LEMMA BehindASave ==
  ASSUME args \in Configs, NEW i \in Nat, NEW j \in Nat, LastSave(i) <= j
  PROVE  i < j + args.save_interval
<1>1. PICK v \in Nat \ {0} : v = args.save_interval
  BY ArgsType
<1>2. PICK a \in Nat : a = i \div v
  BY <1>1, QuotientOfNat
<1>3. a * v + (i % v) = i /\ i % v \in 0 .. v - 1
  BY <1>2, Quotient
<1>4. a * v <= j /\ a * v \in Int
  BY <1>1, <1>2 DEF LastSave
<1>5. PICK m \in 0 .. v - 1 : m = i % v
  BY <1>3
<1>6. PICK p \in Int : p = a * v
  BY <1>4
<1>7. p + m = i /\ p <= j
  BY SMTT(60), <1>3, <1>4, <1>5, <1>6
<1> QED BY <1>1, <1>5, <1>7

\* A training step is a step of durable training.
LEMMA TrainStepIsStep ==
  ASSUME IInv, IInv', TrainStep
  PROVE  Durable!Step
<1> USE DEF disk
<1>0. /\ UNCHANGED <<args, saved>> /\ 0 \in Ranks /\ TypeOK /\ Ranks' = Ranks
      /\ args \in Configs
  BY RankFacts, JobKept DEF IInv, TypeOK, TrainStep
<1>1. ASSUME NEW r \in Ranks
      PROVE  /\ pc[r] = "train_step" /\ RankInv(r)
             /\ pc'[r] \in {"evaluate", "signals", "checkpoint"}
    BY DEF IInv, TrainStep, AllAt, At, AfterStep, AfterEvaluation
<1>2. ~Loading /\ ~Loading'
  <2>1. \A r \in Ranks : ~LoadingRank(r) /\ ~LoadingRank(r)'
    BY <1>1 DEF LoadingRank
  <2> QED BY <1>0, <2>1, TrainedIs, TrainedIsPrimed
<1>3. /\ StatusNow = "training" /\ StatusNow' = "training"
      /\ TrainedNow = state[0].model /\ TrainedNow' = state'[0].model
  <2>1. ~Refused /\ ~Refused' /\ ~Stopped /\ ~Stopped'
    BY <1>0, <1>1 DEF Refused, Stopped
  <2> QED BY <1>2, <2>1, TrainedIs, TrainedIsPrimed DEF StatusNow
<1>4. PICK s : s = state[0]
  OBVIOUS
<1>5. /\ s \in State /\ TrainCounted(s) /\ EvalCounted(s) /\ s.iteration < TrainIters
      /\ data_iterator[0] = s.consumed /\ Lags(0)
  BY <1>0, <1>1, <1>4 DEF RankInv, TrainInv, SaveInv, Unloaded, Early, TypeOK
<1>6. PICK applied \in BOOLEAN : state'[0] = Trained(s, s.consumed, applied)
  BY <1>0, <1>4, <1>5 DEF TrainStep
<1>7. PICK t : t = Trained(s, s.consumed, applied)
  OBVIOUS
<1>8. PICK b : b = GlobalBatchSize(s.consumed)
  OBVIOUS
<1>9. b \in Nat \ {0} /\ s.consumed \in Nat /\ s.iteration \in Nat /\ saved.iteration \in Nat
      /\ s.model \in Seq(TrainingStep)
  <2>1. s.consumed \in Nat /\ s.iteration \in Nat /\ saved.iteration \in Nat
        /\ s.model \in Seq(TrainingStep)
    BY <1>0, <1>5 DEF State, TypeOK
  <2>2. b \in 1 .. args.rampup.global
    BY <1>0, <1>8, <2>1, BatchType
  <2> QED BY <1>0, <2>1, <2>2, ArgsType
<1>10. LET last == t.model[Len(t.model)]
       IN /\ Len(t.model) = Len(s.model) + 1 /\ t.model # <<>>
          /\ SubSeq(t.model, 1, Len(s.model)) = s.model
          /\ last.from = s.consumed /\ last.to = s.consumed + b
  BY <1>0, <1>5, <1>7, <1>8, TrainedCounted
<1>11. Len(s.model) < Len(saved.model) + args.save_interval
  <2>1. s.iteration = Len(s.model) /\ saved.iteration = Len(saved.model)
    BY <1>5 DEF TrainCounted, IInv, DiskInv, Counted
  <2>2. LastSave(s.iteration) <= saved.iteration
    BY <1>4, <1>5 DEF Lags
  <2>3. s.iteration < saved.iteration + args.save_interval
    BY <1>0, <1>9, <2>2, BehindASave
  <2> QED BY <2>1, <2>3
<1>12. /\ s.consumed = Durable!Used(s.model)
       /\ Durable!Used(t.model) = s.consumed + b
  <2>1. s.consumed = Used(s.model)
    BY <1>5 DEF TrainCounted
  <2>2. Durable!Used(t.model) = t.model[Len(t.model)].to
    BY <1>10 DEF Durable!Used
  <2> QED BY <1>10, <2>1, <2>2 DEF Used, Durable!Used
<1>13. Durable!Used(t.model) > Durable!Used(s.model)
  BY <1>9, <1>12
<1>14. TrainedNow = s.model /\ TrainedNow' = t.model
  BY <1>3, <1>4, <1>6, <1>7
<1> USE DEF TrainedNow, StatusNow
<1> QED BY <1>0, <1>3, <1>10, <1>11, <1>12, <1>13, <1>14 DEF Durable!Step

\* Closing the tracker file publishes what has been trained.
LEMMA CloseTrackerIsPublish ==
  ASSUME IInv, IInv', NEW r \in Ranks, CloseTracker(r)
  PROVE  Durable!Publish
<1> USE DEF CloseTracker, At, Goto
<1>0. /\ UNCHANGED <<args, state, ret>> /\ 0 \in Ranks /\ TypeOK /\ Ranks' = Ranks /\ r = 0
      /\ saved' = state[0]
  BY RankFacts, JobKept DEF IInv, TypeOK, RankInv, FileInv
<1>1. ASSUME NEW q \in Ranks
      PROVE  pc[q] \in {"close_tracker", "save_done"} /\ pc'[q] = "save_done"
  BY <1>0, PublishingFacts DEF Publishing, TypeOK
<1>2. ~Loading /\ ~Loading'
  <2>1. \A q \in Ranks : ~LoadingRank(q) /\ ~LoadingRank(q)'
    BY <1>1 DEF LoadingRank
  <2> QED BY <1>0, <2>1, TrainedIs, TrainedIsPrimed
<1>3. /\ StatusNow = "training" /\ StatusNow' = "training"
      /\ TrainedNow = state[0].model /\ TrainedNow' = state[0].model
  <2>1. ~Refused /\ ~Refused' /\ ~Stopped /\ ~Stopped'
    BY <1>0, <1>1 DEF Refused, Stopped
  <2> QED BY <1>0, <1>2, <2>1, TrainedIs, TrainedIsPrimed DEF StatusNow
<1> USE DEF TrainedNow, StatusNow
<1> QED BY <1>0, <1>3 DEF Durable!Publish

\* A launch goes back to what was published.
LEMMA LaunchIsRelaunch ==
  ASSUME IInv, IInv', Launch
  PROVE  Durable!Relaunch
<1> USE DEF disk
<1>0. UNCHANGED <<args, saved>> /\ 0 \in Ranks /\ Ranks' = Ranks
  BY RankFacts, JobKept DEF IInv, TypeOK, Launch
<1>1. \A r \in Ranks : pc'[r] = "init"
  BY DEF Launch, Everyone
<1>2. TrainedNow' = saved.model
  BY <1>0, <1>1, TrainedIsPrimed DEF LoadingRank
<1>3. StatusNow' = "training"
  BY <1>0, <1>1 DEF StatusNow, Refused, Stopped
<1> USE DEF TrainedNow, StatusNow
<1> QED BY <1>0, <1>2, <1>3 DEF Durable!Relaunch

\* The first launch starts durable training.
LEMMA InitIsInit == Init => Durable!Init
<1> SUFFICES ASSUME Init PROVE Durable!Init
  OBVIOUS
<1>0. /\ args \in Configs /\ 0 \in Ranks /\ saved.model = <<>>
      /\ \A r \in Ranks : pc[r] = "init"
  BY RankFacts DEF Init, Fresh
<1>1. args.save_interval \in Nat \ {0}
  BY <1>0, ArgsType
<1>2. Loading /\ ~Refused /\ ~Stopped
  BY <1>0 DEF Loading, Refused, Stopped
<1> QED BY <1>0, <1>1, <1>2 DEF Durable!Init

\* Every step is one of durable training, or a stutter.
LEMMA NextImplements ==
  ASSUME KillSwitchAlone, IInv, IInv', [Next]_vars
  PROVE  [Durable!Next]_(Durable!vars)
<1> USE DEF disk, local, env
<1>1. ASSUME NEW r \in Ranks, RankStep(r) PROVE [Durable!Next]_(Durable!vars)
  <2>1. CASE CloseTracker(r)
    BY <2>1, CloseTrackerIsPublish DEF Durable!Next
  <2>2. CASE ~CloseTracker(r)
    <3>1. UNCHANGED <<args, saved>> /\ \A q \in Ranks : Gentle(q)
      BY <1>1, <2>2, RankStepGentle
    <3> QED BY <3>1, GentleStep
  <2> QED BY <2>1, <2>2
<1>2. ASSUME NEW r \in Ranks, Crash(r) \/ Sigterm(r) PROVE [Durable!Next]_(Durable!vars)
  BY <1>2, QuietGentle DEF Crash, Sigterm
<1>3. CASE Collective
  <2>1. CASE TrainStep
    BY <2>1, TrainStepIsStep DEF Durable!Next
  <2>2. CASE Barrier
    BY <2>2, BarrierGentle
  <2>3. CASE ~TrainStep /\ ~Barrier
    <3>1. UNCHANGED <<args, saved>> /\ \A q \in Ranks : Gentle(q)
      BY <1>3, <2>3, CollectiveGentle
    <3> QED BY <3>1, GentleStep
  <2> QED BY <2>1, <2>2, <2>3
<1>4. CASE Restart \/ Resubmit
  BY <1>4, LaunchIsRelaunch DEF Restart, Resubmit, Durable!Next
<1>5. CASE CreateKillFile \/ Over \/ UNCHANGED vars
  BY <1>5, QuietGentle DEF CreateKillFile, Over, vars
<1> QED BY <1>1, <1>2, <1>3, <1>4, <1>5 DEF Next

\* pretrain() implements durable training: it goes on from exactly the
\* last published checkpoint or refuses to start, a crash loses at most
\* save_interval steps, and a job that stops by itself has everything
\* saved.
THEOREM Refinement ==
  ASSUME KillSwitchAlone PROVE Spec => ImplementsDurableTraining
<1>1. IInv /\ IInv' /\ [Next]_vars => [Durable!Next]_(Durable!vars)
  BY NextImplements
<1> QED BY <1>1, InitIsInit, Invariance, PTL
        DEF Spec, ImplementsDurableTraining, Durable!Spec
=============================================================================
