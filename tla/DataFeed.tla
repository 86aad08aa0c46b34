------------------------------ MODULE DataFeed ------------------------------
(***************************************************************************)
(* How training samples reach the model: the batch samplers                *)
(* (megatron/data/data_samplers.py), the number of microbatches of a step  *)
(* and its ramp-up (megatron/microbatches.py), the number of iterations    *)
(* (update_train_iters) and the accounting of consumed samples by which a  *)
(* restarted job finds its place (megatron/training.py).                   *)
(*                                                                         *)
(* The first and the last pipeline stage of every data-parallel rank have  *)
(* a loader each, the one for the inputs, the other for the labels.  No    *)
(* loader talks to another: each computes its own slice of the data.  A    *)
(* sample is its index.  A permutation by torch.randperm is an arbitrary   *)
(* one, the same for every loader that seeds it with the same epoch.       *)
(***************************************************************************)
EXTENDS Integers, Sequences, FiniteSetsExt, SequencesExt

CONSTANTS Jobs,         \* the configurations a job may have
          MaxRestarts   \* bound on the crashes of a job

Layout == [micro_batch_size : Nat \ {0}, data_parallel_size : Nat \ {0}]

\* A layout and a count of rounds of micro_batch_size samples per rank.
Round(l) == l.micro_batch_size * l.data_parallel_size

RampedUp(j, consumed) ==
  IF consumed > j.rampup_samples THEN j.global_batch_size
  ELSE LET increments == (j.global_batch_size - j.start_batch_size) \div j.increment
           steps == (consumed * increments) \div j.rampup_samples
       IN j.start_batch_size + steps * j.increment

\* current_global_batch_size after update(consumed).  start_batch_size is
\* 0 in a job without --rampup-batch-size.
GlobalBatchSize(j, consumed) ==
  IF j.start_batch_size = 0 THEN j.global_batch_size ELSE RampedUp(j, consumed)

\* The samples of whole rounds, and those of one pass that are permuted.
ActiveSamples(j, l) == j.total_samples - (j.total_samples % Round(l))

BucketSize(j, l) ==
  IF j.data_sharding THEN (j.total_samples \div Round(l)) * l.micro_batch_size
  ELSE (j.total_samples \div l.micro_batch_size) * l.micro_batch_size

\* Batch sizes are multiples of a round (asserted by update), a ramp-up has
\* increments, and its samples are samples of the job.  A random order is
\* for one layout, and covers the data in whole rounds.
ASSUME JobsAssumption ==
  \A j \in Jobs :
    /\ j.total_samples \in Nat /\ j.train_samples \in Nat /\ j.global_batch_size \in Nat \ {0}
    /\ j.start_batch_size \in Nat /\ j.increment \in Nat /\ j.rampup_samples \in Nat
    /\ j.train_samples >= j.global_batch_size
    /\ j.dataloader_type \in {"single", "cyclic"} /\ j.data_sharding \in BOOLEAN
    /\ j.layouts \subseteq Layout
    /\ \A l \in j.layouts :
         /\ Round(l) <= j.total_samples
         /\ \A c \in 0 .. j.train_samples : GlobalBatchSize(j, c) % Round(l) = 0
    /\ j.start_batch_size > 0 =>
         /\ j.increment > 0
         /\ j.start_batch_size < j.global_batch_size
         /\ (j.global_batch_size - j.start_batch_size) % j.increment = 0
         /\ j.rampup_samples \in 1 .. j.train_samples
    /\ IF j.dataloader_type = "single" THEN j.train_samples <= j.total_samples
       ELSE /\ Cardinality(j.layouts) = 1
            /\ j.data_sharding \/ \A l \in j.layouts : j.total_samples % Round(l) = 0

\* torch.randperm(bucket_size) of every epoch that may begin.
ASSUME PermutationsAssumption ==
  \A j \in Jobs : j.dataloader_type = "cyclic" =>
    \A p \in j.permutations, l \in j.layouts :
      \A e \in 0 .. j.train_samples \div ActiveSamples(j, l) :
        p[e] \in Bijection(1 .. BucketSize(j, l), 0 .. BucketSize(j, l) - 1)

ASSUME MaxRestartsAssumption == MaxRestarts \in Nat

VARIABLES
  job,        \* args and len(dataset)
  permutation,\* permutation[e]: torch.randperm with generator seed e
  layout,     \* micro batch size and data-parallel size of this start
  phase,      \* "train", "down", "done", or "dry": StopIteration
  iteration, consumed_train_samples,
  sampler,    \* sampler[l]: consumed_samples of the sampler of loader l
  queue,      \* queue[l]: microbatches left in the pass of its iterator
  taken,      \* taken[l]: the microbatches it has given to this step
  checkpoint, \* iteration and consumed_train_samples, saved
  restarts,
  drawn       \* history: what each iteration trained on, when first reached

loaders == <<sampler, queue, taken>>
vars == <<job, permutation, layout, phase, iteration, consumed_train_samples, loaders,
          checkpoint, restarts, drawn>>

Loaders(l) == (0 .. l.data_parallel_size - 1) \X {"inputs", "labels"}

-----------------------------------------------------------------------------
\* update_train_iters.

\* The ramp-up phase: its iterations, and the samples they consume.
Rampup(j) ==
  LET rest[c \in 0 .. j.rampup_samples + j.global_batch_size] ==
        IF c > j.rampup_samples THEN [iterations |-> 0, consumed |-> c]
        ELSE LET next == rest[c + GlobalBatchSize(j, c)]
             IN [next EXCEPT !.iterations = @ + 1]
  IN rest[0]

\* Mutant: a partial last batch is trained on.
TrainItersRoundUp(j) ==
  IF j.start_batch_size = 0
  THEN (j.train_samples + j.global_batch_size - 1) \div j.global_batch_size
  ELSE LET r == Rampup(j)
       IN r.iterations + (j.train_samples - r.consumed + j.global_batch_size - 1)
                           \div j.global_batch_size

TrainIters(j) ==
  IF j.start_batch_size = 0 THEN j.train_samples \div j.global_batch_size
  ELSE LET r == Rampup(j)
       IN r.iterations + (j.train_samples - r.consumed) \div j.global_batch_size

-----------------------------------------------------------------------------
\* The samplers.

\* A list of samples, cut into microbatches; an incomplete one is dropped.
Microbatches(indices, size) ==
  [k \in 1 .. Len(indices) \div size |-> [i \in 1 .. size |-> indices[(k - 1) * size + i]]]

\* MegatronPretrainingSampler.__iter__: of every round, the slice of this
\* rank; the last incomplete round is dropped.
Sequential(l, rank, consumed) ==
  [k \in 1 .. (job.total_samples - consumed) \div Round(l) |->
     [i \in 1 .. l.micro_batch_size |->
        consumed + (k - 1) * Round(l) + rank * l.micro_batch_size + i - 1]]

\* Mutant: a resumed pass starts at the beginning of the bucket.
NoOffset(l, current) == 0
\* bucket_offset: what this rank's bucket has given in this epoch.
BucketOffset(l, current) == current \div l.data_parallel_size

\* MegatronPretrainingRandomSampler.__iter__
Random(l, rank, consumed) ==
  LET epoch == consumed \div ActiveSamples(job, l)
      current == consumed % ActiveSamples(job, l)
      bucket == BucketSize(job, l)
      sharded == [i \in 1 .. bucket - BucketOffset(l, current) |->
                    rank * bucket + permutation[epoch][BucketOffset(l, current) + i]]
      strided == [i \in 1 .. (bucket - current - rank + l.data_parallel_size - 1)
                               \div l.data_parallel_size |->
                    permutation[epoch][current + rank + (i - 1) * l.data_parallel_size + 1]]
  IN Microbatches(IF job.data_sharding THEN sharded ELSE strided, l.micro_batch_size)

Pass(l, rank, consumed) ==
  IF job.dataloader_type = "single" THEN Sequential(l, rank, consumed)
  ELSE Random(l, rank, consumed)

NumMicrobatches == GlobalBatchSize(job, consumed_train_samples) \div Round(layout)

-----------------------------------------------------------------------------
\* build_train_valid_test_data_iterators, after load_checkpoint.  The
\* sequential sampler also asserts that consumed < total_samples, which is
\* left out: the totals in MCJobs are not reached.
BuildIterators(l, consumed) ==
  /\ layout' = l
  /\ sampler' = [d \in Loaders(l) |-> consumed]
  /\ queue' = [d \in Loaders(l) |-> Pass(l, d[1], consumed)]
  /\ taken' = [d \in Loaders(l) |-> <<>>]

\* Mutant: the sampler counts the samples of its own rank only.
CountedOwn(l, count) == count + l.micro_batch_size
\* consumed_samples when a microbatch is yielded; the sequential sampler
\* leaves it as it is.
Counted(l, count) == IF job.dataloader_type = "single" THEN count ELSE count + Round(l)

\* A loader gives a microbatch to the step: next(data_iterator).  At the
\* end of a pass cyclic_iter starts another; without it, there is no more.
Take(d) ==
  LET left == IF queue[d] = <<>> /\ job.dataloader_type = "cyclic"
              THEN Pass(layout, d[1], sampler[d]) ELSE queue[d]
  IN /\ phase = "train"
     /\ iteration < TrainIters(job)
     /\ Len(taken[d]) < NumMicrobatches
     /\ IF left = <<>>
        THEN phase' = "dry" /\ UNCHANGED loaders
        ELSE /\ sampler' = [sampler EXCEPT ![d] = Counted(layout, @)]
             /\ queue' = [queue EXCEPT ![d] = Tail(left)]
             /\ taken' = [taken EXCEPT ![d] = Append(@, Head(left))]
             /\ UNCHANGED phase
     /\ UNCHANGED <<job, permutation, layout, iteration, consumed_train_samples,
                    checkpoint, restarts, drawn>>

\* The samples the job goes through.
Usable == IF job.dataloader_type = "single" THEN 0 .. job.total_samples - 1
          ELSE 0 .. ActiveSamples(job, layout) - 1

\* What the step trains on: how often it uses each sample, when the labels
\* are those of the inputs.
Batch ==
  LET ranks == 0 .. layout.data_parallel_size - 1
      given == [r \in ranks |-> FlattenSeq(taken[<<r, "inputs">>])]
      agree == \A r \in ranks : taken[<<r, "inputs">>] = taken[<<r, "labels">>]
      uses(i) == {u \in ranks \X (1 .. Len(given[0])) : given[u[1]][u[2]] = i}
  IN [i \in Usable |-> IF agree THEN Cardinality(uses(i)) ELSE 0]

\* The end of an iteration of train(): the ranks have met in the reduction
\* of the gradients, and what was consumed is counted.  The checkpoint is
\* saved at a save interval.
EndStep ==
  /\ phase = "train"
  /\ iteration < TrainIters(job)
  /\ \A d \in Loaders(layout) : Len(taken[d]) = NumMicrobatches
  /\ iteration' = iteration + 1
  /\ consumed_train_samples' = consumed_train_samples + NumMicrobatches * Round(layout)
  /\ taken' = [d \in Loaders(layout) |-> <<>>]
  /\ drawn' = IF iteration < Len(drawn) THEN [drawn EXCEPT ![iteration'] = Batch]
              ELSE Append(drawn, Batch)
  /\ checkpoint' \in {checkpoint,
       [iteration |-> iteration', consumed_train_samples |-> consumed_train_samples']}
  /\ UNCHANGED <<job, permutation, layout, phase, sampler, queue, restarts>>

Finish ==
  /\ phase = "train"
  /\ iteration >= TrainIters(job)
  /\ phase' = "done"
  /\ UNCHANGED <<job, permutation, layout, iteration, consumed_train_samples, loaders,
                 checkpoint, restarts, drawn>>

\* A crash loses all but the checkpoint.
Crash ==
  /\ phase = "train"
  /\ restarts < MaxRestarts
  /\ phase' = "down"
  /\ UNCHANGED <<job, permutation, layout, iteration, consumed_train_samples, loaders,
                 checkpoint, restarts, drawn>>

\* load_checkpoint restores the counters, and the loaders are built, maybe
\* for another layout.
Restart ==
  /\ phase = "down"
  /\ phase' = "train"
  /\ restarts' = restarts + 1
  /\ iteration' = checkpoint.iteration
  /\ consumed_train_samples' = checkpoint.consumed_train_samples
  /\ \E l \in job.layouts : BuildIterators(l, checkpoint.consumed_train_samples)
  /\ UNCHANGED <<job, permutation, checkpoint, drawn>>

Init ==
  /\ job \in Jobs
  /\ permutation \in job.permutations
  /\ layout \in job.layouts
  /\ phase = "train"
  /\ iteration = 0 /\ consumed_train_samples = 0
  /\ sampler = [d \in Loaders(layout) |-> 0]
  /\ queue = [d \in Loaders(layout) |-> Pass(layout, d[1], 0)]
  /\ taken = [d \in Loaders(layout) |-> <<>>]
  /\ checkpoint = [iteration |-> 0, consumed_train_samples |-> 0]
  /\ restarts = 0
  /\ drawn = <<>>

Ended == phase = "done" /\ UNCHANGED vars

Next == (\E d \in Loaders(layout) : Take(d)) \/ EndStep \/ Finish \/ Crash \/ Restart \/ Ended

\* A job goes on until it crashes, and is started again.
Spec == Init /\ [][Next]_vars
        /\ WF_vars(\E d \in Loaders(layout) : Take(d))
        /\ WF_vars(EndStep) /\ WF_vars(Finish) /\ WF_vars(Restart)

-----------------------------------------------------------------------------

\* Types; and every loader's place in the data is the one the accounting
\* of the whole job implies, so that it could be rebuilt at any step:
\* sampler.consumed_samples is ahead of consumed_train_samples by what the
\* loader has given to the step (data_samplers.py).
TypeOK ==
  /\ job \in Jobs /\ permutation \in job.permutations /\ layout \in job.layouts
  /\ phase \in {"train", "down", "done", "dry"}
  /\ iteration \in 0 .. TrainIters(job)
  /\ consumed_train_samples \in 0 .. job.train_samples
  /\ checkpoint.iteration \in 0 .. Len(drawn)
  /\ restarts \in 0 .. MaxRestarts
  /\ DOMAIN taken = Loaders(layout)
  /\ \A d \in Loaders(layout) :
       /\ Len(taken[d]) <= NumMicrobatches
       /\ \A m \in ToSet(taken[d]) : /\ Len(m) = layout.micro_batch_size
                                     /\ ToSet(m) \subseteq Usable
       /\ job.dataloader_type = "cyclic" =>
            sampler[d] = consumed_train_samples + Len(taken[d]) * Round(layout)

\* The iterations update_train_iters computes before the start are those
\* the loaders have samples for, ramp-up, epochs and restarts included:
\* none runs dry, and less than a batch is left at the end; and a pass in
\* random order starts where the assertion of __iter__ allows
\* (data_samplers.py:156).
TrainItersExact ==
  /\ phase # "dry"
  /\ phase = "done" =>
       job.train_samples - consumed_train_samples \in 0 .. job.global_batch_size - 1
  /\ job.dataloader_type = "cyclic" =>
       \A d \in Loaders(layout) : (sampler[d] % ActiveSamples(job, layout)) % Round(layout) = 0

\* The data-parallel ranks and the stages, each with its own iterator, its
\* own permutation and its own offset, train together on a stream of
\* batches that uses the samples evenly; after a crash, also in a pass of a
\* random order and also with another layout for a sequential one, the
\* batches trained again are the same; the number of iterations computed
\* before the start leaves less than a batch of train_samples untrained.
Stream == INSTANCE SampleStream WITH
  job <- [usable |-> Usable, train_samples |-> job.train_samples,
          global_batch_size |-> job.global_batch_size],
  trained <- iteration,
  saved <- checkpoint.iteration,
  finished <- phase = "done"
ImplementsStream == Stream!Spec

\* Every job ends: no loader runs out of samples before the iterations
\* computed by update_train_iters, in whatever order they are loaded.
Termination == <>(phase = "done")
=============================================================================
