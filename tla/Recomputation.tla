---------------------------- MODULE Recomputation ----------------------------
(***************************************************************************)
(* The random numbers of dropout on the ranks of a pipeline stage: the     *)
(* generator of the device and the tracker for the tensor-parallel regions,*)
(* activation checkpointing, which runs layers a second time in the        *)
(* backward pass (megatron/core/tensor_parallel/random.py), the dropouts of*)
(* a transformer (megatron/model/transformer.py, language_model.py), and   *)
(* the generators in a checkpoint (megatron/checkpointing.py).             *)
(*                                                                         *)
(* A generator is its seed and how often it was drawn from; a mask is the  *)
(* generator it was drawn with, which determines it.  Ranks share no       *)
(* generator, and run the same passes: a step is the step of every rank.   *)
(* The order of the passes is any a pipeline schedule may have.            *)
(***************************************************************************)
EXTENDS Integers, Sequences, SequencesExt

CONSTANTS Configs,       \* the arguments a job may have
          Seed,          \* args.seed
          MaxIterations, \* bound on the iterations
          MaxRestarts    \* bound on the crashes

Config == [data_parallel_size : Nat \ {0},
           tensor_model_parallel_size : Nat \ {0},
           pipeline_rank : Nat,
           data_parallel_random_init : BOOLEAN,
           sequence_parallel : BOOLEAN,
           pre_process : BOOLEAN,       \* the stage has the embedding
           num_layers : Nat \ {0},      \* of the stage
           recompute : {"none", "selective", "uniform", "block"},
           recompute_num_layers : Nat \ {0},
           num_microbatches : Nat \ {0}]

\* validate_args turns sequence parallelism off without tensor parallelism.
\* Chunks of "uniform" that do not divide the layers run past the last one.
ASSUME ConfigsAssumption ==
  /\ Configs \subseteq Config
  /\ \A c \in Configs : /\ c.sequence_parallel => c.tensor_model_parallel_size > 1
                        /\ c.recompute = "uniform" => c.num_layers % c.recompute_num_layers = 0
ASSUME BoundsAssumption == Seed \in Nat /\ MaxIterations \in Nat /\ MaxRestarts \in Nat

VARIABLES
  args,
  rng,        \* rng[r]: the generators of rank r
  fork,       \* fork[r]: orig_cuda_rng_state of the fork around the layers
  pass,       \* the pass under way, and the unit of layers it is at
  graph,      \* what the outstanding forward passes left for the backward
  forwards, backwards, \* passes finished in this iteration
  iteration,
  checkpoint, \* what was saved last
  restarts,
  drawing,    \* drawing[r]: the masks of the pass under way
  drawn,      \* history: the masks of each forward pass of the job
  applied     \* history: the masks of each backward pass

schedule == <<forwards, backwards, iteration>>
job == <<args, checkpoint, restarts>>
vars == <<rng, fork, pass, graph, schedule, job, drawing, drawn, applied>>

\* A rank: its place in its data- and in its tensor-parallel group.
Ranks == (0 .. args.data_parallel_size - 1) \X (0 .. args.tensor_model_parallel_size - 1)

-----------------------------------------------------------------------------
\* Generators.

\* _set_random_seed, model_parallel_cuda_manual_seed.  Count 0 is after the
\* weights were initialized, which draws the same numbers in every job.
DataParallelSeed(r) ==
  Seed + 100 * args.pipeline_rank + (IF args.data_parallel_random_init THEN 10 * r[1] ELSE 0)
TensorModelParallelSeed(r) == DataParallelSeed(r) + 2718 + r[2]

Seeded(r) == [cuda |-> [seed |-> DataParallelSeed(r), count |-> 0],
              tracker |-> [seed |-> TensorModelParallelSeed(r), count |-> 0]]

\* The generators of a rank and the masks drawn with them in a unit.
Start(generators) == [cuda |-> generators.cuda, tracker |-> generators.tracker, masks |-> <<>>]
Generators(run) == [cuda |-> run.cuda, tracker |-> run.tracker]

Dropout(run) == [run EXCEPT !.masks = Append(@, run.cuda), !.cuda.count = @ + 1]

\* CudaRNGStatesTracker.fork, entered and left.
Fork(generators) == [generators EXCEPT !.cuda = generators.tracker]
Join(generators, orig) == [generators EXCEPT !.tracker = generators.cuda, !.cuda = orig]

\* Dropout in a fork of its own.
ForkedDropout(run) == Join(Dropout(Fork(run)), run.cuda)

-----------------------------------------------------------------------------
\* Layers.

Embedding(run) ==
  IF ~args.pre_process THEN run
  ELSE IF args.sequence_parallel THEN ForkedDropout(run) ELSE Dropout(run)

\* Mutant: the fork of the attention is forgotten.
AttentionUnforked(run) == Dropout(run)
\* The dropout of core attention; with sequence parallelism there is a fork
\* around all layers already.
Attention(run) == IF args.sequence_parallel THEN Dropout(run) ELSE ForkedDropout(run)

\* ParallelTransformerLayer.forward: attention, and the dropouts before the
\* two residual connections.
Residuals(run) == Dropout(Dropout(run))
Layer(run) == Residuals(Attention(run))

Layers(run, n) ==
  LET after[k \in 0 .. n] == IF k = 0 THEN run ELSE Layer(after[k - 1]) IN after[n]

\* The units of layers a forward pass consists of, and what of each is
\* checkpointed: all of it, its attention, or nothing.
Units ==
  IF args.recompute = "uniform"
  THEN [u \in 1 .. args.num_layers \div args.recompute_num_layers |->
          [recomputed |-> "all", layers |-> args.recompute_num_layers]]
  ELSE [u \in 1 .. args.num_layers |->
          [recomputed |-> IF args.recompute = "selective" THEN "attention"
                          ELSE IF args.recompute = "block" /\ u <= args.recompute_num_layers
                          THEN "all" ELSE "nothing",
           layers |-> 1]]

\* The masks that autograd keeps of a unit that has run.
Kept(unit, masks) ==
  CASE unit.recomputed = "all" -> <<>>
    [] unit.recomputed = "attention" -> Tail(masks)
    [] unit.recomputed = "nothing" -> masks

-----------------------------------------------------------------------------
\* Passes.

StartForward ==
  /\ pass.kind = "none"
  /\ iteration < MaxIterations
  /\ forwards < args.num_microbatches
  /\ LET run == [r \in Ranks |-> Embedding(Start(rng[r]))]
     IN /\ rng' = [r \in Ranks |-> IF args.sequence_parallel THEN Fork(Generators(run[r]))
                                   ELSE Generators(run[r])]
        /\ fork' = [r \in Ranks |-> run[r].cuda]
        /\ drawing' = [r \in Ranks |-> run[r].masks]
        /\ graph' = Append(graph, [embedding |-> [r \in Ranks |-> run[r].masks], units |-> <<>>])
  /\ pass' = [kind |-> "forward", unit |-> 1]
  /\ UNCHANGED <<schedule, job, drawn, applied>>

\* CheckpointFunction.forward for what is recomputed: the generators before
\* it are kept.  A layer begins with its attention.
ForwardUnit ==
  /\ pass.kind = "forward" /\ pass.unit <= Len(Units)
  /\ LET unit == Units[pass.unit]
         run == [r \in Ranks |-> Layers(Start(rng[r]), unit.layers)]
         left == [recomputed |-> unit.recomputed, layers |-> unit.layers, fwd |-> rng,
                  masks |-> [r \in Ranks |-> Kept(unit, run[r].masks)]]
     IN /\ rng' = [r \in Ranks |-> Generators(run[r])]
        /\ drawing' = [r \in Ranks |-> drawing[r] \o run[r].masks]
        /\ graph' = [graph EXCEPT ![Len(graph)].units = Append(@, left)]
  /\ pass' = [pass EXCEPT !.unit = @ + 1]
  /\ UNCHANGED <<fork, schedule, job, drawn, applied>>

\* Mutant: the fork around the layers is left without going back.
StayForked(generators, r) == [generators EXCEPT !.tracker = generators.cuda]
\* The generators after the layers.
Leave(generators, r) == Join(generators, fork[r])

EndForward ==
  /\ pass.kind = "forward" /\ pass.unit > Len(Units)
  /\ rng' = [r \in Ranks |-> IF args.sequence_parallel THEN Leave(rng[r], r) ELSE rng[r]]
  /\ forwards' = forwards + 1
  /\ LET i == iteration * args.num_microbatches + forwards'
     IN drawn' = IF i <= Len(drawn) THEN [drawn EXCEPT ![i] = drawing] ELSE Append(drawn, drawing)
  /\ pass' = [kind |-> "none", unit |-> 0]
  /\ UNCHANGED <<fork, graph, backwards, iteration, job, drawing, applied>>

StartBackward ==
  /\ pass.kind = "none"
  /\ graph # <<>>
  /\ pass' = [kind |-> "backward", unit |-> Len(Units)]
  /\ drawing' = [r \in Ranks |-> <<>>]
  /\ UNCHANGED <<rng, fork, graph, schedule, job, drawn, applied>>

\* Mutant: the states in the tracker are not those of the forward pass.
ReplayDefault(r, fwd) == Start([cuda |-> fwd.cuda, tracker |-> rng[r].tracker])
\* The generators a unit is run with again.
Replay(r, fwd) == Start(fwd)

\* CheckpointFunction.backward: the unit or its attention runs again, and
\* the generators are set back.
BackwardUnit ==
  /\ pass.kind = "backward" /\ pass.unit > 0
  /\ LET unit == graph[1].units[pass.unit]
         again == [r \in Ranks |->
                     CASE unit.recomputed = "all" -> Layers(Replay(r, unit.fwd[r]), unit.layers)
                       [] unit.recomputed = "attention" -> Attention(Replay(r, unit.fwd[r]))
                       [] unit.recomputed = "nothing" -> Start(rng[r])]
         bwd == rng
     IN /\ drawing' = [r \in Ranks |-> again[r].masks \o unit.masks[r] \o drawing[r]]
        /\ rng' = bwd
  /\ pass' = [pass EXCEPT !.unit = @ - 1]
  /\ UNCHANGED <<fork, graph, schedule, job, drawn, applied>>

EndBackward ==
  /\ pass.kind = "backward" /\ pass.unit = 0
  /\ applied' = Append(applied, [r \in Ranks |-> graph[1].embedding[r] \o drawing[r]])
  /\ graph' = Tail(graph)
  /\ backwards' = backwards + 1
  /\ pass' = [kind |-> "none", unit |-> 0]
  /\ UNCHANGED <<rng, fork, forwards, iteration, job, drawing, drawn>>

-----------------------------------------------------------------------------
\* get_rng_state on the ranks that write, those with data-parallel rank 0:
\* the states of the group if they differ, else their own.
RngState ==
  [t \in 0 .. args.tensor_model_parallel_size - 1 |->
     IF args.data_parallel_random_init
     THEN [d \in 0 .. args.data_parallel_size - 1 |-> rng[<<d, t>>]]
     ELSE [d \in {0} |-> rng[<<d, t>>]]]

\* The rng states of load_checkpoint.
Loaded(r, states) ==
  IF args.data_parallel_random_init THEN states[r[2]][r[1]] ELSE states[r[2]][0]

\* The optimizer step ends the iteration; at a save interval the job saves.
EndStep ==
  /\ pass.kind = "none"
  /\ backwards = args.num_microbatches
  /\ forwards' = 0 /\ backwards' = 0
  /\ iteration' = iteration + 1
  /\ checkpoint' \in {checkpoint, [iteration |-> iteration', rng_state |-> RngState]}
  /\ UNCHANGED <<rng, fork, pass, graph, args, restarts, drawing, drawn, applied>>

\* A crash, and a job that starts from the checkpoint, or from the seed.
Restart ==
  /\ restarts < MaxRestarts
  /\ restarts' = restarts + 1
  /\ rng' = [r \in Ranks |-> IF checkpoint.iteration = 0 THEN Seeded(r)
                             ELSE Loaded(r, checkpoint.rng_state)]
  /\ fork' = [r \in Ranks |-> rng'[r].cuda]
  /\ pass' = [kind |-> "none", unit |-> 0]
  /\ graph' = <<>>
  /\ forwards' = 0 /\ backwards' = 0
  /\ iteration' = checkpoint.iteration
  /\ drawing' = [r \in Ranks |-> <<>>]
  /\ applied' = SubSeq(applied, 1, checkpoint.iteration * args.num_microbatches)
  /\ UNCHANGED <<args, checkpoint, drawn>>

Ended == pass.kind = "none" /\ iteration = MaxIterations /\ UNCHANGED vars

Init ==
  /\ args \in Configs
  /\ rng = [r \in Ranks |-> Seeded(r)]
  /\ fork = [r \in Ranks |-> rng[r].cuda]
  /\ pass = [kind |-> "none", unit |-> 0]
  /\ graph = <<>>
  /\ forwards = 0 /\ backwards = 0 /\ iteration = 0
  /\ checkpoint = [iteration |-> 0, rng_state |-> RngState]
  /\ restarts = 0
  /\ drawing = [r \in Ranks |-> <<>>]
  /\ drawn = <<>> /\ applied = <<>>

Next == \/ StartForward \/ ForwardUnit \/ EndForward
        \/ StartBackward \/ BackwardUnit \/ EndBackward
        \/ EndStep \/ Restart \/ Ended

Spec == Init /\ [][Next]_vars

-----------------------------------------------------------------------------

Generator == [seed : Nat, count : Nat]

\* Types; and outside of a forward pass every rank draws from the default
\* generator it was seeded with, and tracks the other one, whatever passes
\* and restarts came before.
TypeOK ==
  /\ args \in Configs
  /\ rng \in [Ranks -> [cuda : Generator, tracker : Generator]]
  /\ fork \in [Ranks -> Generator]
  /\ pass \in [kind : {"none", "forward", "backward"}, unit : 0 .. Len(Units) + 1]
  /\ Len(graph) <= args.num_microbatches
  /\ forwards \in 0 .. args.num_microbatches /\ backwards \in 0 .. forwards
  /\ iteration \in 0 .. MaxIterations /\ restarts \in 0 .. MaxRestarts
  /\ pass.kind # "forward" =>
       \A r \in Ranks : /\ rng[r].cuda.seed = DataParallelSeed(r)
                        /\ rng[r].tracker.seed = TensorModelParallelSeed(r)

\* The place of a mask in a forward pass is one of a region that the
\* tensor-parallel ranks split: attention, or with sequence parallelism
\* any place.
Partitioned(place) ==
  \/ args.sequence_parallel
  \/ (place - (IF args.pre_process THEN 1 ELSE 0)) % 3 = 1

\* No rank uses the same random numbers for two dropouts, of whichever
\* microbatches and layers; the ranks of a tensor-parallel group use the
\* same ones where they hold the same activations and different ones where
\* each holds a part: forks are neither forgotten nor nested.
MasksIndependent ==
  \A r, q \in Ranks, i, j \in DOMAIN drawn :
    r[1] = q[1] =>
      \A m \in DOMAIN drawn[i][r], n \in DOMAIN drawn[j][q] :
        (drawn[i][r][m] = drawn[j][q][n]) <=>
          (i = j /\ m = n /\ (r = q \/ ~Partitioned(m)))

\* Recomputed or not, interleaved with other passes, interrupted and
\* resumed: the gradient of every microbatch is computed with the masks of
\* its forward pass on every rank, and these are the same after a restart.
Masks == INSTANCE DropoutMasks WITH
  forwards <- iteration * args.num_microbatches + forwards,
  saved <- checkpoint.iteration * args.num_microbatches
ImplementsDropoutMasks == Masks!Spec
=============================================================================
